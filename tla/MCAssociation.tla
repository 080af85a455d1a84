----------------------------- MODULE MCAssociation -----------------------------
(* Values of the constants of DlmsAssociation for model checking. *)
EXTENDS DlmsAssociation

\* Around every limit on the way of the password: the last lengths in the short
\* form, the last AARQ that fits a frame, the last that fits its buffer; made of
\* plain bytes, and of bytes that are escaped.
MCLengths == {0, 1, 8, 51, 52, 53, 57, 58, 107, 108, 109, 110, 118, 119, 120, 121}
MCRequests ==
    {[dlms_version |-> 6, auth_mech |-> m, auth_value |-> [i \in 1 .. n |-> b]] :
        m \in {0, 1, 5}, n \in MCLengths, b \in {49, 125, 126}}
MCAnswered == {[dlms_version |-> 6, auth_mech |-> 5, auth_value |-> <<126>>]}

MCAnswers ==
    {[form |-> f, accept |-> acc, diag |-> d, ae |-> e, ui |-> u, dlms_version |-> 6,
      auth_mech |-> 5, auth_value |-> v, title |-> t, pdu |-> p] :
        f \in AareFormKinds, acc \in BOOLEAN, d \in BOOLEAN, e \in BOOLEAN, u \in BOOLEAN,
        v \in {<<>>, <<129, 1>>, [i \in 1 .. 120 |-> 126]},
        t \in {<<>>, <<77, 69, 84, 0, 0, 0, 0, 1>>}, p \in {0, 126, 32000}}

\* The theorems about AAREs speak of these answers.
ASSUME ExpressibleHere == Expressible

\* What the compiled library builds for a password of two flags.
ASSUME Vectors ==
    LET aarq == dlms_aarq_encode([dlms_version |-> 6, auth_mech |-> 1,
                                  auth_value |-> <<126, 126>>], FrameBuf)
        frame == dlms_hdlc_build_info(Server, Client, aarq.bytes, FrameBuf)
    IN  /\ aarq.bytes = <<96, 28>> \o app_ctx
                        \o <<190, 17, 128, 2, 126, 126, 129, 11,
                             0, 0, 1, 6, 1, 1, 1, 2, 126, 126, 0>>
        /\ frame.wire = <<126, 160, 38, 3, 0, 33, 16, 227, 35, 96, 28>> \o app_ctx
                        \o <<190, 17, 128, 2, 125, 94, 125, 94, 129, 11,
                             0, 0, 1, 6, 1, 1, 1, 2, 125, 94, 125, 94, 0, 240, 130, 126>>

==============================================================================
