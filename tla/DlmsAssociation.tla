---------------------------- MODULE DlmsAssociation ----------------------------
(***************************************************************************)
(* One dlms_associate of dlms_client.c, byte by byte: the AARQ is encoded  *)
(* and put in an I-frame; the meter decodes both with the library's own    *)
(* functions and answers with an AARE, whole or as the first segment of    *)
(* one that its frames do not hold; the client decodes that.  DlmsClient   *)
(* models the same call with every APDU as one value.                      *)
(***************************************************************************)
EXTENDS DlmsAsn1, HdlcCodec, AareResult

CONSTANTS
    Requests,   \* [dlms_version, auth_mech, auth_value] the client may ask with
    Answers,    \* the AAREs the meter may answer with
    Segments,   \* bytes the first segment of one may hold
    Answered    \* bound of the model: the requests every answer is tried on

\* An AARE: the form of its result; whether it has the diagnostics and the
\* responding AE; the fields of its user information if ui.  An authentication
\* value or a title may be <<>>, for none, and a PDU size 0.
ASSUME AssociationAssumption ==
    /\ \A r \in Requests :
           r \in [dlms_version : U8, auth_mech : 0 .. 7, auth_value : Seq(U8)]
    /\ \A a \in Answers :
           /\ a \in [form : AareFormKinds, accept : BOOLEAN, diag : BOOLEAN, ae : BOOLEAN,
                     ui : BOOLEAN, dlms_version : U8, auth_mech : U8, auth_value : Seq(U8),
                     title : Seq(U8), pdu : U16]
           /\ Len(a.title) <= 8
    /\ Segments \subseteq Nat \ {0}
    /\ Answered \subseteq Requests

VARIABLES
    request,    \* what the application asked for, or NoRequest
    returned,   \* the return code of dlms_associate, "none" while it runs
    wire,       \* the bytes of the frame in flight
    seen,       \* what the meter has decoded of the AARQ
    answer,     \* the AARE of the meter, and whether it was sent whole, or NoAnswer
    aare        \* what dlms_aare_decode has made of it

vars == <<request, returned, wire, seen, answer, aare>>

NoRequest == [auth_mech |-> "none"]
Nothing == [code |-> "none"]
NoAnswer == [whole |-> FALSE]

Init ==
    /\ request = NoRequest
    /\ returned = "none"
    /\ wire = <<>>
    /\ seen = Nothing
    /\ answer = NoAnswer
    /\ aare = Nothing

Client == [logical |-> 16, physical |-> 0, has_physical |-> FALSE]
Server == [logical |-> 1, physical |-> 0, has_physical |-> FALSE]

\* The first I-frame in either direction; it ends with the final bit.
dlms_hdlc_build_info(dest, src, info, dst_size) ==
    dlms_hdlc_frame_encode([type |-> "INFO", dest |-> dest, src |-> src, send_seq |-> 0,
                            recv_seq |-> 0, final |-> TRUE, info |-> info], dst_size)

FrameBuf == 512

\* dlms_associate up to send_fn.
dlms_associate ==
    /\ request = NoRequest
    /\ \E r \in Requests :
          LET aarq == dlms_aarq_encode(r, FrameBuf)
              frame == IF aarq.code = "OK"
                       THEN dlms_hdlc_build_info(Server, Client, aarq.bytes, FrameBuf) ELSE aarq
          IN  /\ request' = r
              /\ IF frame.code = "OK"
                 THEN wire' = frame.wire /\ UNCHANGED returned
                 ELSE returned' = frame.code /\ UNCHANGED wire
    /\ UNCHANGED <<seen, answer, aare>>

MeterReceives ==
    /\ wire # <<>> /\ seen = Nothing
    /\ LET frame == dlms_hdlc_frame_decode(wire)
       IN  seen' = IF frame.code = "OK" THEN dlms_aarq_decode(frame.info) ELSE frame
    /\ wire' = <<>>
    /\ UNCHANGED <<request, returned, answer, aare>>

------------------------------------------------------------------------------
(* The AARE of a meter. *)

InitiateResponse(a) ==
    <<0, 1, a.dlms_version, 1, a.auth_mech>>
    \o (IF a.title = <<>> THEN <<0>> ELSE <<1, Len(a.title)>> \o a.title)
    \o (IF a.pdu = 0 THEN <<0>> ELSE <<1, Hi(a.pdu), Lo(a.pdu)>>)

UserInformation(a) ==
    (IF a.auth_value = <<>> THEN <<>> ELSE Tagged(128, a.auth_value))
    \o Tagged(129, InitiateResponse(a))

ResultField(a) ==
    LET value == IF a.accept THEN 0 ELSE 1
    IN  CASE a.form = "bare"    -> <<2, value>>
          [] a.form = "tlv"     -> Tagged(2, <<value>>)
          [] a.form = "wrapped" -> Tagged(162, Tagged(2, <<value>>))

AareBytes(a) ==
    Tagged(TAG_AARE,
           app_ctx \o ResultField(a)
           \o (IF a.diag THEN Tagged(161, <<2, 0>>) ELSE <<>>)
           \o (IF a.ae THEN Tagged(128, <<>>) ELSE <<>>)
           \o (IF a.ui THEN Tagged(190, UserInformation(a)) ELSE <<>>))

\* A BER length has two bytes at most here.
ASSUME AareAssumption == \A a \in Answers : Len(AareBytes(a)) \in U16

MeterAnswers ==
    /\ seen # Nothing /\ answer = NoAnswer
    /\ request \in Answered
    /\ \E a \in Answers :
       \E n \in {Len(AareBytes(a))} \cup {m \in Segments : m < Len(AareBytes(a))} :
          LET frame == dlms_hdlc_build_info(Client, Server, SubSeq(AareBytes(a), 1, n), FrameBuf)
          IN  /\ frame.code = "OK"
              /\ wire' = frame.wire
              /\ answer' = [aare |-> a, whole |-> n = Len(AareBytes(a))]
    /\ UNCHANGED <<request, returned, seen, aare>>

\* dlms_associate from recv_fn on.
dlms_associate_aare ==
    /\ answer # NoAnswer /\ returned = "none"
    /\ LET frame == dlms_hdlc_frame_decode(wire)
       IN  aare' = IF frame.code # "OK" THEN frame
                   ELSE IF frame.type # "INFO" \/ frame.info = <<>> THEN Error("PARSE")
                   ELSE dlms_aare_decode(frame.info)
    /\ returned' = IF aare'.code # "OK" THEN aare'.code
                   ELSE IF aare'.result # 0 THEN "ERROR" ELSE "OK"
    /\ wire' = <<>>
    /\ UNCHANGED <<request, seen, answer>>

Next ==
    \/ dlms_associate
    \/ MeterReceives
    \/ MeterAnswers
    \/ dlms_associate_aare

Spec == Init /\ [][Next]_vars

------------------------------------------------------------------------------
(* Properties. *)

\* The decoder takes one byte for the length of an authentication value, where BER
\* has two above 127: the AAREs that the meter can send to this client.
Expressible == \A a \in Answers : Len(a.auth_value) <= 127

\* Every AARQ that dlms_associate hands to send_fn, whatever the password has
\* in it and however long it is, reaches a meter that uses this library as it
\* was asked: through BER, A-XDR, checksum and byte stuffing, and back.
AarqUnderstood ==
    seen # Nothing =>
        /\ seen.code = "OK"
        /\ seen.consumed = Len(dlms_aarq_encode(request, FrameBuf).bytes)
        /\ seen.dlms_version = request.dlms_version
        /\ seen.auth_mech = request.auth_mech
        /\ seen.auth_value = request.auth_value

\* Of an AARE in the form the decoder expects, every field that it carries arrives as
\* sent, whichever optional elements precede it.
AareUnderstood ==
    aare # Nothing /\ answer.whole /\ answer.aare.form = "bare" =>
        LET a == answer.aare
        IN  /\ aare.code = "OK"
            /\ (aare.result = 0) = a.accept
            /\ a.ui =>
                   /\ aare.dlms_version = a.dlms_version
                   /\ aare.auth_mech = a.auth_mech
                   /\ aare.auth_value = a.auth_value
                   /\ aare.title = a.title
                   /\ a.pdu # 0 => aare.negotiated_max_pdu_size = a.pdu

\* The first segment of a longer AARE is never taken for the whole: the call
\* fails, whatever element the segment ends in.
SegmentRejected ==
    aare # Nothing /\ ~answer.whole => returned \notin {"OK", "ERROR", "none"}

\* DlmsClient decides on the result and the PDU size as the bytes do.
DecodedSizes ==
    IF aare.negotiated_max_pdu_size = Unset THEN {} ELSE {aare.negotiated_max_pdu_size}
AbstractionAgrees ==
    aare # Nothing /\ answer.whole =>
        /\ returned = (IF aare_result(answer.aare) = 0 THEN "OK" ELSE "ERROR")
        /\ DecodedSizes \subseteq negotiated_pdu(answer.aare, {answer.aare.pdu})

==============================================================================
