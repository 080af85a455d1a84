------------------------------ MODULE HdlcFrame ------------------------------
(***************************************************************************)
(* A frame on its way: one end builds it with the builders of dlms_hdlc.c  *)
(* (lines 542 to 615), the line may flip a bit, the other end decodes what *)
(* arrives.  The parameters of SNRM and UA are collected with              *)
(* dlms_hdlc_param_list_set first.                                         *)
(***************************************************************************)
EXTENDS HdlcCodec

CONSTANTS
    Servers,     \* source addresses, [logical, physical, has_physical]
    Infos,       \* information fields of I and UI frames
    Settings,    \* [type, value] the application may put in the list
    MaxSettings, \* bound of the model: how many of them
    NoisyInfos,  \* the line may flip a bit of a frame with this information
    DstSize      \* size of the buffer the frame is built in

Parameters == [type : U8, value : U16]

ASSUME FrameAssumption ==
    /\ Servers \subseteq Addresses
    /\ Infos \subseteq Seq(U8)
    /\ Settings \subseteq Parameters
    /\ MaxSettings \in Nat /\ DstSize \in Nat

VARIABLES
    params,    \* the parameter list of the sender
    frame,     \* the frame sent, or NoFrame
    wire,      \* its bytes on the line
    flipped,   \* a bit has been flipped
    received   \* what frame_decode made of them

vars == <<params, frame, wire, flipped, received>>

\* The destination is encoded as frame_decode expects a client address, in one
\* byte, and the source as a server address, whichever end sends the frame.
Client == [logical |-> 16, physical |-> 0, has_physical |-> FALSE]
NoFrame == [type |-> "none"]
Nothing == [code |-> "none"]

Init ==
    /\ params = <<>>
    /\ frame = NoFrame
    /\ wire = <<>>
    /\ flipped = FALSE
    /\ received = Nothing

\* dlms_hdlc_param_list_set
SetParam ==
    /\ frame = NoFrame
    /\ Len(params) < MaxSettings
    /\ \E s \in Settings : params' = dlms_hdlc_param_list_set(params, s.type, s.value)
    /\ UNCHANGED <<frame, wire, flipped, received>>

Frame(type, server, ns, nr, final, info) ==
    [type |-> type, dest |-> Client, src |-> server, send_seq |-> ns, recv_seq |-> nr,
     final |-> final, info |-> info]

\* dlms_hdlc_build_snrm and _ua carry the parameters.
Negotiating(server) ==
    {Frame(t, server, 0, 0, FALSE, dlms_hdlc_param_list_encode(params)) : t \in {"SNRM", "UA"}}

dlms_hdlc_build_disc(server) == Frame("DISC", server, 0, 0, FALSE, <<>>)
dlms_hdlc_build_rr(server, nr) == Frame("RR", server, 0, nr, FALSE, <<>>)
dlms_hdlc_build_info(server, ns, nr, final, info) == Frame("INFO", server, ns, nr, final, info)

\* UI frames have no builder.
Others(server) ==
    {dlms_hdlc_build_disc(server)}
    \cup {dlms_hdlc_build_rr(server, nr) : nr \in 0 .. 7}
    \cup {dlms_hdlc_build_info(server, ns, nr, final, info) :
              ns \in 0 .. 7, nr \in 0 .. 7, final \in BOOLEAN, info \in Infos}
    \cup {Frame("UI", server, 0, 0, final, info) : final \in BOOLEAN, info \in Infos}

Build ==
    /\ frame = NoFrame
    /\ \E server \in Servers :
       \E f \in Negotiating(server) \cup (IF params = <<>> THEN Others(server) ELSE {}) :
          LET built == dlms_hdlc_frame_encode(f, DstSize)
          IN  /\ built.code = "OK"
              /\ frame' = f
              /\ wire' = built.wire
    /\ UNCHANGED <<params, flipped, received>>

FlipBit ==
    /\ wire # <<>> /\ ~flipped /\ received = Nothing
    /\ frame.info \in NoisyInfos
    /\ \E i \in 1 .. Len(wire), bit \in 0 .. 7 :
          wire' = [wire EXCEPT ![i] = Xor(@, 2^bit)]
    /\ flipped' = TRUE
    /\ UNCHANGED <<params, frame, received>>

Receive ==
    /\ wire # <<>> /\ received = Nothing
    /\ received' = dlms_hdlc_frame_decode(wire)
    /\ UNCHANGED <<params, frame, wire, flipped>>

Next ==
    \/ SetParam
    \/ Build
    \/ FlipBit
    \/ Receive

Spec == Init /\ [][Next]_vars

------------------------------------------------------------------------------
(* What a frame can carry. *)

\* A frame of 257 or 258 bytes is built, since its FCS is not counted, and refused by
\* the other end; it takes a buffer of 516 and an information field of 245 bytes.
Expressible ==
    /\ \A a \in Servers : PlainAddress(a)
    /\ DstSize < 2 * MAX_FRAME_SIZE + 4 \/ \A i \in Infos : Len(i) <= MAX_FRAME_SIZE - 12

------------------------------------------------------------------------------
(* Properties. *)

\* A frame built by one end and received undamaged means the same to the other:
\* type, destination, sequence numbers, final bit and every byte of information,
\* whatever had to be escaped; and its source comes back in the one way ServerRead
\* has it, with the groups of seven bits of each half exchanged.
RoundTrip ==
    received # Nothing /\ ~flipped => received = Meaning(frame)

\* A frame with one wrong bit is never accepted, be the bit in a flag, in an
\* escape sequence (where it makes or unmakes a byte) or anywhere else.
BitErrorsRejected ==
    received # Nothing /\ flipped => received.code # "OK"

\* The parameters negotiated are the parameters set, the last value of each
\* type, in the width of its type.
InWidth(p) == [p EXCEPT !.value = IF p.type \in WideParams THEN @ ELSE Lo(@)]
ParamsSurvive ==
    received.code = "OK" /\ received.type \in {"SNRM", "UA"} /\ received.info # <<>> =>
        LET got == dlms_hdlc_param_list_decode(received.info)
        IN  /\ got.code = "OK"
            /\ got.list = [i \in 1 .. Len(params) |-> InWidth(params[i])]
            /\ \A i, j \in 1 .. Len(got.list) :
                   got.list[i].type = got.list[j].type => i = j

\* A checksum computed piecewise, cut anywhere, is that of the whole.
CrcIncremental ==
    ~flipped /\ received = Nothing =>
        \A n \in 0 .. Len(wire) :
            dlms_crc16_update(dlms_crc16(SubSeq(wire, 1, n)),
                              SubSeq(wire, n + 1, Len(wire))) = dlms_crc16(wire)

==============================================================================
