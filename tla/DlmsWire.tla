------------------------------- MODULE DlmsWire -------------------------------
(***************************************************************************)
(* The serial line between the client of src/src/dlms_client.c and a       *)
(* meter, as the client sees it through its two callbacks                  *)
(* (include/dlms/dlms_client.h, dlms_io_send_t and dlms_io_recv_t):        *)
(*                                                                         *)
(*   - send_fn transmits one HDLC frame, or fails and transmits nothing;   *)
(*   - recv_fn hands over the bytes that have arrived, or times out.       *)
(*                                                                         *)
(* The line itself is not part of the repository.  What it may do wrong is *)
(* the constant Faults, so that one specification covers a perfect line    *)
(* (Faults = {}) and a bad one.  Frames are records that keep what the     *)
(* client or the meter branch on: addresses, checksums and the N(R) field, *)
(* which neither side looks at, are abstracted.                            *)
(***************************************************************************)
EXTENDS Naturals, Sequences, AareResult

CONSTANTS
    Reqs,       \* the application's APDUs; a request is told apart by its value
    UaInfos,    \* the HDLC parameters a UA may carry, [win, rx]; 0: absent
    AareForms,  \* how the meter writes the result field of an AARE
    Faults,     \* what the line may do wrong, a subset of FaultKinds
    MaxWire     \* bound of the model: frames in flight in each direction

FaultKinds ==
    {"send_error",  \* send_fn fails
     "lost_up",     \* a frame of the client never reaches the meter
     "lost_down",   \* a frame of the meter never reaches the client
     "late",        \* recv_fn times out although an answer is on its way
     "garbled",     \* a received frame fails the FCS check
     "coalesced",   \* recv_fn returns two frames in one chunk
     "split"}       \* recv_fn returns a frame in two chunks

\* uint8_t and uint16_t.
U8  == 0 .. 255
U16 == 0 .. 65535

ASSUME WireAssumption ==
    /\ Reqs # {}
    /\ Reqs \cap {"none", "AARQ", "AARE"} = {}
    /\ UaInfos # {} /\ UaInfos \subseteq [win : U8, rx : U16]
    /\ AareForms # {} /\ AareForms \subseteq AareFormKinds
    /\ Faults \subseteq FaultKinds
    /\ MaxWire \in Nat /\ MaxWire >= 2

VARIABLES
    up,    \* frames sent by the client, not yet seen by the meter
    down   \* frames sent by the meter, not yet received by the client

wireVars == <<up, down>>

\* Sequence numbers are three bits wide (& 0x07 in the code).
SeqNums == 0 .. 7
SuccUnwrapped(n) == n + 1       \* defect: the mask & 0x07 is missing
Succ(n) == (n + 1) % 8

WrongControl == [t |-> "DISC"]  \* defect: SNRM built with the control byte of DISC
Snrm == [t |-> "SNRM"]
Disc == [t |-> "DISC"]
Info(ns, body) == [t |-> "I", ns |-> ns, body |-> body]

UpFrames ==
    [t : {"SNRM", "DISC"}] \cup [t : {"I"}, ns : SeqNums, body : Reqs \cup {"AARQ"}]

\* DATA and AARE are I-frames told apart by their APDU; DM is decoded by the
\* client as an UI frame; JUNK is a chunk frame_decode rejects.
Ua(i)      == [t |-> "UA", info |-> i]
Rr         == [t |-> "RR"]
Dm         == [t |-> "UI"]
Junk       == [t |-> "JUNK"]
Data(r)    == [t |-> "DATA", body |-> r]
Aare(f, a, u) == [t |-> "AARE", form |-> f, accept |-> a, ui |-> u]

DownFrames ==
    [t : {"UA"}, info : UaInfos]
    \cup [t : {"RR", "UI", "JUNK"}]
    \cup [t : {"DATA"}, body : Reqs]
    \cup [t : {"AARE"}, form : AareForms, accept : BOOLEAN, ui : BOOLEAN]

WireTypeOK ==
    /\ up \in Seq(UpFrames)
    /\ down \in Seq(DownFrames)
    /\ Len(up) <= MaxWire
    /\ Len(down) <= MaxWire

WireInit ==
    /\ up = <<>>
    /\ down = <<>>

------------------------------------------------------------------------------
(* The two callbacks. *)

\* send_fn returns DLMS_OK.
SendOK(f) ==
    /\ Len(up) < MaxWire
    /\ up' = Append(up, f)

\* send_fn returns an error.
SendError ==
    /\ "send_error" \in Faults
    /\ UNCHANGED up

\* The chunks one call of recv_fn may return, as frame_decode sees them, each
\* with what it leaves for the next call.
Arrivals ==
    IF down = <<>>
    THEN {}
    ELSE {[frame |-> Head(down), rest |-> Tail(down)]}
         \cup {[frame |-> Junk, rest |-> Tail(down)] : x \in Faults \cap {"garbled"}}
         \cup {[frame |-> Junk, rest |-> <<Junk>> \o Tail(down)] : x \in Faults \cap {"split"}}
         \cup {[frame |-> Junk, rest |-> Tail(Tail(down))] :
                   x \in {y \in Faults \cap {"coalesced"} : Len(down) >= 2}}

\* recv_fn returns an error or no bytes: nothing will arrive any more, or what
\* is on its way arrives too late.
RecvTimeout ==
    /\ \/ "late" \in Faults
       \/ up = <<>> /\ down = <<>>
    /\ UNCHANGED down

------------------------------------------------------------------------------
(* Losses.  A frame is lost where it would have been delivered. *)

LoseUp ==
    /\ "lost_up" \in Faults
    /\ up # <<>>
    /\ up' = Tail(up)
    /\ UNCHANGED down

LoseDown ==
    /\ "lost_down" \in Faults
    /\ down # <<>>
    /\ down' = Tail(down)
    /\ UNCHANGED up

==============================================================================
