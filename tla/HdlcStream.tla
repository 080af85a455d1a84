------------------------------ MODULE HdlcStream ------------------------------
(***************************************************************************)
(* Byte stuffing against the streaming parser of src/src/dlms_hdlc.c: one  *)
(* end sends the frames of dlms_hdlc_frame_encode byte by byte, with the   *)
(* loop of dlms_hdlc_stuff between two flags; the other end feeds what     *)
(* arrives to dlms_hdlc_parse.  The loops of both functions keep nothing   *)
(* from one byte to the next but the variables below, so that a step is an *)
(* iteration of each, whatever chunks the stream is cut into.              *)
(*                                                                         *)
(* The line may damage a byte: drop it, turn it into another one, or add   *)
(* one that was not sent.                                                  *)
(* Abstracted: frame contents are opaque bytes, and of frame_decode only   *)
(* the checks before it looks at the contents are kept.                    *)
(***************************************************************************)
EXTENDS Naturals, Sequences

CONSTANTS
    Bodies,        \* the frames sent, as they are before stuffing
    Cap,           \* parser->buf_cap
    DamageBytes,   \* what a damaged byte may turn into
    MaxDamage      \* bound of the model: damaged and added bytes in a behaviour

Byte == 0 .. 255
FLAG == 126
ESCAPE == 125

ASSUME StreamAssumption ==
    /\ Bodies # {} /\ Bodies \subseteq Seq(Byte) \ {<<>>}
    /\ Cap \in Nat \ {0}
    /\ DamageBytes \subseteq Byte
    /\ MaxDamage \in Nat

VARIABLES
    \* the sender
    phase,        \* what it sends next: nothing, a flag, the body, a flag
    body, sent,   \* the frame in hand and the number of its bytes sent
    half,         \* the escape byte of the next one is sent
    \* the parser
    state, buf,   \* parser->state and the buf_len bytes of parser->buf
    \* history of the current frame
    handed,       \* what the parser has given to frame_decode since it began
    delivered,    \* the callback has been called since it began
    intact,       \* no byte was damaged or added since it began
    prev_intact,  \* nor any of the frame before it
    damage        \* number of bytes damaged or added so far

senderVars  == <<phase, body, sent, half>>
parserVars  == <<state, buf, handed, delivered>>
historyVars == <<intact, prev_intact, damage>>
vars == <<senderVars, parserVars, historyVars>>

Phases == {"gap", "open", "body", "close"}
ParserStates == {"IDLE", "RECEIVING", "ESCAPE"}

TypeOK ==
    /\ phase \in Phases
    /\ body \in Bodies
    /\ sent \in 0 .. Len(body)
    /\ half \in BOOLEAN
    /\ state \in ParserStates
    /\ buf \in Seq(Byte) /\ Len(buf) <= Cap
    /\ handed \in Seq(Seq(Byte))
    /\ delivered \in BOOLEAN
    /\ intact \in BOOLEAN /\ prev_intact \in BOOLEAN
    /\ damage \in 0 .. MaxDamage

\* dlms_hdlc_parser_create; nothing sent yet.
Init ==
    /\ phase = "gap" /\ body \in Bodies /\ sent = 0 /\ half = FALSE
    /\ state = "IDLE" /\ buf = <<>>
    /\ handed = <<>> /\ delivered = FALSE
    /\ intact = TRUE /\ prev_intact = TRUE /\ damage = 0

------------------------------------------------------------------------------
(* The sender: dlms_hdlc_frame_encode and dlms_hdlc_stuff. *)

\* b ^ 0x20
Flip(b) == IF (b \div 32) % 2 = 1 THEN b - 32 ELSE b + 32

FlagsOnly(b) == b = FLAG        \* defect: the escape byte itself is sent bare
needs_escape(b) == b \in {FLAG, ESCAPE, 93, 125}

StartFrame ==
    /\ phase = "gap"
    /\ phase' = "open"
    /\ body' \in Bodies
    /\ sent' = 0
    /\ half' = FALSE
    /\ handed' = <<>>
    /\ delivered' = FALSE
    /\ prev_intact' = intact
    /\ intact' = TRUE
    /\ UNCHANGED <<state, buf, damage>>

\* The byte on the line.
OnWire ==
    IF phase # "body" THEN FLAG
    ELSE IF half THEN Flip(body[sent + 1])
    ELSE IF needs_escape(body[sent + 1]) THEN ESCAPE
    ELSE body[sent + 1]

SendFlag ==
    /\ phase \in {"open", "close"}
    /\ phase' = IF phase = "open" THEN "body" ELSE "gap"
    /\ UNCHANGED <<body, sent, half>>

SendEscape ==
    /\ phase = "body"
    /\ ~half /\ needs_escape(body[sent + 1])
    /\ half' = TRUE
    /\ UNCHANGED <<phase, body, sent>>

SendByte ==
    /\ phase = "body"
    /\ half \/ ~needs_escape(body[sent + 1])
    /\ half' = FALSE
    /\ sent' = sent + 1
    /\ phase' = IF sent + 1 = Len(body) THEN "close" ELSE "body"
    /\ UNCHANGED body

Advance == SendFlag \/ SendEscape \/ SendByte

------------------------------------------------------------------------------
(* The parser: dlms_hdlc_parse. *)

\* A byte that does not fit is dropped without an error.
StoreUnbounded(b) == buf' = Append(buf, b)       \* defect: buf_cap unchecked
StoreOffByOne(b) == buf' = IF Len(buf) <= Cap THEN Append(buf, b) ELSE buf  \* defect
Store(b) ==
    buf' = IF Len(buf) < Cap THEN Append(buf, b) ELSE buf

ReceiveIdle(b) ==
    /\ state = "IDLE"
    /\ IF b = FLAG
       THEN state' = "RECEIVING" /\ buf' = <<>>
       ELSE UNCHANGED <<state, buf>>
    /\ UNCHANGED <<handed, delivered>>

\* frame_decode is given buf_len + 2 bytes and wants at least 8, the first a
\* flag; whether the rest is a frame is left open.
DecodeMayAccept == Len(buf) + 2 >= 8 /\ buf[1] = FLAG

\* A flag ends the frame, and begins the next one.
KeepsBuffer == UNCHANGED buf                     \* defect: buf_len not reset
ClearBuffer == buf' = <<>>
ReceiveFlag(b) ==
    /\ state = "RECEIVING"
    /\ b = FLAG
    /\ IF buf # <<>>
       THEN /\ handed' = Append(handed, buf)
            /\ delivered' \in {delivered} \cup (IF DecodeMayAccept THEN {TRUE} ELSE {})
       ELSE UNCHANGED <<handed, delivered>>
    /\ ClearBuffer
    /\ UNCHANGED state

ReceiveEscape(b) ==
    /\ state = "RECEIVING"
    /\ b = ESCAPE
    /\ state' = "ESCAPE"
    /\ UNCHANGED <<buf, handed, delivered>>

ReceiveByte(b) ==
    /\ state = "RECEIVING"
    /\ b \notin {FLAG, ESCAPE}
    /\ Store(b)
    /\ UNCHANGED <<state, handed, delivered>>

\* Whatever follows an escape is data, a flag too.
ReceiveEscaped(b) ==
    /\ state = "ESCAPE"
    /\ Store(Flip(b))
    /\ state' = "RECEIVING"
    /\ UNCHANGED <<handed, delivered>>

dlms_hdlc_parse(b) ==
    \/ ReceiveIdle(b)
    \/ ReceiveFlag(b)
    \/ ReceiveEscape(b)
    \/ ReceiveByte(b)
    \/ ReceiveEscaped(b)

\* The application gives up on what it has received, or dlms_hdlc_parser_create is
\* called for another line and returns the same parser; the frame that happens in
\* the middle of is not received whole.
dlms_hdlc_parser_reset ==
    /\ buf' = <<>>
    /\ state' = "IDLE"
    /\ intact' = (intact /\ phase \in {"gap", "open"})
    /\ UNCHANGED <<senderVars, handed, delivered, prev_intact, damage>>

------------------------------------------------------------------------------
(* The line. *)

Transmit ==
    /\ Advance
    /\ dlms_hdlc_parse(OnWire)
    /\ UNCHANGED historyVars

\* A byte is dropped, or another one arrives in its place.
Damage ==
    /\ damage < MaxDamage
    /\ Advance
    /\ \/ UNCHANGED parserVars
       \/ \E b \in DamageBytes \ {OnWire} : dlms_hdlc_parse(b)
    /\ intact' = FALSE
    /\ damage' = damage + 1
    /\ UNCHANGED prev_intact

\* A byte that was not sent: noise, or one of another line whose application fed
\* it to the parser that both have from dlms_hdlc_parser_create.
ForeignByte ==
    /\ damage < MaxDamage
    /\ \E b \in DamageBytes : dlms_hdlc_parse(b)
    /\ intact' = FALSE
    /\ damage' = damage + 1
    /\ UNCHANGED <<senderVars, prev_intact>>

Next ==
    \/ StartFrame
    \/ Transmit
    \/ Damage
    \/ ForeignByte
    \/ dlms_hdlc_parser_reset

Spec == Init /\ [][Next]_vars

------------------------------------------------------------------------------
(* Properties. *)

\* What fits the parser's buffer of the first n bytes of the frame sent.
Fitting(n) == SubSeq(body, 1, IF n < Cap THEN n ELSE Cap)

\* An intact frame that follows an intact frame (or nothing) reaches
\* frame_decode exactly once, unstuffed, whole up to buf_cap: no byte of a
\* frame, escaped or not, is taken for a flag, and none is lost or doubled.
Reassembled ==
    phase = "gap" /\ intact /\ prev_intact /\ sent > 0 =>
        handed = <<Fitting(Len(body))>>

\* Between two frames.
Waiting == state # "ESCAPE" /\ (state = "RECEIVING" => buf = <<>>)

\* Damage is forgotten: however the line damaged what came before, after an
\* intact frame the parser waits between two frames with an empty buffer, so
\* that at most one intact frame in a row is missed.
Resynchronised ==
    phase = "gap" /\ intact => Waiting

\* The callback is called for the frames received.
FramesDelivered ==
    phase = "gap" /\ intact /\ prev_intact /\ sent > 0 /\ Len(body) <= Cap => delivered

\* What the parser holds inside an intact frame: its opening flag puts the
\* parser in step with the sender, which keeps it there byte by byte.
InStep ==
    intact /\ phase \in {"body", "close"} =>
        /\ state = IF half THEN "ESCAPE" ELSE "RECEIVING"
        /\ prev_intact => buf = Fitting(sent) /\ handed = <<>>

==============================================================================
