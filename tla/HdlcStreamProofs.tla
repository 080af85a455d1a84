--------------------------- MODULE HdlcStreamProofs ---------------------------
(***************************************************************************)
(* Proofs about HdlcStream, for every set of frames, every capacity of the *)
(* parser's buffer and any amount of damage.                               *)
(***************************************************************************)
EXTENDS HdlcStream, SequenceTheorems, TLAPS

\* What else is true of the sender and, between two frames, of the parser.
StreamInv ==
    /\ TypeOK
    /\ phase = "body" => sent < Len(body)
    /\ phase # "body" => ~half
    /\ phase = "close" => sent = Len(body)
    /\ phase = "open" => sent = 0 /\ (intact => handed = <<>> /\ (prev_intact => Waiting))
    /\ InStep
    /\ Resynchronised
    /\ Reassembled

------------------------------------------------------------------------------
(* Bytes. *)

\* The exclusive or with 20 hex is its own inverse, on bytes.
LEMMA FlipTwice == \A b \in Byte : Flip(b) \in Byte /\ Flip(Flip(b)) = b
BY SMT DEF Flip, Byte

\* The bytes with a meaning to the parser are never sent bare.
LEMMA EscapedBytes == \A b : ~needs_escape(b) => b \notin {FLAG, ESCAPE}
BY SMT DEF needs_escape, FLAG, ESCAPE

\* One more byte of the frame.
LEMMA NextByte ==
    ASSUME NEW s \in Seq(Byte), NEW n \in 0 .. Len(s) - 1
    PROVE  Append(SubSeq(s, 1, n), s[n + 1]) = SubSeq(s, 1, n + 1)
<1> DEFINE t == SubSeq(s, 1, n)  u == SubSeq(s, 1, n + 1)
<1>1. /\ t \in Seq(Byte) /\ Len(t) = n /\ \A i \in 1 .. n : t[i] = s[i]
      /\ u \in Seq(Byte) /\ Len(u) = n + 1 /\ \A i \in 1 .. n + 1 : u[i] = s[i]
    BY SMT
<1>2. s[n + 1] \in Byte
    BY SMT
<1> HIDE DEF t, u
<1>3. Append(t, s[n + 1]) \in Seq(Byte) /\ Len(Append(t, s[n + 1])) = Len(u)
    BY <1>1, <1>2, SMT
<1>4. \A i \in 1 .. Len(u) : Append(t, s[n + 1])[i] = u[i]
    BY <1>1, <1>2, SMT
<1>5. Append(t, s[n + 1]) = u
    BY <1>1, <1>3, <1>4, SeqEqual
<1>6. QED
    BY <1>5 DEF t, u

\* A byte stored by the parser keeps its buffer the fitting part of the frame.
LEMMA StoreFits ==
    ASSUME body \in Seq(Byte), Cap \in Nat \ {0},
           NEW n \in 0 .. Len(body) - 1,
           buf = Fitting(n), Store(body[n + 1]), UNCHANGED body
    PROVE  buf' = Fitting(n + 1)'
<1>1. CASE n < Cap
  <2>1. buf = SubSeq(body, 1, n)
    BY <1>1, Zenon DEF Fitting
  <2>2. Len(buf) = n
    BY <2>1, SMT
  <2>3. buf' = Append(buf, body[n + 1])
    BY <1>1, <2>2, SMT DEF Store
  <2>4. buf' = SubSeq(body, 1, n + 1)
    BY <2>1, <2>3, NextByte
  <2>5. (IF n + 1 < Cap THEN n + 1 ELSE Cap) = n + 1
    BY <1>1, SMT
  <2>6. QED
    BY <2>4, <2>5, Zenon DEF Fitting
<1>2. CASE ~(n < Cap)
  <2>1. buf = SubSeq(body, 1, Cap)
    BY <1>2, Zenon DEF Fitting
  <2>2. Len(buf) = Cap
    BY <1>2, <2>1, SMT
  <2>3. buf' = buf
    BY <2>2, SMT DEF Store
  <2>4. (IF n + 1 < Cap THEN n + 1 ELSE Cap) = Cap
    BY <1>2, SMT
  <2>5. QED
    BY <2>1, <2>3, <2>4, Zenon DEF Fitting
<1>3. QED
    BY <1>1, <1>2

\* The frame in hand.
LEMMA BodyTyped ==
    ASSUME TypeOK
    PROVE  body \in Seq(Byte) /\ body # <<>> /\ Len(body) \in Nat \ {0}
<1>1. body \in Seq(Byte) /\ body # <<>>
    BY StreamAssumption, Zenon DEF TypeOK, StreamAssumption
<1>2. QED
    BY <1>1, SMT

------------------------------------------------------------------------------
(* Types. *)

\* What is on the line is a byte.
LEMMA OnWireByte ==
    ASSUME StreamInv
    PROVE  OnWire \in Byte
<1>1. FLAG \in Byte /\ ESCAPE \in Byte
    BY SMT DEF FLAG, ESCAPE, Byte
<1>2. ASSUME phase = "body" PROVE body[sent + 1] \in Byte
    BY <1>2, BodyTyped, SMT DEF StreamInv, TypeOK
<1>3. QED
    BY <1>1, <1>2, FlipTwice, Zenon DEF OnWire

\* What dlms_hdlc_parse does with one byte, by its state and the byte.
LEMMA ParseEffect ==
    ASSUME NEW b, dlms_hdlc_parse(b)
    PROVE  /\ state = "IDLE" /\ b = FLAG =>
                  state' = "RECEIVING" /\ buf' = <<>> /\ handed' = handed
           /\ state = "RECEIVING" /\ b = FLAG =>
                  /\ state' = "RECEIVING" /\ buf' = <<>>
                  /\ handed' = IF buf # <<>> THEN Append(handed, buf) ELSE handed
           /\ state = "RECEIVING" /\ b = ESCAPE =>
                  state' = "ESCAPE" /\ buf' = buf /\ handed' = handed
           /\ state = "RECEIVING" /\ b \notin {FLAG, ESCAPE} =>
                  state' = "RECEIVING" /\ Store(b) /\ handed' = handed
           /\ state = "ESCAPE" =>
                  state' = "RECEIVING" /\ Store(Flip(b)) /\ handed' = handed
<1>1. FLAG # ESCAPE
    BY SMT DEF FLAG, ESCAPE
<1>2. CASE ReceiveIdle(b)
    BY <1>2, Zenon DEF ReceiveIdle
<1>3. CASE ReceiveFlag(b)
    BY <1>1, <1>3, Zenon DEF ReceiveFlag, ClearBuffer
<1>4. CASE ReceiveEscape(b)
    BY <1>1, <1>4, Zenon DEF ReceiveEscape
<1>5. CASE ReceiveByte(b)
    BY <1>5, Zenon DEF ReceiveByte
<1>6. CASE ReceiveEscaped(b)
    BY <1>6, Zenon DEF ReceiveEscaped
<1>7. QED
    BY <1>2, <1>3, <1>4, <1>5, <1>6 DEF dlms_hdlc_parse

\* A byte into the parser.
LEMMA ParseTyped ==
    ASSUME TypeOK, NEW b \in Byte, dlms_hdlc_parse(b)
    PROVE  /\ state' \in ParserStates
           /\ buf' \in Seq(Byte) /\ Len(buf') <= Cap
           /\ handed' \in Seq(Seq(Byte))
           /\ delivered' \in BOOLEAN
<1>1. buf \in Seq(Byte) /\ Len(buf) <= Cap /\ Cap \in Nat /\ handed \in Seq(Seq(Byte))
    BY StreamAssumption DEF TypeOK, StreamAssumption
<1>2. ASSUME NEW c \in Byte, Store(c) PROVE buf' \in Seq(Byte) /\ Len(buf') <= Cap
  <2> DEFINE B == Byte
  <2>1. buf \in Seq(B) /\ c \in B
    BY <1>1
  <2> HIDE DEF B
  <2>2. Append(buf, c) \in Seq(B) /\ Len(Append(buf, c)) = Len(buf) + 1 /\ Len(buf) \in Nat
    BY <2>1, SMT
  <2>3. buf' \in Seq(B) /\ Len(buf') <= Cap
    BY <1>1, <1>2, <2>1, <2>2, SMT DEF Store
  <2>4. QED
    BY <2>3 DEF B
<1>3. state' \in ParserStates
  <2>1. state' = state \/ state' = "RECEIVING" \/ state' = "ESCAPE"
    BY Zenon DEF dlms_hdlc_parse, ReceiveIdle, ReceiveFlag, ReceiveEscape, ReceiveByte,
       ReceiveEscaped
  <2>2. QED
    BY <2>1, SMT DEF TypeOK, ParserStates
<1>4. buf' \in Seq(Byte) /\ Len(buf') <= Cap
  <2>1. \/ buf' = <<>>
        \/ buf' = buf
        \/ \E c \in Byte : Store(c)
    BY FlipTwice, Zenon DEF dlms_hdlc_parse, ReceiveIdle, ReceiveFlag, ReceiveEscape,
       ReceiveByte, ReceiveEscaped, ClearBuffer
  <2>2. CASE buf' = <<>>
    BY <1>1, <2>2, SMT
  <2>3. CASE buf' = buf
    BY <1>1, <2>3
  <2>4. QED
    BY <1>2, <2>1, <2>2, <2>3
<1>5. handed' \in Seq(Seq(Byte))
  <2>1. handed' = handed \/ handed' = Append(handed, buf)
    BY Zenon DEF dlms_hdlc_parse, ReceiveIdle, ReceiveFlag, ReceiveEscape, ReceiveByte,
       ReceiveEscaped
  <2> DEFINE S == Seq(Byte)
  <2>2. handed \in Seq(S) /\ buf \in S
    BY <1>1
  <2> HIDE DEF S
  <2>3. handed' \in Seq(S)
    BY <2>1, <2>2, SMT
  <2>4. QED
    BY <2>3 DEF S
<1>6. delivered' \in BOOLEAN
  <2>1. delivered' = delivered \/ delivered' = TRUE
    BY Zenon DEF dlms_hdlc_parse, ReceiveIdle, ReceiveFlag, ReceiveEscape, ReceiveByte,
       ReceiveEscaped
  <2>2. QED
    BY <2>1, Zenon DEF TypeOK
<1>7. QED
    BY <1>3, <1>4, <1>5, <1>6

\* What the sender keeps true.
SenderInv ==
    /\ phase \in Phases
    /\ body \in Bodies
    /\ sent \in 0 .. Len(body)
    /\ half \in BOOLEAN
    /\ phase = "body" => sent < Len(body)
    /\ phase # "body" => ~half
    /\ phase = "close" => sent = Len(body)

LEMMA AdvanceTyped ==
    ASSUME StreamInv, Advance
    PROVE  SenderInv' /\ phase' # "open"
<1>1. /\ phase \in Phases /\ body \in Bodies /\ sent \in 0 .. Len(body)
      /\ phase = "body" => sent < Len(body)
      /\ phase = "open" => sent = 0
      /\ Len(body) \in Nat \ {0}
      /\ body' = body
    BY BodyTyped, Zenon DEF StreamInv, TypeOK, Advance, SendFlag, SendEscape, SendByte
<1>2. CASE SendFlag
  <2>1. half' = half /\ ~half
    BY <1>2, Zenon DEF SendFlag, StreamInv
  <2>2. phase' \in Phases /\ phase' # "open" /\ phase' # "close" /\ sent' = sent
    BY <1>2, SMT DEF SendFlag, Phases
  <2>3. phase' = "body" => sent' < Len(body')
    BY <1>1, <1>2, <2>2, SMT DEF SendFlag
  <2>4. half \in BOOLEAN
    BY DEF StreamInv, TypeOK
  <2>5. QED
    BY <1>1, <2>1, <2>2, <2>3, <2>4, Zenon DEF SenderInv
<1>3. CASE SendEscape
    BY <1>1, <1>3, Zenon DEF SendEscape, SenderInv
<1>4. CASE SendByte
  <2>1. half' = FALSE
    BY <1>4 DEF SendByte
  <2>2. phase' \in Phases /\ phase' # "open" /\ sent' \in 0 .. Len(body)
    BY <1>1, <1>4, SMT DEF SendByte, Phases
  <2>3. /\ phase' = "body" => sent' < Len(body)
        /\ phase' = "close" => sent' = Len(body)
    BY <1>1, <1>4, SMT DEF SendByte
  <2>4. QED
    BY <1>1, <2>1, <2>2, <2>3, Zenon DEF SenderInv
<1>5. QED
    BY <1>2, <1>3, <1>4 DEF Advance

------------------------------------------------------------------------------
(* Sender and parser in step. *)

\* A byte that arrives as it was sent.
LEMMA TransmitInStep ==
    ASSUME StreamInv, Transmit
    PROVE  InStep' /\ Resynchronised' /\ Reassembled'
<1>1. /\ body \in Seq(Byte) /\ body # <<>> /\ Len(body) \in Nat \ {0}
      /\ body' = body /\ Cap \in Nat \ {0}
      /\ sent \in 0 .. Len(body)
    BY BodyTyped, StreamAssumption, Zenon
    DEF StreamInv, TypeOK, Transmit, Advance, SendFlag, SendEscape, SendByte, StreamAssumption
<1>2. intact' = intact /\ prev_intact' = prev_intact
    BY DEF Transmit, historyVars
<1>3. \A n : Fitting(n)' = Fitting(n)
    BY <1>1, Zenon DEF Fitting
<1>4. dlms_hdlc_parse(OnWire)
    BY DEF Transmit
<1>5. CASE SendFlag /\ phase = "open"
  <2>1. OnWire = FLAG /\ FLAG # ESCAPE
    BY <1>5, SMT DEF OnWire, FLAG, ESCAPE
  <2>2. phase' = "body" /\ sent' = 0 /\ ~half'
    BY <1>5, Zenon DEF SendFlag, StreamInv
  <2>3. state = "IDLE" \/ state = "RECEIVING" \/ state = "ESCAPE"
    BY SMT DEF StreamInv, TypeOK, ParserStates
  <2>4. state' = "RECEIVING"
    BY <1>4, <2>3, <2>1, ParseEffect, Zenon
  <2>5. ASSUME intact, prev_intact PROVE buf' = <<>> /\ handed' = <<>>
    <3>1. state # "ESCAPE" /\ (state = "RECEIVING" => buf = <<>>) /\ handed = <<>>
      BY <1>5, <2>5, Zenon DEF StreamInv, Waiting
    <3>2. QED
      BY <1>4, <2>3, <2>1, <3>1, ParseEffect, Zenon
  <2>6. Fitting(0) = <<>>
    BY <1>1, SMT DEF Fitting
  <2>7. InStep'
    BY <1>2, <1>3, <2>2, <2>4, <2>5, <2>6, Zenon DEF InStep
  <2>8. Resynchronised' /\ Reassembled'
    BY <2>2, SMT DEF Resynchronised, Reassembled
  <2>9. QED
    BY <2>7, <2>8
<1>6. CASE SendFlag /\ phase = "close"
  <2>1. OnWire = FLAG /\ FLAG # ESCAPE
    BY <1>6, SMT DEF OnWire, FLAG, ESCAPE
  <2>2. phase' = "gap" /\ sent' = sent /\ sent = Len(body) /\ ~half
    BY <1>6, SMT DEF SendFlag, StreamInv
  <2>3. InStep'
    BY <2>2, SMT DEF InStep
  <2>4. SUFFICES ASSUME intact PROVE Resynchronised' /\ Reassembled'
    BY <1>2, <2>3, Zenon DEF Resynchronised, Reassembled
  <2>5. state = "RECEIVING"
    BY <1>6, <2>2, <2>4, Zenon DEF StreamInv, InStep
  <2>6. state' = "RECEIVING" /\ buf' = <<>> /\ (buf # <<>> => handed' = Append(handed, buf))
    BY <1>4, <2>1, <2>5, ParseEffect, Zenon
  <2>7. ASSUME prev_intact PROVE handed' = <<Fitting(Len(body))>>
    <3>1. buf = Fitting(Len(body)) /\ handed = <<>>
      BY <1>6, <2>2, <2>4, <2>7, Zenon DEF StreamInv, InStep
    <3>2. Fitting(Len(body)) # <<>>
      <4> DEFINE m == IF Len(body) < Cap THEN Len(body) ELSE Cap
      <4>1. m \in 1 .. Len(body)
        BY <1>1, SMT
      <4> HIDE DEF m
      <4>2. Len(SubSeq(body, 1, m)) = m
        BY <1>1, <4>1, SMT
      <4>3. SubSeq(body, 1, m) # <<>>
        BY <4>1, <4>2, SMT
      <4>4. QED
        BY <4>3 DEF m, Fitting
    <3>3. handed' = Append(<<>>, Fitting(Len(body)))
      BY <2>6, <3>1, <3>2
    <3>4. QED
      BY <3>3, SMT
  <2>8. Resynchronised'
    BY <2>6, SMT DEF Resynchronised, Waiting
  <2>9. Reassembled'
    BY <1>1, <1>2, <1>3, <2>7, Zenon DEF Reassembled
  <2>10. QED
    BY <2>8, <2>9
<1>7. CASE SendEscape \/ SendByte
  <2>1. phase = "body" /\ phase' \in {"body", "close"}
    BY <1>7, SMT DEF SendEscape, SendByte
  <2>2. Resynchronised' /\ Reassembled'
    BY <2>1, SMT DEF Resynchronised, Reassembled
  <2>3. SUFFICES ASSUME intact PROVE InStep'
    BY <1>2, <2>2, Zenon DEF InStep
  <2>4. /\ state = IF half THEN "ESCAPE" ELSE "RECEIVING"
        /\ prev_intact => buf = Fitting(sent) /\ handed = <<>>
    BY <2>1, <2>3, Zenon DEF StreamInv, InStep
  <2>5. sent \in 0 .. Len(body) - 1 /\ body[sent + 1] \in Byte
    BY <1>1, <2>1, SMT DEF StreamInv
  <2>6. CASE SendEscape
    <3>1. ~half /\ half' /\ sent' = sent
      BY <2>6, Zenon DEF SendEscape
    <3>2. OnWire = ESCAPE /\ ESCAPE # FLAG
      BY <2>1, <2>6, SMT DEF OnWire, SendEscape, ESCAPE, FLAG
    <3>3. state = "RECEIVING"
      BY <2>4, <3>1, Zenon
    <3>4. state' = "ESCAPE" /\ buf' = buf /\ handed' = handed
      BY <1>4, <3>2, <3>3, ParseEffect, Zenon
    <3>5. QED
      BY <1>2, <1>3, <2>4, <3>1, <3>4, Zenon DEF InStep
  <2>7. CASE SendByte
    <3>1. ~half' /\ sent' = sent + 1
      BY <2>7, Zenon DEF SendByte
    <3>2. state' = "RECEIVING" /\ Store(body[sent + 1]) /\ handed' = handed
      <4>1. CASE half
        <5>1. OnWire = Flip(body[sent + 1]) /\ state = "ESCAPE"
          BY <2>1, <2>4, <4>1, Zenon DEF OnWire
        <5>2. Flip(OnWire) = body[sent + 1]
          BY <2>5, <5>1, FlipTwice
        <5>3. QED
          BY <1>4, <5>1, <5>2, ParseEffect, Zenon
      <4>2. CASE ~half
        <5>1. ~needs_escape(body[sent + 1])
          BY <2>7, <4>2, Zenon DEF SendByte
        <5>2. OnWire = body[sent + 1] /\ state = "RECEIVING"
          BY <2>1, <2>4, <4>2, <5>1, Zenon DEF OnWire
        <5>3. OnWire \notin {FLAG, ESCAPE}
          BY <5>1, <5>2, EscapedBytes
        <5>4. QED
          BY <1>4, <5>2, <5>3, ParseEffect, Zenon
      <4>3. QED
        BY <4>1, <4>2
    <3>3. prev_intact => buf' = Fitting(sent + 1)
      BY <1>1, <1>3, <2>4, <2>5, <3>2, StoreFits, Zenon
    <3>4. QED
      BY <1>2, <1>3, <2>4, <3>1, <3>2, <3>3, Zenon DEF InStep
  <2>8. QED
    BY <1>7, <2>6, <2>7
<1>8. QED
  <2>1. SendFlag => phase = "open" \/ phase = "close"
    BY SMT DEF SendFlag
  <2>2. QED
    BY <1>5, <1>6, <1>7, <2>1 DEF Transmit, Advance

\* A damaged byte: nothing is claimed of the frame it belongs to.
LEMMA DamageInStep ==
    ASSUME Damage
    PROVE  InStep' /\ Resynchronised' /\ Reassembled'
BY Zenon DEF Damage, InStep, Resynchronised, Reassembled

\* A new frame, and a reset between two frames or inside one.
LEMMA StartInv ==
    ASSUME StreamInv, StartFrame
    PROVE  StreamInv'
<1>1. /\ phase = "gap" /\ phase' = "open" /\ body' \in Bodies /\ sent' = 0 /\ ~half'
      /\ handed' = <<>> /\ ~delivered' /\ intact' /\ prev_intact' = intact
      /\ state' = state /\ buf' = buf /\ damage' = damage
    BY Zenon DEF StartFrame
<1>2. /\ phase' \in Phases /\ half' \in BOOLEAN /\ delivered' \in BOOLEAN
      /\ intact' \in BOOLEAN /\ prev_intact' \in BOOLEAN
  <2>1. half' = FALSE /\ delivered' = FALSE /\ intact' = TRUE /\ intact \in BOOLEAN
    BY Zenon DEF StartFrame, StreamInv, TypeOK
  <2>2. phase' \in Phases
    BY <1>1, SMT DEF Phases
  <2>3. QED
    BY <1>1, <2>1, <2>2, Zenon
<1>3. sent' \in 0 .. Len(body') /\ handed' \in Seq(Seq(Byte))
  <2>1. body' \in Seq(Byte)
    BY <1>1, StreamAssumption, Zenon DEF StreamAssumption
  <2>2. QED
    BY <1>1, <2>1, SMT
<1>4. TypeOK'
    BY <1>1, <1>2, <1>3, Zenon DEF StreamInv, TypeOK
<1>5. prev_intact' => Waiting'
    BY <1>1, Zenon DEF StreamInv, Resynchronised, Waiting
<1>6. phase' # "gap" /\ phase' # "body" /\ phase' # "close"
    BY <1>1, SMT
<1>7. InStep' /\ Resynchronised' /\ Reassembled'
    BY <1>6, SMT DEF InStep, Resynchronised, Reassembled
<1>8. QED
    BY <1>1, <1>4, <1>5, <1>6, <1>7, Zenon DEF StreamInv

LEMMA ResetInv ==
    ASSUME StreamInv, dlms_hdlc_parser_reset
    PROVE  StreamInv'
<1>1. /\ phase' = phase /\ body' = body /\ sent' = sent /\ half' = half
      /\ handed' = handed /\ delivered' = delivered /\ prev_intact' = prev_intact
      /\ damage' = damage /\ state' = "IDLE" /\ buf' = <<>>
      /\ intact' = (intact /\ phase \in {"gap", "open"})
    BY Zenon DEF dlms_hdlc_parser_reset, senderVars
<1>2. TypeOK'
  <2>1. buf' \in Seq(Byte) /\ Len(buf') <= Cap /\ state' \in ParserStates
    BY <1>1, StreamAssumption, SMT DEF ParserStates, StreamAssumption
  <2>2. intact' \in BOOLEAN
    BY <1>1, Zenon
  <2>3. QED
    BY <1>1, <2>1, <2>2, Zenon DEF StreamInv, TypeOK
<1>3. Waiting'
    BY <1>1, SMT DEF Waiting
<1>4. phase \in {"body", "close"} => ~intact'
  <2>1. phase \in {"body", "close"} => phase \notin {"gap", "open"}
    BY SMT
  <2>2. QED
    BY <1>1, <2>1, Zenon
<1>5. intact' => intact
    BY <1>1, Zenon
<1>6. InStep'
    BY <1>1, <1>4, Zenon DEF InStep
<1>7. Resynchronised'
    BY <1>3, Zenon DEF Resynchronised
<1>8. Reassembled'
    BY <1>1, <1>5, Zenon DEF StreamInv, Reassembled, Fitting
<1>9. QED
    BY <1>1, <1>2, <1>3, <1>5, <1>6, <1>7, <1>8, Zenon DEF StreamInv

\* A byte that was not sent moves the parser alone.
LEMMA ForeignInv ==
    ASSUME StreamInv, ForeignByte
    PROVE  StreamInv'
<1>1. /\ phase' = phase /\ body' = body /\ sent' = sent /\ half' = half
      /\ prev_intact' = prev_intact /\ ~intact' /\ intact' \in BOOLEAN
      /\ damage < MaxDamage /\ damage' = damage + 1
    BY Zenon DEF ForeignByte, senderVars
<1>2. /\ state' \in ParserStates
      /\ buf' \in Seq(Byte) /\ Len(buf') <= Cap
      /\ handed' \in Seq(Seq(Byte))
      /\ delivered' \in BOOLEAN
  <2>1. \E b \in Byte : dlms_hdlc_parse(b)
    BY StreamAssumption, Zenon DEF ForeignByte, StreamAssumption
  <2>2. QED
    BY <2>1, ParseTyped DEF StreamInv
<1>3. damage' \in 0 .. MaxDamage
  <2>1. damage \in 0 .. MaxDamage /\ MaxDamage \in Nat
    BY StreamAssumption DEF StreamInv, TypeOK, StreamAssumption
  <2>2. QED
    BY <1>1, <2>1, SMT
<1>4. TypeOK'
    BY <1>1, <1>2, <1>3, Zenon DEF StreamInv, TypeOK
<1>5. InStep' /\ Resynchronised' /\ Reassembled'
    BY <1>1, Zenon DEF InStep, Resynchronised, Reassembled
<1>6. QED
    BY <1>1, <1>4, <1>5, Zenon DEF StreamInv

\* Sender and parser move together.
LEMMA LineInv ==
    ASSUME StreamInv, Transmit \/ Damage
    PROVE  StreamInv'
<1>1. Advance
    BY DEF Transmit, Damage
<1>2. SenderInv' /\ phase' # "open"
    BY <1>1, AdvanceTyped
<1>3. /\ state' \in ParserStates
      /\ buf' \in Seq(Byte) /\ Len(buf') <= Cap
      /\ handed' \in Seq(Seq(Byte))
      /\ delivered' \in BOOLEAN
  <2>1. (\E b \in Byte : dlms_hdlc_parse(b)) \/ UNCHANGED parserVars
    BY OnWireByte, StreamAssumption, Zenon DEF Transmit, Damage, StreamAssumption
  <2>2. CASE UNCHANGED parserVars
    BY <2>2, Zenon DEF parserVars, StreamInv, TypeOK
  <2>3. QED
    BY <2>1, <2>2, ParseTyped DEF StreamInv
<1>4. intact' \in BOOLEAN /\ prev_intact' \in BOOLEAN
    BY Zenon DEF Transmit, Damage, historyVars, StreamInv, TypeOK
<1>5. damage' \in 0 .. MaxDamage
  <2>1. damage \in 0 .. MaxDamage /\ MaxDamage \in Nat
    BY StreamAssumption DEF StreamInv, TypeOK, StreamAssumption
  <2>2. damage' = damage \/ (damage < MaxDamage /\ damage' = damage + 1)
    BY Zenon DEF Transmit, Damage, historyVars
  <2>3. QED
    BY <2>1, <2>2, SMT
<1>6. TypeOK'
    BY <1>2, <1>3, <1>4, <1>5, Zenon DEF TypeOK, SenderInv
<1>7. InStep' /\ Resynchronised' /\ Reassembled'
    BY TransmitInStep, DamageInStep
<1>8. QED
    BY <1>2, <1>6, <1>7, Zenon DEF StreamInv, SenderInv

\* The invariant holds in every state.
LEMMA StreamInvariant == Spec => []StreamInv
<1>1. Init => StreamInv
  <2> SUFFICES ASSUME Init PROVE StreamInv
    OBVIOUS
  <2>1. body \in Seq(Byte)
    BY StreamAssumption, Zenon DEF Init, StreamAssumption
  <2>2. /\ phase = "gap" /\ body \in Bodies /\ sent = 0 /\ state = "IDLE" /\ buf = <<>>
        /\ handed = <<>> /\ damage = 0
    BY Zenon DEF Init
  <2>3. /\ half \in BOOLEAN /\ delivered \in BOOLEAN /\ intact \in BOOLEAN
        /\ prev_intact \in BOOLEAN /\ ~half
    BY Zenon DEF Init
  <2>4. /\ phase \in Phases /\ sent \in 0 .. Len(body) /\ state \in ParserStates
        /\ buf \in Seq(Byte) /\ Len(buf) <= Cap /\ handed \in Seq(Seq(Byte))
        /\ damage \in 0 .. MaxDamage
    BY <2>1, <2>2, StreamAssumption, SMT DEF Phases, ParserStates, StreamAssumption
  <2>5. TypeOK
    BY <2>2, <2>3, <2>4, Zenon DEF TypeOK
  <2>6. InStep /\ Resynchronised /\ Reassembled
    BY <2>2, SMT DEF InStep, Resynchronised, Reassembled, Waiting
  <2>7. phase # "body" /\ phase # "close" /\ phase # "open"
    BY <2>2, SMT
  <2>8. QED
    BY <2>3, <2>5, <2>6, <2>7, Zenon DEF StreamInv
<1>2. StreamInv /\ [Next]_vars => StreamInv'
  <2> SUFFICES ASSUME StreamInv, [Next]_vars PROVE StreamInv'
    OBVIOUS
  <2>1. CASE UNCHANGED vars
    BY <2>1, Zenon DEF vars, senderVars, parserVars, historyVars, StreamInv, TypeOK,
       InStep, Resynchronised, Reassembled, Waiting, Fitting
  <2>2. QED
    BY <2>1, StartInv, ResetInv, LineInv, ForeignInv DEF Next
<1>3. QED
    BY <1>1, <1>2, PTL DEF Spec

\* The parser's buffer never exceeds the capacity it was created with, and the
\* state machine of dlms_hdlc_parse has no state but its three.
THEOREM StreamTypeCorrect == Spec => []TypeOK
<1>1. StreamInv => TypeOK
    BY DEF StreamInv
<1>2. QED
    BY <1>1, StreamInvariant, PTL

\* Stuffing is transparent: whatever bytes a frame holds, dlms_hdlc_stuff and
\* dlms_hdlc_parse together hand frame_decode that frame, once, and as much of
\* it as fits the buffer.
THEOREM StreamReassembles == Spec => []Reassembled
<1>1. StreamInv => Reassembled
    BY DEF StreamInv
<1>2. QED
    BY <1>1, StreamInvariant, PTL

\* One intact frame puts the parser back in step, whatever came before it.
THEOREM StreamResynchronises == Spec => []Resynchronised
<1>1. StreamInv => Resynchronised
    BY DEF StreamInv
<1>2. QED
    BY <1>1, StreamInvariant, PTL

\* Inside an intact frame the parser's buffer holds what was sent of it, byte by
\* byte and up to its capacity, with the escape state exactly between the two
\* bytes of an escape sequence.
THEOREM StreamInStep == Spec => []InStep
<1>1. StreamInv => InStep
    BY DEF StreamInv
<1>2. QED
    BY <1>1, StreamInvariant, PTL

==============================================================================
