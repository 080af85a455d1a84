-------------------------- MODULE DlmsSessionProofs --------------------------
(***************************************************************************)
(* Proofs about DlmsSession, for every value of its constants.             *)
(***************************************************************************)
EXTENDS DlmsSession, SequenceTheorems, TLAPS

------------------------------------------------------------------------------
(* What the line does with the two sequences. *)

LEMMA MaxWireNat == MaxWire \in Nat
BY WireAssumption, SMT DEF WireAssumption

\* A frame handed to send_fn keeps the sequence of frames well typed.
LEMMA SendTyped ==
    ASSUME WireTypeOK, NEW f \in UpFrames, SendOK(f), UNCHANGED down
    PROVE  WireTypeOK'
BY MaxWireNat, SMT DEF WireTypeOK, SendOK

\* Whatever a receive leaves behind, and whatever it returns, is a frame.
LEMMA ArrivalTyped ==
    ASSUME WireTypeOK, NEW a \in Arrivals
    PROVE  /\ a.frame \in DownFrames
           /\ a.rest \in Seq(DownFrames)
           /\ Len(a.rest) <= MaxWire
<1> DEFINE D == DownFrames
<1>1. Junk \in D
    BY SMT DEF Junk, DownFrames
<1>2. down # <<>> /\ down \in Seq(D) /\ Len(down) <= MaxWire
    BY SMT DEF Arrivals, WireTypeOK
<1> HIDE DEF D
<1>3. Head(down) \in D /\ Tail(down) \in Seq(D) /\ Len(Tail(down)) = Len(down) - 1
    BY <1>2, SMT
<1>4. <<Junk>> \o Tail(down) \in Seq(D) /\ Len(<<Junk>> \o Tail(down)) = Len(down)
    BY <1>1, <1>2, <1>3, SMT
<1>5. ASSUME Len(down) >= 2
      PROVE  Tail(Tail(down)) \in Seq(D) /\ Len(Tail(Tail(down))) = Len(down) - 2
  <2>1. Tail(down) # <<>>
    BY <1>2, <1>3, <1>5, SMT
  <2>2. QED
    BY <1>2, <1>3, <2>1, HeadTailProperties, SMT
<1>6. \/ a = [frame |-> Head(down), rest |-> Tail(down)]
      \/ a = [frame |-> Junk, rest |-> Tail(down)]
      \/ a = [frame |-> Junk, rest |-> <<Junk>> \o Tail(down)]
      \/ Len(down) >= 2 /\ a = [frame |-> Junk, rest |-> Tail(Tail(down))]
    BY <1>2, Zenon DEF Arrivals
<1> HIDE DEF Junk
<1>7. Len(Tail(down)) \in Nat /\ Len(down) \in Nat
    BY <1>2, <1>3, LenProperties, SMT
<1>8. CASE a = [frame |-> Head(down), rest |-> Tail(down)]
    BY <1>2, <1>3, <1>7, <1>8, MaxWireNat, SMT DEF D
<1>9. CASE a = [frame |-> Junk, rest |-> Tail(down)]
    BY <1>1, <1>2, <1>3, <1>7, <1>9, MaxWireNat, SMT DEF D
<1>10. CASE a = [frame |-> Junk, rest |-> <<Junk>> \o Tail(down)]
  <2> DEFINE t == <<Junk>> \o Tail(down)
  <2> HIDE DEF t
  <2>1. t \in Seq(D) /\ Len(t) <= MaxWire
    BY <1>2, <1>4 DEF t
  <2>2. QED
    BY <1>1, <1>10, <2>1, SMT DEF D, t
<1>11. CASE Len(down) >= 2 /\ a = [frame |-> Junk, rest |-> Tail(Tail(down))]
    BY <1>1, <1>2, <1>5, <1>7, <1>11, MaxWireNat, SMT DEF D
<1>12. QED
    BY <1>6, <1>8, <1>9, <1>10, <1>11

------------------------------------------------------------------------------
(* What the pieces of the client's calls do to its record types. *)

\* Sequence numbers wrap around inside their three bits.
LEMMA SuccTyped == \A n \in SeqNums : Succ(n) \in SeqNums
BY SMT DEF SeqNums, Succ

LEMMA ZeroTyped == 0 \in SeqNums
BY SMT DEF SeqNums

\* The bounds of U16.
LEMMA InU16 == \A w : w \in U16 <=> w \in Nat /\ w < 65536
<1>1. PICK k \in Nat : k = 65535
    OBVIOUS
<1>2. U16 = 0 .. k
    BY <1>1 DEF U16
<1>3. \A w : w \in U16 <=> w \in Nat /\ w <= k
    BY <1>2
<1>4. QED
    BY <1>1, <1>3

\* A call that returns leaves a well formed outcome.
LEMMA ReturnTyped ==
    ASSUME NEW op \in OpKinds, NEW code \in Codes, Return(op, code)
    PROVE  call' \in CallRecords /\ last' \in Outcomes
BY SMT DEF Return, Returned, Idle, CallRecords, Outcomes

\* So does one that starts to wait.
LEMMA WaitTyped ==
    ASSUME NEW at \in Waits \cup {"aborted"}, NEW r \in Reqs \cup {"none"}
    PROVE  Wait(at, r) \in CallRecords
BY SMT DEF Wait, CallRecords

\* The frames of the client are frames.
LEMMA FramesTyped ==
    /\ Snrm \in UpFrames
    /\ Disc \in UpFrames
    /\ \A n \in SeqNums, b \in Reqs \cup {"AARQ"} : Info(n, b) \in UpFrames
BY SMT DEF Snrm, Disc, Info, UpFrames

\* dlms_client_init
LEMMA InitTyped == Init => TypeOK
<1> SUFFICES ASSUME Init PROVE TypeOK
    OBVIOUS
<1>1. WireTypeOK
    BY MaxWireNat, SMT DEF Init, WireInit, WireTypeOK
<1>2. ClientTypeOK
  <2>1. call \in CallRecords /\ last \in Outcomes
    BY SMT DEF Init, ClientInit, Idle, Returned, CallRecords, Outcomes, OpKinds, Codes
  <2>2. io \in [send : BOOLEAN, recv : BOOLEAN]
    BY SMT DEF Init, ClientInit, NoIo
  <2>3. /\ 0 \in U8 /\ DefaultRx \in U16 /\ DefaultPdu \in U16 \ {0}
        /\ "DISCONNECTED" \in States
    BY InU16, SMT DEF U8, DefaultRx, DefaultPdu, States
  <2>4. QED
    BY <2>1, <2>2, <2>3, ZeroTyped, SMT DEF Init, ClientInit, ClientTypeOK
<1>3. MeterTypeOK /\ link \in LinkStates
  <2>1. vr \in SeqNums \cup {-1}
    BY SMT DEF Init, MeterInit
  <2>2. open \in BOOLEAN /\ link \in LinkStates
    BY Zenon DEF Init, MeterInit, LinkStates
  <2>3. QED
    BY <2>1, <2>2 DEF MeterTypeOK
<1>4. QED
    BY <1>1, <1>2, <1>3 DEF TypeOK

------------------------------------------------------------------------------
(* Every step of the client keeps the types. *)

\* A receive: the rest stays on the line, the chunk is a frame.
LEMMA ReceiveTyped ==
    ASSUME WireTypeOK, NEW a \in Arrivals, down' = a.rest, UNCHANGED up
    PROVE  WireTypeOK' /\ a.frame \in DownFrames
BY ArrivalTyped, SMT DEF WireTypeOK

\* The fields a frame has, by its kind.
LEMMA FrameFields ==
    ASSUME NEW f \in DownFrames
    PROVE  /\ f.t = "UA" => f.info \in UaInfos
           /\ f.t = "DATA" => f.body \in Reqs
BY SMT DEF DownFrames

\* A step that leaves the line alone, or gives up waiting on it.
LEMMA LineIdle ==
    ASSUME WireTypeOK, UNCHANGED up, UNCHANGED down
    PROVE  WireTypeOK'
BY SMT DEF WireTypeOK

\* dlms_client_init, dlms_client_set_io, dlms_hls_authenticate, dlms_action
LEMMA LocalCallsTyped ==
    ASSUME WireTypeOK, ClientTypeOK,
           dlms_client_init \/ dlms_client_set_io
           \/ dlms_hls_authenticate \/ dlms_action
    PROVE  WireTypeOK' /\ ClientTypeOK'
<1>1. WireTypeOK'
    BY LineIdle DEF dlms_client_init, dlms_client_set_io, dlms_hls_authenticate,
                    dlms_action, wireVars
<1>2. call' \in CallRecords /\ last' \in Outcomes
  <2>1. \E op \in OpKinds, code \in Codes : Return(op, code)
    BY SMT DEF dlms_client_init, dlms_client_set_io, dlms_hls_authenticate,
               dlms_action, OpKinds, Codes
  <2>2. QED
    BY <2>1, ReturnTyped
<1>3. CASE dlms_client_init
  <2>1. io' \in [send : BOOLEAN, recv : BOOLEAN]
    BY <1>3, SMT DEF dlms_client_init, Fresh, NoIo
  <2>2. /\ 0 \in U8 /\ DefaultRx \in U16 /\ DefaultPdu \in U16 \ {0}
        /\ "DISCONNECTED" \in States
    BY InU16, SMT DEF U8, DefaultRx, DefaultPdu, States
  <2>3. QED
    BY <1>1, <1>2, <1>3, <2>1, <2>2, ZeroTyped, SMT
    DEF dlms_client_init, Fresh, ClientTypeOK
<1>4. CASE dlms_client_set_io
  <2>1. io' \in [send : BOOLEAN, recv : BOOLEAN]
    BY <1>4, ClientAssumption, Zenon DEF dlms_client_set_io, ClientAssumption
  <2>2. QED
    BY <1>1, <1>2, <1>4, <2>1, SMT
    DEF dlms_client_set_io, ClientTypeOK, seqVars, paramVars
<1>5. CASE dlms_hls_authenticate
    BY <1>1, <1>2, <1>5, SMT
    DEF dlms_hls_authenticate, ClientTypeOK, seqVars, paramVars, States
<1>6. CASE dlms_action
    BY <1>1, <1>2, <1>6, SMT DEF dlms_action, ClientTypeOK, seqVars, paramVars
<1>7. QED
    BY <1>3, <1>4, <1>5, <1>6

\* dlms_hdlc_connect up to recv_fn, and dlms_hdlc_disconnect
LEMMA LinkCallsTyped ==
    ASSUME WireTypeOK, ClientTypeOK, dlms_hdlc_connect \/ dlms_hdlc_disconnect
    PROVE  WireTypeOK' /\ ClientTypeOK'
<1>1. WireTypeOK'
  <2>1. UNCHANGED down /\ (UNCHANGED up \/ \E f \in UpFrames : SendOK(f))
    BY FramesTyped, SMT
    DEF dlms_hdlc_connect, dlms_hdlc_disconnect, SendFails, SendError
  <2>2. QED
    BY <2>1, LineIdle, SendTyped
<1>2. call' \in CallRecords /\ last' \in Outcomes
  <2>1. \/ \E op \in OpKinds, code \in Codes : Return(op, code)
        \/ /\ \E at \in Waits \cup {"aborted"} : call' = Wait(at, "none")
           /\ UNCHANGED last
    BY SMT DEF dlms_hdlc_connect, dlms_hdlc_disconnect, SendFails, OpKinds, Codes, Waits
  <2>2. QED
    BY <2>1, ReturnTyped, WaitTyped, SMT DEF ClientTypeOK
<1>3. state' \in States
    BY SMT DEF dlms_hdlc_connect, dlms_hdlc_disconnect, ClientTypeOK, States
<1>4. UNCHANGED <<seqVars, paramVars, io>>
    BY SMT DEF dlms_hdlc_connect, dlms_hdlc_disconnect, SendFails, seqVars
<1>5. QED
    BY <1>1, <1>2, <1>3, <1>4, SMT DEF ClientTypeOK, seqVars, paramVars

\* dlms_hdlc_connect from recv_fn on
LEMMA ConnectUaTyped ==
    ASSUME WireTypeOK, ClientTypeOK, dlms_hdlc_connect_ua
    PROVE  WireTypeOK' /\ ClientTypeOK'
<1>1. UNCHANGED <<up, state, max_pdu_size, io>>
    BY DEF dlms_hdlc_connect_ua
<1>2. \E code \in Codes : Return("connect", code)
    BY SMT DEF dlms_hdlc_connect_ua, GiveUp, Codes
<1>3. call' \in CallRecords /\ last' \in Outcomes
    BY <1>2, ReturnTyped, SMT DEF OpKinds
<1>4. CASE GiveUp("connect", "TIMEOUT")
           /\ UNCHANGED <<seqVars, negotiated_window_size, max_info_rx>>
    BY <1>1, <1>3, <1>4, LineIdle, SMT
    DEF GiveUp, RecvTimeout, ClientTypeOK, seqVars
<1>5. ASSUME NEW a \in Arrivals, down' = a.rest,
             UNCHANGED <<seqVars, negotiated_window_size, max_info_rx>>
      PROVE  WireTypeOK' /\ ClientTypeOK'
    BY <1>1, <1>3, <1>5, ReceiveTyped, SMT DEF ClientTypeOK, seqVars
<1>6. ASSUME NEW a \in Arrivals, down' = a.rest, a.frame.t = "UA",
             Negotiate(a.frame.info), ResetSeqs
      PROVE  WireTypeOK' /\ ClientTypeOK'
  <2>1. WireTypeOK' /\ a.frame.info \in UaInfos
    BY <1>1, <1>6, ReceiveTyped, FrameFields
  <2>2. a.frame.info \in [win : U8, rx : U16]
    BY <2>1, WireAssumption DEF WireAssumption
  <2>3. negotiated_window_size' \in U8 /\ max_info_rx' \in U16
    BY <1>6, <2>2, SMT DEF Negotiate, ClientTypeOK
  <2>4. QED
    BY <1>1, <1>3, <1>6, <2>1, <2>3, ZeroTyped, SMT DEF ResetSeqs, ClientTypeOK
<1>7. QED
    BY <1>4, <1>5, <1>6 DEF dlms_hdlc_connect_ua

\* What the two sends of an I-frame have in common.
LEMMA InfoSentTyped ==
    ASSUME WireTypeOK, ClientTypeOK, NEW b \in Reqs \cup {"AARQ"},
           SendOK(Info(send_seq, b)), Advance, UNCHANGED down
    PROVE  WireTypeOK' /\ send_seq' \in SeqNums
<1>1. Info(send_seq, b) \in UpFrames
    BY FramesTyped DEF ClientTypeOK
<1>2. QED
    BY <1>1, SendTyped, SuccTyped DEF Advance, ClientTypeOK

\* dlms_associate up to recv_fn
LEMMA AssociateTyped ==
    ASSUME WireTypeOK, ClientTypeOK, dlms_associate
    PROVE  WireTypeOK' /\ ClientTypeOK'
<1>1. UNCHANGED <<down, recv_seq, paramVars, io>>
    BY DEF dlms_associate
<1>2. WireTypeOK' /\ send_seq' \in SeqNums
  <2>1. \/ UNCHANGED up /\ UNCHANGED send_seq
        \/ SendOK(Info(send_seq, "AARQ")) /\ Advance
    BY SMT DEF dlms_associate, SendFails, SendError
  <2>2. QED
    BY <1>1, <2>1, LineIdle, InfoSentTyped DEF ClientTypeOK
<1>3. call' \in CallRecords /\ last' \in Outcomes
  <2>1. \/ \E op \in OpKinds, code \in Codes : Return(op, code)
        \/ /\ \E at \in Waits \cup {"aborted"} : call' = Wait(at, "none")
           /\ UNCHANGED last
    BY SMT DEF dlms_associate, SendFails, OpKinds, Codes, Waits
  <2>2. QED
    BY <2>1, ReturnTyped, WaitTyped, SMT DEF ClientTypeOK
<1>4. state' \in States
    BY SMT DEF dlms_associate, ClientTypeOK, States
<1>5. QED
    BY <1>1, <1>2, <1>3, <1>4, SMT DEF ClientTypeOK, paramVars

\* The end of dlms_associate on a decoded frame.
LEMMA TakeAareTyped ==
    ASSUME ClientTypeOK, NEW f \in DownFrames, TakeAare(f)
    PROVE  /\ state' \in States
           /\ max_pdu_size' \in U16 \ {0}
           /\ call' \in CallRecords
           /\ last' \in Outcomes
<1>1. \E code \in Codes : Return("associate", code)
    BY SMT DEF TakeAare, Codes
<1>2. call' \in CallRecords /\ last' \in Outcomes
    BY <1>1, ReturnTyped, SMT DEF OpKinds
<1>3. state' \in States
    BY SMT DEF TakeAare, ClientTypeOK, States
<1>4. \A p \in negotiated_pdu(f, PduSizes) : p > 0 => p \in U16 \ {0}
    BY ClientAssumption, SMT DEF negotiated_pdu, ClientAssumption
<1>5. max_pdu_size' \in U16 \ {0}
    BY <1>4, SMT DEF TakeAare, ClientTypeOK
<1>6. QED
    BY <1>2, <1>3, <1>5

\* dlms_associate from recv_fn on
LEMMA AssociateAareTyped ==
    ASSUME WireTypeOK, ClientTypeOK,
           dlms_associate_aare \/ dlms_associate_aare_rr
    PROVE  WireTypeOK' /\ ClientTypeOK'
<1>1. UNCHANGED <<up, seqVars, negotiated_window_size, max_info_rx, io>>
    BY DEF dlms_associate_aare, dlms_associate_aare_rr
<1>2. CASE /\ \E code \in {"TIMEOUT", "IO"} : GiveUp("associate", code)
           /\ UNCHANGED <<state, max_pdu_size>>
  <2>1. call' \in CallRecords /\ last' \in Outcomes
    BY <1>2, ReturnTyped, SMT DEF GiveUp, OpKinds, Codes
  <2>2. WireTypeOK'
    BY <1>1, <1>2, LineIdle DEF GiveUp, RecvTimeout
  <2>3. QED
    BY <1>1, <1>2, <2>1, <2>2, SMT DEF ClientTypeOK, seqVars
<1>3. ASSUME NEW a \in Arrivals, down' = a.rest, ReceiveAgain("associate_rr"),
             UNCHANGED <<state, max_pdu_size>>
      PROVE  WireTypeOK' /\ ClientTypeOK'
  <2>1. call.req \in Reqs \cup {"none"}
    BY SMT DEF ClientTypeOK, CallRecords
  <2>2. call' \in CallRecords /\ UNCHANGED last
    BY <1>3, <2>1, WaitTyped, SMT DEF ReceiveAgain, Waits
  <2>3. QED
    BY <1>1, <1>3, <2>2, ReceiveTyped, SMT DEF ClientTypeOK, seqVars
<1>4. ASSUME NEW a \in Arrivals, down' = a.rest, TakeAare(a.frame)
      PROVE  WireTypeOK' /\ ClientTypeOK'
  <2>1. WireTypeOK' /\ a.frame \in DownFrames
    BY <1>1, <1>4, ReceiveTyped
  <2>2. QED
    BY <1>1, <1>4, <2>1, TakeAareTyped, SMT DEF ClientTypeOK, seqVars
<1>5. QED
    BY <1>2, <1>3, <1>4 DEF dlms_associate_aare, dlms_associate_aare_rr

\* dlms_send_apdu up to recv_fn
LEMMA SendApduTyped ==
    ASSUME WireTypeOK, ClientTypeOK, NEW r \in Reqs,
           NEW op \in {"read", "write", "send_only", "send_apdu"},
           dlms_send_apdu(op, r)
    PROVE  WireTypeOK' /\ ClientTypeOK'
<1>1. UNCHANGED <<down, state, recv_seq, paramVars, io>>
    BY DEF dlms_send_apdu
<1>2. WireTypeOK' /\ send_seq' \in SeqNums
  <2>1. \/ UNCHANGED up /\ UNCHANGED send_seq
        \/ SendOK(Info(send_seq, r)) /\ Advance
    BY SMT DEF dlms_send_apdu, SendFails, SendError
  <2>2. QED
    BY <1>1, <2>1, LineIdle, InfoSentTyped DEF ClientTypeOK
<1>3. call' \in CallRecords /\ last' \in Outcomes
  <2>1. \/ \E code \in Codes : Return(op, code)
        \/ call' = Wait("send_apdu", r) /\ UNCHANGED last
    BY SMT DEF dlms_send_apdu, SendFails, Codes
  <2>2. op \in OpKinds /\ "send_apdu" \in Waits
    BY SMT DEF OpKinds, Waits
  <2>3. QED
    BY <2>1, <2>2, ReturnTyped, WaitTyped, SMT DEF ClientTypeOK
<1>4. QED
    BY <1>1, <1>2, <1>3, SMT DEF ClientTypeOK, paramVars

\* The end of dlms_send_apdu on a decoded frame.
LEMMA TakeResponseTyped ==
    ASSUME ClientTypeOK, NEW f \in DownFrames, TakeResponse(f)
    PROVE  /\ recv_seq' \in SeqNums
           /\ call' \in CallRecords
           /\ last' \in Outcomes
<1>1. recv_seq' \in SeqNums
    BY SuccTyped, SMT DEF TakeResponse, Acknowledge, ClientTypeOK
<1>2. call' \in CallRecords
    BY SMT DEF TakeResponse, Idle, CallRecords
<1>3. call.req \in Reqs \cup {"none"}
    BY SMT DEF ClientTypeOK, CallRecords
<1>4. PICK got \in Reqs \cup {"none", "AARE"} :
          last' = [op |-> "send_apdu", code |-> "OK", req |-> call.req, resp |-> got]
    BY FrameFields, SMT DEF TakeResponse
<1>5. last' \in Outcomes
    BY <1>3, <1>4, SMT DEF Outcomes, OpKinds, Codes
<1>6. QED
    BY <1>1, <1>2, <1>5

\* dlms_send_apdu from recv_fn on
LEMMA SendApduRespTyped ==
    ASSUME WireTypeOK, ClientTypeOK,
           dlms_send_apdu_resp \/ dlms_send_apdu_resp_rr
    PROVE  WireTypeOK' /\ ClientTypeOK'
<1>1. UNCHANGED <<up, state, send_seq, paramVars, io>>
    BY DEF dlms_send_apdu_resp, dlms_send_apdu_resp_rr
<1>2. CASE /\ \E code \in {"TIMEOUT", "IO"} : GiveUp("send_apdu", code)
           /\ UNCHANGED recv_seq
  <2>1. call' \in CallRecords /\ last' \in Outcomes
    BY <1>2, ReturnTyped, SMT DEF GiveUp, OpKinds, Codes
  <2>2. WireTypeOK'
    BY <1>1, <1>2, LineIdle DEF GiveUp, RecvTimeout
  <2>3. QED
    BY <1>1, <1>2, <2>1, <2>2, SMT DEF ClientTypeOK, paramVars
<1>3. ASSUME NEW a \in Arrivals, down' = a.rest, Return("send_apdu", "PARSE"),
             UNCHANGED recv_seq
      PROVE  WireTypeOK' /\ ClientTypeOK'
  <2>1. call' \in CallRecords /\ last' \in Outcomes
    BY <1>3, ReturnTyped, SMT DEF OpKinds, Codes
  <2>2. QED
    BY <1>1, <1>3, <2>1, ReceiveTyped, SMT DEF ClientTypeOK, paramVars
<1>4. ASSUME NEW a \in Arrivals, down' = a.rest, Acknowledge,
             ReceiveAgain("send_apdu_rr")
      PROVE  WireTypeOK' /\ ClientTypeOK'
  <2>1. call.req \in Reqs \cup {"none"}
    BY SMT DEF ClientTypeOK, CallRecords
  <2>2. call' \in CallRecords /\ UNCHANGED last
    BY <1>4, <2>1, WaitTyped, SMT DEF ReceiveAgain, Waits
  <2>3. recv_seq' \in SeqNums
    BY <1>4, SuccTyped DEF Acknowledge, ClientTypeOK
  <2>4. QED
    BY <1>1, <1>4, <2>2, <2>3, ReceiveTyped, SMT DEF ClientTypeOK, paramVars
<1>5. ASSUME NEW a \in Arrivals, down' = a.rest, TakeResponse(a.frame)
      PROVE  WireTypeOK' /\ ClientTypeOK'
  <2>1. WireTypeOK' /\ a.frame \in DownFrames
    BY <1>1, <1>5, ReceiveTyped
  <2>2. QED
    BY <1>1, <1>5, <2>1, TakeResponseTyped, SMT DEF ClientTypeOK, paramVars
<1>6. QED
    BY <1>2, <1>3, <1>4, <1>5 DEF dlms_send_apdu_resp, dlms_send_apdu_resp_rr

------------------------------------------------------------------------------
(* Every step of the meter and of the line keeps the types. *)

\* Frames of the meter put behind the others are frames.
LEMMA ReplyTyped ==
    ASSUME WireTypeOK, NEW t \in {"SNRM", "DISC", "I"}, Arrived(t),
           NEW fs \in Seq(DownFrames), Reply(fs)
    PROVE  WireTypeOK'
<1> DEFINE D == DownFrames  U == UpFrames
<1>1. down \in Seq(D) /\ up \in Seq(U) /\ up # <<>> /\ Len(up) <= MaxWire
    BY SMT DEF WireTypeOK, Arrived
<1> HIDE DEF D, U
<1>2. down \o fs \in Seq(D) /\ Len(down \o fs) = Len(down) + Len(fs)
    BY <1>1, SMT DEF D
<1>3. Tail(up) \in Seq(U) /\ Len(Tail(up)) = Len(up) - 1 /\ Len(up) \in Nat
    BY <1>1, HeadTailProperties, SMT
<1>4. Len(Tail(up)) <= MaxWire
    BY <1>1, <1>3, MaxWireNat, SMT
<1>5. up' = Tail(up) /\ down' = down \o fs /\ Len(down) + Len(fs) <= MaxWire
    BY DEF Arrived, Reply
<1>6. QED
    BY <1>2, <1>3, <1>4, <1>5 DEF WireTypeOK, D, U

\* Dropping the head of a direction keeps it well typed.
LEMMA TailTyped ==
    ASSUME WireTypeOK,
           \/ up # <<>> /\ up' = Tail(up) /\ UNCHANGED down
           \/ down # <<>> /\ down' = Tail(down) /\ UNCHANGED up
    PROVE  WireTypeOK'
<1> DEFINE D == DownFrames  U == UpFrames
<1>1. down \in Seq(D) /\ up \in Seq(U) /\ Len(up) <= MaxWire /\ Len(down) <= MaxWire
    BY DEF WireTypeOK
<1> HIDE DEF D, U
<1>2. up # <<>> => Tail(up) \in Seq(U) /\ Len(Tail(up)) <= MaxWire
    BY <1>1, HeadTailProperties, MaxWireNat, SMT
<1>3. down # <<>> => Tail(down) \in Seq(D) /\ Len(Tail(down)) <= MaxWire
    BY <1>1, HeadTailProperties, MaxWireNat, SMT
<1>4. QED
    BY <1>1, <1>2, <1>3 DEF WireTypeOK, D, U

\* The answers of the meter are frames.
LEMMA AnswersTyped ==
    /\ \A i \in UaInfos : <<Ua(i)>> \in Seq(DownFrames)
    /\ <<Dm>> \in Seq(DownFrames)
    /\ \A r \in Reqs : Data(r) \in DownFrames
    /\ \A f \in AareForms, a \in BOOLEAN, u \in BOOLEAN : Aare(f, a, u) \in DownFrames
    /\ \A f \in DownFrames : <<Rr, f>> \in Seq(DownFrames) /\ <<f>> \in Seq(DownFrames)
<1>1. Dm \in DownFrames /\ Rr \in DownFrames
    BY SMT DEF Dm, Rr, DownFrames
<1>2. \A i \in UaInfos : Ua(i) \in DownFrames
    BY SMT DEF Ua, DownFrames
<1>3. \A r \in Reqs : Data(r) \in DownFrames
    BY SMT DEF Data, DownFrames
<1>4. \A f \in AareForms, a \in BOOLEAN, u \in BOOLEAN : Aare(f, a, u) \in DownFrames
    BY SMT DEF Aare, DownFrames
<1> DEFINE D == DownFrames
<1> HIDE DEF D
<1>5. \A f, g \in D : <<f, g>> \in Seq(D) /\ <<f>> \in Seq(D)
    BY SMT
<1>6. QED
    BY <1>1, <1>2, <1>3, <1>4, <1>5 DEF D

\* MeterSnrm, MeterDisc, MeterAarq, MeterData, MeterDiscard
LEMMA MeterTyped ==
    ASSUME WireTypeOK, MeterTypeOK, MeterNext
    PROVE  WireTypeOK' /\ MeterTypeOK'
<1>1. vr \in SeqNums \cup {-1} /\ open \in BOOLEAN
    BY DEF MeterTypeOK
<1>2. ASSUME InSequence, Arrived("I") PROVE vr \in SeqNums
  <2>1. Head(up) \in UpFrames
    BY <1>2, HeadTailProperties DEF WireTypeOK, Arrived
  <2>2. QED
    BY <1>2, <2>1, SMT DEF InSequence, Arrived, UpFrames
<1>3. ASSUME Arrived("I"), NEW f \in DownFrames, Answer(f) PROVE WireTypeOK'
  <2>1. PICK rr \in RrChoices : Reply(IF rr THEN <<Rr, f>> ELSE <<f>>)
    BY <1>3 DEF Answer
  <2>2. QED
    BY <1>3, <2>1, AnswersTyped, ReplyTyped
<1>4. CASE MeterSnrm
  <2>1. WireTypeOK'
    BY <1>4, AnswersTyped, ReplyTyped DEF MeterSnrm
  <2>2. QED
    BY <1>4, <2>1, ZeroTyped, Zenon DEF MeterSnrm, MeterTypeOK
<1>5. CASE MeterDisc
  <2>1. WireTypeOK'
    BY <1>5, AnswersTyped, ReplyTyped DEF MeterDisc
  <2>2. QED
    BY <1>5, <2>1, Zenon DEF MeterDisc, MeterTypeOK
<1>6. CASE MeterAarq
  <2>1. PICK form \in AareForms, accept \in Accepts, ui \in UserInfo :
            Answer(Aare(form, accept, ui)) /\ open' = accept
    BY <1>6 DEF MeterAarq
  <2>2. accept \in BOOLEAN /\ ui \in BOOLEAN
    BY MeterAssumption DEF MeterAssumption
  <2>3. WireTypeOK'
    BY <1>3, <1>6, <2>1, <2>2, AnswersTyped, Zenon DEF MeterAarq
  <2>4. vr' \in SeqNums
    BY <1>2, <1>6, SuccTyped DEF MeterAarq
  <2>5. QED
    BY <2>1, <2>2, <2>3, <2>4, Zenon DEF MeterTypeOK
<1>7. CASE MeterData
  <2>1. Head(up).body \in Reqs
    <3>1. Head(up) \in UpFrames
      BY <1>7, HeadTailProperties DEF WireTypeOK, Arrived, MeterData
    <3>2. QED
      BY <1>7, <3>1, SMT DEF MeterData, Arrived, UpFrames
  <2>2. WireTypeOK'
    BY <1>3, <1>7, <2>1, AnswersTyped, Zenon DEF MeterData
  <2>3. vr' \in SeqNums
    BY <1>2, <1>7, SuccTyped DEF MeterData
  <2>4. QED
    BY <1>1, <1>7, <2>2, <2>3, Zenon DEF MeterData, MeterTypeOK
<1>8. CASE MeterDiscard
  <2>1. WireTypeOK'
    BY <1>8, TailTyped DEF MeterDiscard, Arrived
  <2>2. QED
    BY <1>1, <1>8, <2>1, Zenon DEF MeterDiscard, MeterTypeOK, meterVars
<1>9. QED
    BY <1>4, <1>5, <1>6, <1>7, <1>8 DEF MeterNext

------------------------------------------------------------------------------
(* Type correctness. *)

\* Every step of the session keeps the types.
LEMMA NextTyped == TypeOK /\ [Next]_vars => TypeOK'
<1> SUFFICES ASSUME TypeOK, [Next]_vars PROVE TypeOK'
    OBVIOUS
<1>1. WireTypeOK /\ ClientTypeOK /\ MeterTypeOK /\ link \in LinkStates
    BY DEF TypeOK
<1>2. link' \in LinkStates
    BY <1>1, SMT DEF Next, InitClient, Connect, ConnectReturns, Disconnect, Exchange,
       MeterStep, Lose, LinkStates, vars
<1>3. ASSUME UNCHANGED clientVars PROVE ClientTypeOK'
    BY <1>1, <1>3, SMT DEF clientVars, ClientTypeOK, seqVars, paramVars
<1>4. ASSUME UNCHANGED meterVars PROVE MeterTypeOK'
    BY <1>1, <1>4, Zenon DEF meterVars, MeterTypeOK
<1>5. CASE InitClient
    BY <1>1, <1>2, <1>4, <1>5, LocalCallsTyped DEF InitClient, TypeOK
<1>6. CASE Connect
    BY <1>1, <1>2, <1>4, <1>6, LinkCallsTyped DEF Connect, TypeOK
<1>7. CASE ConnectReturns
    BY <1>1, <1>2, <1>4, <1>7, ConnectUaTyped DEF ConnectReturns, TypeOK
<1>8. CASE Disconnect
    BY <1>1, <1>2, <1>4, <1>8, LinkCallsTyped DEF Disconnect, TypeOK
<1>9. CASE Exchange
    BY <1>1, <1>2, <1>4, <1>9, LocalCallsTyped, AssociateTyped, AssociateAareTyped,
       SendApduTyped, SendApduRespTyped DEF Exchange, TypeOK
<1>10. CASE MeterStep
    BY <1>1, <1>2, <1>3, <1>10, MeterTyped DEF MeterStep, TypeOK
<1>11. CASE Lose
    BY <1>1, <1>2, <1>3, <1>4, <1>11, TailTyped DEF Lose, LoseUp, LoseDown, TypeOK
<1>12. CASE UNCHANGED vars
    BY <1>1, <1>2, <1>3, <1>4, <1>12, LineIdle DEF vars, wireVars, TypeOK
<1>13. QED
    BY <1>5, <1>6, <1>7, <1>8, <1>9, <1>10, <1>11, <1>12 DEF Next

\* Every state of the session is well typed: sequence numbers stay inside their
\* three bits and parameters inside their fields in dlms_client_t, whatever the
\* application calls, the meter answers and the line does.
THEOREM TypeCorrect == Spec => []TypeOK
<1>1. QED
    BY InitTyped, NextTyped, PTL DEF Spec

------------------------------------------------------------------------------
(* Agreement of the sequence numbers. *)

\* An I-frame with the number the meter will expect keeps the two aligned.
LEMMA AlignedSent ==
    ASSUME NEW u \in Seq(UpFrames), NEW v, NEW k \in 0 .. Len(u), NEW n,
           Aligned(u, v, k, n), NEW f, f.t = "I", f.ns = n
    PROVE  k \in 0 .. Len(Append(u, f)) /\ Aligned(Append(u, f), v, k, Succ(n))
<1> DEFINE w == Append(u, f)  start == IF k = 0 THEN v ELSE 0
<1>1. /\ Len(u) \in Nat /\ Len(w) = Len(u) + 1
      /\ \A i \in 1 .. Len(u) : w[i] = u[i]
      /\ w[Len(u) + 1] = f
    BY SMT
<1>2. start \in 0 .. 7
    BY SMT DEF Aligned, SeqNums
<1>3. /\ IF k = 0 THEN v \in SeqNums ELSE u[k].t = "SNRM"
      /\ \A i \in k + 1 .. Len(u) :
             u[i].t = "I" /\ u[i].ns = (start + (i - k - 1)) % 8
      /\ n = (start + (Len(u) - k)) % 8
    BY DEF Aligned
<1> HIDE DEF w, start
<1>4. IF k = 0 THEN v \in SeqNums ELSE w[k].t = "SNRM"
    BY <1>1, <1>3, SMT
<1>5. \A i \in k + 1 .. Len(w) :
          w[i].t = "I" /\ w[i].ns = (start + (i - k - 1)) % 8
  <2> SUFFICES ASSUME NEW i \in k + 1 .. Len(w)
               PROVE  w[i].t = "I" /\ w[i].ns = (start + (i - k - 1)) % 8
    OBVIOUS
  <2>1. CASE i \in 1 .. Len(u)
    BY <1>1, <1>3, <2>1, SMT
  <2>2. CASE i = Len(u) + 1
    BY <1>1, <1>2, <1>3, <2>2, SMT
  <2>3. QED
    BY <1>1, <2>1, <2>2, SMT
<1>6. Succ(n) = (start + (Len(w) - k)) % 8
    BY <1>1, <1>2, <1>3, SMT DEF Succ
<1>7. k \in 0 .. Len(w)
    BY <1>1, SMT
<1>8. Aligned(w, v, k, Succ(n))
    BY <1>4, <1>5, <1>6, Zenon DEF Aligned, start
<1>9. QED
    BY <1>7, <1>8 DEF w

\* An SNRM behind everything in flight aligns the meter with zero.
LEMMA AlignedReset ==
    ASSUME NEW u \in Seq(UpFrames), NEW v, NEW w, w = Append(u, Snrm)
    PROVE  Aligned(w, v, Len(w), 0)
<1>1. Len(w) \in Nat \ {0} /\ w[Len(w)] = Snrm
    BY SMT
<1>2. QED
    BY <1>1, SMT DEF Aligned, Snrm

\* What the meter must do with the first frame to stay aligned.
LEMMA AlignedTaken ==
    ASSUME NEW u \in Seq(UpFrames), u # <<>>, NEW v, NEW k \in 0 .. Len(u), NEW n,
           Aligned(u, v, k, n)
    PROVE  /\ k > 1 => \A v2 : Aligned(Tail(u), v2, k - 1, n)
           /\ k = 1 => Head(u).t = "SNRM" /\ Aligned(Tail(u), 0, 0, n)
           /\ k = 0 => /\ Head(u).t = "I" /\ Head(u).ns = v
                       /\ Aligned(Tail(u), Succ(v), 0, n)
<1> DEFINE w == Tail(u)
<1>1. /\ Len(u) \in Nat \ {0} /\ Len(w) = Len(u) - 1
      /\ \A i \in 1 .. Len(w) : w[i] = u[i + 1]
      /\ Head(u) = u[1]
    BY HeadTailProperties, SMT
<1> HIDE DEF w
<1>2. CASE k > 1
  <2>1. \A i \in k .. Len(w) : u[i + 1].t = "I" /\ u[i + 1].ns = (i - k) % 8
    BY <1>1, <1>2, SMT DEF Aligned
  <2>2. u[k].t = "SNRM" /\ n = (Len(u) - k) % 8
    BY <1>1, <1>2, SMT DEF Aligned
  <2>3. w[k - 1].t = "SNRM" /\ n = (0 + (Len(w) - (k - 1))) % 8
    BY <1>1, <1>2, <2>2, SMT
  <2>4. \A i \in (k - 1) + 1 .. Len(w) :
            w[i].t = "I" /\ w[i].ns = (0 + (i - (k - 1) - 1)) % 8
    <3> SUFFICES ASSUME NEW i \in (k - 1) + 1 .. Len(w)
                 PROVE  w[i].t = "I" /\ w[i].ns = (0 + (i - (k - 1) - 1)) % 8
      OBVIOUS
    <3>1. i \in k .. Len(w) /\ w[i] = u[i + 1]
      BY <1>1, <1>2, SMT
    <3>2. 0 + (i - (k - 1) - 1) = i - k
      BY <3>1, SMT
    <3>3. QED
      BY <2>1, <3>1, <3>2, Zenon
  <2>5. k - 1 # 0
    BY <1>2, SMT
  <2>6. \A v2 : Aligned(w, v2, k - 1, n)
    BY <2>3, <2>4, <2>5, Zenon DEF Aligned
  <2>7. QED
    BY <1>2, <2>6, SMT DEF w
<1>3. CASE k = 1
  <2>1. /\ u[1].t = "SNRM" /\ n = (0 + (Len(u) - 1)) % 8
        /\ \A i \in 1 + 1 .. Len(u) :
               u[i].t = "I" /\ u[i].ns = (0 + (i - 1 - 1)) % 8
    <3>1. 1 # 0
      BY SMT
    <3>2. QED
      BY <1>3, <3>1, Zenon DEF Aligned
  <2>2. n = (0 + (Len(w) - 0)) % 8
    BY <1>1, <2>1, SMT
  <2>3. \A i \in 0 + 1 .. Len(w) :
            w[i].t = "I" /\ w[i].ns = (0 + (i - 0 - 1)) % 8
    <3> SUFFICES ASSUME NEW i \in 0 + 1 .. Len(w)
                 PROVE  w[i].t = "I" /\ w[i].ns = (0 + (i - 0 - 1)) % 8
      OBVIOUS
    <3>1. i + 1 \in 1 + 1 .. Len(u) /\ w[i] = u[i + 1]
      BY <1>1, SMT
    <3>2. 0 + (i - 0 - 1) = 0 + ((i + 1) - 1 - 1)
      BY <3>1, SMT
    <3>3. QED
      BY <2>1, <3>1, <3>2, Zenon
  <2>4. 0 \in SeqNums
    BY SMT DEF SeqNums
  <2>5. Aligned(w, 0, 0, n)
    BY <2>2, <2>3, <2>4, Zenon DEF Aligned
  <2>6. QED
    BY <1>1, <1>3, <2>1, <2>5, SMT DEF w
<1>4. CASE k = 0
  <2>1. /\ v \in SeqNums /\ n = (v + (Len(u) - 0)) % 8
        /\ \A i \in 0 + 1 .. Len(u) :
               u[i].t = "I" /\ u[i].ns = (v + (i - 0 - 1)) % 8
    BY <1>4, Zenon DEF Aligned
  <2>2. u[1].t = "I" /\ u[1].ns = v
    <3>1. 1 \in 0 + 1 .. Len(u)
      BY <1>1, SMT
    <3>2. (v + (1 - 0 - 1)) % 8 = v
      <4>1. v \in 0 .. 7
        BY <2>1 DEF SeqNums
      <4>2. QED
        BY <4>1, SMT
    <3>3. QED
      BY <2>1, <3>1, <3>2, Zenon
  <2>3. Succ(v) \in SeqNums /\ n = (Succ(v) + (Len(w) - 0)) % 8
    BY <1>1, <2>1, SMT DEF Succ, SeqNums
  <2>4. \A i \in 0 + 1 .. Len(w) :
            w[i].t = "I" /\ w[i].ns = (Succ(v) + (i - 0 - 1)) % 8
    <3> SUFFICES ASSUME NEW i \in 0 + 1 .. Len(w)
                 PROVE  w[i].t = "I" /\ w[i].ns = (Succ(v) + (i - 0 - 1)) % 8
      OBVIOUS
    <3>1. i + 1 \in 0 + 1 .. Len(u) /\ w[i] = u[i + 1]
      BY <1>1, SMT
    <3>2. w[i].t = "I" /\ w[i].ns = (v + ((i + 1) - 0 - 1)) % 8
      BY <2>1, <3>1, Zenon
    <3>3. (v + ((i + 1) - 0 - 1)) % 8 = (Succ(v) + (i - 0 - 1)) % 8
      BY <1>1, <2>1, SMT DEF Succ, SeqNums
    <3>4. QED
      BY <3>2, <3>3, Zenon
  <2>5. Aligned(w, Succ(v), 0, n)
    BY <2>3, <2>4, Zenon DEF Aligned
  <2>6. QED
    BY <1>1, <1>4, <2>2, <2>5, SMT DEF w
<1>5. QED
    BY <1>2, <1>3, <1>4, SMT

\* The inductive invariant: agreement alone is not inductive, since it says
\* nothing of the connect that is about to establish it.
LinkInv ==
    /\ TypeOK
    /\ LinkAgreement
    /\ ResetInFlight

\* A step that changes neither what is in flight to the meter nor the numbers.
LEMMA NumbersKept ==
    ASSUME LinkAgreement, UNCHANGED <<up, vr, send_seq>>, link' = link
    PROVE  LinkAgreement'
BY Zenon DEF LinkAgreement

\* The I-frame the client sends uses the number it then leaves behind.
LEMMA NumberUsed ==
    ASSUME TypeOK, LinkAgreement, NEW b, SendOK(Info(send_seq, b)), Advance,
           UNCHANGED <<vr, link>>
    PROVE  LinkAgreement'
<1> SUFFICES ASSUME link = "agreed"
             PROVE  \E k \in 0 .. Len(up') : Aligned(up', vr', k, send_seq')
    BY Zenon DEF LinkAgreement
<1>1. up \in Seq(UpFrames)
    BY DEF TypeOK, WireTypeOK
<1>2. PICK k \in 0 .. Len(up) : Aligned(up, vr, k, send_seq)
    BY DEF LinkAgreement
<1> DEFINE f == Info(send_seq, b)
<1>3. f.t = "I" /\ f.ns = send_seq
    BY SMT DEF Info
<1> HIDE DEF f
<1>4. k \in 0 .. Len(Append(up, f)) /\ Aligned(Append(up, f), vr, k, Succ(send_seq))
    BY <1>1, <1>2, <1>3, AlignedSent
<1>5. up' = Append(up, f) /\ send_seq' = Succ(send_seq) /\ vr' = vr
    BY DEF SendOK, Advance, f
<1>6. QED
    BY <1>4, <1>5, Zenon

\* While connect waits, or after its abort, the client makes no other call.
LEMMA OneCallAtATime ==
    ASSUME ResetInFlight, link = "resetting"
    PROVE  call.at \in {"connect", "aborted"} /\ call # Idle
BY SMT DEF ResetInFlight, Idle

\* dlms_hdlc_connect
LEMMA ConnectAgrees ==
    ASSUME LinkInv, Connect
    PROVE  LinkAgreement' /\ ResetInFlight'
<1>1. call = Idle /\ link # "resetting" /\ UNCHANGED vr
    BY OneCallAtATime, Zenon DEF Connect, dlms_hdlc_connect, Calls, LinkInv, meterVars
<1>2. CASE call'.at = "idle"
  <2>1. link' = link
    BY <1>2, Zenon DEF Connect
  <2>2. UNCHANGED <<up, send_seq>>
    BY <1>2, SMT DEF Connect, dlms_hdlc_connect, SendFails, SendError, Wait
  <2>3. QED
    BY <1>1, <2>1, <2>2, NumbersKept, Zenon DEF LinkInv, ResetInFlight
<1>3. CASE call'.at # "idle"
  <2>1. link' = "resetting"
    BY <1>3, Zenon DEF Connect
  <2>2. /\ up' = Append(up, Snrm)
        /\ call'.at \in {"connect", "aborted"}
    BY <1>3, SMT DEF Connect, dlms_hdlc_connect, SendFails, SendOK, Wait, Return, Idle
  <2>3. up \in Seq(UpFrames)
    BY DEF LinkInv, TypeOK, WireTypeOK
  <2>4. Aligned(up', vr', Len(up'), 0)
    BY <2>2, <2>3, AlignedReset, Zenon
  <2>5. ResetInFlight'
    BY <2>2, <2>4, Zenon DEF ResetInFlight
  <2>6. LinkAgreement'
    BY <2>1, SMT DEF LinkAgreement
  <2>7. QED
    BY <2>5, <2>6
<1>4. QED
    BY <1>2, <1>3

\* The UA, or what is received instead: the client and the meter count from
\* zero behind the SNRM.
LEMMA ConnectReturnsAgrees ==
    ASSUME LinkInv, ConnectReturns
    PROVE  LinkAgreement' /\ ResetInFlight'
<1>1. link' # "resetting" /\ UNCHANGED <<up, vr>>
    BY SMT DEF ConnectReturns, dlms_hdlc_connect_ua, meterVars
<1>2. ResetInFlight'
    BY <1>1, Zenon DEF ResetInFlight
<1>3. CASE link' = "agreed"
  <2>1. link = "resetting" /\ last'.code = "OK"
    BY <1>3, SMT DEF ConnectReturns
  <2>2. send_seq' = 0
    BY <2>1, SMT DEF ConnectReturns, dlms_hdlc_connect_ua, GiveUp, Return, Returned, ResetSeqs
  <2>3. Aligned(up, vr, Len(up), 0)
    BY <2>1, Zenon DEF LinkInv, ResetInFlight
  <2>4. Len(up) \in 0 .. Len(up)
    BY SMT DEF LinkInv, TypeOK, WireTypeOK
  <2>5. QED
    BY <1>1, <1>2, <2>2, <2>3, <2>4, Zenon DEF LinkAgreement
<1>4. QED
    BY <1>2, <1>3, Zenon DEF LinkAgreement

\* dlms_client_init, dlms_hdlc_disconnect
LEMMA LinkLeft ==
    ASSUME LinkInv, InitClient \/ Disconnect
    PROVE  LinkAgreement' /\ ResetInFlight'
<1>1. CASE link' = "unknown"
    BY <1>1, SMT DEF LinkAgreement, ResetInFlight
<1>2. CASE Disconnect /\ link' # "unknown"
  <2>1. call = Idle /\ link # "resetting" /\ UNCHANGED vr
    BY <1>2, OneCallAtATime, Zenon
    DEF Disconnect, dlms_hdlc_disconnect, Calls, LinkInv, meterVars
  <2>2. link' = link /\ last'.code # "OK"
    BY <1>2, Zenon DEF Disconnect
  <2>3. UNCHANGED <<up, send_seq>>
    BY <1>2, <2>2, SMT
    DEF Disconnect, dlms_hdlc_disconnect, SendFails, SendError, Return, Returned
  <2>4. QED
    BY <2>1, <2>2, <2>3, NumbersKept, Zenon DEF LinkInv, ResetInFlight
<1>3. QED
    BY <1>1, <1>2, Zenon DEF InitClient

\* The calls on the link.
LEMMA ExchangeAgrees ==
    ASSUME LinkInv, Exchange
    PROVE  LinkAgreement' /\ ResetInFlight'
<1>1. link' = link /\ UNCHANGED vr
    BY Zenon DEF Exchange, meterVars
<1>2. call = Idle \/ call.at \in {"associate", "associate_rr", "send_apdu", "send_apdu_rr"}
    BY SMT DEF Exchange, dlms_client_set_io, dlms_hls_authenticate, dlms_action,
       dlms_associate, dlms_associate_aare, dlms_associate_aare_rr, dlms_send_apdu,
       dlms_send_apdu_resp, dlms_send_apdu_resp_rr, Calls
<1>3. link # "resetting"
    BY <1>2, OneCallAtATime, SMT DEF LinkInv
<1>4. \/ UNCHANGED <<up, send_seq>>
      \/ \E b : SendOK(Info(send_seq, b)) /\ Advance
  <2>1. CASE dlms_associate
    BY <2>1, SMT DEF dlms_associate, SendFails, SendError
  <2>2. ASSUME NEW op, NEW r, dlms_send_apdu(op, r)
        PROVE  \/ UNCHANGED <<up, send_seq>>
               \/ \E b : SendOK(Info(send_seq, b)) /\ Advance
    BY <2>2, SMT DEF dlms_send_apdu, SendFails, SendError
  <2>3. CASE dlms_client_set_io \/ dlms_hls_authenticate \/ dlms_action
    BY <2>3, SMT DEF dlms_client_set_io, dlms_hls_authenticate, dlms_action,
       wireVars, seqVars
  <2>4. CASE dlms_associate_aare \/ dlms_associate_aare_rr
             \/ dlms_send_apdu_resp \/ dlms_send_apdu_resp_rr
    BY <2>4, SMT DEF dlms_associate_aare, dlms_associate_aare_rr,
       dlms_send_apdu_resp, dlms_send_apdu_resp_rr, seqVars
  <2>5. QED
    BY <2>1, <2>2, <2>3, <2>4, Zenon DEF Exchange
<1>5. LinkAgreement'
    BY <1>1, <1>4, NumbersKept, NumberUsed, Zenon DEF LinkInv
<1>6. QED
    BY <1>1, <1>3, <1>5, Zenon DEF ResetInFlight

\* The meter takes the first frame in flight.
LEMMA MeterAgrees ==
    ASSUME LinkInv, MeterStep
    PROVE  LinkAgreement' /\ ResetInFlight'
<1>1. up \in Seq(UpFrames) /\ up # <<>> /\ up' = Tail(up)
    BY Zenon DEF LinkInv, TypeOK, WireTypeOK, MeterStep, MeterNext, MeterSnrm, MeterDisc,
       MeterAarq, MeterData, MeterDiscard, Arrived
<1>2. UNCHANGED <<send_seq, call, link>>
    BY Zenon DEF MeterStep, clientVars, seqVars
<1>3. Head(up).t = "SNRM" => vr' = 0
    BY SMT DEF MeterStep, MeterNext, MeterSnrm, MeterDisc, MeterAarq, MeterData,
       MeterDiscard, Arrived
<1>4. Head(up).t = "I" /\ Head(up).ns = vr => vr' = Succ(vr)
    BY SMT DEF MeterStep, MeterNext, MeterSnrm, MeterDisc, MeterAarq, MeterData,
       MeterDiscard, Arrived, InSequence
<1>5. ASSUME NEW k \in 0 .. Len(up), NEW n, Aligned(up, vr, k, n)
      PROVE  \E j \in 0 .. Len(up') :
                 Aligned(up', vr', j, n) /\ (k = Len(up) => j = Len(up'))
  <2>1. Len(up) \in Nat \ {0} /\ Len(up') = Len(up) - 1
    BY <1>1, HeadTailProperties, SMT
  <2>2. CASE k > 1
    <3>1. Aligned(up', vr', k - 1, n)
      BY <1>1, <1>5, <2>2, AlignedTaken, Zenon
    <3>2. k - 1 \in 0 .. Len(up') /\ (k = Len(up) => k - 1 = Len(up'))
      BY <2>1, <2>2, SMT
    <3>3. QED
      BY <3>1, <3>2, Zenon
  <2>3. CASE k = 1
    <3>1. Head(up).t = "SNRM" /\ Aligned(Tail(up), 0, 0, n)
      BY <1>1, <1>5, <2>3, AlignedTaken
    <3>2. Aligned(up', vr', 0, n)
      BY <1>1, <1>3, <3>1
    <3>3. 0 \in 0 .. Len(up') /\ (k = Len(up) => 0 = Len(up'))
      BY <2>1, <2>3, SMT
    <3>4. QED
      BY <3>2, <3>3, Zenon
  <2>4. CASE k = 0
    <3>1. Aligned(up', vr', 0, n)
      BY <1>1, <1>4, <1>5, <2>4, AlignedTaken, Zenon
    <3>2. 0 \in 0 .. Len(up') /\ k # Len(up)
      BY <2>1, <2>4, SMT
    <3>3. QED
      BY <3>1, <3>2, Zenon
  <2>5. QED
    BY <2>1, <2>2, <2>3, <2>4, SMT
<1>6. LinkAgreement'
    BY <1>2, <1>5, Zenon DEF LinkInv, LinkAgreement
<1>7. ASSUME link = "resetting" PROVE Aligned(up', vr', Len(up'), 0)
  <2>1. Len(up) \in 0 .. Len(up) /\ Aligned(up, vr, Len(up), 0)
    BY <1>1, <1>7, SMT DEF LinkInv, ResetInFlight
  <2>2. QED
    BY <1>5, <2>1, Zenon
<1>8. ResetInFlight'
    BY <1>2, <1>7, Zenon DEF LinkInv, ResetInFlight
<1>9. QED
    BY <1>6, <1>8

\* Every step keeps the agreement.
LEMMA LinkInvInductive == LinkInv /\ [Next]_vars => LinkInv'
<1> SUFFICES ASSUME LinkInv, [Next]_vars PROVE LinkInv'
    OBVIOUS
<1>1. TypeOK'
    BY NextTyped DEF LinkInv
<1>2. CASE Lose
  <2>1. link' = "unknown" \/ (link' = link /\ UNCHANGED <<up, vr, send_seq, call>>)
    BY <1>2, Zenon DEF Lose, LoseUp, LoseDown, clientVars, seqVars, meterVars
  <2>2. CASE link' = "unknown"
    BY <1>1, <2>2, SMT DEF LinkInv, LinkAgreement, ResetInFlight
  <2>3. CASE link' = link /\ UNCHANGED <<up, vr, send_seq, call>>
    BY <1>1, <2>3, Zenon DEF LinkInv, LinkAgreement, ResetInFlight
  <2>4. QED
    BY <2>1, <2>2, <2>3
<1>3. CASE UNCHANGED vars
    BY <1>1, <1>3, Zenon DEF vars, wireVars, clientVars, seqVars, meterVars,
       LinkInv, LinkAgreement, ResetInFlight
<1>4. QED
    BY <1>1, <1>2, <1>3, ConnectAgrees, ConnectReturnsAgrees, LinkLeft, ExchangeAgrees,
       MeterAgrees DEF Next, LinkInv

\* After a connect without losses the client never sends an I-frame the meter
\* does not expect, until a frame is lost or the client leaves the link: no
\* order of calls, send failures, timeouts, bad, split or stale frames makes
\* send_seq and the meter's count drift apart.
THEOREM LinkAgreed == Spec => []LinkAgreement
<1>1. Init => LinkInv
    BY InitTyped, SMT DEF Init, LinkInv, LinkAgreement, ResetInFlight
<1>2. LinkInv => LinkAgreement
    BY DEF LinkInv
<1>3. QED
    BY <1>1, <1>2, LinkInvInductive, PTL DEF Spec

\* While a connect waits, what is in flight to the meter ends with its SNRM or
\* has been taken, so that the UA it waits for opens a link counted from zero.
THEOREM ResetPending == Spec => []ResetInFlight
<1>1. Init => LinkInv
    BY InitTyped, SMT DEF Init, LinkInv, LinkAgreement, ResetInFlight
<1>2. LinkInv => ResetInFlight
    BY DEF LinkInv
<1>3. QED
    BY <1>1, <1>2, LinkInvInductive, PTL DEF Spec

\* The discipline seen from the meter: on an agreed link no I-frame that the
\* client sent after the opening SNRM is ever thrown away as out of sequence.
THEOREM OldFramesDiscarded == Spec => DiscardsOnlyOldFrames
<1> DEFINE Old == \E i \in 1 .. Len(up) : up[i].t = "SNRM"
<1>1. Init => LinkInv
    BY InitTyped, SMT DEF Init, LinkInv, LinkAgreement, ResetInFlight
<1>2. ASSUME LinkInv, MeterDiscard, link = "agreed" PROVE Old
  <2>1. up \in Seq(UpFrames) /\ up # <<>>
    BY <1>2 DEF LinkInv, TypeOK, WireTypeOK, MeterDiscard, Arrived
  <2>2. PICK k \in 0 .. Len(up) : Aligned(up, vr, k, send_seq)
    BY <1>2 DEF LinkInv, LinkAgreement
  <2>3. k # 0
    BY <1>2, <2>1, <2>2, AlignedTaken, Zenon DEF MeterDiscard, InSequence
  <2>4. k \in 1 .. Len(up) /\ up[k].t = "SNRM"
    BY <2>1, <2>2, <2>3, SMT DEF Aligned
  <2>5. QED
    BY <2>4
<1>3. LinkInv => [MeterDiscard /\ link = "agreed" => Old]_vars
    BY <1>2
<1>4. QED
    BY <1>1, <1>3, LinkInvInductive, PTL DEF Spec, DiscardsOnlyOldFrames

------------------------------------------------------------------------------
(* What DlmsSession promises on a perfect line to an application that waits  *)
(* for every answer, and that it implements RpcSession then: for any set of  *)
(* requests, parameters and meter's choices, and any length of the queues.   *)

\* Nothing goes wrong on the line and no call leaves an answer unread (a client that
\* can send can receive).
PerfectLine ==
    /\ Faults = {}
    /\ AppOps \cap {"disconnect", "read", "write", "send_only"} = {}
    /\ \A i \in IoChoices : i.send => i.recv

------------------------------------------------------------------------------
(* What is in flight. *)

Quiet        == up = <<>> /\ down = <<>>
Asking(f)    == up = <<f>> /\ down = <<>>
Left(f)      == up = <<>> /\ down = <<f>>
Answering(f) == Left(f) \/ (up = <<>> /\ down = <<Rr, f>>)

Aares == {Aare(form, accept, ui) : form \in AareForms, accept \in BOOLEAN, ui \in BOOLEAN}

\* For each place where a call waits, all that both queues may hold.
Flight ==
    /\ call.at = "idle" => Quiet
    /\ call.at # "aborted"
    /\ call.at = "connect" =>
          Asking(Snrm) \/ \E i \in UaInfos : Left(Ua(i))
    /\ call.at = "associate" =>
          \/ Quiet
          \/ \E n \in SeqNums : Asking(Info(n, "AARQ"))
          \/ \E f \in Aares : Answering(f)
    /\ call.at = "associate_rr" =>
          \E f \in Aares : Left(f)
    /\ call.at = "send_apdu" =>
          /\ call.req \in Reqs
          /\ \/ Quiet
             \/ \E n \in SeqNums : Asking(Info(n, call.req))
             \/ Answering(Data(call.req))
    /\ call.at = "send_apdu_rr" => call.req \in Reqs /\ Left(Data(call.req))
    /\ io.send => io.recv

PerfectInv == Flight /\ AnswerMatches

LEMMA PerfectInit == Init => PerfectInv
    BY DEF Init, WireInit, ClientInit, MeterInit, PerfectInv, Flight, Quiet, NoIo, Idle, Returned,
           AnswerMatches

------------------------------------------------------------------------------
(* The line. *)

LEMMA NoFaults ==
    ASSUME PerfectLine
    PROVE  /\ ~SendError /\ ~LoseUp /\ ~LoseDown
           /\ RecvTimeout => Quiet
           /\ \A a \in Arrivals : /\ down # <<>>
                                  /\ a.frame = Head(down) /\ a.rest = Tail(down)
    BY DEF PerfectLine, SendError, LoseUp, LoseDown, RecvTimeout, Arrivals, Quiet

LEMMA Sending ==
    ASSUME Quiet, NEW f, SendOK(f), down' = down
    PROVE  Asking(f)'
    BY DEF Quiet, SendOK, Asking

LEMMA Taking ==
    ASSUME PerfectLine, NEW a \in Arrivals
    PROVE  /\ ~Quiet /\ \A f : ~Asking(f)
           /\ \A f : Left(f) => a.frame = f /\ a.rest = <<>>
           /\ \A f : Answering(f) => \/ a.frame = f /\ a.rest = <<>>
                                     \/ a.frame = Rr /\ a.rest = <<f>>
<1>1. down # <<>> /\ a.frame = Head(down) /\ a.rest = Tail(down)
    BY NoFaults
<1>2. \A f, g : Head(<<f>>) = f /\ Tail(<<f>>) = <<>> /\ Head(<<f, g>>) = f /\ Tail(<<f, g>>) = <<g>>
    OBVIOUS
<1>3. ~Quiet /\ \A f : ~Asking(f)
    BY <1>1 DEF Quiet, Asking
<1>4. \A f : Left(f) => a.frame = f /\ a.rest = <<>>
    BY <1>1, <1>2 DEF Left
<1>5. \A f : down = <<f>> => a.frame = f /\ a.rest = <<>>
    BY <1>1, <1>2
<1>6. \A f, g : down = <<f, g>> => a.frame = f /\ a.rest = <<g>>
    BY <1>1, <1>2
<1>7. \A f : Answering(f) => \/ a.frame = f /\ a.rest = <<>>
                             \/ a.frame = Rr /\ a.rest = <<f>>
    BY <1>5, <1>6 DEF Answering, Left
<1>8. QED
    BY <1>3, <1>4, <1>7

LEMMA Arriving ==
    ASSUME NEW f, Asking(f), NEW t, Arrived(t)
    PROVE  f.t = t /\ Head(up) = f /\ up' = <<>>
    BY DEF Asking, Arrived

LEMMA Replying ==
    ASSUME down = <<>>, up' = <<>>
    PROVE  /\ \A f : Reply(<<f>>) => Left(f)'
           /\ \A f : Answer(f) => Answering(f)'
<1>1. \A f, g : <<>> \o <<f>> = <<f>> /\ <<>> \o <<f, g>> = <<f, g>>
    OBVIOUS
<1>2. ASSUME NEW f, Reply(<<f>>) PROVE Left(f)'
    BY <1>1, <1>2 DEF Reply, Left
<1>3. ASSUME NEW f, Answer(f) PROVE Answering(f)'
    BY <1>1, <1>3 DEF Answer, Reply, Left, Answering
<1>4. QED
    BY <1>2, <1>3

LEMMA Kinds ==
    /\ \A i : Ua(i).t = "UA"
    /\ Rr.t = "RR" /\ Snrm.t = "SNRM"
    /\ \A r : Data(r).t = "DATA" /\ Data(r).body = r
    /\ \A f \in Aares : f.t = "AARE"
    /\ \A n, b : Info(n, b).t = "I" /\ Info(n, b).body = b
    BY DEF Ua, Rr, Snrm, Data, Aares, Aare, Info

------------------------------------------------------------------------------
(* Steps of the client. *)

\* A call that returns without the line.
LEMMA Returning ==
    ASSUME PerfectInv, call.at = "idle", UNCHANGED <<up, down>>,
           NEW op, NEW code, Return(op, code), io'.send => io'.recv
    PROVE  PerfectInv'
<1>1. Flight'
    BY DEF PerfectInv, Flight, Quiet, Return, Idle
<1>2. AnswerMatches'
    BY DEF AnswerMatches, Return, Returned
<1>3. QED
    BY <1>1, <1>2 DEF PerfectInv

LEMMA LocalCalls ==
    ASSUME PerfectLine, PerfectInv,
           dlms_client_init \/ dlms_client_set_io \/ dlms_hls_authenticate \/ dlms_action
    PROVE  PerfectInv'
<1>1. CASE dlms_client_init
  <2>1. call.at = "idle"
      BY <1>1 DEF dlms_client_init, PerfectInv, Flight
  <2>2. ~io'.send /\ Return("init", "OK") /\ UNCHANGED <<up, down>>
      BY <1>1 DEF dlms_client_init, Fresh, NoIo, wireVars
  <2>3. QED
      BY <2>1, <2>2, Returning
<1>2. CASE dlms_client_set_io
  <2>1. call.at = "idle" /\ Return("set_io", "OK") /\ UNCHANGED <<up, down>>
      BY <1>2 DEF dlms_client_set_io, Calls, Idle, wireVars
  <2>2. io'.send => io'.recv
      BY <1>2 DEF dlms_client_set_io, PerfectLine
  <2>3. QED
      BY <2>1, <2>2, Returning
<1>3. CASE dlms_hls_authenticate
  <2>1. /\ call.at = "idle" /\ Return("hls", "OK") /\ UNCHANGED <<up, down, io>>
      BY <1>3 DEF dlms_hls_authenticate, Calls, Idle, wireVars
  <2>2. io'.send => io'.recv
      BY <2>1 DEF PerfectInv, Flight
  <2>3. QED
      BY <2>1, <2>2, Returning
<1>4. CASE dlms_action
  <2>1. call.at = "idle" /\ Return("action", "NOT_SUPPORTED") /\ UNCHANGED <<up, down, io>>
      BY <1>4 DEF dlms_action, Calls, Idle, wireVars
  <2>2. io'.send => io'.recv
      BY <2>1 DEF PerfectInv, Flight
  <2>3. QED
      BY <2>1, <2>2, Returning
<1>5. QED
    BY <1>1, <1>2, <1>3, <1>4

\* A call that sends its request and waits.
LEMMA Requesting ==
    ASSUME PerfectInv, call.at = "idle", UNCHANGED <<down, io, last>>, NEW f, SendOK(f)
    PROVE  /\ Asking(f)'
           /\ io'.send => io'.recv
           /\ AnswerMatches'
    BY Sending DEF PerfectInv, Flight, AnswerMatches

LEMMA ConnectCalled ==
    ASSUME PerfectLine, PerfectInv, dlms_hdlc_connect
    PROVE  PerfectInv'
<1>1. call.at = "idle" /\ UNCHANGED <<down, io>> /\ (io.send => io.recv)
    BY DEF dlms_hdlc_connect, Calls, Idle, PerfectInv, Flight
<1>2. CASE ~io.send
    BY <1>1, <1>2, Returning DEF dlms_hdlc_connect
<1>3. CASE io.send
  <2>1. /\ SendOK(Snrm) /\ call' = Wait("connect", "none") /\ UNCHANGED last
      BY <1>1, <1>3, NoFaults DEF dlms_hdlc_connect, SendFails
  <2>2. Asking(Snrm)' /\ (io'.send => io'.recv) /\ AnswerMatches'
      BY <1>1, <2>1, Requesting
  <2>3. QED
      BY <2>1, <2>2 DEF PerfectInv, Flight, Asking, Wait
<1>4. QED
    BY <1>2, <1>3

LEMMA ConnectReturned ==
    ASSUME PerfectLine, PerfectInv, dlms_hdlc_connect_ua
    PROVE  PerfectInv'
<1>1. /\ call.at = "connect" /\ UNCHANGED <<up, io>>
      /\ io.send => io.recv
    BY DEF dlms_hdlc_connect_ua, PerfectInv, Flight
<1>2. Asking(Snrm) \/ \E i \in UaInfos : Left(Ua(i))
    BY <1>1 DEF PerfectInv, Flight
<1>3. ~Quiet
    BY <1>2 DEF Quiet, Asking, Left
<1>4. PICK a \in Arrivals : down' = a.rest /\ \E code : Return("connect", code)
    BY <1>3, NoFaults DEF dlms_hdlc_connect_ua, GiveUp
<1>5. Quiet'
  <2>1. PICK i \in UaInfos : Left(Ua(i))
      BY <1>2, Taking
  <2>2. QED
      BY <1>1, <1>4, <2>1, Taking DEF Left, Quiet
<1>6. QED
    BY <1>1, <1>4, <1>5
    DEF PerfectInv, Flight, Quiet, Return, Returned, Idle, AnswerMatches

LEMMA AssociateCalled ==
    ASSUME PerfectLine, PerfectInv, TypeOK, dlms_associate
    PROVE  PerfectInv'
<1>1. call.at = "idle" /\ UNCHANGED <<down, io>> /\ (io.send => io.recv)
    BY DEF dlms_associate, Calls, Idle, PerfectInv, Flight
<1>2. CASE Return("associate", "BUFFER") /\ UNCHANGED up
    BY <1>1, <1>2, Returning
<1>3. CASE Return("associate", "INVALID") /\ UNCHANGED up
    BY <1>1, <1>3, Returning
<1>4. CASE /\ io.send /\ SendOK(Info(send_seq, "AARQ"))
           /\ call' = Wait(IF io.recv THEN "associate" ELSE "aborted", "none") /\ UNCHANGED last
  <2>1. PICK n \in SeqNums : n = send_seq
      BY DEF TypeOK, ClientTypeOK
  <2>2. SendOK(Info(n, "AARQ")) /\ call' = Wait("associate", "none")
      BY <1>1, <1>4, <2>1
  <2>3. Asking(Info(n, "AARQ"))' /\ (io'.send => io'.recv) /\ AnswerMatches'
      BY <1>1, <1>4, <2>2, Requesting
  <2>4. QED
      BY <1>4, <2>2, <2>3
      DEF PerfectInv, Flight, Asking, Wait
<1>5. QED
    BY <1>2, <1>3, <1>4, NoFaults DEF dlms_associate, SendFails

\* A call that returns with nothing in flight.
LEMMA Ending ==
    ASSUME PerfectInv, Quiet', UNCHANGED io, io.send => io.recv,
           NEW op, NEW code, Return(op, code)
    PROVE  PerfectInv'
<1>1. call'.at = "idle" /\ last' = Returned(op, code)
    BY DEF Return, Idle
<1>2. Flight'
    BY <1>1 DEF Flight
<1>3. AnswerMatches'
    BY <1>1 DEF AnswerMatches, Returned
<1>4. QED
    BY <1>2, <1>3 DEF PerfectInv

\* The end of dlms_associate, with the AARE of the meter.
LEMMA AareTaken ==
    ASSUME NEW f \in Aares, TakeAare(f), Quiet', UNCHANGED io, io.send => io.recv
    PROVE  PerfectInv'
<1>1. Return("associate", "OK") \/ Return("associate", "ERROR")
    BY Kinds DEF TakeAare
<1>2. QED
    BY <1>1 DEF PerfectInv, Flight, Return, Returned, Idle, AnswerMatches

LEMMA AssociateReceives ==
    ASSUME PerfectLine, PerfectInv, dlms_associate_aare
    PROVE  PerfectInv'
<1>1. /\ call.at = "associate" /\ UNCHANGED <<up, io>>
      /\ io.send => io.recv
      /\ Quiet \/ (\E n \in SeqNums : Asking(Info(n, "AARQ"))) \/ \E f \in Aares : Answering(f)
    BY DEF dlms_associate_aare, PerfectInv, Flight
<1>2. CASE GiveUp("associate", "TIMEOUT")
  <2>1. Quiet /\ UNCHANGED down /\ Return("associate", "TIMEOUT")
      BY <1>2, NoFaults DEF GiveUp, RecvTimeout
  <2>2. Quiet'
      BY <1>1, <2>1 DEF Quiet
  <2>3. QED
      BY <1>1, <1>2, <2>1, <2>2, Ending
<1>3. ASSUME NEW a \in Arrivals, down' = a.rest,
             \/ a.frame.t = "RR" /\ ReceiveAgain("associate_rr")
             \/ a.frame.t # "RR" /\ TakeAare(a.frame)
      PROVE  PerfectInv'
  <2>1. PICK f \in Aares : Answering(f)
      BY <1>1, Taking
  <2>2. /\ up = <<>> /\ f.t = "AARE" /\ Rr.t = "RR"
        /\ \/ a.frame = f /\ a.rest = <<>>
           \/ a.frame = Rr /\ a.rest = <<f>>
    <3>1. Answering(f) /\ f.t = "AARE" /\ Rr.t = "RR"
        BY <2>1, Kinds
    <3>2. up = <<>>
        BY <3>1 DEF Answering, Left
    <3>3. QED
        BY <3>1, <3>2, Taking
  <2>3. CASE a.frame = f /\ a.rest = <<>>
    <3>1. Quiet' /\ TakeAare(f)
        BY <1>1, <1>3, <2>2, <2>3 DEF Quiet
    <3>2. QED
        BY <1>1, <3>1, AareTaken
  <2>4. CASE a.frame = Rr /\ a.rest = <<f>>
    <3>1. /\ call' = Wait("associate_rr", call.req) /\ UNCHANGED last
          /\ Left(f)'
        BY <1>1, <1>3, <2>2, <2>4 DEF ReceiveAgain, Left
    <3>2. QED
        BY <1>1, <3>1 DEF PerfectInv, Flight, Wait, AnswerMatches, Aares
  <2>5. QED
      BY <2>2, <2>3, <2>4
<1>4. QED
    BY <1>2, <1>3 DEF dlms_associate_aare

LEMMA AssociateReceivesAgain ==
    ASSUME PerfectLine, PerfectInv, dlms_associate_aare_rr
    PROVE  PerfectInv'
<1>1. /\ UNCHANGED <<up, io>> /\ (io.send => io.recv)
      /\ \E f \in Aares : Left(f)
    BY DEF dlms_associate_aare_rr, PerfectInv, Flight
<1>2. PICK f \in Aares : Left(f)
    BY <1>1
<1>3. Left(f) /\ up = <<>> /\ ~Quiet
    BY <1>2 DEF Left, Quiet
<1>4. PICK a \in Arrivals : down' = a.rest /\ TakeAare(a.frame)
    BY <1>3, NoFaults DEF dlms_associate_aare_rr, GiveUp
<1>5. a.frame = f /\ a.rest = <<>>
    BY <1>3, Taking
<1>6. TakeAare(f) /\ Quiet'
    BY <1>1, <1>3, <1>4, <1>5 DEF Quiet
<1>7. QED
    BY <1>1, <1>6, AareTaken

LEMMA SendCalled ==
    ASSUME PerfectLine, PerfectInv, TypeOK, NEW op, NEW r \in Reqs,
           op \in {"read", "write", "send_only", "send_apdu"}, dlms_send_apdu(op, r)
    PROVE  PerfectInv'
<1>1. /\ call.at = "idle" /\ UNCHANGED <<down, io>> /\ (io.send => io.recv)
      /\ op = "send_apdu"
    BY DEF dlms_send_apdu, Calls, Idle, PerfectInv, Flight, PerfectLine
<1>2. CASE UNCHANGED up /\ \E code \in {"BUFFER", "INVALID"} : Return(op, code)
    BY <1>1, <1>2, Returning
<1>3. CASE io.send /\ SendOK(Info(send_seq, r)) /\ call' = Wait("send_apdu", r) /\ UNCHANGED last
  <2>1. PICK n \in SeqNums : n = send_seq
      BY DEF TypeOK, ClientTypeOK
  <2>2. SendOK(Info(n, r))
      BY <1>3, <2>1
  <2>3. Asking(Info(n, r))' /\ (io'.send => io'.recv) /\ AnswerMatches'
      BY <1>1, <1>3, <2>2, Requesting
  <2>4. QED
      BY <1>1, <1>3, <2>3 DEF PerfectInv, Flight, Wait
<1>4. QED
    BY <1>1, <1>2, <1>3, NoFaults DEF dlms_send_apdu, SendFails

\* The end of dlms_send_apdu, with the meter's answer.
LEMMA ResponseTaken ==
    ASSUME PerfectInv, NEW f, f = Data(call.req), TakeResponse(f), Quiet',
           UNCHANGED io, io.send => io.recv
    PROVE  PerfectInv'
<1>1. call' = Idle /\ last' = [op |-> "send_apdu", code |-> "OK", req |-> call.req, resp |-> call.req]
    BY DEF TakeResponse, Data
<1>2. QED
    BY <1>1 DEF PerfectInv, Flight, Idle, Returned, AnswerMatches

LEMMA SendReceives ==
    ASSUME PerfectLine, PerfectInv, dlms_send_apdu_resp
    PROVE  PerfectInv'
<1>1. /\ call.at = "send_apdu" /\ UNCHANGED <<up, io>> /\ (io.send => io.recv)
      /\ call.req \in Reqs
      /\ Quiet \/ (\E n \in SeqNums : Asking(Info(n, call.req))) \/ Answering(Data(call.req))
    BY DEF dlms_send_apdu_resp, PerfectInv, Flight
<1>2. CASE GiveUp("send_apdu", "TIMEOUT")
  <2>1. Quiet /\ UNCHANGED down /\ Return("send_apdu", "TIMEOUT")
      BY <1>2, NoFaults DEF GiveUp, RecvTimeout
  <2>2. Quiet'
      BY <1>1, <2>1 DEF Quiet
  <2>3. QED
      BY <1>1, <2>1, <2>2, Ending
<1>3. ASSUME NEW a \in Arrivals, down' = a.rest,
             \/ a.frame.t = "JUNK"
             \/ a.frame.t = "RR" /\ ReceiveAgain("send_apdu_rr")
             \/ a.frame.t \notin {"RR", "JUNK"} /\ TakeResponse(a.frame)
      PROVE  PerfectInv'
  <2>1. Answering(Data(call.req))
      BY <1>1, Taking
  <2>2. PICK f : f = Data(call.req)
      OBVIOUS
  <2>3. /\ up = <<>> /\ f.t = "DATA" /\ Rr.t = "RR"
        /\ \/ a.frame = f /\ a.rest = <<>>
           \/ a.frame = Rr /\ a.rest = <<f>>
    <3>1. Answering(f) /\ f.t = "DATA" /\ Rr.t = "RR"
        BY <2>1, <2>2, Kinds
    <3>2. up = <<>>
        BY <3>1 DEF Answering, Left
    <3>3. QED
        BY <3>1, <3>2, Taking
  <2>4. CASE a.frame = f /\ a.rest = <<>>
    <3>1. Quiet' /\ TakeResponse(f)
        BY <1>1, <1>3, <2>3, <2>4 DEF Quiet
    <3>2. QED
        BY <1>1, <2>2, <3>1, ResponseTaken
  <2>5. CASE a.frame = Rr /\ a.rest = <<f>>
    <3>1. call' = Wait("send_apdu_rr", call.req) /\ UNCHANGED last
        BY <1>3, <2>3, <2>5 DEF ReceiveAgain
    <3>2. call'.at = "send_apdu_rr" /\ call'.req = call.req
        BY <3>1 DEF Wait
    <3>3. Left(f)' /\ f = Data(call'.req)
        BY <1>1, <1>3, <2>2, <2>3, <2>5, <3>2 DEF Left
    <3>4. Flight'
        BY <1>1, <3>2, <3>3 DEF Flight, Left, Data
    <3>5. QED
        BY <1>1, <3>1, <3>2, <3>4 DEF PerfectInv, AnswerMatches
  <2>6. QED
      BY <2>3, <2>4, <2>5
<1>4. QED
    BY <1>2, <1>3 DEF dlms_send_apdu_resp

LEMMA SendReceivesAgain ==
    ASSUME PerfectLine, PerfectInv, dlms_send_apdu_resp_rr
    PROVE  PerfectInv'
<1>1. /\ UNCHANGED <<up, io>> /\ (io.send => io.recv) /\ call.req \in Reqs
      /\ Left(Data(call.req))
    BY DEF dlms_send_apdu_resp_rr, PerfectInv, Flight
<1>2. PICK f : f = Data(call.req)
    OBVIOUS
<1>3. Left(f) /\ up = <<>> /\ ~Quiet /\ f.t = "DATA"
    BY <1>1, <1>2, Kinds DEF Left, Quiet
<1>4. PICK a \in Arrivals : /\ down' = a.rest
                            /\ a.frame.t = "JUNK" \/ TakeResponse(a.frame)
    BY <1>3, NoFaults DEF dlms_send_apdu_resp_rr, GiveUp
<1>5. a.frame = f /\ a.rest = <<>>
    BY <1>3, Taking
<1>6. TakeResponse(f) /\ Quiet'
    BY <1>1, <1>3, <1>4, <1>5 DEF Quiet
<1>7. QED
    BY <1>1, <1>2, <1>6, ResponseTaken

------------------------------------------------------------------------------
(* Steps of the meter. *)

\* Whoever has a frame on its way to the meter is waiting for the answer to it.
LEMMA WhoAsks ==
    ASSUME TypeOK, PerfectInv, up # <<>>
    PROVE  /\ down = <<>>
           /\ \/ /\ call.at = "connect"
                 /\ Asking(Snrm)
              \/ /\ call.at = "associate"
                 /\ \E n \in SeqNums : Asking(Info(n, "AARQ"))
              \/ /\ call.at = "send_apdu" /\ call.req \in Reqs
                 /\ \E n \in SeqNums : Asking(Info(n, call.req))
<1>1. call.at \in Waits \cup {"idle", "aborted"}
    BY DEF TypeOK, ClientTypeOK, CallRecords
<1>2. ~Quiet /\ \A f : ~Left(f) /\ ~Answering(f)
    BY DEF Quiet, Left, Answering
<1>3. call.at \in {"connect", "associate", "send_apdu"}
    BY <1>1, <1>2 DEF Waits, PerfectInv, Flight
<1>4. QED
    BY <1>2, <1>3 DEF PerfectInv, Flight, Asking

LEMMA SnrmAnswered ==
    ASSUME TypeOK, PerfectInv, UNCHANGED clientVars, MeterSnrm
    PROVE  PerfectInv'
<1>1. up # <<>> /\ down = <<>>
    BY WhoAsks DEF MeterSnrm, Arrived
<1>2. call.at = "connect" /\ Asking(Snrm)
    BY <1>1, WhoAsks, Arriving, Kinds DEF MeterSnrm
<1>3. \E i \in UaInfos : Left(Ua(i))'
  <2>1. up' = <<>>
      BY <1>2, Arriving DEF MeterSnrm
  <2>2. PICK i \in UaInfos : Reply(<<Ua(i)>>)
      BY DEF MeterSnrm
  <2>3. QED
      BY <1>1, <2>1, <2>2, Replying DEF Left, Ua
<1>4. QED
    BY <1>2, <1>3
    DEF PerfectInv, Flight, clientVars, AnswerMatches

LEMMA AarqAnswered ==
    ASSUME PerfectLine, TypeOK, PerfectInv, UNCHANGED clientVars, MeterAarq
    PROVE  PerfectInv'
<1>1. up # <<>> /\ down = <<>>
    BY WhoAsks DEF MeterAarq, Arrived
<1>2. /\ call.at = "associate"
      /\ \E n \in SeqNums : Asking(Info(n, "AARQ"))
    BY <1>1, WhoAsks, Arriving, Kinds, WireAssumption DEF MeterAarq, Asking, Arrived
<1>3. up' = <<>>
    BY <1>2, Arriving DEF MeterAarq
<1>4. PICK form \in AareForms, accept \in Accepts, ui \in UserInfo : Answer(Aare(form, accept, ui))
    BY DEF MeterAarq
<1>5. PICK f \in Aares : Answer(f)
    BY <1>4, MeterAssumption DEF Aares
<1>6. Answering(f)'
    BY <1>1, <1>3, <1>5, Replying
<1>7. QED
    BY <1>2, <1>6
    DEF PerfectInv, Flight, clientVars, AnswerMatches, Aares

LEMMA DataAnswered ==
    ASSUME TypeOK, PerfectInv, UNCHANGED clientVars, MeterData
    PROVE  PerfectInv'
<1>1. up # <<>> /\ down = <<>>
    BY WhoAsks DEF MeterData, Arrived
<1>2. /\ call.at = "send_apdu" /\ call.req \in Reqs
      /\ \E n \in SeqNums : Asking(Info(n, call.req))
    BY <1>1, WhoAsks, Arriving, Kinds DEF MeterData, Asking, Arrived
<1>3. up' = <<>> /\ Head(up).body = call.req
    BY <1>2, Arriving, Kinds DEF MeterData, Asking
<1>4. PICK f \in {Data(call.req)} : Answer(f)
    BY <1>3 DEF MeterData
<1>5. Answering(f)'
    BY <1>1, <1>3, <1>4, Replying
<1>6. Answering(Data(call.req))' /\ UNCHANGED call
    BY <1>4, <1>5 DEF Answering, Left, Data, clientVars
<1>7. QED
    BY <1>1, <1>2, <1>6
    DEF PerfectInv, Flight, clientVars, AnswerMatches

LEMMA FrameDiscarded ==
    ASSUME TypeOK, PerfectInv, UNCHANGED clientVars, MeterDiscard
    PROVE  PerfectInv'
<1>1. up # <<>> /\ down = <<>> /\ UNCHANGED down
    BY WhoAsks DEF MeterDiscard, Arrived, meterVars
<1>2. call.at \in {"associate", "send_apdu"}
    BY <1>1, WhoAsks, Arriving, Kinds DEF MeterDiscard
<1>3. up' = <<>>
    BY <1>1, WhoAsks, Arriving DEF MeterDiscard
<1>4. QED
    BY <1>1, <1>2, <1>3
    DEF PerfectInv, Flight, Quiet, clientVars, AnswerMatches

LEMMA MeterSteps ==
    ASSUME PerfectLine, TypeOK, PerfectInv, UNCHANGED clientVars, MeterNext
    PROVE  PerfectInv'
<1>1. ~MeterDisc
  <2>1. SUFFICES ASSUME up # <<>>
                 PROVE  Head(up).t # "DISC"
      BY DEF MeterDisc, Arrived
  <2>2. QED
      BY <2>1, WhoAsks, Kinds DEF Asking
<1>2. QED
    BY <1>1, SnrmAnswered, AarqAnswered, DataAnswered, FrameDiscarded DEF MeterNext

------------------------------------------------------------------------------

LEMMA PerfectNext ==
    ASSUME PerfectLine, TypeOK, PerfectInv, [Next]_vars
    PROVE  PerfectInv'
<1>1. CASE InitClient \/ Connect \/ ConnectReturns
    BY <1>1, LocalCalls, ConnectCalled, ConnectReturned
    DEF InitClient, Connect, ConnectReturns, meterVars
<1>2. ~Disconnect /\ ~Lose
    BY NoFaults DEF PerfectLine, Disconnect, dlms_hdlc_disconnect, Calls, Lose
<1>3. CASE Exchange
    BY <1>3, LocalCalls, AssociateCalled, AssociateReceives, AssociateReceivesAgain,
       SendCalled, SendReceives, SendReceivesAgain DEF Exchange
<1>4. CASE MeterStep
    BY <1>4, MeterSteps DEF MeterStep
<1>5. CASE UNCHANGED vars
    BY <1>5 DEF vars, wireVars, clientVars, meterVars, PerfectInv, Flight, Quiet, Asking, Left,
                Answering, Aares, AnswerMatches
<1>6. QED
    BY <1>1, <1>2, <1>3, <1>4, <1>5 DEF Next

LEMMA PerfectAlways ==
    ASSUME PerfectLine
    PROVE  Spec => []PerfectInv
<1>1. Init => PerfectInv
    BY PerfectInit
<1>2. TypeOK /\ PerfectInv /\ [Next]_vars => PerfectInv'
    BY PerfectNext
<1>3. Spec => []TypeOK
    BY TypeCorrect
<1>4. QED
    BY <1>1, <1>2, <1>3, PTL DEF Spec

\* On a perfect line, a call that waits for its answer leaves nothing in flight:
\* the answer is read, or the meter discarded the request and will not answer.
THEOREM PerfectQuiet == ASSUME PerfectLine PROVE Spec => []QuietBetweenCalls
<1>1. PerfectInv => QuietBetweenCalls
    BY DEF PerfectInv, Flight, Quiet, QuietBetweenCalls
<1>2. QED
    BY <1>1, PerfectAlways, PTL

\* On a perfect line, dlms_send_apdu returns only the answer to its own request.
THEOREM PerfectAnswers == ASSUME PerfectLine PROVE Spec => []AnswerMatches
<1>1. PerfectInv => AnswerMatches
    BY DEF PerfectInv
<1>2. QED
    BY <1>1, PerfectAlways, PTL

------------------------------------------------------------------------------
(* The session on a perfect line implements the request/response service of *)
(* RpcSession: every step of the client, the line and the meter is one step *)
(* of the service, or none.                                                  *)

Outcome  == [req |-> Asked, answer |-> Answered]
Executed == PendingRequest # "none"
            /\ (down # <<>> \/ call.at \in {"associate_rr", "send_apdu_rr"})

RpcStep == Rpc!RpcNext \/ UNCHANGED <<PendingRequest, Executed, Outcome>>

------------------------------------------------------------------------------
(* The steps of the service, in terms of the session. *)

\* A call that returned neither by an answer nor with an APDU.
Unanswered(l) ==
    /\ l.resp = "none"
    /\ l.op = "connect" => l.code # "OK"
    /\ l.op = "associate" => l.code \notin {"OK", "ERROR"}

LEMMA Served ==
    ASSUME call.at = "idle", call'.at = "idle", Unanswered(last')
    PROVE  RpcStep
<1>1. PendingRequest = "none" /\ PendingRequest' = "none"
    BY DEF PendingRequest
<1>2. Answered' = "none" /\ Asked' = "none"
    BY DEF Unanswered, Asked, Answered
<1>3. QED
    BY <1>1, <1>2 DEF RpcStep, Rpc!RpcNext, Rpc!Local

LEMMA Issued ==
    ASSUME call.at = "idle", down' = <<>>, UNCHANGED last,
           call'.at \in {"connect", "associate", "send_apdu"},
           call'.at = "send_apdu" => call'.req \in Reqs
    PROVE  RpcStep
<1>1. PendingRequest = "none" /\ PendingRequest' \in Reqs \cup {"SNRM", "AARQ"}
    BY DEF PendingRequest
<1>2. UNCHANGED <<Asked, Answered>>
    BY DEF Asked, Answered
<1>3. call'.at \notin {"associate_rr", "send_apdu_rr"}
    OBVIOUS
<1>4. Rpc!Issue(PendingRequest')
    BY <1>1, <1>2, <1>3 DEF Rpc!Issue
<1>5. QED
    BY <1>1, <1>4 DEF RpcStep, Rpc!RpcNext

LEMMA Carried ==
    ASSUME PendingRequest # "none", down = <<>>, down' # <<>>, UNCHANGED <<call, last>>,
           call.at \notin {"associate_rr", "send_apdu_rr"}
    PROVE  RpcStep
<1>1. UNCHANGED <<PendingRequest, Asked, Answered>>
    BY DEF PendingRequest, Asked, Answered
<1>2. Rpc!Execute
    BY <1>1 DEF Rpc!Execute
<1>3. QED
    BY <1>2 DEF RpcStep, Rpc!RpcNext

LEMMA Completed ==
    ASSUME Executed, call'.at = "idle", Asked' = PendingRequest, Answered' = PendingRequest
    PROVE  RpcStep
<1>1. PendingRequest' = "none"
    BY DEF PendingRequest
<1>2. Rpc!Complete
    BY <1>1 DEF Rpc!Complete, Executed
<1>3. QED
    BY <1>2 DEF RpcStep, Rpc!RpcNext

LEMMA Failed ==
    ASSUME PendingRequest # "none", ~Executed, call'.at = "idle", Unanswered(last')
    PROVE  RpcStep
<1>1. PendingRequest' = "none"
    BY DEF PendingRequest
<1>2. Answered' = "none" /\ Asked' = "none"
    BY DEF Unanswered, Asked, Answered
<1>3. Rpc!Fail
    BY <1>1, <1>2 DEF Rpc!Fail, Executed
<1>4. QED
    BY <1>3 DEF RpcStep, Rpc!RpcNext

LEMMA Waiting ==
    ASSUME Executed, Executed', UNCHANGED <<PendingRequest, last>>
    PROVE  RpcStep
<1>1. UNCHANGED <<Asked, Answered>>
    BY DEF Asked, Answered
<1>2. UNCHANGED <<Executed, Outcome>>
    BY <1>1 DEF Outcome
<1>3. QED
    BY <1>2 DEF RpcStep

------------------------------------------------------------------------------
(* The steps of the client. *)

LEMMA LocalCallsServed ==
    ASSUME PerfectInv, dlms_client_init \/ dlms_client_set_io \/ dlms_hls_authenticate \/ dlms_action
    PROVE  RpcStep
<1>1. call.at = "idle"
    BY DEF dlms_client_init, dlms_client_set_io, dlms_hls_authenticate, dlms_action, Calls, Idle,
           PerfectInv, Flight
<1>2. \E op \in {"init", "set_io", "hls", "action"}, code \in Codes : Return(op, code)
    BY DEF dlms_client_init, dlms_client_set_io, dlms_hls_authenticate, dlms_action, Codes
<1>3. call'.at = "idle" /\ Unanswered(last')
    BY <1>2 DEF Return, Returned, Idle, Unanswered
<1>4. QED
    BY <1>1, <1>3, Served

LEMMA ConnectIssued ==
    ASSUME PerfectLine, PerfectInv, dlms_hdlc_connect
    PROVE  RpcStep
<1>1. call.at = "idle" /\ down' = <<>> /\ (io.send => io.recv)
    BY DEF dlms_hdlc_connect, Calls, Idle, PerfectInv, Flight, Quiet
<1>2. CASE Return("connect", "INVALID")
    BY <1>1, <1>2, Served DEF Return, Returned, Idle, Unanswered
<1>3. CASE call' = Wait("connect", "none") /\ UNCHANGED last
    BY <1>1, <1>3, Issued DEF Wait
<1>4. QED
    BY <1>1, <1>2, <1>3, NoFaults DEF dlms_hdlc_connect, SendFails

LEMMA ConnectCompleted ==
    ASSUME PerfectLine, PerfectInv, dlms_hdlc_connect_ua
    PROVE  RpcStep
<1>1. /\ call.at = "connect"
      /\ Asking(Snrm) \/ \E i \in UaInfos : Left(Ua(i))
    BY DEF dlms_hdlc_connect_ua, PerfectInv, Flight
<1>2. ~Quiet
    BY <1>1 DEF Quiet, Asking, Left
<1>3. ~RecvTimeout /\ \A a \in Arrivals : a.frame.t = "UA"
    BY <1>1, <1>2, NoFaults, Taking, Kinds
<1>4. Return("connect", "OK") /\ down # <<>>
  <2>1. PICK a \in Arrivals : a.frame.t = "UA" => Return("connect", "OK")
      BY <1>3 DEF dlms_hdlc_connect_ua, GiveUp
  <2>2. QED
      BY <1>3, <2>1, NoFaults
<1>5. PendingRequest = "SNRM" /\ Executed
    BY <1>1, <1>4 DEF PendingRequest, Executed
<1>6. call'.at = "idle" /\ Answered' = "SNRM" /\ Asked' = "SNRM"
    BY <1>4 DEF Return, Returned, Idle, Answered, Asked
<1>7. QED
    BY <1>5, <1>6, Completed

LEMMA AssociateIssued ==
    ASSUME PerfectLine, PerfectInv, dlms_associate
    PROVE  RpcStep
<1>1. call.at = "idle" /\ down' = <<>> /\ (io.send => io.recv)
    BY DEF dlms_associate, Calls, Idle, PerfectInv, Flight, Quiet
<1>2. CASE \E code \in {"BUFFER", "INVALID"} : Return("associate", code)
    BY <1>1, <1>2, Served DEF Return, Returned, Idle, Unanswered
<1>3. CASE call' = Wait("associate", "none") /\ UNCHANGED last
    BY <1>1, <1>3, Issued DEF Wait
<1>4. QED
    BY <1>1, <1>2, <1>3, NoFaults DEF dlms_associate, SendFails

LEMMA AareCompletes ==
    ASSUME NEW f \in Aares, TakeAare(f),
           call.at \in {"associate", "associate_rr"}, down # <<>>
    PROVE  RpcStep
<1>1. f.t = "AARE"
    BY Kinds
<1>2. Return("associate", "OK") \/ Return("associate", "ERROR")
    BY <1>1 DEF TakeAare
<1>3. call'.at = "idle" /\ Answered' = "AARQ" /\ Asked' = "AARQ"
    BY <1>2 DEF Return, Returned, Idle, Answered, Asked
<1>4. PendingRequest = "AARQ" /\ Executed
    BY DEF PendingRequest, Executed
<1>5. QED
    BY <1>3, <1>4, Completed

LEMMA AssociateAnswered ==
    ASSUME PerfectLine, PerfectInv, dlms_associate_aare
    PROVE  RpcStep
<1>1. /\ call.at = "associate"
      /\ Quiet \/ (\E n \in SeqNums : Asking(Info(n, "AARQ"))) \/ \E f \in Aares : Answering(f)
    BY DEF dlms_associate_aare, PerfectInv, Flight
<1>2. CASE GiveUp("associate", "TIMEOUT")
  <2>1. Quiet /\ Return("associate", "TIMEOUT")
      BY <1>2, NoFaults DEF GiveUp
  <2>2. PendingRequest # "none" /\ ~Executed
      BY <1>1, <2>1 DEF PendingRequest, Executed, Quiet
  <2>3. QED
      BY <2>1, <2>2, Failed DEF Return, Returned, Idle, Unanswered
<1>3. ASSUME NEW a \in Arrivals, down' = a.rest,
             \/ a.frame.t = "RR" /\ ReceiveAgain("associate_rr")
             \/ a.frame.t # "RR" /\ TakeAare(a.frame)
      PROVE  RpcStep
  <2>1. PICK f \in Aares : Answering(f)
      BY <1>1, <1>3, Taking
  <2>2. Answering(f) /\ f.t = "AARE" /\ Rr.t = "RR" /\ down # <<>>
      BY <1>3, <2>1, Kinds, NoFaults
  <2>3. CASE a.frame = f
      BY <1>1, <1>3, <2>2, <2>3, AareCompletes
  <2>4. CASE a.frame = Rr /\ a.rest = <<f>>
    <3>1. call'.at = "associate_rr" /\ UNCHANGED last /\ down' # <<>>
        BY <1>3, <2>2, <2>4 DEF ReceiveAgain, Wait
    <3>2. UNCHANGED PendingRequest /\ Executed /\ Executed'
        BY <1>1, <2>2, <3>1 DEF PendingRequest, Executed
    <3>3. QED
        BY <3>1, <3>2, Waiting
  <2>5. QED
      BY <1>3, <2>2, <2>3, <2>4, Taking
<1>4. QED
    BY <1>2, <1>3 DEF dlms_associate_aare

LEMMA AssociateAnsweredAgain ==
    ASSUME PerfectLine, PerfectInv, dlms_associate_aare_rr
    PROVE  RpcStep
<1>1. call.at = "associate_rr" /\ \E f \in Aares : Left(f)
    BY DEF dlms_associate_aare_rr, PerfectInv, Flight
<1>2. PICK f \in Aares : Left(f)
    BY <1>1
<1>3. Left(f) /\ down # <<>> /\ ~Quiet
    BY <1>2 DEF Left, Quiet
<1>4. PICK a \in Arrivals : TakeAare(a.frame)
    BY <1>3, NoFaults DEF dlms_associate_aare_rr, GiveUp
<1>5. TakeAare(f)
    BY <1>3, <1>4, Taking
<1>6. QED
    BY <1>1, <1>3, <1>5, AareCompletes

LEMMA SendIssued ==
    ASSUME PerfectLine, PerfectInv, NEW op, NEW r \in Reqs,
           op \in {"read", "write", "send_only", "send_apdu"}, dlms_send_apdu(op, r)
    PROVE  RpcStep
<1>1. call.at = "idle" /\ down' = <<>> /\ (io.send => io.recv) /\ op = "send_apdu"
    BY DEF dlms_send_apdu, Calls, Idle, PerfectInv, Flight, Quiet, PerfectLine
<1>2. CASE \E code \in {"BUFFER", "INVALID"} : Return("send_apdu", code)
    BY <1>1, <1>2, Served DEF Return, Returned, Idle, Unanswered
<1>3. CASE call' = Wait("send_apdu", r) /\ UNCHANGED last
    BY <1>1, <1>3, Issued DEF Wait
<1>4. QED
    BY <1>1, <1>2, <1>3, NoFaults DEF dlms_send_apdu, SendFails

LEMMA ResponseCompletes ==
    ASSUME NEW f, f = Data(call.req), TakeResponse(f), call.req \in Reqs,
           call.at \in {"send_apdu", "send_apdu_rr"}, down # <<>>
    PROVE  RpcStep
<1>1. PendingRequest = call.req /\ call.req # "none"
    BY WireAssumption DEF PendingRequest
<1>2. Executed
    BY <1>1 DEF Executed
<1>3. /\ call'.at = "idle"
      /\ last' = [op |-> "send_apdu", code |-> "OK", req |-> call.req, resp |-> call.req]
    BY DEF TakeResponse, Data, Idle
<1>4. Answered' = call.req /\ Asked' = call.req
    BY <1>1, <1>3 DEF Answered, Asked
<1>5. QED
    BY <1>1, <1>2, <1>3, <1>4, Completed

LEMMA SendAnswered ==
    ASSUME PerfectLine, PerfectInv, dlms_send_apdu_resp
    PROVE  RpcStep
<1>1. /\ call.at = "send_apdu" /\ call.req \in Reqs /\ call.req # "none"
      /\ Quiet \/ (\E n \in SeqNums : Asking(Info(n, call.req))) \/ Answering(Data(call.req))
    BY WireAssumption DEF dlms_send_apdu_resp, PerfectInv, Flight
<1>2. CASE GiveUp("send_apdu", "TIMEOUT")
  <2>1. Quiet /\ Return("send_apdu", "TIMEOUT")
      BY <1>2, NoFaults DEF GiveUp
  <2>2. PendingRequest # "none" /\ ~Executed
      BY <1>1, <2>1 DEF PendingRequest, Executed, Quiet
  <2>3. QED
      BY <2>1, <2>2, Failed DEF Return, Returned, Idle, Unanswered
<1>3. ASSUME NEW a \in Arrivals, down' = a.rest,
             \/ a.frame.t = "JUNK"
             \/ a.frame.t = "RR" /\ ReceiveAgain("send_apdu_rr")
             \/ a.frame.t \notin {"RR", "JUNK"} /\ TakeResponse(a.frame)
      PROVE  RpcStep
  <2>1. Answering(Data(call.req))
      BY <1>1, <1>3, Taking
  <2>2. PICK f : f = Data(call.req)
      OBVIOUS
  <2>3. Answering(f) /\ f.t = "DATA" /\ Rr.t = "RR" /\ down # <<>>
      BY <1>3, <2>1, <2>2, Kinds, NoFaults
  <2>4. CASE a.frame = f
      BY <1>1, <1>3, <2>2, <2>3, <2>4, ResponseCompletes
  <2>5. CASE a.frame = Rr /\ a.rest = <<f>>
    <3>1. call' = Wait("send_apdu_rr", call.req) /\ UNCHANGED last /\ down' # <<>>
        BY <1>3, <2>3, <2>5 DEF ReceiveAgain
    <3>2. UNCHANGED PendingRequest /\ Executed /\ Executed'
        BY <1>1, <2>3, <3>1 DEF PendingRequest, Executed, Wait
    <3>3. QED
        BY <3>1, <3>2, Waiting
  <2>6. QED
      BY <1>3, <2>3, <2>4, <2>5, Taking
<1>4. QED
    BY <1>2, <1>3 DEF dlms_send_apdu_resp

LEMMA SendAnsweredAgain ==
    ASSUME PerfectLine, PerfectInv, dlms_send_apdu_resp_rr
    PROVE  RpcStep
<1>1. call.at = "send_apdu_rr" /\ call.req \in Reqs /\ Left(Data(call.req))
    BY DEF dlms_send_apdu_resp_rr, PerfectInv, Flight
<1>2. PICK f : f = Data(call.req)
    OBVIOUS
<1>3. Left(f) /\ down # <<>> /\ ~Quiet /\ f.t = "DATA"
    BY <1>1, <1>2, Kinds DEF Left, Quiet
<1>4. PICK a \in Arrivals : a.frame.t = "JUNK" \/ TakeResponse(a.frame)
    BY <1>3, NoFaults DEF dlms_send_apdu_resp_rr, GiveUp
<1>5. TakeResponse(f)
    BY <1>3, <1>4, Taking
<1>6. QED
    BY <1>1, <1>2, <1>3, <1>5, ResponseCompletes

------------------------------------------------------------------------------
(* The steps of the meter. *)

LEMMA MeterCarries ==
    ASSUME PerfectLine, TypeOK, PerfectInv, UNCHANGED clientVars, MeterNext
    PROVE  RpcStep
<1>1. up # <<>>
    BY DEF MeterNext, MeterSnrm, MeterDisc, MeterAarq, MeterData, MeterDiscard, Arrived
<1>2. /\ down = <<>> /\ call.at \in {"connect", "associate", "send_apdu"}
      /\ call.at = "send_apdu" => call.req \in Reqs
    BY <1>1, WhoAsks
<1>3. PendingRequest # "none" /\ UNCHANGED <<call, last>>
    BY <1>2, WireAssumption DEF PendingRequest, clientVars
<1>4. down' = <<>> \/ down' # <<>>
    OBVIOUS
<1>5. CASE down' # <<>>
    BY <1>2, <1>3, <1>5, Carried
<1>6. CASE down' = <<>>
  <2>1. UNCHANGED <<PendingRequest, Asked, Answered>>
      BY <1>3 DEF PendingRequest, Asked, Answered
  <2>2. UNCHANGED Executed
      BY <1>2, <1>3, <1>6, <2>1 DEF Executed
  <2>3. QED
      BY <2>1, <2>2 DEF RpcStep, Outcome
<1>7. QED
    BY <1>5, <1>6

------------------------------------------------------------------------------

LEMMA StepServed ==
    ASSUME PerfectLine, TypeOK, PerfectInv, [Next]_vars
    PROVE  RpcStep
<1>1. CASE InitClient \/ Connect \/ ConnectReturns
    BY <1>1, LocalCallsServed, ConnectIssued, ConnectCompleted DEF InitClient, Connect, ConnectReturns
<1>2. ~Disconnect /\ ~Lose
    BY NoFaults DEF PerfectLine, Disconnect, dlms_hdlc_disconnect, Calls, Lose
<1>3. CASE Exchange
    BY <1>3, LocalCallsServed, AssociateIssued, AssociateAnswered, AssociateAnsweredAgain,
       SendIssued, SendAnswered, SendAnsweredAgain DEF Exchange
<1>4. CASE MeterStep
    BY <1>4, MeterCarries DEF MeterStep
<1>5. CASE UNCHANGED vars
    BY <1>5 DEF vars, wireVars, clientVars, RpcStep, Outcome, Executed, PendingRequest, Asked, Answered
<1>6. QED
    BY <1>1, <1>2, <1>3, <1>4, <1>5 DEF Next

LEMMA InitServed == Init => Rpc!RpcInit
    BY DEF Init, WireInit, ClientInit, Idle, Returned, Rpc!RpcInit, PendingRequest, Asked, Answered

\* On a perfect line, connect, associate and send_apdu together are a request/response
\* service: one request outstanding, executed at most once, answered with the answer to
\* itself, and failed only when it was not executed.
THEOREM PerfectSession == ASSUME PerfectLine PROVE Spec => ImplementsRpc
<1>1. Init => Rpc!RpcInit
    BY InitServed
<1>2. TypeOK /\ PerfectInv /\ [Next]_vars => [Rpc!RpcNext]_(Rpc!rpcVars)
    BY StepServed DEF RpcStep, Rpc!rpcVars, Executed, Outcome
<1>3. Spec => []TypeOK
    BY TypeCorrect
<1>4. Spec => []PerfectInv
    BY PerfectAlways
<1>5. QED
    BY <1>1, <1>2, <1>3, <1>4, PTL DEF Spec, ImplementsRpc, Rpc!RpcSpec

==============================================================================
