------------------------------ MODULE DlmsClient ------------------------------
(***************************************************************************)
(* The DLMS client of src/src/dlms_client.c: the calls of the application  *)
(* on one dlms_client_t.  A call runs in one thread up to the points where *)
(* it blocks in recv_fn; each piece between two such points is an action,  *)
(* named after its function.  The variables are the fields of              *)
(* dlms_client_t that some call branches on or sends, with their names;    *)
(* call and last are the call in progress and the last one that returned.  *)
(*                                                                         *)
(* Abstracted: addresses and auth_mechanism (copied into frames, never     *)
(* tested), the buffers tx_buf and rx_buf, keys and challenges (no call    *)
(* uses them).  The decoded frame of recv_fn points into the dead stack    *)
(* frame of dlms_hdlc_frame_decode (dlms_hdlc.c:391); gcc -O0 to -O3 all   *)
(* leave the UA parameters, the AARE result and the APDU that is copied    *)
(* out intact, and do not agree on the negotiated PDU size, which is       *)
(* therefore chosen among the values the builds may produce.               *)
(***************************************************************************)
EXTENDS DlmsWire

CONSTANTS
    AppOps,     \* the calls the application makes, a subset of OpKinds
    IoChoices,  \* the callbacks it may install: [send, recv], FALSE is NULL
    PduSizes    \* what the field negotiated_max_pdu_size may decode to

OpKinds ==
    {"init", "set_io", "connect", "disconnect", "associate", "hls", "action",
     "read", "write", "send_only", "send_apdu"}

DefaultPdu == 65535
DefaultRx  == 128

ASSUME ClientAssumption ==
    /\ AppOps \subseteq OpKinds
    /\ IoChoices # {} /\ IoChoices \subseteq [send : BOOLEAN, recv : BOOLEAN]
    /\ PduSizes \subseteq U16 \ {0}

VARIABLES
    state,                   \* dlms_client_state_t
    send_seq, recv_seq,      \* N(S) and N(R) of the next I-frame
    negotiated_window_size,
    max_info_rx,             \* the DLMS_PARAM_MAX_INFO_RX entry of hdlc_params
    max_pdu_size,
    io,                      \* the callbacks installed
    call,                    \* the call in progress, and where it waits
    last                     \* how the last call returned

seqVars    == <<send_seq, recv_seq>>
paramVars  == <<negotiated_window_size, max_info_rx, max_pdu_size>>
clientVars == <<state, seqVars, paramVars, io, call, last>>

States == {"DISCONNECTED", "HDLC_CONNECTING", "ASSOCIATING", "ASSOCIATED",
           "AUTHENTICATING", "READY", "ERROR"}

\* Return codes; IO is whatever error the callback returned, PARSE whatever
\* the decoders return for a chunk they reject.
Codes == {"OK", "ERROR", "BUFFER", "PARSE", "INVALID", "NOT_SUPPORTED",
          "TIMEOUT", "IO"}

\* The places where a call waits in recv_fn: _rr is the second receive, after
\* an RR.  "aborted": the process has called a NULL callback.
Waits == {"connect", "associate", "associate_rr", "send_apdu", "send_apdu_rr"}

NoIo == [send |-> FALSE, recv |-> FALSE]
Idle == [at |-> "idle", req |-> "none"]
Wait(at, r) == [at |-> at, req |-> r]

CallRecords ==
    [at : Waits \cup {"idle", "aborted"}, req : Reqs \cup {"none"}]

\* Of a call that returned: the request and the response are those of a
\* dlms_send_apdu that copied an APDU out.
Outcomes ==
    [op : OpKinds, code : Codes, req : Reqs \cup {"none"},
     resp : Reqs \cup {"none", "AARE"}]

ClientTypeOK ==
    /\ state \in States
    /\ send_seq \in SeqNums
    /\ recv_seq \in SeqNums
    /\ negotiated_window_size \in U8
    /\ max_info_rx \in U16
    /\ max_pdu_size \in U16 \ {0}
    /\ io \in [send : BOOLEAN, recv : BOOLEAN]
    /\ call \in CallRecords
    /\ last \in Outcomes

Returned(op, code) == [op |-> op, code |-> code, req |-> "none", resp |-> "none"]

Return(op, code) ==
    /\ call' = Idle
    /\ last' = Returned(op, code)

\* Defects the properties must notice: a receive that is retried for ever, a
\* sequence number not used or used up by a failed send, an RR taken for the
\* answer, a connect that keeps the old numbers.
RetriesForever(op, code) == RecvTimeout /\ UNCHANGED <<call, last>>
NumberReused == UNCHANGED send_seq
FailedSendAdvances(op) == SendError /\ Return(op, "IO") /\ send_seq' = Succ(send_seq)
RrEndsCall(at) == Return("send_apdu", "OK")
SeqsKept == UNCHANGED seqVars

\* recv_fn does not deliver: the call gives up.
GiveUp(op, code) ==
    /\ RecvTimeout
    /\ Return(op, code)

\* An I-frame was handed to the line, or could not be.
Advance == send_seq' = Succ(send_seq)

SendFails(op) ==
    /\ SendError
    /\ Return(op, "IO")
    /\ UNCHANGED send_seq

\* An RR only acknowledges; the call receives once more.
ReceiveAgain(at) ==
    /\ call' = Wait(at, call.req)
    /\ UNCHANGED last

\* The body of dlms_client_init: memset and the defaults.
Fresh ==
    /\ state' = "DISCONNECTED"
    /\ send_seq' = 0
    /\ recv_seq' = 0
    /\ negotiated_window_size' = 0
    /\ max_info_rx' = DefaultRx
    /\ max_pdu_size' = DefaultPdu
    /\ io' = NoIo

\* The program starts with dlms_client_init.
ClientInit ==
    /\ state = "DISCONNECTED"
    /\ send_seq = 0
    /\ recv_seq = 0
    /\ negotiated_window_size = 0
    /\ max_info_rx = DefaultRx
    /\ max_pdu_size = DefaultPdu
    /\ io = NoIo
    /\ call = Idle
    /\ last = Returned("init", "OK")

\* The application calls op.
Calls(op) ==
    /\ op \in AppOps
    /\ call = Idle

------------------------------------------------------------------------------
(* Calls that do not touch the line. *)

\* On a client that is in use, or in the process restarted after an abort.
dlms_client_init ==
    /\ "init" \in AppOps
    /\ call.at \in {"idle", "aborted"}
    /\ Fresh
    /\ Return("init", "OK")
    /\ UNCHANGED wireVars

dlms_client_set_io ==
    /\ Calls("set_io")
    /\ io' \in IoChoices
    /\ Return("set_io", "OK")
    /\ UNCHANGED <<wireVars, state, seqVars, paramVars>>

\* The simplified implementation: two assignments, no exchange.
dlms_hls_authenticate ==
    /\ Calls("hls")
    /\ state' = "READY"
    /\ Return("hls", "OK")
    /\ UNCHANGED <<wireVars, seqVars, paramVars, io>>

dlms_action ==
    /\ Calls("action")
    /\ Return("action", "NOT_SUPPORTED")
    /\ UNCHANGED <<wireVars, state, seqVars, paramVars, io>>

------------------------------------------------------------------------------
(* HDLC link. *)

\* dlms_hdlc_connect up to recv_fn.
dlms_hdlc_connect ==
    /\ Calls("connect")
    /\ \/ /\ ~io.send
          /\ Return("connect", "INVALID")
          /\ UNCHANGED <<state, send_seq, up>>
       \/ /\ io.send
          /\ state' = "HDLC_CONNECTING"
          /\ SendFails("connect")
       \/ /\ io.send
          /\ state' = "HDLC_CONNECTING"
          /\ SendOK(Snrm)
          /\ call' = Wait(IF io.recv THEN "connect" ELSE "aborted", "none")
          /\ UNCHANGED <<last, send_seq>>
    /\ UNCHANGED <<down, recv_seq, paramVars, io>>

\* The parameters of the UA the client keeps.
Negotiate(i) ==
    /\ negotiated_window_size' = IF i.win # 0 THEN i.win ELSE negotiated_window_size
    /\ max_info_rx' = IF i.rx # 0 THEN i.rx ELSE max_info_rx

ResetSeqs ==
    /\ send_seq' = 0
    /\ recv_seq' = 0

\* dlms_hdlc_connect from recv_fn on.
dlms_hdlc_connect_ua ==
    /\ call.at = "connect"
    /\ \/ /\ GiveUp("connect", "TIMEOUT")
          /\ UNCHANGED <<seqVars, negotiated_window_size, max_info_rx>>
       \/ \E a \in Arrivals :
             /\ down' = a.rest
             /\ a.frame.t # "UA"
             /\ Return("connect", "PARSE")
             /\ UNCHANGED <<seqVars, negotiated_window_size, max_info_rx>>
       \/ \E a \in Arrivals :
             /\ down' = a.rest
             /\ a.frame.t = "UA"
             /\ Negotiate(a.frame.info)
             /\ ResetSeqs
             /\ Return("connect", "OK")
    /\ UNCHANGED <<up, state, max_pdu_size, io>>

\* DISC is sent and its answer is not waited for.
dlms_hdlc_disconnect ==
    /\ Calls("disconnect")
    /\ \/ /\ ~io.send
          /\ Return("disconnect", "INVALID")
          /\ UNCHANGED <<state, send_seq, up>>
       \/ /\ io.send
          /\ SendFails("disconnect")
          /\ state' = "DISCONNECTED"
       \/ /\ io.send
          /\ SendOK(Disc)
          /\ state' = "DISCONNECTED"
          /\ Return("disconnect", "OK")
          /\ UNCHANGED send_seq
    /\ UNCHANGED <<down, recv_seq, paramVars, io>>

------------------------------------------------------------------------------
(* Application association. *)

\* dlms_associate up to the first recv_fn.  A password of 120 bytes or more
\* does not fit the initiate request, and the call returns before it changes
\* the state; it returns after when the AARQ of a shorter one does not fit a
\* frame, or without send_fn.
dlms_associate ==
    /\ Calls("associate")
    /\ \/ /\ state' \in {state, "ASSOCIATING"}
          /\ Return("associate", "BUFFER")
          /\ UNCHANGED <<send_seq, up>>
       \/ /\ ~io.send
          /\ state' = "ASSOCIATING"
          /\ Return("associate", "INVALID")
          /\ UNCHANGED <<send_seq, up>>
       \/ /\ io.send
          /\ state' = "ASSOCIATING"
          /\ SendFails("associate")
       \/ /\ io.send
          /\ state' = "ASSOCIATING"
          /\ SendOK(Info(send_seq, "AARQ"))
          /\ Advance
          /\ call' = Wait(IF io.recv THEN "associate" ELSE "aborted", "none")
          /\ UNCHANGED last
    /\ UNCHANGED <<down, recv_seq, paramVars, io>>

\* The end of dlms_associate: an I-frame that is not an AARE (nor UA, RR, ...)
\* is a parse error.
TakeAare(f) ==
    \/ /\ f.t # "AARE"
       /\ Return("associate", "PARSE")
       /\ UNCHANGED <<state, max_pdu_size>>
    \/ /\ f.t = "AARE"
       /\ aare_result(f) # 0
       /\ Return("associate", "ERROR")
       /\ UNCHANGED <<state, max_pdu_size>>
    \/ /\ f.t = "AARE"
       /\ aare_result(f) = 0
       /\ \E p \in negotiated_pdu(f, PduSizes) :
              max_pdu_size' = IF p > 0 THEN p ELSE max_pdu_size
       /\ state' = "ASSOCIATED"
       /\ Return("associate", "OK")

\* dlms_associate from the first recv_fn on.
dlms_associate_aare ==
    /\ call.at = "associate"
    /\ \/ /\ GiveUp("associate", "TIMEOUT")
          /\ UNCHANGED <<state, max_pdu_size>>
       \/ \E a \in Arrivals :
             /\ down' = a.rest
             /\ a.frame.t = "RR"
             /\ ReceiveAgain("associate_rr")
             /\ UNCHANGED <<state, max_pdu_size>>
       \/ \E a \in Arrivals :
             /\ down' = a.rest
             /\ a.frame.t # "RR"
             /\ TakeAare(a.frame)
    /\ UNCHANGED <<up, seqVars, negotiated_window_size, max_info_rx, io>>

\* dlms_associate from the recv_fn that follows an RR on.
dlms_associate_aare_rr ==
    /\ call.at = "associate_rr"
    /\ \/ /\ GiveUp("associate", "IO")
          /\ UNCHANGED <<state, max_pdu_size>>
       \/ \E a \in Arrivals :
             /\ down' = a.rest
             /\ TakeAare(a.frame)
    /\ UNCHANGED <<up, seqVars, negotiated_window_size, max_info_rx, io>>

------------------------------------------------------------------------------
(* Data exchange. *)

\* dlms_send_apdu up to the first recv_fn.  dlms_read and dlms_write end in
\* this call with no response buffer, as an application may (send_only): then
\* nothing is received.  An APDU too long for one frame is refused, and so is a
\* value that dlms_write cannot encode or has no room for.
dlms_send_apdu(op, r) ==
    /\ Calls(op)
    /\ \/ /\ \/ op = "write" /\ \E code \in {"BUFFER", "NOT_SUPPORTED"} : Return(op, code)
             \/ op \in {"send_only", "send_apdu"} /\ io.send /\ Return(op, "BUFFER")
          /\ UNCHANGED <<send_seq, up>>
       \/ /\ ~io.send
          /\ Return(op, "INVALID")
          /\ UNCHANGED <<send_seq, up>>
       \/ /\ io.send
          /\ SendFails(op)
       \/ /\ io.send
          /\ SendOK(Info(send_seq, r))
          /\ Advance
          /\ IF op = "send_apdu" /\ io.recv
             THEN call' = Wait("send_apdu", r) /\ UNCHANGED last
             ELSE Return(op, "OK")
    /\ UNCHANGED <<down, state, recv_seq, paramVars, io>>

Acknowledge == recv_seq' = Succ(recv_seq)

\* The end of dlms_send_apdu on a frame that was decoded: the APDU of an I-frame
\* is copied out; any other frame also ends the call with DLMS_OK.
TakeResponse(f) ==
    LET got == CASE f.t = "DATA" -> f.body
                 [] f.t = "AARE" -> "AARE"
                 [] OTHER        -> "none"
    IN  /\ call' = Idle
        /\ last' = [op |-> "send_apdu", code |-> "OK", req |-> call.req, resp |-> got]
        /\ IF f.t \in {"DATA", "AARE"} THEN Acknowledge ELSE UNCHANGED recv_seq

\* dlms_send_apdu from the first recv_fn on.
dlms_send_apdu_resp ==
    /\ call.at = "send_apdu"
    /\ \/ /\ GiveUp("send_apdu", "TIMEOUT")
          /\ UNCHANGED recv_seq
       \/ \E a \in Arrivals :
             /\ down' = a.rest
             /\ a.frame.t = "JUNK"
             /\ Return("send_apdu", "PARSE")
             /\ UNCHANGED recv_seq
       \/ \E a \in Arrivals :
             /\ down' = a.rest
             /\ a.frame.t = "RR"
             /\ Acknowledge
             /\ ReceiveAgain("send_apdu_rr")
       \/ \E a \in Arrivals :
             /\ down' = a.rest
             /\ a.frame.t \notin {"RR", "JUNK"}
             /\ TakeResponse(a.frame)
    /\ UNCHANGED <<up, state, send_seq, paramVars, io>>

\* dlms_send_apdu from the recv_fn that follows an RR on.
dlms_send_apdu_resp_rr ==
    /\ call.at = "send_apdu_rr"
    /\ \/ /\ GiveUp("send_apdu", "IO")
          /\ UNCHANGED recv_seq
       \/ \E a \in Arrivals :
             /\ down' = a.rest
             /\ a.frame.t = "JUNK"
             /\ Return("send_apdu", "PARSE")
             /\ UNCHANGED recv_seq
       \/ \E a \in Arrivals :
             /\ down' = a.rest
             /\ a.frame.t # "JUNK"
             /\ TakeResponse(a.frame)
    /\ UNCHANGED <<up, state, send_seq, paramVars, io>>

==============================================================================
