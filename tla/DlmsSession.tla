----------------------------- MODULE DlmsSession -----------------------------
(***************************************************************************)
(* The client, the line and the meter together, and the properties of the  *)
(* session.  The history variable link records what the two ends can know  *)
(* of each other's sequence numbers: "resetting" while a connect waits for *)
(* its UA and nothing was lost since it sent the SNRM, "agreed" after such *)
(* a connect has succeeded, "unknown" otherwise.                           *)
(***************************************************************************)
EXTENDS DlmsClient, Meter

VARIABLE link

vars == <<wireVars, clientVars, meterVars, link>>

LinkStates == {"unknown", "resetting", "agreed"}

TypeOK ==
    /\ WireTypeOK
    /\ ClientTypeOK
    /\ MeterTypeOK
    /\ link \in LinkStates

Init ==
    /\ WireInit
    /\ ClientInit
    /\ MeterInit
    /\ link = "unknown"

------------------------------------------------------------------------------
(* The steps, with what each does to the link. *)

\* A new client starts counting at zero, whatever the meter expects.
InitClient ==
    /\ dlms_client_init
    /\ link' = "unknown"
    /\ UNCHANGED meterVars

Connect ==
    /\ dlms_hdlc_connect
    /\ link' = IF call'.at # "idle" THEN "resetting" ELSE link
    /\ UNCHANGED meterVars

ConnectReturns ==
    /\ dlms_hdlc_connect_ua
    /\ link' = IF last'.code = "OK" /\ link = "resetting" THEN "agreed" ELSE "unknown"
    /\ UNCHANGED meterVars

Disconnect ==
    /\ dlms_hdlc_disconnect
    /\ link' = IF last'.code = "OK" THEN "unknown" ELSE link
    /\ UNCHANGED meterVars

Exchange ==
    /\ \/ dlms_client_set_io
       \/ dlms_hls_authenticate
       \/ dlms_action
       \/ dlms_associate
       \/ dlms_associate_aare
       \/ dlms_associate_aare_rr
       \/ \E op \in {"read", "write", "send_only", "send_apdu"}, r \in Reqs :
              dlms_send_apdu(op, r)
       \/ dlms_send_apdu_resp
       \/ dlms_send_apdu_resp_rr
    /\ UNCHANGED <<meterVars, link>>

MeterStep ==
    /\ MeterNext
    /\ UNCHANGED <<clientVars, link>>

Lose ==
    /\ \/ LoseUp /\ link' = "unknown"
       \/ LoseDown /\ UNCHANGED link
    /\ UNCHANGED <<clientVars, meterVars>>

Next ==
    \/ InitClient
    \/ Connect
    \/ ConnectReturns
    \/ Disconnect
    \/ Exchange
    \/ MeterStep
    \/ Lose

Spec == Init /\ [][Next]_vars

\* Calls are the application's choice.  recv_fn takes a timeout and returns
\* when it expires, and the meter answers what it receives.
Fairness ==
    /\ WF_vars(ConnectReturns)
    /\ WF_vars(Exchange /\ call.at \in Waits)
    /\ WF_vars(MeterStep)

FairSpec == Spec /\ Fairness

------------------------------------------------------------------------------
(* Sequence numbers of the two ends. *)

\* A meter that expects v and meets the frames u will, behind the first k of
\* them (none, or up to an SNRM), expect in turn exactly the I-frames that
\* follow, and then n.
Aligned(u, v, k, n) ==
    LET start == IF k = 0 THEN v ELSE 0
    IN  /\ IF k = 0 THEN v \in SeqNums ELSE u[k].t = "SNRM"
        /\ \A i \in k + 1 .. Len(u) :
               u[i].t = "I" /\ u[i].ns = (start + (i - k - 1)) % 8
        /\ n = (start + (Len(u) - k)) % 8

\* Once a connect has succeeded without a loss, the number of the client's next
\* I-frame is the one the meter will expect when it gets there, until a frame
\* of the client is lost or the client disconnects, connects or is initialised
\* again.  Covers send_seq in connect, associate and send_apdu, with send
\* failures, timeouts, bad frames and stale UA frames in between.
LinkAgreement ==
    link = "agreed" => \E k \in 0 .. Len(up) : Aligned(up, vr, k, send_seq)

\* While connect waits for its UA, what is in flight ends with its SNRM or is
\* gone, and the meter counts from zero: the strengthening LinkAgreement needs.
ResetInFlight ==
    link = "resetting" =>
        /\ call.at \in {"connect", "aborted"}
        /\ Aligned(up, vr, Len(up), 0)

\* On an agreed link the meter discards an I-frame as out of sequence only if
\* it was sent before the SNRM that opened the link and is still behind it.
DiscardsOnlyOldFrames ==
    [][MeterDiscard /\ link = "agreed" =>
           \E i \in 1 .. Len(up) : up[i].t = "SNRM"]_vars

------------------------------------------------------------------------------
(* Requests and answers. *)

\* dlms_send_apdu never returns an answer to something else than its request.
AnswerMatches ==
    last.op = "send_apdu" /\ last.resp # "none" => last.resp = last.req

\* Nothing is in flight between two calls, so that no call can meet what an
\* earlier one left behind.
QuietBetweenCalls ==
    call.at = "idle" => up = <<>> /\ down = <<>>

\* Every call returns, whatever the line does: at most two receives, each
\* ended by its timeout at the latest.
CallsReturn ==
    call.at \in Waits ~> call.at \notin Waits

\* On a perfect line, a request sent on an agreed link is answered.
AgreedLinkAnswers ==
    call.at = "send_apdu" /\ link = "agreed"
        ~> call = Idle /\ last.op = "send_apdu" /\ last.resp # "none"

------------------------------------------------------------------------------
(* The session as a request/response service.  The request of connect is the *)
(* SNRM, the one of associate the AARQ; a refusal is an answer too.          *)

PendingRequest ==
    CASE call.at = "connect"                      -> "SNRM"
      [] call.at \in {"associate", "associate_rr"} -> "AARQ"
      [] call.at \in {"send_apdu", "send_apdu_rr"} -> call.req
      [] OTHER                                     -> "none"

Answered ==
    CASE last.op = "connect" /\ last.code = "OK"                -> "SNRM"
      [] last.op = "associate" /\ last.code \in {"OK", "ERROR"} -> "AARQ"
      [] OTHER                                                  -> last.resp

Asked ==
    IF last.op = "send_apdu" /\ last.resp # "none" THEN last.req ELSE Answered

Rpc == INSTANCE RpcSession WITH
    Requests <- Reqs \cup {"SNRM", "AARQ"},
    pending  <- PendingRequest,
    executed <- PendingRequest # "none"
                /\ (down # <<>> \/ call.at \in {"associate_rr", "send_apdu_rr"}),
    outcome  <- [req |-> Asked, answer |-> Answered]

\* The disciplined session implements the request/response service.
ImplementsRpc == Rpc!RpcSpec

==============================================================================
