------------------------------ MODULE MCSession ------------------------------
(* Values of the constants of DlmsSession for model checking. *)
EXTENDS DlmsSession

CONSTANTS r1, r2

MCReqs     == {r1, r2}
MCUaInfos  == {[win |-> 0, rx |-> 0]}
MCUaParams == {[win |-> 0, rx |-> 0], [win |-> 7, rx |-> 512]}
MCPdu      == {1024}
NoPdu      == {}
BothIo     == {[send |-> TRUE, recv |-> TRUE]}
AllIo      == [send : BOOLEAN, recv : BOOLEAN]
Bools      == BOOLEAN
JustFalse  == {FALSE}
JustTrue   == {TRUE}

\* An application that waits for every answer.
Disciplined == {"set_io", "connect", "associate", "hls", "action", "send_apdu"}
\* Every way of sending on the link and of losing track of it.
SendingOps == {"init", "set_io", "connect", "disconnect", "write"}
\* Every way of receiving, and of leaving an answer unread.
ReceivingOps == {"set_io", "connect", "associate", "read", "send_only", "send_apdu"}

UpFaults   == {"send_error", "lost_up", "late"}
DownFaults == {"late", "lost_down", "garbled", "coalesced", "split"}

==============================================================================
