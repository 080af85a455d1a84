------------------------------ MODULE RpcSession ------------------------------
(***************************************************************************)
(* What a request/response session promises the application: one request   *)
(* is outstanding at a time, the server executes it at most once, a call   *)
(* that is answered returns the answer to its own request, and a call      *)
(* fails only if its request was not executed.                             *)
(***************************************************************************)
CONSTANT Requests

VARIABLES
    pending,    \* the outstanding request, or "none"
    executed,   \* the server has executed it
    outcome     \* of the last call: the request and the answer, or "none"

rpcVars == <<pending, executed, outcome>>

RpcTypeOK ==
    /\ pending \in Requests \cup {"none"}
    /\ executed \in BOOLEAN
    /\ outcome \in [req : Requests \cup {"none"}, answer : Requests \cup {"none"}]

RpcInit ==
    /\ pending = "none"
    /\ executed = FALSE
    /\ outcome = [req |-> "none", answer |-> "none"]

Issue(r) ==
    /\ pending = "none"
    /\ pending' = r
    /\ executed' = FALSE
    /\ UNCHANGED outcome

Execute ==
    /\ pending # "none"
    /\ ~executed
    /\ executed' = TRUE
    /\ UNCHANGED <<pending, outcome>>

Complete ==
    /\ pending # "none"
    /\ executed
    /\ pending' = "none"
    /\ executed' = FALSE
    /\ outcome' = [req |-> pending, answer |-> pending]

Fail ==
    /\ pending # "none"
    /\ ~executed
    /\ pending' = "none"
    /\ executed' = FALSE
    /\ outcome' = [req |-> "none", answer |-> "none"]

\* A call refused, or served, without the server.
Local ==
    /\ pending = "none"
    /\ outcome' = [req |-> "none", answer |-> "none"]
    /\ UNCHANGED <<pending, executed>>

RpcNext ==
    \/ \E r \in Requests : Issue(r)
    \/ Execute
    \/ Complete
    \/ Fail
    \/ Local

RpcSpec == RpcInit /\ [][RpcNext]_rpcVars

==============================================================================
