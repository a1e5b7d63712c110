--------------------------- MODULE RetryContract ----------------------------
(***************************************************************************)
(* What every client promises of one buffered call, however its retry loop *)
(* is written: the call ends once, a success was executed by the server,   *)
(* and a request that is not safe to replay is executed at most once.      *)
(***************************************************************************)
EXTENDS Naturals

VARIABLES
    safe,       \* the request may be executed twice
    executed,   \* times the server executed it
    result      \* "none" while the call is under way

vars == <<safe, executed, result>>

Init == safe \in BOOLEAN /\ executed = 0 /\ result = "none"

\* Also after the call has ended: a request given up may reach the server.
Execute ==
    /\ safe \/ executed = 0
    /\ executed' = executed + 1
    /\ UNCHANGED <<safe, result>>

Settle ==
    /\ result = "none"
    /\ result' \in {"ok", "status", "connection", "timeout", "value"}
    /\ result' = "ok" => executed >= 1
    /\ UNCHANGED <<safe, executed>>

Spec == Init /\ [][Execute \/ Settle]_vars
=============================================================================
