--------------------------- MODULE EventDelivery ----------------------------
(***************************************************************************)
(* What following an operation's events promises its caller: the payload   *)
(* events after a starting point, in order, each once and none skipped,    *)
(* and a normal end only after the completion event, unless the service    *)
(* excuses its absence.                                                    *)
(***************************************************************************)
EXTENDS Naturals

CONSTANTS
    N,          \* the completion event; events are numbered from 1
    Blank       \* frames that carry an id and no payload

VARIABLES
    delivered,  \* the last event the caller got
    outcome,    \* "none", or how the iteration ended
    excused     \* a read the caller positioned met a log without completion

Init == delivered \in 0 .. N /\ outcome = "none"

Deliver ==
    /\ outcome = "none"
    /\ delivered' \in (delivered + 1) .. N
    /\ (delivered + 1) .. (delivered' - 1) \subseteq Blank
    /\ outcome' \in {"none", "returned"}
    /\ outcome' = "returned" => delivered' = N

End ==
    /\ outcome = "none"
    /\ outcome' \in {"returned", "raised", "refused", "timeout"}
    /\ outcome' = "returned" => delivered = N \/ excused
    /\ UNCHANGED delivered

Spec == Init /\ [][Deliver \/ End]_<<delivered, outcome>>
=============================================================================
