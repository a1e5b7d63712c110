--------------------------------- MODULE GoWait --------------------------------
(***************************************************************************)
(* WaitOperation of the Go client (go/v1/operation_helpers.go), composed   *)
(* with its follower: read the status to learn the kind unless the caller  *)
(* chose to follow, follow the events or not, then read the status until   *)
(* it is terminal, all under the caller's context.  A caller that follows  *)
(* the events itself is the mode "iterate".                                *)
(***************************************************************************)
EXTENDS GoFollower

VARIABLES
    mode,       \* "iterate", or FollowEvents: "auto" (nil), "events" or "poll"
    import,     \* the operation is an image import
    at,         \* "kind", "follow", "status", "wait" or "end"
    terminal,   \* the last status read was terminal
    answer      \* "none", or how the call ended

waitVars == << mode, import, at, terminal, answer >>
allVars == << vars, waitVars >>

WaitInit ==
    /\ Init
    /\ mode \in {"iterate", "auto", "events", "poll"}
    /\ import \in {FALSE, mode = "auto"}
    /\ mode # "iterate" => start = 0
    /\ at = IF mode \in {"auto", "poll"} THEN "kind" ELSE "follow"
    /\ terminal = FALSE /\ answer = "none"

UseEvents == mode \in {"iterate", "events"} \/ (mode = "auto" /\ ~ import)

End(how) == at' = "end" /\ answer' = how

\* The head of the polling loop, with the status just read.
Loop(isTerminal) ==
    IF isTerminal THEN End("returned") ELSE at' = "wait" /\ UNCHANGED answer

\* GetOperationStatus succeeds before the context ends.
GetOperationStatus ==
    /\ at \in {"kind", "status"} /\ ~ ctxDone
    /\ terminal' = finished
    /\ IF at = "kind" /\ UseEvents
       THEN at' = "follow" /\ UNCHANGED answer
       ELSE Loop(terminal')
    /\ UNCHANGED << vars, mode, import >>

\* It returns what execute() does: the context's error or another.
StatusFails ==
    /\ at \in {"kind", "status"}
    /\ End(IF ctxDone THEN "timeout" ELSE "refused")
    /\ UNCHANGED << vars, mode, import, terminal >>

Follow == at = "follow" /\ Client /\ UNCHANGED waitVars

\* Seeded fault: follower.Err() is not looked at.
FollowedAnyhow ==
    /\ at = "follow" /\ pc = "done"
    /\ IF mode = "iterate" THEN End(outcome) ELSE at' = "status" /\ UNCHANGED answer
    /\ UNCHANGED << vars, mode, import, terminal >>

\* The follower's Next is false: its error ends the call.
Followed ==
    /\ at = "follow" /\ pc = "done"
    /\ IF mode # "iterate" /\ outcome = "returned"
       THEN at' = "status" /\ UNCHANGED answer
       ELSE End(outcome)
    /\ UNCHANGED << vars, mode, import, terminal >>

\* waitForRetry between two reads, which the context ends.
WaitForRetry ==
    /\ at = "wait"
    /\ IF ctxDone THEN End("timeout") ELSE at' = "status" /\ UNCHANGED answer
    /\ UNCHANGED << vars, mode, import, terminal >>

Caller == GetOperationStatus \/ StatusFails \/ Follow \/ Followed \/ WaitForRetry

Service == at # "end" /\ Server /\ UNCHANGED waitVars

Cancels == at # "end" /\ CallerCancels /\ UNCHANGED waitVars

WaitNext ==
    \/ Caller \/ Service \/ Cancels
    \/ at # "end" /\ ServerFault /\ UNCHANGED waitVars
=============================================================================
