---------------------------- MODULE WaitOperation ----------------------------
(***************************************************************************)
(* wait_operation of the Python clients (client/contree_client/base.py)    *)
(* and waitOperation of the JavaScript client: read the status to learn    *)
(* the operation's kind, follow its events or not, then poll the status    *)
(* until it is terminal, all under one deadline.  A caller that follows    *)
(* the events itself is the mode "iterate".                                *)
(***************************************************************************)
EXTENDS EventFollower

VARIABLES
    mode,       \* "iterate", or follow_events: "auto", "events" or "poll"
    import,     \* the operation is an image import
    at,         \* "kind", "follow", "status", "sleep" or "end"
    result,     \* the last status read: "none", "running" or "terminal"
    answer      \* "none", or how the call ended

waitVars == <<mode, import, at, result, answer>>
allVars == <<vars, waitVars>>

\* Whether the wait follows the events.
FollowsEvents == mode = "events" \/ (mode = "auto" /\ ~ import)

\* Only the caller's own iteration may start behind an event, and only "auto"
\* asks for the kind.
WaitInit ==
    /\ Init
    /\ mode \in {"iterate", "auto", "events", "poll"}
    /\ import \in {FALSE, mode = "auto"}
    /\ start # 0 => mode = "iterate"
    /\ at = CASE mode = "auto" -> "kind" [] mode = "poll" -> "status" [] OTHER -> "follow"
    /\ result = "none" /\ answer = "none"

End(how) == at' = "end" /\ answer' = how

\* Where the call goes once it has read this status.
Polled(status) ==
    IF status = "terminal" THEN End("returned") ELSE at' = "sleep" /\ UNCHANGED answer

\* _read_operation_status before the deadline, when it succeeds.
StatusRead ==
    /\ at \in {"kind", "status"} /\ ~ late
    /\ result' = IF finished THEN "terminal" ELSE "running"
    /\ IF at = "kind" /\ ~ import
       THEN at' = "follow" /\ UNCHANGED answer
       ELSE Polled(result')
    /\ UNCHANGED <<vars, mode, import>>

\* It raises what call() raises.
StatusFails ==
    /\ at \in {"kind", "status"}
    /\ End(IF late THEN "timeout" ELSE "refused")
    /\ UNCHANGED <<vars, mode, import, result>>

Follow == at = "follow" /\ Client /\ UNCHANGED waitVars

\* The events are over: what the kind's read said of the status is discarded.
Followed ==
    /\ at = "follow" /\ pc = "done"
    /\ IF mode # "iterate" /\ outcome = "returned"
       THEN at' = "status" /\ UNCHANGED answer
       ELSE End(outcome)
    /\ UNCHANGED <<vars, mode, import, result>>

\* Seeded fault: the loop tests the status it has instead of reading it.
WakeWithoutReading ==
    /\ at = "sleep"
    /\ Polled(result)
    /\ UNCHANGED <<vars, mode, import, result>>

\* The pause, TIGHT_LOOP_FLOOR or what is left of the deadline, is over.
Wake ==
    /\ at = "sleep"
    /\ at' = "status"
    /\ UNCHANGED <<vars, mode, import, result, answer>>

Caller == StatusRead \/ StatusFails \/ Follow \/ Followed \/ Wake

Service == at # "end" /\ Server /\ UNCHANGED waitVars

WaitNext ==
    \/ Caller
    \/ Service
    \/ at # "end" /\ (ServerFault \/ DeadlineElapses) /\ UNCHANGED waitVars

WaitSpec == WaitInit /\ [][WaitNext]_allVars

\* The caller keeps running; the service may stop at any point.
FairSpec == WaitSpec /\ WF_allVars(Caller)

-----------------------------------------------------------------------------
(* Properties                                                              *)

\* A wait that returns has seen the operation over, and if it followed the
\* events, all of them up to the completion.
ReturnsAfterCompletion ==
    mode # "iterate" /\ answer = "returned" =>
        /\ finished
        /\ FollowsEvents => delivered = N

\* With an idle timeout the call ends if the service keeps serving, however
\* the streams break; and it does so without an error of the event log unless
\* as many things went wrong as there are drain attempts, or the status
\* became terminal before the log was complete.
WaitEnds ==
    idle /\ WF_allVars(Service) =>
        <>(\/ answer \in {"returned", "refused", "timeout"}
           \/ answer = "raised" /\ (faults >= MaxDrains \/ early))

\* The deadline ends the call though the service goes silent and there is no
\* idle timeout.
DeadlineEndsWait == late ~> at = "end"
=============================================================================
