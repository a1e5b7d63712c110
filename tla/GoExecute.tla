----------------------------- MODULE GoExecute ------------------------------
(***************************************************************************)
(* do() of the Go client (go/v1/client.go, execute): a buffered request,   *)
(* its response read inside the attempt, retried as the policy allows and  *)
(* ended by the caller's context.  The client's timeout is a context of    *)
(* each attempt.  Time is counted in ticks.                                *)
(***************************************************************************)
EXTENDS Integers

CONSTANTS
    Policies,       \* max (MaxAttempts, 0 for unlimited) and unsafe (RetryUnsafe)
    NoPolicy,       \* c.retry == nil
    Delays,         \* what the policy's Delays and Retry-After may say
    Timeouts,       \* the client's timeout; 0 disables it
    MaxAttempts     \* bound on the attempts of an unlimited policy

VARIABLES
    timeout,
    policy,
    spec,       \* idempotent, and the kind of body
    ctxDone,    \* the caller's context has ended, by deadline or cancellation
    now,
    pc,         \* "top", "busy" in http.Do, "reading" the body, "asleep", "done"
    attempts,
    started,    \* when the attempt's context was made
    status,     \* of the response being read
    wake,       \* when the wait ends
    ran,        \* history: the server executed this attempt
    stray,      \* history: abandoned attempts that may still reach the server
    executed,   \* history: times the server executed the request
    result

vars == <<timeout, policy, spec, ctxDone, now, pc, attempts, started, status, wake, ran, stray, executed, result>>

Statuses == {"ok", "early", "busy", "final"}

Init ==
    /\ timeout \in Timeouts
    /\ policy \in Policies \cup {NoPolicy}
    /\ spec \in [idempotent : BOOLEAN, body : {"bytes", "seekable", "oneshot"}]
    /\ ctxDone = FALSE
    /\ now = 0 /\ started = 0 /\ wake = 0
    /\ pc = "top"
    /\ attempts = 0
    /\ status = "ok"
    /\ ran = FALSE /\ stray = 0 /\ executed = 0
    /\ result = "none"

-----------------------------------------------------------------------------

Unchanging == UNCHANGED <<timeout, policy, spec>>
Attempted == UNCHANGED <<attempts, started, ran, executed>>

\* Seeded fault: a body is taken for replayable, whatever its reader.
CanReplayBodyAlways == TRUE

CanReplayBody == spec.body # "oneshot"

Unsafe == policy # NoPolicy /\ policy.unsafe

CanRetryTransport ==
    policy # NoPolicy /\ CanReplayBody /\ (spec.idempotent \/ Unsafe)

\* "early" is 425 and 429, "busy" the rest of the policy's statuses.
CanRetryResponse(s) ==
    /\ policy # NoPolicy /\ CanReplayBody
    /\ s = "early" \/ (s = "busy" /\ (spec.idempotent \/ Unsafe))

Exhausted == policy # NoPolicy => (policy.max > 0 /\ attempts >= policy.max)

TimerExpired == timeout # 0 /\ now >= started + timeout

\* Seeded fault: the attempt's context is not derived from the caller's.
RequestOverByTimer == TimerExpired

\* The attempt's context: the caller's, with the client's timeout.
RequestOver == ctxDone \/ TimerExpired

Settle(r) == result' = r /\ pc' = "done" /\ UNCHANGED wake

\* waitForRetry.
Sleep ==
    /\ pc' = "asleep"
    /\ \E delay \in Delays : wake' = now + delay
    /\ UNCHANGED result

\* The caller's context ends: its deadline, or a cancellation.
ContextEnds ==
    /\ ~ ctxDone /\ pc # "done"
    /\ ctxDone' = TRUE
    /\ UNCHANGED <<now, pc, status, wake, stray, result>> /\ Attempted /\ Unchanging

ContextAtTop ==
    /\ pc = "top" /\ ctxDone
    /\ Settle("connection")
    /\ UNCHANGED <<ctxDone, now, status, stray>> /\ Attempted /\ Unchanging

\* An attempt: the body is opened (a one-shot body once) and sent.
Attempt ==
    /\ pc = "top" /\ ~ ctxDone
    /\ spec.body = "oneshot" => attempts = 0
    /\ attempts < MaxAttempts
    /\ attempts' = attempts + 1
    /\ started' = now /\ ran' = FALSE
    /\ pc' = "busy"
    /\ UNCHANGED <<ctxDone, now, status, wake, stray, executed, result>> /\ Unchanging

\* The body cannot be opened: a seek fails, or a one-shot body is used up.
OpenFails ==
    /\ pc = "top" /\ ~ ctxDone
    /\ spec.body = "seekable" \/ (spec.body = "oneshot" /\ attempts > 0)
    /\ Settle("value")
    /\ UNCHANGED <<ctxDone, now, status, stray>> /\ Attempted /\ Unchanging

ServerExecutes ==
    /\ pc = "busy" /\ ~ ran
    /\ ran' = TRUE /\ executed' = executed + 1
    /\ UNCHANGED <<ctxDone, now, pc, attempts, started, status, wake, stray, result>> /\ Unchanging

\* http.Do returns a response: retried at once, or read.
Responds(s) ==
    /\ pc = "busy"
    /\ s = "ok" => ran
    /\ s = "early" => ~ ran
    /\ LET retryStatus == ~ Exhausted /\ CanRetryResponse(s)
       IN  \/ retryStatus /\ Sleep /\ UNCHANGED status
           \/ /\ ~ retryStatus
              /\ pc' = "reading" /\ status' = s /\ UNCHANGED <<wake, result>>
    /\ UNCHANGED <<ctxDone, now, stray>> /\ Attempted /\ Unchanging

\* An abandoned attempt may still reach the server.
AbandonAttempt == stray' \in {stray, IF ran THEN stray ELSE stray + 1}

\* The transport fails ("network"), or the attempt's context ends ("context"),
\* in http.Do or while the body is read.
ConnectionError(cause) ==
    /\ pc \in {"busy", "reading"}
    /\ cause = "context" => RequestOver
    /\ \/ (Exhausted \/ ~ CanRetryTransport) /\ Settle("connection")
       \/ ~ Exhausted /\ CanRetryTransport /\ Sleep
    /\ IF pc = "busy" THEN AbandonAttempt ELSE UNCHANGED stray
    /\ UNCHANGED <<ctxDone, now, status>> /\ Attempted /\ Unchanging

\* The whole body is read while the attempt's context is alive.  Read later,
\* it is the ConnectionError above.
BodyRead ==
    /\ pc = "reading" /\ ~ RequestOver
    /\ Settle(IF status = "ok" THEN "ok" ELSE "status")
    /\ UNCHANGED <<ctxDone, now, status, stray>> /\ Attempted /\ Unchanging

\* The body is too large or its compression corrupt: returned at once.
BodyUnusable ==
    /\ pc = "reading"
    /\ Settle("value")
    /\ UNCHANGED <<ctxDone, now, status, stray>> /\ Attempted /\ Unchanging

WaitOver ==
    /\ pc = "asleep" /\ now >= wake
    /\ pc' = "top"
    /\ UNCHANGED <<ctxDone, now, status, wake, stray, result>> /\ Attempted /\ Unchanging

WaitInterrupted ==
    /\ pc = "asleep" /\ ctxDone
    /\ Settle("connection")
    /\ UNCHANGED <<ctxDone, now, status, stray>> /\ Attempted /\ Unchanging

\* An abandoned request reaches the server after all.
StrayExecutes ==
    /\ stray > 0
    /\ stray' = stray - 1 /\ executed' = executed + 1
    /\ UNCHANGED <<ctxDone, now, pc, attempts, started, status, wake, ran, result>> /\ Unchanging

\* A timer may be late by a tick.
Tick ==
    /\ \/ pc = "asleep" /\ now < wake
       \/ pc \in {"busy", "reading"} /\ timeout # 0 /\ now <= started + timeout
    /\ now' = now + 1
    /\ UNCHANGED <<ctxDone, pc, status, wake, stray, result>> /\ Attempted /\ Unchanging

Next ==
    \/ ContextEnds \/ ContextAtTop \/ Attempt \/ OpenFails \/ ServerExecutes
    \/ \E s \in Statuses : Responds(s)
    \/ \E cause \in {"network", "context"} : ConnectionError(cause)
    \/ BodyRead \/ BodyUnusable \/ WaitOver \/ WaitInterrupted \/ StrayExecutes \/ Tick

Spec == Init /\ [][Next]_vars

-----------------------------------------------------------------------------
(* Properties                                                              *)

\* MaxAttempts bounds the requests, the first included; no policy means one.
AttemptsBounded ==
    /\ policy = NoPolicy => attempts <= 1
    /\ policy # NoPolicy => (policy.max > 0 => attempts <= policy.max)

\* A call on a one-shot body ends with what its one request met: it is never
\* at the loop head again, where the body would not open.
OneShotOutcomeKept ==
    spec.body = "oneshot" /\ attempts > 0 => pc \in {"busy", "reading", "done"}

\* WithTimeout's comment: the timeout is the deadline of the whole call,
\* retries and response reads included (one tick for a late timer).
WholeCallInTime == timeout # 0 => now <= timeout + 1

=============================================================================
