------------------------------- MODULE JsCall -------------------------------
(***************************************************************************)
(* call() of the JavaScript client (client-js/lib/client.js): without a    *)
(* policy one request and one transparent reconnect (_reconnecting), with  *)
(* a policy a retry loop around request(), and a single request for a      *)
(* ReadableStream body.  request() arms a timer with the smaller of the    *)
(* client's timeout and what is left of the deadline and aborts fetch when *)
(* it fires.                                                               *)
(***************************************************************************)
EXTENDS Integers

CONSTANTS
    Policies,       \* max (maxAttempts, 0 for null) and unsafe (retryUnsafe)
    NoPolicy,       \* this.retry === null
    Delays,         \* what retryDelays and Retry-After may say
    Timeout,        \* the client's timeout
    Deadlines, Never

VARIABLES
    policy,
    spec,       \* idempotent; stream: the body is a ReadableStream
    deadline,
    now,
    pc,         \* "top", "busy" in fetch, "reading" the body, "asleep", "done"
    attempts,   \* requests made
    timer,      \* when the abort timer fires
    wake,       \* when the sleep ends
    ran,        \* history: the server executed this attempt
    stray,      \* history: aborted attempts that may still reach the server
    executed,   \* history: times the server executed the request
    result

vars == <<policy, spec, deadline, now, pc, attempts, timer, wake, ran, stray, executed, result>>

Init ==
    /\ policy \in Policies \cup {NoPolicy}
    /\ spec \in [idempotent : BOOLEAN, stream : BOOLEAN]
    /\ deadline \in Deadlines \cup {Never}
    /\ now = 0 /\ timer = 0 /\ wake = 0
    /\ pc = "top"
    /\ attempts = 0
    /\ ran = FALSE /\ stray = 0 /\ executed = 0
    /\ result = "none"

-----------------------------------------------------------------------------

Min2(a, b) == IF a <= b THEN a ELSE b
Max2(a, b) == IF a >= b THEN a ELSE b

Elapsed == deadline # Never /\ now >= deadline

Unchanging == UNCHANGED <<policy, spec, deadline, now>>

Settle(r) == result' = r /\ pc' = "done" /\ UNCHANGED wake

ReplaySafe == spec.idempotent \/ (policy # NoPolicy /\ policy.unsafe)

\* Seeded fault: a body stream is sent again like any other body.
SingleRequestNot == FALSE

\* A policy does not apply to a body that can be read once.
SingleRequest == policy # NoPolicy /\ spec.stream

\* _reconnecting: fetch reports a broken keepalive socket as a TypeError.
Reconnects(cause) ==
    /\ spec.idempotent /\ ~ spec.stream
    /\ cause = "TypeError"
    /\ attempts = 1

\* The condition under which the loop of call() does not rethrow.
MayRetry(rejected) ==
    /\ policy # NoPolicy
    /\ ReplaySafe \/ rejected
    /\ ~ (policy.max # 0 /\ attempts >= policy.max)
    /\ ~ Elapsed

Capped(delay) == IF deadline = Never THEN delay ELSE Min2(delay, Max2(0, deadline - now))

Sleep ==
    /\ pc' = "asleep"
    /\ \E delay \in Delays : wake' = now + Capped(delay)
    /\ UNCHANGED result

\* Seeded fault: an attempt gets the client's whole timeout.
TimerAtUncut == now + Timeout

TimerAt == IF deadline = Never THEN now + Timeout ELSE Min2(now + Timeout, deadline)

\* A request counts as an attempt even when it fails at once on an elapsed
\* deadline.
Request ==
    /\ pc = "top" /\ ~ Elapsed
    /\ attempts' = attempts + 1
    /\ timer' = TimerAt
    /\ ran' = FALSE
    /\ pc' = "busy"
    /\ UNCHANGED <<wake, stray, executed, result>> /\ Unchanging

\* The error of a request that an elapsed deadline stopped before fetch is a
\* timeout, which is neither reconnected nor, the deadline being due, retried.
RequestTooLate ==
    /\ pc = "top" /\ Elapsed
    /\ attempts' = attempts + 1
    /\ Settle("connection")
    /\ UNCHANGED <<timer, ran, stray, executed>> /\ Unchanging

ServerExecutes ==
    /\ pc = "busy" /\ ~ ran
    /\ ran' = TRUE /\ executed' = executed + 1
    /\ UNCHANGED <<pc, attempts, timer, wake, stray, result>> /\ Unchanging

GiveUpAttempt == stray' \in {stray, IF ran THEN stray ELSE stray + 1}

\* What call() makes of an APIConnectionError: cause is "TypeError" for a
\* network failure and "TimeoutError" for the timer or the deadline.
AfterConnectionError(cause) ==
    \/ /\ policy = NoPolicy /\ Reconnects(cause)
       /\ pc' = "top" /\ UNCHANGED <<wake, result>>
    \/ policy = NoPolicy /\ ~ Reconnects(cause) /\ Settle("connection")
    \/ policy # NoPolicy /\ ~ SingleRequest /\ MayRetry(FALSE) /\ Sleep
    \/ policy # NoPolicy /\ (SingleRequest \/ ~ MayRetry(FALSE)) /\ Settle("connection")

\* fetch or the body read fails, or the timer aborts it.
ConnectionError(cause) ==
    /\ pc \in {"busy", "reading"}
    /\ cause = "TimeoutError" => now >= timer
    /\ AfterConnectionError(cause)
    /\ GiveUpAttempt
    /\ UNCHANGED <<attempts, timer, ran, executed>> /\ Unchanging

\* The headers arrive; too late, they are an error.
Headers ==
    /\ pc = "busy" /\ ran
    /\ ~ Elapsed
    /\ pc' = "reading"
    /\ UNCHANGED <<attempts, timer, wake, ran, stray, executed, result>> /\ Unchanging

\* The body is read in time: request() resolves.
BodyRead ==
    /\ pc = "reading" /\ ~ Elapsed /\ Settle("ok")
    /\ UNCHANGED <<attempts, timer, ran, stray, executed>> /\ Unchanging

\* Headers or body after the deadline: a timeout error.
ResponseTooLate ==
    /\ pc \in {"busy", "reading"} /\ ran /\ Elapsed
    /\ AfterConnectionError("TimeoutError")
    /\ UNCHANGED <<attempts, timer, ran, stray, executed>> /\ Unchanging

\* An error status: "early" is 425 and 429, "busy" the rest of the policy's.
StatusError(status) ==
    /\ \/ pc = "reading" /\ status # "early"
       \/ pc = "busy" /\ ~ ran
    /\ ~ Elapsed
    /\ LET retry == ~ SingleRequest /\ status # "final" /\ MayRetry(status = "early")
       IN  (retry /\ Sleep) \/ (~ retry /\ Settle("status"))
    /\ UNCHANGED <<attempts, timer, ran, stray, executed>> /\ Unchanging

Wake ==
    /\ pc = "asleep" /\ now >= wake
    /\ pc' = "top"
    /\ UNCHANGED <<attempts, timer, wake, ran, stray, executed, result>> /\ Unchanging

\* An aborted request reaches the server after all.
StrayExecutes ==
    /\ stray > 0
    /\ stray' = stray - 1 /\ executed' = executed + 1
    /\ UNCHANGED <<pc, attempts, timer, wake, ran, result>> /\ Unchanging

\* Timers may fire late, but a request does not outlive its timer by more
\* than a tick.
Tick ==
    /\ \/ pc = "asleep" /\ now < wake
       \/ pc \in {"busy", "reading"} /\ now <= timer
    /\ now' = now + 1
    /\ UNCHANGED <<policy, spec, deadline, pc, attempts, timer, wake, ran, stray, executed, result>>

Step ==
    \/ Request \/ RequestTooLate \/ ServerExecutes \/ Headers \/ BodyRead \/ ResponseTooLate
    \/ \E cause \in {"TypeError", "TimeoutError"} : ConnectionError(cause)
    \/ \E status \in {"early", "busy", "final"} : StatusError(status)
    \/ Wake

Next == Step \/ StrayExecutes \/ Tick

Spec == Init /\ [][Next]_vars

-----------------------------------------------------------------------------
(* Properties                                                              *)

\* maxAttempts bounds the requests; without a policy there is one reconnect;
\* a ReadableStream, which is spent by the first, is sent once.
AttemptsBounded ==
    /\ policy = NoPolicy => attempts <= 2
    /\ policy # NoPolicy => (policy.max # 0 => attempts <= policy.max)
    /\ spec.stream => attempts <= 1

\* The call, with its reconnect, its retries and the sleeps between them, is
\* over by its deadline but for the tick an abort timer may be late.
EndsByDeadline == deadline # Never => now <= deadline + 1

=============================================================================
