------------------------------ MODULE JsStream ------------------------------
(***************************************************************************)
(* stream() of the JavaScript client (client-js/lib/client.js): a loop     *)
(* that connects, and a loop that reads and yields chunks, under one abort *)
(* timer that is armed for each wait and disarmed behind it.               *)
(*                                                                         *)
(* Fetch and the reader fail with a TypeError when the network does, and   *)
(* with a TimeoutError once the timer has aborted them.                    *)
(***************************************************************************)
EXTENDS Integers

CONSTANTS
    Policies,       \* max (maxAttempts, 0 for null) and unsafe (retryUnsafe)
    NoPolicy,       \* this.retry === null
    Delays,         \* what retryDelays may say
    Timeout,        \* the client's timeout
    Deadlines, Never,
    MaxWait         \* bound on the time until the last read begins

VARIABLES
    policy,
    spec,       \* idempotent; sse: an event stream; idle: its readTimeout
    deadline,
    now,
    pc,         \* "top", "connecting", "asleep", "reading", "handed" (at a
                \* yield), "done"
    attempts,   \* fetches made
    timer,      \* when the abort timer fires, Never while there is none
    aborted,    \* the signal of the current controller
    since,      \* history: when the wait under way began
    reader,     \* "none", "open", "cancelled"; "dropped": there is a response
                \* and no reader
    wake,       \* when the sleep ends
    ran,        \* history: the server executed this attempt
    stray,      \* history: failed attempts that may still reach the server
    executed,   \* history: times the server executed the request
    result      \* "ok", "status", "connection", "timeout" (a TimeoutError,
                \* inside an APIConnectionError for events)

served == <<ran, stray, executed>>
vars == <<policy, spec, deadline, now, pc, attempts, timer, aborted, since, reader, wake, served, result>>

Init ==
    /\ policy \in Policies \cup {NoPolicy}
    /\ spec \in [idempotent : BOOLEAN, sse : {TRUE}, idle : {Timeout, Never}]
                  \cup [idempotent : BOOLEAN, sse : {FALSE}, idle : {Timeout}]
    /\ deadline \in Deadlines \cup {Never}
    /\ now = 0 /\ timer = Never /\ aborted = FALSE /\ since = 0 /\ wake = 0
    /\ pc = "top" /\ attempts = 0 /\ reader = "none"
    /\ ran = FALSE /\ stray = 0 /\ executed = 0
    /\ result = "none"

-----------------------------------------------------------------------------

Less(a, b) == IF a = Never THEN b ELSE IF b = Never \/ a <= b THEN a ELSE b

Elapsed == deadline # Never /\ now >= deadline

Unchanging == UNCHANGED <<policy, spec, deadline, now>>

\* Events are reconnected by followOperationEvents, not by the policy.
Applied == IF spec.idempotent /\ ~ spec.sse THEN policy ELSE NoPolicy

maxAttempts ==
    IF Applied # NoPolicy THEN Applied.max ELSE IF spec.idempotent THEN 2 ELSE 1

\* abortIn(connectBudget()) and abortIn(nextBudget()).
Waiting(at, maximum) ==
    /\ pc' = at /\ since' = now
    /\ timer' = Less(deadline, IF maximum = Never THEN Never ELSE now + maximum)

\* Seeded fault: the reader of a stream that fails is left open.
ReleasedByEnd == IF pc = "reading" THEN reader ELSE "cancelled"

\* The finally clause; before there is a reader there is nothing to cancel.
Released == IF reader = "open" THEN "cancelled" ELSE reader

Finish(r) ==
    /\ pc' = "done" /\ result' = r /\ timer' = Never /\ reader' = Released
    /\ UNCHANGED <<since, wake>>

Error(cause) == IF cause = "TimeoutError" THEN "timeout" ELSE "connection"

-----------------------------------------------------------------------------
(* The connect loop.                                                       *)

Connect ==
    /\ pc = "top" /\ ~ Elapsed
    /\ Waiting("connecting", Timeout)
    /\ attempts' = attempts + 1 /\ aborted' = FALSE /\ ran' = FALSE
    /\ UNCHANGED <<reader, wake, stray, executed, result>> /\ Unchanging

DeadlineAtTop ==
    /\ pc = "top" /\ Elapsed /\ Finish("timeout")
    /\ UNCHANGED <<attempts, aborted, served>> /\ Unchanging

ServerExecutes ==
    /\ pc = "connecting" /\ ~ ran
    /\ ran' = TRUE /\ executed' = executed + 1
    /\ UNCHANGED <<pc, attempts, timer, aborted, since, reader, wake, stray, result>> /\ Unchanging

Reconnects(cause) ==
    /\ cause = "TypeError" \/ Applied # NoPolicy
    /\ maxAttempts = 0 \/ attempts < maxAttempts
    /\ ~ Elapsed

Sleep ==
    /\ pc' = "asleep" /\ timer' = Never
    /\ \E delay \in (IF Applied = NoPolicy THEN {0} ELSE Delays) : wake' = Less(deadline, now + delay)
    /\ UNCHANGED <<since, reader, result>>

ConnectFails(cause) ==
    /\ pc = "connecting" /\ (cause = "TimeoutError" <=> aborted)
    /\ IF Reconnects(cause) THEN Sleep ELSE Finish(Error(cause))
    /\ stray' \in {stray, IF ran THEN stray ELSE stray + 1}
    /\ UNCHANGED <<attempts, aborted, ran, executed>> /\ Unchanging

Wake ==
    /\ pc = "asleep" /\ now >= wake
    /\ pc' = "top"
    /\ UNCHANGED <<attempts, timer, aborted, since, reader, wake, served, result>> /\ Unchanging

\* A refusal is not retried; it may come before the request is executed.
Refused ==
    /\ pc = "connecting" /\ ~ aborted /\ ~ Elapsed
    /\ pc' = "done" /\ result' = "status" /\ timer' = Never /\ reader' = "cancelled"
    /\ UNCHANGED <<attempts, aborted, since, wake, served>> /\ Unchanging

Opened ==
    /\ pc = "connecting" /\ ran /\ ~ aborted /\ ~ Elapsed
    /\ Waiting("reading", spec.idle) /\ reader' = "open"
    /\ UNCHANGED <<attempts, aborted, wake, served, result>> /\ Unchanging

\* Headers after the deadline: the response is there, and nobody has its body.
OpenedTooLate ==
    /\ pc = "connecting" /\ ~ aborted /\ Elapsed
    /\ pc' = "done" /\ result' = "timeout" /\ timer' = Never /\ reader' = "dropped"
    /\ UNCHANGED <<attempts, aborted, since, wake, served>> /\ Unchanging

-----------------------------------------------------------------------------
(* The read loop.                                                          *)

\* Seeded fault: the timer of a read goes on while the caller has the chunk.
ChunkArmed ==
    /\ pc = "reading" /\ ~ aborted /\ ~ Elapsed
    /\ pc' = "handed"
    /\ UNCHANGED <<attempts, timer, aborted, since, reader, wake, served, result>> /\ Unchanging

Chunk ==
    /\ pc = "reading" /\ ~ aborted /\ ~ Elapsed
    /\ pc' = "handed" /\ timer' = Never
    /\ UNCHANGED <<attempts, aborted, since, reader, wake, served, result>> /\ Unchanging

EndOfBody ==
    /\ pc = "reading" /\ ~ aborted /\ ~ Elapsed /\ Finish("ok")
    /\ UNCHANGED <<attempts, aborted, served>> /\ Unchanging

\* A chunk, or the end, after the deadline.
ReadTooLate ==
    /\ pc = "reading" /\ ~ aborted /\ Elapsed /\ Finish("timeout")
    /\ UNCHANGED <<attempts, aborted, served>> /\ Unchanging

ReadFails(cause) ==
    /\ pc = "reading" /\ (cause = "TimeoutError" <=> aborted)
    /\ Finish(Error(cause))
    /\ UNCHANGED <<attempts, aborted, served>> /\ Unchanging

\* The caller asks for the next chunk.
ReadNext ==
    /\ pc = "handed" /\ now <= MaxWait
    /\ IF Elapsed THEN Finish("timeout")
       ELSE Waiting("reading", spec.idle) /\ UNCHANGED <<reader, wake, result>>
    /\ UNCHANGED <<attempts, aborted, served>> /\ Unchanging

\* The caller leaves its loop.
Leave ==
    /\ pc = "handed" /\ Finish("ok")
    /\ UNCHANGED <<attempts, aborted, served>> /\ Unchanging

-----------------------------------------------------------------------------

TimerFires ==
    /\ timer # Never /\ now >= timer
    /\ timer' = Never /\ aborted' = TRUE
    /\ UNCHANGED <<pc, attempts, since, reader, wake, served, result>> /\ Unchanging

StrayExecutes ==
    /\ stray > 0
    /\ stray' = stray - 1 /\ executed' = executed + 1
    /\ UNCHANGED <<pc, attempts, timer, aborted, since, reader, wake, ran, result>> /\ Unchanging

\* A timer may fire a tick late.
Tick ==
    /\ pc = "asleep" => now < wake
    /\ pc \in {"connecting", "reading"} => ~ aborted /\ (timer # Never => now <= timer)
    /\ pc = "handed" \/ timer = Never => now <= MaxWait
    /\ pc \notin {"top", "done"}
    /\ now' = now + 1
    /\ UNCHANGED <<policy, spec, deadline, pc, attempts, timer, aborted, since, reader, wake, served, result>>

Step ==
    \/ Connect \/ DeadlineAtTop \/ Wake
    \/ ServerExecutes \/ Refused \/ Opened \/ OpenedTooLate
    \/ Chunk \/ EndOfBody \/ ReadTooLate \/ ReadNext \/ Leave
    \/ \E cause \in {"TypeError", "TimeoutError"} : ConnectFails(cause) \/ ReadFails(cause)

Next == Step \/ TimerFires \/ StrayExecutes \/ Tick

-----------------------------------------------------------------------------
(* Properties                                                              *)

\* The policy bounds the fetches of a download; without one, and for events,
\* there is one reconnect; a request that may not be repeated is sent once.
AttemptsBounded == maxAttempts # 0 => attempts <= maxAttempts

Silent(maximum) == maximum # Never /\ now >= since + maximum

\* What a step of a stream may do with the time: no chunk and no end is
\* handed over behind the deadline, and a stream times out only behind its
\* deadline or when the transport was silent for as long as that wait allows;
\* the time the caller takes for a chunk does not count.
TimelyStep ==
    /\ pc = "reading" /\ pc' # pc /\ result' \in {"none", "ok"} => ~ Elapsed
    /\ result' = "timeout" /\ result # result' =>
          \/ Elapsed
          \/ pc = "connecting" /\ Silent(Timeout)
          \/ pc = "reading" /\ Silent(spec.idle)

\* The body of a response is given back however its stream ends, but for a
\* response whose headers come after the deadline.
BodyReleased ==
    pc = "done" => /\ reader # "open"
                   /\ reader = "dropped" => result = "timeout" /\ Elapsed

=============================================================================
