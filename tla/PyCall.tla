------------------------------- MODULE PyCall -------------------------------
(***************************************************************************)
(* call() of the Python clients (client/contree_client/base.py): one       *)
(* buffered request, retried as the client's RetryPolicy allows and cut    *)
(* short by the caller's deadline.  ContreeSyncClient and                  *)
(* ContreeAsyncClient run the same loop; the asynchronous one also cancels *)
(* an attempt at the deadline (asyncio.wait_for).                          *)
(*                                                                         *)
(* An attempt is a request() of an adapter: it may be executed by the      *)
(* server once and ends with a response, a status error or a connection    *)
(* error.  Time is counted in ticks.                                       *)
(***************************************************************************)
EXTENDS Integers

CONSTANTS
    Policies,       \* the RetryPolicy of a client: max_attempts (0 for None) and
                    \* retry_unsafe; no policy is one attempt
    Delays,         \* what next(delays) and Retry-After may say
    Timeout,        \* the client's timeout
    Deadlines,      \* the deadlines a call may carry, beside none
    Never,          \* no deadline
    MaxTime         \* bound on the time requests take

ASSUME PolicyAssumption ==
    /\ Policies \subseteq [max : Nat, unsafe : BOOLEAN]
    /\ Delays \subseteq Nat
ASSUME ClockAssumption ==
    /\ Timeout \in Nat \ {0} /\ MaxTime \in Nat
    /\ Deadlines \subseteq Nat /\ Never \notin Nat

VARIABLES
    async,      \* the client is a ContreeAsyncClient
    policy,
    spec,       \* idempotent, and the kind of body
    deadline,
    now,
    pc,         \* "top" of the loop, "busy" in request(), "asleep", "done"
    attempts,
    started,    \* when the attempt under way began
    limited,    \* deadline_limited: the deadline, not the timeout, bounds it
    wake,       \* when the sleep ends
    at,         \* where a file-like body will be read from
    ran,        \* history: the server executed this attempt
    stray,      \* history: given up attempts that may still reach the server
    executed,   \* history: times the server executed the request
    result

vars == <<async, policy, spec, deadline, now, pc, attempts, started, limited, wake, at, ran, stray, executed, result>>

Results == {"none", "ok", "status", "connection", "timeout", "value"}

TypeOK ==
    /\ async \in BOOLEAN
    /\ policy \in Policies
    /\ spec \in [idempotent : BOOLEAN, body : {"bytes", "seekable", "oneshot"}]
    /\ deadline \in Deadlines \cup {Never}
    /\ now \in Nat
    /\ pc \in {"top", "busy", "asleep", "done"}
    /\ attempts \in Nat
    /\ started \in Nat
    /\ limited \in BOOLEAN
    /\ wake \in Nat
    /\ at \in {"start", "moved"}
    /\ ran \in BOOLEAN
    /\ stray \in Nat
    /\ executed \in Nat /\ executed + stray <= attempts
    /\ result \in Results

Init ==
    /\ async \in BOOLEAN
    /\ policy \in Policies
    /\ spec \in [idempotent : BOOLEAN, body : {"bytes", "seekable", "oneshot"}]
    /\ deadline \in Deadlines \cup {Never}
    /\ now = 0 /\ started = 0 /\ wake = 0
    /\ pc = "top"
    /\ attempts = 0
    /\ limited = FALSE
    /\ at = "start"
    /\ ran = FALSE /\ stray = 0 /\ executed = 0
    /\ result = "none"

-----------------------------------------------------------------------------

Min2(a, b) == IF a <= b THEN a ELSE b
Max2(a, b) == IF a >= b THEN a ELSE b

Elapsed == deadline # Never /\ now >= deadline

\* Seeded fault: every request counts as safe to replay.
ReplayAnything == TRUE

ReplaySafe == spec.idempotent \/ policy.unsafe

Exhausted == policy.max # 0 /\ attempts >= policy.max

\* The call returns or raises.
Settle(r) == result' = r /\ pc' = "done"

\* The loop head passes the deadline check and starts an attempt.
Attempt ==
    /\ pc = "top" /\ ~ Elapsed
    /\ attempts' = attempts + 1
    /\ limited' = (deadline # Never /\ deadline - now <= Timeout)
    /\ started' = now /\ ran' = FALSE
    /\ pc' = "busy"
    /\ UNCHANGED <<async, policy, spec, deadline, now, wake, at, stray, executed, result>>

DeadlineAtTop ==
    /\ pc = "top" /\ Elapsed
    /\ Settle("timeout")
    /\ UNCHANGED <<async, policy, spec, deadline, now, attempts, started, limited, wake, at, ran, stray, executed>>

\* The server receives the request and executes it.
ServerExecutes ==
    /\ pc = "busy" /\ ~ ran
    /\ ran' = TRUE /\ executed' = executed + 1
    /\ at' = IF spec.body = "bytes" THEN "start" ELSE "moved"
    /\ UNCHANGED <<async, policy, spec, deadline, now, pc, attempts, started, limited, wake, stray, result>>

\* Seeded fault: a response is returned whenever it comes.
RespondsAnytime ==
    /\ pc = "busy" /\ ran
    /\ Settle("ok")
    /\ UNCHANGED <<async, policy, spec, deadline, now, attempts, started, limited, wake, at, ran, stray, executed>>

Responds ==
    /\ pc = "busy" /\ ran
    /\ Settle(IF Elapsed THEN "timeout" ELSE "ok")
    /\ UNCHANGED <<async, policy, spec, deadline, now, attempts, started, limited, wake, at, ran, stray, executed>>

\* A delay that never passes the deadline.
Capped(delay) == IF deadline = Never THEN delay ELSE Min2(delay, Max2(0, deadline - now))

Sleep ==
    /\ pc' = "asleep"
    /\ \E delay \in Delays : wake' = now + Capped(delay)
    /\ UNCHANGED result

\* deadline_due: the clock says so, or an attempt the deadline bounded timed
\* out, be it a little early.
DeadlineDue(timedOut) == deadline # Never /\ ((limited /\ timedOut) \/ Elapsed)

\* When the transport's timer fires: it was set to the smaller of the timeout
\* and what was left, and may fire up to one tick early.
TimerFired ==
    now + 1 >= started + (IF deadline = Never THEN Timeout ELSE Min2(Timeout, deadline - started))

\* An attempt is given up: if the server has not seen it, it still may.
GiveUpAttempt == stray' \in {stray, IF ran THEN stray ELSE stray + 1}

\* APIConnectionError: the request may or may not have been executed.
ConnectionError(timedOut) ==
    /\ pc = "busy"
    /\ timedOut => TimerFired
    /\ \/ /\ DeadlineDue(timedOut)
          /\ Settle("timeout") /\ UNCHANGED wake
       \/ /\ ~ DeadlineDue(timedOut) /\ (~ ReplaySafe \/ Exhausted)
          /\ Settle("connection") /\ UNCHANGED wake
       \/ /\ ~ DeadlineDue(timedOut) /\ ReplaySafe /\ ~ Exhausted
          /\ Sleep
    /\ at' \in IF spec.body = "bytes" THEN {"start"} ELSE {at, "moved"}
    /\ GiveUpAttempt
    /\ UNCHANGED <<async, policy, spec, deadline, now, attempts, started, limited, ran, executed>>

\* APIStatusError.  "early" stands for 425 and 429, sent before any
\* processing; "busy" for the other statuses of the policy (410, 5xx);
\* "final" for the rest.
StatusError(status) ==
    /\ pc = "busy"
    /\ status = "early" => ~ ran
    /\ LET retry == status # "final" /\ ~ Exhausted /\ (ReplaySafe \/ status = "early")
       IN  \/ retry /\ Sleep
           \/ ~ retry /\ Settle("status") /\ UNCHANGED wake
    /\ at' \in IF spec.body = "bytes" THEN {"start"} ELSE {at, "moved"}
    /\ UNCHANGED <<async, policy, spec, deadline, now, attempts, started, limited, ran, stray, executed>>

\* Seeded fault: the attempt is awaited without a limit.
CancelledNot == FALSE

\* asyncio.wait_for cancels the attempt when the deadline comes.
Cancelled ==
    /\ async
    /\ pc = "busy" /\ Elapsed
    /\ Settle("timeout")
    /\ GiveUpAttempt
    /\ UNCHANGED <<async, policy, spec, deadline, now, attempts, started, limited, wake, at, ran, executed>>

\* Seeded fault: the body is not rewound after the sleep.
WakeUnrewound ==
    /\ pc = "asleep" /\ now = wake
    /\ pc' = "top"
    /\ UNCHANGED <<async, policy, spec, deadline, now, attempts, started, limited, wake, at, ran, stray, executed, result>>

\* After the sleep, rewind_body: ValueError for a body that cannot seek.
Wake ==
    /\ pc = "asleep" /\ now = wake
    /\ \/ spec.body # "oneshot" /\ at' = "start" /\ pc' = "top" /\ UNCHANGED result
       \/ spec.body = "oneshot" /\ Settle("value") /\ UNCHANGED at
    /\ UNCHANGED <<async, policy, spec, deadline, now, attempts, started, limited, wake, ran, stray, executed>>

\* A request the client has given up reaches the server after all.
StrayExecutes ==
    /\ stray > 0
    /\ stray' = stray - 1 /\ executed' = executed + 1
    /\ UNCHANGED <<async, policy, spec, deadline, now, pc, attempts, started, limited, wake, at, ran, result>>

\* Time passes in a sleep, up to its end, and in an attempt; the asynchronous
\* client's attempts do not outlast the deadline.
Tick ==
    /\ \/ pc = "asleep" /\ now < wake
       \/ pc = "busy" /\ now < MaxTime
    /\ async /\ pc = "busy" => ~ Elapsed
    /\ now' = now + 1
    /\ UNCHANGED <<async, policy, spec, deadline, pc, attempts, started, limited, wake, at, ran, stray, executed, result>>

Step ==
    \/ Attempt \/ DeadlineAtTop \/ ServerExecutes \/ Responds \/ Cancelled \/ Wake
    \/ \E timedOut \in BOOLEAN : ConnectionError(timedOut)
    \/ \E status \in {"early", "busy", "final"} : StatusError(status)

Next == Step \/ StrayExecutes \/ Tick

Spec == Init /\ [][Next]_vars

-----------------------------------------------------------------------------
(* Properties                                                              *)

\* max_attempts bounds the requests of a call, the first one included.
AttemptsBounded ==
    policy.max # 0 => attempts <= policy.max

\* No attempt, first or retry, starts once the deadline has elapsed.
NoLateAttempt == [][attempts' # attempts => ~ Elapsed]_vars

\* Once the deadline has elapsed the caller sees TimeoutError: never a late
\* response, and never the connection error the deadline itself provoked.
LateMeansTimeout == result \in {"ok", "connection"} => ~ Elapsed

\* The client never sleeps past the deadline.
SleepsWithinDeadline ==
    pc = "asleep" => now <= wake /\ (deadline # Never => wake <= Max2(deadline, now))

\* Every attempt sends the bytes the first one sent.
SameBytes == [][attempts' # attempts => at = "start"]_vars

\* asyncio.wait_for: a call with a deadline ends though the server never
\* answers.
AsyncEndsByDeadline == async /\ deadline # Never ~> pc = "done"

\* The call keeps the contract all the clients share.
Contract == INSTANCE RetryContract WITH safe <- spec.idempotent \/ policy.unsafe

ImplementsContract == Contract!Spec
=============================================================================
