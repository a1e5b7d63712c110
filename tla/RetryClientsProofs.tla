------------------------- MODULE RetryClientsProofs -------------------------
(***************************************************************************)
(* Proofs about the loops of the clients, for every policy, delay, timeout *)
(* and deadline: call() of Python by itself (PyCall), then the composition *)
(* RetryClients.  Each keeps an inductive invariant of its own, and all    *)
(* implement RetryContract.                                                *)
(***************************************************************************)
EXTENDS RetryClients, TLAPS

-----------------------------------------------------------------------------
(* call() of the Python clients                                            *)

\* The request may be executed twice.
Safe == spec.idempotent \/ policy.unsafe

\* A call that has not ended has no result, and a response to an attempt
\* means that the server executed it.
ResultAtEnd ==
    /\ result = "none" <=> pc # "done"
    /\ ran => executed >= 1

\* Another attempt may follow only while the limit is not reached.
AttemptsLeft ==
    policy.max # 0 => /\ attempts <= policy.max
                      /\ pc \in {"top", "asleep"} => attempts < policy.max

\* Each attempt is executed at most once, at once or after it is given up.
AttemptsCovered ==
    /\ executed + stray <= attempts
    /\ pc = "busy" /\ ~ ran => executed + stray < attempts

\* A request that is not safe to replay starts another attempt only if no
\* earlier one was executed or can be.
UnsafeUntouched ==
    ~ Safe =>
        /\ executed + stray <= 1
        /\ pc \in {"top", "asleep"} => executed + stray = 0
        /\ pc = "busy" => stray = 0 /\ (~ ran => executed = 0)

\* An attempt starts from the bytes of the first.
AtStart == pc = "top" => at = "start"

IInv ==
    /\ TypeOK /\ ResultAtEnd /\ AttemptsLeft /\ AttemptsCovered /\ UnsafeUntouched
    /\ AtStart /\ LateMeansTimeout /\ SleepsWithinDeadline

\* A capped delay is a delay, and it does not pass the deadline.
LEMMA CappedDelay ==
    ASSUME TypeOK, NEW delay \in Delays
    PROVE  /\ Capped(delay) \in Nat
           /\ deadline # Never => now + Capped(delay) <= Max2(deadline, now)
  BY PolicyAssumption, ClockAssumption DEF TypeOK, Capped, Min2, Max2

\* What Sleep leaves: a wake-up in the future and not past the deadline.
LEMMA SleepWake ==
    ASSUME TypeOK, Sleep
    PROVE  /\ wake' \in Nat /\ now <= wake'
           /\ deadline # Never => wake' <= Max2(deadline, now)
           /\ pc' = "asleep" /\ result' = result
  <1>1. PICK delay \in Delays : wake' = now + Capped(delay)
    BY DEF Sleep
  <1>2. /\ Capped(delay) \in Nat
        /\ deadline # Never => now + Capped(delay) <= Max2(deadline, now)
    BY CappedDelay
  <1>3. now \in Nat
    BY DEF TypeOK
  <1> QED
    BY <1>1, <1>2, <1>3 DEF Sleep

\* The limit of a policy is a number.
LEMMA PolicyMax == ASSUME policy \in Policies PROVE policy.max \in Nat
  BY PolicyAssumption

LEMMA InitInv == Init => IInv
  <1> SUFFICES ASSUME Init PROVE IInv
    OBVIOUS
  <1>1. TypeOK
    <2>1. now \in Nat /\ started \in Nat /\ wake \in Nat /\ attempts \in Nat /\ stray \in Nat /\ executed \in Nat
      BY DEF Init
    <2>2. executed + stray <= attempts
      BY DEF Init
    <2>3. limited \in BOOLEAN /\ ran \in BOOLEAN /\ async \in BOOLEAN
      BY Zenon DEF Init
    <2> QED
      BY <2>1, <2>2, <2>3, Zenon DEF Init, TypeOK, Results
  <1>2. AttemptsLeft
    BY PolicyMax DEF Init, AttemptsLeft
  <1>3. ResultAtEnd /\ AttemptsCovered /\ UnsafeUntouched /\ AtStart
    BY DEF Init, ResultAtEnd, AttemptsCovered, UnsafeUntouched, AtStart
  <1>4. LateMeansTimeout /\ SleepsWithinDeadline
    BY DEF Init, LateMeansTimeout, SleepsWithinDeadline
  <1> QED
    BY <1>1, <1>2, <1>3, <1>4 DEF IInv

LEMMA AttemptInv == IInv /\ Attempt => IInv'
  <1> SUFFICES ASSUME IInv, Attempt PROVE IInv'
    OBVIOUS
  <1>1. TypeOK'
    <2>1. limited' \in BOOLEAN
      BY Zenon DEF Attempt
    <2>2. UNCHANGED <<async, policy, spec, deadline, now, wake, at, stray, executed, result>>
      BY DEF Attempt
    <2>3. /\ attempts' \in Nat /\ started' \in Nat /\ ran' = FALSE /\ pc' = "busy"
          /\ executed' + stray' <= attempts'
      BY DEF Attempt, IInv, TypeOK
    <2> QED
      BY <2>1, <2>2, <2>3 DEF IInv, TypeOK
  <1>2. AttemptsLeft'
    BY PolicyMax DEF Attempt, IInv, TypeOK, AttemptsLeft
  <1>3. ResultAtEnd' /\ AttemptsCovered' /\ AtStart'
    BY DEF Attempt, IInv, TypeOK, ResultAtEnd, AttemptsCovered, AtStart
  <1>4. UnsafeUntouched'
    BY DEF Attempt, IInv, TypeOK, UnsafeUntouched, Safe
  <1>5. LateMeansTimeout' /\ SleepsWithinDeadline'
    BY DEF Attempt, IInv, TypeOK, ResultAtEnd, LateMeansTimeout, SleepsWithinDeadline
  <1> QED
    BY <1>1, <1>2, <1>3, <1>4, <1>5 DEF IInv

LEMMA DeadlineAtTopInv == IInv /\ DeadlineAtTop => IInv'
  BY DEF DeadlineAtTop, Settle, Elapsed, IInv, TypeOK, ResultAtEnd, AttemptsLeft, AttemptsCovered,
      UnsafeUntouched, AtStart, LateMeansTimeout, SleepsWithinDeadline, Results, Safe

LEMMA ServerExecutesInv == IInv /\ ServerExecutes => IInv'
  BY DEF ServerExecutes, IInv, TypeOK, ResultAtEnd, AttemptsLeft, AttemptsCovered,
      UnsafeUntouched, AtStart, LateMeansTimeout, SleepsWithinDeadline, Results, Safe, Elapsed

LEMMA RespondsInv == IInv /\ Responds => IInv'
  BY DEF Responds, Settle, Elapsed, IInv, TypeOK, ResultAtEnd, AttemptsLeft, AttemptsCovered,
      UnsafeUntouched, AtStart, LateMeansTimeout, SleepsWithinDeadline, Results, Safe

\* An attempt that is given up may still be executed, if it was not.
LEMMA GivenUp ==
    ASSUME IInv, pc = "busy", GiveUpAttempt
    PROVE  /\ stray' \in Nat /\ executed + stray' <= attempts
           /\ ~ Safe => executed + stray' <= 1
  <1>1. CASE stray' = stray
    BY <1>1 DEF IInv, TypeOK, AttemptsCovered, UnsafeUntouched
  <1>2. CASE ~ ran /\ stray' = stray + 1
    BY <1>2 DEF IInv, TypeOK, AttemptsCovered, UnsafeUntouched
  <1> QED
    BY <1>1, <1>2 DEF GiveUpAttempt

\* A step that ends the call, with what it leaves of the request.
LEMMA EndInv ==
    ASSUME IInv, pc' = "done", result' \in Results \ {"none"},
           result' \in {"ok", "connection"} => ~ Elapsed,
           at' \in {"start", "moved"}, stray' \in Nat, executed + stray' <= attempts,
           ~ Safe => executed + stray' <= 1,
           UNCHANGED <<async, policy, spec, deadline, now, attempts, started, limited, wake, ran, executed>>
    PROVE  IInv'
  <1>1. TypeOK'
    BY DEF IInv, TypeOK
  <1>2. ResultAtEnd' /\ AttemptsLeft'
    BY DEF IInv, ResultAtEnd, AttemptsLeft
  <1>3. AttemptsCovered' /\ UnsafeUntouched'
    BY DEF IInv, AttemptsCovered, UnsafeUntouched, Safe
  <1>4. AtStart' /\ LateMeansTimeout' /\ SleepsWithinDeadline'
    BY DEF AtStart, LateMeansTimeout, SleepsWithinDeadline, Elapsed
  <1> QED
    BY <1>1, <1>2, <1>3, <1>4 DEF IInv

\* A step that puts a request to sleep that may be sent again.
LEMMA AsleepInv ==
    ASSUME IInv, Sleep, pc = "busy", policy.max # 0 => attempts < policy.max,
           at' \in {"start", "moved"}, stray' \in Nat, executed + stray' <= attempts,
           ~ Safe => executed + stray' = 0,
           UNCHANGED <<async, policy, spec, deadline, now, attempts, started, limited, ran, executed>>
    PROVE  IInv'
  <1>1. /\ wake' \in Nat /\ now <= wake'
        /\ deadline # Never => wake' <= Max2(deadline, now)
        /\ pc' = "asleep" /\ result' = result
    BY SleepWake DEF IInv
  <1>2. TypeOK'
    BY <1>1 DEF IInv, TypeOK
  <1>3. ResultAtEnd' /\ AttemptsLeft'
    BY <1>1 DEF IInv, ResultAtEnd, AttemptsLeft
  <1>4. AttemptsCovered' /\ UnsafeUntouched'
    <2>1. executed' = executed /\ (~ Safe' => ~ Safe) /\ pc' = "asleep" /\ attempts' = attempts
      BY <1>1 DEF Safe
    <2> QED
      BY <2>1 DEF AttemptsCovered, UnsafeUntouched
  <1>5. AtStart' /\ LateMeansTimeout'
    BY <1>1 DEF IInv, AtStart, LateMeansTimeout, Elapsed
  <1>6. SleepsWithinDeadline'
    BY <1>1 DEF SleepsWithinDeadline, Max2
  <1> QED
    BY <1>2, <1>3, <1>4, <1>5, <1>6 DEF IInv

LEMMA CancelledInv == IInv /\ Cancelled => IInv'
  <1> SUFFICES ASSUME IInv, Cancelled PROVE IInv'
    OBVIOUS
  <1>1. /\ stray' \in Nat /\ executed + stray' <= attempts
        /\ ~ Safe => executed + stray' <= 1
    BY GivenUp DEF Cancelled
  <1>2. /\ pc' = "done" /\ result' = "timeout" /\ at' \in {"start", "moved"}
        /\ UNCHANGED <<async, policy, spec, deadline, now, attempts, started, limited, wake, ran, executed>>
    BY DEF Cancelled, Settle, IInv, TypeOK
  <1> QED
    BY <1>1, <1>2, EndInv DEF Results

LEMMA WakeInv == IInv /\ Wake => IInv'
  BY DEF Wake, Settle, Elapsed, IInv, TypeOK, ResultAtEnd, AttemptsLeft,
      AttemptsCovered, UnsafeUntouched, AtStart, LateMeansTimeout, SleepsWithinDeadline, Results, Safe

LEMMA StrayExecutesInv == IInv /\ StrayExecutes => IInv'
  BY DEF StrayExecutes, IInv, TypeOK, ResultAtEnd, AttemptsLeft, AttemptsCovered, UnsafeUntouched,
      AtStart, LateMeansTimeout, SleepsWithinDeadline, Results, Safe, Elapsed

LEMMA TickInv == IInv /\ Tick => IInv'
  BY ClockAssumption
  DEF Tick, IInv, TypeOK, ResultAtEnd, AttemptsLeft, AttemptsCovered, UnsafeUntouched,
      AtStart, LateMeansTimeout, SleepsWithinDeadline, Results, Safe, Elapsed, Max2

\* A connection error ends the call, or is slept over by a request that is
\* safe to replay and has attempts left.
LEMMA ConnectionErrorInv ==
    ASSUME IInv, NEW timedOut \in BOOLEAN, ConnectionError(timedOut)
    PROVE  IInv'
  <1>a. /\ pc = "busy" /\ at' \in {"start", "moved"}
        /\ UNCHANGED <<async, policy, spec, deadline, now, attempts, started, limited, ran, executed>>
    BY DEF ConnectionError, IInv, TypeOK
  <1>b. /\ stray' \in Nat /\ executed + stray' <= attempts
        /\ ~ Safe => executed + stray' <= 1
    BY GivenUp DEF ConnectionError
  <1>1. CASE Settle("timeout") /\ UNCHANGED wake
    BY <1>1, <1>a, <1>b, EndInv DEF Settle, Results
  <1>2. CASE ~ DeadlineDue(timedOut) /\ Settle("connection") /\ UNCHANGED wake
    BY <1>2, <1>a, <1>b, EndInv DEF DeadlineDue, Elapsed, Settle, Results
  <1>3. CASE ReplaySafe /\ ~ Exhausted /\ Sleep
    <2>1. Safe /\ (policy.max # 0 => attempts < policy.max)
      BY <1>3, PolicyMax DEF ReplaySafe, Safe, Exhausted, IInv, TypeOK
    <2> QED
      BY <1>3, <1>a, <1>b, <2>1, AsleepInv
  <1> QED
    BY <1>1, <1>2, <1>3 DEF ConnectionError

\* A status is final, or retried: for a request that is not safe to replay
\* only if it came before any processing.
LEMMA StatusErrorInv ==
    ASSUME IInv, NEW answer \in {"early", "busy", "final"}, StatusError(answer)
    PROVE  IInv'
  <1>a. /\ pc = "busy" /\ at' \in {"start", "moved"} /\ stray' \in Nat
        /\ UNCHANGED <<async, policy, spec, deadline, now, attempts, started, limited, ran, stray, executed>>
    BY DEF StatusError, IInv, TypeOK
  <1>b. executed + stray' <= attempts /\ (~ Safe => executed + stray' <= 1)
    BY <1>a DEF IInv, AttemptsCovered, UnsafeUntouched
  <1>1. CASE Settle("status") /\ UNCHANGED wake
    BY <1>1, <1>a, <1>b, EndInv DEF Settle, Results
  <1>2. CASE ~ Exhausted /\ (ReplaySafe \/ answer = "early") /\ Sleep
    <2>1. /\ Safe \/ ~ ran
          /\ policy.max # 0 => attempts < policy.max
      BY <1>2, PolicyMax DEF StatusError, ReplaySafe, Safe, Exhausted, IInv, TypeOK
    <2>2. ~ Safe => executed + stray' = 0
      BY <1>a, <2>1 DEF IInv, UnsafeUntouched
    <2> QED
      BY <1>2, <1>a, <1>b, <2>1, <2>2, AsleepInv
  <1> QED
    BY <1>1, <1>2 DEF StatusError

LEMMA NextInv == IInv /\ [Next]_vars => IInv'
  <1> SUFFICES ASSUME IInv, [Next]_vars PROVE IInv'
    OBVIOUS
  <1>1. CASE UNCHANGED vars
    BY <1>1 DEF vars, IInv, TypeOK, ResultAtEnd, AttemptsLeft, AttemptsCovered, UnsafeUntouched,
      AtStart, LateMeansTimeout, SleepsWithinDeadline, Safe, Elapsed, Max2
  <1>2. CASE \E timedOut \in BOOLEAN : ConnectionError(timedOut)
    BY <1>2, ConnectionErrorInv
  <1>3. CASE \E answer \in {"early", "busy", "final"} : StatusError(answer)
    BY <1>3, StatusErrorInv
  <1> QED
    BY <1>1, <1>2, <1>3, AttemptInv, DeadlineAtTopInv, ServerExecutesInv, RespondsInv, CancelledInv,
       WakeInv, StrayExecutesInv, TickInv
    DEF Next, Step

THEOREM CallInvariant == Spec => []IInv
  BY InitInv, NextInv, PTL DEF Spec

\* The variables of the loop keep their types; the requests executed and the
\* requests that still may be are never more than the attempts made.
THEOREM CallTypeCorrect == Spec => []TypeOK
  <1>1. IInv => TypeOK
    BY DEF IInv
  <1> QED
    BY <1>1, CallInvariant, PTL

\* max_attempts bounds the attempts of call(), whatever fails.
THEOREM CallAttemptsBounded == Spec => []AttemptsBounded
  <1>1. IInv => AttemptsBounded
    BY DEF IInv, AttemptsLeft, AttemptsBounded
  <1> QED
    BY <1>1, CallInvariant, PTL

\* Neither a late response nor the error an elapsed deadline provoked reaches
\* the caller of call().
THEOREM CallLateMeansTimeout == Spec => []LateMeansTimeout
  <1>1. IInv => LateMeansTimeout
    BY DEF IInv
  <1> QED
    BY <1>1, CallInvariant, PTL

\* call() never sleeps past its deadline.
THEOREM CallSleepsWithinDeadline == Spec => []SleepsWithinDeadline
  <1>1. IInv => SleepsWithinDeadline
    BY DEF IInv
  <1> QED
    BY <1>1, CallInvariant, PTL

-----------------------------------------------------------------------------
(* The contract                                                            *)

\* The initial states are the contract's.
LEMMA ContractInit == Init => Contract!Init
  BY PolicyAssumption DEF Init, Contract!Init

\* A step executes the request, settles the call or leaves both alone.
LEMMA ContractStep ==
    ASSUME IInv, [Next]_vars
    PROVE  [Contract!Execute \/ Contract!Settle]_(Contract!vars)
  <1> USE DEF Contract!vars, Contract!Execute, Contract!Settle
  <1>1. CASE UNCHANGED vars
    BY <1>1 DEF vars
  <1>2. CASE ServerExecutes
    BY <1>2 DEF ServerExecutes, IInv, UnsafeUntouched, Safe, TypeOK
  <1>3. CASE StrayExecutes
    BY <1>3 DEF StrayExecutes, IInv, UnsafeUntouched, Safe, TypeOK
  <1>4. CASE Responds
    BY <1>4 DEF Responds, Settle, IInv, ResultAtEnd
  <1>5. CASE Attempt \/ Tick
    BY <1>5 DEF Attempt, Tick
  <1>6. CASE DeadlineAtTop \/ Cancelled \/ Wake
    BY <1>6 DEF DeadlineAtTop, Cancelled, Wake, Settle, IInv, ResultAtEnd
  <1>7. ASSUME NEW timedOut \in BOOLEAN, ConnectionError(timedOut)
        PROVE  [Contract!Execute \/ Contract!Settle]_(Contract!vars)
    BY <1>7 DEF ConnectionError, Settle, Sleep, IInv, ResultAtEnd
  <1>8. ASSUME NEW answer \in {"early", "busy", "final"}, StatusError(answer)
        PROVE  [Contract!Execute \/ Contract!Settle]_(Contract!vars)
    BY <1>8 DEF StatusError, Settle, Sleep, IInv, ResultAtEnd
  <1> QED
    BY <1>1, <1>2, <1>3, <1>4, <1>5, <1>6, <1>7, <1>8 DEF Next, Step

\* call() of the Python clients keeps the contract: a request that is not
\* safe to replay is executed at most once, also after the call has ended,
\* and a success was executed.
THEOREM CallImplementsContract == Spec => ImplementsContract
  <1>1. Init => Contract!Init
    BY ContractInit
  <1>2. IInv /\ [Next]_vars => [Contract!Execute \/ Contract!Settle]_(Contract!vars)
    BY ContractStep
  <1> QED
    BY <1>1, <1>2, CallInvariant, PTL DEF Spec, ImplementsContract, Contract!Spec

\* No attempt of call() starts after its deadline.
THEOREM CallNoLateAttempt == Spec => NoLateAttempt
  <1>1. [Next]_vars => [attempts' # attempts => ~ Elapsed]_vars
    BY DEF Next, Step, vars, Attempt, DeadlineAtTop, ServerExecutes, Responds, Cancelled, Wake,
      ConnectionError, StatusError, StrayExecutes, Tick
  <1> QED
    BY <1>1, PTL DEF Spec, NoLateAttempt

\* Every attempt of call() sends the bytes of the first.
THEOREM CallSameBytes == Spec => SameBytes
  <1>1. IInv /\ [Next]_vars => [attempts' # attempts => at = "start"]_vars
    BY DEF IInv, AtStart, Next, Step, vars, Attempt, DeadlineAtTop, ServerExecutes, Responds, Cancelled,
      Wake, ConnectionError, StatusError, StrayExecutes, Tick
  <1> QED
    BY <1>1, CallInvariant, PTL DEF Spec, SameBytes

-----------------------------------------------------------------------------
(* What the loops of JavaScript and Go keep                                *)

Counted ==
    /\ attempts \in Nat /\ stray \in Nat /\ executed \in Nat
    /\ policy.max \in Nat

\* A JavaScript request with a policy has attempts left before it is sent
\* again, one without was sent at most once, a ReadableStream never.
JsAttemptsLeft ==
    pc \in {"top", "asleep"} =>
        /\ policy # NoPolicy => (policy.max # 0 => attempts < policy.max)
        /\ policy = NoPolicy => pc = "top" /\ attempts <= 1
        /\ spec.stream => attempts = 0

\* What the call waits for, its timer or the end of its sleep, comes by the
\* deadline.
JsTimely ==
    /\ now \in Nat /\ timer \in Nat /\ wake \in Nat
    /\ limit \in Deadlines \cup {Never}
    /\ limit # Never =>
          /\ now <= limit + 1
          /\ pc \in {"busy", "reading"} => timer <= limit
          /\ pc = "asleep" => wake <= limit

JsInv ==
    /\ Counted /\ ResultAtEnd /\ UnsafeUntouched
    /\ Js!AttemptsBounded /\ JsAttemptsLeft
    /\ pc = "reading" => ran
    /\ JsTimely

GoInv ==
    /\ Counted /\ ResultAtEnd /\ UnsafeUntouched /\ AttemptsLeft
    /\ pc \in {"top", "asleep"} /\ spec.body = "oneshot" => attempts = 0
    /\ pc \in {"top", "asleep"} /\ policy = NoPolicy => attempts = 0
    /\ pc = "reading" /\ status = "ok" => ran
    /\ pc \in {"top", "busy", "reading", "asleep", "done"}

\* The abort timer is armed for the wait under way, or it has fired for it.
StreamWaits(maximum) ==
    IF aborted THEN Stream!Elapsed \/ Stream!Silent(maximum)
    ELSE timer = Stream!Less(limit, IF maximum = Never THEN Never ELSE since + maximum)

\* A stream that is not idempotent connects again only if nothing was, or can
\* be, executed.
StreamUntouched ==
    ~ spec.idempotent =>
        /\ executed + stray <= 1
        /\ pc \in {"top", "asleep"} => executed + stray = 0
        /\ pc = "connecting" => stray = 0 /\ (~ ran => executed = 0)

StreamAttemptsLeft ==
    /\ Stream!AttemptsBounded
    /\ pc = "connecting" => attempts >= 1
    /\ pc \in {"top", "asleep"} => (Stream!maxAttempts # 0 => attempts < Stream!maxAttempts)

StreamReader ==
    /\ pc \in {"top", "connecting", "asleep"} => reader = "none"
    /\ pc \in {"reading", "handed"} => reader = "open" /\ ran
    /\ Stream!BodyReleased

StreamTimer ==
    /\ pc = "connecting" => StreamWaits(Timeout)
    /\ pc = "reading" => StreamWaits(spec.idle)
    /\ pc \notin {"connecting", "reading"} => timer = Never
    /\ pc = "handed" => ~ aborted

StreamTyped ==
    /\ now \in Nat /\ since \in Nat
    /\ limit \in Deadlines \cup {Never}
    /\ spec.idle \in {Timeout, Never}
    /\ pc \in {"top", "connecting", "asleep", "reading", "handed", "done"}

StreamInv ==
    /\ Counted /\ ResultAtEnd /\ StreamTyped
    /\ StreamUntouched /\ StreamAttemptsLeft /\ StreamReader /\ StreamTimer

ClientsInv ==
    /\ client \in {"python", "js", "stream", "go"}
    /\ client = "python" => IInv
    /\ client # "python" => deadline = Never /\ at = "start"
    /\ client = "js" => JsInv
    /\ client = "stream" => StreamInv
    /\ client = "go" => GoInv

-----------------------------------------------------------------------------
(* JavaScript                                                              *)

\* Only the last action of a request that may not be replayed leaves anything
\* that the server may still execute.
LEMMA JsGivenUp ==
    ASSUME JsInv, pc \in {"busy", "reading"}, Js!GiveUpAttempt
    PROVE  stray' \in Nat /\ (~ Safe => executed + stray' <= 1)
  <1>1. CASE stray' = stray
    BY <1>1 DEF JsInv, Counted, UnsafeUntouched
  <1>2. CASE ~ ran /\ stray' = stray + 1
    BY <1>2 DEF JsInv, Counted, UnsafeUntouched
  <1> QED
    BY <1>1, <1>2 DEF Js!GiveUpAttempt

LEMMA JsEndInv ==
    ASSUME JsInv, pc' = "done", result' # "none",
           attempts' \in Nat, Js!AttemptsBounded', stray' \in Nat, ~ Safe => executed + stray' <= 1,
           UNCHANGED <<policy, spec, limit, now, timer, wake, ran, executed>>
    PROVE  JsInv'
  BY DEF JsInv, Counted, ResultAtEnd, UnsafeUntouched, Safe, JsAttemptsLeft, JsTimely

LEMMA JsRequestInv == ASSUME JsInv, Js!Request PROVE JsInv'
  <1> USE DEF Js!Request, Js!Unchanging
  <1>1. Counted'
    BY DEF JsInv, Counted
  <1>r. ResultAtEnd'
    BY DEF JsInv, Counted, ResultAtEnd
  <1>u. UnsafeUntouched'
    BY DEF JsInv, Counted, UnsafeUntouched, Safe
  <1>2. Js!AttemptsBounded' /\ JsAttemptsLeft'
    BY DEF JsInv, Counted, Js!AttemptsBounded, JsAttemptsLeft
  <1>3. JsTimely'
    BY PolicyAssumption, ClockAssumption DEF JsInv, JsTimely, Js!TimerAt, Js!Min2
  <1> QED
    BY <1>1, <1>r, <1>u, <1>2, <1>3 DEF JsInv

LEMMA JsRequestTooLateInv == ASSUME JsInv, Js!RequestTooLate PROVE JsInv'
  <1> USE DEF Js!RequestTooLate, Js!Settle, Js!Unchanging
  <1>1. Js!AttemptsBounded' /\ attempts' \in Nat
    BY DEF JsInv, Counted, Js!AttemptsBounded, JsAttemptsLeft
  <1>2. ~ Safe => executed + stray' <= 1
    BY DEF JsInv, UnsafeUntouched
  <1> QED
    BY <1>1, <1>2, JsEndInv DEF JsInv, Counted

LEMMA JsServerInv ==
    ASSUME JsInv, Js!ServerExecutes \/ Js!StrayExecutes \/ Js!Headers \/ Js!Wake \/ Js!Tick
    PROVE  JsInv'
  <1> USE DEF Js!ServerExecutes, Js!StrayExecutes, Js!Headers, Js!Wake, Js!Tick, Js!Unchanging
  <1>1. Counted'
    BY DEF JsInv, Counted
  <1>r. ResultAtEnd'
    BY DEF JsInv, Counted, ResultAtEnd
  <1>2. UnsafeUntouched' /\ (pc' = "reading" => ran')
    BY DEF JsInv, Counted, ResultAtEnd, UnsafeUntouched, Safe
  <1>3. Js!AttemptsBounded' /\ JsAttemptsLeft'
    BY DEF JsInv, Js!AttemptsBounded, JsAttemptsLeft
  <1>4. JsTimely'
    BY PolicyAssumption, ClockAssumption DEF JsInv, JsTimely
  <1> QED
    BY <1>1, <1>r, <1>2, <1>3, <1>4 DEF JsInv

\* A request goes to sleep only if it is safe to replay or was rejected
\* before any processing, and has attempts left.
LEMMA JsAsleepInv ==
    ASSUME JsInv, NEW rejected \in BOOLEAN, Js!MayRetry(rejected), ~ Js!SingleRequest, Js!Sleep,
           pc \in {"busy", "reading"}, rejected => pc = "busy" /\ ~ ran /\ stray' = stray,
           stray' \in Nat, ~ Safe => executed + stray' <= 1,
           UNCHANGED <<policy, spec, limit, now, timer, attempts, ran, executed>>
    PROVE  JsInv'
  <1> USE DEF Js!MayRetry, Js!Sleep, Js!SingleRequest
  <1>1. Counted'
    BY DEF JsInv, Counted
  <1>r. ResultAtEnd'
    BY DEF JsInv, Counted, ResultAtEnd
  <1>2. UnsafeUntouched'
    <2>1. Safe' = Safe /\ pc' = "asleep" /\ (Safe \/ rejected)
      BY DEF Safe, Js!ReplaySafe
    <2>2. ASSUME ~ Safe PROVE executed + stray' = 0
      <3>1. pc = "busy" /\ ~ ran /\ stray' = stray
        BY <2>1, <2>2
      <3> QED
        BY <2>2, <3>1 DEF JsInv, UnsafeUntouched, Counted
    <2> QED
      BY <2>1, <2>2 DEF UnsafeUntouched, JsInv, Counted
  <1>3. Js!AttemptsBounded' /\ JsAttemptsLeft'
    BY DEF JsInv, Counted, Js!AttemptsBounded, JsAttemptsLeft
  <1>4. JsTimely'
    <2>1. PICK delay \in Delays : wake' = now + Js!Capped(delay)
      OBVIOUS
    <2>2. delay \in Nat /\ (limit # Never => limit \in Nat /\ now < limit)
      BY PolicyAssumption, ClockAssumption DEF JsInv, JsTimely, Js!Elapsed
    <2> QED
      BY <2>1, <2>2 DEF JsInv, JsTimely, Js!Capped, Js!Min2, Js!Max2
  <1> QED
    BY <1>1, <1>r, <1>2, <1>3, <1>4 DEF JsInv

\* What follows an error of the connection.
LEMMA JsAfterErrorInv ==
    ASSUME JsInv, NEW cause \in {"TypeError", "TimeoutError"}, Js!AfterConnectionError(cause),
           pc \in {"busy", "reading"}, stray' \in Nat, ~ Safe => executed + stray' <= 1,
           UNCHANGED <<policy, spec, limit, now, timer, attempts, ran, executed>>
    PROVE  JsInv'
  <1>1. CASE Js!Settle("connection")
    BY <1>1, JsEndInv DEF Js!Settle, JsInv, Counted, Js!AttemptsBounded
  <1>2. CASE policy = NoPolicy /\ Js!Reconnects(cause) /\ pc' = "top" /\ UNCHANGED <<wake, result>>
    <2>1. Counted' /\ ResultAtEnd' /\ UnsafeUntouched'
      BY <1>2 DEF JsInv, Counted, ResultAtEnd, UnsafeUntouched, Safe, Js!Reconnects
    <2>2. Js!AttemptsBounded' /\ JsAttemptsLeft'
      BY <1>2 DEF JsInv, Counted, Js!AttemptsBounded, JsAttemptsLeft, Js!Reconnects
    <2>3. JsTimely'
      BY <1>2 DEF JsInv, JsTimely
    <2> QED
      BY <1>2, <2>1, <2>2, <2>3 DEF JsInv
  <1>3. CASE ~ Js!SingleRequest /\ Js!MayRetry(FALSE) /\ Js!Sleep
    BY <1>3, JsAsleepInv
  <1> QED
    BY <1>1, <1>2, <1>3 DEF Js!AfterConnectionError

LEMMA JsConnectionErrorInv ==
    ASSUME JsInv, NEW cause \in {"TypeError", "TimeoutError"}, Js!ConnectionError(cause)
    PROVE  JsInv'
  BY JsGivenUp, JsAfterErrorInv DEF Js!ConnectionError, Js!Unchanging

LEMMA JsResponseTooLateInv == ASSUME JsInv, Js!ResponseTooLate PROVE JsInv'
  <1>1. stray' \in Nat /\ (~ Safe => executed + stray' <= 1)
    BY DEF JsInv, Counted, UnsafeUntouched, Js!ResponseTooLate
  <1> QED
    BY <1>1, JsAfterErrorInv DEF Js!ResponseTooLate, Js!Unchanging

LEMMA JsBodyReadInv == ASSUME JsInv, Js!BodyRead PROVE JsInv'
  BY JsEndInv DEF Js!BodyRead, Js!Settle, Js!Unchanging, JsInv, Counted, UnsafeUntouched, Js!AttemptsBounded

LEMMA JsStatusErrorInv ==
    ASSUME JsInv, NEW s \in {"early", "busy", "final"}, Js!StatusError(s)
    PROVE  JsInv'
  <1>1. /\ pc \in {"busy", "reading"} /\ stray' \in Nat /\ (~ Safe => executed + stray' <= 1)
        /\ UNCHANGED <<policy, spec, limit, now, timer, attempts, ran, stray, executed>>
    BY DEF Js!StatusError, Js!Unchanging, JsInv, Counted, UnsafeUntouched
  <1>2. CASE Js!Settle("status")
    BY <1>1, <1>2, JsEndInv DEF Js!Settle, JsInv, Counted, Js!AttemptsBounded
  <1>3. CASE ~ Js!SingleRequest /\ Js!MayRetry(s = "early") /\ Js!Sleep
    <2>1. s = "early" => pc = "busy" /\ ~ ran
      BY DEF Js!StatusError
    <2> QED
      BY <1>1, <1>3, <2>1, JsAsleepInv
  <1> QED
    BY <1>2, <1>3 DEF Js!StatusError

LEMMA JsNextInv == ASSUME JsInv, Js!Next PROVE JsInv'
  BY JsRequestInv, JsRequestTooLateInv, JsServerInv, JsConnectionErrorInv, JsResponseTooLateInv,
     JsBodyReadInv, JsStatusErrorInv
  DEF Js!Next, Js!Step

-----------------------------------------------------------------------------
(* Go                                                                      *)

\* Go's policy and kind of request decide as Safe says.
LEMMA GoSafe ==
    ASSUME Go!Unsafe \/ spec.idempotent
    PROVE  Safe
  BY DEF Safe, Go!Unsafe

\* A step that ends the call.
LEMMA GoEndInv ==
    ASSUME GoInv, pc' = "done", result' # "none", stray' \in Nat, ~ Safe => executed + stray' <= 1,
           UNCHANGED <<policy, spec, attempts, ran, executed>>
    PROVE  GoInv'
  <1>1. Counted' /\ AttemptsLeft'
    BY DEF GoInv, Counted, AttemptsLeft
  <1>2. ResultAtEnd'
    BY DEF GoInv, ResultAtEnd
  <1>3. UnsafeUntouched'
    BY DEF UnsafeUntouched, Safe
  <1> QED
    BY <1>1, <1>2, <1>3 DEF GoInv

\* A step to sleep: the body can be sent again, attempts are left, and the
\* request is safe to replay or was never executed.
LEMMA GoAsleepInv ==
    ASSUME GoInv, Go!Sleep, ~ Go!Exhausted, Go!CanReplayBody, pc # "done",
           stray' \in Nat, ~ Safe => executed + stray' = 0,
           UNCHANGED <<policy, spec, attempts, ran, executed>>
    PROVE  GoInv'
  <1> USE DEF Go!Sleep
  <1>1. policy # NoPolicy /\ (policy.max # 0 => attempts < policy.max)
    BY DEF Go!Exhausted, GoInv, Counted
  <1>2. Counted' /\ AttemptsLeft'
    BY <1>1 DEF GoInv, Counted, AttemptsLeft
  <1>3. ResultAtEnd'
    BY DEF GoInv, ResultAtEnd
  <1>4. UnsafeUntouched'
    <2>1. Safe' = Safe /\ pc' = "asleep"
      BY DEF Safe
    <2>2. ASSUME ~ Safe PROVE executed' + stray' = 0
      BY <2>2
    <2> QED
      BY <2>1, <2>2 DEF UnsafeUntouched
  <1> QED
    BY <1>1, <1>2, <1>3, <1>4 DEF GoInv, Go!CanReplayBody

LEMMA GoAttemptInv == ASSUME GoInv, Go!Attempt PROVE GoInv'
  <1> USE DEF Go!Attempt, Go!Unchanging
  <1>1. Counted' /\ AttemptsLeft'
    BY DEF GoInv, Counted, AttemptsLeft
  <1>2. ResultAtEnd'
    BY DEF GoInv, Counted, ResultAtEnd
  <1>3. UnsafeUntouched'
    BY DEF GoInv, Counted, UnsafeUntouched, Safe
  <1> QED
    BY <1>1, <1>2, <1>3 DEF GoInv

\* The steps that end a call and leave the server alone.
LEMMA GoSettleInv ==
    ASSUME GoInv,
           \/ Go!ContextAtTop \/ Go!OpenFails \/ Go!BodyRead \/ Go!BodyUnusable \/ Go!WaitInterrupted
    PROVE  GoInv'
  <1>1. /\ pc' = "done" /\ result' # "none"
        /\ UNCHANGED <<policy, spec, attempts, ran, stray, executed>>
    BY DEF Go!ContextAtTop, Go!OpenFails, Go!BodyRead, Go!BodyUnusable, Go!WaitInterrupted, Go!Settle,
           Go!Attempted, Go!Unchanging
  <1>2. stray' \in Nat /\ (~ Safe => executed + stray' <= 1)
    BY <1>1 DEF GoInv, Counted, UnsafeUntouched
  <1> QED
    BY <1>1, <1>2, GoEndInv

\* The steps of the server, of the context and of the clock.
LEMMA GoServerInv ==
    ASSUME GoInv,
           Go!ServerExecutes \/ Go!StrayExecutes \/ Go!ContextEnds \/ Go!WaitOver \/ Go!Tick
    PROVE  GoInv'
  <1> USE DEF Go!ServerExecutes, Go!StrayExecutes, Go!ContextEnds, Go!WaitOver, Go!Tick, Go!Attempted,
              Go!Unchanging
  <1>1. Counted'
    BY DEF GoInv, Counted
  <1>2. AttemptsLeft'
    BY DEF GoInv, AttemptsLeft
  <1>3. ResultAtEnd'
    BY DEF GoInv, Counted, ResultAtEnd
  <1>4. UnsafeUntouched'
    BY DEF GoInv, Counted, UnsafeUntouched, Safe
  <1> QED
    BY <1>1, <1>2, <1>3, <1>4 DEF GoInv

LEMMA GoRespondsInv ==
    ASSUME GoInv, NEW s \in Go!Statuses, Go!Responds(s)
    PROVE  GoInv'
  <1>1. /\ pc = "busy" /\ (s = "early" => ~ ran) /\ (s = "ok" => ran)
        /\ UNCHANGED <<policy, spec, attempts, ran, stray, executed>>
    BY DEF Go!Responds, Go!Attempted, Go!Unchanging
  <1>2. CASE ~ Go!Exhausted /\ Go!CanRetryResponse(s) /\ Go!Sleep
    <2>1. ASSUME ~ Safe PROVE executed + stray' = 0
      <3>1. ~ ran
        BY <1>1, <1>2, <2>1, GoSafe DEF Go!CanRetryResponse
      <3> QED
        BY <1>1, <2>1, <3>1 DEF GoInv, UnsafeUntouched
    <2>2. stray' \in Nat
      BY <1>1 DEF GoInv, Counted
    <2> QED
      BY <1>1, <1>2, <2>1, <2>2, GoAsleepInv DEF Go!CanRetryResponse
  <1>3. CASE pc' = "reading" /\ status' = s /\ UNCHANGED <<wake, result>>
    <2>1. Counted' /\ AttemptsLeft'
      BY <1>1, <1>3 DEF GoInv, Counted, AttemptsLeft
    <2>2. ResultAtEnd'
      BY <1>1, <1>3 DEF GoInv, ResultAtEnd
    <2>3. UnsafeUntouched'
      BY <1>1, <1>3 DEF GoInv, UnsafeUntouched, Safe
    <2> QED
      BY <1>1, <1>3, <2>1, <2>2, <2>3 DEF GoInv
  <1> QED
    BY <1>2, <1>3 DEF Go!Responds

LEMMA GoConnectionErrorInv ==
    ASSUME GoInv, NEW cause \in {"network", "context"}, Go!ConnectionError(cause)
    PROVE  GoInv'
  <1>1. /\ pc \in {"busy", "reading"}
        /\ UNCHANGED <<policy, spec, attempts, ran, executed>>
    BY DEF Go!ConnectionError, Go!Attempted, Go!Unchanging
  <1>2. stray' \in Nat /\ (~ Safe => executed + stray' <= 1)
    <2>1. CASE stray' = stray
      BY <2>1 DEF GoInv, Counted, UnsafeUntouched
    <2>2. CASE pc = "busy" /\ ~ ran /\ stray' = stray + 1
      BY <2>2 DEF GoInv, Counted, UnsafeUntouched
    <2> QED
      BY <2>1, <2>2 DEF Go!ConnectionError, Go!AbandonAttempt
  <1>3. CASE Go!Settle("connection")
    BY <1>1, <1>2, <1>3, GoEndInv DEF Go!Settle
  <1>4. CASE ~ Go!Exhausted /\ Go!CanRetryTransport /\ Go!Sleep
    BY <1>1, <1>2, <1>4, GoSafe, GoAsleepInv DEF Go!CanRetryTransport
  <1> QED
    BY <1>3, <1>4 DEF Go!ConnectionError

LEMMA GoNextInv == ASSUME GoInv, Go!Next PROVE GoInv'
  BY GoAttemptInv, GoSettleInv, GoServerInv, GoRespondsInv, GoConnectionErrorInv DEF Go!Next

-----------------------------------------------------------------------------
(* Streams of the JavaScript client                                        *)

\* The number of attempts depends on what does not change.
LEMMA StreamLimit ==
    ASSUME UNCHANGED <<policy, spec>>
    PROVE  Stream!maxAttempts' = Stream!maxAttempts
  BY DEF Stream!maxAttempts, Stream!Applied


\* Every step that leaves the waits of a stream ends it, or frees the timer.
LEMMA StreamEndInv ==
    ASSUME StreamInv, pc # "done", NEW r, Stream!Finish(r), r # "none",
           r = "ok" => ran, UNCHANGED <<policy, spec, limit, now, attempts, aborted, ran, executed>>,
           stray' \in Nat, ~ spec.idempotent => executed + stray' <= 1
    PROVE  StreamInv'
  <1> USE DEF Stream!Finish
  <1>1. Counted'
    BY DEF StreamInv, Counted
  <1>2. ResultAtEnd'
    BY DEF StreamInv, ResultAtEnd
  <1>3. StreamTyped'
    BY DEF StreamInv, StreamTyped
  <1>4. StreamUntouched'
    BY DEF StreamUntouched
  <1>5. StreamAttemptsLeft'
    BY StreamLimit DEF StreamInv, StreamAttemptsLeft, Stream!AttemptsBounded
  <1>6. StreamReader'
    BY DEF StreamInv, StreamReader, StreamTyped, Stream!BodyReleased, Stream!Released
  <1>7. StreamTimer'
    BY DEF StreamTimer
  <1> QED
    BY <1>1, <1>2, <1>3, <1>4, <1>5, <1>6, <1>7 DEF StreamInv

LEMMA StreamConnectInv == ASSUME StreamInv, Stream!Connect PROVE StreamInv'
  <1> USE DEF Stream!Connect, Stream!Waiting, Stream!Unchanging, Stream!served
  <1>1. Counted'
    BY DEF StreamInv, Counted
  <1>2. ResultAtEnd'
    BY DEF StreamInv, Counted, ResultAtEnd
  <1>3. StreamTyped'
    BY DEF StreamInv, StreamTyped
  <1>4. StreamUntouched'
    BY DEF StreamInv, Counted, StreamUntouched
  <1>5. StreamAttemptsLeft'
    <2>1. Stream!maxAttempts \in Nat
      BY DEF Stream!maxAttempts, Stream!Applied, StreamInv, Counted, NoPolicy
    <2> QED
      BY <2>1, StreamLimit DEF StreamInv, Counted, StreamAttemptsLeft, Stream!AttemptsBounded
  <1>6. StreamReader'
    BY DEF StreamInv, StreamReader, Stream!BodyReleased
  <1>7. StreamTimer'
    BY ClockAssumption DEF StreamInv, StreamTyped, StreamTimer, StreamWaits, Stream!Less
  <1> QED
    BY <1>1, <1>2, <1>3, <1>4, <1>5, <1>6, <1>7 DEF StreamInv

LEMMA StreamConnectFailsInv ==
    ASSUME StreamInv, NEW cause \in {"TypeError", "TimeoutError"}, Stream!ConnectFails(cause)
    PROVE  StreamInv'
  <1>1. /\ pc = "connecting"
        /\ UNCHANGED <<policy, spec, limit, now, attempts, aborted, ran, executed>>
    BY DEF Stream!ConnectFails, Stream!Unchanging, Stream!served
  <1>2. stray' \in Nat /\ (~ spec.idempotent => executed + stray' <= 1)
    <2>1. CASE stray' = stray
      BY <1>1, <2>1 DEF StreamInv, Counted, StreamUntouched
    <2>2. CASE ~ ran /\ stray' = stray + 1
      BY <1>1, <2>2 DEF StreamInv, Counted, StreamUntouched
    <2> QED
      BY <2>1, <2>2 DEF Stream!ConnectFails
  <1>3. CASE Stream!Finish(Stream!Error(cause))
    BY <1>1, <1>2, <1>3, StreamEndInv DEF Stream!Error
  <1>4. CASE Stream!Reconnects(cause) /\ Stream!Sleep
    <2> USE <1>4 DEF Stream!Sleep
    <2>1. Counted'
      BY <1>1, <1>2 DEF StreamInv, Counted
    <2>2. ResultAtEnd'
      BY <1>1 DEF StreamInv, ResultAtEnd
    <2>3. StreamTyped'
      BY <1>1 DEF StreamInv, StreamTyped
    <2>4. spec.idempotent /\ (Stream!maxAttempts # 0 => attempts < Stream!maxAttempts)
      BY <1>1 DEF Stream!Reconnects, Stream!maxAttempts, Stream!Applied, StreamInv, StreamAttemptsLeft,
                  Stream!AttemptsBounded, Counted
    <2>5. StreamUntouched'
      BY <1>1, <2>4 DEF StreamUntouched
    <2>6. StreamAttemptsLeft'
      BY <1>1, <2>4, StreamLimit DEF StreamInv, StreamAttemptsLeft, Stream!AttemptsBounded
    <2>7. StreamReader'
      BY <1>1 DEF StreamInv, StreamReader, Stream!BodyReleased
    <2>8. StreamTimer'
      BY DEF StreamTimer
    <2> QED
      BY <2>1, <2>2, <2>3, <2>5, <2>6, <2>7, <2>8 DEF StreamInv
  <1> QED
    BY <1>3, <1>4 DEF Stream!ConnectFails

\* The endings of a stream that has not failed to connect.
LEMMA StreamLeaveInv ==
    ASSUME StreamInv,
           \/ Stream!DeadlineAtTop \/ Stream!EndOfBody \/ Stream!ReadTooLate \/ Stream!Leave
           \/ \E cause \in {"TypeError", "TimeoutError"} : Stream!ReadFails(cause)
           \/ Stream!ReadNext /\ Stream!Finish("timeout")
    PROVE  StreamInv'
  <1>1. PICK r \in {"timeout", "ok", "connection"} : Stream!Finish(r)
    BY DEF Stream!DeadlineAtTop, Stream!EndOfBody, Stream!ReadTooLate, Stream!Leave, Stream!ReadFails,
           Stream!Error
  <1>2. /\ pc \in {"top", "reading", "handed"}
        /\ UNCHANGED <<policy, spec, limit, now, attempts, aborted, ran, stray, executed>>
    BY DEF Stream!DeadlineAtTop, Stream!EndOfBody, Stream!ReadTooLate, Stream!Leave, Stream!ReadFails,
           Stream!ReadNext, Stream!Unchanging, Stream!served
  <1>3. r = "ok" => ran
    BY <1>1, <1>2 DEF Stream!DeadlineAtTop, Stream!Finish, Stream!EndOfBody, Stream!ReadTooLate,
           Stream!Leave, Stream!ReadFails, Stream!ReadNext, Stream!Error, StreamInv, StreamReader
  <1>4. stray' \in Nat /\ (~ spec.idempotent => executed + stray' <= 1)
    BY <1>2 DEF StreamInv, Counted, StreamUntouched
  <1> QED
    BY <1>1, <1>2, <1>3, <1>4, StreamEndInv

\* A response that is refused, or too late, ends the stream as well.
LEMMA StreamRefusedInv ==
    ASSUME StreamInv, Stream!Refused \/ Stream!OpenedTooLate
    PROVE  StreamInv'
  <1> USE DEF Stream!Refused, Stream!OpenedTooLate, Stream!Unchanging, Stream!served
  <1>1. Counted'
    BY DEF StreamInv, Counted
  <1>2. ResultAtEnd'
    BY DEF StreamInv, ResultAtEnd
  <1>3. StreamTyped'
    BY DEF StreamInv, StreamTyped
  <1>4. StreamUntouched'
    BY DEF StreamInv, StreamUntouched
  <1>5. StreamAttemptsLeft'
    BY StreamLimit DEF StreamInv, StreamAttemptsLeft, Stream!AttemptsBounded
  <1>6. StreamReader'
    BY DEF StreamReader, Stream!BodyReleased, Stream!Elapsed
  <1>7. StreamTimer'
    BY DEF StreamTimer
  <1> QED
    BY <1>1, <1>2, <1>3, <1>4, <1>5, <1>6, <1>7 DEF StreamInv

\* Headers, chunks and the next read.
LEMMA StreamReadInv ==
    ASSUME StreamInv,
           Stream!Opened \/ Stream!Chunk \/ (Stream!ReadNext /\ Stream!Waiting("reading", spec.idle)
                                              /\ UNCHANGED <<reader, wake, result>>)
    PROVE  StreamInv'
  <1> USE DEF Stream!Opened, Stream!Chunk, Stream!ReadNext, Stream!Waiting, Stream!Unchanging, Stream!served
  <1>1. Counted'
    BY DEF StreamInv, Counted
  <1>2. ResultAtEnd'
    BY DEF StreamInv, ResultAtEnd
  <1>3. StreamTyped'
    BY DEF StreamInv, StreamTyped
  <1>4. StreamUntouched'
    BY DEF StreamInv, StreamUntouched
  <1>5. StreamAttemptsLeft'
    BY StreamLimit DEF StreamInv, StreamAttemptsLeft, Stream!AttemptsBounded
  <1>6. StreamReader'
    BY DEF StreamInv, StreamReader, Stream!BodyReleased
  <1>7. StreamTimer'
    BY ClockAssumption DEF StreamInv, StreamTyped, StreamTimer, StreamWaits, Stream!Less
  <1> QED
    BY <1>1, <1>2, <1>3, <1>4, <1>5, <1>6, <1>7 DEF StreamInv

\* The server, the timers and the clock.
LEMMA StreamServerInv ==
    ASSUME StreamInv,
           \/ Stream!ServerExecutes \/ Stream!StrayExecutes \/ Stream!Wake \/ Stream!TimerFires
           \/ Stream!Tick
    PROVE  StreamInv'
  <1> USE DEF Stream!ServerExecutes, Stream!StrayExecutes, Stream!Wake, Stream!TimerFires, Stream!Tick,
              Stream!Unchanging, Stream!served
  <1>1. Counted'
    BY DEF StreamInv, Counted
  <1>2. ResultAtEnd'
    BY DEF StreamInv, Counted, ResultAtEnd
  <1>3. StreamTyped'
    BY DEF StreamInv, StreamTyped
  <1>4. StreamUntouched'
    BY DEF StreamInv, Counted, StreamUntouched
  <1>5. StreamAttemptsLeft'
    BY StreamLimit DEF StreamInv, StreamAttemptsLeft, Stream!AttemptsBounded
  <1>6. StreamReader'
    BY DEF StreamInv, StreamReader, StreamTyped, Stream!BodyReleased, Stream!Elapsed
  <1>7. StreamTimer'
    BY ClockAssumption
    DEF StreamInv, StreamTyped, StreamTimer, StreamWaits, Stream!Less, Stream!Elapsed, Stream!Silent
  <1> QED
    BY <1>1, <1>2, <1>3, <1>4, <1>5, <1>6, <1>7 DEF StreamInv

LEMMA StreamNextInv == ASSUME StreamInv, Stream!Next PROVE StreamInv'
  <1>1. CASE Stream!ReadNext
    BY <1>1, StreamReadInv, StreamLeaveInv DEF Stream!ReadNext
  <1>2. CASE \E cause \in {"TypeError", "TimeoutError"} : Stream!ConnectFails(cause)
    BY <1>2, StreamConnectFailsInv
  <1> QED
    BY <1>1, <1>2, StreamConnectInv, StreamLeaveInv, StreamRefusedInv, StreamReadInv, StreamServerInv
    DEF Stream!Next, Stream!Step

-----------------------------------------------------------------------------
(* One of the clients                                                      *)

LEMMA JsInitInv == ASSUME Js!Init PROVE JsInv
  <1> USE DEF Js!Init
  <1>1. Counted
    BY RetryAssumption DEF Counted, NoPolicy
  <1>2. ResultAtEnd /\ UnsafeUntouched
    BY DEF ResultAtEnd, UnsafeUntouched
  <1>3. Js!AttemptsBounded /\ JsAttemptsLeft
    BY <1>1 DEF Counted, Js!AttemptsBounded, JsAttemptsLeft
  <1>4. JsTimely
    BY PolicyAssumption, ClockAssumption DEF JsTimely
  <1> QED
    BY <1>1, <1>2, <1>3, <1>4 DEF JsInv

LEMMA GoInitInv == ASSUME Go!Init PROVE GoInv
  <1> USE DEF Go!Init
  <1>1. Counted
    BY RetryAssumption DEF Counted, NoPolicy
  <1>2. ResultAtEnd /\ UnsafeUntouched
    BY DEF ResultAtEnd, UnsafeUntouched
  <1>3. AttemptsLeft
    BY <1>1 DEF Counted, AttemptsLeft
  <1> QED
    BY <1>1, <1>2, <1>3 DEF GoInv

LEMMA StreamInitInv == ASSUME Stream!Init PROVE StreamInv
  <1> USE DEF Stream!Init
  <1>1. Counted
    BY RetryAssumption DEF Counted, NoPolicy
  <1>2. ResultAtEnd /\ StreamUntouched
    BY DEF ResultAtEnd, StreamUntouched
  <1>3. StreamAttemptsLeft
    BY <1>1 DEF Counted, StreamAttemptsLeft, Stream!AttemptsBounded, Stream!maxAttempts, Stream!Applied,
                NoPolicy
  <1>4. StreamReader /\ StreamTimer
    BY DEF StreamReader, Stream!BodyReleased, StreamTimer
  <1>5. spec.idle \in {Timeout, Never}
    BY DEF StreamTyped
  <1>6. StreamTyped
    BY <1>5 DEF StreamTyped
  <1> QED
    BY <1>1, <1>2, <1>3, <1>4, <1>6 DEF StreamInv

LEMMA ClientsInitInv == ClientsInit => ClientsInv
  BY InitInv, JsInitInv, GoInitInv, StreamInitInv DEF ClientsInit, ClientsInv, NoPython

LEMMA ClientsNextInv == ClientsInv /\ [ClientsNext]_clientVars => ClientsInv'
  <1> SUFFICES ASSUME ClientsInv, [ClientsNext]_clientVars PROVE ClientsInv'
    OBVIOUS
  <1>1. CASE InPython(Next)
    <2>1. IInv'
      BY <1>1, NextInv DEF InPython, ClientsInv
    <2> QED
      BY <1>1, <2>1 DEF InPython, ClientsInv
  <1>2. CASE InJs(Js!Next)
    <2>1. JsInv'
      BY <1>2, JsNextInv DEF InJs, ClientsInv
    <2> QED
      BY <1>2, <2>1 DEF InJs, ClientsInv, pythonOnly
  <1>3. CASE InStream(Stream!Next)
    <2>1. StreamInv'
      BY <1>3, StreamNextInv DEF InStream, ClientsInv
    <2> QED
      BY <1>3, <2>1 DEF InStream, ClientsInv, pythonOnly
  <1>4. CASE InGo(Go!Next)
    <2>1. GoInv'
      BY <1>4, GoNextInv DEF InGo, ClientsInv
    <2> QED
      BY <1>4, <2>1 DEF InGo, ClientsInv, pythonOnly
  <1>5. CASE UNCHANGED clientVars
    <2> USE <1>5 DEF clientVars, vars, jsOnly, streamOnly, goOnly
    <2>1. IInv => IInv'
      BY NextInv
    <2>2. Counted' = Counted /\ ResultAtEnd' = ResultAtEnd /\ UnsafeUntouched' = UnsafeUntouched
          /\ AttemptsLeft' = AttemptsLeft
      BY DEF Counted, ResultAtEnd, UnsafeUntouched, Safe, AttemptsLeft
    <2>3. JsInv => JsInv'
      BY <2>2 DEF JsInv, JsAttemptsLeft, Js!AttemptsBounded, JsTimely
    <2>4. GoInv => GoInv'
      BY <2>2 DEF GoInv
    <2>5. StreamInv => StreamInv'
      <3>1. StreamTyped' = StreamTyped /\ StreamUntouched' = StreamUntouched
            /\ StreamReader' = StreamReader
        BY DEF StreamTyped, StreamUntouched, StreamReader, Stream!BodyReleased, Stream!Elapsed
      <3>2. StreamAttemptsLeft' = StreamAttemptsLeft
        BY StreamLimit DEF StreamAttemptsLeft, Stream!AttemptsBounded
      <3>3. StreamTimer' = StreamTimer
        BY DEF StreamTimer, StreamWaits, Stream!Elapsed, Stream!Silent, Stream!Less
      <3> QED
        BY <2>2, <3>1, <3>2, <3>3 DEF StreamInv
    <2> QED
      BY <2>1, <2>3, <2>4, <2>5 DEF ClientsInv
  <1> QED
    BY <1>1, <1>2, <1>3, <1>4, <1>5 DEF ClientsNext

LEMMA ClientsSafety == ClientsSpec => ClientsInit /\ [][ClientsNext]_clientVars
  BY PTL DEF ClientsSpec

\* Every reachable state of call() of Python, request() with its call() or
\* stream() of JavaScript, or execute() of Go satisfies the invariant of its
\* loop.
THEOREM ClientsInvariant == ClientsSpec => []ClientsInv
  BY ClientsInitInv, ClientsNextInv, ClientsSafety, PTL

\* The loops of all clients: a policy bounds the requests of a call or stream,
\* the first included; without one there is a single request, and one
\* transparent reconnect in JavaScript, which a ReadableStream and a stream
\* whose request may not be repeated never get.
THEOREM ClientsRequestsBounded == ClientsSpec => []RequestsBounded
  <1>1. ClientsInv => RequestsBounded
    <2>1. IInv => AttemptsBounded
      BY DEF IInv, AttemptsLeft, AttemptsBounded
    <2>2. GoInv => Go!AttemptsBounded
      <3>1. GoInv /\ policy = NoPolicy => attempts <= 1
        BY DEF GoInv, AttemptsLeft, NoPolicy
      <3> QED
        BY <3>1 DEF GoInv, AttemptsLeft, Counted, Go!AttemptsBounded
    <2> QED
      BY <2>1, <2>2 DEF ClientsInv, RequestsBounded, JsInv, StreamInv, StreamAttemptsLeft
  <1> QED
    BY <1>1, ClientsInvariant, PTL

\* call() of the JavaScript client cuts the timer of every request and every
\* sleep to what is left of the one deadline: with its reconnect, its retries
\* and the body it is over by then, but for the tick a timer may be late.
THEOREM ClientsJsEndsByDeadline == ClientsSpec => []JsEndsByDeadline
  <1>1. ClientsInv => JsEndsByDeadline
    BY DEF ClientsInv, JsInv, JsTimely, JsEndsByDeadline, Js!EndsByDeadline
  <1> QED
    BY <1>1, ClientsInvariant, PTL

\* stream() of the JavaScript client has cancelled or read to its end the body
\* of every response however it ends, but for one whose headers come after
\* the deadline.
THEOREM ClientsBodyReleased == ClientsSpec => []BodyReleased
  <1>1. ClientsInv => BodyReleased
    BY DEF ClientsInv, StreamInv, StreamReader, BodyReleased
  <1> QED
    BY <1>1, ClientsInvariant, PTL

\* execute() of the Go client: a body that opens once is sent once, so that its
\* caller learns what that request met and never that the body does not open.
THEOREM ClientsOneShotOutcomeKept == ClientsSpec => []OneShotOutcomeKept
  <1>1. ClientsInv => OneShotOutcomeKept
    BY DEF ClientsInv, GoInv, Counted, OneShotOutcomeKept, Go!OneShotOutcomeKept
  <1> QED
    BY <1>1, ClientsInvariant, PTL

\* stream() of the JavaScript client hands over no chunk behind the deadline,
\* and its one abort timer, armed anew for each wait, ends it only behind the
\* deadline or when the transport was silent for as long as that wait allows.
THEOREM ClientsStreamTimely == ClientsSpec => StreamTimely
  <1>1. ASSUME StreamInv, Stream!Next
        PROVE  Stream!TimelyStep
    <2> USE <1>1 DEF StreamInv, ResultAtEnd
    <2>1. CASE \/ Stream!Connect \/ Stream!Wake \/ Stream!ServerExecutes \/ Stream!Opened
               \/ Stream!TimerFires \/ Stream!StrayExecutes \/ Stream!Tick
      BY <2>1 DEF Stream!TimelyStep, Stream!Connect, Stream!Wake, Stream!ServerExecutes, Stream!Opened,
                  Stream!Waiting, Stream!TimerFires, Stream!StrayExecutes, Stream!Tick
    <2>2. CASE \/ Stream!DeadlineAtTop \/ Stream!Refused \/ Stream!OpenedTooLate
               \/ Stream!Chunk \/ Stream!EndOfBody \/ Stream!ReadTooLate \/ Stream!Leave
      BY <2>2 DEF Stream!TimelyStep, Stream!DeadlineAtTop, Stream!Refused, Stream!OpenedTooLate,
                  Stream!Chunk, Stream!EndOfBody, Stream!ReadTooLate, Stream!Leave, Stream!Finish
    <2>3. CASE Stream!ReadNext
      BY <2>3 DEF Stream!TimelyStep, Stream!ReadNext, Stream!Finish, Stream!Waiting
    <2>4. ASSUME NEW cause \in {"TypeError", "TimeoutError"}, Stream!ConnectFails(cause)
          PROVE  Stream!TimelyStep
      <3>1. pc = "connecting" /\ (cause = "TimeoutError" <=> aborted)
            /\ result' \in {result, Stream!Error(cause)}
        BY <2>4 DEF Stream!ConnectFails, Stream!Sleep, Stream!Finish
      <3>2. Stream!Error(cause) = "timeout" => Stream!Elapsed \/ Stream!Silent(Timeout)
        BY <3>1 DEF StreamTimer, StreamWaits, Stream!Error
      <3> QED
        BY <3>1, <3>2 DEF Stream!TimelyStep
    <2>5. ASSUME NEW cause \in {"TypeError", "TimeoutError"}, Stream!ReadFails(cause)
          PROVE  Stream!TimelyStep
      <3>1. pc = "reading" /\ (cause = "TimeoutError" <=> aborted) /\ result' = Stream!Error(cause)
        BY <2>5 DEF Stream!ReadFails, Stream!Finish
      <3>2. Stream!Error(cause) = "timeout" => Stream!Elapsed \/ Stream!Silent(spec.idle)
        BY <3>1 DEF StreamTimer, StreamWaits, Stream!Error
      <3>3. Stream!Error(cause) \in {"timeout", "connection"}
        BY DEF Stream!Error
      <3> QED
        BY <3>1, <3>2, <3>3 DEF Stream!TimelyStep
    <2> QED
      BY <2>1, <2>2, <2>3, <2>4, <2>5 DEF Stream!Next, Stream!Step
  <1>2. ClientsInv /\ [ClientsNext]_clientVars
          => [client = "stream" => Stream!TimelyStep]_clientVars
    BY <1>1 DEF ClientsInv, ClientsNext, InPython, InJs, InGo, InStream
  <1> QED
    BY <1>2, ClientsInvariant, ClientsSafety, PTL DEF StreamTimely

\* call() of Python, in the composition: neither a late response nor the
\* connection error its own deadline provoked reaches the caller.
THEOREM ClientsLateMeansTimeout == ClientsSpec => []LateMeansTimeout
  <1>1. ClientsInv => LateMeansTimeout
    BY DEF ClientsInv, IInv, LateMeansTimeout, Elapsed
  <1> QED
    BY <1>1, ClientsInvariant, PTL

\* The loops of Python rewind the body before each attempt, so every attempt
\* sends the bytes of the first.
THEOREM ClientsSameBytes == ClientsSpec => SameBytes
  <1>1. ClientsInv /\ [ClientsNext]_clientVars => [attempts' # attempts => at = "start"]_vars
    <2>1. ASSUME IInv, Next PROVE attempts' # attempts => at = "start"
      BY <2>1 DEF IInv, AtStart, Next, Step, Attempt, DeadlineAtTop, ServerExecutes, Responds, Cancelled,
        Wake, ConnectionError, StatusError, StrayExecutes, Tick
    <2> QED
      BY <2>1 DEF ClientsInv, ClientsNext, InPython, InJs, InGo, InStream, clientVars
  <1> QED
    BY <1>1, ClientsInvariant, ClientsSafety, PTL DEF SameBytes

-----------------------------------------------------------------------------
(* The contract                                                            *)

LEMMA ClientsContractInit == ClientsInit => Contract!Init
  <1>1. ASSUME Js!Init \/ Stream!Init \/ Go!Init
        PROVE  executed = 0 /\ result = "none"
    BY <1>1 DEF Js!Init, Stream!Init, Go!Init
  <1>2. (spec.idempotent \/ policy.unsafe) \in BOOLEAN
    OBVIOUS
  <1> QED
    BY <1>1, <1>2, ContractInit DEF ClientsInit, Contract!Init

ContractNext == [Contract!Execute \/ Contract!Settle]_(Contract!vars)

LEMMA JsContractStep == ASSUME JsInv, Js!Next PROVE ContractNext
  <1> USE DEF ContractNext, Contract!vars, Contract!Execute, Contract!Settle, Js!Unchanging
  <1>1. CASE Js!ServerExecutes
    BY <1>1 DEF Js!ServerExecutes, JsInv, UnsafeUntouched, Safe
  <1>2. CASE Js!StrayExecutes
    BY <1>2 DEF Js!StrayExecutes, JsInv, Counted, UnsafeUntouched, Safe
  <1>3. CASE Js!BodyRead
    BY <1>3 DEF Js!BodyRead, Js!Settle, JsInv, ResultAtEnd
  <1>4. CASE Js!Request \/ Js!Headers \/ Js!Wake \/ Js!Tick
    BY <1>4 DEF Js!Request, Js!Headers, Js!Wake, Js!Tick
  <1>5. CASE Js!RequestTooLate
    BY <1>5 DEF Js!RequestTooLate, Js!Settle, JsInv, ResultAtEnd
  <1>6. ASSUME NEW cause \in {"TypeError", "TimeoutError"}, Js!AfterConnectionError(cause),
               pc \in {"busy", "reading"}, UNCHANGED <<policy, spec, executed>>
        PROVE  ContractNext
    BY <1>6 DEF Js!AfterConnectionError, Js!Settle, Js!Sleep, JsInv, ResultAtEnd
  <1>7. CASE Js!ResponseTooLate \/ \E cause \in {"TypeError", "TimeoutError"} : Js!ConnectionError(cause)
    BY <1>6, <1>7 DEF Js!ResponseTooLate, Js!ConnectionError
  <1>8. ASSUME NEW s \in {"early", "busy", "final"}, Js!StatusError(s)
        PROVE  ContractNext
    BY <1>8 DEF Js!StatusError, Js!Settle, Js!Sleep, JsInv, ResultAtEnd
  <1> QED
    BY <1>1, <1>2, <1>3, <1>4, <1>5, <1>7, <1>8 DEF Js!Next, Js!Step

LEMMA GoContractStep == ASSUME GoInv, Go!Next PROVE ContractNext
  <1> USE DEF ContractNext, Contract!vars, Contract!Execute, Contract!Settle, Go!Unchanging, Go!Attempted
  <1>1. CASE Go!ServerExecutes
    BY <1>1 DEF Go!ServerExecutes, GoInv, UnsafeUntouched, Safe
  <1>2. CASE Go!StrayExecutes
    BY <1>2 DEF Go!StrayExecutes, GoInv, Counted, UnsafeUntouched, Safe
  <1>3. CASE Go!BodyRead
    BY <1>3 DEF Go!BodyRead, Go!Settle, GoInv, ResultAtEnd
  <1>4. CASE Go!Attempt \/ Go!ContextEnds \/ Go!WaitOver \/ Go!Tick
    BY <1>4 DEF Go!Attempt, Go!ContextEnds, Go!WaitOver, Go!Tick
  <1>5. CASE Go!ContextAtTop \/ Go!OpenFails \/ Go!BodyUnusable \/ Go!WaitInterrupted
    BY <1>5 DEF Go!ContextAtTop, Go!OpenFails, Go!BodyUnusable, Go!WaitInterrupted, Go!Settle, GoInv,
                ResultAtEnd
  <1>6. ASSUME NEW s \in Go!Statuses, Go!Responds(s)
        PROVE  ContractNext
    BY <1>6 DEF Go!Responds, Go!Sleep
  <1>7. ASSUME NEW cause \in {"network", "context"}, Go!ConnectionError(cause)
        PROVE  ContractNext
    BY <1>7 DEF Go!ConnectionError, Go!Settle, Go!Sleep, GoInv, ResultAtEnd
  <1> QED
    BY <1>1, <1>2, <1>3, <1>4, <1>5, <1>6, <1>7 DEF Go!Next

LEMMA StreamContractStep == ASSUME StreamInv, Stream!Next PROVE ContractNext
  <1> USE DEF ContractNext, Contract!vars, Contract!Execute, Contract!Settle, Stream!Unchanging,
              Stream!served, StreamInv, ResultAtEnd
  <1>1. CASE Stream!ServerExecutes
    BY <1>1 DEF Stream!ServerExecutes, StreamUntouched
  <1>2. CASE Stream!StrayExecutes
    BY <1>2 DEF Stream!StrayExecutes, Counted, StreamUntouched
  <1>3. CASE \/ Stream!Connect \/ Stream!Wake \/ Stream!Opened \/ Stream!Chunk \/ Stream!TimerFires
             \/ Stream!Tick
    BY <1>3 DEF Stream!Connect, Stream!Wake, Stream!Opened, Stream!Chunk, Stream!TimerFires, Stream!Tick
  <1>4. CASE \/ Stream!DeadlineAtTop \/ Stream!Refused \/ Stream!OpenedTooLate \/ Stream!ReadTooLate
    BY <1>4 DEF Stream!DeadlineAtTop, Stream!Refused, Stream!OpenedTooLate, Stream!ReadTooLate,
                Stream!Finish
  <1>5. CASE Stream!EndOfBody \/ Stream!Leave
    BY <1>5 DEF Stream!EndOfBody, Stream!Leave, Stream!Finish, StreamReader
  <1>6. CASE Stream!ReadNext
    BY <1>6 DEF Stream!ReadNext, Stream!Finish
  <1>7. ASSUME NEW cause \in {"TypeError", "TimeoutError"},
               Stream!ConnectFails(cause) \/ Stream!ReadFails(cause)
        PROVE  ContractNext
    BY <1>7 DEF Stream!ConnectFails, Stream!ReadFails, Stream!Finish, Stream!Sleep, Stream!Error
  <1> QED
    BY <1>1, <1>2, <1>3, <1>4, <1>5, <1>6, <1>7 DEF Stream!Next, Stream!Step

\* A call of any of the clients, and a stream of the JavaScript client, keeps
\* the contract: what may not be replayed is executed at most once, also after
\* the call has ended, and a success was executed.
THEOREM ClientsImplementContract == ClientsSpec => ImplementsContract
  <1>1. ClientsInv /\ [ClientsNext]_clientVars
          => [Contract!Execute \/ Contract!Settle]_(Contract!vars)
    <2> SUFFICES ASSUME ClientsInv, [ClientsNext]_clientVars PROVE ContractNext
      BY DEF ContractNext
    <2>1. CASE InPython(Next)
      BY <2>1, ContractStep DEF InPython, ClientsInv, ContractNext
    <2>2. CASE InJs(Js!Next) \/ InGo(Go!Next) \/ InStream(Stream!Next)
      BY <2>2, JsContractStep, GoContractStep, StreamContractStep DEF InJs, InGo, InStream, ClientsInv
    <2>3. CASE UNCHANGED clientVars
      BY <2>3 DEF clientVars, vars, ContractNext, Contract!vars
    <2> QED
      BY <2>1, <2>2, <2>3 DEF ClientsNext
  <1> QED
    BY <1>1, ClientsContractInit, ClientsInvariant, ClientsSafety, PTL
    DEF ImplementsContract, Contract!Spec
=============================================================================
