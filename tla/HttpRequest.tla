---------------------------- MODULE HttpRequest -----------------------------
(***************************************************************************)
(* ContreeClient.request of the http.client adapter                        *)
(* (client/contree_client/http.py): a buffered request borrows a           *)
(* connection, sends, reads the whole response, and returns or discards    *)
(* the connection; an idempotent request that met a stale keepalive        *)
(* connection is sent again on another one.                                *)
(*                                                                         *)
(* The module composes ConnectionPool: each action of a request that       *)
(* touches the pool takes the pool's own action.                           *)
(***************************************************************************)
EXTENDS Integers, Sequences, FiniteSets

CONSTANTS
    Threads, Conns, MaxSize, Timed, NoConn,
    Bodies,     \* "none" (absent or bytes), "seekable" or "oneshot" bodies
    MaxCalls    \* bound: requests of all threads together

ASSUME PoolAssumption ==
    /\ MaxSize \in Nat \ {0} /\ NoConn \notin Conns
    /\ IsFiniteSet(Threads) /\ Timed \subseteq Threads
ASSUME CallsAssumption == MaxCalls \in Nat

VARIABLES idle, created, waiters, pc, held, reused, health, late

VARIABLES
    stage,      \* where each thread is in request()
    spec,       \* its RequestSpec: idempotent, and the kind of body
    at,         \* where a file-like body will be read from
    wire,       \* per connection, whose responses are on it and unread
    failing,    \* whether the response has an error status
    verdict,    \* how the request ends once the connection is handed back
    executed,   \* history: times the server executed the request
    resends,    \* history: times it was sent again
    calls       \* bound

poolVars == <<idle, created, waiters, pc, held, reused, health, late>>
requestVars == <<stage, spec, at, wire, failing, verdict, executed, resends, calls>>
vars == <<poolVars, requestVars>>

Pool == INSTANCE ConnectionPool

\* What spec[t] holds between requests.
NoSpec == [idempotent |-> FALSE, body |-> "none"]

Init ==
    /\ Pool!Init
    /\ stage = [t \in Threads |-> "idle"]
    /\ spec = [t \in Threads |-> NoSpec]
    /\ at = [t \in Threads |-> "start"]
    /\ wire = [c \in Conns |-> << >>]
    /\ failing = [t \in Threads |-> FALSE]
    /\ verdict = [t \in Threads |-> "none"]
    /\ executed = [t \in Threads |-> 0]
    /\ resends = [t \in Threads |-> 0]
    /\ calls = 0

-----------------------------------------------------------------------------
(* Borrowing                                                               *)

Begin(t) ==
    /\ stage[t] = "idle"
    /\ calls < MaxCalls
    /\ Pool!Call(t) /\ t \notin late'
    /\ spec' \in {[spec EXCEPT ![t] = s] : s \in [idempotent : BOOLEAN, body : Bodies]}
    /\ stage' = [stage EXCEPT ![t] = "acquire"]
    /\ calls' = calls + 1
    /\ UNCHANGED <<at, wire, failing, verdict, executed, resends>>

\* Steps inside acquire before it returns or raises.
Acquiring(t) ==
    /\ stage[t] = "acquire"
    /\ Pool!Reserve(t) \/ Pool!Block(t) \/ Pool!WaitTimesOut(t)
    /\ UNCHANGED requestVars

Acquired(t) ==
    /\ stage[t] = "acquire"
    /\ Pool!TakeWarm(t) \/ Pool!DialOk(t)
    /\ stage' = [stage EXCEPT ![t] = "send"]
    /\ UNCHANGED <<spec, at, wire, failing, verdict, executed, resends, calls>>

\* TimeoutError and a failing factory both surface as APIConnectionError.
AcquireFails(t) ==
    /\ stage[t] = "acquire"
    /\ Pool!GiveUp(t) \/ Pool!ResumeExpired(t) \/ Pool!DialFails(t)
    /\ stage' = [stage EXCEPT ![t] = "end"]
    /\ verdict' = [verdict EXCEPT ![t] = "connection"]
    /\ UNCHANGED <<spec, at, wire, failing, executed, resends, calls>>

-----------------------------------------------------------------------------
(* Sending and reading                                                     *)

\* The finally clauses: the connection is closed with whatever is on it.
HandBackBroken(t, v) ==
    /\ Pool!Discard(t)
    /\ wire' = [wire EXCEPT ![held[t]] = << >>]
    /\ stage' = [stage EXCEPT ![t] = "end"]
    /\ verdict' = [verdict EXCEPT ![t] = v]

\* remaining_timeout raises before the request, or before the body, is read.
DeadlineDue(t) ==
    /\ stage[t] \in {"send", "read"}
    /\ t \in late
    /\ HandBackBroken(t, "connection")
    /\ UNCHANGED <<spec, at, failing, executed, resends, calls>>

\* The server executes the request and its status line and headers arrive.
SendOk(t) ==
    /\ stage[t] = "send" /\ t \notin late
    /\ health[held[t]] = "open"
    /\ executed' = [executed EXCEPT ![t] = @ + 1]
    /\ wire' = [wire EXCEPT ![held[t]] = Append(@, t)]
    /\ at' = [at EXCEPT ![t] = "moved"]
    /\ failing' \in {[failing EXCEPT ![t] = b] : b \in BOOLEAN}
    /\ stage' = [stage EXCEPT ![t] = "read"]
    /\ UNCHANGED <<poolVars, spec, verdict, resends, calls>>

\* Seeded fault: any request is replayed after a stale-connection error.
MayResendAny(t, error) == reused[t] /\ error = "stale"

MayResend(t, error) == reused[t] /\ spec[t].idempotent /\ error = "stale"

\* Seeded fault: the body is sent on from where the failed send stopped.
RewoundNot(t) == at[t]

\* rewind_body.
Rewound(t) == "start"

\* What follows a failed send.  A one-shot body has no start to return to.
AfterSendError(t, error) ==
    IF ~ MayResend(t, error) THEN "connection"
    ELSE IF spec[t].body = "oneshot" THEN "value" ELSE "again"

\* connection.request or getresponse raises: "stale" stands for
\* STALE_KEEPALIVE_ERRORS.  On a connection the server has not closed the
\* request may have been executed and only the response lost.
SendFails(t) ==
    /\ stage[t] = "send" /\ t \notin late
    /\ \E error \in {"stale", "other"}, ran \in 0 .. 1, moved \in {"start", "moved"} :
        LET v == AfterSendError(t, error) IN
        /\ ran = 1 => health[held[t]] = "open" /\ moved = "moved"
        /\ HandBackBroken(t, v)
        /\ executed' = [executed EXCEPT ![t] = @ + ran]
        /\ at' = [at EXCEPT ![t] = IF spec[t].body = "none" THEN "start" ELSE moved]
    /\ UNCHANGED <<spec, failing, resends, calls>>

\* The next round of the loop, once the stale connection is discarded.
Again(t) ==
    /\ stage[t] = "end" /\ verdict[t] = "again"
    /\ Pool!Call(t) /\ late' = late
    /\ stage' = [stage EXCEPT ![t] = "acquire"]
    /\ at' = [at EXCEPT ![t] = Rewound(t)]
    /\ resends' = [resends EXCEPT ![t] = @ + 1]
    /\ verdict' = [verdict EXCEPT ![t] = "none"]
    /\ UNCHANGED <<spec, wire, failing, executed, calls>>

ReadOk(t) ==
    /\ stage[t] = "read" /\ t \notin late
    /\ wire' = [wire EXCEPT ![held[t]] = Tail(@)]
    /\ stage' = [stage EXCEPT ![t] = "settle"]
    /\ verdict' = [verdict EXCEPT ![t] = IF failing[t] THEN "status" ELSE "ok"]
    /\ UNCHANGED <<poolVars, spec, at, failing, executed, resends, calls>>

\* Seeded fault: the connection goes back to the pool with its body unread.
ReadFailsReleases(t) ==
    /\ stage[t] = "read" /\ t \notin late
    /\ Pool!Release(t)
    /\ stage' = [stage EXCEPT ![t] = "end"]
    /\ verdict' = [verdict EXCEPT ![t] = "connection"]
    /\ UNCHANGED <<spec, at, wire, failing, executed, resends, calls>>

\* The body is cut short; preserve_response_status keeps a known failure.
ReadFails(t) ==
    /\ stage[t] = "read" /\ t \notin late
    /\ HandBackBroken(t, IF failing[t] THEN "status" ELSE "connection")
    /\ UNCHANGED <<spec, at, failing, executed, resends, calls>>

\* will_close or a missing socket decides between discard and release.
Settle(t) ==
    /\ stage[t] = "settle"
    /\ Pool!Release(t) \/ Pool!Discard(t)
    /\ stage' = [stage EXCEPT ![t] = "end"]
    /\ UNCHANGED <<spec, at, wire, failing, verdict, executed, resends, calls>>

\* The slot of a discarded connection or a failed dial is given back.
SlotFreed(t) == Pool!FreeSlot(t) /\ UNCHANGED requestVars

HandedBack(t) == pc[t] = "out"

\* The request returns or raises as its verdict says; a response that came
\* too late raises as well.  The locals of request() are gone.
Finish(t) ==
    /\ stage[t] = "end" /\ verdict[t] # "again"
    /\ HandedBack(t)
    /\ stage' = [stage EXCEPT ![t] = "idle"]
    /\ verdict' = [verdict EXCEPT ![t] = "none"]
    /\ spec' = [spec EXCEPT ![t] = NoSpec]
    /\ at' = [at EXCEPT ![t] = "start"]
    /\ failing' = [failing EXCEPT ![t] = FALSE]
    /\ executed' = [executed EXCEPT ![t] = 0]
    /\ resends' = [resends EXCEPT ![t] = 0]
    /\ UNCHANGED <<poolVars, wire, calls>>

Step(t) ==
    \/ Acquiring(t) \/ Acquired(t) \/ AcquireFails(t)
    \/ DeadlineDue(t) \/ SendOk(t) \/ SendFails(t) \/ Again(t)
    \/ ReadOk(t) \/ ReadFails(t) \/ Settle(t) \/ SlotFreed(t) \/ Finish(t)

\* Another thread closes the client; idle connections hold no responses.
CloseClient == Pool!Close /\ UNCHANGED requestVars

Environment ==
    /\ (\E t \in Threads : Pool!DeadlineElapses(t)) \/ (\E c \in Conns : Pool!ServerCloses(c))
    /\ UNCHANGED requestVars

Next == (\E t \in Threads : Begin(t) \/ Step(t)) \/ CloseClient \/ Environment

Spec == Init /\ [][Next]_vars

\* Every thread keeps running; a send and a read end, since the sockets carry
\* the client's timeout.
FairSpec == Spec /\ \A t \in Threads : WF_vars(Step(t))

-----------------------------------------------------------------------------
(* Properties                                                              *)

\* request() never makes the server execute a request that is not idempotent
\* twice, whatever stage the failure hits ("a transparent resend could double
\* a side effect").
NonIdempotentOnce ==
    \A t \in Threads : ~ spec[t].idempotent => executed[t] <= 1

\* The response a thread is about to read is its own and the only one on its
\* connection: nothing an earlier borrower left unread precedes it.
OwnResponse ==
    \A t \in Threads : stage[t] = "read" => wire[held[t]] = <<t>>

\* Every send starts where the first one started, or the request fails.
SendsWholeBody == \A t \in Threads : stage[t] = "send" => at[t] = "start"

\* The comment in the loop says that it terminates: a resend consumes a
\* connection another request put back.
RequestEnds == \A t \in Threads : stage[t] # "idle" ~> stage[t] = "idle"

\* The class docstring: "a request re-sent once on a fresh connection".
ResentAtMostOnce == \A t \in Threads : resends[t] <= 1
=============================================================================
