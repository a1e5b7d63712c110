--------------------------- MODULE ConnectionPool ---------------------------
(***************************************************************************)
(* The bounded LIFO pool of keepalive connections that every buffered      *)
(* request of the Python http.client adapter borrows from                  *)
(* (client/contree_client/http.py, class ConnectionPool).                  *)
(*                                                                         *)
(* The pool's lock is a threading.Condition.  A critical section of the    *)
(* code is one action here; the code a thread runs without the lock (the   *)
(* factory, the request on a borrowed connection, closing a discarded      *)
(* one) lies between two actions, so every interleaving of the critical    *)
(* sections is explored.                                                   *)
(***************************************************************************)
EXTENDS Integers, Sequences, FiniteSets

CONSTANTS
    Threads,    \* the threads that share one client
    Conns,      \* connection objects; a closed one stands for a fresh one later
    MaxSize,    \* http_max_connections
    Timed,      \* the threads whose calls carry a deadline
    NoConn      \* the value of held[t] when t holds nothing

ASSUME MaxSizeAssumption == MaxSize \in Nat \ {0}
ASSUME ThreadsAssumption == IsFiniteSet(Threads) /\ Timed \subseteq Threads
ASSUME ConnsAssumption   == NoConn \notin Conns

VARIABLES
    idle,       \* the deque of idle connections, the warmest last
    created,    \* the counter of live connections and reserved slots
    waiters,    \* the Condition's FIFO of blocked threads
    pc,         \* where each thread is in acquire, release and discard
    held,       \* the connection a thread has borrowed
    reused,     \* the flag acquire returned with it, while it is borrowed
    health,     \* "none" (not dialed, or closed), "open", or "stale"
    late        \* the threads whose deadline has elapsed

vars == <<idle, created, waiters, pc, held, reused, health, late>>

(***************************************************************************)
(* "enter": in acquire, about to take the lock; "waiting": blocked in      *)
(* condition.wait; "woken": notified, about to take the lock again;        *)
(* "expired": the wait timed out, the lock is not retaken yet; "dialing":  *)
(* a slot is reserved, the factory runs; "failed": the factory raised;     *)
(* "borrowed": acquire returned; "closed": discard has closed the          *)
(* connection and is about to take the lock.                               *)
(***************************************************************************)
Places == {"out", "enter", "waiting", "woken", "expired",
           "dialing", "failed", "borrowed", "closed"}

TypeOK ==
    /\ idle \in Seq(Conns)
    /\ created \in Nat
    /\ waiters \in Seq(Threads)
    /\ pc \in [Threads -> Places]
    /\ held \in [Threads -> Conns \cup {NoConn}]
    /\ reused \in [Threads -> BOOLEAN]
    /\ health \in [Conns -> {"none", "open", "stale"}]
    /\ late \in SUBSET Timed

Init ==
    /\ idle = << >>
    /\ created = 0
    /\ waiters = << >>
    /\ pc = [t \in Threads |-> "out"]
    /\ held = [t \in Threads |-> NoConn]
    /\ reused = [t \in Threads |-> FALSE]
    /\ health = [c \in Conns |-> "none"]
    /\ late = {}

-----------------------------------------------------------------------------
(* Condition variable                                                      *)

Suffix(s, n) == SubSeq(s, n + 1, Len(s))

\* The thread at the head of the Condition's deque, and the next n - 1.  A
\* thread whose wait timed out stays in the deque until it has retaken the
\* lock, so a notify may be spent on it.
Notified(n) == {waiters[i] : i \in {j \in DOMAIN waiters : j <= n}}

\* pc after thread t has moved to p and notified n threads.
MoveAndNotify(t, p, n) ==
    [u \in Threads |-> IF u = t THEN p
                       ELSE IF u \in Notified(n) /\ pc[u] = "waiting" THEN "woken"
                       ELSE pc[u]]

-----------------------------------------------------------------------------
(* acquire                                                                 *)

\* acquire(deadline) is called: with a new deadline, or again with one that may
\* have elapsed.
Call(t) ==
    /\ pc[t] = "out"
    /\ pc' = [pc EXCEPT ![t] = "enter"]
    /\ late' \in {late, late \ {t}}
    /\ UNCHANGED <<idle, created, waiters, held, reused, health>>

\* The thread is at the head of acquire's loop and holds the lock.
AtLoopHead(t) == pc[t] \in {"enter", "woken"} /\ t \notin late

\* remaining_timeout(deadline, None) raises TimeoutError.
GiveUp(t) ==
    /\ pc[t] \in {"enter", "woken"}
    /\ t \in late
    /\ pc' = [pc EXCEPT ![t] = "out"]
    /\ UNCHANGED <<idle, created, waiters, held, reused, health, late>>

\* idle[k] is the connection the inner loop ends at: every warmer one has
\* gone stale.  0 when all have.
WarmestAlive(k) ==
    /\ k \in 0 .. Len(idle)
    /\ k # 0 => health[idle[k]] = "open"
    /\ \A i \in (k + 1) .. Len(idle) : health[idle[i]] # "open"

\* Seeded fault: stale connections are popped and never closed.
ClosedAfterNot(k) == health

\* health once the connections warmer than idle[k] are closed.
ClosedAfter(k) ==
    [c \in Conns |-> IF \E i \in (k + 1) .. Len(idle) : idle[i] = c
                     THEN "none" ELSE health[c]]

\* Seeded fault: the connection is read off the deque and left there.
RestPeeked(k) == SubSeq(idle, 1, k)

\* The deque after idle[k] is popped.
Rest(k) == SubSeq(idle, 1, k - 1)

\* The inner loop drops n stale connections and pops a usable one.
TakeWarm(t) ==
    /\ AtLoopHead(t)
    /\ \E k \in 1 .. Len(idle) :
        LET n == Len(idle) - k IN
        /\ WarmestAlive(k)
        /\ idle' = Rest(k)
        /\ created' = created - n
        /\ health' = ClosedAfter(k)
        /\ pc' = MoveAndNotify(t, "borrowed", n)
        /\ waiters' = Suffix(waiters, n)
        /\ held' = [held EXCEPT ![t] = idle[k]]
    /\ reused' = [reused EXCEPT ![t] = TRUE]
    /\ UNCHANGED late

\* Every idle connection was stale (or there was none), and a slot is free.
Reserve(t) ==
    LET n == Len(idle) IN
    /\ AtLoopHead(t)
    /\ WarmestAlive(0)
    /\ created - n < MaxSize
    /\ idle' = << >>
    /\ created' = created - n + 1
    /\ health' = ClosedAfter(0)
    /\ pc' = MoveAndNotify(t, "dialing", n)
    /\ waiters' = Suffix(waiters, n)
    /\ UNCHANGED <<held, reused, late>>

\* Nothing idle and no slot: condition.wait.  (With a connection to drop the
\* slot it frees would be taken at once, so nothing is dropped here.)
Block(t) ==
    /\ AtLoopHead(t)
    /\ idle = << >>
    /\ created >= MaxSize
    /\ pc' = [pc EXCEPT ![t] = "waiting"]
    /\ waiters' = Append(waiters, t)
    /\ UNCHANGED <<idle, created, held, reused, health, late>>

\* condition.wait(timeout) runs out; the thread is still in the deque.
WaitTimesOut(t) ==
    /\ pc[t] = "waiting"
    /\ t \in late
    /\ pc' = [pc EXCEPT ![t] = "expired"]
    /\ UNCHANGED <<idle, created, waiters, held, reused, health, late>>

Without(s, t) ==
    IF \E i \in DOMAIN s : s[i] = t
    THEN LET i == CHOOSE i \in DOMAIN s : s[i] = t
         IN  SubSeq(s, 1, i - 1) \o Suffix(s, i)
    ELSE s

\* Seeded fault: a wait that timed out is entered again at once.
ResumeExpiredWaits(t) ==
    /\ pc[t] = "expired"
    /\ waiters' = Append(Without(waiters, t), t)
    /\ pc' = [pc EXCEPT ![t] = "waiting"]
    /\ UNCHANGED <<idle, created, held, reused, health, late>>

\* wait has retaken the lock and leaves the deque; the loop head raises.
ResumeExpired(t) ==
    /\ pc[t] = "expired"
    /\ waiters' = Without(waiters, t)
    /\ pc' = [pc EXCEPT ![t] = "out"]
    /\ UNCHANGED <<idle, created, held, reused, health, late>>

\* factory() returns: acquire returns (connection, False).
DialOk(t) ==
    /\ pc[t] = "dialing"
    /\ \E c \in {d \in Conns : health[d] = "none"} :
        /\ health' = [health EXCEPT ![c] = "open"]
        /\ held' = [held EXCEPT ![t] = c]
    /\ reused' = [reused EXCEPT ![t] = FALSE]
    /\ pc' = [pc EXCEPT ![t] = "borrowed"]
    /\ UNCHANGED <<idle, created, waiters, late>>

\* factory() raises; the finally clause has yet to take the lock.
DialFails(t) ==
    /\ pc[t] = "dialing"
    /\ pc' = [pc EXCEPT ![t] = "failed"]
    /\ UNCHANGED <<idle, created, waiters, held, reused, health, late>>

\* Seeded fault: a slot is given back without waking a borrower.
FreeSlotQuietly(t) ==
    /\ pc[t] \in {"failed", "closed"}
    /\ created' = created - 1
    /\ pc' = [pc EXCEPT ![t] = "out"]
    /\ UNCHANGED <<idle, waiters, held, reused, health, late>>

\* Gives the slot back and wakes one borrower: the end of a failed dial and
\* of discard.
FreeSlot(t) ==
    /\ pc[t] \in {"failed", "closed"}
    /\ created' = created - 1
    /\ pc' = MoveAndNotify(t, "out", 1)
    /\ waiters' = Suffix(waiters, 1)
    /\ UNCHANGED <<idle, held, reused, health, late>>

-----------------------------------------------------------------------------
(* release, discard, close                                                 *)

Release(t) ==
    /\ pc[t] = "borrowed"
    /\ idle' = Append(idle, held[t])
    /\ held' = [held EXCEPT ![t] = NoConn]
    /\ reused' = [reused EXCEPT ![t] = FALSE]
    /\ pc' = MoveAndNotify(t, "out", 1)
    /\ waiters' = Suffix(waiters, 1)
    /\ UNCHANGED <<created, health, late>>

\* The first half of discard, connection.close(), is outside the lock.
Discard(t) ==
    /\ pc[t] = "borrowed"
    /\ health' = [health EXCEPT ![held[t]] = "none"]
    /\ held' = [held EXCEPT ![t] = NoConn]
    /\ reused' = [reused EXCEPT ![t] = FALSE]
    /\ pc' = [pc EXCEPT ![t] = "closed"]
    /\ UNCHANGED <<idle, created, waiters, late>>

\* Any thread may close the client while others are using it.
Close ==
    /\ idle # << >> \/ waiters # << >>
    /\ idle' = << >>
    /\ created' = created - Len(idle)
    /\ health' = ClosedAfter(0)
    /\ pc' = [u \in Threads |-> IF u \in Notified(Len(waiters)) /\ pc[u] = "waiting"
                                THEN "woken" ELSE pc[u]]
    /\ waiters' = << >>
    /\ UNCHANGED <<held, reused, late>>

-----------------------------------------------------------------------------
(* The environment                                                         *)

\* The server drops a keepalive connection, idle or in use.
ServerCloses(c) ==
    /\ health[c] = "open"
    /\ health' = [health EXCEPT ![c] = "stale"]
    /\ UNCHANGED <<idle, created, waiters, pc, held, reused, late>>

DeadlineElapses(t) ==
    /\ t \in Timed \ late
    /\ pc[t] # "out"
    /\ late' = late \cup {t}
    /\ UNCHANGED <<idle, created, waiters, pc, held, reused, health>>

\* The steps a thread takes once it has called acquire.
Step(t) ==
    \/ GiveUp(t) \/ TakeWarm(t) \/ Reserve(t) \/ Block(t)
    \/ WaitTimesOut(t) \/ ResumeExpired(t)
    \/ DialOk(t) \/ DialFails(t) \/ FreeSlot(t)
    \/ Release(t) \/ Discard(t)

Next ==
    \/ \E t \in Threads : Call(t) \/ Step(t) \/ DeadlineElapses(t)
    \/ \E c \in Conns : ServerCloses(c)
    \/ Close

Spec == Init /\ [][Next]_vars

\* Every thread keeps running, and a dial and a request end (the sockets carry
\* a timeout).  Nothing obliges a thread to call, a deadline to pass, the
\* server to drop a connection or the owner to close the client.
FairSpec == Spec /\ \A t \in Threads : WF_vars(Step(t))

-----------------------------------------------------------------------------
(* Properties                                                              *)

\* The threads that own one unit of `created`: a connection or a slot.
Owners == {t \in Threads : pc[t] \in {"dialing", "failed", "borrowed", "closed"}}

\* The counter is exact: one unit for each idle connection and each owner, so
\* no path through acquire, release, discard and close leaks a slot or frees
\* one twice, and it never passes the cap.
SlotsAccounted ==
    /\ created = Len(idle) + Cardinality(Owners)
    /\ created <= MaxSize

\* What the docstring promises of maxsize: it caps the connections that are
\* open or were opened and not closed yet, idle or lent.
LiveConnectionsCapped ==
    Cardinality({c \in Conns : health[c] # "none"}) <= MaxSize

\* No connection is lent to two threads, idle twice, or idle while lent; and
\* what is idle or lent has not been closed by the client.
ConnectionsExclusive ==
    /\ \A i, j \in DOMAIN idle : idle[i] = idle[j] => i = j
    /\ \A t \in Threads, i \in DOMAIN idle : held[t] # idle[i]
    /\ \A t, u \in Threads : held[t] = held[u] /\ held[t] # NoConn => t = u
    /\ \A t \in Threads : pc[t] = "borrowed" <=> held[t] # NoConn
    /\ \A i \in DOMAIN idle : health[idle[i]] # "none"
    /\ \A t \in Threads : held[t] # NoConn => health[held[t]] # "none"

\* A thread waits only while no capacity goes unclaimed: for each idle
\* connection or free slot a thread is on its way to claim it.
CapacityClaimed ==
    waiters # << >> =>
        Len(idle) + (MaxSize - created) <= Cardinality({t \in Threads : pc[t] = "woken"})

\* No borrower is left beside free capacity while no deadline passes.
NoStrandedWaiter == [](late = {}) => []CapacityClaimed

\* A blocked borrower gets another look at the pool: the docstring's "blocks
\* until a concurrent caller returns or discards one".
BlockedBorrowerWakes ==
    \A t \in Threads : pc[t] = "waiting" ~> pc[t] # "waiting"

\* It does while no deadline passes.
WakesWithoutTimeouts == [](late = {}) => BlockedBorrowerWakes

\* A borrower whose deadline has passed leaves acquire, with a connection or
\* with TimeoutError, though nobody gives anything back.
TimedCallEnds ==
    \A t \in Timed :
        t \in late /\ pc[t] \in {"enter", "waiting", "woken", "expired"}
            ~> pc[t] \in {"borrowed", "dialing", "out"}

\* The pool implements the abstract lease: leases are what threads hold, and
\* a dial or a discard under way holds a slot.
Lease == INSTANCE ConnectionLease WITH
            lease <- held,
            kept  <- {idle[i] : i \in DOMAIN idle},
            slots <- {t \in Threads : pc[t] \in {"dialing", "failed", "closed"}}

ImplementsLease == Lease!Spec
=============================================================================
