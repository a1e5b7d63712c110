-------------------------- MODULE HttpRequestProofs -------------------------
(***************************************************************************)
(* Proofs about HttpRequest for every number of threads, connections,      *)
(* slots and requests, and any kinds of body.                              *)
(*                                                                         *)
(* A request touches the pool by the pool's own actions, so its            *)
(* behaviours are behaviours of the pool, and what is proved of the pool   *)
(* holds of them: a connection is lent to one thread.  That is what the    *)
(* response a thread reads being its own rests on.                         *)
(***************************************************************************)
EXTENDS HttpRequest, TLAPS

Proved == INSTANCE ConnectionPoolProofs

LEMMA MaxSizeHolds == Proved!MaxSizeAssumption
  BY PoolAssumption

LEMMA ThreadsHold == Proved!ThreadsAssumption
  BY PoolAssumption DEF IsFiniteSet, Proved!IsFiniteSet

LEMMA ConnsHold == Proved!ConnsAssumption
  BY PoolAssumption

-----------------------------------------------------------------------------
(* The pool under the requests                                             *)

\* The proofs instantiate the pool a second time; its actions are the same.
LEMMA SameTakes ==
    ASSUME NEW t
    PROVE  /\ Pool!TakeWarm(t) => Proved!TakeWarm(t)
           /\ Pool!Reserve(t) => Proved!Reserve(t)
           /\ Pool!Block(t) => Proved!Block(t)
           /\ Pool!GiveUp(t) => Proved!GiveUp(t)
  BY DEF Pool!TakeWarm, Proved!TakeWarm, Pool!Reserve, Proved!Reserve, Pool!Block, Proved!Block,
         Pool!GiveUp, Proved!GiveUp, Pool!AtLoopHead, Proved!AtLoopHead,
         Pool!WarmestAlive, Proved!WarmestAlive, Pool!Rest, Proved!Rest,
         Pool!ClosedAfter, Proved!ClosedAfter, Pool!MoveAndNotify, Proved!MoveAndNotify,
         Pool!Notified, Proved!Notified, Pool!Suffix, Proved!Suffix

LEMMA SameWaits ==
    ASSUME NEW t
    PROVE  /\ Pool!WaitTimesOut(t) => Proved!WaitTimesOut(t)
           /\ Pool!ResumeExpired(t) => Proved!ResumeExpired(t)
           /\ Pool!DialOk(t) => Proved!DialOk(t)
           /\ Pool!DialFails(t) => Proved!DialFails(t)
           /\ Pool!Call(t) => Proved!Call(t)
           /\ Pool!DeadlineElapses(t) => Proved!DeadlineElapses(t)
           /\ Pool!ServerCloses(t) => Proved!ServerCloses(t)
  BY DEF Pool!WaitTimesOut, Proved!WaitTimesOut, Pool!ResumeExpired, Proved!ResumeExpired,
         Pool!DialOk, Proved!DialOk, Pool!DialFails, Proved!DialFails, Pool!Call, Proved!Call,
         Pool!DeadlineElapses, Proved!DeadlineElapses, Pool!ServerCloses, Proved!ServerCloses,
         Pool!Without, Proved!Without, Pool!Suffix, Proved!Suffix

LEMMA SameReturns ==
    ASSUME NEW t
    PROVE  /\ Pool!Release(t) => Proved!Release(t)
           /\ Pool!Discard(t) => Proved!Discard(t)
           /\ Pool!FreeSlot(t) => Proved!FreeSlot(t)
           /\ Pool!Close => Proved!Close
  BY DEF Pool!Release, Proved!Release, Pool!Discard, Proved!Discard, Pool!FreeSlot, Proved!FreeSlot,
         Pool!Close, Proved!Close, Pool!MoveAndNotify, Proved!MoveAndNotify,
         Pool!ClosedAfter, Proved!ClosedAfter, Pool!Notified, Proved!Notified,
         Pool!Suffix, Proved!Suffix

LEMMA SamePool == [Pool!Next]_(Pool!vars) => [Proved!Next]_(Proved!vars)
  BY SameTakes, SameWaits, SameReturns
     DEF Pool!Next, Proved!Next, Pool!Step, Proved!Step, Pool!vars, Proved!vars

\* A step of a request takes one step of the pool, or leaves it alone.
LEMMA RequestPoolStep == [Next]_vars => [Pool!Next]_(Pool!vars)
  <1> USE DEF Pool!Next, Pool!Step
  <1>1. ASSUME NEW t \in Threads, Begin(t) \/ Again(t) PROVE Pool!Next
    BY <1>1 DEF Begin, Again
  <1>2. ASSUME NEW t \in Threads, Acquiring(t) \/ Acquired(t) \/ AcquireFails(t)
        PROVE  Pool!Next
    BY <1>2 DEF Acquiring, Acquired, AcquireFails
  <1>3. ASSUME NEW t \in Threads, DeadlineDue(t) \/ SendFails(t) \/ ReadFails(t)
        PROVE  Pool!Next
    BY <1>3 DEF DeadlineDue, SendFails, ReadFails, HandBackBroken
  <1>4. ASSUME NEW t \in Threads, Settle(t) \/ SlotFreed(t) PROVE Pool!Next
    BY <1>4 DEF Settle, SlotFreed
  <1>5. ASSUME NEW t \in Threads, SendOk(t) \/ ReadOk(t) \/ Finish(t)
        PROVE  UNCHANGED Pool!vars
    BY <1>5 DEF SendOk, ReadOk, Finish, poolVars, Pool!vars
  <1>6. CASE CloseClient \/ Environment
    BY <1>6 DEF CloseClient, Environment
  <1>7. CASE UNCHANGED vars
    BY <1>7 DEF vars, poolVars, Pool!vars
  <1> QED
    BY <1>1, <1>2, <1>3, <1>4, <1>5, <1>6, <1>7 DEF Next, Step

\* request() borrows and hands back by acquire, release and discard alone:
\* the threads that run it are threads of the pool.
THEOREM RequestsUsePool == Spec => Pool!Spec
  <1>1. Init => Pool!Init
    BY DEF Init
  <1> QED
    BY <1>1, RequestPoolStep, PTL DEF Spec, Pool!Spec

\* What is proved of the pool holds of it under any requests: its counter is
\* exact, and a connection is lent to one thread and not idle meanwhile.
THEOREM RequestsPoolInvariant == Spec => []Proved!IInv
  <1>1. Pool!Init => Proved!Init
    BY DEF Pool!Init, Proved!Init
  <1>2. Pool!Spec => Proved!Spec
    BY <1>1, SamePool, PTL DEF Pool!Spec, Proved!Spec
  <1> QED
    BY <1>2, RequestsUsePool, Proved!PoolInvariant, MaxSizeHolds, ThreadsHold, ConnsHold, PTL

-----------------------------------------------------------------------------
(* The requests                                                            *)

InFlight == {"send", "read", "settle"}

RequestTyped ==
    /\ stage \in [Threads -> {"idle", "acquire", "end"} \cup InFlight]
    /\ spec \in [Threads -> [idempotent : BOOLEAN, body : Bodies \cup {"none"}]]
    /\ at \in [Threads -> {"start", "moved"}]
    /\ wire \in [Conns -> Seq(Threads)]
    /\ verdict \in [Threads -> {"none", "again", "value", "connection", "status", "ok"}]
    /\ executed \in [Threads -> Nat]

\* A thread holds a connection exactly while its request is on it.
HeldInFlight == \A t \in Threads : stage[t] \in InFlight <=> pc[t] = "borrowed"

\* A response waits on a connection only for the thread that is reading it.
OnlyOwn ==
    \A c \in Conns : wire[c] # << >> =>
        \E t \in Threads : stage[t] = "read" /\ held[t] = c

\* Until its first send a request was executed by nobody and has no verdict;
\* another send of one that is not idempotent does not come.
Unexecuted ==
    \A t \in Threads :
        /\ stage[t] = "idle" => executed[t] = 0 /\ verdict[t] = "none"
        /\ ~ spec[t].idempotent =>
              /\ stage[t] \in {"acquire", "send"} => executed[t] = 0
              /\ verdict[t] # "again"

FromStart == \A t \in Threads : stage[t] \in {"idle", "acquire", "send"} => at[t] = "start"

RequestInv ==
    /\ RequestTyped /\ HeldInFlight /\ OnlyOwn /\ OwnResponse
    /\ Unexecuted /\ NonIdempotentOnce /\ FromStart

-----------------------------------------------------------------------------
(* What a step of the pool does to the threads                             *)

Lent ==
    /\ pc \in [Threads -> Proved!Places]
    /\ held \in [Threads -> Conns \cup {NoConn}]
    /\ \A t \in Threads : pc[t] = "borrowed" <=> held[t] # NoConn
    /\ \A t, u \in Threads : held[t] = held[u] /\ held[t] # NoConn => t = u

LEMMA PoolLent == Proved!IInv => Lent
  BY DEF Proved!IInv, Proved!TypeOK, Proved!ConnectionsExclusive, Lent

\* The others keep what they hold; a notify wakes the ones that wait.
OthersKeep(t) ==
    \A u \in Threads \ {t} :
        /\ held'[u] = held[u]
        /\ pc'[u] = "borrowed" <=> pc[u] = "borrowed"

LEMMA MovesOne ==
    ASSUME Lent, NEW t \in Threads, NEW p, NEW n
    PROVE  /\ Pool!MoveAndNotify(t, p, n)[t] = p
           /\ \A u \in Threads \ {t} :
                Pool!MoveAndNotify(t, p, n)[u] = "borrowed" <=> pc[u] = "borrowed"
  BY DEF Pool!MoveAndNotify

LEMMA AcquireMoves ==
    ASSUME Lent, NEW t \in Threads,
           \/ Pool!Call(t) \/ Pool!GiveUp(t) \/ Pool!Reserve(t) \/ Pool!Block(t)
           \/ Pool!WaitTimesOut(t) \/ Pool!ResumeExpired(t) \/ Pool!DialFails(t)
           \/ Pool!FreeSlot(t)
    PROVE  OthersKeep(t) /\ pc[t] # "borrowed" /\ pc'[t] # "borrowed" /\ held' = held
  <1>1. CASE Pool!Reserve(t) \/ Pool!FreeSlot(t)
    BY <1>1, MovesOne DEF Pool!Reserve, Pool!FreeSlot, Pool!AtLoopHead, OthersKeep
  <1>2. CASE \/ Pool!Call(t) \/ Pool!GiveUp(t) \/ Pool!Block(t) \/ Pool!WaitTimesOut(t)
             \/ Pool!ResumeExpired(t) \/ Pool!DialFails(t)
    BY <1>2 DEF Pool!Call, Pool!GiveUp, Pool!Block, Pool!WaitTimesOut, Pool!ResumeExpired,
                Pool!DialFails, Pool!AtLoopHead, Lent, OthersKeep
  <1> QED
    BY <1>1, <1>2

LEMMA BorrowMoves ==
    ASSUME Lent, NEW t \in Threads, Pool!TakeWarm(t) \/ Pool!DialOk(t)
    PROVE  OthersKeep(t) /\ pc[t] # "borrowed" /\ pc'[t] = "borrowed"
  <1>1. CASE Pool!TakeWarm(t)
    <2>1. PICK n : pc' = Pool!MoveAndNotify(t, "borrowed", n)
      BY <1>1 DEF Pool!TakeWarm
    <2>2. pc[t] # "borrowed" /\ \A u \in Threads \ {t} : held'[u] = held[u]
      BY <1>1 DEF Pool!TakeWarm, Pool!AtLoopHead, Lent
    <2> QED
      BY <2>1, <2>2, MovesOne DEF OthersKeep
  <1>2. CASE Pool!DialOk(t)
    BY <1>2 DEF Pool!DialOk, Lent, OthersKeep
  <1> QED
    BY <1>1, <1>2

LEMMA HandBackMoves ==
    ASSUME Lent, NEW t \in Threads, Pool!Release(t) \/ Pool!Discard(t)
    PROVE  OthersKeep(t) /\ pc[t] = "borrowed" /\ pc'[t] # "borrowed"
  <1>1. CASE Pool!Release(t)
    <2>1. pc' = Pool!MoveAndNotify(t, "out", 1) /\ pc[t] = "borrowed"
          /\ \A u \in Threads \ {t} : held'[u] = held[u]
      BY <1>1 DEF Pool!Release, Lent
    <2> QED
      BY <2>1, MovesOne DEF OthersKeep
  <1>2. CASE Pool!Discard(t)
    BY <1>2 DEF Pool!Discard, Lent, OthersKeep
  <1> QED
    BY <1>1, <1>2

LEMMA CloseMoves ==
    ASSUME Lent, Pool!Close
    PROVE  held' = held /\ \A u \in Threads : pc'[u] = "borrowed" <=> pc[u] = "borrowed"
  BY DEF Pool!Close, Lent

-----------------------------------------------------------------------------
(* The steps of a request                                                  *)

\* Nothing is on the connection of a request that is not reading.
LEMMA WireEmpty ==
    ASSUME Lent, RequestInv, NEW t \in Threads, stage[t] \in {"send", "settle"}
    PROVE  held[t] \in Conns /\ wire[held[t]] = << >>
  <1>1. held[t] \in Conns /\ held[t] # NoConn
    BY DEF Lent, RequestInv, HeldInFlight, InFlight
  <1> QED
    BY <1>1 DEF Lent, RequestInv, OnlyOwn

\* A step that leaves the wires alone, of a thread that neither was reading
\* nor reads now.
LEMMA WiresAside ==
    ASSUME Lent, RequestInv, NEW t \in Threads, NEW s, OthersKeep(t), wire' = wire,
           stage' = [stage EXCEPT ![t] = s], stage[t] # "read", s # "read",
           s \in InFlight <=> pc'[t] = "borrowed"
    PROVE  HeldInFlight' /\ OnlyOwn' /\ OwnResponse'
  <1>1. stage'[t] = s /\ \A u \in Threads \ {t} : stage'[u] = stage[u] /\ held'[u] = held[u]
    BY DEF RequestInv, RequestTyped, OthersKeep
  <1>2. HeldInFlight'
    BY <1>1 DEF RequestInv, HeldInFlight, OthersKeep, InFlight
  <1>3. OnlyOwn'
    <2> SUFFICES ASSUME NEW c \in Conns, wire[c] # << >>
                 PROVE  \E u \in Threads : stage'[u] = "read" /\ held'[u] = c
      BY DEF OnlyOwn
    <2>1. PICK u \in Threads : stage[u] = "read" /\ held[u] = c
      BY DEF RequestInv, OnlyOwn
    <2> QED
      BY <1>1, <2>1
  <1>4. OwnResponse'
    BY <1>1 DEF RequestInv, OwnResponse
  <1> QED
    BY <1>2, <1>3, <1>4

\* request() asks the pool for a connection, and gets one, waits or fails.
LEMMA BorrowingInv ==
    ASSUME Lent, RequestInv, NEW t \in Threads,
           Begin(t) \/ Acquiring(t) \/ Acquired(t) \/ AcquireFails(t) \/ Again(t)
    PROVE  RequestInv'
  <1> USE DEF RequestInv
  <1>1. CASE Begin(t)
    <2>1. PICK s \in [idempotent : BOOLEAN, body : Bodies] : spec' = [spec EXCEPT ![t] = s]
      BY <1>1 DEF Begin
    <2>2. OthersKeep(t) /\ pc'[t] # "borrowed"
      BY <1>1, AcquireMoves DEF Begin
    <2>3. HeldInFlight' /\ OnlyOwn' /\ OwnResponse'
      BY <1>1, <2>2, WiresAside DEF Begin, InFlight
    <2>4. RequestTyped'
      BY <1>1, <2>1 DEF Begin, RequestTyped
    <2>5. Unexecuted' /\ NonIdempotentOnce' /\ FromStart'
      BY <1>1, <2>1 DEF Begin, RequestTyped, Unexecuted, NonIdempotentOnce, FromStart
    <2> QED
      BY <2>3, <2>4, <2>5
  <1>2. CASE Acquiring(t)
    <2>1. OthersKeep(t) /\ pc'[t] # "borrowed" /\ UNCHANGED requestVars
      BY <1>2, AcquireMoves DEF Acquiring
    <2>2. stage' = [stage EXCEPT ![t] = "acquire"]
      BY <1>2 DEF Acquiring, requestVars, RequestTyped
    <2>3. HeldInFlight' /\ OnlyOwn' /\ OwnResponse'
      BY <1>2, <2>1, <2>2, WiresAside DEF Acquiring, InFlight, requestVars
    <2> QED
      BY <2>1, <2>3 DEF requestVars, RequestTyped, Unexecuted, NonIdempotentOnce, FromStart
  <1>3. CASE Acquired(t)
    <2>1. OthersKeep(t) /\ pc'[t] = "borrowed"
      BY <1>3, BorrowMoves DEF Acquired
    <2>2. HeldInFlight' /\ OnlyOwn' /\ OwnResponse'
      BY <1>3, <2>1, WiresAside DEF Acquired, InFlight
    <2>3. RequestTyped'
      BY <1>3 DEF Acquired, RequestTyped, InFlight
    <2>4. Unexecuted' /\ NonIdempotentOnce' /\ FromStart'
      BY <1>3 DEF Acquired, RequestTyped, Unexecuted, NonIdempotentOnce, FromStart
    <2> QED
      BY <2>2, <2>3, <2>4
  <1>4. CASE AcquireFails(t)
    <2>1. OthersKeep(t) /\ pc'[t] # "borrowed"
      BY <1>4, AcquireMoves DEF AcquireFails
    <2>2. HeldInFlight' /\ OnlyOwn' /\ OwnResponse'
      BY <1>4, <2>1, WiresAside DEF AcquireFails, InFlight
    <2>3. RequestTyped'
      BY <1>4 DEF AcquireFails, RequestTyped, InFlight
    <2>4. Unexecuted' /\ NonIdempotentOnce' /\ FromStart'
      BY <1>4 DEF AcquireFails, RequestTyped, Unexecuted, NonIdempotentOnce, FromStart
    <2> QED
      BY <2>2, <2>3, <2>4
  <1>5. CASE Again(t)
    <2>1. OthersKeep(t) /\ pc'[t] # "borrowed"
      BY <1>5, AcquireMoves DEF Again
    <2>2. HeldInFlight' /\ OnlyOwn' /\ OwnResponse'
      BY <1>5, <2>1, WiresAside DEF Again, InFlight
    <2>3. RequestTyped'
      BY <1>5 DEF Again, RequestTyped, InFlight, Rewound
    <2>4. spec[t].idempotent
      BY <1>5 DEF Again, Unexecuted
    <2>5. /\ stage'[t] = "acquire" /\ at'[t] = "start" /\ verdict'[t] = "none"
          /\ spec' = spec /\ executed' = executed
          /\ \A u \in Threads \ {t} :
                stage'[u] = stage[u] /\ at'[u] = at[u] /\ verdict'[u] = verdict[u]
      BY <1>5 DEF Again, Rewound, RequestTyped
    <2>6. FromStart'
      BY <2>5 DEF FromStart
    <2>7. NonIdempotentOnce'
      BY <2>5 DEF NonIdempotentOnce
    <2>8. Unexecuted'
      BY <2>4, <2>5, Zenon DEF Unexecuted
    <2> QED
      BY <2>2, <2>3, <2>6, <2>7, <2>8
  <1> QED
    BY <1>1, <1>2, <1>3, <1>4, <1>5

\* What discarding the connection leaves, in the words of the finally clauses.
LEMMA BrokenWires ==
    ASSUME Lent, RequestInv, NEW t \in Threads, NEW v, HandBackBroken(t, v),
           stage[t] \in InFlight
    PROVE  HeldInFlight' /\ OnlyOwn' /\ OwnResponse' /\ wire' \in [Conns -> Seq(Threads)]
  <1> USE DEF RequestInv
  <1>1. OthersKeep(t) /\ pc[t] = "borrowed" /\ pc'[t] # "borrowed"
    BY HandBackMoves DEF HandBackBroken
  <1>2. held[t] \in Conns /\ held[t] # NoConn
    BY <1>1 DEF Lent
  <1>3. /\ stage'[t] = "end" /\ \A u \in Threads \ {t} : stage'[u] = stage[u] /\ held'[u] = held[u]
        /\ wire'[held[t]] = << >> /\ \A c \in Conns \ {held[t]} : wire'[c] = wire[c]
    BY <1>1, <1>2 DEF HandBackBroken, RequestTyped, OthersKeep
  <1>4. HeldInFlight'
    BY <1>1, <1>3 DEF HeldInFlight, OthersKeep, InFlight
  <1>5. OnlyOwn'
    <2> SUFFICES ASSUME NEW c \in Conns, wire'[c] # << >>
                 PROVE  \E u \in Threads : stage'[u] = "read" /\ held'[u] = c
      BY DEF OnlyOwn
    <2>1. c # held[t] /\ wire[c] # << >>
      BY <1>3
    <2>2. PICK u \in Threads : stage[u] = "read" /\ held[u] = c
      BY <2>1 DEF OnlyOwn
    <2> QED
      BY <1>3, <2>1, <2>2
  <1>6. OwnResponse'
    <2> SUFFICES ASSUME NEW u \in Threads, stage'[u] = "read"
                 PROVE  wire'[held'[u]] = << u >>
      BY DEF OwnResponse
    <2>1. u # t /\ stage[u] = "read" /\ held'[u] = held[u]
      BY <1>3
    <2>2. held[u] \in Conns /\ held[u] # held[t]
      BY <1>2, <2>1 DEF Lent, HeldInFlight, InFlight
    <2> QED
      BY <1>3, <2>1, <2>2 DEF OwnResponse
  <1>7. wire' \in [Conns -> Seq(Threads)]
    BY <1>2 DEF HandBackBroken, RequestTyped
  <1> QED
    BY <1>4, <1>5, <1>6, <1>7

LEMMA BrokenInv ==
    ASSUME Lent, RequestInv, NEW t \in Threads, DeadlineDue(t) \/ SendFails(t) \/ ReadFails(t)
    PROVE  RequestInv'
  <1> USE DEF RequestInv
  <1>1. CASE DeadlineDue(t) \/ ReadFails(t)
    <2>1. PICK v \in {"connection", "status"} : HandBackBroken(t, v)
      BY <1>1 DEF DeadlineDue, ReadFails
    <2>2. /\ stage[t] \in {"send", "read"}
          /\ UNCHANGED << spec, at, executed >>
      BY <1>1 DEF DeadlineDue, ReadFails
    <2>3. HeldInFlight' /\ OnlyOwn' /\ OwnResponse' /\ wire' \in [Conns -> Seq(Threads)]
      BY <2>1, <2>2, BrokenWires DEF InFlight
    <2>4. RequestTyped'
      BY <2>1, <2>2, <2>3 DEF RequestTyped, HandBackBroken, InFlight
    <2>5. Unexecuted' /\ NonIdempotentOnce' /\ FromStart'
      BY <2>1, <2>2 DEF RequestTyped, HandBackBroken, Unexecuted, NonIdempotentOnce, FromStart
    <2> QED
      BY <2>3, <2>4, <2>5
  <1>2. CASE SendFails(t)
    <2>1. PICK error \in {"stale", "other"}, ran \in 0 .. 1, moved \in {"start", "moved"} :
            /\ HandBackBroken(t, AfterSendError(t, error))
            /\ executed' = [executed EXCEPT ![t] = @ + ran]
            /\ at' = [at EXCEPT ![t] = IF spec[t].body = "none" THEN "start" ELSE moved]
      BY <1>2 DEF SendFails
    <2>2. stage[t] = "send" /\ spec' = spec
      BY <1>2 DEF SendFails
    <2>3. HeldInFlight' /\ OnlyOwn' /\ OwnResponse' /\ wire' \in [Conns -> Seq(Threads)]
      BY <2>1, <2>2, BrokenWires DEF InFlight
    <2>4. /\ AfterSendError(t, error) \in {"connection", "value", "again"}
          /\ AfterSendError(t, error) = "again" => spec[t].idempotent
      BY DEF AfterSendError, MayResend
    <2>5. executed' \in [Threads -> Nat]
      BY <2>1 DEF RequestTyped
    <2>6. RequestTyped'
      BY <2>1, <2>2, <2>3, <2>4, <2>5 DEF RequestTyped, HandBackBroken, InFlight
    <2>7. NonIdempotentOnce'
      <3>1. ~ spec[t].idempotent => executed[t] = 0
        BY <2>2 DEF Unexecuted
      <3>2. executed'[t] = executed[t] + ran /\ \A u \in Threads \ {t} : executed'[u] = executed[u]
        BY <2>1 DEF RequestTyped
      <3> QED
        BY <2>2, <3>1, <3>2 DEF NonIdempotentOnce
    <2>8. Unexecuted' /\ FromStart'
      BY <2>1, <2>2, <2>4 DEF RequestTyped, HandBackBroken, Unexecuted, FromStart
    <2> QED
      BY <2>3, <2>6, <2>7, <2>8
  <1> QED
    BY <1>1, <1>2

\* The response of the request is the only one on its connection.
LEMMA SendOkInv ==
    ASSUME Lent, RequestInv, NEW t \in Threads, SendOk(t)
    PROVE  RequestInv'
  <1> USE DEF RequestInv
  <1>1. stage[t] = "send" /\ UNCHANGED << pc, held, spec, verdict >>
    BY DEF SendOk, poolVars
  <1>2. held[t] \in Conns /\ wire[held[t]] = << >>
    BY <1>1, WireEmpty
  <1>3. /\ stage'[t] = "read" /\ \A u \in Threads \ {t} : stage'[u] = stage[u]
        /\ wire'[held[t]] = << t >> /\ \A c \in Conns \ {held[t]} : wire'[c] = wire[c]
        /\ wire' \in [Conns -> Seq(Threads)]
    BY <1>2 DEF SendOk, RequestTyped
  <1>4. HeldInFlight'
    BY <1>1, <1>3 DEF HeldInFlight, InFlight
  <1>5. OnlyOwn'
    BY <1>1, <1>3 DEF OnlyOwn
  <1>6. OwnResponse'
    <2> SUFFICES ASSUME NEW u \in Threads, stage'[u] = "read"
                 PROVE  wire'[held[u]] = << u >>
      BY <1>1 DEF OwnResponse
    <2>1. CASE u = t
      BY <1>3, <2>1
    <2>2. CASE u # t
      <3>1. stage[u] = "read" /\ held[u] \in Conns /\ held[u] # held[t]
        BY <1>1, <1>3, <2>2 DEF Lent, HeldInFlight, InFlight
      <3> QED
        BY <1>3, <3>1 DEF OwnResponse
    <2> QED
      BY <2>1, <2>2
  <1>7. /\ executed'[t] = executed[t] + 1 /\ \A u \in Threads \ {t} : executed'[u] = executed[u]
        /\ executed' \in [Threads -> Nat]
    BY DEF SendOk, RequestTyped
  <1>8. NonIdempotentOnce'
    <2>1. ~ spec[t].idempotent => executed[t] = 0
      BY <1>1 DEF Unexecuted
    <2> QED
      BY <1>1, <1>7, <2>1 DEF NonIdempotentOnce
  <1>9. RequestTyped'
    BY <1>1, <1>3, <1>7 DEF SendOk, RequestTyped, InFlight
  <1>10. Unexecuted' /\ FromStart'
    BY <1>1, <1>3, <1>7 DEF SendOk, RequestTyped, Unexecuted, FromStart
  <1> QED
    BY <1>4, <1>5, <1>6, <1>8, <1>9, <1>10

\* Reading the whole body leaves the connection clean for the next borrower.
LEMMA ReadOkInv ==
    ASSUME Lent, RequestInv, NEW t \in Threads, ReadOk(t)
    PROVE  RequestInv'
  <1> USE DEF RequestInv
  <1>1. stage[t] = "read" /\ UNCHANGED << pc, held, spec, at, executed >>
    BY DEF ReadOk, poolVars
  <1>2. held[t] \in Conns /\ held[t] # NoConn /\ wire[held[t]] = << t >>
    BY <1>1 DEF OwnResponse, Lent, HeldInFlight, InFlight
  <1>3. /\ stage'[t] = "settle" /\ \A u \in Threads \ {t} : stage'[u] = stage[u]
        /\ wire'[held[t]] = << >> /\ \A c \in Conns \ {held[t]} : wire'[c] = wire[c]
        /\ wire' \in [Conns -> Seq(Threads)]
    BY <1>2 DEF ReadOk, RequestTyped
  <1>4. HeldInFlight'
    BY <1>1, <1>3 DEF HeldInFlight, InFlight
  <1>5. OnlyOwn'
    <2> SUFFICES ASSUME NEW c \in Conns, wire'[c] # << >>
                 PROVE  \E u \in Threads : stage'[u] = "read" /\ held[u] = c
      BY <1>1 DEF OnlyOwn
    <2>1. c # held[t] /\ wire[c] # << >>
      BY <1>3
    <2>2. PICK u \in Threads : stage[u] = "read" /\ held[u] = c
      BY <2>1 DEF OnlyOwn
    <2> QED
      BY <1>3, <2>1, <2>2
  <1>6. OwnResponse'
    <2> SUFFICES ASSUME NEW u \in Threads, stage'[u] = "read"
                 PROVE  wire'[held[u]] = << u >>
      BY <1>1 DEF OwnResponse
    <2>1. u # t /\ stage[u] = "read" /\ held[u] \in Conns /\ held[u] # held[t]
      BY <1>2, <1>3 DEF Lent, HeldInFlight, InFlight
    <2> QED
      BY <1>3, <2>1 DEF OwnResponse
  <1>7. RequestTyped'
    BY <1>1, <1>3 DEF ReadOk, RequestTyped, InFlight
  <1>8. Unexecuted' /\ FromStart' /\ NonIdempotentOnce'
    BY <1>1, <1>3 DEF ReadOk, RequestTyped, Unexecuted, FromStart, NonIdempotentOnce
  <1> QED
    BY <1>4, <1>5, <1>6, <1>7, <1>8

LEMMA EndingInv ==
    ASSUME Lent, RequestInv, NEW t \in Threads, Settle(t) \/ SlotFreed(t) \/ Finish(t)
    PROVE  RequestInv'
  <1> USE DEF RequestInv
  <1>1. CASE Settle(t)
    <2>1. OthersKeep(t) /\ pc'[t] # "borrowed"
      BY <1>1, HandBackMoves DEF Settle
    <2>2. HeldInFlight' /\ OnlyOwn' /\ OwnResponse'
      BY <1>1, <2>1, WiresAside DEF Settle, InFlight
    <2> QED
      BY <1>1, <2>2 DEF Settle, RequestTyped, InFlight, Unexecuted, NonIdempotentOnce, FromStart
  <1>2. CASE SlotFreed(t)
    <2>1. OthersKeep(t) /\ pc[t] # "borrowed" /\ pc'[t] # "borrowed" /\ UNCHANGED requestVars
      BY <1>2, AcquireMoves DEF SlotFreed
    <2>2. stage[t] \notin InFlight /\ stage' = [stage EXCEPT ![t] = stage[t]]
      BY <2>1 DEF HeldInFlight, RequestTyped, requestVars
    <2>3. HeldInFlight' /\ OnlyOwn' /\ OwnResponse'
      BY <2>1, <2>2, WiresAside DEF InFlight, requestVars
    <2> QED
      BY <2>1, <2>3 DEF requestVars, RequestTyped, Unexecuted, NonIdempotentOnce, FromStart
  <1>3. CASE Finish(t)
    <2>1. OthersKeep(t) /\ pc'[t] # "borrowed"
      BY <1>3 DEF Finish, HandedBack, poolVars, OthersKeep
    <2>2. HeldInFlight' /\ OnlyOwn' /\ OwnResponse'
      BY <1>3, <2>1, WiresAside DEF Finish, InFlight
    <2>3. RequestTyped'
      BY <1>3 DEF Finish, RequestTyped, InFlight, NoSpec
    <2>4. Unexecuted' /\ NonIdempotentOnce' /\ FromStart'
      BY <1>3 DEF Finish, RequestTyped, NoSpec, Unexecuted, NonIdempotentOnce, FromStart
    <2> QED
      BY <2>2, <2>3, <2>4
  <1> QED
    BY <1>1, <1>2, <1>3

\* The owner closes the client, a deadline elapses, the server drops a
\* connection: nobody's response moves.
LEMMA OutsideInv ==
    ASSUME Lent, RequestInv, CloseClient \/ Environment \/ UNCHANGED vars
    PROVE  RequestInv'
  <1>1. UNCHANGED requestVars
    BY DEF CloseClient, Environment, vars
  <1>2. held' = held /\ \A t \in Threads : pc'[t] = "borrowed" <=> pc[t] = "borrowed"
    <2>1. CASE CloseClient
      BY <2>1, CloseMoves DEF CloseClient
    <2>2. CASE Environment \/ UNCHANGED vars
      BY <2>2 DEF Environment, Pool!DeadlineElapses, Pool!ServerCloses, vars, poolVars
    <2> QED
      BY <2>1, <2>2
  <1> QED
    BY <1>1, <1>2 DEF requestVars, RequestInv, RequestTyped, HeldInFlight, OnlyOwn, OwnResponse,
                      Unexecuted, NonIdempotentOnce, FromStart

-----------------------------------------------------------------------------
(* The theorems                                                            *)

\* request() of the http.client adapter keeps its requests, its connections
\* and the responses on them straight in every reachable state.
THEOREM RequestsInvariant == Spec => []RequestInv
  <1>1. Init => RequestInv
    <2>1. \A t \in Threads : NoSpec \in [idempotent : BOOLEAN, body : Bodies \cup {"none"}]
      BY DEF NoSpec
    <2> QED
      BY <2>1 DEF Init, Pool!Init, RequestInv, RequestTyped, HeldInFlight, InFlight, OnlyOwn,
                  OwnResponse, Unexecuted, NonIdempotentOnce, FromStart
  <1>2. Proved!IInv /\ RequestInv /\ [Next]_vars => RequestInv'
    BY PoolLent, BorrowingInv, BrokenInv, SendOkInv, ReadOkInv, EndingInv, OutsideInv
       DEF Next, Step
  <1> QED
    BY <1>1, <1>2, RequestsPoolInvariant, PTL DEF Spec

\* MayResend and where the loop may send again: whatever stage the failure
\* hits, request() never makes the server execute a request that is not
\* idempotent twice.
THEOREM RequestsNonIdempotentOnce == Spec => []NonIdempotentOnce
  <1>1. RequestInv => NonIdempotentOnce
    BY DEF RequestInv
  <1> QED
    BY <1>1, RequestsInvariant, PTL

\* A connection goes back to the pool only when its response was read to the
\* end, and is closed otherwise: the response a thread reads is its own, with
\* nothing an earlier borrower left in front of it.
THEOREM RequestsOwnResponse == Spec => []OwnResponse
  <1>1. RequestInv => OwnResponse
    BY DEF RequestInv
  <1> QED
    BY <1>1, RequestsInvariant, PTL

\* rewind_body before each resend: every send starts where the first one did.
THEOREM RequestsSendWholeBody == Spec => []SendsWholeBody
  <1>1. RequestInv => SendsWholeBody
    BY DEF RequestInv, FromStart, SendsWholeBody
  <1> QED
    BY <1>1, RequestsInvariant, PTL

=============================================================================
