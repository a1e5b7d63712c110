------------------------ MODULE ConnectionPoolProofs ------------------------
(***************************************************************************)
(* Proofs about ConnectionPool for every number of threads, connections    *)
(* and slots.  The inductive invariant joins the type, the exact slot      *)
(* count and the exclusive ownership of connections: the count needs the   *)
(* type of pc and created, and a connection put back in the deque is new   *)
(* there only because it was held by one thread and not idle.              *)
(*                                                                         *)
(* The second part proves that the pool loses no wakeup while no deadline  *)
(* passes: a thread waits only while every idle connection and free slot   *)
(* has a woken claimant.  The run pool_lost_wakeup shows that a deadline   *)
(* breaks it.  Capacity and woken threads are compared as numbers; a       *)
(* notify moves one thread from the queue to the woken, which takes that   *)
(* every entry of the queue is a thread that still waits, and is there     *)
(* once.                                                                   *)
(*                                                                         *)
(* The third part proves that the pool implements ConnectionLease and      *)
(* keeps its live connections under the cap.  Both count what is idle,     *)
(* lent or reserved: the exact slot counter bounds the three sets          *)
(* together.                                                               *)
(***************************************************************************)
EXTENDS ConnectionPool, FiniteSetTheorems, SequenceTheorems, TLAPS

IInv == TypeOK /\ SlotsAccounted /\ ConnectionsExclusive

Owning == {"dialing", "failed", "borrowed", "closed"}

-----------------------------------------------------------------------------
(* Sequences and the condition variable                                    *)

\* Dropping the head of a queue leaves a queue of the same elements.
LEMMA SuffixType ==
    ASSUME NEW S, NEW s \in Seq(S), NEW n \in Nat
    PROVE  Suffix(s, n) \in Seq(S)
BY SubSeqProperties DEF Suffix

\* A waiter that leaves the queue leaves the others in it.
LEMMA WithoutType ==
    ASSUME NEW S, NEW s \in Seq(S), NEW t
    PROVE  Without(s, t) \in Seq(S)
<1>1. CASE \E i \in DOMAIN s : s[i] = t
  <2> DEFINE i == CHOOSE i \in DOMAIN s : s[i] = t
  <2>1. i \in 1 .. Len(s) BY <1>1
  <2>2. SubSeq(s, 1, i - 1) \in Seq(S)
    <3>1. \A j \in 1 .. (i - 1) : s[j] \in S BY <2>1
    <3> HIDE DEF i
    <3> QED BY <2>1, <3>1, SubSeqProperties
  <2>3. Suffix(s, i) \in Seq(S) BY <2>1, SuffixType
  <2> HIDE DEF i
  <2>4. SubSeq(s, 1, i - 1) \o Suffix(s, i) \in Seq(S) BY <2>2, <2>3
  <2> QED BY <1>1, <2>4 DEF Without, i
<1>2. CASE ~ \E i \in DOMAIN s : s[i] = t
  BY <1>2 DEF Without
<1> QED BY <1>1, <1>2

\* A notify moves waiting threads only, so it changes the owners of slots by
\* at most the thread that does it.
LEMMA MoveProperties ==
    ASSUME TypeOK, NEW t \in Threads, NEW p \in Places, NEW n
    PROVE  /\ MoveAndNotify(t, p, n) \in [Threads -> Places]
           /\ MoveAndNotify(t, p, n)[t] = p
           /\ \A u \in Threads \ {t} :
                \/ MoveAndNotify(t, p, n)[u] = pc[u]
                \/ pc[u] = "waiting" /\ MoveAndNotify(t, p, n)[u] = "woken"
BY Zenon DEF TypeOK, MoveAndNotify, Places

\* The number of owners after thread t moves and the others at most wake.
LEMMA OwnersCount ==
    ASSUME TypeOK, NEW t \in Threads,
           \A u \in Threads \ {t} :
                pc'[u] = pc[u] \/ (pc[u] = "waiting" /\ pc'[u] = "woken")
    PROVE  /\ IsFiniteSet(Owners) /\ Cardinality(Owners) \in Nat
           /\ Cardinality(Owners') =
                Cardinality(Owners)
                + (IF pc'[t] \in Owning /\ pc[t] \notin Owning THEN 1 ELSE 0)
                - (IF pc[t] \in Owning /\ pc'[t] \notin Owning THEN 1 ELSE 0)
<1>1. IsFiniteSet(Owners) BY FS_Subset, ThreadsAssumption DEF Owners
<1>2. Cardinality(Owners) \in Nat BY <1>1, FS_CardinalityType
<1>3. CASE pc'[t] \in Owning /\ pc[t] \notin Owning
  <2>1. Owners' = Owners \cup {t} /\ t \notin Owners
    BY <1>3 DEF Owners, Owning
  <2>2. Cardinality(Owners') = Cardinality(Owners) + 1
    BY <1>1, <2>1, FS_AddElement, Zenon
  <2> QED BY <1>1, <1>2, <1>3, <2>2
<1>4. CASE pc[t] \in Owning /\ pc'[t] \notin Owning
  <2>1. Owners' = Owners \ {t} /\ t \in Owners
    BY <1>4 DEF Owners, Owning
  <2>2. Cardinality(Owners') = Cardinality(Owners) - 1
    BY <1>1, <2>1, FS_RemoveElement, Zenon
  <2> QED BY <1>1, <1>2, <1>4, <2>2
<1>5. CASE pc[t] \in Owning <=> pc'[t] \in Owning
  <2>1. Owners' = Owners BY <1>5 DEF Owners, Owning
  <2> QED BY <1>1, <1>2, <1>5, <2>1
<1> QED BY <1>1, <1>2, <1>3, <1>4, <1>5

-----------------------------------------------------------------------------
(* One lemma per action that touches the pool                              *)

\* The count when connection k of l is taken, and the warmer ones are dropped.
LEMMA CountAfterPop ==
    ASSUME NEW count \in Nat, NEW owners \in Nat, NEW l \in Nat, NEW k \in Nat,
           k <= l, count = l + owners, count <= MaxSize
    PROVE  /\ count - l + k = (k - 1) + (owners + 1)
           /\ count - l + k <= MaxSize
BY MaxSizeAssumption

\* Popping a warm connection keeps the invariant: the ones dropped on the
\* way are uncounted, and the one taken leaves the deque for its borrower.
LEMMA TakeWarmInv ==
    ASSUME IInv, NEW t \in Threads, TakeWarm(t)
    PROVE  IInv'
<1> USE DEF IInv
<1>1. PICK k \in 1 .. Len(idle) :
        LET n == Len(idle) - k IN
        /\ WarmestAlive(k)
        /\ idle' = SubSeq(idle, 1, k - 1)
        /\ created' = created - n
        /\ health' = ClosedAfter(k)
        /\ pc' = MoveAndNotify(t, "borrowed", n)
        /\ waiters' = Suffix(waiters, n)
        /\ held' = [held EXCEPT ![t] = idle[k]]
  BY DEF TakeWarm, Rest
<1> DEFINE n == Len(idle) - k
<1>2. idle \in Seq(Conns) /\ k \in 1 .. Len(idle) /\ n \in Nat /\ Len(idle) \in Nat
  BY DEF TypeOK
<1>3. /\ idle' \in Seq(Conns) /\ Len(idle') = k - 1
      /\ \A i \in DOMAIN idle' : i \in 1 .. (k - 1) /\ idle'[i] = idle[i]
  BY <1>1, <1>2
<1>4. /\ pc' \in [Threads -> Places] /\ pc'[t] = "borrowed"
      /\ \A u \in Threads \ {t} :
            pc'[u] = pc[u] \/ (pc[u] = "waiting" /\ pc'[u] = "woken")
  BY <1>1, MoveProperties DEF Places
<1>5. pc[t] \in {"enter", "woken"} /\ held[t] = NoConn
  BY DEF TakeWarm, AtLoopHead, ConnectionsExclusive
<1>6. Cardinality(Owners) \in Nat /\ Cardinality(Owners') = Cardinality(Owners) + 1
  BY <1>4, <1>5, OwnersCount DEF Owning
<1>7. SlotsAccounted'
  <2>1. created' = created - Len(idle) + k BY <1>1, <1>2 DEF TypeOK
  <2>2. created = Len(idle) + Cardinality(Owners) /\ created <= MaxSize
    BY DEF SlotsAccounted
  <2>3. created \in Nat /\ MaxSize \in Nat BY MaxSizeAssumption DEF TypeOK
  <2>4. Len(idle) \in Nat /\ k \in Nat /\ k <= Len(idle)
    BY <1>2
  <2>5. created' = Len(idle') + Cardinality(Owners') /\ created' <= MaxSize
    <3>1. /\ created - Len(idle) + k = (k - 1) + (Cardinality(Owners) + 1)
          /\ created - Len(idle) + k <= MaxSize
      BY <1>6, <2>2, <2>3, <2>4, CountAfterPop
    <3> QED BY <1>3, <1>6, <2>1, <3>1, Zenon
  <2> QED BY <2>5 DEF SlotsAccounted
<1>8. TypeOK'
  <2>1. waiters' \in Seq(Threads) BY <1>1, <1>2, SuffixType DEF TypeOK
  <2>2. created' \in Nat BY <1>3, <1>2, <1>6, <1>7 DEF SlotsAccounted
  <2>3. held' \in [Threads -> Conns \cup {NoConn}] BY <1>1, <1>2 DEF TypeOK
  <2>4. health' \in [Conns -> {"none", "open", "stale"}]
    BY <1>1 DEF TypeOK, ClosedAfter
  <2>5. reused' \in [Threads -> BOOLEAN] /\ late' = late BY DEF TakeWarm, TypeOK
  <2> QED BY <1>3, <1>4, <2>1, <2>2, <2>3, <2>4, <2>5 DEF TypeOK
<1>9. ConnectionsExclusive'
  <2>1. idle[k] \in Conns /\ idle[k] # NoConn BY <1>2, ConnsAssumption
  <2>2. held' \in [Threads -> Conns \cup {NoConn}] /\ held'[t] = idle[k]
        /\ \A u \in Threads \ {t} : held'[u] = held[u]
    BY <1>1, <1>2 DEF TypeOK
  <2>3. \A c \in Conns : health'[c] = IF \E i \in (k + 1) .. Len(idle) : idle[i] = c
                                       THEN "none" ELSE health[c]
    BY <1>1 DEF ClosedAfter
  <2>4. \A i, j \in DOMAIN idle : idle[i] = idle[j] => i = j
    BY DEF ConnectionsExclusive
  <2>5. \A i, j \in DOMAIN idle' : idle'[i] = idle'[j] => i = j
    BY <1>2, <1>3, <2>4
  <2>6. \A u \in Threads, i \in DOMAIN idle' : held'[u] # idle'[i]
    <3> SUFFICES ASSUME NEW u \in Threads, NEW i \in DOMAIN idle' PROVE held'[u] # idle'[i]
      OBVIOUS
    <3>1. i \in DOMAIN idle /\ i < k /\ idle'[i] = idle[i]
      BY <1>2, <1>3
    <3>2. CASE u = t
      BY <1>2, <2>2, <2>4, <3>1, <3>2
    <3>3. CASE u # t
      BY <2>2, <3>1, <3>3 DEF ConnectionsExclusive
    <3> QED BY <3>2, <3>3
  <2>7. \A u, v \in Threads : held'[u] = held'[v] /\ held'[u] # NoConn => u = v
    BY <1>2, <2>2 DEF ConnectionsExclusive
  <2>8. \A u \in Threads : pc'[u] = "borrowed" <=> held'[u] # NoConn
    BY <1>4, <1>5, <2>1, <2>2 DEF ConnectionsExclusive
  <2>9. \A i \in DOMAIN idle' : health'[idle'[i]] # "none"
    <3> SUFFICES ASSUME NEW i \in DOMAIN idle' PROVE health'[idle'[i]] # "none"
      OBVIOUS
    <3>1. i \in DOMAIN idle /\ i \in 1 .. (k - 1) /\ idle'[i] = idle[i] /\ idle[i] \in Conns
      BY <1>2, <1>3
    <3>2. ~ \E j \in (k + 1) .. Len(idle) : idle[j] = idle[i]
      BY <1>2, <2>4, <3>1
    <3>3. health[idle[i]] # "none"
      BY <3>1 DEF ConnectionsExclusive
    <3> QED BY <2>3, <3>1, <3>2, <3>3
  <2>10. health[idle[k]] # "none" BY <1>2 DEF ConnectionsExclusive
  <2>11. \A u \in Threads : held'[u] # NoConn => health'[held'[u]] # "none"
    <3>0. ~ \E j \in (k + 1) .. Len(idle) : idle[j] = idle[k]
      BY <1>2, <2>4
    <3>1. health'[idle[k]] # "none" BY <2>1, <2>3, <2>10, <3>0
    <3>2. ASSUME NEW u \in Threads \ {t}, held[u] # NoConn
          PROVE  health'[held[u]] # "none"
      <4>1. held[u] \in Conns /\ health[held[u]] # "none"
        BY <3>2 DEF TypeOK, ConnectionsExclusive
      <4>2. \A i \in DOMAIN idle : held[u] # idle[i] BY DEF ConnectionsExclusive
      <4> QED BY <1>2, <2>3, <4>1, <4>2
    <3> QED BY <2>2, <3>1, <3>2
  <2> QED BY <2>5, <2>6, <2>7, <2>8, <2>9, <2>11 DEF ConnectionsExclusive
<1> QED BY <1>7, <1>8, <1>9

\* A connection some thread holds stays open when the idle ones are closed.
LEMMA EmptyDequeExclusive ==
    ASSUME IInv, idle' = << >>, held' = held, health' = ClosedAfter(0),
           \A u \in Threads : pc'[u] = "borrowed" <=> pc[u] = "borrowed"
    PROVE  ConnectionsExclusive' /\ health' \in [Conns -> {"none", "open", "stale"}]
<1> USE DEF IInv
<1>1. \A u \in Threads : held[u] # NoConn => health'[held[u]] # "none"
  <2>1. ASSUME NEW u \in Threads, held[u] # NoConn
        PROVE  health'[held[u]] # "none"
    <3>1. held[u] \in Conns /\ health[held[u]] # "none"
      BY <2>1 DEF TypeOK, ConnectionsExclusive
    <3>2. \A i \in 1 .. Len(idle) : held[u] # idle[i]
      BY DEF ConnectionsExclusive, TypeOK
    <3> QED BY <3>1, <3>2 DEF ClosedAfter
  <2> QED BY <2>1
<1>2. health' \in [Conns -> {"none", "open", "stale"}] BY DEF TypeOK, ClosedAfter
<1>3. DOMAIN idle' = {} OBVIOUS
<1> QED BY <1>1, <1>2, <1>3 DEF ConnectionsExclusive

\* Reserving a slot keeps the count under the cap, whatever stale connections
\* are dropped first.
LEMMA ReserveInv ==
    ASSUME IInv, NEW t \in Threads, Reserve(t)
    PROVE  IInv'
<1> USE DEF IInv
<1> DEFINE n == Len(idle)
<1>1. /\ idle' = << >> /\ created' = created - n + 1 /\ created - n < MaxSize
      /\ health' = ClosedAfter(0)
      /\ pc' = MoveAndNotify(t, "dialing", n) /\ waiters' = Suffix(waiters, n)
      /\ held' = held /\ reused' = reused /\ late' = late
  BY DEF Reserve
<1>2. n \in Nat BY DEF TypeOK
<1>3. /\ pc' \in [Threads -> Places] /\ pc'[t] = "dialing"
      /\ \A u \in Threads \ {t} :
            pc'[u] = pc[u] \/ (pc[u] = "waiting" /\ pc'[u] = "woken")
  BY <1>1, MoveProperties DEF Places
<1>4. pc[t] \in {"enter", "woken"} BY DEF Reserve, AtLoopHead
<1>5. Cardinality(Owners) \in Nat /\ Cardinality(Owners') = Cardinality(Owners) + 1
  BY <1>3, <1>4, OwnersCount DEF Owning
<1>6. SlotsAccounted'
  BY <1>1, <1>2, <1>5, MaxSizeAssumption DEF SlotsAccounted, TypeOK
<1>7. ConnectionsExclusive' /\ health' \in [Conns -> {"none", "open", "stale"}]
  <2>1. \A u \in Threads : pc'[u] = "borrowed" <=> pc[u] = "borrowed"
    BY <1>3, <1>4
  <2> QED BY <1>1, <2>1, EmptyDequeExclusive
<1>8. TypeOK'
  <2>1. waiters' \in Seq(Threads) BY <1>1, <1>2, SuffixType DEF TypeOK
  <2>2. created' \in Nat BY <1>1, <1>2, <1>5 DEF SlotsAccounted, TypeOK
  <2> QED BY <1>1, <1>3, <1>7, <2>1, <2>2 DEF TypeOK
<1> QED BY <1>6, <1>7, <1>8

\* close() empties the deque; lent connections and reserved slots stay counted.
LEMMA CloseInv ==
    ASSUME IInv, Close
    PROVE  IInv'
<1> USE DEF IInv
<1>1. /\ idle' = << >> /\ created' = created - Len(idle) /\ health' = ClosedAfter(0)
      /\ held' = held /\ reused' = reused /\ late' = late /\ waiters' = << >>
  BY DEF Close
<1>2. /\ pc' \in [Threads -> Places]
      /\ \A u \in Threads : pc'[u] = pc[u] \/ (pc[u] = "waiting" /\ pc'[u] = "woken")
  BY Zenon DEF Close, TypeOK, Places
<1>3. Owners' = Owners BY <1>2 DEF Owners
<1>4. Len(idle) \in Nat /\ Cardinality(Owners) \in Nat
  BY FS_Subset, FS_CardinalityType, ThreadsAssumption DEF TypeOK, Owners
<1>5. SlotsAccounted'
  BY <1>1, <1>3, <1>4, MaxSizeAssumption DEF SlotsAccounted, TypeOK
<1>6. ConnectionsExclusive' /\ health' \in [Conns -> {"none", "open", "stale"}]
  BY <1>1, <1>2, EmptyDequeExclusive
<1>7. TypeOK' BY <1>1, <1>2, <1>4, <1>5, <1>6 DEF TypeOK, SlotsAccounted
<1> QED BY <1>5, <1>6, <1>7

\* A dialed connection was not live, so it is nobody else's.
LEMMA DialOkInv ==
    ASSUME IInv, NEW t \in Threads, DialOk(t)
    PROVE  IInv'
<1> USE DEF IInv
<1>1. PICK c \in Conns : /\ health[c] = "none"
                         /\ health' = [health EXCEPT ![c] = "open"]
                         /\ held' = [held EXCEPT ![t] = c]
  BY DEF DialOk
<1>2. /\ pc[t] = "dialing" /\ pc' = [pc EXCEPT ![t] = "borrowed"]
      /\ reused' = [reused EXCEPT ![t] = FALSE]
      /\ UNCHANGED <<idle, created, waiters, late>>
  BY DEF DialOk
<1>3. TypeOK' BY <1>1, <1>2 DEF TypeOK, Places
<1>4. Cardinality(Owners') = Cardinality(Owners)
  BY <1>2, OwnersCount DEF Owning, TypeOK
<1>5. SlotsAccounted' BY <1>2, <1>4 DEF SlotsAccounted
<1>6. c # NoConn /\ (\A u \in Threads : held[u] # c) /\ (\A i \in DOMAIN idle : idle[i] # c)
  BY <1>1, ConnsAssumption DEF ConnectionsExclusive
<1>7. ConnectionsExclusive'
  <2>1. \A u \in Threads : held[u] # NoConn => held[u] \in Conns BY DEF TypeOK
  <2>2. \A i \in DOMAIN idle : idle[i] \in Conns BY DEF TypeOK
  <2>3. held'[t] = c /\ \A u \in Threads \ {t} : held'[u] = held[u]
    BY <1>1 DEF TypeOK
  <2>4. health'[c] = "open" /\ \A d \in Conns \ {c} : health'[d] = health[d]
    BY <1>1 DEF TypeOK
  <2>5. \A u \in Threads : pc'[u] = "borrowed" <=> held'[u] # NoConn
    BY <1>2, <1>6, <2>3 DEF TypeOK, ConnectionsExclusive
  <2> QED BY <1>2, <1>6, <2>1, <2>2, <2>3, <2>4, <2>5 DEF ConnectionsExclusive
<1> QED BY <1>3, <1>5, <1>7

\* A slot given back was counted, once, for the thread that gives it back.
LEMMA FreeSlotInv ==
    ASSUME IInv, NEW t \in Threads, FreeSlot(t)
    PROVE  IInv'
<1> USE DEF IInv
<1>1. /\ pc[t] \in {"failed", "closed"} /\ created' = created - 1
      /\ pc' = MoveAndNotify(t, "out", 1) /\ waiters' = Suffix(waiters, 1)
      /\ UNCHANGED <<idle, held, reused, health, late>>
  BY DEF FreeSlot
<1>2. /\ pc' \in [Threads -> Places] /\ pc'[t] = "out"
      /\ \A u \in Threads \ {t} :
            pc'[u] = pc[u] \/ (pc[u] = "waiting" /\ pc'[u] = "woken")
  BY <1>1, MoveProperties DEF Places
<1>3. Cardinality(Owners') = Cardinality(Owners) - 1 /\ Cardinality(Owners) \in Nat
  <2>1. pc[t] \in Owning /\ pc'[t] \notin Owning BY <1>1, <1>2 DEF Owning
  <2> QED BY <1>2, <2>1, OwnersCount
<1>4. Cardinality(Owners') \in Nat
  BY <1>2, FS_Subset, FS_CardinalityType, ThreadsAssumption DEF Owners
<1>5. Len(idle) \in Nat BY DEF TypeOK
<1>6. SlotsAccounted' BY <1>1, <1>3, MaxSizeAssumption, <1>5 DEF SlotsAccounted, TypeOK
<1>7. TypeOK'
  <2>1. waiters' \in Seq(Threads) BY <1>1, SuffixType DEF TypeOK
  <2>2. created' \in Nat BY <1>1, <1>4, <1>5, <1>6 DEF SlotsAccounted
  <2> QED BY <1>1, <1>2, <2>1, <2>2 DEF TypeOK
<1>8. ConnectionsExclusive'
  <2>1. \A u \in Threads : pc'[u] = "borrowed" <=> pc[u] = "borrowed" BY <1>1, <1>2
  <2> QED BY <1>1, <2>1 DEF ConnectionsExclusive
<1> QED BY <1>6, <1>7, <1>8

\* A connection put back is new to the deque: it was lent to one thread.
LEMMA ReleaseInv ==
    ASSUME IInv, NEW t \in Threads, Release(t)
    PROVE  IInv'
<1> USE DEF IInv
<1> DEFINE c == held[t]
<1>1. /\ pc[t] = "borrowed" /\ idle' = Append(idle, c)
      /\ held' = [held EXCEPT ![t] = NoConn]
      /\ reused' = [reused EXCEPT ![t] = FALSE]
      /\ pc' = MoveAndNotify(t, "out", 1) /\ waiters' = Suffix(waiters, 1)
      /\ UNCHANGED <<created, health, late>>
  BY DEF Release
<1>2. /\ pc' \in [Threads -> Places] /\ pc'[t] = "out"
      /\ \A u \in Threads \ {t} :
            pc'[u] = pc[u] \/ (pc[u] = "waiting" /\ pc'[u] = "woken")
  BY <1>1, MoveProperties DEF Places
<1>3. c \in Conns /\ c # NoConn /\ health[c] # "none"
  BY <1>1, ConnsAssumption DEF TypeOK, ConnectionsExclusive
<1>4. /\ idle' \in Seq(Conns) /\ Len(idle') = Len(idle) + 1 /\ Len(idle) \in Nat
      /\ idle'[Len(idle) + 1] = c
      /\ \A i \in 1 .. Len(idle) : idle'[i] = idle[i]
  BY <1>1, <1>3 DEF TypeOK
<1>5. Cardinality(Owners') = Cardinality(Owners) - 1 /\ Cardinality(Owners) \in Nat
  <2>1. pc[t] \in Owning /\ pc'[t] \notin Owning BY <1>1, <1>2 DEF Owning
  <2> QED BY <1>2, <2>1, OwnersCount
<1>6. SlotsAccounted' BY <1>1, <1>4, <1>5 DEF SlotsAccounted
<1>7. TypeOK'
  <2>1. waiters' \in Seq(Threads) BY <1>1, SuffixType DEF TypeOK
  <2> QED BY <1>1, <1>2, <1>4, <2>1 DEF TypeOK
<1>8. ConnectionsExclusive'
  <2>1. held'[t] = NoConn /\ \A u \in Threads \ {t} : held'[u] = held[u]
    BY <1>1 DEF TypeOK
  <2>2. \A i \in 1 .. Len(idle) : idle[i] # c BY DEF ConnectionsExclusive, TypeOK
  <2>3. DOMAIN idle' = 1 .. (Len(idle) + 1) /\ DOMAIN idle = 1 .. Len(idle)
    BY <1>4 DEF TypeOK
  <2>4. \A i, j \in DOMAIN idle' : idle'[i] = idle'[j] => i = j
    BY <1>4, <2>2, <2>3 DEF ConnectionsExclusive
  <2>5. \A u \in Threads, i \in DOMAIN idle' : held'[u] # idle'[i]
    <3>1. \A u \in Threads \ {t} : held[u] # c BY <1>3 DEF ConnectionsExclusive
    <3>2. \A i \in 1 .. Len(idle) : idle[i] # NoConn BY ConnsAssumption DEF TypeOK
    <3> QED BY <1>3, <1>4, <2>1, <2>3, <3>1, <3>2 DEF ConnectionsExclusive
  <2>6. \A u \in Threads : pc'[u] = "borrowed" <=> held'[u] # NoConn
    BY <1>2, <2>1 DEF ConnectionsExclusive
  <2>7. \A i \in DOMAIN idle' : health'[idle'[i]] # "none"
    BY <1>1, <1>3, <1>4, <2>3 DEF ConnectionsExclusive
  <2> QED BY <1>1, <2>1, <2>4, <2>5, <2>6, <2>7 DEF ConnectionsExclusive
<1> QED BY <1>6, <1>7, <1>8

\* A discarded connection is closed by the thread that held it; the slot stays
\* counted until FreeSlot.
LEMMA DiscardInv ==
    ASSUME IInv, NEW t \in Threads, Discard(t)
    PROVE  IInv'
<1> USE DEF IInv
<1> DEFINE c == held[t]
<1>1. /\ pc[t] = "borrowed" /\ health' = [health EXCEPT ![c] = "none"]
      /\ held' = [held EXCEPT ![t] = NoConn]
      /\ reused' = [reused EXCEPT ![t] = FALSE]
      /\ pc' = [pc EXCEPT ![t] = "closed"]
      /\ UNCHANGED <<idle, created, waiters, late>>
  BY DEF Discard
<1>2. c \in Conns /\ c # NoConn
  BY <1>1, ConnsAssumption DEF TypeOK, ConnectionsExclusive
<1>3. TypeOK' BY <1>1, <1>2 DEF TypeOK, Places
<1>4. Cardinality(Owners') = Cardinality(Owners)
  BY <1>1, OwnersCount DEF Owning, TypeOK
<1>5. SlotsAccounted' BY <1>1, <1>4 DEF SlotsAccounted
<1>6. ConnectionsExclusive'
  <2>1. held'[t] = NoConn /\ \A u \in Threads \ {t} : held'[u] = held[u]
    BY <1>1 DEF TypeOK
  <2>2. \A d \in Conns \ {c} : health'[d] = health[d] BY <1>1, <1>2 DEF TypeOK
  <2>3. \A i \in DOMAIN idle : idle[i] \in Conns \ {c}
    BY DEF TypeOK, ConnectionsExclusive
  <2>4. \A u \in Threads \ {t} : held[u] # NoConn => held[u] \in Conns \ {c}
    BY DEF TypeOK, ConnectionsExclusive
  <2>5. \A u \in Threads : pc'[u] = "borrowed" <=> held'[u] # NoConn
    BY <1>1, <2>1 DEF TypeOK, ConnectionsExclusive
  <2>6. \A u \in Threads, i \in DOMAIN idle' : held'[u] # idle'[i]
    BY <1>1, <2>1, <2>3, ConnsAssumption DEF ConnectionsExclusive
  <2> QED BY <1>1, <2>1, <2>2, <2>3, <2>4, <2>5, <2>6 DEF ConnectionsExclusive
<1> QED BY <1>3, <1>5, <1>6

\* Steps of a thread outside the pool's state move neither slots nor
\* connections; the queue changes by the thread itself.
LEMMA QueueStepInv ==
    ASSUME IInv, NEW t \in Threads,
           \/ Call(t) \/ GiveUp(t) \/ Block(t) \/ WaitTimesOut(t)
           \/ ResumeExpired(t) \/ DialFails(t)
    PROVE  IInv'
<1> USE DEF IInv
<1>1. UNCHANGED <<idle, created, held, health, reused>>
  BY DEF Call, GiveUp, Block, WaitTimesOut, ResumeExpired, DialFails
<1>2. PICK p \in Places : /\ pc' = [pc EXCEPT ![t] = p]
                          /\ p # "borrowed" /\ pc[t] # "borrowed"
                          /\ p \in Owning <=> pc[t] \in Owning
  <2>1. CASE pc[t] = "out" /\ pc' = [pc EXCEPT ![t] = "enter"]
    BY <2>1 DEF Places, Owning
  <2>2. CASE pc[t] \in {"enter", "woken", "expired"} /\ pc' = [pc EXCEPT ![t] = "out"]
    BY <2>2 DEF Places, Owning
  <2>3. CASE pc[t] \in {"enter", "woken"} /\ pc' = [pc EXCEPT ![t] = "waiting"]
    BY <2>3 DEF Places, Owning
  <2>4. CASE pc[t] = "waiting" /\ pc' = [pc EXCEPT ![t] = "expired"]
    BY <2>4 DEF Places, Owning
  <2>5. CASE pc[t] = "dialing" /\ pc' = [pc EXCEPT ![t] = "failed"]
    BY <2>5 DEF Places, Owning
  <2> QED
    BY <2>1, <2>2, <2>3, <2>4, <2>5
    DEF Call, GiveUp, Block, WaitTimesOut, ResumeExpired, DialFails, AtLoopHead
<1>3. waiters' \in Seq(Threads)
  <2>1. CASE waiters' = Without(waiters, t) BY <2>1, WithoutType DEF TypeOK
  <2>2. CASE waiters' = Append(waiters, t) BY <2>2 DEF TypeOK
  <2>3. CASE waiters' = waiters BY <2>3 DEF TypeOK
  <2> QED
    BY <2>1, <2>2, <2>3
    DEF Call, GiveUp, Block, WaitTimesOut, ResumeExpired, DialFails
<1>4. late' \in SUBSET Timed
  BY SMT DEF Call, GiveUp, Block, WaitTimesOut, ResumeExpired, DialFails, TypeOK
<1>5. TypeOK' BY <1>1, <1>2, <1>3, <1>4 DEF TypeOK
<1>6. Cardinality(Owners') = Cardinality(Owners)
  BY <1>2, OwnersCount DEF TypeOK
<1>7. SlotsAccounted' BY <1>1, <1>6 DEF SlotsAccounted
<1>8. \A u \in Threads : pc'[u] = "borrowed" <=> pc[u] = "borrowed"
  BY <1>2 DEF TypeOK
<1>9. ConnectionsExclusive' BY <1>1, <1>8 DEF ConnectionsExclusive
<1> QED BY <1>5, <1>7, <1>9

-----------------------------------------------------------------------------
(* The theorems                                                            *)

LEMMA InitIInv == Init => IInv
<1> SUFFICES ASSUME Init PROVE IInv OBVIOUS
<1>1. TypeOK BY DEF Init, TypeOK, Places
<1>2. Owners = {} BY DEF Init, Owners
<1>3. SlotsAccounted
  BY <1>2, FS_EmptySet, MaxSizeAssumption DEF Init, SlotsAccounted
<1>4. ConnectionsExclusive BY DEF Init, ConnectionsExclusive
<1> QED BY <1>1, <1>3, <1>4 DEF IInv

\* The server's closing a connection does not close it on the client's side.
LEMMA NextIInv == IInv /\ [Next]_vars => IInv'
<1> SUFFICES ASSUME IInv, [Next]_vars PROVE IInv' OBVIOUS
<1>1. ASSUME NEW t \in Threads, Call(t) \/ Step(t) PROVE IInv'
  BY <1>1, TakeWarmInv, ReserveInv, DialOkInv, FreeSlotInv, ReleaseInv, DiscardInv,
     QueueStepInv DEF Step
<1>2. ASSUME NEW t \in Threads, DeadlineElapses(t) PROVE IInv'
  BY <1>2 DEF IInv, DeadlineElapses, TypeOK, SlotsAccounted, Owners, ConnectionsExclusive
<1>3. ASSUME NEW c \in Conns, ServerCloses(c) PROVE IInv'
  <2>1. /\ health[c] = "open" /\ health' = [health EXCEPT ![c] = "stale"]
        /\ UNCHANGED <<idle, created, waiters, pc, held, reused, late>>
    BY <1>3 DEF ServerCloses
  <2>2. TypeOK' BY <2>1 DEF IInv, TypeOK
  <2>3. SlotsAccounted' BY <2>1 DEF IInv, SlotsAccounted, Owners
  <2>4. \A d \in Conns : health'[d] # "none" <=> health[d] # "none"
    BY <2>1 DEF IInv, TypeOK
  <2>5. \A i \in DOMAIN idle : idle[i] \in Conns BY DEF IInv, TypeOK
  <2>6. \A u \in Threads : held[u] # NoConn => held[u] \in Conns BY DEF IInv, TypeOK
  <2>7. ConnectionsExclusive' BY <2>1, <2>4, <2>5, <2>6 DEF IInv, ConnectionsExclusive
  <2> QED BY <2>2, <2>3, <2>7 DEF IInv
<1>4. ASSUME Close PROVE IInv' BY <1>4, CloseInv
<1>5. ASSUME UNCHANGED vars PROVE IInv'
  BY <1>5 DEF vars, IInv, TypeOK, SlotsAccounted, Owners, ConnectionsExclusive
<1> QED BY <1>1, <1>2, <1>3, <1>4, <1>5 DEF Next

\* Every reachable state of the pool satisfies the inductive invariant.
THEOREM PoolInvariant == Spec => []IInv
BY InitIInv, NextIInv, PTL DEF Spec

\* acquire, release, discard and close keep every variable in its type; the
\* counter never goes below zero.
THEOREM PoolTypeCorrect == Spec => []TypeOK
<1>1. IInv => TypeOK BY DEF IInv
<1> QED BY <1>1, PoolInvariant, PTL

\* `created` is exact and never passes maxsize, for every number of threads
\* and connections and every interleaving.
THEOREM PoolSlotsAccounted == Spec => []SlotsAccounted
<1>1. IInv => SlotsAccounted BY DEF IInv
<1> QED BY <1>1, PoolInvariant, PTL

\* No connection is lent to two threads, or idle while it is lent.
THEOREM PoolConnectionsExclusive == Spec => []ConnectionsExclusive
<1>1. IInv => ConnectionsExclusive BY DEF IInv
<1> QED BY <1>1, PoolInvariant, PTL
-----------------------------------------------------------------------------
(* No wakeup is lost while no deadline passes                              *)

Woken == {t \in Threads : pc[t] = "woken"}

\* Nobody's wait has timed out, so the queue holds waiting threads, each once.
QueueSound ==
    /\ \A i \in DOMAIN waiters : pc[waiters[i]] = "waiting"
    /\ \A i, j \in DOMAIN waiters : waiters[i] = waiters[j] => i = j
    /\ \A t \in Threads : pc[t] # "expired"

WakeInv == QueueSound /\ CapacityClaimed

Free == Len(idle) + (MaxSize - created)

-----------------------------------------------------------------------------
(* The queue and the woken                                                 *)

LEMMA WokenFinite == IsFiniteSet(Woken) /\ Cardinality(Woken) \in Nat
  BY FS_Subset, FS_CardinalityType, ThreadsAssumption DEF Woken

\* The queue without its first n entries.
LEMMA SuffixProperties ==
    ASSUME NEW S, NEW s \in Seq(S), NEW n \in Nat
    PROVE  /\ Len(Suffix(s, n)) = IF n <= Len(s) THEN Len(s) - n ELSE 0
           /\ \A i \in 1 .. Len(Suffix(s, n)) : Suffix(s, n)[i] = s[i + n]
           /\ DOMAIN Suffix(s, n) = 1 .. Len(Suffix(s, n))
  <1>1. Suffix(s, n) = SubSeq(s, n + 1, Len(s)) /\ Len(s) \in Nat
    BY DEF Suffix
  <1>2. \A i \in (n + 1) .. Len(s) : s[i] \in S
    OBVIOUS
  <1>3. /\ Len(SubSeq(s, n + 1, Len(s))) = IF n + 1 <= Len(s) THEN Len(s) - (n + 1) + 1 ELSE 0
        /\ \A i \in 1 .. (Len(s) - (n + 1) + 1) : SubSeq(s, n + 1, Len(s))[i] = s[(n + 1) + i - 1]
        /\ SubSeq(s, n + 1, Len(s)) \in Seq(S)
    BY <1>1, <1>2, SubSeqProperties
  <1> QED
    BY <1>1, <1>3

\* A notify of n leaves a sound queue, and wakes no fewer than it finds.
LEMMA NotifyKeeps ==
    ASSUME TypeOK, QueueSound, NEW t \in Threads, NEW p \in Places \ {"woken", "waiting", "expired"},
           NEW n \in Nat,
           pc[t] # "waiting", pc' = MoveAndNotify(t, p, n), waiters' = Suffix(waiters, n)
    PROVE  /\ QueueSound'
           /\ Woken \ {t} \subseteq Woken'
           /\ waiters' # << >> => waiters # << >>
           /\ waiters # << >> /\ n = 1 => waiters[1] \in Woken' \ Woken
  <1>1. /\ waiters \in Seq(Threads) /\ Len(waiters) \in Nat
        /\ DOMAIN waiters = 1 .. Len(waiters)
        /\ \A i \in 1 .. Len(waiters) : waiters[i] \in Threads \ {t}
    BY DEF TypeOK, QueueSound
  <1>2. /\ Len(waiters') = IF n <= Len(waiters) THEN Len(waiters) - n ELSE 0
        /\ \A i \in 1 .. Len(waiters') : waiters'[i] = waiters[i + n]
        /\ DOMAIN waiters' = 1 .. Len(waiters')
    <2>1. /\ Len(Suffix(waiters, n)) = IF n <= Len(waiters) THEN Len(waiters) - n ELSE 0
          /\ \A i \in 1 .. Len(Suffix(waiters, n)) : Suffix(waiters, n)[i] = waiters[i + n]
          /\ DOMAIN Suffix(waiters, n) = 1 .. Len(Suffix(waiters, n))
      BY <1>1, SuffixProperties, Zenon
    <2> QED
      BY <2>1, Zenon
  <1>3. /\ pc'[t] = p
        /\ \A u \in Threads \ {t} :
              pc'[u] = IF u \in Notified(n) /\ pc[u] = "waiting" THEN "woken" ELSE pc[u]
    BY Zenon DEF MoveAndNotify
  <1>4. \A i \in 1 .. Len(waiters) : waiters[i] \in Notified(n) <=> i <= n
    <2>1. \A i \in 1 .. Len(waiters) : i <= n => waiters[i] \in Notified(n)
      BY <1>1 DEF Notified
    <2>2. ASSUME NEW i \in 1 .. Len(waiters), waiters[i] \in Notified(n) PROVE i <= n
      <3>1. PICK j \in {k \in DOMAIN waiters : k <= n} : waiters[i] = waiters[j]
        BY <2>2 DEF Notified
      <3> QED
        BY <1>1, <3>1 DEF QueueSound
    <2> QED
      BY <2>1, <2>2
  <1>5. QueueSound'
    <2>0. \A i \in DOMAIN waiters' : /\ i + n \in 1 .. Len(waiters) /\ waiters'[i] = waiters[i + n]
                                     /\ ~ (i + n <= n)
      <3> SUFFICES ASSUME NEW i \in DOMAIN waiters'
                   PROVE  /\ i + n \in 1 .. Len(waiters) /\ waiters'[i] = waiters[i + n]
                          /\ ~ (i + n <= n)
        OBVIOUS
      <3>1. i \in 1 .. Len(waiters') /\ waiters'[i] = waiters[i + n]
        BY <1>2, Zenon
      <3>2. /\ Len(waiters') = IF n <= Len(waiters) THEN Len(waiters) - n ELSE 0
            /\ Len(waiters) \in Nat /\ n \in Nat
        BY <1>1, <1>2
      <3>3. i \in Nat \ {0} /\ i + n <= Len(waiters)
        BY <3>1, <3>2
      <3> QED
        BY <3>1, <3>2, <3>3
    <2>1. ASSUME NEW i \in DOMAIN waiters' PROVE pc'[waiters'[i]] = "waiting"
      <3>1. i + n \in 1 .. Len(waiters) /\ waiters'[i] = waiters[i + n] /\ ~ (i + n <= n)
        BY <2>0
      <3>2. waiters'[i] \in Threads \ {t} /\ waiters'[i] \notin Notified(n)
        BY <1>1, <1>4, <3>1
      <3> QED
        BY <1>1, <1>3, <3>1, <3>2 DEF QueueSound
    <2>2. ASSUME NEW i \in DOMAIN waiters', NEW j \in DOMAIN waiters', waiters'[i] = waiters'[j]
          PROVE  i = j
      <3>1. /\ i + n \in 1 .. Len(waiters) /\ j + n \in 1 .. Len(waiters)
            /\ waiters[i + n] = waiters[j + n]
        BY <2>0, <2>2, Zenon
      <3>2. i + n = j + n
        BY <1>1, <3>1 DEF QueueSound
      <3> QED
        BY <1>2, <3>2
    <2>3. \A u \in Threads : pc'[u] # "expired"
      BY <1>3 DEF QueueSound
    <2> QED
      BY <2>1, <2>2, <2>3 DEF QueueSound
  <1>6. Woken \ {t} \subseteq Woken'
    BY <1>3 DEF Woken
  <1>7. waiters' # << >> => waiters # << >>
    <2>1. waiters = << >> => Len(waiters') = 0
      BY <1>2
    <2> QED
      BY <2>1
  <1>8. ASSUME waiters # << >>, n = 1 PROVE waiters[1] \in Woken' \ Woken
    <2>1. 1 \in 1 .. Len(waiters)
      BY <1>1, <1>8
    <2>2. waiters[1] \in Threads \ {t} /\ pc[waiters[1]] = "waiting" /\ waiters[1] \in Notified(n)
      BY <1>1, <1>4, <1>8, <2>1 DEF QueueSound
    <2> QED
      BY <1>3, <2>2 DEF Woken
  <1> QED
    BY <1>5, <1>6, <1>7, <1>8

\* The thread that takes capacity was one of the woken at most.
LEMMA WokenMinusOne ==
    ASSUME NEW t, Woken \ {t} \subseteq Woken'
    PROVE  Cardinality(Woken') >= Cardinality(Woken) - 1 /\ Cardinality(Woken') \in Nat
  <1>1. IsFiniteSet(Woken') /\ Cardinality(Woken') \in Nat
    BY FS_Subset, FS_CardinalityType, ThreadsAssumption DEF Woken
  <1>2. Cardinality(Woken \ {t}) <= Cardinality(Woken') /\ IsFiniteSet(Woken \ {t})
    BY <1>1, FS_Subset, WokenFinite
  <1>3. Cardinality(Woken \ {t}) \in Nat /\ Cardinality(Woken \ {t}) >= Cardinality(Woken) - 1
    <2>1. CASE t \in Woken
      <3>1. Cardinality(Woken \ {t}) = Cardinality(Woken) - 1
        BY <2>1, WokenFinite, FS_RemoveElement, Zenon
      <3> QED
        BY <1>2, <3>1, WokenFinite, FS_CardinalityType
    <2>2. CASE t \notin Woken
      <3>1. Woken \ {t} = Woken
        BY <2>2
      <3>2. Cardinality(Woken \ {t}) = Cardinality(Woken)
        BY <3>1, Zenon
      <3> QED
        BY <3>2, WokenFinite
    <2> QED
      BY <2>1, <2>2
  <1> QED
    BY <1>1, <1>2, <1>3, WokenFinite

\* A thread that gives something back adds one to the woken, if any waits.
LEMMA WokenPlusOne ==
    ASSUME NEW t, t \notin Woken, Woken \ {t} \subseteq Woken', NEW u \in Woken' \ Woken
    PROVE  Cardinality(Woken') >= Cardinality(Woken) + 1
  <1>1. IsFiniteSet(Woken') /\ Cardinality(Woken') \in Nat
    BY FS_Subset, FS_CardinalityType, ThreadsAssumption DEF Woken
  <1>2. Woken \cup {u} \subseteq Woken'
    OBVIOUS
  <1>3. Cardinality(Woken \cup {u}) = Cardinality(Woken) + 1
    BY WokenFinite, FS_AddElement, Zenon
  <1>4. Cardinality(Woken \cup {u}) <= Cardinality(Woken')
    BY <1>1, <1>2, FS_Subset
  <1> QED
    BY <1>1, <1>3, <1>4, WokenFinite

-----------------------------------------------------------------------------
(* The steps                                                               *)

\* A thread that takes a connection or a slot takes one unit of capacity.
LEMMA TakeWake ==
    ASSUME IInv, WakeInv, NEW t \in Threads, TakeWarm(t) \/ Reserve(t)
    PROVE  WakeInv'
  <1> USE DEF IInv
  <1>1. PICK p \in {"borrowed", "dialing"}, n \in Nat :
            /\ pc' = MoveAndNotify(t, p, n) /\ waiters' = Suffix(waiters, n)
            /\ Len(idle') + (MaxSize - created') = Free - 1
    <2>1. CASE TakeWarm(t)
      <3>1. PICK k \in 1 .. Len(idle) :
              LET n == Len(idle) - k IN
              /\ idle' = SubSeq(idle, 1, k - 1)
              /\ created' = created - n
              /\ pc' = MoveAndNotify(t, "borrowed", n)
              /\ waiters' = Suffix(waiters, n)
        BY <2>1 DEF TakeWarm, Rest
      <3>2. Len(idle) \in Nat /\ Len(idle) - k \in Nat /\ Len(idle') = k - 1 /\ created \in Nat
        BY <3>1 DEF TypeOK
      <3> QED
        BY <3>1, <3>2, MaxSizeAssumption DEF Free
    <2>2. CASE Reserve(t)
      <3>1. /\ idle' = << >> /\ created' = created - Len(idle) + 1
            /\ pc' = MoveAndNotify(t, "dialing", Len(idle)) /\ waiters' = Suffix(waiters, Len(idle))
        BY <2>2 DEF Reserve
      <3>2. Len(idle) \in Nat /\ created \in Nat /\ Len(idle') = 0
        BY <3>1 DEF TypeOK
      <3> QED
        BY <3>1, <3>2, MaxSizeAssumption DEF Free
    <2> QED
      BY <2>1, <2>2
  <1>2. pc[t] # "waiting" /\ p \in Places \ {"woken", "waiting", "expired"}
    BY DEF TakeWarm, Reserve, AtLoopHead, Places
  <1>3. /\ QueueSound' /\ Woken \ {t} \subseteq Woken'
        /\ waiters' # << >> => waiters # << >>
    BY <1>1, <1>2, NotifyKeeps DEF WakeInv
  <1>4. Cardinality(Woken') >= Cardinality(Woken) - 1 /\ Cardinality(Woken') \in Nat
    BY <1>3, WokenMinusOne
  <1>5. ASSUME waiters' # << >> PROVE Len(idle') + (MaxSize - created') <= Cardinality(Woken')
    <2>1. Free <= Cardinality(Woken)
      BY <1>3, <1>5 DEF WakeInv, CapacityClaimed, Free, Woken
    <2>2. Free \in Int
      BY MaxSizeAssumption DEF Free, TypeOK
    <2> QED
      BY <1>1, <1>4, <2>1, <2>2, WokenFinite
  <1> QED
    BY <1>3, <1>5 DEF WakeInv, CapacityClaimed, Woken

\* A thread that gives one unit back wakes one that waits.
LEMMA GiveBackWake ==
    ASSUME IInv, WakeInv, NEW t \in Threads, Release(t) \/ FreeSlot(t)
    PROVE  WakeInv'
  <1> USE DEF IInv
  <1>1. /\ pc' = MoveAndNotify(t, "out", 1) /\ waiters' = Suffix(waiters, 1)
        /\ Len(idle') + (MaxSize - created') = Free + 1
    BY MaxSizeAssumption DEF Release, FreeSlot, Free, TypeOK
  <1>2. pc[t] # "waiting" /\ t \notin Woken /\ "out" \in Places \ {"woken", "waiting", "expired"}
    BY DEF Release, FreeSlot, Places, Woken
  <1>3. /\ QueueSound' /\ Woken \ {t} \subseteq Woken'
        /\ waiters' # << >> => waiters # << >>
        /\ waiters # << >> => waiters[1] \in Woken' \ Woken
    BY <1>1, <1>2, NotifyKeeps DEF WakeInv
  <1>4. ASSUME waiters' # << >> PROVE Len(idle') + (MaxSize - created') <= Cardinality(Woken')
    <2>1. Free <= Cardinality(Woken) /\ waiters[1] \in Woken' \ Woken
      BY <1>3, <1>4 DEF WakeInv, CapacityClaimed, Free, Woken
    <2>2. Cardinality(Woken') >= Cardinality(Woken) + 1
      BY <1>2, <1>3, <2>1, WokenPlusOne
    <2>3. Free \in Int /\ Cardinality(Woken') \in Nat
      BY MaxSizeAssumption, FS_Subset, FS_CardinalityType, ThreadsAssumption DEF Free, TypeOK, Woken
    <2> QED
      BY <1>1, <2>1, <2>2, <2>3, WokenFinite
  <1> QED
    BY <1>3, <1>4 DEF WakeInv, CapacityClaimed, Woken

\* A thread blocks only when there is nothing to claim.
LEMMA BlockWake ==
    ASSUME IInv, WakeInv, NEW t \in Threads, Block(t)
    PROVE  WakeInv'
  <1> USE DEF IInv
  <1>1. /\ idle = << >> /\ created >= MaxSize /\ idle' = idle /\ created' = created
        /\ pc' = [pc EXCEPT ![t] = "waiting"] /\ waiters' = Append(waiters, t)
        /\ pc[t] \in {"enter", "woken"}
    BY DEF Block, AtLoopHead
  <1>2. /\ Len(waiters) \in Nat /\ Len(waiters') = Len(waiters) + 1
        /\ DOMAIN waiters' = 1 .. Len(waiters') /\ DOMAIN waiters = 1 .. Len(waiters)
        /\ waiters'[Len(waiters) + 1] = t
        /\ \A i \in 1 .. Len(waiters) : waiters'[i] = waiters[i] /\ waiters[i] \in Threads \ {t}
    BY <1>1 DEF TypeOK, WakeInv, QueueSound
  <1>3. pc'[t] = "waiting" /\ \A u \in Threads \ {t} : pc'[u] = pc[u]
    BY <1>1 DEF TypeOK
  <1>4. QueueSound'
    <2>1. ASSUME NEW i \in DOMAIN waiters' PROVE pc'[waiters'[i]] = "waiting"
      BY <1>2, <1>3 DEF WakeInv, QueueSound
    <2>2. ASSUME NEW i \in DOMAIN waiters', NEW j \in DOMAIN waiters', waiters'[i] = waiters'[j]
          PROVE  i = j
      BY <1>2, <2>2 DEF WakeInv, QueueSound
    <2>3. \A u \in Threads : pc'[u] # "expired"
      BY <1>3 DEF WakeInv, QueueSound
    <2> QED
      BY <2>1, <2>2, <2>3 DEF QueueSound
  <1>5. CapacityClaimed'
    <2>1. Cardinality(Woken') \in Nat
      BY FS_Subset, FS_CardinalityType, ThreadsAssumption DEF Woken
    <2>2. Len(idle') + (MaxSize - created') <= 0
      BY <1>1, MaxSizeAssumption DEF TypeOK
    <2>3. Len(idle') + (MaxSize - created') \in Int
      BY <1>1, MaxSizeAssumption DEF TypeOK
    <2>4. Len(idle') + (MaxSize - created') <= Cardinality(Woken')
      BY <2>1, <2>2, <2>3
    <2> QED
      BY <2>4 DEF CapacityClaimed, Woken
  <1> QED
    BY <1>4, <1>5 DEF WakeInv

\* Steps of a thread that neither waits nor is woken leave both sets alone.
LEMMA AsideWake ==
    ASSUME IInv, WakeInv, NEW t \in Threads, Call(t) \/ DialOk(t) \/ DialFails(t) \/ Discard(t)
    PROVE  WakeInv'
  <1>1. PICK p \in {"enter", "borrowed", "failed", "closed"} : pc' = [pc EXCEPT ![t] = p]
    BY DEF Call, DialOk, DialFails, Discard
  <1>2. /\ UNCHANGED <<idle, created, waiters>>
        /\ pc[t] \in {"out", "dialing", "borrowed"}
    BY DEF Call, DialOk, DialFails, Discard
  <1>3. \A u \in Threads : /\ pc'[u] = "waiting" <=> pc[u] = "waiting"
                           /\ pc'[u] = "woken" <=> pc[u] = "woken"
                           /\ pc'[u] # "expired"
    BY <1>1, <1>2 DEF IInv, TypeOK, WakeInv, QueueSound
  <1>4. Woken' = Woken
    BY <1>3 DEF Woken
  <1>5. \A i \in DOMAIN waiters : waiters[i] \in Threads
    BY DEF IInv, TypeOK
  <1> QED
    BY <1>2, <1>3, <1>4, <1>5 DEF WakeInv, QueueSound, CapacityClaimed, Woken

LEMMA CloseWake ==
    ASSUME IInv, WakeInv, Close
    PROVE  WakeInv'
  <1>1. waiters' = << >> /\ DOMAIN waiters' = {}
    BY DEF Close
  <1>2. \A u \in Threads : pc'[u] # "expired"
    BY DEF Close, WakeInv, QueueSound
  <1> QED
    BY <1>1, <1>2 DEF WakeInv, QueueSound, CapacityClaimed

\* Without a deadline no wait times out, so nobody gives up.
LEMMA WakeStep ==
    ASSUME IInv, WakeInv, late = {}, late' = {}, [Next]_vars
    PROVE  WakeInv'
  <1>1. ASSUME NEW t \in Threads, Call(t) \/ Step(t) PROVE WakeInv'
    <2>1. ~ (GiveUp(t) \/ WaitTimesOut(t))
      BY DEF GiveUp, WaitTimesOut
    <2>2. ~ ResumeExpired(t)
      BY DEF ResumeExpired, WakeInv, QueueSound
    <2> QED
      BY <1>1, <2>1, <2>2, TakeWake, GiveBackWake, BlockWake, AsideWake DEF Step
  <1>2. ASSUME NEW t \in Threads, DeadlineElapses(t) PROVE WakeInv'
    BY <1>2 DEF DeadlineElapses
  <1>3. ASSUME NEW c \in Conns, ServerCloses(c) PROVE WakeInv'
    BY <1>3 DEF ServerCloses, WakeInv, QueueSound, CapacityClaimed
  <1>4. ASSUME UNCHANGED vars PROVE WakeInv'
    BY <1>4 DEF vars, WakeInv, QueueSound, CapacityClaimed
  <1> QED
    BY <1>1, <1>2, <1>3, <1>4, CloseWake DEF Next

\* acquire, release, discard and close lose no wakeup while no deadline
\* passes: a thread waits only while a woken thread is on its way to each idle
\* connection and each free slot.
THEOREM PoolNoStrandedWaiter == Spec => NoStrandedWaiter
  <1>1. Init => WakeInv
    BY DEF Init, WakeInv, QueueSound, CapacityClaimed
  <1>2. IInv /\ WakeInv /\ late = {} /\ (late = {})' /\ [Next]_vars => WakeInv'
    BY WakeStep
  <1>3. WakeInv => CapacityClaimed
    BY DEF WakeInv
  <1> QED
    BY <1>1, <1>2, <1>3, PoolInvariant, PTL DEF Spec, NoStrandedWaiter

-----------------------------------------------------------------------------
(* The lease                                                               *)

Kept == {idle[i] : i \in DOMAIN idle}
Lent == {held[t] : t \in Threads} \ {NoConn}
Slots == {t \in Threads : pc[t] \in {"dialing", "failed", "closed"}}

\* Every live connection is in the deque or in a borrower's hands: none is
\* forgotten open.
LiveAccounted == \A c \in Conns : health[c] # "none" => c \in Kept \cup Lent

-----------------------------------------------------------------------------
(* Counting                                                                *)

\* The deque holds no more connections than it has entries.
LEMMA KeptCounted ==
    ASSUME TypeOK
    PROVE  /\ IsFiniteSet(Kept)
           /\ Cardinality(Kept) \in Nat
           /\ Cardinality(Kept) <= Len(idle)
  <1> DEFINE f == [i \in 1 .. Len(idle) |-> idle[i]]
  <1>1. Len(idle) \in Nat /\ DOMAIN idle = 1 .. Len(idle)
    BY DEF TypeOK
  <1>2. f \in Surjection(1 .. Len(idle), Kept)
    BY <1>1 DEF Kept, Surjection
  <1>3. IsFiniteSet(1 .. Len(idle)) /\ Cardinality(1 .. Len(idle)) = Len(idle)
    <2>1. PICK n \in Nat : n = Len(idle)
      BY <1>1
    <2>2. IsFiniteSet(1 .. n) /\ Cardinality(1 .. n) = IF 1 > n THEN 0 ELSE n - 1 + 1
      BY FS_Interval
    <2> QED
      BY <2>1, <2>2
  <1> HIDE DEF f
  <1>4. IsFiniteSet(Kept) /\ Cardinality(Kept) <= Len(idle)
    BY <1>2, <1>3, FS_Surjection
  <1> QED
    BY <1>4, FS_CardinalityType

\* Lent connections and reserved slots are no more than the owners.
LEMMA OwnersCounted ==
    ASSUME TypeOK, ConnectionsExclusive
    PROVE  /\ IsFiniteSet(Lent) /\ IsFiniteSet(Slots)
           /\ Cardinality(Lent) \in Nat /\ Cardinality(Slots) \in Nat
           /\ Cardinality(Lent) + Cardinality(Slots) <= Cardinality(Owners)
           /\ Cardinality(Owners) \in Nat
  <1> DEFINE Borrowers == {t \in Threads : pc[t] = "borrowed"}
             f == [t \in Borrowers |-> held[t]]
  <1>1. IsFiniteSet(Borrowers) /\ IsFiniteSet(Slots)
    BY FS_Subset, ThreadsAssumption DEF Slots
  <1>2. f \in Surjection(Borrowers, Lent)
    BY DEF Surjection, Lent, ConnectionsExclusive
  <1>3. Owners = Borrowers \cup Slots /\ Borrowers \cap Slots = {}
    BY DEF Owners, Slots
  <1> HIDE DEF f, Borrowers
  <1>4. IsFiniteSet(Lent) /\ Cardinality(Lent) <= Cardinality(Borrowers)
    BY <1>1, <1>2, FS_Surjection
  <1>5. /\ Cardinality(Borrowers) \in Nat /\ Cardinality(Slots) \in Nat
        /\ Cardinality(Lent) \in Nat
    BY <1>1, <1>4, FS_CardinalityType
  <1>6. Cardinality(Owners) = Cardinality(Borrowers) + Cardinality(Slots)
    <2>1. Cardinality(Borrowers \cap Slots) = 0
      BY <1>3, FS_EmptySet
    <2>2. Cardinality(Borrowers \cup Slots)
            = Cardinality(Borrowers) + Cardinality(Slots)
                - Cardinality(Borrowers \cap Slots)
      BY <1>1, FS_Union
    <2> QED
      BY <1>3, <1>5, <2>1, <2>2
  <1> QED
    BY <1>1, <1>4, <1>5, <1>6

\* Connections kept, connections lent and slots reserved stay under the cap.
LEMMA LeasesCapped ==
    IInv => Cardinality(Kept) + Cardinality(Lent) + Cardinality(Slots) <= MaxSize
  <1> SUFFICES ASSUME IInv
               PROVE  Cardinality(Kept) + Cardinality(Lent) + Cardinality(Slots) <= MaxSize
    OBVIOUS
  <1>1. created = Len(idle) + Cardinality(Owners) /\ created <= MaxSize
    BY DEF IInv, SlotsAccounted
  <1>2. /\ Cardinality(Kept) \in Nat /\ Len(idle) \in Nat
        /\ Cardinality(Kept) <= Len(idle)
    BY KeptCounted DEF IInv, TypeOK
  <1> QED
    BY <1>1, <1>2, OwnersCounted, MaxSizeAssumption DEF IInv

-----------------------------------------------------------------------------
(* Steps of the pool as steps of the lease                                 *)

\* A step that moves thread t alone, and wakes others, changes t's slot alone.
LEMMA SlotsMove ==
    ASSUME TypeOK, NEW t \in Threads, pc' \in [Threads -> Places],
           \A u \in Threads \ {t} :
                pc'[u] = pc[u] \/ (pc[u] = "waiting" /\ pc'[u] = "woken")
    PROVE  Slots' = IF pc'[t] \in {"dialing", "failed", "closed"}
                    THEN Slots \cup {t} ELSE Slots \ {t}
  <1>1. \A u \in Threads \ {t} : u \in Slots' <=> u \in Slots
    BY DEF Slots
  <1>2. t \in Slots' <=> pc'[t] \in {"dialing", "failed", "closed"}
    BY DEF Slots
  <1>3. Slots \subseteq Threads /\ Slots' \subseteq Threads
    BY DEF Slots
  <1> QED
    BY <1>1, <1>2, <1>3

\* Taking a warm connection drops only those warmer than it, all of them dead.
LEMMA TakeWarmLends ==
    ASSUME IInv, NEW t \in Threads, TakeWarm(t)
    PROVE  Lease!Lend(t) /\ (LiveAccounted => LiveAccounted')
  <1> USE DEF IInv
  <1>1. PICK k \in 1 .. Len(idle) :
            /\ idle' = SubSeq(idle, 1, k - 1)
            /\ health' = ClosedAfter(k)
            /\ pc' = MoveAndNotify(t, "borrowed", Len(idle) - k)
            /\ held' = [held EXCEPT ![t] = idle[k]]
    BY DEF TakeWarm, Rest
  <1>2. idle \in Seq(Conns) /\ DOMAIN idle = 1 .. Len(idle) /\ Len(idle) \in Nat
    BY DEF TypeOK
  <1>3. DOMAIN idle' = 1 .. (k - 1) /\ \A i \in 1 .. (k - 1) : idle'[i] = idle[i]
    BY <1>1, <1>2
  <1>4. Kept' \subseteq Kept /\ idle[k] \in Kept
    BY <1>2, <1>3 DEF Kept
  <1>5. idle[k] \notin Kept'
    <2>1. \A i \in 1 .. (k - 1) : idle[i] # idle[k]
      BY <1>2 DEF ConnectionsExclusive
    <2> QED
      BY <1>3, <2>1 DEF Kept
  <1>6. /\ pc[t] \in {"enter", "woken"} /\ held[t] = NoConn
        /\ pc' \in [Threads -> Places] /\ pc'[t] = "borrowed"
        /\ \A u \in Threads \ {t} :
              pc'[u] = pc[u] \/ (pc[u] = "waiting" /\ pc'[u] = "woken")
    BY <1>1, MoveProperties DEF TakeWarm, AtLoopHead, ConnectionsExclusive, Places
  <1>7. Slots' = Slots /\ t \notin Slots
    BY <1>6, SlotsMove DEF Slots
  <1>8. Lease!Lend(t)
    <2>1. Lease!Free(t)
      BY <1>6, <1>7 DEF Lease!Free, Slots
    <2>2. Kept' \in SUBSET Kept /\ idle[k] \in Kept \ Kept'
      BY <1>4, <1>5
    <2> QED
      BY <1>1, <1>7, <2>1, <2>2 DEF Lease!Lend, Kept, Slots
  <1>9. ASSUME LiveAccounted PROVE LiveAccounted'
    <2> SUFFICES ASSUME NEW c \in Conns, health'[c] # "none"
                 PROVE  c \in Kept' \cup Lent'
      BY DEF LiveAccounted
    <2>1. health[c] # "none" /\ ~ \E i \in (k + 1) .. Len(idle) : idle[i] = c
      BY <1>1 DEF ClosedAfter
    <2>2. /\ idle[k] # NoConn /\ held'[t] = idle[k]
          /\ \A u \in Threads \ {t} : held'[u] = held[u]
      BY <1>1, <1>2, ConnsAssumption DEF TypeOK
    <2>3. CASE c \in Lent
      BY <1>6, <2>2, <2>3 DEF Lent
    <2>4. CASE c \in Kept
      <3>1. PICK i \in 1 .. Len(idle) : idle[i] = c
        BY <1>2, <2>4 DEF Kept
      <3>2. CASE i = k
        BY <2>2, <3>1, <3>2 DEF Lent
      <3>3. CASE i # k
        <4>1. i \in 1 .. (k - 1)
          BY <1>2, <2>1, <3>1, <3>3
        <4> QED
          BY <1>3, <3>1, <4>1 DEF Kept
      <3> QED
        BY <3>2, <3>3
    <2> QED
      BY <1>9, <2>1, <2>3, <2>4 DEF LiveAccounted
  <1> QED
    BY <1>8, <1>9

\* Dropping every idle connection leaves only lent ones live.
LEMMA ClosedKeepsLive ==
    ASSUME TypeOK, LiveAccounted, health' = ClosedAfter(0), held' = held
    PROVE  LiveAccounted'
  <1> SUFFICES ASSUME NEW c \in Conns, health'[c] # "none"
               PROVE  c \in Kept' \cup Lent'
    BY DEF LiveAccounted
  <1>1. health[c] # "none" /\ ~ \E i \in 1 .. Len(idle) : idle[i] = c
    BY DEF ClosedAfter
  <1>2. c \in Lent
    BY <1>1 DEF LiveAccounted, Kept, TypeOK
  <1> QED
    BY <1>2 DEF Lent

\* Reserving a slot empties the deque: the lease's cap is the pool's.
LEMMA ReserveReserves ==
    ASSUME IInv, IInv', NEW t \in Threads, Reserve(t)
    PROVE  Lease!Reserve(t) /\ (LiveAccounted => LiveAccounted')
  <1> USE DEF IInv
  <1>1. /\ idle' = << >> /\ health' = ClosedAfter(0) /\ held' = held
        /\ pc' = MoveAndNotify(t, "dialing", Len(idle))
    BY DEF Reserve
  <1>2. /\ pc[t] \in {"enter", "woken"} /\ held[t] = NoConn
        /\ pc' \in [Threads -> Places] /\ pc'[t] = "dialing"
        /\ \A u \in Threads \ {t} :
              pc'[u] = pc[u] \/ (pc[u] = "waiting" /\ pc'[u] = "woken")
    BY <1>1, MoveProperties DEF Reserve, AtLoopHead, ConnectionsExclusive, Places
  <1>3. Slots' = Slots \cup {t} /\ t \notin Slots
    BY <1>2, SlotsMove DEF Slots
  <1>4. Kept' = {}
    BY <1>1 DEF Kept
  <1>5. (Cardinality(Kept) + Cardinality(Lent) + Cardinality(Slots) <= MaxSize)'
    BY LeasesCapped, PTL
  <1>6. Lease!InUse' <= MaxSize
    BY <1>5, Zenon
    DEF Lease!InUse, Lease!Leased, Lease!Cardinality, Cardinality, Kept, Lent, Slots
  <1>7. Lease!Free(t)
    BY <1>2, <1>3 DEF Lease!Free, Slots
  <1> QED
    BY <1>1, <1>3, <1>4, <1>6, <1>7, ClosedKeepsLive DEF Lease!Reserve, Kept, Slots

\* A dialed connection is a fresh one, and the slot becomes the lease.
LEMMA DialOkOpens ==
    ASSUME IInv, NEW t \in Threads, DialOk(t)
    PROVE  Lease!Open(t) /\ (LiveAccounted => LiveAccounted')
  <1> USE DEF IInv
  <1>1. PICK c \in Conns : /\ health[c] = "none"
                           /\ health' = [health EXCEPT ![c] = "open"]
                           /\ held' = [held EXCEPT ![t] = c]
    BY DEF DialOk
  <1>2. pc[t] = "dialing" /\ pc' = [pc EXCEPT ![t] = "borrowed"] /\ idle' = idle
    BY DEF DialOk
  <1>3. Slots' = Slots \ {t} /\ t \in Slots
    BY <1>2, SlotsMove DEF Slots, TypeOK, Places
  <1>4. c \notin Kept /\ c \notin Lent /\ Kept' = Kept
    BY <1>1, <1>2 DEF Kept, Lent, ConnectionsExclusive
  <1>5. Lease!Open(t)
    BY <1>1, <1>3, <1>4 DEF Lease!Open, Lease!Leased, Kept, Lent, Slots
  <1>6. ASSUME LiveAccounted PROVE LiveAccounted'
    <2>1. held[t] = NoConn
      BY <1>2 DEF ConnectionsExclusive
    <2>2. held'[t] = c /\ c # NoConn /\ \A u \in Threads \ {t} : held'[u] = held[u]
      BY <1>1, ConnsAssumption DEF TypeOK
    <2>3. Lent' = Lent \cup {c}
      BY <2>1, <2>2 DEF Lent
    <2>4. \A d \in Conns \ {c} : health'[d] = health[d]
      BY <1>1 DEF TypeOK
    <2> QED
      BY <1>4, <1>6, <2>3, <2>4 DEF LiveAccounted
  <1> QED
    BY <1>5, <1>6

\* A released connection goes from the borrower to the deque.
LEMMA ReleaseReturns ==
    ASSUME IInv, NEW t \in Threads, Release(t)
    PROVE  Lease!Return(t) /\ (LiveAccounted => LiveAccounted')
  <1> USE DEF IInv
  <1>1. /\ pc[t] = "borrowed" /\ idle' = Append(idle, held[t])
        /\ held' = [held EXCEPT ![t] = NoConn] /\ health' = health
        /\ pc' = MoveAndNotify(t, "out", 1)
    BY DEF Release
  <1>2. held[t] # NoConn /\ held[t] \in Conns
    BY <1>1, ConnsAssumption DEF TypeOK, ConnectionsExclusive
  <1>3. /\ pc' \in [Threads -> Places] /\ pc'[t] = "out"
        /\ \A u \in Threads \ {t} :
              pc'[u] = pc[u] \/ (pc[u] = "waiting" /\ pc'[u] = "woken")
    BY <1>1, MoveProperties DEF Places
  <1>4. Slots' = Slots
    BY <1>1, <1>3, SlotsMove DEF Slots
  <1>5. Kept' = Kept \cup {held[t]}
    <2>1. /\ idle \in Seq(Conns) /\ Len(idle) \in Nat /\ DOMAIN idle = 1 .. Len(idle)
      BY DEF TypeOK
    <2>2. DOMAIN idle' = 1 .. (Len(idle) + 1) /\ idle'[Len(idle) + 1] = held[t]
          /\ \A i \in 1 .. Len(idle) : idle'[i] = idle[i]
      BY <1>1, <1>2, <2>1
    <2> QED
      BY <2>1, <2>2 DEF Kept
  <1>6. Lease!Return(t)
    BY <1>1, <1>2, <1>4, <1>5 DEF Lease!Return, Kept, Slots
  <1>7. ASSUME LiveAccounted PROVE LiveAccounted'
    <2>1. \A u \in Threads \ {t} : held'[u] = held[u]
      BY <1>1 DEF TypeOK
    <2>2. Lent \subseteq Lent' \cup {held[t]}
      BY <2>1 DEF Lent
    <2> QED
      BY <1>1, <1>5, <1>7, <2>2 DEF LiveAccounted
  <1> QED
    BY <1>6, <1>7

\* A discarded connection is closed while its slot is still held.
LEMMA DiscardDrops ==
    ASSUME IInv, NEW t \in Threads, Discard(t)
    PROVE  Lease!Drop(t) /\ (LiveAccounted => LiveAccounted')
  <1> USE DEF IInv
  <1>1. /\ pc[t] = "borrowed" /\ pc' = [pc EXCEPT ![t] = "closed"]
        /\ health' = [health EXCEPT ![held[t]] = "none"]
        /\ held' = [held EXCEPT ![t] = NoConn] /\ idle' = idle
    BY DEF Discard
  <1>2. held[t] # NoConn /\ held[t] \in Conns
    BY <1>1, ConnsAssumption DEF TypeOK, ConnectionsExclusive
  <1>3. Slots' = Slots \cup {t}
    BY <1>1, SlotsMove DEF TypeOK, Places
  <1>4. Kept' = Kept
    BY <1>1 DEF Kept
  <1>5. Lease!Drop(t)
    BY <1>1, <1>2, <1>3, <1>4 DEF Lease!Drop, Kept, Slots
  <1>6. ASSUME LiveAccounted PROVE LiveAccounted'
    <2>1. \A u \in Threads \ {t} : held'[u] = held[u]
      BY <1>1 DEF TypeOK
    <2>2. Lent \subseteq Lent' \cup {held[t]}
      BY <2>1 DEF Lent
    <2>3. /\ health'[held[t]] = "none"
          /\ \A d \in Conns \ {held[t]} : health'[d] = health[d]
      BY <1>1, <1>2 DEF TypeOK
    <2> QED
      BY <1>4, <1>6, <2>2, <2>3 DEF LiveAccounted
  <1> QED
    BY <1>5, <1>6

\* Giving a slot up touches no connection.
LEMMA FreeSlotFrees ==
    ASSUME IInv, NEW t \in Threads, FreeSlot(t)
    PROVE  Lease!FreeSlot(t) /\ (LiveAccounted => LiveAccounted')
  <1> USE DEF IInv
  <1>1. /\ pc[t] \in {"failed", "closed"} /\ pc' = MoveAndNotify(t, "out", 1)
        /\ UNCHANGED <<idle, held, health>>
    BY DEF FreeSlot
  <1>2. /\ pc' \in [Threads -> Places] /\ pc'[t] = "out"
        /\ \A u \in Threads \ {t} :
              pc'[u] = pc[u] \/ (pc[u] = "waiting" /\ pc'[u] = "woken")
    BY <1>1, MoveProperties DEF Places
  <1>3. Slots' = Slots \ {t} /\ t \in Slots
    BY <1>1, <1>2, SlotsMove DEF Slots
  <1>4. Lease!FreeSlot(t)
    BY <1>1, <1>3 DEF Lease!FreeSlot, Slots
  <1> QED
    BY <1>1, <1>4 DEF LiveAccounted, Kept, Lent

\* close() drops what is idle and leaves what is lent.
LEMMA CloseClears ==
    ASSUME IInv, Close
    PROVE  Lease!Clear /\ (LiveAccounted => LiveAccounted')
  <1> USE DEF IInv
  <1>1. idle' = << >> /\ health' = ClosedAfter(0) /\ held' = held
    BY DEF Close
  <1>2. \A u \in Threads : pc'[u] = pc[u] \/ (pc[u] = "waiting" /\ pc'[u] = "woken")
    BY Zenon DEF Close, TypeOK
  <1>3. Slots' = Slots
    BY <1>2 DEF Slots
  <1> QED
    BY <1>1, <1>3, ClosedKeepsLive DEF Lease!Clear, Slots

\* Waiting for a lease, and a dial that fails, change none.
LEMMA OthersStutter ==
    ASSUME IInv, NEW t \in Threads,
           \/ Call(t) \/ GiveUp(t) \/ Block(t) \/ WaitTimesOut(t)
           \/ ResumeExpired(t) \/ DialFails(t)
    PROVE  UNCHANGED <<idle, held, health>> /\ Slots' = Slots
  <1> USE DEF IInv
  <1>1. UNCHANGED <<idle, held, health>>
    BY DEF Call, GiveUp, Block, WaitTimesOut, ResumeExpired, DialFails
  <1>2. PICK p \in Places :
            /\ pc' = [pc EXCEPT ![t] = p]
            /\ p \in {"dialing", "failed", "closed"}
                 <=> pc[t] \in {"dialing", "failed", "closed"}
    <2>1. CASE pc[t] = "out" /\ pc' = [pc EXCEPT ![t] = "enter"]
      BY <2>1 DEF Places
    <2>2. CASE pc[t] \in {"enter", "woken", "expired"} /\ pc' = [pc EXCEPT ![t] = "out"]
      BY <2>2 DEF Places
    <2>3. CASE pc[t] \in {"enter", "woken"} /\ pc' = [pc EXCEPT ![t] = "waiting"]
      BY <2>3 DEF Places
    <2>4. CASE pc[t] = "waiting" /\ pc' = [pc EXCEPT ![t] = "expired"]
      BY <2>4 DEF Places
    <2>5. CASE pc[t] = "dialing" /\ pc' = [pc EXCEPT ![t] = "failed"]
      BY <2>5 DEF Places
    <2> QED
      BY <2>1, <2>2, <2>3, <2>4, <2>5
      DEF Call, GiveUp, Block, WaitTimesOut, ResumeExpired, DialFails, AtLoopHead
  <1>3. Slots' = Slots
    BY <1>2 DEF TypeOK, Slots
  <1> QED
    BY <1>1, <1>3

-----------------------------------------------------------------------------
(* The theorems                                                            *)

\* A step of the pool is one of the lease or none, and forgets no connection.
Simulated == [Lease!Next]_(Lease!vars) /\ (LiveAccounted => LiveAccounted')

\* Every step of the pool is simulated.
LEMMA LeaseStep ==
    IInv /\ IInv' /\ [Next]_vars => Simulated
  <1> SUFFICES ASSUME IInv, IInv', [Next]_vars
               PROVE  Simulated
    OBVIOUS
  <1>1. ASSUME UNCHANGED <<idle, held>>, Slots' = Slots,
               \A c \in Conns : health'[c] # "none" => health[c] # "none"
        PROVE  Simulated
    BY <1>1 DEF Simulated, Lease!vars, Slots, LiveAccounted, Kept, Lent
  <1>2. ASSUME NEW t \in Threads, Call(t) \/ Step(t)
        PROVE  Simulated
    <2>1. CASE TakeWarm(t)
      BY <2>1, TakeWarmLends DEF Simulated, Lease!Next
    <2>2. CASE Reserve(t)
      BY <2>2, ReserveReserves DEF Simulated, Lease!Next
    <2>3. CASE DialOk(t)
      BY <2>3, DialOkOpens DEF Simulated, Lease!Next
    <2>4. CASE Release(t)
      BY <2>4, ReleaseReturns DEF Simulated, Lease!Next
    <2>5. CASE Discard(t)
      BY <2>5, DiscardDrops DEF Simulated, Lease!Next
    <2>6. CASE FreeSlot(t)
      BY <2>6, FreeSlotFrees DEF Simulated, Lease!Next
    <2>7. CASE \/ Call(t) \/ GiveUp(t) \/ Block(t) \/ WaitTimesOut(t)
               \/ ResumeExpired(t) \/ DialFails(t)
      BY <1>1, <2>7, OthersStutter
    <2> QED
      BY <1>2, <2>1, <2>2, <2>3, <2>4, <2>5, <2>6, <2>7 DEF Step
  <1>3. ASSUME NEW t \in Threads, DeadlineElapses(t)
        PROVE  Simulated
    BY <1>1, <1>3 DEF DeadlineElapses, Slots
  <1>4. ASSUME NEW c \in Conns, ServerCloses(c)
        PROVE  Simulated
    <2>1. /\ health[c] = "open" /\ health' = [health EXCEPT ![c] = "stale"]
          /\ UNCHANGED <<idle, held, pc>>
      BY <1>4 DEF ServerCloses
    <2>2. \A d \in Conns : health'[d] # "none" => health[d] # "none"
      BY <2>1 DEF IInv, TypeOK
    <2> QED
      BY <1>1, <2>1, <2>2 DEF Slots
  <1>5. ASSUME Close PROVE Simulated
    BY <1>5, CloseClears DEF Simulated, Lease!Next
  <1>6. ASSUME UNCHANGED vars PROVE Simulated
    BY <1>1, <1>6 DEF vars, Slots
  <1> QED
    BY <1>2, <1>3, <1>4, <1>5, <1>6 DEF Next

\* The pool implements the lease: whatever the threads, the server and the
\* deadlines do, a connection is lent to one thread at a time, and leases,
\* kept connections and reserved slots never exceed maxsize.
THEOREM PoolImplementsLease == Spec => ImplementsLease
  <1>1. Init => Lease!Init
    BY DEF Init, Lease!Init
  <1>2. IInv /\ IInv' /\ [Next]_vars => [Lease!Next]_(Lease!vars)
    BY LeaseStep DEF Simulated
  <1> QED
    BY <1>1, <1>2, PoolInvariant, PTL DEF Spec, ImplementsLease, Lease!Spec

\* Live connections are kept or lent, so the cap on both caps them.
LEMMA LiveCapped ==
    ASSUME IInv, LiveAccounted
    PROVE  LiveConnectionsCapped
  <1> DEFINE Live == {c \in Conns : health[c] # "none"}
  <1>1. Live \subseteq Kept \cup Lent
    BY DEF LiveAccounted
  <1>2. /\ IsFiniteSet(Kept) /\ IsFiniteSet(Lent)
        /\ Cardinality(Kept) \in Nat /\ Cardinality(Lent) \in Nat
        /\ Cardinality(Slots) \in Nat
    BY KeptCounted, OwnersCounted DEF IInv
  <1>3. /\ IsFiniteSet(Kept \cup Lent)
        /\ Cardinality(Kept \cup Lent)
             = Cardinality(Kept) + Cardinality(Lent) - Cardinality(Kept \cap Lent)
    BY <1>2, FS_Union
  <1>4. Cardinality(Kept \cap Lent) \in Nat
    BY <1>2, FS_Intersection, FS_CardinalityType
  <1>5. Cardinality(Live) <= Cardinality(Kept \cup Lent) /\ Cardinality(Live) \in Nat
    BY <1>1, <1>3, FS_Subset, FS_CardinalityType
  <1> HIDE DEF Live
  <1>6. Cardinality(Live) <= MaxSize
    BY <1>2, <1>3, <1>4, <1>5, LeasesCapped, MaxSizeAssumption
  <1> QED
    BY <1>6 DEF LiveConnectionsCapped, Live

\* maxsize caps the connections that are open, or that the server has closed
\* and the client not yet: no path leaves one behind that nobody counts.
THEOREM PoolLiveConnectionsCapped == Spec => []LiveConnectionsCapped
  <1>1. Init => LiveAccounted
    BY DEF Init, LiveAccounted
  <1>2. IInv /\ IInv' /\ [Next]_vars /\ LiveAccounted => LiveAccounted'
    BY LeaseStep DEF Simulated
  <1>3. IInv /\ LiveAccounted => LiveConnectionsCapped
    BY LiveCapped
  <1> QED
    BY <1>1, <1>2, <1>3, PoolInvariant, PTL DEF Spec
=============================================================================
