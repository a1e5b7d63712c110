-------------------------- MODULE ConnectionLease ---------------------------
(***************************************************************************)
(* What ConnectionPool promises its borrowers, without its queue, its lock *)
(* or its order: a connection is lent to one thread at a time, and leases, *)
(* kept connections and reserved slots together never exceed the cap.      *)
(***************************************************************************)
EXTENDS Integers, FiniteSets

CONSTANTS Threads, Conns, MaxSize, NoConn

VARIABLES
    lease,      \* the connection lent to each thread
    kept,       \* the connections kept open for reuse
    slots       \* the threads that hold a slot without a connection

vars == <<lease, kept, slots>>

Leased == {lease[t] : t \in Threads} \ {NoConn}
InUse == Cardinality(kept) + Cardinality(Leased) + Cardinality(slots)

Init ==
    /\ lease = [t \in Threads |-> NoConn]
    /\ kept = {}
    /\ slots = {}

Free(t) == lease[t] = NoConn /\ t \notin slots

\* Kept connections may be dropped on the way to a usable one.
Lend(t) ==
    /\ Free(t)
    /\ \E keep \in SUBSET kept : \E c \in kept \ keep :
        /\ kept' = keep
        /\ lease' = [lease EXCEPT ![t] = c]
    /\ UNCHANGED slots

Reserve(t) ==
    /\ Free(t)
    /\ kept' \in SUBSET kept
    /\ slots' = slots \cup {t}
    /\ InUse' <= MaxSize
    /\ UNCHANGED lease

Open(t) ==
    /\ t \in slots
    /\ \E c \in Conns \ (kept \cup Leased) : lease' = [lease EXCEPT ![t] = c]
    /\ slots' = slots \ {t}
    /\ UNCHANGED kept

Return(t) ==
    /\ lease[t] # NoConn
    /\ kept' = kept \cup {lease[t]}
    /\ lease' = [lease EXCEPT ![t] = NoConn]
    /\ UNCHANGED slots

Drop(t) ==
    /\ lease[t] # NoConn
    /\ lease' = [lease EXCEPT ![t] = NoConn]
    /\ slots' = slots \cup {t}
    /\ UNCHANGED kept

FreeSlot(t) ==
    /\ t \in slots
    /\ slots' = slots \ {t}
    /\ UNCHANGED <<lease, kept>>

Clear == kept' = {} /\ UNCHANGED <<lease, slots>>

Next ==
    \/ \E t \in Threads : \/ Lend(t) \/ Reserve(t) \/ Open(t)
                          \/ Return(t) \/ Drop(t) \/ FreeSlot(t)
    \/ Clear

Spec == Init /\ [][Next]_vars
=============================================================================
