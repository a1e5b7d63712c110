--------------------------- MODULE PagesAndFilesProofs --------------------------
(***************************************************************************)
(* Proofs about the two convenience methods that other callers disturb:    *)
(* the iterations and ensure_file.                                         *)
(*                                                                         *)
(* What an iteration may skip and repeat while the listing changes: for    *)
(* every set of records, page size and limit, and however many changes,    *)
(* each deletion costs it one record at most and each creation repeats one *)
(* at most.                                                                *)
(*                                                                         *)
(* The argument follows the boundary between the records the loop has      *)
(* asked for and the others (Passed).  A deletion moves one record over    *)
(* it in one direction, a creation one in the other; the loop itself moves *)
(* the boundary only over records that are on the page.                    *)
(*                                                                         *)
(* ensure_file returns the record of the bytes that the caller's file      *)
(* holds from where it was left, for every length of the file, whatever    *)
(* other callers store and the service drops, over any number of calls.    *)
(***************************************************************************)
EXTENDS Pagination, EnsureFile, TLAPS, FiniteSetTheorems

\* How far the loop has asked.
Passed == IF pageAt = "yield" THEN upto ELSE offset

\* No page comes behind this one.
Last == pageAt = "done" \/ (pageAt = "yield" /\ upto - offset < size)

ListInv ==
    /\ rank \in [Present -> 1 .. total] /\ total \in Nat
    /\ \A x, y \in Present : rank[x] = rank[y] => x = y
    /\ Present \subseteq Records /\ deleted \subseteq Records
    /\ Present \cap deleted = {}
    /\ created \subseteq Present \cup deleted

LoopInv ==
    /\ yielded \cup DOMAIN page \subseteq Present \cup deleted
    /\ pageSize \in Int /\ limit \in Int \cup {NoLimit}
    /\ fetched \in Nat /\ offset \in Nat /\ upto \in Int /\ size \in Int
    /\ pageAt \in {"start", "fetch", "yield", "done", "raised"}
    /\ pageAt # "yield" /\ pageAt # "done" => DOMAIN page = {}
    /\ pageAt \in {"fetch", "yield"} => pageSize \in 1 .. 1000
    /\ pageAt = "yield" => offset <= upto
    /\ pageAt = "done" /\ limit = NoLimit => DOMAIN page = {}

\* Records that were there from the start and will not come any more.
Lost ==
    {x \in Present \ (created \cup yielded \cup DOMAIN page) : Last \/ rank[x] <= Passed}

SkipInv == limit = NoLimit => Cardinality(Lost) <= Cardinality(deleted)

\* Records that will come a second time: the ones on the page, and the ones
\* that are ahead of the boundary again.
OnPageAgain == DOMAIN page \cap yielded
AheadAgain == {x \in Present \cap (yielded \cup DOMAIN page) : rank[x] > Passed}

RepeatInv ==
    /\ RepeatsBounded
    /\ pageAt # "done" =>
        fetched - Cardinality(yielded) + Cardinality(OnPageAgain) + Cardinality(AheadAgain)
            <= Cardinality(created)

-----------------------------------------------------------------------------
(* The sets are finite *)

LEMMA Finite ==
    ASSUME ListInv, LoopInv
    PROVE  \A S \in SUBSET Records : IsFiniteSet(S) /\ Cardinality(S) \in Nat
  BY FS_Subset, FS_CardinalityType, PageAssumption

LEMMA Counted ==
    ASSUME ListInv, LoopInv
    PROVE  /\ created \subseteq Records /\ yielded \subseteq Records
           /\ DOMAIN page \subseteq Records
           /\ Lost \subseteq Records /\ OnPageAgain \subseteq Records
           /\ AheadAgain \subseteq Records
  BY DEF ListInv, LoopInv, Lost, OnPageAgain, AheadAgain

LEMMA Smaller ==
    ASSUME NEW S \in SUBSET Records, NEW T \in SUBSET S
    PROVE  Cardinality(T) <= Cardinality(S)
  BY FS_Subset, PageAssumption

\* One more element at most.
LEMMA OneMore ==
    ASSUME NEW S \in SUBSET Records, NEW T \in SUBSET Records, NEW x, T \subseteq S \cup {x}
    PROVE  Cardinality(T) <= Cardinality(S) + 1
  <1>1. IsFiniteSet(S) /\ Cardinality(S) \in Nat
    BY FS_Subset, FS_CardinalityType, PageAssumption
  <1>2. IsFiniteSet(S \cup {x}) /\ Cardinality(S \cup {x}) <= Cardinality(S) + 1
    BY <1>1, FS_AddElement
  <1>3. Cardinality(T) <= Cardinality(S \cup {x})
    BY <1>2, FS_Subset
  <1>4. Cardinality(T) \in Nat /\ Cardinality(S \cup {x}) \in Nat
    BY <1>2, FS_Subset, FS_CardinalityType, PageAssumption
  <1> QED
    BY <1>1, <1>2, <1>3, <1>4

LEMMA Disjoint ==
    ASSUME NEW S, NEW T, IsFiniteSet(S), IsFiniteSet(T), S \cap T = {}
    PROVE  Cardinality(S \cup T) = Cardinality(S) + Cardinality(T)
  <1>1. Cardinality(S \cup T) = Cardinality(S) + Cardinality(T) - Cardinality(S \cap T)
    BY FS_Union
  <1>2. Cardinality(S \cap T) = 0
    BY FS_EmptySet
  <1>3. Cardinality(S) \in Nat /\ Cardinality(T) \in Nat
    BY FS_CardinalityType
  <1> QED
    BY <1>1, <1>2, <1>3

-----------------------------------------------------------------------------
(* The listing and the loop                                                *)

LEMMA ListInit == ASSUME PagesInit PROVE ListInv /\ LoopInv
  <1>1. PICK P \in SUBSET Records : rank \in [P -> 1 .. Cardinality(P)]
    BY DEF PagesInit, Listings
  <1>2. Present = P /\ Cardinality(P) \in Nat
    BY <1>1, FS_Subset, FS_CardinalityType, PageAssumption DEF Present
  <1>3. \A x, y \in Present : rank[x] = rank[y] => x = y
    BY DEF PagesInit, Listings, Present
  <1>4. ListInv
    BY <1>1, <1>2, <1>3 DEF ListInv, PagesInit
  <1>5. LoopInv
    BY PageAssumption DEF LoopInv, PagesInit, EmptyPage
  <1> QED
    BY <1>4, <1>5

LEMMA CreateList ==
    ASSUME ListInv, LoopInv, NEW x \in Records, NEW place \in 1 .. total + 1, Create(x, place)
    PROVE  /\ ListInv' /\ LoopInv'
           /\ Present' = Present \cup {x} /\ x \notin Present \cup deleted
           /\ rank'[x] = place
           /\ \A y \in Present :
                rank'[y] = IF rank[y] >= place THEN rank[y] + 1 ELSE rank[y]
  <1>1. /\ Present' = Present \cup {x} /\ x \notin Present \cup deleted
        /\ rank'[x] = place
        /\ \A y \in Present :
                rank'[y] = IF rank[y] >= place THEN rank[y] + 1 ELSE rank[y]
        /\ rank' = [y \in Present' |-> rank'[y]]
    BY DEF Create, Present
  <1>2. /\ total' = total + 1 /\ total \in Nat
        /\ \A y \in Present : rank[y] \in 1 .. total
    BY DEF Create, ListInv
  <1>3. \A y \in Present' : rank'[y] \in 1 .. total'
    BY <1>1, <1>2
  <1>4. \A y, z \in Present' : rank'[y] = rank'[z] => y = z
    BY <1>1, <1>2 DEF ListInv
  <1>5. ListInv'
    BY <1>1, <1>2, <1>3, <1>4 DEF ListInv, Create
  <1>6. LoopInv'
    BY <1>1 DEF LoopInv, Create, loopVars
  <1> QED
    BY <1>1, <1>5, <1>6

LEMMA DeleteList ==
    ASSUME ListInv, LoopInv, NEW x \in Present, Delete(x)
    PROVE  /\ ListInv' /\ LoopInv'
           /\ Present' = Present \ {x} /\ x \notin deleted
           /\ \A y \in Present' :
                rank'[y] = IF rank[y] > rank[x] THEN rank[y] - 1 ELSE rank[y]
  <1>1. /\ Present' = Present \ {x} /\ x \notin deleted
        /\ \A y \in Present' :
                rank'[y] = IF rank[y] > rank[x] THEN rank[y] - 1 ELSE rank[y]
        /\ rank' = [y \in Present' |-> rank'[y]]
    BY DEF Delete, Present, ListInv
  <1>2. /\ total' = total - 1 /\ total \in Nat
        /\ \A y \in Present : rank[y] \in 1 .. total
        /\ \A y, z \in Present : rank[y] = rank[z] => y = z
    BY DEF Delete, ListInv
  <1>3. \A y \in Present' : rank'[y] \in 1 .. total'
    BY <1>1, <1>2
  <1>4. \A y, z \in Present' : rank'[y] = rank'[z] => y = z
    BY <1>1, <1>2
  <1>5. total' \in Nat
    BY <1>2
  <1>6. ListInv'
    BY <1>1, <1>3, <1>4, <1>5 DEF ListInv, Delete
  <1>7. LoopInv'
    BY <1>1 DEF LoopInv, Delete, loopVars
  <1> QED
    BY <1>1, <1>6, <1>7

LEMMA LoopKeeps ==
    ASSUME ListInv, LoopInv, Loop
    PROVE  ListInv' /\ LoopInv'
  <1>1. ListInv' /\ UNCHANGED << listVars, pageSize, limit >>
    BY DEF Loop, Start, Fetch, Yield, PageOver, listVars, ListInv, Present
  <1>2. CASE Start
    BY <1>1, <1>2 DEF Start, LoopInv, listVars, Present
  <1>3. CASE Fetch
    <2>1. size' \in Int
      BY <1>3, PageAssumption DEF Fetch, PageLimit, Less, LoopInv
    <2>2. upto' \in Int
      BY <1>3, <2>1 DEF Fetch, Less, LoopInv, ListInv
    <2>3. DOMAIN page' = {y \in Present : rank[y] \in offset + 1 .. upto'}
      BY <1>3 DEF Fetch
    <2>4. ~ upto' > offset => DOMAIN page' = {}
      BY <2>2, <2>3 DEF LoopInv
    <2> QED
      BY <1>1, <1>3, <2>1, <2>2, <2>3, <2>4 DEF Fetch, LoopInv, listVars, Present
  <1>4. CASE \E x \in DOMAIN page : Yield(x)
    BY <1>1, <1>4 DEF Yield, LimitReached, LoopInv, listVars, Present
  <1>5. CASE PageOver
    BY <1>1, <1>5 DEF PageOver, NextOffset, LoopInv, listVars, Present
  <1> QED
    BY <1>2, <1>3, <1>4, <1>5 DEF Loop

-----------------------------------------------------------------------------
(* What is skipped                                                         *)

LEMMA SkipInit == ASSUME PagesInit PROVE SkipInv
  <1>1. Lost = {}
    BY ListInit DEF PagesInit, Lost, Last, Passed, ListInv
  <1>2. deleted = {}
    BY DEF PagesInit
  <1> QED
    BY <1>1, <1>2, FS_EmptySet DEF SkipInv

LEMMA SkipCreate ==
    ASSUME ListInv, LoopInv, SkipInv, NEW x \in Records, NEW place \in 1 .. total + 1,
           Create(x, place)
    PROVE  SkipInv'
  <1>1. /\ Last' = Last /\ Passed' = Passed /\ limit' = limit /\ deleted' = deleted
        /\ created' = created \cup {x} /\ page' = page /\ yielded' = yielded
    BY DEF Create, loopVars, Last, Passed
  <1>2. /\ Present' = Present \cup {x}
        /\ \A y \in Present : rank'[y] = IF rank[y] >= place THEN rank[y] + 1 ELSE rank[y]
    BY CreateList
  <1>3. Passed \in Int /\ \A y \in Present : rank[y] \in Int
    BY DEF LoopInv, ListInv, Passed
  <1>4. Lost' \subseteq Lost
    BY <1>1, <1>2, <1>3 DEF Lost
  <1>5. Cardinality(Lost') <= Cardinality(Lost)
    BY <1>4, Counted, Smaller
  <1>6. Lost' \subseteq Records
    BY <1>4, Counted
  <1>7. /\ Cardinality(Lost') \in Nat /\ Cardinality(Lost) \in Nat
        /\ Cardinality(deleted) \in Nat
    BY <1>6, Counted, Finite DEF ListInv
  <1> QED
    BY <1>1, <1>5, <1>7 DEF SkipInv

LEMMA SkipDelete ==
    ASSUME ListInv, LoopInv, SkipInv, NEW x \in Present, Delete(x)
    PROVE  SkipInv'
  <1>1. /\ Last' = Last /\ Passed' = Passed /\ limit' = limit
        /\ deleted' = deleted \cup {x} /\ x \notin deleted
        /\ created' = created /\ page' = page /\ yielded' = yielded
    BY DeleteList DEF Delete, loopVars, Last, Passed
  <1>2. /\ Present' = Present \ {x}
        /\ \A y \in Present' : rank'[y] = IF rank[y] > rank[x] THEN rank[y] - 1 ELSE rank[y]
    BY DeleteList
  <1>3. Passed \in Int /\ \A y \in Present : rank[y] \in Int
    BY DEF LoopInv, ListInv, Passed
  <1>4. \E z : Lost' \subseteq Lost \cup {z}
    <2>1. CASE \E z \in Present : rank[z] = Passed + 1
      <3>1. PICK z \in Present : rank[z] = Passed + 1
        BY <2>1
      <3>2. \A y \in Present : rank[y] = Passed + 1 => y = z
        BY <3>1 DEF ListInv
      <3>3. \A y \in Present' : rank'[y] <= Passed => rank[y] <= Passed \/ y = z
        BY <1>2, <1>3, <3>2
      <3>4. Lost' \subseteq Lost \cup {z}
        BY <1>1, <1>2, <3>3 DEF Lost
      <3> QED
        BY <3>4
    <2>2. CASE ~ \E z \in Present : rank[z] = Passed + 1
      <3>1. \A y \in Present' : rank'[y] <= Passed => rank[y] <= Passed
        BY <1>2, <1>3, <2>2
      <3>2. Lost' \subseteq Lost
        BY <1>1, <1>2, <3>1 DEF Lost
      <3> QED
        BY <3>2
    <2> QED
      BY <2>1, <2>2
  <1>5. Lost' \subseteq Records /\ Lost \subseteq Records
    BY <1>2, Counted DEF Lost, ListInv
  <1>6. Cardinality(Lost') <= Cardinality(Lost) + 1
    BY <1>4, <1>5, OneMore
  <1>7. Cardinality(deleted') = Cardinality(deleted) + 1
    BY <1>1, Finite, FS_AddElement DEF ListInv
  <1>8. /\ Cardinality(Lost') \in Nat /\ Cardinality(Lost) \in Nat
        /\ Cardinality(deleted) \in Nat
    BY <1>5, Finite DEF ListInv
  <1> QED
    BY <1>1, <1>6, <1>7, <1>8 DEF SkipInv

LEMMA SkipLoop ==
    ASSUME ListInv, LoopInv, SkipInv, Loop
    PROVE  SkipInv'
  <1>1. /\ UNCHANGED << rank, total, created, deleted, limit, pageSize >>
        /\ Present' = Present
    BY DEF Loop, Start, Fetch, Yield, PageOver, listVars, Present
  <1>2. SUFFICES ASSUME limit = NoLimit PROVE Lost' \subseteq Lost
    <2>1. CASE limit = NoLimit
      <3>1. Lost' \subseteq Lost
        BY <1>2, <2>1
      <3>2. Cardinality(Lost') <= Cardinality(Lost)
        BY <3>1, Counted, Smaller
      <3>3. Lost' \subseteq Records
        BY <3>1, Counted
      <3>4. /\ Cardinality(Lost') \in Nat /\ Cardinality(Lost) \in Nat
            /\ Cardinality(deleted) \in Nat
        BY <3>3, Counted, Finite DEF ListInv
      <3> QED
        BY <1>1, <2>1, <3>2, <3>4 DEF SkipInv
    <2> QED
      BY <1>1, <2>1 DEF SkipInv
  <1>3. CASE Start
    BY <1>1, <1>3 DEF Start, Lost, Last, Passed, listVars
  <1>4. CASE Fetch
    <2>1. size' = pageSize /\ size' \in Nat \ {0} /\ DOMAIN page = {} /\ pageAt = "fetch"
      BY <1>2, <1>4 DEF Fetch, PageLimit, LoopInv
    <2>2. upto' = (IF offset + size' <= total THEN offset + size' ELSE total)
      BY <1>4, <2>1 DEF Fetch, Less
    <2>3. \A y \in Present : rank[y] \in Int /\ rank[y] <= total
      BY DEF ListInv
    <2>4. offset \in Nat /\ total \in Nat
      BY DEF LoopInv, ListInv
    <2>5. DOMAIN page' = {y \in Present : rank[y] \in offset + 1 .. upto'}
      BY <1>4 DEF Fetch
    <2>6. offset' = offset /\ yielded' = yielded
      BY <1>4 DEF Fetch
    <2>7. CASE upto' > offset
      <3>1. pageAt' = "yield"
        BY <1>4, <2>7 DEF Fetch
      <3>2. Last' => upto' = total
        BY <2>1, <2>2, <2>4, <2>6, <3>1 DEF Last
      <3>3. \A y \in Present \ DOMAIN page' : (Last' \/ rank[y] <= upto') => rank[y] <= offset
        BY <2>2, <2>3, <2>4, <2>5, <3>2
      <3> QED
        BY <1>1, <2>1, <2>6, <3>1, <3>3 DEF Lost, Passed, Last
    <2>8. CASE ~ upto' > offset
      <3>1. pageAt' = "done" /\ total <= offset
        BY <1>4, <2>1, <2>2, <2>4, <2>8 DEF Fetch
      <3>2. \A y \in Present : rank[y] <= offset
        BY <2>3, <2>4, <3>1
      <3> QED
        BY <1>1, <2>1, <2>6, <3>2 DEF Lost, Passed, Last
    <2> QED
      BY <2>7, <2>8
  <1>5. CASE \E x \in DOMAIN page : Yield(x)
    <2>1. PICK x \in DOMAIN page : Yield(x)
      BY <1>5
    <2>2. /\ pageAt = "yield" /\ pageAt' = "yield"
          /\ UNCHANGED << offset, size, upto >>
          /\ yielded' \cup DOMAIN page' = yielded \cup DOMAIN page
      BY <1>2, <2>1 DEF Yield, LimitReached
    <2> QED
      BY <1>1, <2>2 DEF Lost, Passed, Last
  <1>6. CASE PageOver
    <2>1. /\ pageAt = "yield" /\ UNCHANGED << size, upto, page, yielded >>
          /\ Last => Last'
          /\ ~ Last => pageAt' = "fetch" /\ offset' = upto
      BY <1>6 DEF PageOver, NextOffset, Last
    <2>2. CASE Last
      BY <1>1, <2>1, <2>2 DEF Lost
    <2>3. CASE ~ Last
      BY <1>1, <2>1, <2>3 DEF Lost, Passed, Last
    <2> QED
      BY <2>2, <2>3
  <1> QED
    BY <1>3, <1>4, <1>5, <1>6 DEF Loop

-----------------------------------------------------------------------------
(* What comes twice                                                        *)

LEMMA RepeatNumbers ==
    ASSUME ListInv, LoopInv
    PROVE  /\ fetched \in Nat /\ Cardinality(yielded) \in Nat /\ Cardinality(created) \in Nat
           /\ Cardinality(OnPageAgain) \in Nat /\ Cardinality(AheadAgain) \in Nat
  BY Counted, Finite DEF LoopInv

LEMMA RepeatInit == ASSUME PagesInit PROVE RepeatInv
  <1>1. OnPageAgain = {} /\ AheadAgain = {} /\ yielded = {} /\ created = {} /\ fetched = 0
    BY DEF PagesInit, OnPageAgain, AheadAgain, EmptyPage
  <1>2. Cardinality({}) = 0
    BY FS_EmptySet
  <1> QED
    BY <1>1, <1>2 DEF RepeatInv, RepeatsBounded

LEMMA RepeatCreate ==
    ASSUME ListInv, LoopInv, RepeatInv, NEW x \in Records, NEW place \in 1 .. total + 1,
           Create(x, place)
    PROVE  RepeatInv'
  <1>1. /\ Passed' = Passed /\ pageAt' = pageAt /\ fetched' = fetched
        /\ created' = created \cup {x} /\ page' = page /\ yielded' = yielded
    BY DEF Create, loopVars, Passed
  <1>2. /\ Present' = Present \cup {x} /\ x \notin Present \cup deleted
        /\ \A y \in Present : rank'[y] = IF rank[y] >= place THEN rank[y] + 1 ELSE rank[y]
        /\ ListInv' /\ LoopInv'
    BY CreateList
  <1>3. Passed \in Int /\ \A y \in Present : rank[y] \in Int
    BY DEF LoopInv, ListInv, Passed
  <1>4. x \notin created /\ x \notin yielded \cup DOMAIN page
    BY <1>2 DEF ListInv, LoopInv
  <1>5. \E z : AheadAgain' \subseteq AheadAgain \cup {z}
    <2>1. CASE \E z \in Present : rank[z] = Passed
      <3>1. PICK z \in Present : rank[z] = Passed
        BY <2>1
      <3>2. \A y \in Present : rank[y] = Passed => y = z
        BY <3>1 DEF ListInv
      <3>3. \A y \in Present : rank'[y] > Passed => rank[y] > Passed \/ y = z
        BY <1>2, <1>3, <3>2
      <3>4. AheadAgain' \subseteq AheadAgain \cup {z}
        BY <1>1, <1>2, <1>4, <3>3 DEF AheadAgain
      <3> QED
        BY <3>4
    <2>2. CASE ~ \E z \in Present : rank[z] = Passed
      <3>1. \A y \in Present : rank'[y] > Passed => rank[y] > Passed
        BY <1>2, <1>3, <2>2
      <3>2. AheadAgain' \subseteq AheadAgain
        BY <1>1, <1>2, <1>4, <3>1 DEF AheadAgain
      <3> QED
        BY <3>2
    <2> QED
      BY <2>1, <2>2
  <1>6. AheadAgain' \subseteq Records /\ AheadAgain \subseteq Records
    BY <1>2, Counted DEF AheadAgain, ListInv
  <1>7. Cardinality(AheadAgain') <= Cardinality(AheadAgain) + 1
    BY <1>5, <1>6, OneMore
  <1>8. Cardinality(created') = Cardinality(created) + 1
    BY <1>1, <1>4, Counted, Finite, FS_AddElement
  <1>9. OnPageAgain' = OnPageAgain
    BY <1>1 DEF OnPageAgain
  <1>10. Cardinality(AheadAgain') \in Nat
    BY <1>6, Finite
  <1> QED
    BY <1>1, <1>7, <1>8, <1>9, <1>10, RepeatNumbers DEF RepeatInv, RepeatsBounded

\* A step that creates nothing, yields nothing and puts no more ahead.
LEMMA RepeatStill ==
    ASSUME ListInv, LoopInv, RepeatInv, pageAt # "done",
           UNCHANGED << created, fetched, yielded, page >>,
           AheadAgain' \subseteq AheadAgain
    PROVE  RepeatInv'
  <1>1. OnPageAgain' = OnPageAgain
    BY DEF OnPageAgain
  <1>2. Cardinality(AheadAgain') <= Cardinality(AheadAgain)
    BY Counted, Smaller
  <1>3. AheadAgain' \subseteq Records
    BY Counted
  <1>4. Cardinality(AheadAgain') \in Nat
    BY <1>3, Finite
  <1> QED
    BY <1>1, <1>2, <1>4, RepeatNumbers DEF RepeatInv, RepeatsBounded

LEMMA RepeatDelete ==
    ASSUME ListInv, LoopInv, RepeatInv, NEW x \in Present, Delete(x)
    PROVE  RepeatInv'
  <1>1. /\ Passed' = Passed /\ pageAt' = pageAt
        /\ UNCHANGED << created, fetched, yielded, page >>
    BY DEF Delete, loopVars, Passed
  <1>2. /\ Present' = Present \ {x}
        /\ \A y \in Present' : rank'[y] = IF rank[y] > rank[x] THEN rank[y] - 1 ELSE rank[y]
    BY DeleteList
  <1>3. Passed \in Int /\ \A y \in Present : rank[y] \in Int
    BY DEF LoopInv, ListInv, Passed
  <1>4. \A y \in Present' : rank'[y] > Passed => rank[y] > Passed
    BY <1>2, <1>3
  <1>5. AheadAgain' \subseteq AheadAgain
    BY <1>1, <1>2, <1>4 DEF AheadAgain
  <1>6. CASE pageAt = "done"
    BY <1>1, <1>6 DEF RepeatInv, RepeatsBounded
  <1> QED
    BY <1>1, <1>5, <1>6, RepeatStill

LEMMA RepeatFetch ==
    ASSUME ListInv, LoopInv, RepeatInv, Fetch
    PROVE  RepeatInv'
  <1>1. /\ UNCHANGED << rank, total, created, deleted, fetched, offset, yielded >>
        /\ Present' = Present /\ pageAt = "fetch" /\ DOMAIN page = {} /\ Passed = offset
        /\ DOMAIN page' = {y \in Present : rank[y] \in offset + 1 .. upto'}
        /\ pageAt' = IF upto' > offset THEN "yield" ELSE "done"
    BY DEF Fetch, listVars, Present, LoopInv, Passed
  <1>2. /\ OnPageAgain = {} /\ Cardinality({}) = 0
    BY <1>1, FS_EmptySet DEF OnPageAgain
  <1>3. CASE ~ upto' > offset
    BY <1>1, <1>2, <1>3, RepeatNumbers DEF RepeatInv, RepeatsBounded
  <1>4. CASE upto' > offset
    <2>1. ListInv' /\ LoopInv'
      BY LoopKeeps DEF Loop
    <2>2. \A y \in Present : rank[y] \in Int
      BY DEF ListInv
    <2>3. offset \in Int /\ upto' \in Int /\ Passed' = upto'
      BY <1>1, <1>4, <2>1 DEF LoopInv, Passed
    <2>4. /\ AheadAgain = {y \in Present \cap yielded : rank[y] > offset}
          /\ OnPageAgain' = {y \in Present \cap yielded : rank[y] \in offset + 1 .. upto'}
          /\ AheadAgain' = {y \in Present \cap (yielded \cup DOMAIN page') : rank[y] > upto'}
      BY <1>1, <2>3 DEF AheadAgain, OnPageAgain
    <2>5. AheadAgain' = {y \in Present \cap yielded : rank[y] > upto'}
      BY <1>1, <2>2, <2>3, <2>4
    <2>6. OnPageAgain' \cup AheadAgain' \subseteq AheadAgain
      BY <1>4, <2>2, <2>3, <2>4, <2>5
    <2>7. OnPageAgain' \cap AheadAgain' = {}
      BY <2>2, <2>3, <2>4, <2>5
    <2>8. /\ IsFiniteSet(OnPageAgain') /\ IsFiniteSet(AheadAgain')
          /\ Cardinality(OnPageAgain') \in Nat /\ Cardinality(AheadAgain') \in Nat
      BY <2>6, Counted, Finite
    <2>9. Cardinality(OnPageAgain' \cup AheadAgain')
            = Cardinality(OnPageAgain') + Cardinality(AheadAgain')
      BY <2>7, <2>8, Disjoint
    <2>10. Cardinality(OnPageAgain' \cup AheadAgain') <= Cardinality(AheadAgain)
      BY <2>6, Counted, Smaller
    <2> QED
      BY <1>1, <1>2, <2>8, <2>9, <2>10, RepeatNumbers DEF RepeatInv, RepeatsBounded
  <1> QED
    BY <1>3, <1>4

LEMMA RepeatYield ==
    ASSUME ListInv, LoopInv, RepeatInv, NEW x \in DOMAIN page, Yield(x)
    PROVE  RepeatInv'
  <1>1. /\ UNCHANGED << rank, created, offset, upto >> /\ Present' = Present
        /\ pageAt = "yield" /\ pageAt' \in {"yield", "done"}
        /\ yielded' = yielded \cup {x} /\ fetched' = fetched + 1
        /\ DOMAIN page' = DOMAIN page \ {x}
    BY DEF Yield, listVars, Present
  <1>2. IsFiniteSet(yielded) /\ IsFiniteSet(OnPageAgain)
    BY Counted, Finite
  <1>3. OnPageAgain' = OnPageAgain \ {x} /\ (x \in OnPageAgain <=> x \in yielded)
    BY <1>1 DEF OnPageAgain
  <1>4. Cardinality(yielded')
          = IF x \in yielded THEN Cardinality(yielded) ELSE Cardinality(yielded) + 1
    BY <1>1, <1>2, FS_AddElement
  <1>5. Cardinality(OnPageAgain')
          = IF x \in yielded THEN Cardinality(OnPageAgain) - 1 ELSE Cardinality(OnPageAgain)
    BY <1>2, <1>3, FS_RemoveElement
  <1>6. pageAt' = "yield" => AheadAgain' = AheadAgain
    BY <1>1 DEF AheadAgain, Passed
  <1>7. OnPageAgain' \subseteq Records
    BY <1>3, Counted
  <1>8. Cardinality(OnPageAgain') \in Nat
    BY <1>7, Finite
  <1> QED
    BY <1>1, <1>4, <1>5, <1>6, <1>8, RepeatNumbers DEF RepeatInv, RepeatsBounded

LEMMA RepeatLoop ==
    ASSUME ListInv, LoopInv, RepeatInv, Loop
    PROVE  RepeatInv'
  <1>1. CASE Start
    <2>1. /\ UNCHANGED << rank, created, fetched, offset, yielded, page >>
          /\ pageAt # "done" /\ pageAt # "yield" /\ pageAt' # "yield" /\ Present' = Present
      BY <1>1 DEF Start, listVars, Present
    <2>2. AheadAgain' \subseteq AheadAgain
      BY <2>1 DEF AheadAgain, Passed
    <2> QED
      BY <2>1, <2>2, RepeatStill
  <1>2. CASE Fetch
    BY <1>2, RepeatFetch
  <1>3. CASE \E x \in DOMAIN page : Yield(x)
    BY <1>3, RepeatYield
  <1>4. CASE PageOver
    <2>1. /\ UNCHANGED << rank, created, fetched, yielded, page >>
          /\ pageAt = "yield" /\ Present' = Present
          /\ pageAt' = "done" \/ (pageAt' = "fetch" /\ offset' = upto)
      BY <1>4 DEF PageOver, NextOffset, listVars, Present
    <2>2. CASE pageAt' = "done"
      BY <2>1, <2>2 DEF RepeatInv, RepeatsBounded
    <2>3. CASE pageAt' = "fetch" /\ offset' = upto
      <3>1. AheadAgain' \subseteq AheadAgain
        BY <2>1, <2>3 DEF AheadAgain, Passed
      <3> QED
        BY <2>1, <3>1, RepeatStill
    <2> QED
      BY <2>1, <2>2, <2>3
  <1> QED
    BY <1>1, <1>2, <1>3, <1>4 DEF Loop

-----------------------------------------------------------------------------
(* What is exact when nothing changes                                      *)

Still == created = {} /\ deleted = {}

\* The listing has no gap, and no step of another caller has made one.
NoGap == \A i \in 1 .. total : \E x \in Present : rank[x] = i

FirstOnes(n) == {x \in Present : rank[x] <= n}

\* The loop has yielded the first records, as many as it has counted; the page
\* holds the next ones, within the limit and up to its end.
Exactly ==
    /\ NoGap
    /\ pageAt \in {"start", "fetch", "yield"} => yielded = FirstOnes(fetched)
    /\ pageAt \in {"start", "fetch"} =>
          /\ fetched = offset
          /\ limit # NoLimit => fetched < limit \/ fetched = 0
    /\ pageAt = "yield" =>
          /\ fetched \in offset .. upto /\ upto <= total
          /\ upto - offset < size => upto = total
          /\ DOMAIN page = {x \in Present : rank[x] \in fetched + 1 .. upto}
          /\ \A x \in DOMAIN page : page[x] = rank[x]
          /\ limit # NoLimit => fetched < limit /\ upto <= limit
    /\ ExactWhenStill

StillInv == Still => Exactly

LEMMA LessBounds ==
    \A a, b, n \in Int :
        LET least == Less(a + b, n)
        IN  /\ least \in Int /\ least <= n /\ least <= a + b
            /\ least - a < b => least = n
  BY DEF Less

LEMMA StillInit == ASSUME PagesInit PROVE StillInv
  <1>1. PICK P \in SUBSET Records : rank \in [P -> 1 .. Cardinality(P)]
    BY DEF PagesInit, Listings
  <1>2. Present = P /\ total = Cardinality(P) /\ total \in Nat /\ IsFiniteSet(P)
    BY <1>1, FS_Subset, FS_CardinalityType, PageAssumption DEF PagesInit, Present
  <1>3. rank \in Injection(P, 1 .. total)
    BY <1>1, <1>2 DEF PagesInit, Listings, Injection, IsInjective
  <1>4. Cardinality(1 .. total) = total /\ IsFiniteSet(1 .. total)
    BY <1>2, FS_Interval
  <1>5. rank \in Surjection(P, 1 .. total)
    BY <1>2, <1>3, <1>4, FS_Injection
  <1>6. NoGap
    BY <1>2, <1>5 DEF NoGap, Surjection
  <1>7. \A x \in Present : rank[x] \in 1 .. total
    BY <1>1, <1>2
  <1>8. FirstOnes(0) = {}
    BY <1>2, <1>7 DEF FirstOnes
  <1> QED
    BY <1>6, <1>8 DEF StillInv, Exactly, ExactWhenStill, PagesInit

LEMMA StillFetch ==
    ASSUME ListInv, LoopInv, Exactly, Still, Fetch
    PROVE  Exactly'
  <1>1. /\ UNCHANGED << rank, total, created, deleted, pageSize, limit, fetched, offset, yielded >>
        /\ Present' = Present /\ FirstOnes(fetched)' = FirstOnes(fetched) /\ NoGap' = NoGap
    BY DEF Fetch, listVars, Present, FirstOnes, NoGap
  <1>2. /\ pageAt = "fetch" /\ size' = PageLimit
        /\ upto' = (IF size' > 0 THEN Less(offset + size', total) ELSE offset)
        /\ page' = [x \in {y \in Present : rank[y] \in offset + 1 .. upto'} |-> rank[x]]
        /\ pageAt' = (IF upto' > offset THEN "yield" ELSE "done")
    BY DEF Fetch
  <1>3. /\ fetched \in Nat /\ fetched = offset /\ total \in Nat /\ pageSize \in 1 .. 1000
        /\ yielded = FirstOnes(fetched)
        /\ limit # NoLimit => limit \in Int /\ (fetched < limit \/ fetched = 0)
        /\ \A x \in Present : rank[x] \in 1 .. total
    BY <1>2 DEF LoopInv, ListInv, Exactly
  <1>4. /\ size' \in Int
        /\ limit = NoLimit => size' = pageSize
        /\ limit # NoLimit => size' <= limit - fetched /\ (size' > 0 <=> fetched < limit)
    BY <1>2, <1>3 DEF PageLimit, Less
  <1>5. CASE upto' > offset
    <2>1. size' > 0 /\ upto' = Less(offset + size', total) /\ pageAt' = "yield"
      BY <1>2, <1>3, <1>4, <1>5
    <2>2. upto' \in Int /\ upto' <= total /\ upto' <= offset + size'
          /\ (upto' - offset < size' => upto' = total)
      <3>1. offset \in Int /\ size' \in Int /\ total \in Int
        BY <1>3, <1>4
      <3> QED
        BY <2>1, <3>1, LessBounds
    <2>3. limit # NoLimit => fetched < limit /\ upto' <= limit
      BY <1>3, <1>4, <2>1, <2>2
    <2> QED
      BY <1>1, <1>2, <1>3, <1>5, <2>1, <2>2, <2>3 DEF Exactly, ExactWhenStill
  <1>6. CASE ~ upto' > offset
    <2>1. pageAt' = "done"
      BY <1>2, <1>6
    <2>2. ~ size' > 0 \/ total <= offset
      BY <1>2, <1>3, <1>4, <1>6 DEF Less
    <2>3. FirstOnes(fetched) = {x \in Present : limit # NoLimit => rank[x] <= limit}
      BY <1>3, <1>4, <2>2 DEF FirstOnes
    <2> QED
      BY <1>1, <1>3, <2>1, <2>3 DEF Exactly, ExactWhenStill
  <1> QED
    BY <1>5, <1>6

LEMMA StillYield ==
    ASSUME ListInv, LoopInv, Exactly, Still, NEW x \in DOMAIN page, Yield(x)
    PROVE  Exactly'
  <1>1. /\ UNCHANGED << rank, total, created, deleted, pageSize, limit, offset, size, upto >>
        /\ Present' = Present /\ NoGap' = NoGap
    BY DEF Yield, listVars, Present, NoGap
  <1>2. /\ pageAt = "yield" /\ \A y \in DOMAIN page : page[x] <= page[y]
        /\ page' = [y \in DOMAIN page \ {x} |-> page[y]]
        /\ yielded' = yielded \cup {x} /\ fetched' = fetched + 1
        /\ pageAt' = (IF LimitReached THEN "done" ELSE "yield")
    BY DEF Yield
  <1>3. /\ fetched \in Nat /\ total \in Nat /\ upto \in Int /\ offset \in Nat
        /\ limit \in Int \cup {NoLimit}
        /\ \A y \in Present : rank[y] \in 1 .. total
        /\ \A y, z \in Present : rank[y] = rank[z] => y = z
    BY DEF LoopInv, ListInv
  <1>4. /\ yielded = FirstOnes(fetched) /\ fetched \in offset .. upto /\ upto <= total
        /\ DOMAIN page = {y \in Present : rank[y] \in fetched + 1 .. upto}
        /\ \A y \in DOMAIN page : page[y] = rank[y]
        /\ limit # NoLimit => fetched < limit /\ upto <= limit
        /\ NoGap
    BY <1>2 DEF Exactly
  <1>5. x \in Present /\ rank[x] = fetched + 1 /\ fetched + 1 <= upto
    <2>1. x \in Present /\ rank[x] \in fetched + 1 .. upto
      BY <1>4
    <2>2. fetched + 1 \in 1 .. total
      BY <1>3, <1>4, <2>1
    <2>3. PICK y \in Present : rank[y] = fetched + 1
      BY <1>4, <2>2 DEF NoGap
    <2>4. y \in DOMAIN page
      BY <1>3, <1>4, <2>1, <2>3
    <2>5. rank[x] <= rank[y]
      BY <1>2, <1>4, <2>4
    <2> QED
      BY <1>3, <1>4, <2>1, <2>3, <2>5
  <1>6. yielded' = FirstOnes(fetched + 1)
    <2>1. \A y \in Present : rank[y] <= fetched + 1 <=> rank[y] <= fetched \/ y = x
      BY <1>3, <1>5
    <2> QED
      BY <1>2, <1>4, <1>5, <2>1 DEF FirstOnes
  <1>7. FirstOnes(fetched)' = FirstOnes(fetched + 1)
    BY <1>1, <1>2 DEF FirstOnes
  <1>8. CASE LimitReached
    <2>1. limit # NoLimit /\ limit = fetched + 1
      BY <1>3, <1>4, <1>5, <1>8 DEF LimitReached
    <2>2. ExactWhenStill'
      BY <1>1, <1>6, <2>1 DEF ExactWhenStill, FirstOnes
    <2> QED
      BY <1>1, <1>2, <1>4, <1>8, <2>2 DEF Exactly
  <1>9. CASE ~ LimitReached
    <2>1. limit # NoLimit => fetched + 1 < limit
      BY <1>3, <1>9 DEF LimitReached
    <2>2. DOMAIN page' = {y \in Present : rank[y] \in fetched' + 1 .. upto}
      <3>1. \A y \in Present : y \in DOMAIN page \ {x} <=> rank[y] \in fetched + 2 .. upto
        BY <1>3, <1>4, <1>5
      <3> QED
        BY <1>2, <1>3, <1>4, <3>1
    <2>3. \A y \in DOMAIN page' : page'[y] = rank[y]
      BY <1>2, <1>4
    <2>4. pageAt' = "yield" /\ fetched' \in offset .. upto
      BY <1>2, <1>3, <1>4, <1>5, <1>9
    <2> QED
      BY <1>1, <1>2, <1>3, <1>4, <1>6, <1>7, <2>1, <2>2, <2>3, <2>4 DEF Exactly, ExactWhenStill
  <1> QED
    BY <1>8, <1>9

LEMMA StillOver ==
    ASSUME ListInv, LoopInv, Exactly, Still, PageOver
    PROVE  Exactly'
  <1>1. /\ UNCHANGED << rank, total, created, deleted, pageSize, limit, fetched, size, upto, yielded >>
        /\ Present' = Present /\ FirstOnes(fetched)' = FirstOnes(fetched) /\ NoGap' = NoGap
    BY DEF PageOver, listVars, Present, FirstOnes, NoGap
  <1>2. /\ pageAt = "yield" /\ DOMAIN page = {}
        /\ IF upto - offset < size THEN pageAt' = "done"
           ELSE pageAt' = "fetch" /\ offset' = upto
    BY DEF PageOver, NextOffset
  <1>3. /\ fetched \in Nat /\ total \in Nat /\ upto \in Int /\ limit \in Int \cup {NoLimit}
        /\ \A y \in Present : rank[y] \in 1 .. total
    BY DEF LoopInv, ListInv
  <1>4. /\ yielded = FirstOnes(fetched) /\ fetched <= upto /\ upto <= total /\ NoGap
        /\ DOMAIN page = {y \in Present : rank[y] \in fetched + 1 .. upto}
        /\ limit # NoLimit => fetched < limit
        /\ upto - offset < size => upto = total
    BY <1>2, <1>3 DEF Exactly, LoopInv
  <1>5. fetched = upto
    <2>1. ASSUME fetched < upto PROVE FALSE
      <3>1. PICK y \in Present : rank[y] = fetched + 1
        BY <1>3, <1>4, <2>1 DEF NoGap
      <3> QED
        BY <1>2, <1>3, <1>4, <2>1, <3>1
    <2> QED
      BY <1>3, <1>4, <2>1
  <1>6. CASE upto - offset < size
    <2>1. FirstOnes(fetched) = {x \in Present : limit # NoLimit => rank[x] <= limit}
      BY <1>3, <1>4, <1>5, <1>6 DEF FirstOnes
    <2> QED
      BY <1>1, <1>2, <1>4, <1>6, <2>1 DEF Exactly, ExactWhenStill
  <1>7. CASE ~ upto - offset < size
    BY <1>1, <1>2, <1>4, <1>5, <1>7 DEF Exactly, ExactWhenStill
  <1> QED
    BY <1>6, <1>7

LEMMA StillStep ==
    ASSUME ListInv, LoopInv, StillInv, [PagesNext]_pageVars
    PROVE  StillInv'
  <1>1. CASE Loop
    <2>1. Still' = Still
      BY <1>1 DEF Still, Loop, Start, Fetch, Yield, PageOver, listVars
    <2>2. ASSUME Still PROVE Exactly'
      <3>1. Exactly
        BY <2>2 DEF StillInv
      <3>2. ASSUME Start PROVE Exactly'
        BY <3>1, <3>2 DEF Start, Exactly, ExactWhenStill, listVars, NoGap, FirstOnes, Present
      <3> QED
        BY <1>1, <2>2, <3>1, <3>2, StillFetch, StillYield, StillOver DEF Loop
    <2> QED
      BY <2>1, <2>2 DEF StillInv
  <1>2. CASE OtherCallers
    <2>1. created' # {} \/ deleted' # {}
      BY <1>2 DEF OtherCallers, Create, Delete
    <2> QED
      BY <2>1 DEF StillInv, Still
  <1>3. CASE UNCHANGED pageVars
    BY <1>3 DEF pageVars, listVars, loopVars, StillInv, Still, Exactly, ExactWhenStill, NoGap,
                FirstOnes, Present
  <1> QED
    BY <1>1, <1>2, <1>3 DEF PagesNext

-----------------------------------------------------------------------------
(* The theorems                                                            *)

PageInv == ListInv /\ LoopInv /\ SkipInv /\ RepeatInv /\ StillInv

LEMMA PageStep == ASSUME PageInv, [PagesNext]_pageVars PROVE PageInv'
  <1>1. CASE Loop
    BY <1>1, LoopKeeps, SkipLoop, RepeatLoop, StillStep DEF PageInv, PagesNext
  <1>2. CASE \E x \in Records, place \in 1 .. total + 1 : Create(x, place)
    BY <1>2, CreateList, SkipCreate, RepeatCreate, StillStep DEF PageInv, PagesNext, OtherCallers
  <1>3. CASE \E x \in Present : Delete(x)
    BY <1>3, DeleteList, SkipDelete, RepeatDelete, StillStep DEF PageInv, PagesNext, OtherCallers
  <1>4. CASE UNCHANGED pageVars
    <2>1. ListInv' /\ LoopInv'
      BY <1>4 DEF PageInv, pageVars, listVars, loopVars, ListInv, LoopInv, Present
    <2>2. SkipInv'
      BY <1>4 DEF PageInv, pageVars, listVars, loopVars, SkipInv, Lost, Last, Passed, Present
    <2>3. RepeatInv'
      BY <1>4 DEF PageInv, pageVars, listVars, loopVars, RepeatInv, RepeatsBounded,
                  OnPageAgain, AheadAgain, Passed, Present
    <2>4. StillInv'
      BY StillStep DEF PageInv
    <2> QED
      BY <2>1, <2>2, <2>3, <2>4 DEF PageInv
  <1> QED
    BY <1>1, <1>2, <1>3, <1>4 DEF PagesNext, OtherCallers

\* What the iterators keep: the places of the listing, the loop's counters,
\* and the two counts.
THEOREM PageInvariant == PagesSpec => []PageInv
  <1>1. PagesInit => PageInv
    BY ListInit, SkipInit, RepeatInit, StillInit DEF PageInv
  <1>2. PageInv /\ [PagesNext]_pageVars => PageInv'
    BY PageStep
  <1> QED
    BY <1>1, <1>2, PTL DEF PagesSpec

LEMMA SkipsAtEnd == ASSUME PageInv PROVE SkipsBounded
  <1> SUFFICES ASSUME pageAt = "done", limit = NoLimit
               PROVE  Cardinality(Present \ (created \cup yielded)) <= Cardinality(deleted)
    BY DEF SkipsBounded
  <1>1. Lost = Present \ (created \cup yielded \cup DOMAIN page)
    BY DEF Lost, Last
  <1>2. DOMAIN page = {}
    BY DEF PageInv, LoopInv
  <1>3. Lost = Present \ (created \cup yielded)
    BY <1>1, <1>2
  <1> QED
    BY <1>3 DEF PageInv, SkipInv

\* An iteration without limit misses no more of the records that were there
\* throughout than were deleted meanwhile (offset += len(page) of the
\* iterators).
THEOREM IterationSkipsBounded == PagesSpec => []SkipsBounded
  <1>1. PageInv => SkipsBounded
    BY SkipsAtEnd
  <1> QED
    BY <1>1, PageInvariant, PTL

\* No more records come twice than were created meanwhile.
THEOREM IterationRepeatsBounded == PagesSpec => []RepeatsBounded
  <1>1. PageInv => RepeatsBounded
    BY DEF PageInv, RepeatInv
  <1> QED
    BY <1>1, PageInvariant, PTL

\* While no record is created or deleted the iterators yield exactly the first
\* "limit" records of the listing, or all of them, whatever the page size: no
\* page boundary, short page or exact multiple loses or adds one.
THEOREM IterationExactWhenStill == PagesSpec => []ExactWhenStill
  <1>1. PageInv => ExactWhenStill
    BY DEF PageInv, StillInv, Still, Exactly, ExactWhenStill
  <1> QED
    BY <1>1, PageInvariant, PTL

-----------------------------------------------------------------------------
(* ensure_file                                                             *)

\* Until the upload has begun the file is where the caller left it, and the
\* digest asked for is the one of what follows.
FileAtStart ==
    /\ fileAt \in {"idle", "probe", "upload"} => position = start
    /\ fileAt = "probe" => digest = start

FilePlaces ==
    /\ start \in Places /\ position \in Places /\ stored \subseteq Places
    /\ digest \in Digests /\ record \in Digests
    /\ content \in {"bytes", "seekable", "oneshot"} /\ known \in BOOLEAN
    /\ content = "bytes" => start = 0 /\ position = 0
    /\ fileAt \in {"idle", "probe", "upload", "returned", "raised"}

FileInv == FilePlaces /\ FileAtStart /\ RecordOfContent

\* What is stored or left of a file lies within it.
LEMMA FurtherPlaces ==
    ASSUME FilePlaces
    PROVE  position .. Size \subseteq Places /\ Size \in Places
  <1>1. position \in Int /\ 0 <= position
    BY DEF FilePlaces, Places
  <1>2. \A place \in position .. Size : place \in 0 .. Size
    BY <1>1
  <1> QED
    BY <1>1, <1>2, SizeAssumption DEF Places

\* ensure_file keeps its file, its digest and its record straight in every
\* reachable state.
THEOREM FileInvariant == EnsureSpec => []FileInv
  <1>1. EnsureInit => FileInv
    BY DEF EnsureInit, FileInv, FilePlaces, FileAtStart, RecordOfContent, Digests
  <1>2. ASSUME FileInv, [EnsureNext]_fileVars PROVE FileInv'
    <2> USE <1>2 DEF FileInv, FileAtStart, RecordOfContent
    <2>1. CASE Digest
      <3>1. digest' \in {start, NoDigest} /\ position' = start
        BY <2>1 DEF Digest, AfterHash
      <3>2. (fileAt' = "probe" => digest' = start) /\ fileAt' \in {"probe", "upload"}
        BY <2>1, <3>1 DEF Digest
      <3> QED
        BY <2>1, <3>1, <3>2 DEF Digest, FilePlaces, Digests
    <2>2. CASE Probe
      BY <2>2 DEF Probe, FilePlaces, Digests
    <2>3. CASE Upload
      BY <2>3, FurtherPlaces DEF Upload, FilePlaces, Digests
    <2>4. CASE Again
      BY <2>4 DEF Again, FilePlaces, Digests
    <2>5. CASE OtherUploads
      BY <2>5 DEF OtherUploads, FilePlaces
    <2>6. CASE UNCHANGED fileVars
      BY <2>6 DEF fileVars, FilePlaces
    <2> QED
      BY <2>1, <2>2, <2>3, <2>4, <2>5, <2>6 DEF EnsureNext
  <1> QED
    BY <1>1, <1>2, PTL DEF EnsureSpec

\* Whether get_file found the digest or upload_file sent the bytes, hashed or
\* given, after failed calls and among other callers: the record that
\* ensure_file returns is the one of the bytes the caller's file holds from
\* where it was left.
THEOREM EnsureRecordOfContent == EnsureSpec => []RecordOfContent
  <1>1. FileInv => RecordOfContent
    BY DEF FileInv
  <1> QED
    BY <1>1, FileInvariant, PTL
=============================================================================
