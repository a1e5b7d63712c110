------------------------------ MODULE FoldLemmas ------------------------------
(***************************************************************************)
(* What FoldLeft computes, for any operator Op, and the least element of a *)
(* set of numbers or finite sets, by which a proof goes through them one   *)
(* after another.  A module that folds TakeLine, say, takes an instance of *)
(* this one WITH Op <- TakeLine.                                           *)
(***************************************************************************)
EXTENDS Integers, SequencesExt, FiniteSetTheorems, SequenceTheorems, WellFoundedInduction, TLAPS

CONSTANT Op(_, _)

-----------------------------------------------------------------------------
(* Least elements                                                          *)

\* A set of subsets of a finite set has a minimal one, and a set of naturals
\* its least element.
Family(F, D) == IsFiniteSet(D) /\ F \in SUBSET SUBSET D /\ F # {}
Minimal(t, F) == t \in F /\ \A u \in F : u \subseteq t => u = t
Least(m, S) == m \in S /\ \A n \in S : m <= n

LEMMA LeastSubset ==
    ASSUME NEW F, NEW D, Family(F, D)
    PROVE  \E t : Minimal(t, F)
  <1>1. F \subseteq FiniteSubsetsOf(D) /\ F # {}
    BY FS_Subset DEF FiniteSubsetsOf, Family
  <1>2. PICK t \in F : \A u \in F : <<u, t>> \notin StrictSubsetOrdering(D)
    BY <1>1, FS_StrictSubsetOrderingWellFounded, WFMin
  <1>3. ASSUME NEW u \in F, u \subseteq t PROVE u = t
    BY <1>2, <1>3 DEF StrictSubsetOrdering, Family
  <1> QED
    BY <1>2, <1>3 DEF Minimal

LEMMA LeastNat ==
    ASSUME NEW S, S \subseteq Nat, S # {}
    PROVE  \E m : Least(m, S)
  <1> DEFINE R == OpToRel(<, Nat)
  <1>1. \A m, n \in Nat : n < m => <<n, m>> \in R
    BY DEF OpToRel
  <1>2. IsWellFoundedOn(R, Nat)
    BY NatLessThanWellFounded
  <1> HIDE DEF R
  <1>3. PICK m \in S : \A n \in S : <<n, m>> \notin R
    BY <1>2, WFMin
  <1>4. ASSUME NEW n \in S PROVE m <= n
    <2>1. m \in Nat /\ n \in Nat /\ ~ (n < m)
      BY <1>1, <1>3
    <2> QED
      BY <2>1
  <1> QED
    BY <1>3, <1>4 DEF Least

Greatest(m, S) == m \in S /\ \A n \in S : m >= n

LEMMA MaxIsGreatest ==
    ASSUME NEW S, S \subseteq Int, S # {}, IsFiniteSet(S)
    PROVE  Greatest(Max(S), S)
  <1> DEFINE Above(m) == {n \in S : n >= m}
             F == {Above(m) : m \in S}
  <1>1. Family(F, S)
    BY DEF Family
  <1>2. PICK t : Minimal(t, F)
    BY <1>1, LeastSubset
  <1>3. PICK m \in S : t = Above(m)
    BY <1>2 DEF Minimal
  <1>4. ASSUME NEW n \in S PROVE m >= n
    <2>1. SUFFICES ASSUME n > m PROVE FALSE
      BY DEF Greatest
    <2>2. \A k \in S : k >= n => k >= m
      BY <2>1
    <2>3. Above(n) \subseteq Above(m)
      BY <2>2
    <2>4. Above(n) = Above(m)
      BY <2>3, <1>2, <1>3 DEF Minimal
    <2>5. m \in Above(m)
      OBVIOUS
    <2>6. m >= n
      BY <2>4, <2>5
    <2> QED
      BY <2>1, <2>6
  <1> HIDE DEF F
  <1>5. \E k \in S : \A n \in S : k >= n
    BY <1>4
  <1> QED
    BY <1>5 DEF Max, Greatest

-----------------------------------------------------------------------------
(* The recursive function that a fold is defined by                        *)

Iterates(g, base, s, D) ==
    g = [t \in SUBSET D |-> IF t = {} THEN base ELSE Op(g[t \ {Max(t)}], s[Max(t)])]

Unfolds(g, base, s, D) ==
    g[{}] = base /\ \A t : t \subseteq D /\ t # {} => g[t] = Op(g[t \ {Max(t)}], s[Max(t)])

LEMMA IteratesAt ==
    ASSUME NEW base, NEW s, NEW D, NEW g, Iterates(g, base, s, D)
    PROVE  Unfolds(g, base, s, D)
  <1> DEFINE body(t) == IF t = {} THEN base ELSE Op(g[t \ {Max(t)}], s[Max(t)])
  <1>1. g = [t \in SUBSET D |-> body(t)]
    BY DEF Iterates
  <1>2. \A t \in SUBSET D : g[t] = body(t)
    BY <1>1
  <1>3. {} \in SUBSET D
    OBVIOUS
  <1> QED
    BY <1>2, <1>3 DEF Unfolds

Agree(g, h, E) == \A t : t \subseteq E => g[t] = h[t]

LEMMA IteratesUnique ==
    ASSUME NEW base, NEW s,
           NEW D, D \subseteq Int, IsFiniteSet(D), NEW g, Iterates(g, base, s, D),
           NEW E, E \subseteq D, NEW h, Iterates(h, base, s, E)
    PROVE  Agree(g, h, E)
  <1> DEFINE F == {t \in SUBSET E : g[t] # h[t]}
  <1> SUFFICES ASSUME F # {} PROVE FALSE
    BY DEF Agree
  <1>0. Unfolds(g, base, s, D) /\ Unfolds(h, base, s, E)
    BY IteratesAt
  <1>1. Family(F, D)
    BY DEF Family
  <1>2. PICK t : Minimal(t, F)
    BY <1>1, LeastSubset
  <1>3. t \subseteq E /\ t \subseteq D /\ g[t] # h[t]
    BY <1>2 DEF Minimal
  <1>4. t # {}
    BY <1>0, <1>3 DEF Unfolds
  <1>5. t \subseteq Int /\ IsFiniteSet(t)
    BY <1>3, FS_Subset
  <1>6. Max(t) \in t
    BY <1>4, <1>5, MaxIsGreatest DEF Greatest
  <1>7. t \ {Max(t)} \notin F
    BY <1>2, <1>6 DEF Minimal
  <1>8. g[t \ {Max(t)}] = h[t \ {Max(t)}]
    BY <1>3, <1>7
  <1>9. g[t] = Op(g[t \ {Max(t)}], s[Max(t)]) /\ h[t] = Op(h[t \ {Max(t)}], s[Max(t)])
    BY <1>0, <1>3, <1>4 DEF Unfolds
  <1> QED
    BY <1>3, <1>8, <1>9

LEMMA IteratesExists ==
    ASSUME NEW base, NEW s, NEW D, D \subseteq Int, IsFiniteSet(D)
    PROVE  \E g : Iterates(g, base, s, D)
  <1> DEFINE F == {t \in SUBSET D : ~ \E g : Iterates(g, base, s, t)}
  <1> SUFFICES ASSUME F # {} PROVE FALSE
    OBVIOUS
  <1>1. Family(F, D)
    BY Zenon DEF Family
  <1>2. PICK T : Minimal(T, F)
    BY <1>1, LeastSubset
  <1>3. T \subseteq D /\ T \subseteq Int /\ IsFiniteSet(T) /\ ~ \E g : Iterates(g, base, s, T)
    BY <1>2, FS_Subset DEF Minimal
  <1> DEFINE H(t) == CHOOSE g : Iterates(g, base, s, t)
             below(t) == t \ {Max(t)}
             G == [t \in SUBSET T |-> IF t = {} THEN base ELSE Op(H(below(t))[below(t)], s[Max(t)])]
  <1>4. ASSUME NEW t, t \subseteq T, t # T PROVE Iterates(H(t), base, s, t)
    <2>1. t \notin F
      BY <1>2, <1>4 DEF Minimal
    <2>2. \E g : Iterates(g, base, s, t)
      BY <1>3, <1>4, <2>1
    <2> QED
      BY <2>2, Zenon
  <1>5. ASSUME NEW t, t \subseteq T, t # {}
        PROVE  below(t) \subseteq t /\ below(t) # T /\ t \subseteq Int /\ IsFiniteSet(t)
    <2>1. t \subseteq Int /\ IsFiniteSet(t)
      BY <1>3, <1>5, FS_Subset
    <2>2. Max(t) \in t
      BY <2>1, <1>5, MaxIsGreatest DEF Greatest
    <2> QED
      BY <2>1, <2>2, <1>5
  <1>6. G[{}] = base /\ \A t : t \subseteq T /\ t # {} => G[t] = Op(H(below(t))[below(t)], s[Max(t)])
    OBVIOUS
  <1> HIDE DEF G, H, below, F
  <1>7. ASSUME NEW t, t \subseteq T, t # T
        PROVE  G[t] = H(t)[t]
    <2>1. Iterates(H(t), base, s, t)
      BY <1>4, <1>7
    <2>2. CASE t = {}
      BY <2>1, <2>2, <1>6, IteratesAt DEF Unfolds
    <2>3. CASE t # {}
      <3>1. /\ below(t) \subseteq t /\ below(t) \subseteq T /\ below(t) # T
            /\ t \subseteq Int /\ IsFiniteSet(t)
        BY <1>5, <1>7, <2>3
      <3>2. Iterates(H(below(t)), base, s, below(t))
        BY <1>4, <3>1
      <3>3. PICK h, k : h = H(t) /\ k = H(below(t))
        OBVIOUS
      <3>4. Iterates(h, base, s, t) /\ Iterates(k, base, s, below(t))
        BY <2>1, <3>2, <3>3
      <3>5. Agree(h, k, below(t)) /\ Unfolds(h, base, s, t)
        BY <3>1, <3>4, IteratesUnique, IteratesAt
      <3>6. h[t] = Op(h[below(t)], s[Max(t)])
        BY <3>5, <2>3 DEF below, Unfolds
      <3>7. G[t] = Op(H(below(t))[below(t)], s[Max(t)])
        BY <1>6, <1>7, <2>3
      <3>8. h[below(t)] = k[below(t)]
        BY <3>5 DEF Agree
      <3> QED
        BY <3>3, <3>6, <3>7, <3>8
    <2> QED
      BY <2>2, <2>3
  <1>8. ASSUME NEW t, t \subseteq T, t # {}
        PROVE  G[t] = Op(G[below(t)], s[Max(t)])
    <2>1. below(t) \subseteq T /\ below(t) # T
      BY <1>5, <1>8
    <2>2. G[below(t)] = H(below(t))[below(t)]
      BY <2>1, <1>7
    <2> QED
      BY <2>2, <1>6, <1>8
  <1>9. \A t \in SUBSET T : G[t] = IF t = {} THEN base ELSE Op(G[t \ {Max(t)}], s[Max(t)])
    BY <1>6, <1>8 DEF below
  <1>10. G = [t \in SUBSET T |-> G[t]]
    BY DEF G
  <1>11. G = [t \in SUBSET T |-> IF t = {} THEN base ELSE Op(G[t \ {Max(t)}], s[Max(t)])]
    BY <1>9, <1>10
  <1> QED
    BY <1>3, <1>11 DEF Iterates

-----------------------------------------------------------------------------
(* FoldLeft                                                                *)

FoldOf(base, s) == CHOOSE g : Iterates(g, base, s, DOMAIN s)

LEMMA FoldIterates ==
    ASSUME NEW base, NEW s, NEW n \in Nat, DOMAIN s = 1 .. n
    PROVE  /\ Iterates(FoldOf(base, s), base, s, 1 .. n)
           /\ FoldLeft(Op, base, s) = FoldOf(base, s)[1 .. n]
  <1>1. IsFiniteSet(1 .. n) /\ 1 .. n \subseteq Int
    BY FS_Interval
  <1>2. \E g : Iterates(g, base, s, DOMAIN s)
    BY <1>1, IteratesExists
  <1>3. Iterates(FoldOf(base, s), base, s, DOMAIN s)
    BY <1>2, Zenon DEF FoldOf
  <1>4. FoldLeft(Op, base, s) = FoldOf(base, s)[DOMAIN s]
    BY DEF FoldLeft, MapThenFoldSet, FoldOf, Iterates
  <1> QED
    BY <1>3, <1>4

\* Op takes the elements of s one after another.
InSteps(g, base, s, n) == g[0] = base /\ \A k \in 1 .. n : g[k] = Op(g[k - 1], s[k])

Takes(it, base, s, n) ==
    it[1 .. 0] = base /\ \A k \in 1 .. n : it[1 .. k] = Op(it[1 .. (k - 1)], s[k])

LEMMA FoldSteps ==
    ASSUME NEW base, NEW s, NEW n \in Nat, NEW it, Iterates(it, base, s, 1 .. n)
    PROVE  Takes(it, base, s, n)
  <1>1. 1 .. 0 = {}
    OBVIOUS
  <1>2. Unfolds(it, base, s, 1 .. n)
    BY IteratesAt
  <1>3. ASSUME NEW k \in 1 .. n
        PROVE  it[1 .. k] = Op(it[1 .. (k - 1)], s[k])
    <2>1. k \in Nat /\ 1 <= k /\ k <= n /\ k \in 1 .. k
      BY <1>3
    <2>2. 1 .. k \subseteq 1 .. n /\ 1 .. k # {} /\ 1 .. k \subseteq Int
      BY <2>1
    <2>3. IsFiniteSet(1 .. k)
      BY <2>1, FS_Interval
    <2>4. Greatest(Max(1 .. k), 1 .. k)
      BY <2>2, <2>3, MaxIsGreatest
    <2>5. Max(1 .. k) = k
      BY <2>1, <2>4 DEF Greatest
    <2>6. (1 .. k) \ {k} = 1 .. (k - 1)
      BY <2>1
    <2>7. it[1 .. k] = Op(it[(1 .. k) \ {Max(1 .. k)}], s[Max(1 .. k)])
      BY <2>2, <1>2, Zenon DEF Unfolds
    <2> QED
      BY <2>5, <2>6, <2>7
  <1> QED
    BY <1>1, <1>2, <1>3 DEF Unfolds, Takes

\* A fold ends where any g that takes the same steps from base ends.
LEMMA FoldInSteps ==
    ASSUME NEW base, NEW s, NEW n \in Nat, DOMAIN s = 1 .. n,
           NEW g, InSteps(g, base, s, n)
    PROVE  FoldLeft(Op, base, s) = g[n]
  <1> DEFINE it == FoldOf(base, s)
             Off == {k \in 0 .. n : it[1 .. k] # g[k]}
  <1>1. Iterates(it, base, s, 1 .. n) /\ FoldLeft(Op, base, s) = it[1 .. n]
    BY FoldIterates
  <1> HIDE DEF it
  <1>2. Takes(it, base, s, n)
    BY <1>1, FoldSteps
  <1>3. ASSUME Off # {} PROVE FALSE
    <2>1. Off \subseteq Nat
      OBVIOUS
    <2>2. PICK k : Least(k, Off)
      BY <1>3, <2>1, LeastNat
    <2>3. k \in 0 .. n /\ it[1 .. k] # g[k] /\ k # 0
      BY <2>2, <1>2 DEF Least, InSteps, Takes
    <2>4. k \in 1 .. n /\ k - 1 \in 0 .. n /\ k - 1 < k
      BY <2>3
    <2>5. it[1 .. (k - 1)] = g[k - 1]
      BY <2>2, <2>4 DEF Least
    <2>6. it[1 .. k] = Op(it[1 .. (k - 1)], s[k]) /\ g[k] = Op(g[k - 1], s[k])
      BY <2>4, <1>2 DEF InSteps, Takes
    <2> QED
      BY <2>3, <2>5, <2>6
  <1>4. n \in 0 .. n
    OBVIOUS
  <1> QED
    BY <1>1, <1>3, <1>4

LEMMA FoldOfNothing ==
    ASSUME NEW base
    PROVE  FoldLeft(Op, base, << >>) = base
  <1> DEFINE g == [k \in 0 .. 0 |-> base]
  <1>1. g[0] = base
    OBVIOUS
  <1>2. DOMAIN << >> = 1 .. 0
    OBVIOUS
  <1>3. \A k \in 1 .. 0 : FALSE
    OBVIOUS
  <1> HIDE DEF g
  <1>4. InSteps(g, base, << >>, 0)
    BY <1>1, <1>3 DEF InSteps
  <1> QED
    BY <1>1, <1>2, <1>4, FoldInSteps

LEMMA FoldOfAppend ==
    ASSUME NEW base, NEW S, NEW s \in Seq(S), NEW v \in S
    PROVE  FoldLeft(Op, base, Append(s, v)) = Op(FoldLeft(Op, base, s), v)
  <1> DEFINE n == Len(s)
             w == Append(s, v)
             it == FoldOf(base, w)
             g == [k \in 0 .. n + 1 |-> it[1 .. k]]
  <1>1. /\ n \in Nat /\ n + 1 \in Nat /\ DOMAIN s = 1 .. n /\ DOMAIN w = 1 .. n + 1
        /\ \A k \in 1 .. n : w[k] = s[k]
        /\ w[n + 1] = v
    OBVIOUS
  <1> HIDE DEF n, w
  <1>2. Iterates(it, base, w, 1 .. n + 1)
    BY <1>1, FoldIterates
  <1> HIDE DEF it
  <1>3. Takes(it, base, w, n + 1)
    BY <1>1, <1>2, FoldSteps
  <1>4. g[0] = base
    BY <1>1, <1>3 DEF Takes
  <1>5. \A k \in 1 .. n + 1 : g[k] = Op(g[k - 1], w[k])
    BY <1>1, <1>3 DEF Takes
  <1> HIDE DEF g
  <1>6. InSteps(g, base, w, n + 1)
    BY <1>4, <1>5 DEF InSteps
  <1>7. InSteps(g, base, s, n)
    BY <1>1, <1>4, <1>5 DEF InSteps
  <1>8. FoldLeft(Op, base, w) = g[n + 1] /\ FoldLeft(Op, base, s) = g[n]
    BY <1>1, <1>6, <1>7, FoldInSteps
  <1>9. g[n + 1] = Op(g[n], v)
    BY <1>1, <1>5
  <1> QED
    BY <1>8, <1>9 DEF w

\* A fold stays in any set that Op does not leave.
LEMMA FoldKeeps ==
    ASSUME NEW T, NEW base \in T, NEW S, NEW s \in Seq(S),
           \A t \in T, v \in S : Op(t, v) \in T
    PROVE  FoldLeft(Op, base, s) \in T
  <1> DEFINE n == Len(s)
             it == FoldOf(base, s)
             g == [k \in 0 .. n |-> it[1 .. k]]
             Out == {k \in 0 .. n : g[k] \notin T}
  <1>1. n \in Nat /\ DOMAIN s = 1 .. n /\ \A k \in 1 .. n : s[k] \in S
    OBVIOUS
  <1> HIDE DEF n
  <1>2. Iterates(it, base, s, 1 .. n)
    BY <1>1, FoldIterates
  <1> HIDE DEF it
  <1>3. Takes(it, base, s, n)
    BY <1>1, <1>2, FoldSteps
  <1>4. InSteps(g, base, s, n)
    BY <1>1, <1>3 DEF Takes, InSteps
  <1> HIDE DEF g
  <1>5. FoldLeft(Op, base, s) = g[n]
    BY <1>1, <1>4, FoldInSteps
  <1>6. ASSUME Out # {} PROVE FALSE
    <2>1. Out \subseteq Nat
      BY <1>1
    <2>2. PICK k : Least(k, Out)
      BY <1>6, <2>1, LeastNat
    <2>3. k \in 0 .. n /\ g[k] \notin T /\ k # 0
      BY <2>2, <1>4 DEF Least, InSteps
    <2>4. k \in 1 .. n /\ k - 1 \in 0 .. n /\ k - 1 < k
      BY <2>3, <1>1
    <2>5. g[k - 1] \in T
      BY <2>2, <2>4 DEF Least
    <2> QED
      BY <2>3, <2>4, <2>5, <1>1, <1>4 DEF InSteps
  <1> QED
    BY <1>1, <1>5, <1>6
=============================================================================
