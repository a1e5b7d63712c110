--------------------------- MODULE SSEParserProofs ---------------------------
(***************************************************************************)
(* Proofs about SSEParser, for every byte sequence, every cutting of it    *)
(* into chunks and every cap: the frames that feed returns are those of    *)
(* the bytes as a whole, and what the parser holds stays within the cap.   *)
(*                                                                         *)
(* ParserInv says that the pending frame and the frames are MadeOf the     *)
(* lines before the one begun, which is the buffer.  MadeOf is written     *)
(* with sets of newlines, as FramesOf is, and feed folds TakeLine over     *)
(* lines: MadeOfLine shows that one line does the same to both, and        *)
(* HoldingTaken that then all lines of a chunk do.                         *)
(***************************************************************************)
EXTENDS SSEParser, FiniteSetTheorems, SequenceTheorems, TLAPS

Taking == INSTANCE FoldLemmas WITH Op <- TakeLine
Adding == INSTANCE FoldLemmas WITH Op <- WithLength

-----------------------------------------------------------------------------
(* The lemmas about folds, for the two folds of the parser                 *)

LEMMA GreatestOf ==
    ASSUME NEW S, S \subseteq Int, S # {}, IsFiniteSet(S)
    PROVE  Max(S) \in S /\ \A j \in S : Max(S) >= j
  <1>1. Taking!IsFiniteSet(S)
    BY DEF IsFiniteSet, Taking!IsFiniteSet
  <1>2. Taking!Greatest(Taking!Max(S), S)
    BY <1>1, Taking!MaxIsGreatest
  <1>3. Taking!Max(S) = Max(S)
    BY DEF Max, Taking!Max
  <1> QED
    BY <1>2, <1>3 DEF Taking!Greatest

LEMMA LeastOf ==
    ASSUME NEW S, S \subseteq Nat, S # {}
    PROVE  \E m \in S : \A n \in S : m <= n
  BY Taking!LeastNat DEF Taking!Least

\* g takes the lines of s one after another.
TakenBy(g, base, s, n) == g[0] = base /\ \A k \in 1 .. n : g[k] = TakeLine(g[k - 1], s[k])

LEMMA TakingInSteps ==
    ASSUME NEW base, NEW s, NEW n \in Nat, DOMAIN s = 1 .. n,
           NEW g, TakenBy(g, base, s, n)
    PROVE  FoldLeft(TakeLine, base, s) = g[n]
  <1>1. Taking!InSteps(g, base, s, n)
    BY DEF TakenBy, Taking!InSteps
  <1>2. Taking!FoldLeft(TakeLine, base, s) = g[n]
    BY <1>1, Taking!FoldInSteps
  <1>3. Taking!FoldLeft(TakeLine, base, s) = FoldLeft(TakeLine, base, s)
    BY DEF Taking!FoldLeft, Taking!MapThenFoldSet, FoldLeft, MapThenFoldSet, Max, Taking!Max
  <1> QED
    BY <1>2, <1>3

LEMMA SizeOfNothing == SizeOf(<< >>) = 0
  <1>1. Adding!FoldLeft(WithLength, 0, << >>) = 0
    BY Adding!FoldOfNothing
  <1>2. Adding!FoldLeft(WithLength, 0, << >>) = FoldLeft(WithLength, 0, << >>)
    BY DEF Adding!FoldLeft, Adding!MapThenFoldSet, FoldLeft, MapThenFoldSet, Max, Adding!Max
  <1> QED
    BY <1>1, <1>2 DEF SizeOf

LEMMA SizeOfAppend ==
    ASSUME NEW S, NEW lines \in Seq(S), NEW line \in S
    PROVE  SizeOf(Append(lines, line)) = SizeOf(lines) + Len(line)
  <1>1. Adding!FoldLeft(WithLength, 0, Append(lines, line))
            = WithLength(Adding!FoldLeft(WithLength, 0, lines), line)
    BY Adding!FoldOfAppend
  <1>2. \A s : Adding!FoldLeft(WithLength, 0, s) = FoldLeft(WithLength, 0, s)
    BY DEF Adding!FoldLeft, Adding!MapThenFoldSet, FoldLeft, MapThenFoldSet, Max, Adding!Max
  <1> QED
    BY <1>1, <1>2 DEF SizeOf, WithLength

LEMMA SizeOfType ==
    ASSUME NEW lines \in Seq(Seq(STRING))
    PROVE  SizeOf(lines) \in Nat
  <1>1. \A n \in Nat, line \in Seq(STRING) : WithLength(n, line) \in Nat
    BY DEF WithLength
  <1>2. Adding!FoldLeft(WithLength, 0, lines) \in Nat
    BY <1>1, Adding!FoldKeeps
  <1>3. Adding!FoldLeft(WithLength, 0, lines) = FoldLeft(WithLength, 0, lines)
    BY DEF Adding!FoldLeft, Adding!MapThenFoldSet, FoldLeft, MapThenFoldSet, Max, Adding!Max
  <1> QED
    BY <1>2, <1>3 DEF SizeOf

-----------------------------------------------------------------------------
(* Positions in order                                                      *)

Rank(S, i) == Cardinality({j \in S : j <= i})

LEMMA RankGrows ==
    ASSUME NEW S, S \subseteq Int, IsFiniteSet(S), NEW i \in S, NEW j \in S, i < j
    PROVE  Rank(S, i) \in 1 .. Cardinality(S) /\ Rank(S, i) < Rank(S, j)
  <1> DEFINE I == {m \in S : m <= i}
             J == {m \in S : m <= j}
  <1>0. \A m \in S : m \in Int
    OBVIOUS
  <1>a. \A m \in S : m <= i => m <= j
    BY <1>0
  <1>b. i <= i /\ j <= j /\ ~ (j <= i)
    BY <1>0
  <1>1. i \in I /\ I \subseteq J /\ J \subseteq S /\ j \in J /\ j \notin I
    BY <1>a, <1>b
  <1>2. IsFiniteSet(I) /\ IsFiniteSet(J)
    BY FS_Subset
  <1>3. Cardinality(I) \in Nat /\ Cardinality(J) \in Nat /\ Cardinality(S) \in Nat
    BY <1>2, FS_CardinalityType
  <1>4. Cardinality(I) <= Cardinality(J) /\ (Cardinality(J) = Cardinality(I) => I = J)
    BY <1>1, <1>2, FS_Subset
  <1>5. Cardinality(I) <= Cardinality(S) /\ Cardinality(I) # 0
    BY <1>1, <1>2, FS_Subset, FS_EmptySet
  <1> HIDE DEF I, J
  <1>6. Cardinality(I) < Cardinality(J) /\ Cardinality(I) \in 1 .. Cardinality(S)
    BY <1>1, <1>3, <1>4, <1>5
  <1> QED
    BY <1>6 DEF Rank, I, J

LEMMA RankRange ==
    ASSUME NEW S, S \subseteq Int, IsFiniteSet(S), NEW i \in S
    PROVE  Rank(S, i) \in 1 .. Cardinality(S)
  <1> DEFINE I == {m \in S : m <= i}
  <1>1. i \in I /\ I \subseteq S
    OBVIOUS
  <1>2. IsFiniteSet(I)
    BY FS_Subset
  <1>3. Cardinality(I) \in Nat /\ Cardinality(S) \in Nat
    BY <1>2, FS_CardinalityType
  <1>4. Cardinality(I) <= Cardinality(S) /\ Cardinality(I) # 0
    BY <1>1, <1>2, FS_Subset, FS_EmptySet
  <1> HIDE DEF I
  <1>5. Cardinality(I) \in 1 .. Cardinality(S)
    BY <1>3, <1>4
  <1> QED
    BY <1>5 DEF Rank, I

LEMMA RankUnique ==
    ASSUME NEW S, S \subseteq Int, IsFiniteSet(S), NEW i \in S, NEW j \in S,
           Rank(S, i) = Rank(S, j)
    PROVE  i = j
  <1>1. ASSUME NEW m \in S, NEW n \in S, m < n, Rank(S, m) = Rank(S, n) PROVE FALSE
    <2>1. Rank(S, m) \in 1 .. Cardinality(S) /\ Rank(S, m) < Rank(S, n)
      BY <1>1, RankGrows
    <2> QED
      BY <1>1, <2>1, FS_CardinalityType
  <1>2. i \in Int /\ j \in Int
    OBVIOUS
  <1>3. ~ (i < j) /\ ~ (j < i)
    BY <1>1
  <1> QED
    BY <1>2, <1>3

LEMMA RankTaken ==
    ASSUME NEW S, S \subseteq Int, IsFiniteSet(S), NEW k \in 1 .. Cardinality(S)
    PROVE  \E i \in S : Rank(S, i) = k
  <1> DEFINE n == Cardinality(S)
             f == [i \in S |-> Rank(S, i)]
  <1>1. n \in Nat
    BY FS_CardinalityType
  <1>2. IsFiniteSet(1 .. n) /\ Cardinality(1 .. n) = n
    BY <1>1, FS_Interval
  <1>3. f \in [S -> 1 .. n]
    BY RankRange
  <1>4. \A i, j \in S : f[i] = f[j] => i = j
    BY RankUnique
  <1>5. f \in Injection(S, 1 .. n)
    BY <1>3, <1>4 DEF Injection, IsInjective
  <1> HIDE DEF f
  <1>6. f \in Surjection(S, 1 .. n)
    BY <1>2, <1>5, FS_Injection
  <1>7. \E i \in S : f[i] = k
    BY <1>6 DEF Surjection
  <1> QED
    BY <1>7 DEF f

\* e enumerates S in ascending order.
Ordered(e, S) ==
    /\ DOMAIN e = 1 .. Cardinality(S) /\ Cardinality(S) \in Nat
    /\ \A k \in DOMAIN e : e[k] \in S /\ Rank(S, e[k]) = k
    /\ \A k, m \in DOMAIN e : k < m => e[k] < e[m]
    /\ \A i \in S : \E k \in DOMAIN e : e[k] = i

LEMMA InOrderIsOrdered ==
    ASSUME NEW S, S \subseteq Int, IsFiniteSet(S)
    PROVE  Ordered(InOrder(S), S)
  <1> DEFINE n == Cardinality(S)
             e == InOrder(S)
  <1>1. n \in Nat
    BY FS_CardinalityType
  <1>2. DOMAIN e = 1 .. n
    BY DEF InOrder
  <1>3. ASSUME NEW k \in 1 .. n
        PROVE  e[k] \in S /\ Rank(S, e[k]) = k
    <2>1. \E i \in S : Rank(S, i) = k
      BY RankTaken
    <2>2. e[k] = CHOOSE i \in S : Rank(S, i) = k
      BY DEF InOrder, Rank
    <2> QED
      BY <2>1, <2>2
  <1> HIDE DEF e, n
  <1>4. ASSUME NEW k \in 1 .. n, NEW m \in 1 .. n, k < m
        PROVE  e[k] < e[m]
    <2>1. e[k] \in S /\ e[m] \in S /\ Rank(S, e[k]) = k /\ Rank(S, e[m]) = m
      BY <1>3
    <2>2. e[m] < e[k] => Rank(S, e[m]) < Rank(S, e[k])
      BY <2>1, RankGrows
    <2>3. k \in Int /\ m \in Int
      BY <1>1
    <2>4. e[k] # e[m] /\ ~ (e[m] < e[k])
      BY <1>4, <2>1, <2>2, <2>3
    <2>5. e[k] \in Int /\ e[m] \in Int
      BY <2>1
    <2> QED
      BY <2>4, <2>5
  <1>5. ASSUME NEW i \in S PROVE \E k \in 1 .. n : e[k] = i
    <2>1. Rank(S, i) \in 1 .. n
      BY RankRange DEF n
    <2>2. e[Rank(S, i)] \in S /\ Rank(S, e[Rank(S, i)]) = Rank(S, i)
      BY <2>1, <1>3
    <2>3. e[Rank(S, i)] = i
      BY <2>2, RankUnique
    <2> QED
      BY <2>1, <2>3
  <1> QED
    BY <1>1, <1>2, <1>3, <1>4, <1>5 DEF Ordered, e, n

LEMMA OrderedUnique ==
    ASSUME NEW S, S \subseteq Int, IsFiniteSet(S),
           NEW e, Ordered(e, S), NEW k, k \in DOMAIN e, NEW i \in S, Rank(S, i) = k
    PROVE  e[k] = i
  <1>1. e[k] \in S /\ Rank(S, e[k]) = Rank(S, i)
    BY DEF Ordered
  <1> QED
    BY <1>1, RankUnique

LEMMA InOrderOfNothing == InOrder({}) = << >>
  <1>1. Cardinality({}) = 0
    BY FS_EmptySet
  <1>2. 1 .. 0 = {}
    OBVIOUS
  <1> QED
    BY <1>1, <1>2 DEF InOrder

\* w is e, of n elements, with x behind them.
Extends(w, e, n, x) ==
    /\ n \in Nat /\ DOMAIN e = 1 .. n /\ DOMAIN w = 1 .. n + 1
    /\ \A k \in 1 .. n : w[k] = e[k]
    /\ w[n + 1] = x

\* A position behind all others comes last.
LEMMA InOrderGrows ==
    ASSUME NEW S, S \subseteq Int, IsFiniteSet(S), NEW x \in Int, \A i \in S : i < x
    PROVE  Extends(InOrder(S \cup {x}), InOrder(S), Cardinality(S), x)
  <1> DEFINE n == Cardinality(S)
             X == S \cup {x}
             e == InOrder(S)
             w == InOrder(X)
  <1>1. x \notin S /\ X \subseteq Int
    OBVIOUS
  <1>2. IsFiniteSet(X) /\ Cardinality(X) = n + 1 /\ n \in Nat
    BY <1>1, FS_AddElement, FS_CardinalityType
  <1>3. Ordered(e, S) /\ Ordered(w, X)
    BY <1>1, <1>2, InOrderIsOrdered
  <1>4. ASSUME NEW i \in S PROVE Rank(X, i) = Rank(S, i)
    <2>1. {j \in X : j <= i} = {j \in S : j <= i}
      <3>1. i \in Int /\ i < x
        OBVIOUS
      <3> QED
        BY <3>1
    <2> QED
      BY <2>1 DEF Rank
  <1>5. Rank(X, x) = n + 1
    <2>1. \A j \in X : j <= x
      OBVIOUS
    <2>2. {j \in X : j <= x} = X
      BY <2>1, Zenon
    <2> QED
      BY <1>2, <2>2 DEF Rank
  <1>6. DOMAIN e = 1 .. n /\ DOMAIN w = 1 .. n + 1
    BY <1>2, <1>3 DEF Ordered
  <1>x. S \subseteq X /\ x \in X
    OBVIOUS
  <1> HIDE DEF e, w, n, X
  <1>7. ASSUME NEW k \in 1 .. n PROVE w[k] = e[k]
    <2>1. e[k] \in S /\ Rank(S, e[k]) = k
      BY <1>3, <1>6 DEF Ordered
    <2>2. e[k] \in X /\ Rank(X, e[k]) = k
      BY <2>1, <1>x, <1>4
    <2>3. k \in DOMAIN w
      BY <1>2, <1>6
    <2> QED
      BY <2>2, <2>3, <1>1, <1>2, <1>3, OrderedUnique
  <1>8. w[n + 1] = x
    <2>1. x \in X /\ n + 1 \in 1 .. n + 1
      BY <1>x, <1>2
    <2>2. n + 1 \in DOMAIN w
      BY <2>1, <1>6
    <2> QED
      <3>1. PICK k : k = n + 1
        OBVIOUS
      <3>2. k \in DOMAIN w /\ Rank(X, x) = k /\ x \in X
        BY <3>1, <2>1, <2>2, <1>5
      <3>3. w[k] = x
        BY <3>2, <1>1, <1>2, <1>3, OrderedUnique
      <3> QED
        BY <3>1, <3>3
  <1>9. Extends(w, e, n, x)
    BY <1>2, <1>6, <1>7, <1>8 DEF Extends
  <1> QED
    BY <1>9 DEF e, w, n, X

-----------------------------------------------------------------------------
(* Lines                                                                   *)

\* The line of b that the newline at i ends begins behind q.
Line(b, q, i) ==
    /\ b \in Seq(STRING) /\ q \in 0 .. Len(b) /\ i \in q + 1 .. Len(b)
    /\ q # 0 => b[q] = "lf"
    /\ b[i] = "lf" /\ \A j \in q + 1 .. i - 1 : b[j] # "lf"

LEMMA NewlineSetType ==
    ASSUME NEW b \in Seq(STRING)
    PROVE  /\ DOMAIN b = 1 .. Len(b) /\ Len(b) \in Nat
           /\ NewlineSet(b) \subseteq 1 .. Len(b) /\ NewlineSet(b) \subseteq Int
           /\ IsFiniteSet(NewlineSet(b))
  <1>1. DOMAIN b = 1 .. Len(b) /\ Len(b) \in Nat
    OBVIOUS
  <1>2. IsFiniteSet(1 .. Len(b))
    BY <1>1, FS_Interval
  <1>3. NewlineSet(b) \subseteq 1 .. Len(b)
    BY <1>1 DEF NewlineSet
  <1>4. 1 .. Len(b) \subseteq Int
    BY <1>1
  <1> QED
    BY <1>1, <1>2, <1>3, <1>4, FS_Subset

LEMMA LineBefore ==
    ASSUME NEW b, NEW q, NEW i, Line(b, q, i)
    PROVE  /\ b \in Seq(STRING) /\ NewlineSet(b) \subseteq Int
           /\ q \in Nat /\ i \in Nat /\ q < i
           /\ i \in NewlineSet(b) /\ (q # 0 => q \in NewlineSet(b))
           /\ \A j \in NewlineSet(b) : j < i <=> j <= q
           /\ \A j \in NewlineSet(b) : j <= i <=> (j <= q \/ j = i)
  <1>1. b \in Seq(STRING) /\ Len(b) \in Nat /\ q \in Nat /\ i \in Nat /\ q < i /\ i <= Len(b)
    BY DEF Line
  <1>2. DOMAIN b = 1 .. Len(b)
    BY <1>1
  <1>3. i \in NewlineSet(b) /\ (q # 0 => q \in NewlineSet(b))
    BY <1>1, <1>2 DEF Line, NewlineSet
  <1>4. ASSUME NEW j \in NewlineSet(b) PROVE (j < i <=> j <= q) /\ (j <= i <=> (j <= q \/ j = i))
    <2>1. j \in Nat /\ b[j] = "lf"
      BY <1>1, <1>2 DEF NewlineSet
    <2>2. ~ (j \in q + 1 .. i - 1)
      BY <2>1 DEF Line
    <2> QED
      BY <2>1, <2>2, <1>1
  <1>5. NewlineSet(b) \subseteq Int
    BY <1>1, NewlineSetType
  <1> QED
    BY <1>1, <1>3, <1>4, <1>5

LEMMA LineText ==
    ASSUME NEW b, NEW q, NEW i, Line(b, q, i)
    PROVE  LineEndingAt(b, i) = WithoutCr(SubSeq(b, q + 1, i - 1))
  <1> DEFINE P == {j \in NewlineSet(b) : j < i}
             start == IF \E j \in NewlineSet(b) : j < i THEN Max(P) ELSE 0
  <1>1. b \in Seq(STRING)
    BY DEF Line
  <1>2. P \subseteq Int /\ IsFiniteSet(P)
    BY <1>1, NewlineSetType, FS_Subset
  <1>3. start = q
    <2>1. CASE q = 0
      <3>1. \A j \in NewlineSet(b) : j \in 1 .. Len(b)
        BY <1>1, NewlineSetType
      <3>2. \A j \in NewlineSet(b) : ~ (j < i)
        BY <2>1, <3>1, LineBefore
      <3> QED
        BY <2>1, <3>2
    <2>2. CASE q # 0
      <3>1. q \in P /\ \A j \in P : j <= q
        BY <2>2, LineBefore
      <3> HIDE DEF P
      <3>2. Max(P) \in P /\ \A j \in P : Max(P) >= j
        BY <3>1, <1>2, GreatestOf
      <3>3. Max(P) = q
        <4>1. Max(P) \in P /\ Max(P) >= q
          BY <3>1, <3>2
        <4>2. Max(P) \in Int /\ q \in Int /\ Max(P) <= q
          BY <4>1, <3>1, <1>2
        <4> QED
          BY <4>1, <4>2
      <3>4. \E j \in NewlineSet(b) : j < i
        BY <3>1 DEF P
      <3> QED
        BY <3>3, <3>4
    <2> QED
      BY <2>1, <2>2
  <1>4. LineEndingAt(b, i) = WithoutCr(SubSeq(b, 1 + start, i - 1))
    BY DEF LineEndingAt
  <1> HIDE DEF start
  <1>5. 1 + q = q + 1
    BY LineBefore
  <1> QED
    BY <1>3, <1>4, <1>5

LEMMA LineType ==
    ASSUME NEW b, NEW q, NEW i, Line(b, q, i)
    PROVE  LineEndingAt(b, i) \in Seq(STRING)
  <1> DEFINE raw == SubSeq(b, q + 1, i - 1)
  <1>1. b \in Seq(STRING) /\ q + 1 \in 1 .. Len(b) + 1 /\ i - 1 \in 0 .. Len(b)
    BY LineBefore DEF Line
  <1>2. raw \in Seq(STRING)
    BY <1>1
  <1> HIDE DEF raw
  <1>3. raw # << >> => Front(raw) \in Seq(STRING)
    BY <1>2 DEF Front
  <1>4. WithoutCr(raw) \in Seq(STRING)
    BY <1>2, <1>3 DEF WithoutCr
  <1> QED
    BY <1>4, LineText DEF raw

\* Any newline ends a line.
LEMMA LineOfNewline ==
    ASSUME NEW b \in Seq(STRING), NEW i \in NewlineSet(b)
    PROVE  \E q : Line(b, q, i)
  <1> DEFINE P == {j \in NewlineSet(b) : j < i}
  <1>1. P \subseteq Int /\ IsFiniteSet(P) /\ i \in 1 .. Len(b) /\ b[i] = "lf" /\ Len(b) \in Nat
    BY NewlineSetType, FS_Subset DEF NewlineSet
  <1>2. CASE P = {}
    <2>1. \A j \in 1 .. i - 1 : b[j] # "lf"
      BY <1>1, <1>2, NewlineSetType DEF NewlineSet
    <2>2. Line(b, 0, i)
      BY <1>1, <2>1 DEF Line
    <2> QED
      BY <2>2
  <1>3. CASE P # {}
    <2> DEFINE q == Max(P)
    <2>1. q \in P /\ \A j \in P : q >= j
      BY <1>1, <1>3, GreatestOf
    <2> HIDE DEF q
    <2>2. q \in NewlineSet(b) /\ q < i /\ \A j \in NewlineSet(b) : j < i => q >= j
      BY <2>1
    <2>3. q \in 1 .. Len(b) /\ b[q] = "lf"
      BY <2>2, NewlineSetType DEF NewlineSet
    <2>4. ASSUME NEW j \in q + 1 .. i - 1 PROVE b[j] # "lf"
      <3>1. j \in 1 .. Len(b) /\ j < i /\ ~ (q >= j)
        BY <1>1, <2>3
      <3>2. j \notin NewlineSet(b)
        BY <3>1, <2>2
      <3> QED
        BY <3>1, <3>2, NewlineSetType DEF NewlineSet
    <2>5. Line(b, q, i)
      BY <1>1, <2>2, <2>3, <2>4 DEF Line
    <2> QED
      BY <2>5
  <1> QED
    BY <1>2, <1>3

-----------------------------------------------------------------------------
(* Blocks and frames                                                       *)

LEMMA BlockType ==
    ASSUME NEW b \in Seq(STRING), NEW i
    PROVE  /\ Block(b, i) \subseteq NewlineSet(b) /\ Block(b, i) \subseteq Int
           /\ IsFiniteSet(Block(b, i)) /\ \A j \in Block(b, i) : j < i
  <1>1. Block(b, i) \subseteq NewlineSet(b) /\ \A j \in Block(b, i) : j < i
    BY Zenon DEF Block
  <1> QED
    BY <1>1, NewlineSetType, FS_Subset

\* A line adds nothing to the block that it ends or stands behind.
LEMMA BlockAtLine ==
    ASSUME NEW b, NEW q, NEW i, Line(b, q, i)
    PROVE  Block(b, i) = Block(b, q + 1)
  <1>1. /\ \A j \in NewlineSet(b) : j < i <=> j <= q
        /\ NewlineSet(b) \subseteq Int /\ q \in Nat
    BY LineBefore
  <1>2. \A j \in NewlineSet(b) : j < i <=> j < q + 1
    BY <1>1
  <1>3. Blanks(b) \subseteq NewlineSet(b)
    BY DEF Blanks
  <1>4. ASSUME NEW j
        PROVE  j \in Block(b, i) <=> j \in Block(b, q + 1)
    BY <1>2, <1>3, Zenon DEF Block
  <1> QED
    BY <1>4, Zenon

LEMMA BlockBehindBlank ==
    ASSUME NEW b, NEW q, NEW i, Line(b, q, i), LineEndingAt(b, i) = << >>
    PROVE  Block(b, i + 1) = {}
  <1>1. /\ \A j \in NewlineSet(b) : j <= i <=> (j <= q \/ j = i)
        /\ NewlineSet(b) \subseteq Int /\ q \in Nat /\ i \in Nat /\ q < i
    BY LineBefore
  <1>2. i \in Blanks(b)
    BY LineBefore DEF Blanks
  <1>3. ASSUME NEW j \in Block(b, i + 1) PROVE FALSE
    <2>1. j \in NewlineSet(b) /\ j \notin Blanks(b) /\ j < i + 1
          /\ ~ (j < i /\ i < i + 1)
      BY <1>2, Zenon DEF Block
    <2>2. j \in Int /\ j # i
      BY <1>1, <1>2, <2>1
    <2> QED
      BY <1>1, <2>1, <2>2
  <1> QED
    BY <1>3

\* Behind a line that is not blank.
LEMMA BlockBehindLine ==
    ASSUME NEW b, NEW q, NEW i, Line(b, q, i), LineEndingAt(b, i) # << >>
    PROVE  Block(b, i + 1) = IF Head(LineEndingAt(b, i)) # ":"
                             THEN Block(b, q + 1) \cup {i} ELSE Block(b, q + 1)
  <1>1. /\ \A j \in NewlineSet(b) : j <= i <=> (j <= q \/ j = i)
        /\ NewlineSet(b) \subseteq Int /\ q \in Nat /\ i \in Nat /\ q < i
        /\ i \in NewlineSet(b)
    BY LineBefore
  <1>2. i \notin Blanks(b) /\ Blanks(b) \subseteq NewlineSet(b)
    BY DEF Blanks
  <1>3. \A j \in NewlineSet(b) : j < i + 1 <=> (j < q + 1 \/ j = i)
    BY <1>1
  <1>4. \A k \in Blanks(b) : k < i + 1 <=> k < q + 1
    BY <1>2, <1>3
  <1>5. \A k \in Blanks(b) : ~ (i < k /\ k < i + 1)
    BY <1>1, <1>2
  <1>6. ~ (i < q + 1)
    BY <1>1
  <1>7. ASSUME NEW j
        PROVE  j \in Block(b, i + 1) <=>
                 (j \in Block(b, q + 1) \/ (j = i /\ Head(LineEndingAt(b, i)) # ":"))
    <2>1. CASE j = i
      <3>1. j \notin Block(b, q + 1)
        BY <2>1, <1>6, Zenon DEF Block
      <3>2. i < i + 1
        BY <1>1
      <3>3. j \in Block(b, i + 1) <=> Head(LineEndingAt(b, i)) # ":"
        BY <2>1, <1>1, <1>2, <1>5, <3>2, Zenon DEF Block
      <3> QED
        BY <2>1, <3>1, <3>3
    <2>2. CASE j # i
      BY <2>2, <1>3, <1>4, Zenon DEF Block
    <2> QED
      BY <2>1, <2>2
  <1> QED
    BY <1>7

\* The pending frame that the field lines in B make.
NamedIn(b, B, name) == {j \in B : Head(LineEndingAt(b, j)) = name}
ValueIn(b, B, name) ==
    IF NamedIn(b, B, name) = {} THEN None ELSE Tail(LineEndingAt(b, Max(NamedIn(b, B, name))))
TextsAt(b, at) == [k \in DOMAIN at |-> Tail(LineEndingAt(b, at[k]))]
DataIn(b, B) == TextsAt(b, InOrder(NamedIn(b, B, "data:")))
HeldIn(b, B) ==
    [event |-> ValueIn(b, B, "event:"), id |-> Number(ValueIn(b, B, "id:")),
     data |-> DataIn(b, B), size |-> SizeOf(DataIn(b, B)), dirty |-> B # {}]

\* The frame that is returned for a pending one.
Given(p) == [id |-> p.id, event |-> p.event, data |-> p.data]

LEMMA FrameEndingAtHeld ==
    ASSUME NEW b, NEW i
    PROVE  FrameEndingAt(b, i) = Given(HeldIn(b, Block(b, i)))
  BY Zenon DEF FrameEndingAt, Given, HeldIn, ValueIn, ValueOf, Named, NamedIn, DataIn, TextsAt

LEMMA HeldInNothing ==
    ASSUME NEW b
    PROVE  HeldIn(b, {}) = NoFrame
  <1>1. \A name : NamedIn(b, {}, name) = {}
    BY DEF NamedIn
  <1>2. \A name : ValueIn(b, {}, name) = None
    BY <1>1, Zenon DEF ValueIn
  <1>3. DataIn(b, {}) = << >>
    <2>1. InOrder(NamedIn(b, {}, "data:")) = << >>
      BY <1>1, InOrderOfNothing
    <2> QED
      BY <2>1 DEF DataIn, TextsAt
  <1>4. Number(None) = None
    BY DEF Number, None
  <1> QED
    BY <1>2, <1>3, <1>4, SizeOfNothing DEF HeldIn, NoFrame

\* A field line behind the others.
Behind(b, B, i) ==
    /\ b \in Seq(STRING) /\ B \cup {i} \subseteq NewlineSet(b) \ Blanks(b)
    /\ \A j \in B : j < i

\* i joins the lines of its name.
Joins(N, M, i, named) ==
    /\ N \subseteq Int /\ IsFiniteSet(N) /\ i \in Int /\ \A j \in N : j < i
    /\ M = IF named THEN N \cup {i} ELSE N

LEMMA BehindNamed ==
    ASSUME NEW b, NEW B, NEW i, Behind(b, B, i), NEW name
    PROVE  Joins(NamedIn(b, B, name), NamedIn(b, B \cup {i}, name), i,
                 Head(LineEndingAt(b, i)) = name)
  <1>1. NamedIn(b, B, name) \subseteq B
    BY DEF NamedIn
  <1>2. NewlineSet(b) \subseteq Int /\ IsFiniteSet(NewlineSet(b))
    BY NewlineSetType DEF Behind
  <1>3. NamedIn(b, B, name) \subseteq Int /\ IsFiniteSet(NamedIn(b, B, name))
    BY <1>1, <1>2, FS_Subset DEF Behind
  <1>4. i \in Int /\ \A j \in NamedIn(b, B, name) : j < i
    BY <1>1, <1>2 DEF Behind
  <1>5. Head(LineEndingAt(b, i)) = name =>
          NamedIn(b, B \cup {i}, name) = NamedIn(b, B, name) \cup {i}
    BY DEF NamedIn
  <1>6. Head(LineEndingAt(b, i)) # name => NamedIn(b, B \cup {i}, name) = NamedIn(b, B, name)
    BY DEF NamedIn
  <1> QED
    BY <1>3, <1>4, <1>5, <1>6 DEF Joins

LEMMA ValueInGrows ==
    ASSUME NEW b, NEW B, NEW i, Behind(b, B, i), NEW name
    PROVE  ValueIn(b, B \cup {i}, name) =
             IF Head(LineEndingAt(b, i)) = name THEN Tail(LineEndingAt(b, i)) ELSE ValueIn(b, B, name)
  <1> DEFINE N == NamedIn(b, B, name)
             M == NamedIn(b, B \cup {i}, name)
  <1>0. Joins(N, M, i, Head(LineEndingAt(b, i)) = name)
    BY BehindNamed
  <1> HIDE DEF M, N
  <1>1. CASE Head(LineEndingAt(b, i)) = name
    <2>1. M = N \cup {i} /\ N \subseteq Int /\ IsFiniteSet(N) /\ i \in Int /\ \A j \in N : j < i
      BY <1>0, <1>1 DEF Joins
    <2>2. M \subseteq Int /\ IsFiniteSet(M) /\ M # {}
      BY <2>1, FS_AddElement
    <2>3. Max(M) \in M /\ \A j \in M : Max(M) >= j
      BY <2>2, GreatestOf
    <2>4. Max(M) = i
      <3>1. Max(M) \in Int /\ i \in Int /\ Max(M) >= i /\ (Max(M) = i \/ Max(M) < i)
        BY <2>1, <2>2, <2>3
      <3> QED
        BY <3>1
    <2> QED
      BY <1>1, <2>2, <2>4 DEF ValueIn, M
  <1>2. CASE Head(LineEndingAt(b, i)) # name
    BY <1>0, <1>2 DEF ValueIn, Joins, M, N
  <1> QED
    BY <1>1, <1>2

LEMMA AppendAs ==
    ASSUME NEW T, NEW v \in Seq(T), NEW x \in T, NEW n \in Nat, DOMAIN v = 1 .. n,
           NEW w \in [1 .. n + 1 -> T], \A k \in 1 .. n : w[k] = v[k], w[n + 1] = x
    PROVE  w = Append(v, x)
  <1> DEFINE u == Append(v, x)
  <1>1. Len(v) = n
    OBVIOUS
  <1>2. u \in Seq(T) /\ Len(u) = n + 1 /\ (\A k \in 1 .. n : u[k] = v[k]) /\ u[n + 1] = x
    BY <1>1
  <1>3. w \in Seq(T) /\ Len(w) = n + 1
    OBVIOUS
  <1> HIDE DEF u
  <1>4. \A k \in 1 .. Len(w) : w[k] = u[k]
    BY <1>2, <1>3
  <1>5. w = u
    BY <1>2, <1>3, <1>4, SeqEqual
  <1> QED
    BY <1>5 DEF u

LEMMA TextType ==
    ASSUME NEW b \in Seq(STRING), NEW i \in NewlineSet(b) \ Blanks(b)
    PROVE  Tail(LineEndingAt(b, i)) \in Seq(STRING)
  <1>1. LineEndingAt(b, i) # << >>
    BY DEF Blanks
  <1>2. LineEndingAt(b, i) \in Seq(STRING)
    BY LineOfNewline, LineType
  <1> QED
    BY <1>1, <1>2

LEMMA DataInType ==
    ASSUME NEW b \in Seq(STRING), NEW B, B \subseteq NewlineSet(b) \ Blanks(b)
    PROVE  DataIn(b, B) \in Seq(Seq(STRING))
  <1> DEFINE N == NamedIn(b, B, "data:")
             e == InOrder(N)
  <1>1. N \subseteq B
    BY DEF NamedIn
  <1>2. NewlineSet(b) \subseteq Int /\ IsFiniteSet(NewlineSet(b)) /\ N \subseteq NewlineSet(b)
    BY <1>1, NewlineSetType
  <1>3. N \subseteq Int /\ IsFiniteSet(N)
    BY <1>2, FS_Subset
  <1> HIDE DEF N
  <1>4. Ordered(e, N)
    BY <1>3, InOrderIsOrdered
  <1> HIDE DEF e
  <1> DEFINE n == Cardinality(N)
  <1>5. n \in Nat /\ DOMAIN e = 1 .. n /\ \A k \in 1 .. n : e[k] \in N
    BY <1>4 DEF Ordered
  <1> HIDE DEF n
  <1>6. \A k \in 1 .. n : Tail(LineEndingAt(b, e[k])) \in Seq(STRING)
    BY <1>1, <1>5, TextType
  <1>7. TextsAt(b, e) \in [1 .. n -> Seq(STRING)]
    BY <1>5, <1>6 DEF TextsAt
  <1>8. TextsAt(b, e) \in Seq(Seq(STRING))
    BY <1>5, <1>7
  <1> QED
    BY <1>8 DEF DataIn, e, N

LEMMA DataInGrows ==
    ASSUME NEW b, NEW B, NEW i, Behind(b, B, i)
    PROVE  DataIn(b, B \cup {i}) =
             IF Head(LineEndingAt(b, i)) = "data:"
             THEN Append(DataIn(b, B), Tail(LineEndingAt(b, i))) ELSE DataIn(b, B)
  <1> DEFINE N == NamedIn(b, B, "data:")
             M == NamedIn(b, B \cup {i}, "data:")
             e == InOrder(N)
             w == InOrder(M)
             n == Cardinality(N)
             text == Tail(LineEndingAt(b, i))
  <1>1. Joins(N, M, i, Head(LineEndingAt(b, i)) = "data:")
    BY BehindNamed
  <1>2. b \in Seq(STRING) /\ B \subseteq NewlineSet(b) \ Blanks(b)
        /\ B \cup {i} \subseteq NewlineSet(b) \ Blanks(b) /\ i \in NewlineSet(b) \ Blanks(b)
    BY DEF Behind
  <1>3. DataIn(b, B) \in Seq(Seq(STRING)) /\ DataIn(b, B \cup {i}) \in Seq(Seq(STRING))
    BY <1>2, DataInType
  <1>4. text \in Seq(STRING)
    BY <1>2, TextType
  <1>5. DataIn(b, B) = TextsAt(b, e) /\ DataIn(b, B \cup {i}) = TextsAt(b, w)
    BY DEF DataIn
  <1> HIDE DEF N, M
  <1>6. CASE Head(LineEndingAt(b, i)) = "data:"
    <2>1. N \subseteq Int /\ IsFiniteSet(N) /\ i \in Int /\ (\A j \in N : j < i) /\ M = N \cup {i}
      BY <1>1, <1>6 DEF Joins
    <2>2. Extends(w, e, n, i)
      BY <2>1, InOrderGrows
    <2> HIDE DEF e, w, n, text
    <2>3. DOMAIN TextsAt(b, e) = DOMAIN e /\ DOMAIN TextsAt(b, w) = DOMAIN w
      BY DEF TextsAt
    <2>4. /\ n \in Nat /\ DOMAIN e = 1 .. n /\ DOMAIN w = 1 .. n + 1 /\ w[n + 1] = i
          /\ \A k \in 1 .. n : w[k] = e[k]
      BY <2>2 DEF Extends
    <2>5. TextsAt(b, w) \in [1 .. n + 1 -> Seq(STRING)]
      BY <1>3, <1>5, <2>3, <2>4
    <2>6. n + 1 \in DOMAIN w /\ \A k \in 1 .. n : k \in DOMAIN w
      BY <2>4
    <2>7. \A k \in 1 .. n : TextsAt(b, w)[k] = TextsAt(b, e)[k]
      BY <2>4, <2>6 DEF TextsAt
    <2>8. TextsAt(b, w)[n + 1] = text
      BY <2>4, <2>6 DEF TextsAt, text
    <2>9. TextsAt(b, w) = Append(TextsAt(b, e), text)
      BY <1>3, <1>4, <1>5, <2>3, <2>4, <2>5, <2>7, <2>8, AppendAs
    <2> QED
      BY <1>5, <1>6, <2>9 DEF text
  <1>7. CASE Head(LineEndingAt(b, i)) # "data:"
    <2>1. M = N
      BY <1>1, <1>7 DEF Joins
    <2> QED
      BY <1>5, <1>7, <2>1
  <1> QED
    BY <1>6, <1>7

\* A field line does to the pending frame what Field does.
LEMMA HeldInGrows ==
    ASSUME NEW b, NEW B, NEW i, Behind(b, B, i)
    PROVE  HeldIn(b, B \cup {i}) =
             Field(HeldIn(b, B), Head(LineEndingAt(b, i)), Tail(LineEndingAt(b, i)))
  <1> DEFINE text == Tail(LineEndingAt(b, i))
             name == Head(LineEndingAt(b, i))
             C == B \cup {i}
  <1>1. ValueIn(b, C, "event:") = IF name = "event:" THEN text ELSE ValueIn(b, B, "event:")
    BY ValueInGrows
  <1>2. ValueIn(b, C, "id:") = IF name = "id:" THEN text ELSE ValueIn(b, B, "id:")
    BY ValueInGrows
  <1>3. DataIn(b, C) = IF name = "data:" THEN Append(DataIn(b, B), text) ELSE DataIn(b, B)
    BY DataInGrows
  <1>4. DataIn(b, B) \in Seq(Seq(STRING)) /\ text \in Seq(STRING)
    BY DataInType, TextType DEF Behind
  <1>5. SizeOf(DataIn(b, C)) =
          IF name = "data:" THEN SizeOf(DataIn(b, B)) + Len(text) ELSE SizeOf(DataIn(b, B))
    BY <1>3, <1>4, SizeOfAppend
  <1>6. (C # {}) = TRUE
    OBVIOUS
  <1>7. HeldIn(b, C) = [event |-> ValueIn(b, C, "event:"), id |-> Number(ValueIn(b, C, "id:")),
                        data |-> DataIn(b, C), size |-> SizeOf(DataIn(b, C)), dirty |-> TRUE]
    BY <1>6 DEF HeldIn
  <1> DEFINE h == HeldIn(b, B)
             d == (B # {})
  <1>8. h = [event |-> ValueIn(b, B, "event:"), id |-> Number(ValueIn(b, B, "id:")),
             data |-> DataIn(b, B), size |-> SizeOf(DataIn(b, B)), dirty |-> d]
    BY DEF HeldIn
  <1> HIDE DEF text, name, C, h, d
  <1>9. HeldIn(b, C) = Field(h, name, text)
    <2>1. CASE name = "event:"
      BY <2>1, <1>1, <1>2, <1>3, <1>5, <1>7, <1>8 DEF Field
    <2>2. CASE name = "id:"
      BY <2>2, <1>1, <1>2, <1>3, <1>5, <1>7, <1>8 DEF Field
    <2>3. CASE name = "data:"
      BY <2>3, <1>1, <1>2, <1>3, <1>5, <1>7, <1>8 DEF Field
    <2>4. CASE name \notin {"event:", "id:", "data:"}
      BY <2>4, <1>1, <1>2, <1>3, <1>5, <1>7, <1>8 DEF Field
    <2> QED
      BY <2>1, <2>2, <2>3, <2>4
  <1> QED
    BY <1>9 DEF text, name, C, h

-----------------------------------------------------------------------------
(* What the parser has made of the bytes before i                          *)

Ends(b) == {i \in Blanks(b) : Block(b, i) # {}}
EndsBefore(b, i) == {j \in Ends(b) : j < i}
FramesAt(b, at) == [k \in DOMAIN at |-> FrameEndingAt(b, at[k])]
HeldAt(b, i) == HeldIn(b, Block(b, i))
OutAt(b, i) == FramesAt(b, InOrder(EndsBefore(b, i)))
MadeOf(b, i) == [frame |-> HeldAt(b, i), out |-> OutAt(b, i)]

LEMMA EndsBeforeType ==
    ASSUME NEW b \in Seq(STRING), NEW i
    PROVE  /\ EndsBefore(b, i) \subseteq NewlineSet(b) /\ EndsBefore(b, i) \subseteq Int
           /\ IsFiniteSet(EndsBefore(b, i))
  <1>1. EndsBefore(b, i) \subseteq NewlineSet(b)
    BY DEF EndsBefore, Ends, Blanks
  <1> QED
    BY <1>1, NewlineSetType, FS_Subset

LEMMA FramesAtType ==
    ASSUME NEW b \in Seq(STRING), NEW i, NEW T, T = {FrameEndingAt(b, j) : j \in NewlineSet(b)}
    PROVE  OutAt(b, i) \in Seq(T)
  <1> DEFINE N == EndsBefore(b, i)
             e == InOrder(N)
             n == Cardinality(N)
  <1>1. N \subseteq Int /\ IsFiniteSet(N) /\ N \subseteq NewlineSet(b)
    BY EndsBeforeType
  <1>2. OutAt(b, i) = FramesAt(b, e)
    BY DEF OutAt
  <1> HIDE DEF N
  <1>3. Ordered(e, N)
    BY <1>1, InOrderIsOrdered
  <1> HIDE DEF e
  <1>4. n \in Nat /\ DOMAIN e = 1 .. n /\ \A k \in 1 .. n : e[k] \in NewlineSet(b)
    BY <1>1, <1>3 DEF Ordered
  <1> HIDE DEF n
  <1>5. \A k \in 1 .. n : FrameEndingAt(b, e[k]) \in T
    BY <1>4
  <1>6. FramesAt(b, e) \in [1 .. n -> T]
    BY <1>4, <1>5 DEF FramesAt
  <1> QED
    BY <1>2, <1>4, <1>6

\* A blank line with field lines before it adds its frame.
LEMMA EndsBehind ==
    ASSUME NEW b, NEW q, NEW i, Line(b, q, i)
    PROVE  EndsBefore(b, i + 1) =
             IF LineEndingAt(b, i) = << >> /\ Block(b, q + 1) # {}
             THEN EndsBefore(b, q + 1) \cup {i} ELSE EndsBefore(b, q + 1)
  <1>1. /\ \A j \in NewlineSet(b) : j <= i <=> (j <= q \/ j = i)
        /\ NewlineSet(b) \subseteq Int /\ q \in Nat /\ i \in Nat /\ q < i
        /\ i \in NewlineSet(b)
    BY LineBefore
  <1>2. \A j \in NewlineSet(b) : j < i + 1 <=> (j < q + 1 \/ j = i)
    BY <1>1
  <1>3. i \in Ends(b) <=> (LineEndingAt(b, i) = << >> /\ Block(b, q + 1) # {})
    BY <1>1, BlockAtLine, Zenon DEF Ends, Blanks
  <1>4. Ends(b) \subseteq NewlineSet(b)
    BY DEF Ends, Blanks
  <1>5. ASSUME NEW j
        PROVE  j \in EndsBefore(b, i + 1) <=> (j \in EndsBefore(b, q + 1) \/ (j = i /\ i \in Ends(b)))
    BY <1>1, <1>2, <1>4, Zenon DEF EndsBefore
  <1> QED
    BY <1>3, <1>5

LEMMA OutBehind ==
    ASSUME NEW b, NEW q, NEW i, Line(b, q, i)
    PROVE  OutAt(b, i + 1) =
             IF LineEndingAt(b, i) = << >> /\ Block(b, q + 1) # {}
             THEN Append(OutAt(b, q + 1), Given(HeldAt(b, q + 1))) ELSE OutAt(b, q + 1)
  <1> DEFINE N == EndsBefore(b, q + 1)
             M == EndsBefore(b, i + 1)
             e == InOrder(N)
             w == InOrder(M)
             n == Cardinality(N)
             ended == LineEndingAt(b, i) = << >> /\ Block(b, q + 1) # {}
             frame == FrameEndingAt(b, i)
             T == {FrameEndingAt(b, j) : j \in NewlineSet(b)}
  <1>1. OutAt(b, q + 1) = FramesAt(b, e) /\ OutAt(b, i + 1) = FramesAt(b, w)
    BY DEF OutAt
  <1>2. M = IF ended THEN N \cup {i} ELSE N
    BY EndsBehind
  <1>3. CASE ended
    <2>1. /\ b \in Seq(STRING) /\ NewlineSet(b) \subseteq Int /\ i \in NewlineSet(b)
          /\ q \in Nat /\ i \in Nat /\ q < i
      BY LineBefore
    <2>2. N \subseteq Int /\ IsFiniteSet(N)
      BY <2>1, EndsBeforeType
    <2>3. \A j \in N : j < i
      <3>1. \A j \in N : j < q + 1
        BY DEF EndsBefore
      <3> QED
        BY <3>1, <2>1, <2>2
    <2>4. OutAt(b, q + 1) \in Seq(T) /\ OutAt(b, i + 1) \in Seq(T) /\ frame \in T
      BY <2>1, FramesAtType
    <2>5. frame = Given(HeldAt(b, q + 1))
      BY FrameEndingAtHeld, BlockAtLine DEF HeldAt
    <2> HIDE DEF N, M, ended, T, frame
    <2>6. M = N \cup {i} /\ i \in Int
      BY <1>2, <1>3, <2>1
    <2>7. Extends(w, e, n, i)
      BY <2>2, <2>3, <2>6, InOrderGrows
    <2> HIDE DEF e, w, n
    <2>8. /\ n \in Nat /\ DOMAIN e = 1 .. n /\ DOMAIN w = 1 .. n + 1 /\ w[n + 1] = i
          /\ \A k \in 1 .. n : w[k] = e[k]
      BY <2>7 DEF Extends
    <2>9. DOMAIN FramesAt(b, e) = DOMAIN e /\ DOMAIN FramesAt(b, w) = DOMAIN w
      BY DEF FramesAt
    <2>10. FramesAt(b, w) \in [1 .. n + 1 -> T]
      BY <1>1, <2>4, <2>8, <2>9
    <2>11. n + 1 \in DOMAIN w /\ \A k \in 1 .. n : k \in DOMAIN w
      BY <2>8
    <2>12. \A k \in 1 .. n : FramesAt(b, w)[k] = FramesAt(b, e)[k]
      BY <2>8, <2>11 DEF FramesAt
    <2>13. FramesAt(b, w)[n + 1] = frame
      BY <2>8, <2>11 DEF FramesAt, frame
    <2>14. FramesAt(b, w) = Append(FramesAt(b, e), frame)
      BY <1>1, <2>4, <2>8, <2>9, <2>10, <2>12, <2>13, AppendAs
    <2> QED
      BY <1>1, <1>3, <2>5, <2>14 DEF ended
  <1>4. CASE ~ ended
    <2> HIDE DEF N, M, ended
    <2>1. OutAt(b, i + 1) = OutAt(b, q + 1)
      BY <1>1, <1>2, <1>4
    <2> QED
      BY <1>4, <2>1 DEF ended
  <1> QED
    BY <1>3, <1>4

\* One line.
LEMMA MadeOfLine ==
    ASSUME NEW b, NEW q, NEW i, Line(b, q, i)
    PROVE  MadeOf(b, i + 1) = TakeLine(MadeOf(b, q + 1), SubSeq(b, q + 1, i - 1))
  <1> DEFINE text == LineEndingAt(b, i)
             raw == SubSeq(b, q + 1, i - 1)
             B == Block(b, q + 1)
             out == OutAt(b, q + 1)
             s == MadeOf(b, q + 1)
  <1>1. WithoutCr(raw) = text
    BY LineText
  <1>2. s = [frame |-> HeldIn(b, B), out |-> out]
    BY DEF MadeOf, HeldAt
  <1>3. MadeOf(b, i + 1) = [frame |-> HeldIn(b, Block(b, i + 1)), out |-> OutAt(b, i + 1)]
    BY DEF MadeOf, HeldAt
  <1>4. HeldIn(b, B).dirty = (B # {})
    BY DEF HeldIn
  <1>5. CASE text = << >> /\ B = {}
    <2>1. Block(b, i + 1) = {} /\ OutAt(b, i + 1) = out
      BY <1>5, BlockBehindBlank, OutBehind
    <2>2. MadeOf(b, i + 1) = s
      BY <1>2, <1>3, <1>5, <2>1
    <2> HIDE DEF text, raw, B, out, s
    <2>3. s.frame = HeldIn(b, B)
      BY <1>2
    <2>4. ~ s.frame.dirty
      BY <1>4, <1>5, <2>3
    <2>5. Flush(s) = s
      BY <2>4 DEF Flush
    <2>6. TakeLine(s, raw) = Flush(s)
      BY <1>1, <1>5 DEF TakeLine
    <2> QED
      BY <2>2, <2>5, <2>6 DEF s, raw
  <1>6. CASE text = << >> /\ B # {}
    <2>1. Block(b, i + 1) = {} /\ OutAt(b, i + 1) = Append(out, Given(HeldIn(b, B)))
      BY <1>6, BlockBehindBlank, OutBehind DEF HeldAt
    <2>2. HeldIn(b, {}) = NoFrame
      BY HeldInNothing
    <2> HIDE DEF text, raw, B, out, s
    <2>3. s.frame = HeldIn(b, B) /\ s.out = out
      BY <1>2
    <2>4. s.frame.dirty
      BY <1>4, <1>6, <2>3
    <2>5. Flush(s) = [frame |-> NoFrame, out |-> Append(s.out, Given(s.frame))]
      BY <2>4 DEF Flush, Given
    <2>6. TakeLine(s, raw) = Flush(s)
      BY <1>1, <1>6 DEF TakeLine
    <2>7. MadeOf(b, i + 1) = TakeLine(s, raw)
      BY <1>3, <2>1, <2>2, <2>3, <2>5, <2>6
    <2> QED
      BY <2>7 DEF s, raw
  <1>7. CASE text # << >> /\ Head(text) = ":"
    <2>1. Block(b, i + 1) = B /\ OutAt(b, i + 1) = out
      BY <1>7, BlockBehindLine, OutBehind
    <2>2. MadeOf(b, i + 1) = s
      BY <1>2, <1>3, <2>1
    <2> HIDE DEF text, raw, B, out, s
    <2>3. TakeLine(s, raw) = s
      BY <1>1, <1>7 DEF TakeLine
    <2> QED
      BY <2>2, <2>3 DEF s, raw
  <1>8. CASE text # << >> /\ Head(text) # ":"
    <2>1. Block(b, i + 1) = B \cup {i} /\ OutAt(b, i + 1) = out
      BY <1>8, BlockBehindLine, OutBehind
    <2>2. Behind(b, B, i)
      <3>1. /\ b \in Seq(STRING) /\ NewlineSet(b) \subseteq Int /\ i \in NewlineSet(b)
            /\ q \in Nat /\ i \in Nat /\ q < i
        BY LineBefore
      <3>2. B \subseteq NewlineSet(b) /\ \A j \in B : j < q + 1
        BY <3>1, BlockType
      <3>3. B \subseteq NewlineSet(b) \ Blanks(b)
        BY Zenon DEF Block
      <3>4. i \notin Blanks(b)
        BY <1>8 DEF Blanks
      <3>5. \A j \in B : j < i
        BY <3>1, <3>2
      <3> QED
        BY <3>1, <3>3, <3>4, <3>5 DEF Behind
    <2>3. HeldIn(b, B \cup {i}) = Field(HeldIn(b, B), Head(text), Tail(text))
      BY <2>2, HeldInGrows
    <2> HIDE DEF text, raw, B, out, s
    <2>4. TakeLine(s, raw) = [s EXCEPT !.frame = Field(s.frame, Head(text), Tail(text))]
      BY <1>1, <1>8 DEF TakeLine
    <2>5. MadeOf(b, i + 1) = TakeLine(s, raw)
      BY <1>2, <1>3, <2>1, <2>3, <2>4
    <2> QED
      BY <2>5 DEF s, raw
  <1> QED
    BY <1>5, <1>6, <1>7, <1>8

-----------------------------------------------------------------------------
(* The newlines of what feed holds                                         *)

\* at is 0 and the places of the n newlines of c in order.
CutAt(at, c, n) ==
    /\ n \in Nat /\ Len(at) = n + 1 /\ at[1] = 0
    /\ \A k \in 1 .. n + 1 : at[k] \in 0 .. Len(c)
    /\ \A k \in 1 .. n : /\ at[k] < at[k + 1] /\ c[at[k + 1]] = "lf"
                         /\ \A j \in at[k] + 1 .. at[k + 1] - 1 : c[j] # "lf"
    /\ \A j \in at[n + 1] + 1 .. Len(c) : c[j] # "lf"

LEMMA NewlinesCut ==
    ASSUME NEW c \in Seq(STRING)
    PROVE  \E n : CutAt(Newlines(c), c, n)
  <1> DEFINE S == NewlineSet(c)
             e == InOrder(S)
             n == Cardinality(S)
             at == Newlines(c)
  <1>1. S \subseteq Int /\ IsFiniteSet(S) /\ S \subseteq 1 .. Len(c)
        /\ DOMAIN c = 1 .. Len(c) /\ Len(c) \in Nat
    BY NewlineSetType
  <1>2. \A j : j \in S <=> (j \in 1 .. Len(c) /\ c[j] = "lf")
    BY <1>1 DEF NewlineSet
  <1>3. at = <<0>> \o e
    BY DEF Newlines, NewlineSet
  <1>4. Ordered(e, S)
    BY <1>1, InOrderIsOrdered
  <1>5. n \in Nat
    BY <1>1, FS_CardinalityType
  <1>6. DOMAIN e = 1 .. n
    BY <1>4 DEF Ordered
  <1>7. e \in [1 .. n -> Int]
    BY <1>1, <1>4, <1>6 DEF Ordered, InOrder
  <1> HIDE DEF S, e, n, at
  <1>8. e \in Seq(Int) /\ Len(e) = n
    BY <1>5, <1>7
  <1>9. Len(at) = n + 1 /\ at[1] = 0 /\ \A k \in 1 .. n : at[k + 1] = e[k]
    BY <1>3, <1>5, <1>8
  <1>10. /\ \A k \in 1 .. n : e[k] \in S /\ e[k] \in 1 .. Len(c) /\ c[e[k]] = "lf"
         /\ \A k, m \in 1 .. n : k < m => e[k] < e[m]
         /\ \A j \in S : \E k \in 1 .. n : e[k] = j
    BY <1>2, <1>4, <1>6 DEF Ordered
  <1>11. ASSUME NEW k \in 1 .. n + 1 PROVE at[k] \in 0 .. Len(c)
    <2>1. CASE k = 1
      BY <2>1, <1>1, <1>9
    <2>2. CASE k # 1
      <3>1. PICK m \in 1 .. n : k = m + 1
        BY <2>2, <1>5
      <3>2. at[k] = e[m] /\ e[m] \in 1 .. Len(c)
        BY <3>1, <1>9, <1>10
      <3> QED
        BY <3>2, <1>1
    <2> QED
      BY <2>1, <2>2
  <1>12. ASSUME NEW k \in 1 .. n
         PROVE  /\ at[k] < at[k + 1] /\ c[at[k + 1]] = "lf"
                /\ \A j \in at[k] + 1 .. at[k + 1] - 1 : c[j] # "lf"
    <2>1. at[k + 1] = e[k] /\ e[k] \in 1 .. Len(c) /\ c[e[k]] = "lf" /\ k \in Nat
      BY <1>5, <1>9, <1>10
    <2>2. at[k] \in Nat /\ (k = 1 => at[k] = 0) /\ (k # 1 => k - 1 \in 1 .. n /\ at[k] = e[k - 1])
      <3>1. CASE k = 1
        BY <3>1, <1>9
      <3>2. CASE k # 1
        <4>1. PICK m \in 1 .. n : k = m + 1
          BY <3>2, <1>5
        <4>2. k - 1 = m /\ at[k] = e[m] /\ e[m] \in 1 .. Len(c)
          BY <4>1, <1>5, <1>9, <1>10
        <4> QED
          BY <3>2, <4>2, <1>1
      <3> QED
        BY <3>1, <3>2
    <2>3. at[k] < e[k]
      <3>1. CASE k = 1
        BY <3>1, <2>1, <2>2, <1>1
      <3>2. CASE k # 1
        <4>1. PICK m \in 1 .. n : m = k - 1
          BY <3>2, <2>2
        <4>2. m < k
          BY <4>1, <2>1
        <4> QED
          BY <3>2, <4>1, <4>2, <2>2, <1>10
      <3> QED
        BY <3>1, <3>2
    <2>4. ASSUME NEW j \in at[k] + 1 .. at[k + 1] - 1, c[j] = "lf" PROVE FALSE
      <3>1. j \in Int /\ at[k] < j /\ j < e[k] /\ j \in 1 .. Len(c)
        BY <2>1, <2>2, <1>1
      <3>2. PICK m \in 1 .. n : e[m] = j
        BY <3>1, <2>4, <1>2, <1>10
      <3>3. e[k] \in Int /\ e[m] \in Int /\ m \in Int /\ k \in Int
        BY <3>1, <3>2, <2>1, <1>1, <1>5
      <3>4. m < k
        BY <3>1, <3>2, <3>3, <1>10
      <3>5. k # 1
        BY <3>4, <1>5
      <3>6. PICK l \in 1 .. n : l = k - 1
        BY <3>5, <2>2
      <3>7. at[k] = e[l]
        BY <3>5, <3>6, <2>2
      <3>8. l = m \/ m < l
        BY <3>3, <3>4, <3>6
      <3>9. ~ (e[l] < e[m])
        BY <3>8, <3>3, <3>7, <1>10, <2>2
      <3> QED
        BY <3>1, <3>2, <3>7, <3>9
    <2> QED
      BY <2>1, <2>3, <2>4
  <1>13. ASSUME NEW j \in at[n + 1] + 1 .. Len(c), c[j] = "lf" PROVE FALSE
    <2>1. n + 1 \in 1 .. n + 1
      BY <1>5
    <2>2. at[n + 1] \in 0 .. Len(c)
      BY <2>1, <1>11
    <2>3. j \in 1 .. Len(c) /\ at[n + 1] < j
      BY <2>2, <1>1
    <2>4. PICK m \in 1 .. n : e[m] = j
      BY <2>3, <1>2, <1>13, <1>10
    <2>5. n \in 1 .. n /\ at[n + 1] = e[n]
      BY <1>5, <1>9
    <2>6. m = n \/ m < n
      BY <1>5
    <2>7. e[m] = e[n] \/ e[m] < e[n]
      BY <2>5, <2>6, <1>10
    <2>8. e[m] \in Int /\ e[n] \in Int
      BY <2>5, <1>7
    <2> QED
      BY <2>3, <2>4, <2>5, <2>7, <2>8
  <1>14. CutAt(at, c, n)
    BY <1>5, <1>9, <1>11, <1>12, <1>13 DEF CutAt
  <1> QED
    BY <1>14 DEF at

\* The part of b behind q and up to r.
LEMMA PartOf ==
    ASSUME NEW b \in Seq(STRING), NEW q \in 0 .. Len(b), NEW r \in q .. Len(b)
    PROVE  /\ SubSeq(b, q + 1, r) \in Seq(STRING) /\ Len(SubSeq(b, q + 1, r)) = r - q
           /\ \A j \in 1 .. r - q : SubSeq(b, q + 1, r)[j] = b[q + j]
           /\ \A x \in 0 .. r - q, y \in 0 .. r - q :
                x <= y => SubSeq(SubSeq(b, q + 1, r), x + 1, y) = SubSeq(b, q + x + 1, q + y)
  <1> DEFINE c == SubSeq(b, q + 1, r)
  <1>1. Len(b) \in Nat /\ q \in Nat /\ r \in Nat /\ q <= r /\ r <= Len(b)
    OBVIOUS
  <1>2. c \in Seq(STRING) /\ Len(c) = r - q /\ \A j \in 1 .. r - q : c[j] = b[q + j]
    BY <1>1
  <1> HIDE DEF c
  <1>3. ASSUME NEW x \in 0 .. r - q, NEW y \in 0 .. r - q, x <= y
        PROVE  SubSeq(c, x + 1, y) = SubSeq(b, q + x + 1, q + y)
    <2> DEFINE s == SubSeq(c, x + 1, y)
               t == SubSeq(b, q + x + 1, q + y)
    <2>1. s \in Seq(STRING) /\ Len(s) = y - x /\ \A j \in 1 .. y - x : s[j] = c[x + j]
      BY <1>1, <1>2, <1>3
    <2>2. t \in Seq(STRING) /\ Len(t) = y - x /\ \A j \in 1 .. y - x : t[j] = b[q + x + j]
      BY <1>1, <1>3
    <2>3. \A j \in 1 .. y - x : x + j \in 1 .. r - q /\ q + (x + j) = q + x + j
      BY <1>1, <1>3
    <2> HIDE DEF s, t
    <2>4. \A j \in 1 .. y - x : s[j] = t[j]
      BY <2>1, <2>2, <2>3, <1>2
    <2>5. s = t
      BY <2>1, <2>2, <2>4, SeqEqual
    <2> QED
      BY <2>5 DEF s, t
  <1> QED
    BY <1>2, <1>3 DEF c

-----------------------------------------------------------------------------
(* feed                                                                    *)

\* The unterminated line of the first p bytes begins behind q.
LineStart(b, q, p) ==
    /\ b \in Seq(STRING) /\ p \in 0 .. Len(b) /\ q \in 0 .. p
    /\ q # 0 => b[q] = "lf"
    /\ \A j \in q + 1 .. p : b[j] # "lf"

LEMMA LineStartUnique ==
    ASSUME NEW b, NEW p, NEW q, LineStart(b, q, p), NEW r, LineStart(b, r, p)
    PROVE  q = r
  <1>1. Len(b) \in Nat /\ p \in Nat /\ q \in Nat /\ r \in Nat /\ q <= p /\ r <= p
    BY DEF LineStart
  <1>2. ~ (q < r)
    <2>1. SUFFICES ASSUME q < r PROVE FALSE
      OBVIOUS
    <2>2. r \in q + 1 .. p /\ r # 0
      BY <1>1, <2>1
    <2> QED
      BY <2>2 DEF LineStart
  <1>3. ~ (r < q)
    <2>1. SUFFICES ASSUME r < q PROVE FALSE
      OBVIOUS
    <2>2. q \in r + 1 .. p /\ q # 0
      BY <1>1, <2>1
    <2> QED
      BY <2>2 DEF LineStart
  <1> QED
    BY <1>1, <1>2, <1>3

\* What is held from q on when the bytes up to r have come.
Holding(b, q, p, r, at, n) ==
    /\ LineStart(b, q, p) /\ r \in p .. Len(b)
    /\ at = Newlines(SubSeq(b, q + 1, r)) /\ CutAt(at, SubSeq(b, q + 1, r), n)

LEMMA HoldingPlaces ==
    ASSUME NEW b, NEW q, NEW p, NEW r, NEW at, NEW n, Holding(b, q, p, r, at, n)
    PROVE  /\ b \in Seq(STRING) /\ Len(b) \in Nat /\ q \in 0 .. Len(b) /\ r \in q .. Len(b)
           /\ n \in Nat /\ Len(at) = n + 1 /\ at[1] = 0
           /\ \A k \in 1 .. n + 1 : at[k] \in 0 .. r - q
  <1>1. /\ b \in Seq(STRING) /\ Len(b) \in Nat /\ p \in 0 .. Len(b) /\ q \in 0 .. p
        /\ r \in p .. Len(b)
    BY DEF Holding, LineStart
  <1>2. q \in 0 .. Len(b) /\ r \in q .. Len(b)
    BY <1>1
  <1>3. Len(SubSeq(b, q + 1, r)) = r - q
    BY <1>1, <1>2, PartOf
  <1> QED
    BY <1>1, <1>2, <1>3 DEF Holding, CutAt

LEMMA HoldingLines ==
    ASSUME NEW b, NEW q, NEW p, NEW r, NEW at, NEW n, Holding(b, q, p, r, at, n),
           NEW k \in 1 .. n
    PROVE  Line(b, q + at[k], q + at[k + 1])
  <1> DEFINE c == SubSeq(b, q + 1, r)
             x == at[k]
             y == at[k + 1]
  <1>1. /\ b \in Seq(STRING) /\ Len(b) \in Nat /\ q \in 0 .. Len(b) /\ r \in q .. Len(b)
        /\ n \in Nat /\ at[1] = 0
        /\ \A l \in 1 .. n + 1 : at[l] \in 0 .. r - q
    BY HoldingPlaces
  <1>2. \A j \in 1 .. r - q : c[j] = b[q + j]
    BY <1>1, PartOf
  <1>3. /\ \A l \in 1 .. n : at[l] < at[l + 1] /\ c[at[l + 1]] = "lf"
        /\ \A j \in x + 1 .. y - 1 : c[j] # "lf"
    BY DEF Holding, CutAt
  <1> HIDE DEF c
  <1>4. k \in 1 .. n + 1 /\ k + 1 \in 1 .. n + 1
    BY <1>1
  <1>5. x \in 0 .. r - q /\ y \in 0 .. r - q /\ x < y /\ c[y] = "lf"
    BY <1>1, <1>3, <1>4
  <1>6. q + x \in 0 .. Len(b) /\ q + y \in (q + x) + 1 .. Len(b) /\ y \in 1 .. r - q
    BY <1>1, <1>5
  <1>7. b[q + y] = "lf"
    BY <1>2, <1>5, <1>6
  <1>8. q + x # 0 => b[q + x] = "lf"
    <2>1. CASE k = 1
      <3>1. q + x = q
        BY <2>1, <1>1
      <3> QED
        BY <3>1 DEF Holding, LineStart
    <2>2. CASE k # 1
      <3>1. PICK l \in 1 .. n : k = l + 1
        BY <2>2, <1>1
      <3>2. c[x] = "lf" /\ l \in 1 .. n + 1 /\ at[l] < x
        BY <3>1, <1>1, <1>3
      <3>3. x \in 1 .. r - q
        BY <3>2, <1>1, <1>5
      <3> QED
        BY <3>2, <3>3, <1>2
    <2> QED
      BY <2>1, <2>2
  <1>9. ASSUME NEW j \in (q + x) + 1 .. (q + y) - 1 PROVE b[j] # "lf"
    <2>1. PICK i \in x + 1 .. y - 1 : j = q + i
      <3> HIDE DEF x, y
      <3>0. x \in Int /\ y \in Int /\ q \in Int /\ j \in Int
        BY <1>1, <1>5
      <3>1. j - q \in x + 1 .. y - 1 /\ j = q + (j - q)
        BY <3>0
      <3> QED
        BY <3>1
    <2>2. i \in 1 .. r - q
      BY <2>1, <1>1, <1>5
    <2> QED
      BY <2>1, <2>2, <1>2, <1>3
  <1> QED
    BY <1>1, <1>6, <1>7, <1>8, <1>9 DEF Line

\* What remains is the line that begins behind the last newline.
LEMMA HoldingRest ==
    ASSUME NEW b, NEW q, NEW p, NEW r, NEW at, NEW n, Holding(b, q, p, r, at, n)
    PROVE  /\ LineStart(b, q + at[n + 1], r)
           /\ Unterminated(SubSeq(b, q + 1, r)) = SubSeq(b, q + at[n + 1] + 1, r)
  <1> DEFINE c == SubSeq(b, q + 1, r)
             x == at[n + 1]
  <1>1. /\ b \in Seq(STRING) /\ Len(b) \in Nat /\ q \in 0 .. Len(b) /\ r \in q .. Len(b)
        /\ n \in Nat /\ at[1] = 0 /\ Len(at) = n + 1
        /\ \A l \in 1 .. n + 1 : at[l] \in 0 .. r - q
    BY HoldingPlaces
  <1>2. /\ Len(c) = r - q /\ \A j \in 1 .. r - q : c[j] = b[q + j]
        /\ \A k \in 0 .. r - q, y \in 0 .. r - q :
             k <= y => SubSeq(c, k + 1, y) = SubSeq(b, q + k + 1, q + y)
    BY <1>1, PartOf
  <1>3. at = Newlines(c) /\ \A j \in x + 1 .. Len(c) : c[j] # "lf"
    BY DEF Holding, CutAt
  <1>4. Unterminated(c) = SubSeq(c, x + 1, Len(c))
    BY <1>1, <1>3 DEF Unterminated, Last
  <1> HIDE DEF c
  <1>5. n + 1 \in 1 .. n + 1
    BY <1>1
  <1>6. x \in 0 .. r - q /\ r - q \in 0 .. r - q /\ x <= r - q /\ q + (r - q) = r
    BY <1>1, <1>5
  <1>7. Unterminated(c) = SubSeq(b, q + x + 1, r)
    BY <1>2, <1>4, <1>6
  <1>8. q + x # 0 => b[q + x] = "lf"
    <2>1. CASE n = 0
      <3>1. q + x = q
        BY <2>1, <1>1
      <3> QED
        BY <3>1 DEF Holding, LineStart
    <2>2. CASE n # 0
      <3>1. n \in 1 .. n
        BY <2>2, <1>1
      <3> QED
        BY <3>1, HoldingLines DEF Line
    <2> QED
      BY <2>1, <2>2
  <1>9. ASSUME NEW j \in (q + x) + 1 .. r PROVE b[j] # "lf"
    <2>1. PICK i \in x + 1 .. r - q : j = q + i
      <3>1. j - q \in x + 1 .. r - q /\ j = q + (j - q)
        BY <1>1, <1>6
      <3> QED
        BY <3>1
    <2>2. i \in 1 .. r - q
      BY <2>1, <1>1, <1>6
    <2> QED
      BY <2>1, <2>2, <1>2, <1>3
  <1>10. LineStart(b, q + x, r)
    <2>1. r \in 0 .. Len(b) /\ q + x \in 0 .. r
      BY <1>1, <1>6
    <2> QED
      BY <2>1, <1>1, <1>8, <1>9 DEF LineStart
  <1> QED
    BY <1>7, <1>10 DEF c

\* The lines held are taken one after another.
LEMMA HoldingTaken ==
    ASSUME NEW b, NEW q, NEW p, NEW r, NEW at, NEW n, Holding(b, q, p, r, at, n)
    PROVE  FoldLeft(TakeLine, MadeOf(b, q + 1), Lines(SubSeq(b, q + 1, r)))
             = MadeOf(b, q + at[n + 1] + 1)
  <1> DEFINE c == SubSeq(b, q + 1, r)
             s == Lines(c)
             g == [k \in 0 .. n |-> MadeOf(b, q + at[k + 1] + 1)]
             base == MadeOf(b, q + 1)
  <1>1. /\ b \in Seq(STRING) /\ Len(b) \in Nat /\ q \in 0 .. Len(b) /\ r \in q .. Len(b)
        /\ n \in Nat /\ at[1] = 0 /\ Len(at) = n + 1
        /\ \A l \in 1 .. n + 1 : at[l] \in 0 .. r - q
    BY HoldingPlaces
  <1>2. \A k \in 0 .. r - q, y \in 0 .. r - q :
             k <= y => SubSeq(c, k + 1, y) = SubSeq(b, q + k + 1, q + y)
    BY <1>1, PartOf
  <1>3. at = Newlines(c) /\ \A k \in 1 .. n : at[k] < at[k + 1]
    BY DEF Holding, CutAt
  <1> HIDE DEF c
  <1>4. Len(at) - 1 = n
    BY <1>1
  <1>5. s = [i \in 1 .. n |-> SubSeq(c, at[i] + 1, at[i + 1] - 1)]
    BY <1>3, <1>4 DEF Lines
  <1>6. ASSUME NEW k \in 1 .. n
        PROVE  s[k] = SubSeq(b, (q + at[k]) + 1, (q + at[k + 1]) - 1)
    <2> DEFINE x == at[k]
               y == at[k + 1]
    <2>1. k \in 1 .. n + 1 /\ k + 1 \in 1 .. n + 1
      BY <1>1
    <2>2. x \in 0 .. r - q /\ y \in 0 .. r - q /\ x < y
      BY <2>1, <1>1, <1>3
    <2>3. y - 1 \in 0 .. r - q /\ x <= y - 1 /\ q + (y - 1) = (q + y) - 1
      BY <2>2, <1>1
    <2>4. SubSeq(c, x + 1, y - 1) = SubSeq(b, q + x + 1, q + (y - 1))
      BY <2>2, <2>3, <1>2
    <2> QED
      BY <2>3, <2>4, <1>5
  <1>7. ASSUME NEW k \in 1 .. n
        PROVE  g[k] = TakeLine(g[k - 1], s[k])
    <2>1. Line(b, q + at[k], q + at[k + 1])
      BY HoldingLines
    <2>2. MadeOf(b, (q + at[k + 1]) + 1)
            = TakeLine(MadeOf(b, (q + at[k]) + 1), SubSeq(b, (q + at[k]) + 1, (q + at[k + 1]) - 1))
      BY <2>1, MadeOfLine
    <2>3. k \in 0 .. n /\ k - 1 \in 0 .. n /\ (k - 1) + 1 = k
      BY <1>1
    <2>4. g[k] = MadeOf(b, q + at[k + 1] + 1) /\ g[k - 1] = MadeOf(b, q + at[k] + 1)
      BY <2>3
    <2> QED
      BY <2>2, <2>4, <1>6
  <1>8. g[0] = base
    <2>1. 0 \in 0 .. n /\ q + at[0 + 1] + 1 = q + 1
      BY <1>1
    <2> QED
      BY <2>1
  <1>9. g[n] = MadeOf(b, q + at[n + 1] + 1)
    BY <1>1
  <1>10. DOMAIN s = 1 .. n
    BY <1>5
  <1> HIDE DEF g, s, base
  <1>11. TakenBy(g, base, s, n)
    BY <1>7, <1>8 DEF TakenBy
  <1>12. FoldLeft(TakeLine, base, s) = g[n]
    BY <1>1, <1>10, <1>11, TakingInSteps
  <1> QED
    BY <1>9, <1>12 DEF s, base, c

\* No line adds more to the data than it has bytes.
LEMMA LineSize ==
    ASSUME NEW b, NEW q, NEW i, Line(b, q, i)
    PROVE  /\ HeldAt(b, q + 1).size \in Nat /\ HeldAt(b, i + 1).size \in Nat
           /\ HeldAt(b, i + 1).size <= HeldAt(b, q + 1).size + (i - q)
  <1> DEFINE text == LineEndingAt(b, i)
             raw == SubSeq(b, q + 1, i - 1)
             B == Block(b, q + 1)
             C == Block(b, i + 1)
  <1>1. /\ b \in Seq(STRING) /\ NewlineSet(b) \subseteq Int /\ i \in NewlineSet(b)
        /\ q \in Nat /\ i \in Nat /\ q < i
    BY LineBefore
  <1>2. \A j : Block(b, j) \subseteq NewlineSet(b) \ Blanks(b)
    BY Zenon DEF Block
  <1>3. \A j : HeldAt(b, j).size = SizeOf(DataIn(b, Block(b, j)))
    BY DEF HeldAt, HeldIn
  <1>4. DataIn(b, B) \in Seq(Seq(STRING)) /\ DataIn(b, C) \in Seq(Seq(STRING))
    BY <1>1, <1>2, DataInType
  <1>5. SizeOf(DataIn(b, B)) \in Nat /\ SizeOf(DataIn(b, C)) \in Nat
    BY <1>4, SizeOfType
  <1>6. CASE text = << >>
    <2>1. C = {}
      BY <1>6, BlockBehindBlank
    <2>2. HeldIn(b, {}).size = 0
      BY HeldInNothing DEF NoFrame
    <2>3. SizeOf(DataIn(b, C)) = 0
      BY <2>1, <2>2 DEF HeldIn
    <2> QED
      BY <1>1, <1>3, <1>5, <2>3
  <1>7. CASE text # << >> /\ C = B
    BY <1>1, <1>3, <1>5, <1>7
  <1>8. CASE text # << >> /\ C # B
    <2>1. C = B \cup {i}
      BY <1>8, BlockBehindLine
    <2>2. \A j \in B : j < i
      <3>1. B \subseteq Int /\ \A j \in B : j < q + 1
        BY <1>1, BlockType
      <3> HIDE DEF B
      <3> QED
        BY <3>1, <1>1
    <2>3. i \in NewlineSet(b) \ Blanks(b)
      BY <1>1, <1>8 DEF Blanks
    <2>4. Behind(b, B, i)
      BY <1>1, <1>2, <2>2, <2>3 DEF Behind
    <2>5. Tail(text) \in Seq(STRING) /\ text \in Seq(STRING)
      BY <1>1, <2>3, TextType, LineType
    <2>6. DataIn(b, C) = Append(DataIn(b, B), Tail(text)) \/ DataIn(b, C) = DataIn(b, B)
      BY <2>1, <2>4, DataInGrows
    <2>7. SizeOf(DataIn(b, C)) <= SizeOf(DataIn(b, B)) + Len(Tail(text))
      <3>1. Len(Tail(text)) \in Nat
        BY <2>5
      <3>2. CASE DataIn(b, C) = Append(DataIn(b, B), Tail(text))
        <4>1. SizeOf(DataIn(b, C)) = SizeOf(DataIn(b, B)) + Len(Tail(text))
          BY <3>2, <1>4, <2>5, SizeOfAppend
        <4> QED
          BY <4>1, <3>1, <1>5
      <3>3. CASE DataIn(b, C) = DataIn(b, B)
        BY <3>1, <3>3, <1>5
      <3> QED
        BY <2>6, <3>2, <3>3
    <2>8. Len(Tail(text)) <= i - q /\ Len(Tail(text)) \in Nat
      <3>1. WithoutCr(raw) = text
        BY LineText
      <3>2. raw \in Seq(STRING) /\ Len(raw) = i - 1 - q
        <4>1. q + 1 \in 1 .. Len(b) + 1 /\ i - 1 \in 0 .. Len(b) /\ Len(b) \in Nat
          BY <1>1 DEF Line
        <4> QED
          BY <4>1, <1>1
      <3> HIDE DEF raw, text
      <3>3. text = raw \/ (raw # << >> /\ text = SubSeq(raw, 1, Len(raw) - 1))
        BY <3>1 DEF WithoutCr, Front
      <3>4. Len(text) <= Len(raw) /\ Len(text) \in Nat
        BY <3>2, <3>3, <2>5
      <3>5. Len(Tail(text)) <= Len(text) /\ Len(Tail(text)) \in Nat
        BY <2>5, <1>8
      <3> QED
        BY <3>2, <3>4, <3>5, <1>1
    <2> QED
      BY <1>1, <1>3, <1>5, <2>7, <2>8
  <1> QED
    BY <1>6, <1>7, <1>8

LEMMA HeldSizeType ==
    ASSUME NEW b \in Seq(STRING), NEW i
    PROVE  HeldAt(b, i).size \in Nat /\ HeldAt(b, i).size = SizeOf(HeldAt(b, i).data)
  <1>1. Block(b, i) \subseteq NewlineSet(b) \ Blanks(b)
    BY Zenon DEF Block
  <1>2. HeldAt(b, i).size = SizeOf(DataIn(b, Block(b, i))) /\ HeldAt(b, i).data = DataIn(b, Block(b, i))
    BY DEF HeldAt, HeldIn
  <1> QED
    BY <1>1, <1>2, DataInType, SizeOfType

LEMMA HoldingSize ==
    ASSUME NEW b, NEW q, NEW p, NEW r, NEW at, NEW n, Holding(b, q, p, r, at, n)
    PROVE  HeldAt(b, q + at[n + 1] + 1).size <= HeldAt(b, q + 1).size + at[n + 1]
  <1> DEFINE size(k) == HeldAt(b, q + at[k + 1] + 1).size
             most(k) == HeldAt(b, q + 1).size + at[k + 1]
             Over == {k \in 0 .. n : ~ (size(k) <= most(k))}
  <1>1. /\ b \in Seq(STRING) /\ Len(b) \in Nat /\ q \in 0 .. Len(b) /\ r \in q .. Len(b)
        /\ n \in Nat /\ at[1] = 0 /\ Len(at) = n + 1
        /\ \A l \in 1 .. n + 1 : at[l] \in 0 .. r - q
    BY HoldingPlaces
  <1>2. HeldAt(b, q + 1).size \in Nat
    BY <1>1, HeldSizeType
  <1>3. ASSUME Over # {} PROVE FALSE
    <2>1. Over \subseteq Nat
      BY <1>1
    <2>2. PICK k \in Over : \A m \in Over : k <= m
      BY <1>3, <2>1, LeastOf
    <2>3. k # 0
      <3>1. at[0 + 1] = 0 /\ q + at[0 + 1] + 1 = q + 1
        BY <1>1
      <3>2. size(0) <= most(0)
        BY <3>1, <1>2
      <3> QED
        BY <2>2, <3>2
    <2>4. k \in 1 .. n /\ k - 1 \in 0 .. n /\ (k - 1) + 1 = k /\ k - 1 < k /\ k - 1 \in Int /\ k \in Int
      BY <2>2, <2>3, <1>1
    <2>5. ~ (k <= k - 1)
      BY <2>4
    <2>6. size(k - 1) <= most(k - 1)
      BY <2>2, <2>4, <2>5
    <2>7. Line(b, q + at[k], q + at[k + 1])
      BY <2>4, HoldingLines
    <2>8. /\ HeldAt(b, (q + at[k]) + 1).size \in Nat /\ HeldAt(b, (q + at[k + 1]) + 1).size \in Nat
          /\ HeldAt(b, (q + at[k + 1]) + 1).size
               <= HeldAt(b, (q + at[k]) + 1).size + ((q + at[k + 1]) - (q + at[k]))
      BY <2>7, LineSize
    <2>9. at[k] \in Nat /\ at[k + 1] \in Nat /\ q \in Nat
      <3>1. k \in 1 .. n + 1 /\ k + 1 \in 1 .. n + 1
        BY <2>4, <1>1
      <3> QED
        BY <3>1, <1>1
    <2>10. HeldAt(b, q + at[k] + 1).size <= HeldAt(b, q + 1).size + at[k]
      BY <2>4, <2>6
    <2>11. HeldAt(b, q + at[k + 1] + 1).size <= HeldAt(b, q + 1).size + at[k + 1]
      BY <2>8, <2>9, <2>10, <1>2
    <2> QED
      BY <2>2, <2>11
  <1>4. n \in 0 .. n
    BY <1>1
  <1> QED
    BY <1>3, <1>4

-----------------------------------------------------------------------------
(* The parser                                                              *)

\* What the parser has made of the first p bytes: the line begun is in the
\* buffer, and the lines before it in the pending frame and the frames.
ReachedAt(q, b, p, buf, held, out) ==
    /\ LineStart(b, q, p) /\ buf = SubSeq(b, q + 1, p)
    /\ [frame |-> held, out |-> out] = MadeOf(b, q + 1)
    /\ held.size + Len(buf) <= MAX_BUFFER
Reached(b, p, buf, held, out) == \E q : ReachedAt(q, b, p, buf, held, out)

ParserInv ==
    /\ stream \in Seq(STRING) /\ pos \in 0 .. Len(stream) /\ failed \in BOOLEAN
    /\ ~ failed => Reached(stream, pos, buffer, pending, frames)

\* Before the first line.
LEMMA MadeOfNothing ==
    ASSUME NEW b \in Seq(STRING)
    PROVE  MadeOf(b, 1) = [frame |-> NoFrame, out |-> << >>]
  <1>1. \A j \in NewlineSet(b) : ~ (j < 1)
    <2>1. Len(b) \in Nat /\ NewlineSet(b) \subseteq 1 .. Len(b)
      BY NewlineSetType
    <2> QED
      BY <2>1
  <1>2. Block(b, 1) = {}
    BY <1>1, Zenon DEF Block
  <1>3. EndsBefore(b, 1) = {}
    BY <1>1 DEF EndsBefore, Ends, Blanks
  <1>4. OutAt(b, 1) = << >>
    <2>1. InOrder(EndsBefore(b, 1)) = << >>
      BY <1>3, InOrderOfNothing
    <2> QED
      BY <2>1 DEF OutAt, FramesAt
  <1> QED
    BY <1>2, <1>4, HeldInNothing DEF MadeOf, HeldAt

LEMMA ParserStarts ==
    ASSUME stream \in Seq(STRING), pos = 0, buffer = << >>, pending = NoFrame,
           frames = << >>, failed = FALSE
    PROVE  ParserInv
  <1>1. Len(stream) \in Nat /\ pos \in 0 .. Len(stream)
    OBVIOUS
  <1>2. LineStart(stream, 0, pos)
    BY <1>1 DEF LineStart
  <1>3. SubSeq(stream, 0 + 1, pos) = << >>
    OBVIOUS
  <1>4. MadeOf(stream, 0 + 1) = [frame |-> NoFrame, out |-> << >>]
    BY MadeOfNothing
  <1>5. NoFrame.size + Len(<< >>) <= MAX_BUFFER
    BY ParserAssumption DEF NoFrame
  <1>6. ReachedAt(0, stream, pos, buffer, pending, frames)
    BY <1>2, <1>3, <1>4, <1>5 DEF ReachedAt
  <1> QED
    BY <1>1, <1>6 DEF ParserInv, Reached

LEMMA JoinParts ==
    ASSUME NEW b \in Seq(STRING), NEW r \in 0 .. Len(b), NEW p \in 0 .. r, NEW q \in 0 .. p
    PROVE  SubSeq(b, q + 1, p) \o SubSeq(b, p + 1, r) = SubSeq(b, q + 1, r)
  <1> DEFINE x == SubSeq(b, q + 1, p)
             y == SubSeq(b, p + 1, r)
             z == SubSeq(b, q + 1, r)
  <1>1. Len(b) \in Nat /\ r \in Nat /\ p \in Nat /\ q \in Nat /\ q <= p /\ p <= r /\ r <= Len(b)
    OBVIOUS
  <1>2. /\ x \in Seq(STRING) /\ Len(x) = p - q /\ \A j \in 1 .. p - q : x[j] = b[q + j]
        /\ y \in Seq(STRING) /\ Len(y) = r - p /\ \A j \in 1 .. r - p : y[j] = b[p + j]
        /\ z \in Seq(STRING) /\ Len(z) = r - q /\ \A j \in 1 .. r - q : z[j] = b[q + j]
    BY <1>1, PartOf
  <1> HIDE DEF x, y, z
  <1>3. /\ x \o y \in Seq(STRING) /\ Len(x \o y) = Len(x) + Len(y)
        /\ \A j \in 1 .. Len(x) + Len(y) :
             (x \o y)[j] = IF j <= Len(x) THEN x[j] ELSE y[j - Len(x)]
    BY <1>2, ConcatProperties
  <1>n. Len(x) + Len(y) = r - q
    BY <1>1, <1>2
  <1>4. ASSUME NEW j \in 1 .. r - q PROVE (x \o y)[j] = z[j]
    <2>1. CASE j \in 1 .. p - q
      <3>1. j <= p - q
        BY <2>1, <1>1
      <3> QED
        BY <2>1, <3>1, <1>2, <1>3, <1>n
    <2>2. CASE j \notin 1 .. p - q
      <3>1. j - (p - q) \in 1 .. r - p /\ p + (j - (p - q)) = q + j /\ ~ (j <= p - q)
        BY <2>2, <1>1
      <3>2. (x \o y)[j] = y[j - (p - q)]
        BY <3>1, <1>2, <1>3, <1>n
      <3> QED
        BY <3>1, <3>2, <1>2
    <2> QED
      BY <2>1, <2>2
  <1>5. x \o y = z
    BY <1>2, <1>3, <1>n, <1>4, SeqEqual
  <1> QED
    BY <1>5 DEF x, y, z

\* feed: the bytes up to r have come.
LEMMA ReachedFurther ==
    ASSUME NEW b, NEW q, NEW p, NEW buf, NEW held, NEW out, ReachedAt(q, b, p, buf, held, out),
           NEW r \in p .. Len(b), ~ (Len(SubSeq(b, q + 1, r)) + held.size > MAX_BUFFER),
           NEW fed, fed = FoldLeft(TakeLine, [frame |-> held, out |-> out], Lines(SubSeq(b, q + 1, r)))
    PROVE  Reached(b, r, Unterminated(SubSeq(b, q + 1, r)), fed.frame, fed.out)
  <1> DEFINE c == SubSeq(b, q + 1, r)
             at == Newlines(c)
  <1>1. LineStart(b, q, p) /\ [frame |-> held, out |-> out] = MadeOf(b, q + 1)
    BY DEF ReachedAt
  <1>2. /\ b \in Seq(STRING) /\ Len(b) \in Nat /\ q \in 0 .. Len(b) /\ r \in q .. Len(b)
        /\ q \in Nat /\ r \in Nat
    BY <1>1 DEF LineStart
  <1>3. c \in Seq(STRING) /\ Len(c) = r - q
    BY <1>2, PartOf
  <1>4. PICK n : CutAt(at, c, n)
    BY <1>3, NewlinesCut
  <1>5. Holding(b, q, p, r, at, n)
    BY <1>1, <1>4 DEF Holding
  <1> HIDE DEF at
  <1> DEFINE x == at[n + 1]
             s == q + x
  <1>6. x \in 0 .. r - q
    <2>1. n \in Nat /\ \A k \in 1 .. n + 1 : at[k] \in 0 .. r - q
      BY <1>5, HoldingPlaces
    <2>2. n + 1 \in 1 .. n + 1
      BY <2>1
    <2> QED
      BY <2>1, <2>2
  <1>7. LineStart(b, s, r) /\ Unterminated(c) = SubSeq(b, s + 1, r)
    BY <1>5, HoldingRest
  <1>8. fed = MadeOf(b, s + 1)
    BY <1>1, <1>5, HoldingTaken
  <1>9. HeldAt(b, s + 1).size <= HeldAt(b, q + 1).size + x
    BY <1>5, HoldingSize
  <1> HIDE DEF x, c
  <1>10. HeldAt(b, q + 1).size \in Nat /\ HeldAt(b, s + 1).size \in Nat
    BY <1>2, HeldSizeType
  <1>11. held = HeldAt(b, q + 1) /\ fed.frame = HeldAt(b, s + 1)
         /\ [frame |-> fed.frame, out |-> fed.out] = MadeOf(b, s + 1)
    BY <1>1, <1>8 DEF MadeOf
  <1>12. Len(Unterminated(c)) = r - s
    <2>1. s \in 0 .. Len(b) /\ r \in s .. Len(b)
      BY <1>2, <1>6
    <2> QED
      BY <2>1, <1>2, <1>7, PartOf
  <1>13. fed.frame.size + Len(Unterminated(c)) <= MAX_BUFFER
    <2>1. (r - q) + held.size <= MAX_BUFFER
      BY <1>2, <1>3, <1>10, <1>11, ParserAssumption DEF c
    <2>2. fed.frame.size = HeldAt(b, s + 1).size /\ held.size = HeldAt(b, q + 1).size
      BY <1>11
    <2>3. x \in Nat /\ r - s = (r - q) - x
      BY <1>2, <1>6
    <2> HIDE DEF s
    <2>4. fed.frame.size <= held.size + x /\ fed.frame.size \in Nat /\ held.size \in Nat
      BY <2>2, <1>9, <1>10
    <2>5. fed.frame.size + (r - s) <= (r - q) + held.size
      BY <2>3, <2>4, <1>2
    <2> QED
      BY <2>1, <2>3, <2>4, <2>5, <1>2, <1>12, ParserAssumption
  <1>14. ReachedAt(s, b, r, Unterminated(c), fed.frame, fed.out)
    BY <1>7, <1>11, <1>13 DEF ReachedAt
  <1> QED
    BY <1>14 DEF Reached, c

LEMMA FeedStep ==
    ASSUME ParserInv, NEW n \in Nat, Feed(n)
    PROVE  ParserInv'
  <1> DEFINE held == buffer \o SubSeq(stream, pos + 1, pos + n)
             fed == FoldLeft(TakeLine, [frame |-> pending, out |-> frames], Lines(held))
  <1>1. /\ ~ failed /\ pos + n <= Len(stream) /\ pos' = pos + n /\ stream' = stream
        /\ stream \in Seq(STRING) /\ pos \in 0 .. Len(stream)
    BY DEF Feed, ParserInv
  <1>2. Len(stream) \in Nat /\ pos + n \in pos .. Len(stream) /\ pos + n \in 0 .. Len(stream)
    BY <1>1
  <1>3. CASE TooLarge(held)
    <2>1. failed' = TRUE
      BY <1>3 DEF Feed
    <2> QED
      BY <2>1, <1>1, <1>2 DEF ParserInv
  <1>4. CASE ~ TooLarge(held)
    <2>1. /\ buffer' = Unterminated(held) /\ pending' = fed.frame /\ frames' = fed.out
          /\ failed' = failed
      BY <1>4 DEF Feed
    <2>2. PICK q : ReachedAt(q, stream, pos, buffer, pending, frames)
      BY <1>1 DEF ParserInv, Reached
    <2>3. held = SubSeq(stream, q + 1, pos + n)
      <3>1. q \in 0 .. pos /\ pos \in 0 .. pos + n /\ buffer = SubSeq(stream, q + 1, pos)
        BY <1>1, <2>2 DEF ReachedAt, LineStart
      <3> QED
        BY <3>1, <1>1, <1>2, JoinParts
    <2>4. ~ (Len(SubSeq(stream, q + 1, pos + n)) + pending.size > MAX_BUFFER)
      BY <1>4, <2>3 DEF TooLarge
    <2>5. fed = FoldLeft(TakeLine, [frame |-> pending, out |-> frames],
                         Lines(SubSeq(stream, q + 1, pos + n)))
      BY <2>3
    <2> HIDE DEF held, fed
    <2>6. Reached(stream, pos + n, Unterminated(held), fed.frame, fed.out)
      BY <1>2, <2>2, <2>3, <2>4, <2>5, ReachedFurther
    <2>7. Reached(stream', pos', buffer', pending', frames')
      BY <1>1, <2>1, <2>6
    <2> QED
      BY <1>1, <1>2, <2>1, <2>7 DEF ParserInv
  <1> QED
    BY <1>3, <1>4

\* The data values and the line begun are what the cap was asked about.
LEMMA CapKept ==
    ASSUME ParserInv
    PROVE  ValuesCapped
  <1> SUFFICES ASSUME ~ failed
               PROVE  Len(buffer) + SizeOf(pending.data) <= MAX_BUFFER
    BY DEF ValuesCapped
  <1>1. PICK q : ReachedAt(q, stream, pos, buffer, pending, frames)
    BY DEF ParserInv, Reached
  <1>2. /\ stream \in Seq(STRING) /\ pending = HeldAt(stream, q + 1)
        /\ LineStart(stream, q, pos) /\ buffer = SubSeq(stream, q + 1, pos)
        /\ pending.size + Len(buffer) <= MAX_BUFFER
    BY <1>1 DEF ReachedAt, MadeOf, ParserInv
  <1>3. pending.size \in Nat /\ pending.size = SizeOf(pending.data)
    BY <1>2, HeldSizeType
  <1>4. Len(buffer) \in Nat
    BY <1>2, PartOf DEF LineStart
  <1>5. PICK held, begun : held = pending.size /\ begun = Len(buffer)
    OBVIOUS
  <1>6. held \in Nat /\ begun \in Nat /\ held + begun <= MAX_BUFFER
    BY <1>2, <1>3, <1>4, <1>5
  <1>7. begun + held <= MAX_BUFFER
    BY <1>6
  <1> QED
    BY <1>3, <1>5, <1>7

\* The frames that b has before p are those of its first p bytes, and both the
\* fold over their lines.
LEMMA FramesOfPart ==
    ASSUME NEW b, NEW q, NEW p, LineStart(b, q, p)
    PROVE  OutAt(b, q + 1) = FramesOf(SubSeq(b, 1, p))
  <1>z. PICK z : z = 0
    OBVIOUS
  <1> DEFINE c == SubSeq(b, z + 1, p)
             at == Newlines(c)
  <1>1. /\ b \in Seq(STRING) /\ Len(b) \in Nat /\ p \in 0 .. Len(b) /\ q \in 0 .. p
        /\ p \in Nat /\ z \in 0 .. Len(b) /\ p \in z .. Len(b) /\ z + 1 = 1
    BY <1>z DEF LineStart
  <1>2. c \in Seq(STRING) /\ Len(c) = p
    BY <1>z, <1>1, PartOf
  <1>3. PICK n : CutAt(at, c, n)
    BY <1>2, NewlinesCut
  <1>4. LineStart(b, z, z) /\ LineStart(c, z, z)
    BY <1>z, <1>1, <1>2 DEF LineStart
  <1>5. SubSeq(c, z + 1, p) = c
    BY <1>1, <1>2
  <1> HIDE DEF c
  <1>6. Holding(b, z, z, p, at, n)
    BY <1>1, <1>3, <1>4 DEF Holding, c
  <1>7. Holding(c, z, z, p, at, n)
    <2>1. p \in z .. Len(c)
      BY <1>1, <1>2
    <2>2. at = Newlines(SubSeq(c, z + 1, p)) /\ CutAt(at, SubSeq(c, z + 1, p), n)
      BY <1>3, <1>5
    <2> QED
      BY <1>4, <2>1, <2>2 DEF Holding
  <1> HIDE DEF at
  <1> DEFINE s == z + at[n + 1]
  <1>8. LineStart(b, s, p) /\ LineStart(c, s, p)
    BY <1>6, <1>7, HoldingRest
  <1>9. FoldLeft(TakeLine, MadeOf(b, z + 1), Lines(c)) = MadeOf(b, s + 1)
    BY <1>6, HoldingTaken DEF c
  <1>10. FoldLeft(TakeLine, MadeOf(c, z + 1), Lines(c)) = MadeOf(c, s + 1)
    <2>1. FoldLeft(TakeLine, MadeOf(c, z + 1), Lines(SubSeq(c, z + 1, p))) = MadeOf(c, s + 1)
      BY <1>7, HoldingTaken
    <2> QED
      BY <2>1, <1>5
  <1>11. MadeOf(b, z + 1) = MadeOf(c, z + 1)
    <2>1. MadeOf(b, 1) = MadeOf(c, 1)
      BY <1>1, <1>2, MadeOfNothing
    <2> QED
      BY <2>1, <1>1
  <1> HIDE DEF s
  <1>12. s = q
    BY <1>8, LineStartUnique
  <1>13. OutAt(b, q + 1) = OutAt(c, q + 1)
    <2>1. MadeOf(b, q + 1) = MadeOf(c, q + 1)
      BY <1>9, <1>10, <1>11, <1>12
    <2> QED
      BY <2>1 DEF MadeOf
  <1>14. EndsBefore(c, q + 1) = Ends(c)
    <2>1. ASSUME NEW j \in NewlineSet(c) PROVE j < q + 1
      <3>1. j \in 1 .. p /\ c[j] = "lf"
        BY <1>1, <1>2, NewlineSetType DEF NewlineSet
      <3>2. j \notin q + 1 .. p
        BY <3>1, <1>8, <1>12 DEF LineStart
      <3> QED
        BY <3>1, <3>2, <1>1
    <2> QED
      BY <2>1 DEF EndsBefore, Ends, Blanks
  <1>15. OutAt(c, q + 1) = FramesOf(c)
    BY <1>14, Zenon DEF OutAt, FramesAt, FramesOf, Ends
  <1> QED
    BY <1>1, <1>13, <1>15 DEF c

LEMMA FramesKept ==
    ASSUME ParserInv
    PROVE  FramesAsWhole
  <1> SUFFICES ASSUME ~ failed
               PROVE  frames = FramesOf(SubSeq(stream, 1, pos))
    BY DEF FramesAsWhole
  <1>1. PICK q : ReachedAt(q, stream, pos, buffer, pending, frames)
    BY DEF ParserInv, Reached
  <1>2. LineStart(stream, q, pos) /\ frames = OutAt(stream, q + 1)
    BY <1>1 DEF ReachedAt, MadeOf
  <1> QED
    BY <1>2, FramesOfPart
=============================================================================
