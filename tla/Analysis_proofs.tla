--------------------------- MODULE Analysis_proofs ---------------------------
(***************************************************************************)
(* The analysis engine, of any chart, price, indicators and past results.  *)
(* The summary names the direction of the primary pattern (SummaryAgrees); *)
(* the entries of the two sides of a plan stay apart, whatever zones they  *)
(* are moved to (EntriesApart); no scenario that lost is executed          *)
(* (NoLoserExecuted); and on prices that are high enough every scenario    *)
(* can be traded, whichever detector, plan and zone it comes from          *)
(* (ScenariosTradeable).  Most of the module types the operators on the    *)
(* way: that the CHOOSE of a ranking, a widest pick or a zone is defined is*)
(* what lets a property of the code's sorted lists be proved at all.       *)
(***************************************************************************)
EXTENDS WaveAnalysis, SumTheorems, SequenceTheorems

-----------------------------------------------------------------------------
(* Orders: the n-th member of a finite ordered set, on which every sorted list of
   the engine rests *)

\* A relation on S, a set of pairs, orders it.
Orders(R, S) ==
    /\ \A x \in S : <<x, x>> \notin R
    /\ \A x, y \in S : x = y \/ <<x, y>> \in R \/ <<y, x>> \in R
    /\ \A x, y, z \in S : <<x, y>> \in R /\ <<y, z>> \in R => <<x, z>> \in R

\* The members that come before x
Before(R, S, x) == {y \in S : <<y, x>> \in R}

\* The later of two members has more members before it.
LEMMA BeforeGrows ==
    ASSUME NEW S, IsFiniteSet(S), NEW R, Orders(R, S), NEW x \in S, NEW y \in S, <<x, y>> \in R
    PROVE  Cardinality(Before(R, S, x)) < Cardinality(Before(R, S, y))
<1>1. /\ Before(R, S, x) \in SUBSET Before(R, S, y)
      /\ x \in Before(R, S, y) /\ x \notin Before(R, S, x)
  BY DEF Orders, Before
<1>2. IsFiniteSet(Before(R, S, y))
  BY FS_Subset DEF Before
<1> HIDE DEF Before
<1>3. /\ Cardinality(Before(R, S, x)) <= Cardinality(Before(R, S, y))
      /\ Cardinality(Before(R, S, x)) # Cardinality(Before(R, S, y))
      /\ IsFiniteSet(Before(R, S, x))
  BY <1>1, <1>2, FS_Subset
<1>4. Cardinality(Before(R, S, x)) \in Nat /\ Cardinality(Before(R, S, y)) \in Nat
  BY <1>2, <1>3, FS_CardinalityType
<1> QED
  BY <1>3, <1>4

\* The n-th member of an ordered set exists.
LEMMA NthExists ==
    ASSUME NEW S, IsFiniteSet(S), NEW R, Orders(R, S), NEW n \in 1..Cardinality(S)
    PROVE  \E x \in S : Cardinality(Before(R, S, x)) = n - 1
<1> DEFINE N == Cardinality(S)
           f == [x \in S |-> Cardinality(Before(R, S, x)) + 1]
<1>1. N \in Nat
  BY FS_CardinalityType
<1>2. \A x \in S : Cardinality(Before(R, S, x)) \in 0..N - 1
  <2> SUFFICES ASSUME NEW x \in S PROVE Cardinality(Before(R, S, x)) \in 0..N - 1
    OBVIOUS
  <2>1. Before(R, S, x) \in SUBSET S /\ Before(R, S, x) # S
    BY DEF Before, Orders
  <2>2. /\ Cardinality(Before(R, S, x)) <= N /\ Cardinality(Before(R, S, x)) # N
        /\ IsFiniteSet(Before(R, S, x))
    BY <2>1, FS_Subset
  <2>3. Cardinality(Before(R, S, x)) \in Nat
    BY <2>2, FS_CardinalityType
  <2> QED
    BY <1>1, <2>2, <2>3
<1>3. f \in Injection(S, 1..N)
  <2>1. f \in [S -> 1..N]
    BY <1>1, <1>2
  <2>2. ASSUME NEW x \in S, NEW y \in S, f[x] = f[y] PROVE x = y
    <3>1. Cardinality(Before(R, S, x)) = Cardinality(Before(R, S, y))
      BY <1>1, <1>2, <2>2
    <3>2. <<x, y>> \notin R /\ <<y, x>> \notin R
      BY <1>2, <3>1, BeforeGrows
    <3> QED
      BY <3>2 DEF Orders
  <2> QED
    BY <2>1, <2>2 DEF Injection, IsInjective
<1>4. IsFiniteSet(1..N) /\ Cardinality(1..N) = N
  BY <1>1, FS_Interval
<1>5. f \in Surjection(S, 1..N)
  <2> HIDE DEF f
  <2> QED
    BY <1>3, <1>4, FS_Injection
<1>6. PICK x \in S : f[x] = n
  BY <1>5 DEF Surjection
<1> QED
  BY <1>1, <1>2, <1>6

\* A finite set of integers
Numbers(S) == IsFiniteSet(S) /\ \A x \in S : x \in Int

\* A finite set of integers in ascending order lists its members.
LEMMA AscendingIn ==
    ASSUME NEW S, Numbers(S)
    PROVE  /\ Ordered(S, <) = [n \in 1..Cardinality(S) |-> Ordered(S, <)[n]]
           /\ \A n \in 1..Cardinality(S) : Ordered(S, <)[n] \in S
<1> DEFINE R == {p \in S \X S : p[1] < p[2]}
<1>1. Orders(R, S)
  BY DEF Orders, Numbers
<1>2. \A x \in S : Before(R, S, x) = {y \in S : y < x}
  BY DEF Before
<1> HIDE DEF R
<1>3. ASSUME NEW n \in 1..Cardinality(S)
      PROVE  \E x \in S : Cardinality({y \in S : y < x}) = n - 1
  BY <1>1, <1>2, NthExists DEF Numbers
<1> QED
  BY <1>3 DEF Ordered

\* Picking some indices of a list yields as many members of it.
LEMMA PickedIn ==
    ASSUME NEW s, NEW T, Numbers(T)
    PROVE  /\ Picked(s, T) = [n \in 1..Cardinality(T) |-> Picked(s, T)[n]]
           /\ \A n \in 1..Cardinality(T) : \E i \in T : Picked(s, T)[n] = s[i]
           /\ Cardinality(T) \in Nat
           /\ DOMAIN Picked(s, T) = 1..Cardinality(T)
           /\ Len(Picked(s, T)) = Cardinality(T)
           /\ Picked(s, T) = <<>> <=> T = {}
           /\ T # {} => 1 \in 1..Cardinality(T)
<1> DEFINE order == Ordered(T, <)
<1>1. order = [n \in 1..Cardinality(T) |-> order[n]] /\ \A n \in 1..Cardinality(T) : order[n] \in T
  BY AscendingIn
<1>2. DOMAIN order = 1..Cardinality(T)
  BY <1>1
<1> HIDE DEF order
<1>3. Picked(s, T) = [n \in 1..Cardinality(T) |-> s[order[n]]]
  BY <1>2 DEF Picked, order
<1>4. Cardinality(T) \in Nat /\ (Cardinality(T) = 0 <=> T = {})
  BY FS_CardinalityType, FS_EmptySet DEF Numbers
<1>5. Len(Picked(s, T)) = Cardinality(T)
  BY <1>3, <1>4
<1>6. Picked(s, T) = <<>> <=> T = {}
  <2>1. Picked(s, T) = <<>> => Cardinality(T) = 0
    BY <1>5
  <2>2. Cardinality(T) = 0 => Picked(s, T) = <<>>
    BY <1>3, <1>4
  <2> QED
    BY <1>4, <2>1, <2>2
<1>7. \A n \in 1..Cardinality(T) : \E i \in T : Picked(s, T)[n] = s[i]
  BY <1>1, <1>3
<1> QED
  BY <1>3, <1>4, <1>5, <1>6, <1>7

\* What is picked from members of A is a sequence over A.
LEMMA PickedSeq ==
    ASSUME NEW s, NEW T, Numbers(T), NEW A, \A i \in T : s[i] \in A
    PROVE  Picked(s, T) \in Seq(A)
<1>1. /\ Picked(s, T) = [n \in 1..Cardinality(T) |-> Picked(s, T)[n]]
      /\ \A n \in 1..Cardinality(T) : Picked(s, T)[n] \in A
      /\ Cardinality(T) \in Nat
  BY PickedIn
<1>2. Picked(s, T) \in [1..Cardinality(T) -> A]
  BY <1>1
<1> QED
  BY <1>1, <1>2

\* The indices of a sequence
LEMMA Indices ==
    ASSUME NEW A, NEW s \in Seq(A), NEW T \in SUBSET (DOMAIN s)
    PROVE  Numbers(T)
<1>1. DOMAIN s = 1..Len(s) /\ Len(s) \in Nat
  OBVIOUS
<1>2. IsFiniteSet(1..Len(s))
  BY <1>1, FS_Interval
<1> QED
  BY <1>1, <1>2, FS_Subset DEF Numbers

\* The minimum of finitely many integers is one of them and the least.
LEMMA MinOf ==
    ASSUME NEW S, Numbers(S), S # {}
    PROVE  Min(S) \in S /\ \A x \in S : Min(S) <= x
<1>1. \E x \in S : \A y \in S : x <= y
  <2>1. PICK m \in S : \A k \in S : k >= m
    BY LeastNumber DEF Numbers
  <2> QED
    BY <2>1 DEF Numbers
<1> QED
  BY <1>1 DEF Min

\* The maximum of finitely many integers is one of them and the greatest.
LEMMA MaxOf ==
    ASSUME NEW S, Numbers(S), S # {}
    PROVE  Max(S) \in S /\ \A x \in S : x <= Max(S)
<1>1. \E x \in S : \A y \in S : x >= y
  BY GreatestNumber DEF Numbers
<1> QED
  BY <1>1 DEF Max, Numbers

-----------------------------------------------------------------------------
(* Pivots, windows and the patterns found in them *)

\* A pivot of a chart, of any price and bar
Pivots == [type : {"H", "L"}, price : Int, bar : Int]

\* The windows of n pivots
WindowsOf(n) == {w \in Seq(Pivots) : Len(w) = n}

\* The types of _detect_all's patterns
PatternTypes == {"IMPULSE", "ABC_CORRECTION", "WXY"} \cup Flats \cup Triangles \cup Diagonals

\* How many pivots a pattern has
PointsOf(type) ==
    IF type = "IMPULSE" THEN 6 ELSE IF type \in Triangles \cup Diagonals THEN 5 ELSE 3

\* A detected pattern that its rules allow
IsPattern(d) ==
    d.type \in PatternTypes /\ d.w \in WindowsOf(PointsOf(d.type)) /\ PatternValid(d.type, d.w)

\* A run of pivots is a window.
LEMMA RunIn ==
    ASSUME NEW A, NEW s \in Seq(A), NEW n \in Nat \ {0}, NEW i \in 1..Len(s) - n + 1
    PROVE  Run(s, i, n) \in Seq(A) /\ Len(Run(s, i, n)) = n
<1>1. Len(s) \in Nat /\ i \in 1..Len(s) /\ i + n - 1 \in 1..Len(s) /\ i <= i + n - 1
  OBVIOUS
<1> DEFINE j == i + n - 1
<1>2. SubSeq(s, i, j) \in Seq(A) /\ Len(SubSeq(s, i, j)) = j - i + 1
  <2> HIDE DEF j
  <2>1. i \in 1..Len(s) /\ j \in 1..Len(s) /\ i <= j
    BY <1>1 DEF j
  <2> QED
    BY <1>1, <2>1, SubSeqProperties
<1> QED
  BY <1>1, <1>2 DEF Run

\* What a detector finds latest is a window of its length or nothing.
LEMMA LatestIn ==
    ASSUME NEW s \in Seq(Pivots), NEW n \in Nat \ {0}, NEW starts \in SUBSET (1..Len(s) - n + 1)
    PROVE  (IF starts = {} THEN <<>> ELSE Run(s, Max(starts), n)) \in {<<>>} \cup WindowsOf(n)
<1> SUFFICES ASSUME starts # {} PROVE Run(s, Max(starts), n) \in WindowsOf(n)
  OBVIOUS
<1>1. IsFiniteSet(1..Len(s) - n + 1)
  BY FS_Interval
<1>2. Numbers(starts)
  <2>1. IsFiniteSet(starts)
    BY <1>1, FS_Subset
  <2>2. \A x \in starts : x \in Int
    OBVIOUS
  <2> QED
    BY <2>1, <2>2 DEF Numbers
<1>3. Max(starts) \in 1..Len(s) - n + 1
  BY <1>2, MaxOf
<1> QED
  BY <1>3, RunIn DEF WindowsOf

\* The swings of a list of pivots are pivots.
LEMMA SwingsIn ==
    ASSUME NEW s \in Seq(Pivots)
    PROVE  Swings(s) \in Seq(Pivots)
<1>1. \A T \in SUBSET (DOMAIN s) : Picked(s, T) \in Seq(Pivots)
  <2> SUFFICES ASSUME NEW T \in SUBSET (DOMAIN s) PROVE Picked(s, T) \in Seq(Pivots)
    OBVIOUS
  <2>1. Numbers(T)
    BY Indices
  <2>2. \A i \in T : s[i] \in Pivots
    OBVIOUS
  <2> QED
    BY <2>1, <2>2, PickedSeq
<1> QED
  BY <1>1 DEF Swings

\* Every detector finds a window of its pattern's length or nothing.
LEMMA DetectorsIn ==
    ASSUME NEW s \in Seq(Pivots)
    PROVE  /\ DetectAbc(s) \in {<<>>} \cup WindowsOf(3)
           /\ DetectFlat(s) \in {<<>>} \cup WindowsOf(3)
           /\ DetectExpandedFlat(s) \in {<<>>} \cup WindowsOf(3)
           /\ DetectRunningFlat(s) \in {<<>>} \cup WindowsOf(3)
           /\ DetectWxy(s) \in {<<>>} \cup WindowsOf(3)
           /\ DetectEndingDiagonal(s) \in {<<>>} \cup WindowsOf(5)
           /\ DetectLeadingDiagonal(s) \in {<<>>} \cup WindowsOf(5)
           /\ DetectContractingTriangle(s) \in {<<>>} \cup WindowsOf(5)
           /\ DetectExpandingTriangle(s) \in {<<>>} \cup WindowsOf(5)
           /\ DetectBarrierTriangle(s) \in {<<>>} \cup WindowsOf(5)
           /\ DetectImpulse(s) \in {<<>>} \cup WindowsOf(6)
<1>3. \A starts \in SUBSET (1..Len(s) - 3 + 1) :
         (IF starts = {} THEN <<>> ELSE Run(s, Max(starts), 3)) \in {<<>>} \cup WindowsOf(3)
  BY LatestIn
<1>5. \A starts \in SUBSET (1..Len(s) - 5 + 1) :
         (IF starts = {} THEN <<>> ELSE Run(s, Max(starts), 5)) \in {<<>>} \cup WindowsOf(5)
  BY LatestIn
<1>6. \A starts \in SUBSET (1..Len(s) - 6 + 1) :
         (IF starts = {} THEN <<>> ELSE Run(s, Max(starts), 6)) \in {<<>>} \cup WindowsOf(6)
  BY LatestIn
<1>7. /\ DetectAbc(s) \in {<<>>} \cup WindowsOf(3)
      /\ DetectFlat(s) \in {<<>>} \cup WindowsOf(3)
      /\ DetectExpandedFlat(s) \in {<<>>} \cup WindowsOf(3)
  BY <1>3 DEF Latest, DetectAbc, DetectFlat, DetectExpandedFlat
<1>8. /\ DetectRunningFlat(s) \in {<<>>} \cup WindowsOf(3)
      /\ DetectWxy(s) \in {<<>>} \cup WindowsOf(3)
  BY <1>3 DEF Latest, DetectRunningFlat, DetectWxy
<1>9. /\ DetectEndingDiagonal(s) \in {<<>>} \cup WindowsOf(5)
      /\ DetectLeadingDiagonal(s) \in {<<>>} \cup WindowsOf(5)
  BY <1>5 DEF Latest, DetectEndingDiagonal, DetectLeadingDiagonal
<1>10. /\ DetectContractingTriangle(s) \in {<<>>} \cup WindowsOf(5)
       /\ DetectExpandingTriangle(s) \in {<<>>} \cup WindowsOf(5)
       /\ DetectBarrierTriangle(s) \in {<<>>} \cup WindowsOf(5)
  BY <1>5 DEF Latest, DetectContractingTriangle, DetectExpandingTriangle, DetectBarrierTriangle
<1>11. DetectImpulse(s) \in {<<>>} \cup WindowsOf(6)
  BY <1>6 DEF Latest, DetectImpulse
<1> QED
  BY <1>7, <1>8, <1>9, <1>10, <1>11

\* The patterns kept have the points their type asks for and pass its rules.
LEMMA ValidIn ==
    ASSUME NEW s \in Seq(Pivots)
    PROVE  /\ ValidPatterns(s) \in Seq({d \in [type : PatternTypes, w : Seq(Pivots)] : IsPattern(d)})
<1>7. \A k \in Nat : IsFiniteSet(1..k)
  BY FS_Interval
<1>6. IsFiniteSet(1..11)
  BY <1>7
<1> DEFINE found == Detected(s)
           kept == {i \in DOMAIN found : found[i].w # <<>> /\ PatternValid(found[i].type, found[i].w)}
<1>1. Swings(s) \in Seq(Pivots)
  BY SwingsIn
<1>2. \A i \in DOMAIN found : /\ found[i].type \in PatternTypes
                              /\ found[i] = [type |-> found[i].type, w |-> found[i].w]
                              /\ found[i].w \in {<<>>} \cup WindowsOf(PointsOf(found[i].type))
  <2>1. DOMAIN found = 1..11
    BY DEF Detected
  <2>2. \A i \in 1..3 : /\ found[i].type \in PatternTypes
                        /\ found[i] = [type |-> found[i].type, w |-> found[i].w]
                        /\ found[i].w \in {<<>>} \cup WindowsOf(PointsOf(found[i].type))
    BY <1>1, DetectorsIn DEF Detected, PatternTypes, PointsOf, Flats, Triangles, Diagonals
  <2>3. \A i \in 4..7 : /\ found[i].type \in PatternTypes
                        /\ found[i] = [type |-> found[i].type, w |-> found[i].w]
                        /\ found[i].w \in {<<>>} \cup WindowsOf(PointsOf(found[i].type))
    BY <1>1, DetectorsIn DEF Detected, PatternTypes, PointsOf, Flats, Triangles, Diagonals
  <2>4. \A i \in 8..11 : /\ found[i].type \in PatternTypes
                         /\ found[i] = [type |-> found[i].type, w |-> found[i].w]
                         /\ found[i].w \in {<<>>} \cup WindowsOf(PointsOf(found[i].type))
    BY <1>1, DetectorsIn DEF Detected, PatternTypes, PointsOf, Flats, Triangles, Diagonals
  <2> QED
    BY <2>1, <2>2, <2>3, <2>4
<1>3. Numbers(kept)
  <2>1. DOMAIN found = 1..11
    BY DEF Detected
  <2> HIDE DEF found
  <2>2. kept \in SUBSET (1..11)
    BY <2>1
  <2>4. IsFiniteSet(kept)
    BY <1>6, <2>2, FS_Subset
  <2> QED
    BY <2>2, <2>4 DEF Numbers
<1> HIDE DEF found
<1>4. \A i \in kept : found[i] \in {d \in [type : PatternTypes, w : Seq(Pivots)] : IsPattern(d)}
  BY <1>2 DEF IsPattern, WindowsOf
<1>5. ValidPatterns(s) = Picked(found, kept)
  BY DEF ValidPatterns, found
<1> HIDE DEF kept
<1> QED
  BY <1>3, <1>4, <1>5, PickedSeq

-----------------------------------------------------------------------------
(* The order in which the wave in progress tries its windows *)

\* Of two sets the one that has the greatest number they do not share
Later(A, B) ==
    \E d \in A \ B : \A i \in A \cup B : i > d => (i \in A <=> i \in B)

\* All but the first
Inner(S) == S \ {Min(S)}

\* Later is a strict total order on finite sets of integers.
LEMMA LaterOrders ==
    ASSUME NEW A, NEW B, NEW C, Numbers(A), Numbers(B), Numbers(C)
    PROVE  /\ ~Later(A, A)
           /\ A = B \/ Later(A, B) \/ Later(B, A)
           /\ ~(Later(A, B) /\ Later(B, A))
           /\ Later(A, B) /\ Later(B, C) => Later(A, C)
<1>1. ~Later(A, A)
  BY DEF Later
<1>2. A = B \/ Later(A, B) \/ Later(B, A)
  <2> SUFFICES ASSUME A # B PROVE Later(A, B) \/ Later(B, A)
    OBVIOUS
  <2> DEFINE D == (A \cup B) \ (A \cap B)
  <2>1. IsFiniteSet(A \cup B)
    BY FS_Union DEF Numbers
  <2>2. D \in SUBSET (A \cup B)
    OBVIOUS
  <2>3. IsFiniteSet(D)
    BY <2>1, <2>2, FS_Subset
  <2>4. D # {} /\ \A i \in D : i \in Int
    BY DEF Numbers
  <2>5. PICK d \in D : \A i \in D : d >= i
    <3> HIDE DEF D
    <3> QED
      BY <2>3, <2>4, GreatestNumber
  <2>6. d \in Int /\ \A i \in A \cup B : i \in Int
    BY DEF Numbers
  <2>7. \A i \in A \cup B : i > d => (i \in A <=> i \in B)
    BY <2>5, <2>6
  <2> QED
    BY <2>7 DEF Later
<1>3. ~(Later(A, B) /\ Later(B, A))
  <2> SUFFICES ASSUME Later(A, B), Later(B, A) PROVE FALSE
    OBVIOUS
  <2>1. PICK d \in A \ B : \A i \in A \cup B : i > d => (i \in A <=> i \in B)
    BY DEF Later
  <2>2. PICK e \in B \ A : \A i \in B \cup A : i > e => (i \in B <=> i \in A)
    BY DEF Later
  <2>3. d \in Int /\ e \in Int
    BY DEF Numbers
  <2>4. d < e \/ e < d
    BY <2>3
  <2> QED
    BY <2>1, <2>2, <2>3, <2>4
<1>4. Later(A, B) /\ Later(B, C) => Later(A, C)
  <2> SUFFICES ASSUME Later(A, B), Later(B, C) PROVE Later(A, C)
    OBVIOUS
  <2>1. PICK d \in A \ B : \A i \in A \cup B : i > d => (i \in A <=> i \in B)
    BY DEF Later
  <2>2. PICK e \in B \ C : \A i \in B \cup C : i > e => (i \in B <=> i \in C)
    BY DEF Later
  <2>3. d \in Int /\ e \in Int /\ \A i \in A \cup B \cup C : i \in Int
    BY DEF Numbers
  <2>4. CASE d > e
    <3>1. d \in A \ C
      BY <2>1, <2>2, <2>4
    <3>2. \A i \in A \cup C : i > d => (i \in A <=> i \in C)
      BY <2>1, <2>2, <2>3, <2>4
    <3> QED
      BY <3>1, <3>2 DEF Later
  <2>5. CASE e > d
    <3>1. e \in A \ C
      BY <2>1, <2>2, <2>5
    <3>2. \A i \in A \cup C : i > e => (i \in A <=> i \in C)
      BY <2>1, <2>2, <2>3, <2>5
    <3> QED
      BY <3>1, <3>2 DEF Later
  <2> QED
    BY <2>1, <2>2, <2>3, <2>4, <2>5
<1> QED
  BY <1>1, <1>2, <1>3, <1>4

\* ComesFirst compares the inner points, the latest first, and then the start.
LEMMA ComesFirstIs ==
    ASSUME NEW S, NEW T, Numbers(S), Numbers(T)
    PROVE  ComesFirst(S, T) <=> \/ Inner(S) = Inner(T) /\ Min(S) < Min(T)
                                \/ Later(Inner(S), Inner(T))
<1> DEFINE A == Inner(S)
           B == Inner(T)
           inner == A \cup B
           differ == {i \in inner : (i \in A) # (i \in B)}
<1>1. Numbers(A) /\ Numbers(B)
  BY FS_RemoveElement DEF Inner, Numbers
<1>2. ComesFirst(S, T) <=> (IF differ = {} THEN Min(S) < Min(T) ELSE Max(differ) \in A)
  BY DEF ComesFirst, Inner
<1>3. differ = {} <=> A = B
  OBVIOUS
<1>4. A = B => ~Later(A, B)
  BY <1>1, LaterOrders
<1>5. ASSUME differ # {} PROVE Max(differ) \in A <=> Later(A, B)
  <2>1. IsFiniteSet(A \cup B)
    BY <1>1, FS_Union DEF Numbers
  <2>2. differ \in SUBSET (A \cup B)
    OBVIOUS
  <2>3. IsFiniteSet(differ)
    BY <2>1, <2>2, FS_Subset
  <2>4. Numbers(differ)
    BY <1>1, <2>3 DEF Numbers
  <2>5. Max(differ) \in differ /\ \A i \in differ : i <= Max(differ)
    <3> HIDE DEF differ
    <3> QED
      BY <1>5, <2>4, MaxOf
  <2>6. \A i \in inner : i \in Int
    BY <1>1 DEF Numbers
  <2> DEFINE m == Max(differ)
  <2>7. m \in inner /\ ((m \in A) # (m \in B)) /\ \A i \in inner : i > m => (i \in A <=> i \in B)
    <3> HIDE DEF A, B
    <3>1. m \in Int
      BY <2>5, <2>6
    <3> QED
      BY <2>5, <2>6, <3>1
  <2> HIDE DEF m, A, B, differ
  <2>8. m \in A => Later(A, B)
    BY <2>7 DEF Later
  <2>9. m \in B => Later(B, A)
    BY <2>7 DEF Later
  <2>10. ~(Later(A, B) /\ Later(B, A))
    BY <1>1, LaterOrders
  <2> QED
    BY <2>7, <2>8, <2>9, <2>10 DEF m
<1> QED
  BY <1>2, <1>3, <1>4, <1>5

-----------------------------------------------------------------------------
(* Picks of a chart's pivots *)

\* A set of n indices of a chart
IndexSets(pivots, n) == {S \in SUBSET (DOMAIN pivots) : Cardinality(S) = n}

\* n pivots picked from a chart are a window of n.
LEMMA PicksOf ==
    ASSUME NEW pivots \in Seq(Pivots), NEW n \in Nat \ {0}, NEW S \in IndexSets(pivots, n)
    PROVE  Numbers(S) /\ S # {} /\ Picked(pivots, S) \in WindowsOf(n)
<1>1. S \in SUBSET (DOMAIN pivots) /\ Cardinality(S) = n
  BY DEF IndexSets
<1>2. Numbers(S)
  BY <1>1, Indices
<1>3. S # {}
  BY <1>1, FS_EmptySet
<1>4. Picked(pivots, S) \in Seq(Pivots)
  BY <1>1, <1>2, PickedSeq
<1>5. Len(Picked(pivots, S)) = n
  BY <1>1, <1>2, PickedIn
<1> QED
  BY <1>2, <1>3, <1>4, <1>5 DEF WindowsOf

\* The image of a finite set is finite.
LEMMA ImageFinite ==
    ASSUME NEW S, IsFiniteSet(S), NEW f
    PROVE  IsFiniteSet({f[x] : x \in S})
<1> DEFINE V == {f[x] : x \in S}
           g == [x \in S |-> f[x]]
<1>1. g \in Surjection(S, V)
  BY DEF Surjection
<1> HIDE DEF g, V
<1> QED
  BY <1>1, FS_Surjection DEF V

\* The prices at some indices of a window are finitely many integers.
LEMMA PricesIn ==
    ASSUME NEW w \in Seq(Pivots), NEW T \in SUBSET (DOMAIN w)
    PROVE  Numbers({w[i].price : i \in T})
<1> DEFINE f == [i \in T |-> w[i].price]
           prices == {w[i].price : i \in T}
<1>1. DOMAIN w = 1..Len(w) /\ Len(w) \in Nat
  OBVIOUS
<1>2. IsFiniteSet(T)
  BY Indices DEF Numbers
<1>3. prices = {f[i] : i \in T}
  OBVIOUS
<1>4. \A i \in T : w[i].price \in Int
  <2>1. \A i \in T : w[i] \in Pivots
    BY <1>1
  <2>2. \A p \in Pivots : p.price \in Int
    BY DEF Pivots
  <2> QED
    BY <2>1, <2>2
<1>5. \A p \in prices : p \in Int
  BY <1>4
<1> HIDE DEF f
<1>6. IsFiniteSet(prices)
  BY <1>2, <1>3, ImageFinite
<1> QED
  BY <1>5, <1>6 DEF Numbers

\* How far the prices of a pick span is an integer.
LEMMA SpanIsInt ==
    ASSUME NEW w \in Seq(Pivots), w # <<>>
    PROVE  /\ {w[i].price : i \in DOMAIN w} # {}
           /\ Min({w[i].price : i \in DOMAIN w}) \in Int
           /\ Max({w[i].price : i \in DOMAIN w}) \in Int
           /\ Min({w[i].price : i \in DOMAIN w}) <= Max({w[i].price : i \in DOMAIN w})
           /\ PriceSpan(w) \in Int
<1> DEFINE prices == {w[i].price : i \in DOMAIN w}
<1>1. prices # {}
  <2>1. Len(w) \in Nat \ {0}
    BY EmptySeq
  <2>2. 1 \in DOMAIN w
    BY <2>1
  <2> QED
    BY <2>2
<1>2. Numbers(prices)
  BY PricesIn
<1>3. PriceSpan(w) = Max(prices) - Min(prices)
  BY DEF PriceSpan
<1> HIDE DEF prices
<1>4. /\ Min(prices) \in prices /\ Max(prices) \in prices
      /\ \A x \in prices : x <= Max(prices)
  BY <1>1, <1>2, MinOf, MaxOf
<1>5. Min(prices) \in Int /\ Max(prices) \in Int /\ Min(prices) <= Max(prices)
  BY <1>2, <1>4 DEF Numbers
<1>6. PriceSpan(w) \in Int
  BY <1>3, <1>5
<1> QED
  BY <1>1, <1>5, <1>6 DEF prices

\* Of several picks one is the widest: the choice in Widest is defined.
LEMMA WidestIn ==
    ASSUME NEW pivots \in Seq(Pivots), NEW n \in Nat \ {0},
           NEW counts \in SUBSET IndexSets(pivots, n)
    PROVE  WidestOf(pivots, counts) \in {<<>>} \cup WindowsOf(n)
<1> SUFFICES ASSUME counts # {} PROVE WidestOf(pivots, counts) \in WindowsOf(n)
  BY DEF WidestOf
<1> DEFINE Span(S) == PriceSpan(Picked(pivots, S))
           R == {p \in counts \X counts :
                    \/ Span(p[1]) > Span(p[2])
                    \/ Span(p[1]) = Span(p[2]) /\ p[1] # p[2] /\ ComesFirst(p[1], p[2])}
<1>1. \A S \in counts : /\ Numbers(S) /\ S # {} /\ Picked(pivots, S) \in WindowsOf(n)
                        /\ Span(S) \in Int
  <2> SUFFICES ASSUME NEW S \in counts
               PROVE  /\ Numbers(S) /\ S # {} /\ Picked(pivots, S) \in WindowsOf(n)
                      /\ Span(S) \in Int
    OBVIOUS
  <2>0. S \in IndexSets(pivots, n)
    OBVIOUS
  <2>1. Numbers(S) /\ S # {} /\ Picked(pivots, S) \in WindowsOf(n)
    BY <2>0, PicksOf
  <2>2. Picked(pivots, S) \in Seq(Pivots) /\ Picked(pivots, S) # <<>>
    BY <2>1 DEF WindowsOf
  <2> QED
    BY <2>1, <2>2, SpanIsInt
<1>2. IsFiniteSet(counts)
  <2>1. DOMAIN pivots = 1..Len(pivots) /\ Len(pivots) \in Nat
    OBVIOUS
  <2>2. IsFiniteSet(DOMAIN pivots)
    BY <2>1, FS_Interval
  <2>3. IsFiniteSet(SUBSET (DOMAIN pivots))
    BY <2>2, FS_SUBSET
  <2>4. counts \in SUBSET (SUBSET (DOMAIN pivots))
    BY DEF IndexSets
  <2> QED
    BY <2>3, <2>4, FS_Subset
<1> HIDE DEF Span
<1> DEFINE First(S, T) == \/ Inner(S) = Inner(T) /\ Min(S) < Min(T)
                          \/ Later(Inner(S), Inner(T))
<1>3. \A S, T \in counts : ComesFirst(S, T) <=> First(S, T)
  <2> HIDE DEF First
  <2>1. \A S, T \in counts : Numbers(S) /\ Numbers(T) => (ComesFirst(S, T) <=> First(S, T))
    BY ComesFirstIs DEF First
  <2> QED
    BY <1>1, <2>1
<1>4. \A S \in counts : Numbers(Inner(S)) /\ Min(S) \in Int /\ S = Inner(S) \cup {Min(S)}
  <2> SUFFICES ASSUME NEW S \in counts
               PROVE  Numbers(Inner(S)) /\ Min(S) \in Int /\ S = Inner(S) \cup {Min(S)}
    OBVIOUS
  <2>1. Min(S) \in S
    BY <1>1, MinOf
  <2> QED
    BY <1>1, <2>1, FS_RemoveElement DEF Inner, Numbers
<1>5. \A S, T, U \in counts : /\ ~First(S, S)
                              /\ S = T \/ First(S, T) \/ First(T, S)
                              /\ First(S, T) /\ First(T, U) => First(S, U)
  <2> SUFFICES ASSUME NEW S \in counts, NEW T \in counts, NEW U \in counts
               PROVE  /\ ~First(S, S)
                      /\ S = T \/ First(S, T) \/ First(T, S)
                      /\ First(S, T) /\ First(T, U) => First(S, U)
    OBVIOUS
  <2>1. /\ Numbers(Inner(S)) /\ Numbers(Inner(T)) /\ Numbers(Inner(U))
        /\ Min(S) \in Int /\ Min(T) \in Int /\ Min(U) \in Int
        /\ S = Inner(S) \cup {Min(S)} /\ T = Inner(T) \cup {Min(T)}
    BY <1>4
  <2>2. /\ ~Later(Inner(S), Inner(S))
        /\ Inner(S) = Inner(T) \/ Later(Inner(S), Inner(T)) \/ Later(Inner(T), Inner(S))
        /\ Later(Inner(S), Inner(T)) /\ Later(Inner(T), Inner(U)) => Later(Inner(S), Inner(U))
    BY <2>1, LaterOrders
  <2>3. Min(S) = Min(T) \/ Min(S) < Min(T) \/ Min(T) < Min(S)
    BY <2>1
  <2>4. Min(S) < Min(T) /\ Min(T) < Min(U) => Min(S) < Min(U)
    BY <2>1
  <2>5. ~(Min(S) < Min(S))
    BY <2>1
  <2>6. Inner(S) = Inner(T) /\ Min(S) = Min(T) => S = T
    BY <2>1
  <2> QED
    BY <2>2, <2>3, <2>4, <2>5, <2>6
<1> HIDE DEF First
<1>6. Orders(R, counts)
  <2>1. \A S \in counts : <<S, S>> \notin R
    BY <1>1
  <2>2. \A S, T \in counts : S = T \/ <<S, T>> \in R \/ <<T, S>> \in R
    BY <1>1, <1>3, <1>5
  <2>3. \A S, T, U \in counts : <<S, T>> \in R /\ <<T, U>> \in R => <<S, U>> \in R
    <3> SUFFICES ASSUME NEW S \in counts, NEW T \in counts, NEW U \in counts,
                        <<S, T>> \in R, <<T, U>> \in R
                 PROVE  <<S, U>> \in R
      OBVIOUS
    <3>1. Span(S) \in Int /\ Span(T) \in Int /\ Span(U) \in Int
      BY <1>1
    <3>2. /\ Span(S) > Span(T) \/ (Span(S) = Span(T) /\ First(S, T))
          /\ Span(T) > Span(U) \/ (Span(T) = Span(U) /\ First(T, U))
      BY <1>3
    <3>3. Span(S) > Span(U) \/ (Span(S) = Span(U) /\ First(S, U))
      BY <1>5, <3>1, <3>2
    <3>4. First(S, U) => S # U
      BY <1>5
    <3> QED
      BY <1>3, <3>3, <3>4
  <2> QED
    BY <2>1, <2>2, <2>3 DEF Orders
<1>7. \E S \in counts : Cardinality(Before(R, counts, S)) = 0
  <2>1. Cardinality(counts) \in Nat /\ Cardinality(counts) # 0
    BY <1>2, FS_CardinalityType, FS_EmptySet
  <2>2. 1 \in 1..Cardinality(counts)
    BY <2>1
  <2> HIDE DEF R
  <2>3. \E S \in counts : Cardinality(Before(R, counts, S)) = 1 - 1
    BY <1>2, <1>6, <2>2, NthExists
  <2> QED
    BY <2>3
<1>8. \E S \in counts : \A T \in counts :
         Span(S) > Span(T) \/ (Span(S) = Span(T) /\ (S = T \/ ComesFirst(S, T)))
  <2>1. PICK S \in counts : Cardinality(Before(R, counts, S)) = 0
    BY <1>7
  <2>2. IsFiniteSet(Before(R, counts, S))
    BY <1>2, FS_Subset DEF Before
  <2>3. Before(R, counts, S) = {}
    BY <2>1, <2>2, FS_EmptySet
  <2>4. \A T \in counts : <<T, S>> \notin R
    BY <2>3 DEF Before
  <2>5. \A T \in counts : S = T \/ <<S, T>> \in R
    BY <1>6, <2>4 DEF Orders
  <2>6. \A T \in counts : <<S, T>> \in R =>
           Span(S) > Span(T) \/ (Span(S) = Span(T) /\ (S = T \/ ComesFirst(S, T)))
    OBVIOUS
  <2> QED
    BY <2>5, <2>6
<1>9. PICK S \in counts : WidestOf(pivots, counts) = Picked(pivots, S)
  BY <1>8 DEF WidestOf, Span
<1> QED
  BY <1>1, <1>9

-----------------------------------------------------------------------------
(* The wave in progress, from a run of pivots *)

\* The waves a label may name
WaveNames == {"2", "3", "4", "5", "A", "B", "C"}

\* The labels of a wave in progress
Waves == [structure : {"IMPULSE", "CORRECTION"}, direction : Directions, wave : WaveNames,
          completed : 1..6, pivots : Seq(Pivots) \ {<<>>}, start : Int, invalidation : Int,
          targets : Seq(Int), confidence : Int, building : Directions]

\* Heights, legs and lengths of a window are integers at its points.
LEMMA OnWindows ==
    ASSUME NEW w \in Seq(Pivots)
    PROVE  /\ \A i \in 1..Len(w) : w[i].price \in Int /\ w[i].bar \in Int
           /\ DirectionOf(w) \in Directions /\ Opposite(DirectionOf(w)) \in Directions
           /\ DOMAIN Height(w) = 1..Len(w)
           /\ \A i \in 1..Len(w) : Height(w)[i] \in Int
           /\ DOMAIN Legs(w) = 1..Len(w) - 1
           /\ \A i \in 1..Len(w) - 1 : Legs(w)[i] \in Int
           /\ DOMAIN Lengths(w) = 1..Len(w) - 1
           /\ \A i \in 1..Len(w) - 1 : Lengths(w)[i] \in Nat
           /\ w # <<>> => Last(w) \in Pivots /\ Last(w).price \in Int /\ Last(w).bar \in Int
<1>1. \A p \in Pivots : p.price \in Int /\ p.bar \in Int
  BY DEF Pivots
<1>2. \A i \in 1..Len(w) : w[i] \in Pivots
  OBVIOUS
<1>3. \A i \in 1..Len(w) : w[i].price \in Int /\ w[i].bar \in Int
  BY <1>1, <1>2
<1>4. DirectionOf(w) \in Directions /\ Opposite(DirectionOf(w)) \in Directions
  BY DEF DirectionOf, Directions, Opposite
<1>5. DOMAIN Height(w) = 1..Len(w) /\ \A i \in 1..Len(w) : Height(w)[i] \in Int
  BY <1>3 DEF Height
<1>6. \A i \in 1..Len(w) - 1 : i \in 1..Len(w) /\ i + 1 \in 1..Len(w)
  OBVIOUS
<1>7. DOMAIN Legs(w) = 1..Len(w) - 1 /\ \A i \in 1..Len(w) - 1 : Legs(w)[i] \in Int
  BY <1>5, <1>6 DEF Legs
<1>8. DOMAIN Lengths(w) = 1..Len(w) - 1 /\ \A i \in 1..Len(w) - 1 : Lengths(w)[i] \in Nat
  BY <1>3, <1>6 DEF Lengths, Length
<1>9. w # <<>> => Last(w) \in Pivots
  BY <1>2 DEF Last
<1> QED
  BY <1>1, <1>3, <1>4, <1>5, <1>7, <1>8, <1>9

\* A ratio of a length is an integer.
LEMMA TimesIsInt ==
    ASSUME NEW r \in Int, NEW l \in Int
    PROVE  Times(r, l) \in Int
BY DEF Times

\* The lesser and the greater of two integers
LEMMA PairNumbers ==
    ASSUME NEW a \in Int, NEW b \in Int
    PROVE  Numbers({a, b}) /\ Min({a, b}) \in {a, b} /\ Max({a, b}) \in {a, b}
           /\ Min({a, b}) <= a /\ Min({a, b}) <= b /\ Max({a, b}) >= a /\ Max({a, b}) >= b
<1>1. IsFiniteSet({a}) /\ IsFiniteSet({a} \cup {b}) /\ {a} \cup {b} = {a, b}
  BY FS_Singleton, FS_AddElement
<1>2. Numbers({a, b}) /\ {a, b} # {}
  <2>1. IsFiniteSet({a, b}) /\ \A x \in {a, b} : x \in Int
    BY <1>1
  <2> QED
    BY <2>1 DEF Numbers
<1>3. /\ Min({a, b}) \in {a, b} /\ \A x \in {a, b} : Min({a, b}) <= x
      /\ Max({a, b}) \in {a, b} /\ \A x \in {a, b} : x <= Max({a, b})
  BY <1>2, MinOf, MaxOf
<1> QED
  BY <1>2, <1>3

\* A label made of a window is a wave.
LEMMA CountedIn ==
    ASSUME NEW structure \in {"IMPULSE", "CORRECTION"}, NEW direction \in Directions,
           NEW wave \in WaveNames, NEW w \in Seq(Pivots), Len(w) \in 2..7,
           NEW invalidation \in Int, NEW targets \in Seq(Int), NEW confidence \in Int
    PROVE  Counted(structure, direction, wave, w, invalidation, targets, confidence) \in Waves
<1>1. BuiltDirection(direction, wave) \in Directions
  BY DEF BuiltDirection, Directions, Opposite, WaveNames
<1>2. Last(w).price \in Int
  <2>1. Len(<<>>) = 0
    OBVIOUS
  <2>3. ~(0 \in 2..7)
    OBVIOUS
  <2>2. w # <<>>
    BY <2>1, <2>3
  <2> QED
    BY <2>2, OnWindows
<1>3. Len(w) - 1 \in 1..6
  OBVIOUS
<1>4. w \in Seq(Pivots) \ {<<>>}
  <2>1. Len(<<>>) = 0
    OBVIOUS
  <2>2. ~(0 \in 2..7)
    OBVIOUS
  <2> QED
    BY <2>1, <2>2
<1> QED
  BY <1>1, <1>2, <1>3, <1>4 DEF Counted, Waves

\* Levels at ratios of a length are integers.
LEMMA LevelsIn ==
    ASSUME NEW rs \in Seq(Int), NEW direction, NEW base \in Int, NEW l \in Int
    PROVE  /\ [i \in DOMAIN rs |-> PriceOf(direction, base + Times(rs[i], l))] \in Seq(Int)
           /\ [i \in DOMAIN rs |-> PriceOf(direction, base - Times(rs[i], l))] \in Seq(Int)
<1> DEFINE up(i) == PriceOf(direction, base + Times(rs[i], l))
           down(i) == PriceOf(direction, base - Times(rs[i], l))
<1>1. DOMAIN rs = 1..Len(rs) /\ Len(rs) \in Nat /\ \A i \in 1..Len(rs) : rs[i] \in Int
  OBVIOUS
<1>2. \A i \in 1..Len(rs) : Times(rs[i], l) \in Int
  BY <1>1, TimesIsInt
<1>3. \A i \in 1..Len(rs) : up(i) \in Int /\ down(i) \in Int
  BY <1>2 DEF PriceOf
<1> HIDE DEF up, down
<1>4. /\ [i \in 1..Len(rs) |-> up(i)] \in [1..Len(rs) -> Int]
      /\ [i \in 1..Len(rs) |-> down(i)] \in [1..Len(rs) -> Int]
  BY <1>3
<1>5. [i \in DOMAIN rs |-> up(i)] \in Seq(Int) /\ [i \in DOMAIN rs |-> down(i)] \in Seq(Int)
  BY <1>1, <1>4
<1> QED
  BY <1>5 DEF up, down

\* The targets of an unfinished impulse are integers.
LEMMA ImpulseTargetsIn ==
    ASSUME NEW w \in Seq(Pivots), Len(w) \in 2..5
    PROVE  ImpulseTargets(w) \in Seq(Int)
<1>1. CASE Len(w) = 2
  <2> DEFINE rs == <<382, 500, 618, 786>>
  <2>1. Height(w)[2] \in Int /\ Legs(w)[1] \in Int
    <3>1. 2 \in 1..Len(w) /\ 1 \in 1..Len(w) - 1
      BY <1>1
    <3> QED
      BY <3>1, OnWindows
  <2>2. ImpulseTargets(w) = [i \in DOMAIN rs |->
             PriceOf(DirectionOf(w), Height(w)[2] - Times(rs[i], Legs(w)[1]))]
    BY <1>1 DEF ImpulseTargets
  <2>3. rs \in Seq(Int)
    OBVIOUS
  <2> HIDE DEF rs
  <2>4. [i \in DOMAIN rs |->
                 PriceOf(DirectionOf(w), Height(w)[2] - Times(rs[i], Legs(w)[1]))] \in Seq(Int)
    BY <2>1, <2>3, LevelsIn
  <2> QED
    BY <2>2, <2>4
<1>2. CASE Len(w) = 3
  <2> DEFINE rs == <<1000, 1618, 2618>>
  <2>1. Height(w)[3] \in Int /\ Legs(w)[1] \in Int
    <3>1. 3 \in 1..Len(w) /\ 1 \in 1..Len(w) - 1
      BY <1>2
    <3> QED
      BY <3>1, OnWindows
  <2>2. ImpulseTargets(w) = [i \in DOMAIN rs |->
             PriceOf(DirectionOf(w), Height(w)[3] + Times(rs[i], Legs(w)[1]))]
    BY <1>2 DEF ImpulseTargets
  <2>3. rs \in Seq(Int)
    OBVIOUS
  <2> HIDE DEF rs
  <2>4. [i \in DOMAIN rs |->
                 PriceOf(DirectionOf(w), Height(w)[3] + Times(rs[i], Legs(w)[1]))] \in Seq(Int)
    BY <2>1, <2>3, LevelsIn
  <2> QED
    BY <2>2, <2>4
<1>3. CASE Len(w) = 4
  <2> DEFINE rs == <<236, 382, 500, 618>>
  <2>1. Height(w)[4] \in Int /\ Legs(w)[3] \in Int
    <3>1. 4 \in 1..Len(w) /\ 3 \in 1..Len(w) - 1
      BY <1>3
    <3> QED
      BY <3>1, OnWindows
  <2>2. ImpulseTargets(w) = [i \in DOMAIN rs |->
             PriceOf(DirectionOf(w), Height(w)[4] - Times(rs[i], Legs(w)[3]))]
    BY <1>3 DEF ImpulseTargets
  <2>3. rs \in Seq(Int)
    OBVIOUS
  <2> HIDE DEF rs
  <2>4. [i \in DOMAIN rs |->
                 PriceOf(DirectionOf(w), Height(w)[4] - Times(rs[i], Legs(w)[3]))] \in Seq(Int)
    BY <2>1, <2>3, LevelsIn
  <2> QED
    BY <2>2, <2>4
<1>4. CASE Len(w) = 5
  <2> DEFINE Level(x) == PriceOf(DirectionOf(w), x)
  <2>1. Height(w)[5] \in Int /\ Legs(w)[1] \in Int /\ Legs(w)[3] \in Int
    <3>1. 5 \in 1..Len(w) /\ 1 \in 1..Len(w) - 1 /\ 3 \in 1..Len(w) - 1
      BY <1>4
    <3> QED
      BY <3>1, OnWindows
  <2>2. ImpulseTargets(w) = << Level(Height(w)[5] + Legs(w)[1]),
                               Level(Height(w)[5] + Times(618, Legs(w)[1] + Legs(w)[3])),
                               Level(Height(w)[5] + Times(1272, Legs(w)[1])) >>
    BY <1>4 DEF ImpulseTargets
  <2>3. Times(618, Legs(w)[1] + Legs(w)[3]) \in Int /\ Times(1272, Legs(w)[1]) \in Int
    <3>1. Legs(w)[1] + Legs(w)[3] \in Int /\ 618 \in Int /\ 1272 \in Int
      BY <2>1
    <3> DEFINE both == Legs(w)[1] + Legs(w)[3]
    <3>3. both \in Int
      BY <3>1
    <3> HIDE DEF both
    <3>5. Legs(w)[1] \in Int
      BY <2>1
    <3>6. Times(618, both) \in Int
      BY <3>3 DEF Times
    <3>7. Times(1272, Legs(w)[1]) \in Int
      BY <3>5 DEF Times
    <3>4. Times(618, both) \in Int /\ Times(1272, Legs(w)[1]) \in Int
      BY <3>6, <3>7
    <3> QED
      BY <3>4 DEF both
  <2>4. \A x \in Int : Level(x) \in Int
    BY DEF PriceOf
  <2>5. /\ Height(w)[5] + Legs(w)[1] \in Int
        /\ Height(w)[5] + Times(618, Legs(w)[1] + Legs(w)[3]) \in Int
        /\ Height(w)[5] + Times(1272, Legs(w)[1]) \in Int
    BY <2>1, <2>3
  <2> HIDE DEF Level
  <2>6. /\ Level(Height(w)[5] + Legs(w)[1]) \in Int
        /\ Level(Height(w)[5] + Times(618, Legs(w)[1] + Legs(w)[3])) \in Int
        /\ Level(Height(w)[5] + Times(1272, Legs(w)[1])) \in Int
    BY <2>4, <2>5
  <2> QED
    BY <2>2, <2>6
<1> QED
  BY <1>1, <1>2, <1>3, <1>4

\* An unfinished impulse is labelled with a wave.
LEMMA PartialImpulseIn ==
    ASSUME NEW w \in Seq(Pivots), Len(w) \in 2..5
    PROVE  PartialImpulse(w) \in Waves
<1>1. ImpulseTargets(w) \in Seq(Int)
  BY ImpulseTargetsIn
<1>2. ImpulseInvalidation(w) \in Int
  <2>1. w[1].price \in Int /\ w[2].price \in Int
    BY OnWindows
  <2> QED
    BY <2>1 DEF ImpulseInvalidation
<1>3. ImpulseConfidence(w) \in Int
  <2> DEFINE base == (CASE Len(w) = 2 -> 350 [] Len(w) = 3 -> 450 [] Len(w) = 4 -> 550
                        [] OTHER -> 650) + TimeBonus(w)
  <2>1. base \in Int
    BY DEF TimeBonus
  <2>2. ImpulseConfidence(w) = Min({950, base})
    BY DEF ImpulseConfidence
  <2> HIDE DEF base
  <2>4. 950 \in Int
    OBVIOUS
  <2>5. \A a \in Int, b \in Int : Min({a, b}) \in {a, b}
    BY PairNumbers
  <2>3. Min({950, base}) \in {950, base}
    BY <2>1, <2>4, <2>5
  <2> QED
    BY <2>1, <2>2, <2>3
<1>4. WaveOfCount(Len(w)) \in WaveNames
  BY DEF WaveOfCount, WaveNames
<1>5. DirectionOf(w) \in Directions
  BY OnWindows
<1>6. Len(w) \in 2..7
  OBVIOUS
<1> QED
  BY <1>1, <1>2, <1>3, <1>4, <1>5, <1>6, CountedIn DEF PartialImpulse

\* An unfinished correction is labelled with a wave.
LEMMA PartialCorrectiveIn ==
    ASSUME NEW w \in Seq(Pivots), Len(w) \in 2..3
    PROVE  PartialCorrective(w) \in Waves
<1>1. CorrectiveTargets(w) \in Seq(Int)
  <2>1. CASE Len(w) = 2
    <3> DEFINE rs == <<382, 500, 618, 786>>
    <3>1. Height(w)[2] \in Int /\ Legs(w)[1] \in Int
      <4>1. 2 \in 1..Len(w) /\ 1 \in 1..Len(w) - 1
        BY <2>1
      <4> QED
        BY <4>1, OnWindows
    <3>2. CorrectiveTargets(w) = [i \in DOMAIN rs |->
               PriceOf(DirectionOf(w), Height(w)[2] - Times(rs[i], Legs(w)[1]))]
      <4>1. DOMAIN rs = 1..4
        OBVIOUS
      <4>2. CorrectiveTargets(w) = [i \in 1..4 |->
               PriceOf(DirectionOf(w), Height(w)[2] - Times(rs[i], Legs(w)[1]))]
        BY <2>1 DEF CorrectiveTargets
      <4> HIDE DEF rs
      <4> QED
        BY <4>1, <4>2
    <3>3. rs \in Seq(Int)
      OBVIOUS
    <3> HIDE DEF rs
    <3>4. [i \in DOMAIN rs |->
                   PriceOf(DirectionOf(w), Height(w)[2] - Times(rs[i], Legs(w)[1]))] \in Seq(Int)
      BY <3>1, <3>3, LevelsIn
    <3> QED
      BY <3>2, <3>4
  <2>2. CASE Len(w) = 3
    <3> DEFINE rs == <<1000, 1272, 1618>>
    <3>1. Height(w)[3] \in Int /\ Legs(w)[1] \in Int
      <4>1. 3 \in 1..Len(w) /\ 1 \in 1..Len(w) - 1
        BY <2>2
      <4> QED
        BY <4>1, OnWindows
    <3>2. CorrectiveTargets(w) = [i \in DOMAIN rs |->
               PriceOf(DirectionOf(w), Height(w)[3] + Times(rs[i], Legs(w)[1]))]
      <4>1. DOMAIN rs = 1..3
        OBVIOUS
      <4>2. CorrectiveTargets(w) = [i \in 1..3 |->
               PriceOf(DirectionOf(w), Height(w)[3] + Times(rs[i], Legs(w)[1]))]
        BY <2>2 DEF CorrectiveTargets
      <4> HIDE DEF rs
      <4> QED
        BY <4>1, <4>2
    <3>3. rs \in Seq(Int)
      OBVIOUS
    <3> HIDE DEF rs
    <3>4. [i \in DOMAIN rs |->
                   PriceOf(DirectionOf(w), Height(w)[3] + Times(rs[i], Legs(w)[1]))] \in Seq(Int)
      BY <3>1, <3>3, LevelsIn
    <3> QED
      BY <3>2, <3>4
  <2> QED
    BY <2>1, <2>2
<1>2. w[1].price \in Int /\ Opposite(DirectionOf(w)) \in Directions
  BY OnWindows
<1>3. 350 + 100 * (Len(w) - 1) \in Int /\ Len(w) \in 2..7
  OBVIOUS
<1>4. (IF Len(w) = 2 THEN "B" ELSE "C") \in WaveNames
  BY DEF WaveNames
<1> QED
  BY <1>1, <1>2, <1>3, <1>4, CountedIn DEF PartialCorrective

\* Five waves up and the correction after them are labelled with a wave.
LEMMA FullWavesIn ==
    ASSUME NEW w \in Seq(Pivots)
    PROVE  /\ Len(w) = 6 => WaveABegins(w) \in Waves
           /\ Len(w) = 7 => WaveBBegins(w) \in Waves
<1>1. Opposite(DirectionOf(w)) \in Directions
  BY OnWindows
<1>2. ASSUME Len(w) = 6 PROVE WaveABegins(w) \in Waves
  <2>1. w[6].price \in Int
    <3>1. 6 \in 1..Len(w)
      BY <1>2
    <3> QED
      BY <3>1, OnWindows
  <2>2. <<>> \in Seq(Int) /\ "A" \in WaveNames /\ Len(w) \in 2..7 /\ 720 \in Int
    BY <1>2 DEF WaveNames
  <2> DEFINE none == <<>>
  <2>3. none \in Seq(Int)
    OBVIOUS
  <2>4. WaveABegins(w) = Counted("CORRECTION", Opposite(DirectionOf(w)), "A", w, w[6].price, none, 720)
    BY DEF WaveABegins
  <2> HIDE DEF none
  <2> QED
    BY <1>1, <2>1, <2>2, <2>3, <2>4, CountedIn
<1>3. ASSUME Len(w) = 7 PROVE WaveBBegins(w) \in Waves
  <2> DEFINE rs == <<382, 618>>
             ts == [i \in DOMAIN rs |->
                       PriceOf(DirectionOf(w),
                               Height(w)[7] + Times(rs[i], Height(w)[6] - Height(w)[7]))]
  <2>1. w[6].price \in Int /\ Height(w)[6] \in Int /\ Height(w)[7] \in Int
    <3>1. 6 \in 1..Len(w) /\ 7 \in 1..Len(w)
      BY <1>3
    <3> QED
      BY <3>1, OnWindows
  <2>2. Height(w)[6] - Height(w)[7] \in Int
    BY <2>1
  <2>3. DOMAIN rs = 1..2 /\ rs \in Seq(Int)
    OBVIOUS
  <2>4. WaveBBegins(w) = Counted("CORRECTION", Opposite(DirectionOf(w)), "B", w, w[6].price,
                                 [i \in 1..2 |->
                                     PriceOf(DirectionOf(w),
                                             Height(w)[7] + Times(rs[i], Height(w)[6] - Height(w)[7]))],
                                 780)
    BY DEF WaveBBegins
  <2> HIDE DEF rs
  <2>5. ts \in Seq(Int)
    BY <2>1, <2>2, <2>3, LevelsIn
  <2>6. WaveBBegins(w) = Counted("CORRECTION", Opposite(DirectionOf(w)), "B", w, w[6].price, ts, 780)
    BY <2>3, <2>4
  <2>7. "B" \in WaveNames /\ Len(w) \in 2..7 /\ 780 \in Int
    BY <1>3 DEF WaveNames
  <2> HIDE DEF ts
  <2> QED
    BY <1>1, <2>1, <2>5, <2>6, <2>7, CountedIn
<1> QED
  BY <1>2, <1>3

-----------------------------------------------------------------------------
(* The confidence of a count *)

\* A Fibonacci score is an integer.
LEMMA FibScoreIn ==
    ASSUME NEW part, NEW whole, NEW targets, NEW tolerance
    PROVE  FibScore(part, whole, targets, tolerance) \in {1000, 800, 600, 100}
<1> DEFINE miss == Min({Length(1000 * part - t * whole) : t \in targets})
<1>1. FibScore(part, whole, targets, tolerance)
        = CASE 2 * miss <= tolerance * whole -> 1000
            [] miss <= tolerance * whole -> 800
            [] miss <= 2 * tolerance * whole -> 600
            [] OTHER -> 100
  BY DEF FibScore
<1> HIDE DEF miss
<1> QED
  BY <1>1

\* What each type asks for is what its windows have.
LEMMA PatternsHave ==
    ASSUME NEW type \in PatternTypes, NEW w \in WindowsOf(PointsOf(type))
    PROVE  w \in Seq(Pivots) /\ Len(w) \in {3, 5, 6} /\ (type \in Diagonals => Len(w) = 5)
BY DEF WindowsOf, PointsOf, PatternTypes, Diagonals

\* The quality of a pattern is an integer.
LEMMA QualityIn ==
    ASSUME NEW type \in PatternTypes, NEW w \in WindowsOf(PointsOf(type))
    PROVE  Quality(type, w) \in Int
<1>1. DiagonalQuality(w) \in Int
  <2> DEFINE total == (IF Overlaps(w) THEN 820 ELSE 600)
                      + Points(/\ Lengths(w)[3] > 0
                               /\ Between(500, Lengths(w)[3], Lengths(w)[1], 1050), 50)
                      + Points(Contracting(w), 50)
  <2>1. total \in Int
    BY DEF Points
  <2>2. DiagonalQuality(w) = Min({1000, total})
    BY DEF DiagonalQuality
  <2> HIDE DEF total
  <2>3. \A a \in Int, b \in Int : Min({a, b}) \in {a, b}
    BY PairNumbers
  <2>4. 1000 \in Int
    OBVIOUS
  <2>5. Min({1000, total}) \in {1000, total}
    BY <2>1, <2>3, <2>4
  <2> QED
    BY <2>1, <2>2, <2>5
<1>2. TriangleQuality(type) \in Int
  BY DEF TriangleQuality
<1>3. type \notin Triangles /\ type \notin Diagonals => StructureQuality(type) \in Int
  BY DEF StructureQuality, PatternTypes, Flats
<1> QED
  BY <1>1, <1>2, <1>3 DEF Quality

\* The momentum of its legs is an integer.
LEMMA MomentumIn ==
    ASSUME NEW type, NEW w
    PROVE  Momentum(type, w) \in Int
<1>1. LegMomentum(w) \in Int
  <2> DEFINE n == Len(Legs(w))
             total == SumFunctionOnSet(Lengths(w), 1..n)
             latest == n * Lengths(w)[n]
  <2>1. LegMomentum(w) = CASE 10 * latest >= 13 * total -> 850
                           [] latest >= total -> 700
                           [] 10 * latest >= 7 * total -> 550
                           [] OTHER -> 400
    BY DEF LegMomentum
  <2> HIDE DEF total, latest
  <2> QED
    BY <2>1
<1> QED
  BY <1>1 DEF Momentum

\* The Fibonacci quality of a pattern is an integer.
LEMMA FibQualityIn ==
    ASSUME NEW type, NEW w
    PROVE  FibQuality(type, w) \in Int
<1>1. \A part, whole, targets, tolerance : FibScore(part, whole, targets, tolerance) \in Int
  <2>1. {1000, 800, 600, 100} \subseteq Int
    OBVIOUS
  <2> QED
    BY <2>1, FibScoreIn
<1>2. ImpulseFibScore(w) \in Int
  <2> DEFINE total == FibScore(Legs(w)[2], Legs(w)[1], {500, 618, 786}, 180)
                      + FibScore(Legs(w)[4], Legs(w)[3], {236, 382, 500}, 180)
                      + FibScore(Legs(w)[3], Legs(w)[1], {1000, 1618, 2000, 2618}, 220)
                      + FibScore(Legs(w)[5], Legs(w)[1], {618, 1000, 1618}, 220)
             base == (total + 2) \div 4
             extended == IF Wave3Extended(w) THEN Min({1000, base + 50}) ELSE base
  <2>1. total \in Int
    <3>1. /\ FibScore(Legs(w)[2], Legs(w)[1], {500, 618, 786}, 180) \in Int
          /\ FibScore(Legs(w)[4], Legs(w)[3], {236, 382, 500}, 180) \in Int
          /\ FibScore(Legs(w)[3], Legs(w)[1], {1000, 1618, 2000, 2618}, 220) \in Int
          /\ FibScore(Legs(w)[5], Legs(w)[1], {618, 1000, 1618}, 220) \in Int
      BY <1>1
    <3> QED
      BY <3>1
  <2>2. ImpulseFibScore(w) = IF Wave5Truncated(w) THEN Max({0, extended - 50}) ELSE extended
    BY DEF ImpulseFibScore
  <2> HIDE DEF total
  <2>3. base \in Int /\ base + 50 \in Int
    BY <2>1
  <2>4. \A a \in Int, b \in Int : Min({a, b}) \in Int /\ Max({a, b}) \in Int
    BY PairNumbers
  <2> HIDE DEF base
  <2>5. 1000 \in Int /\ 0 \in Int
    OBVIOUS
  <2>6. Min({1000, base + 50}) \in Int
    BY <2>3, <2>4, <2>5
  <2>7. extended \in Int
    BY <2>3, <2>6
  <2> HIDE DEF extended
  <2>8. extended - 50 \in Int
    BY <2>7
  <2>9. Max({0, extended - 50}) \in Int
    BY <2>4, <2>5, <2>8
  <2> QED
    BY <2>2, <2>7, <2>9
<1>3. /\ FibScore(Legs(w)[2], Legs(w)[1], {382, 500, 618, 786}, 150) \in Int
      /\ FibScore(Height(w)[3] - Height(w)[1], Legs(w)[1], {500, 618, 786, 1000}, 180) \in Int
      /\ FibScore(Legs(w)[2], Legs(w)[1], {1000, 1236, 1618}, 220) \in Int
      /\ FibScore(Legs(w)[2], Legs(w)[1], {382, 500, 618, 786}, 180) \in Int
      /\ FibScore(Legs(w)[2], Legs(w)[1], {500, 618, 786, 1000}, 180) \in Int
  BY <1>1
<1> QED
  BY <1>2, <1>3 DEF FibQuality

\* The confidence of a valid pattern is an integer.
LEMMA ConfidenceIn ==
    ASSUME NEW type \in PatternTypes, NEW w \in WindowsOf(PointsOf(type))
    PROVE  WaveConfidence(type, w) \in Int
<1>1. FibQuality(type, w) \in Int /\ Quality(type, w) \in Int /\ Momentum(type, w) \in Int
  BY FibQualityIn, QualityIn, MomentumIn
<1> QED
  BY <1>1 DEF WaveConfidence, Half

\* What the indicators add to a count is an integer.
LEMMA AdjustmentsIn ==
    ASSUME NEW s, NEW type, NEW w
    PROVE  /\ IndicatorAdjustment(s) \in Int
           /\ IndicatorMultiplier(s) \in Int
           /\ StructureBonus(type, w) \in Int
<1>1. \A condition : \A n \in Int : Points(condition, n) \in Int
  BY DEF Points
<1>2. IndicatorAdjustment(s) \in Int
  <2>1. (IF s.validated THEN 40 + Points(s.rsi, 20) ELSE -40) \in Int
    BY DEF Points
  <2>2. /\ Points(s.macd, 15) \in Int /\ Points(s.spike, 10) \in Int
        /\ Points(s.divergence, 10) \in Int /\ Points(s.turning, 10) \in Int
        /\ Points(s.longTerm, 10) \in Int
    BY DEF Points
  <2> QED
    BY <2>1, <2>2 DEF IndicatorAdjustment
<1>3. IndicatorMultiplier(s) \in Int
  <2> DEFINE held == {i \in 1..6 : <<s.atr, s.rsi, s.macd, s.spike \/ s.divergence, s.turning,
                                    s.longTerm>>[i]}
             extra == Cardinality(held)
  <2>1. extra \in Nat
    <3>1. \A k \in Nat : IsFiniteSet(1..k)
      BY FS_Interval
    <3>2. IsFiniteSet(1..6)
      BY <3>1
    <3>3. held \in SUBSET (1..6)
      OBVIOUS
    <3> HIDE DEF held
    <3>4. IsFiniteSet(held)
      BY <3>2, <3>3, FS_Subset
    <3> QED
      BY <3>4, FS_CardinalityType
  <2>2. IndicatorMultiplier(s)
          = IF s.validated THEN Min({1180, 1080 + 20 * extra}) ELSE Max({880, 940 + 10 * extra})
    BY DEF IndicatorMultiplier
  <2> HIDE DEF extra
  <2>3. \A a \in Int, b \in Int : Min({a, b}) \in Int /\ Max({a, b}) \in Int
    BY PairNumbers
  <2>4. 1180 \in Int /\ 880 \in Int /\ 1080 + 20 * extra \in Int /\ 940 + 10 * extra \in Int
    BY <2>1
  <2>5. Min({1180, 1080 + 20 * extra}) \in Int
    BY <2>3, <2>4
  <2> DEFINE low == 940 + 10 * extra
  <2>7. low \in Int /\ 880 \in Int
    BY <2>4
  <2> HIDE DEF low
  <2>6. Max({880, low}) \in Int
    BY <2>3, <2>7
  <2> QED
    BY <2>2, <2>5, <2>6 DEF low
<1>4. StructureBonus(type, w) \in Int
  <2>1. PatternBonus(type) \in Int
    BY DEF PatternBonus
  <2>2. AlternationBonus(w) \in Int
    BY DEF AlternationBonus
  <2>3. Points(type \notin Triangles, 10) \in Int
    BY DEF Points
  <2> QED
    BY <2>1, <2>2, <2>3 DEF StructureBonus
<1> QED
  BY <1>2, <1>3, <1>4

\* A count before it is ranked
IsWeighed(c) ==
    /\ c.type \in PatternTypes
    /\ c.w \in WindowsOf(PointsOf(c.type))
    /\ PatternValid(c.type, c.w)
    /\ c.direction = CountDirection(c.type, c.w)
    /\ c.confidence \in Int
    /\ c.weight \in Nat
    /\ c.adjusted \in Int

\* A valid pattern is weighed: its weight is a natural number.
LEMMA WeighedIn ==
    ASSUME NEW type \in PatternTypes, NEW w \in WindowsOf(PointsOf(type)), NEW signals,
           PatternValid(type, w)
    PROVE  IsWeighed(Weighed(type, w, signals))
<1> DEFINE s == signals[DirectionOf(w)]
           plain == type \in Triangles
           raw == WaveConfidence(type, w) + (IF plain THEN 0 ELSE IndicatorAdjustment(s))
           confidence == Capped(0, raw, 1000)
           factor == IF plain THEN 1000 ELSE IndicatorMultiplier(s)
           product == (confidence + StructureBonus(type, w)) * factor
           weight == Max({0, product})
<1>1. confidence \in Int
  <2>1. WaveConfidence(type, w) \in Int /\ IndicatorAdjustment(s) \in Int
    BY ConfidenceIn, AdjustmentsIn
  <2>2. raw \in Int
    <3> HIDE DEF s
    <3> QED
      BY <2>1
  <2> HIDE DEF raw
  <2> QED
    BY <2>2 DEF Capped
<1>2. product \in Int
  <2>1. StructureBonus(type, w) \in Int /\ IndicatorMultiplier(s) \in Int
    BY AdjustmentsIn
  <2> HIDE DEF confidence, s
  <2>2. factor \in Int
    BY <2>1
  <2> HIDE DEF factor
  <2> QED
    BY <1>1, <2>1, <2>2
<1>3. weight \in Nat
  <2> HIDE DEF product
  <2>1. \A a \in Int, b \in Int : Max({a, b}) \in Int /\ Max({a, b}) >= a
    BY PairNumbers
  <2>2. 0 \in Int
    OBVIOUS
  <2>3. Max({0, product}) \in Int /\ Max({0, product}) >= 0
    BY <1>2, <2>1, <2>2
  <2> QED
    BY <2>3
<1>4. Weighed(type, w, signals)
        = [type |-> type, w |-> w, direction |-> CountDirection(type, w),
           validated |-> ~plain /\ s.validated, confidence |-> confidence,
           weight |-> weight, adjusted |-> Half(weight)]
  BY DEF Weighed
<1> HIDE DEF s, plain, confidence, weight
<1>5. Half(weight) \in Int
  BY <1>3 DEF Half
<1> QED
  BY <1>1, <1>3, <1>4, <1>5 DEF IsWeighed

\* Ahead compares five keys, the first of which that differs decides.
LEMMA AheadIs ==
    ASSUME NEW x, NEW y
    PROVE  Ahead(x, y) <=>
               \/ x.similarity > y.similarity
               \/ /\ x.similarity = y.similarity
                  /\ \/ x.probability > y.probability
                     \/ /\ x.probability = y.probability
                        /\ \/ x.adjusted > y.adjusted
                           \/ /\ x.adjusted = y.adjusted
                              /\ \/ x.confidence > y.confidence
                                 \/ /\ x.confidence = y.confidence
                                    /\ y.order > x.order
<1> DEFINE keys == << <<x.similarity, y.similarity>>, <<x.probability, y.probability>>,
                      <<x.adjusted, y.adjusted>>, <<x.confidence, y.confidence>>,
                      <<y.order, x.order>> >>
           Decides(i) == keys[i][1] > keys[i][2] /\ \A j \in 1..i - 1 : keys[j][1] = keys[j][2]
<1>1. DOMAIN keys = 1..5
  OBVIOUS
<1>2. /\ keys[1][1] = x.similarity /\ keys[1][2] = y.similarity
      /\ keys[2][1] = x.probability /\ keys[2][2] = y.probability
      /\ keys[3][1] = x.adjusted /\ keys[3][2] = y.adjusted
      /\ keys[4][1] = x.confidence /\ keys[4][2] = y.confidence
      /\ keys[5][1] = y.order /\ keys[5][2] = x.order
  OBVIOUS
<1>3. Ahead(x, y) <=> \E i \in DOMAIN keys : Decides(i)
  BY DEF Ahead
<1> HIDE DEF keys
<1>4. 1..5 = {1, 2, 3, 4, 5}
  OBVIOUS
<1>5. /\ 1..1 - 1 = {} /\ 1..2 - 1 = {1} /\ 1..3 - 1 = {1, 2} /\ 1..4 - 1 = {1, 2, 3}
      /\ 1..5 - 1 = {1, 2, 3, 4}
  OBVIOUS
<1>6. /\ Decides(1) <=> x.similarity > y.similarity
      /\ Decides(2) <=> x.similarity = y.similarity /\ x.probability > y.probability
      /\ Decides(3) <=> /\ x.similarity = y.similarity /\ x.probability = y.probability
                        /\ x.adjusted > y.adjusted
      /\ Decides(4) <=> /\ x.similarity = y.similarity /\ x.probability = y.probability
                        /\ x.adjusted = y.adjusted /\ x.confidence > y.confidence
      /\ Decides(5) <=> /\ x.similarity = y.similarity /\ x.probability = y.probability
                        /\ x.adjusted = y.adjusted /\ x.confidence = y.confidence
                        /\ y.order > x.order
  BY <1>2, <1>5
<1>7. Ahead(x, y) <=> Decides(1) \/ Decides(2) \/ Decides(3) \/ Decides(4) \/ Decides(5)
  <2> HIDE DEF Decides
  <2> QED
    BY <1>1, <1>3, <1>4
<1> HIDE DEF Decides
<1> QED
  BY <1>6, <1>7

-----------------------------------------------------------------------------
(* The counts, from the best *)

\* A count: a valid pattern, the direction of its window, and its numbers
IsCount(c) ==
    /\ c.type \in PatternTypes
    /\ c.w \in WindowsOf(PointsOf(c.type))
    /\ PatternValid(c.type, c.w)
    /\ c.direction = CountDirection(c.type, c.w)
    /\ c.confidence \in Int
    /\ c.probability \in Int

\* A list of n such things
Listed(s, n) == s = [i \in 1..n |-> s[i]]

\* A count whose keys are integers
IsKeyed(c) ==
    /\ c.similarity \in Int /\ c.probability \in Int /\ c.adjusted \in Int
    /\ c.confidence \in Int /\ c.order \in Int

\* Ahead is transitive: the ranking is an order.
LEMMA AheadTransitive ==
    ASSUME NEW x, NEW y, NEW z, IsKeyed(x), IsKeyed(y), IsKeyed(z), Ahead(x, y), Ahead(y, z)
    PROVE  Ahead(x, z)
<1> DEFINE After(u, v) ==
            \/ u.similarity > v.similarity
            \/ /\ u.similarity = v.similarity /\ u.probability > v.probability
            \/ /\ u.similarity = v.similarity /\ u.probability = v.probability
               /\ u.adjusted > v.adjusted
            \/ /\ u.similarity = v.similarity /\ u.probability = v.probability
               /\ u.adjusted = v.adjusted /\ u.confidence > v.confidence
            \/ /\ u.similarity = v.similarity /\ u.probability = v.probability
               /\ u.adjusted = v.adjusted /\ u.confidence = v.confidence
               /\ v.order > u.order
<1>1. \A u, v : Ahead(u, v) <=> After(u, v)
  BY AheadIs
<1>2. After(x, y) /\ After(y, z)
  BY <1>1
<1>3. After(x, z)
  BY <1>2 DEF IsKeyed
<1> QED
  BY <1>1, <1>3

\* The n counts of a list keep the windows of those of another.
SameWindows(counts, weighed, n) == \A i \in 1..n : \E j \in 1..n : counts[i].w = weighed[j].w

\* Ranking counts lists counts, as many as there were, of the same windows.
LEMMA RankedIn ==
    ASSUME NEW n \in Nat, NEW weighed, DOMAIN weighed = 1..n,
           \A i \in 1..n : IsWeighed(weighed[i])
    PROVE  /\ Listed(RankedCounts(weighed), n)
           /\ \A i \in 1..n : IsCount(RankedCounts(weighed)[i])
           /\ SameWindows(RankedCounts(weighed), weighed, n)
<1> DEFINE f == [i \in 1..n |-> weighed[i].weight]
           total == SumFunctionOnSet(f, 1..n)
           prob(i) == ProbabilityOf(weighed[i], total)
           counts == [i \in 1..n |->
                        [type |-> weighed[i].type, w |-> weighed[i].w,
                         direction |-> weighed[i].direction, validated |-> weighed[i].validated,
                         confidence |-> weighed[i].confidence, adjusted |-> weighed[i].adjusted,
                         probability |-> prob(i),
                         similarity |-> Similarity(weighed[i].confidence, prob(i)), order |-> i]]
           order == Ordered(1..n, LAMBDA i, j : Ahead(counts[i], counts[j]))
<1>1. total \in Nat
  <2>1. IsFiniteSet(1..n)
    BY FS_Interval
  <2>2. \A i \in 1..n : f[i] \in Nat
    BY DEF IsWeighed
  <2> HIDE DEF f
  <2>3. 1..n \in SUBSET (1..n)
    OBVIOUS
  <2> QED
    BY <2>1, <2>2, <2>3, SumSubset
<1>2. RankedCounts(weighed) = [i \in DOMAIN order |-> counts[order[i]]]
  BY DEF RankedCounts
<1> HIDE DEF total
<1>3. \A i \in 1..n : prob(i) \in Int
  <2> SUFFICES ASSUME NEW i \in 1..n PROVE prob(i) \in Int
    OBVIOUS
  <2>1. weighed[i].adjusted \in Int
    BY DEF IsWeighed
  <2> QED
    BY <1>1, <2>1 DEF ProbabilityOf
<1> HIDE DEF prob
<1>4. \A i \in 1..n : /\ IsCount(counts[i]) /\ counts[i].w = weighed[i].w
                      /\ counts[i].confidence \in Int /\ counts[i].adjusted \in Int
                      /\ counts[i].probability \in Int /\ counts[i].similarity \in Int
                      /\ counts[i].order = i
  <2> SUFFICES ASSUME NEW i \in 1..n
               PROVE  /\ IsCount(counts[i]) /\ counts[i].w = weighed[i].w
                      /\ counts[i].confidence \in Int /\ counts[i].adjusted \in Int
                      /\ counts[i].probability \in Int /\ counts[i].similarity \in Int
                      /\ counts[i].order = i
    OBVIOUS
  <2>1. weighed[i].confidence \in Int /\ weighed[i].adjusted \in Int
    BY DEF IsWeighed
  <2>2. Similarity(weighed[i].confidence, prob(i)) \in Int
    BY <1>3, <2>1 DEF Similarity, Half
  <2>3. IsCount(counts[i])
    BY <1>3 DEF IsWeighed, IsCount
  <2> QED
    BY <1>3, <2>1, <2>2, <2>3
<1> HIDE DEF counts
<1> DEFINE R == {p \in (1..n) \X (1..n) : Ahead(counts[p[1]], counts[p[2]])}
<1>5. Orders(R, 1..n)
  <2>1. \A i \in 1..n : ~Ahead(counts[i], counts[i])
    BY <1>4, AheadIs
  <2>2. \A i, j \in 1..n : i = j \/ Ahead(counts[i], counts[j]) \/ Ahead(counts[j], counts[i])
    <3> SUFFICES ASSUME NEW i \in 1..n, NEW j \in 1..n, i # j
                 PROVE  Ahead(counts[i], counts[j]) \/ Ahead(counts[j], counts[i])
      OBVIOUS
    <3> DEFINE x == counts[i]
               y == counts[j]
    <3>1. /\ x.confidence \in Int /\ x.adjusted \in Int /\ x.probability \in Int
          /\ x.similarity \in Int /\ x.order = i
          /\ y.confidence \in Int /\ y.adjusted \in Int /\ y.probability \in Int
          /\ y.similarity \in Int /\ y.order = j
      BY <1>4
    <3> HIDE DEF x, y
    <3>2. Ahead(x, y) \/ Ahead(y, x)
      BY <3>1, AheadIs
    <3> QED
      BY <3>2 DEF x, y
  <2>3. \A i, j, k \in 1..n : Ahead(counts[i], counts[j]) /\ Ahead(counts[j], counts[k])
                              => Ahead(counts[i], counts[k])
    <3> SUFFICES ASSUME NEW i \in 1..n, NEW j \in 1..n, NEW k \in 1..n,
                        Ahead(counts[i], counts[j]), Ahead(counts[j], counts[k])
                 PROVE  Ahead(counts[i], counts[k])
      OBVIOUS
    <3> DEFINE x == counts[i]
               y == counts[j]
               z == counts[k]
    <3>1. IsKeyed(x) /\ IsKeyed(y) /\ IsKeyed(z)
      BY <1>4 DEF IsKeyed
    <3>2. Ahead(x, y) /\ Ahead(y, z)
      OBVIOUS
    <3> HIDE DEF x, y, z
    <3>3. Ahead(x, z)
      BY <3>1, <3>2, AheadTransitive
    <3> QED
      BY <3>3 DEF x, y, z
  <2>4. \A i, j \in 1..n : <<i, j>> \in R <=> Ahead(counts[i], counts[j])
    OBVIOUS
  <2> HIDE DEF R
  <2> QED
    BY <2>1, <2>2, <2>3, <2>4 DEF Orders
<1>6. \A i \in 1..n : Before(R, 1..n, i) = {j \in 1..n : Ahead(counts[j], counts[i])}
  BY DEF Before
<1> HIDE DEF R
<1>7. IsFiniteSet(1..n) /\ Cardinality(1..n) = n
  BY FS_Interval
<1>8. \A m \in 1..n : \E i \in 1..n : Cardinality({j \in 1..n : Ahead(counts[j], counts[i])}) = m - 1
  <2>1. \A m \in 1..Cardinality(1..n) : \E i \in 1..n : Cardinality(Before(R, 1..n, i)) = m - 1
    BY <1>5, <1>7, NthExists
  <2> QED
    BY <1>6, <1>7, <2>1
<1>9. DOMAIN order = 1..n /\ \A m \in 1..n : order[m] \in 1..n
  BY <1>7, <1>8 DEF Ordered
<1> HIDE DEF order
<1> QED
  BY <1>2, <1>4, <1>9 DEF Listed, SameWindows

\* The counts in play are a list of counts.
LEMMA CountsIn ==
    ASSUME NEW pivots \in Seq(Pivots), NEW signals, NEW price
    PROVE  \E n \in Nat : /\ Listed(CountsInPlay(WaveCounts(pivots, signals), price), n)
                          /\ \A i \in 1..n :
                                IsCount(CountsInPlay(WaveCounts(pivots, signals), price)[i])
<1> DEFINE patterns == ValidPatterns(pivots)
           weighed == [i \in DOMAIN patterns |-> Weighed(patterns[i].type, patterns[i].w, signals)]
           counts == WaveCounts(pivots, signals)
           m == Len(patterns)
<1>1. DOMAIN weighed = 1..m /\ m \in Nat /\ \A i \in 1..m : IsWeighed(weighed[i])
  <2>1. patterns \in Seq({d \in [type : PatternTypes, w : Seq(Pivots)] : IsPattern(d)})
    BY ValidIn
  <2> HIDE DEF patterns
  <2>2. DOMAIN patterns = 1..m /\ m \in Nat /\ \A i \in 1..m : IsPattern(patterns[i])
    BY <2>1
  <2>3. \A i \in 1..m : IsWeighed(Weighed(patterns[i].type, patterns[i].w, signals))
    BY <2>2, WeighedIn DEF IsPattern
  <2> QED
    BY <2>2, <2>3
<1>2. counts = RankedCounts(weighed)
  BY DEF WaveCounts
<1> HIDE DEF weighed
<1>3. Listed(counts, m) /\ \A i \in 1..m : IsCount(counts[i])
  BY <1>1, <1>2, RankedIn
<1> HIDE DEF counts, m, patterns
<1> DEFINE T == {i \in DOMAIN counts : InZone(counts[i], price)}
           near == Picked(counts, T)
<1>4. T \in SUBSET (1..m)
  BY <1>3 DEF Listed
<1>5. CountsInPlay(counts, price) = IF near = <<>> THEN counts ELSE near
  BY DEF CountsInPlay
<1> HIDE DEF T
<1>6. Numbers(T)
  <2>1. IsFiniteSet(1..m)
    BY <1>1, FS_Interval
  <2>2. IsFiniteSet(T)
    BY <1>4, <2>1, FS_Subset
  <2> QED
    BY <1>4, <2>2 DEF Numbers
<1>7. /\ near = [n \in 1..Cardinality(T) |-> near[n]]
      /\ \A n \in 1..Cardinality(T) : \E i \in T : near[n] = counts[i]
      /\ Cardinality(T) \in Nat
  BY <1>6, PickedIn
<1> HIDE DEF near
<1>8. Listed(near, Cardinality(T)) /\ \A i \in 1..Cardinality(T) : IsCount(near[i])
  BY <1>3, <1>4, <1>7 DEF Listed
<1> QED
  BY <1>1, <1>3, <1>5, <1>7, <1>8 DEF counts

\* A summary that names a direction names that of the first count: it prefers the
\* second only where the two are too close to call.
LEMMA SummaryIn ==
    ASSUME NEW n \in Nat, NEW counts, Listed(counts, n), \A i \in 1..n : IsCount(counts[i]),
           SummaryBias(counts) # "none"
    PROVE  SummaryBias(counts) = counts[1].direction
<1>1. Len(counts) = n
  BY DEF Listed
<1>2. CASE ChosenFirst(counts) = 1
  BY <1>2 DEF SummaryBias
<1>3. CASE ChosenFirst(counts) # 1
  <2>1. n >= 2 /\ PrefersSecond(counts) /\ ChosenFirst(counts) = 2
    BY <1>1, <1>3 DEF ChosenFirst
  <2>2. counts[1].probability \in Int /\ counts[2].probability \in Int
    <3>1. 1 \in 1..n /\ 2 \in 1..n
      BY <2>1
    <3> QED
      BY <3>1 DEF IsCount
  <2>3. 0 < counts[1].probability - counts[2].probability
    BY <2>1 DEF PrefersSecond
  <2>4. \A first, second : RequiredMargin(first, second) \in {20, 30, 60}
    BY DEF RequiredMargin
  <2>5. counts[2].probability - counts[1].probability
            < RequiredMargin(counts[2].type, counts[1].type)
    BY <2>2, <2>3, <2>4
  <2>6. 3 - 2 = 1
    OBVIOUS
  <2>7. Ambiguous(counts)
    BY <1>1, <2>1, <2>5, <2>6 DEF Ambiguous
  <2> QED
    BY <2>7 DEF SummaryBias
<1> QED
  BY <1>2, <1>3

-----------------------------------------------------------------------------
(* The chart grows; the summary agrees with the count *)

\* A chart is a list of pivots and starts with one.
ChartIn == chart \in Seq(Pivots) /\ Len(chart) >= 1

\* A new pivot leaves a chart.
LEMMA ChartGrows ==
    ASSUME AnalysisAssumption, ChartIn, NewPivot
    PROVE  ChartIn'
<1> DEFINE last == Last(chart)
<1>1. last.type \in {"H", "L"} /\ last.price \in Int /\ last.bar \in Int
  <2>1. last \in Pivots
    BY DEF ChartIn, Last
  <2>2. \A p \in Pivots : p.type \in {"H", "L"} /\ p.price \in Int /\ p.bar \in Int
    BY DEF Pivots
  <2> HIDE DEF last
  <2> QED
    BY <2>1, <2>2
<1> HIDE DEF last
<1>2. PICK length \in LegLengths, gap \in BarGaps \cup {0}, same \in BOOLEAN, up \in BOOLEAN :
         chart' = Append(chart, Pivot(IF same THEN last.type ELSE OtherType(last.type),
                                      last.price + (IF up THEN length ELSE -length),
                                      last.bar + gap))
  BY DEF NewPivot, last
<1>3. length \in Int /\ gap \in Int
  BY AnalysisAssumption DEF AnalysisAssumption
<1>4. /\ (IF same THEN last.type ELSE OtherType(last.type)) \in {"H", "L"}
      /\ last.price + (IF up THEN length ELSE -length) \in Int
      /\ last.bar + gap \in Int
  BY <1>1, <1>3 DEF OtherType
<1> DEFINE p == Pivot(IF same THEN last.type ELSE OtherType(last.type),
                      last.price + (IF up THEN length ELSE -length), last.bar + gap)
<1>5. p \in Pivots
  BY <1>4 DEF Pivot, Pivots
<1> HIDE DEF p
<1>6. chart' = Append(chart, p)
  BY <1>2 DEF p
<1> QED
  BY <1>5, <1>6 DEF ChartIn

\* The first pivot is a chart.
LEMMA ChartStarts ==
    ASSUME AnalysisAssumption, AnalysisInit
    PROVE  ChartIn
<1>1. PICK type \in {"H", "L"} : chart = <<Pivot(type, StartPrice, 0)>>
  BY DEF AnalysisInit
<1>2. Pivot(type, StartPrice, 0) \in Pivots
  BY AnalysisAssumption DEF AnalysisAssumption, Pivot, Pivots
<1> HIDE DEF Pivots
<1> QED
  BY <1>1, <1>2 DEF ChartIn

\* The parts of a report
LEMMA ReportIs ==
    ASSUME NEW pivots, NEW price, NEW signals, Analysis(pivots, price, signals).found
    PROVE  LET counts == CountsInPlay(WaveCounts(pivots, signals), price)
               wave == InProgressWave(pivots)
               position == Position(counts[1], wave)
               levels == PlanLevels(position, LevelsAround(KeyLevels(counts[1].type, counts[1].w),
                                                           pivots, wave, price, Atr))
               projection == Projection(position, levels, pivots, Atr)
               zones == Zones(pivots)
           IN  /\ counts # <<>>
               /\ Analysis(pivots, price, signals)
                    = [found |-> TRUE, price |-> price, count |-> counts[1], wave |-> wave,
                       bias |-> SummaryBias(counts), position |-> position, levels |-> levels,
                       projection |-> projection, zones |-> zones,
                       scenarios |-> Merged(PlanScenarios(position, levels, projection, zones),
                                            wave, price)]
<1>1. CountsInPlay(WaveCounts(pivots, signals), price) # <<>>
  BY DEF Analysis, NoReport
<1> QED
  BY <1>1 DEF Analysis

\* A report's summary agrees with its count.
LEMMA SummaryOf ==
    ASSUME NEW pivots \in Seq(Pivots), NEW price, NEW signals,
           NEW r, r = Analysis(pivots, price, signals), r.found, r.bias # "none"
    PROVE  r.bias = r.count.direction
<1> DEFINE counts == CountsInPlay(WaveCounts(pivots, signals), price)
<1>1. r.bias = SummaryBias(counts) /\ r.count = counts[1]
  BY ReportIs
<1>2. \E n \in Nat : Listed(counts, n) /\ \A i \in 1..n : IsCount(counts[i])
  BY CountsIn
<1> HIDE DEF counts
<1> QED
  BY <1>1, <1>2, SummaryIn

\* SummaryAgrees, of any prices, indicators and length of the chart
\* (build_dataframe_analysis): the summary names the direction of the primary pattern
\* or none.
THEOREM SummariesAgree == AnalysisSpec => []SummaryAgrees
<1> USE AnalysisAssumption
<1> DEFINE Inv == ChartIn /\ SummaryAgrees
<1>1. AnalysisInit => Inv
  BY ChartStarts DEF AnalysisInit, SummaryAgrees, NoReport
<1>2. Inv /\ [AnalysisNext]_analysisVars => Inv'
  <2> SUFFICES ASSUME Inv, [AnalysisNext]_analysisVars PROVE Inv'
    OBVIOUS
  <2>1. CASE NewPivot
    <3>1. ChartIn'
      BY <2>1, ChartGrows
    <3> QED
      BY <2>1, <3>1 DEF NewPivot, SummaryAgrees, NoReport
  <2>2. CASE Analyse
    <3>1. PICK price, signals : report' = Analysis(chart, price, signals)
      BY <2>2 DEF Analyse
    <3>2. ChartIn'
      BY <2>2 DEF Analyse, ChartIn
    <3>3. report'.found /\ report'.bias # "none" => report'.bias = report'.count.direction
      BY <3>1, SummaryOf DEF ChartIn
    <3> QED
      BY <3>2, <3>3 DEF SummaryAgrees
  <2>3. CASE Prioritise
    BY <2>3 DEF Prioritise, ChartIn, SummaryAgrees
  <2>4. CASE UNCHANGED analysisVars
    BY <2>4 DEF analysisVars, ChartIn, SummaryAgrees
  <2> QED
    BY <2>1, <2>2, <2>3, <2>4 DEF AnalysisNext
<1>3. Inv => SummaryAgrees
  OBVIOUS
<1> QED
  BY <1>1, <1>2, <1>3, PTL DEF AnalysisSpec

-----------------------------------------------------------------------------
(* The wave in progress, from pivots that are not in a row *)

\* Something is first by one number and, of those that tie, by another.
LEMMA BestExists ==
    ASSUME NEW S, IsFiniteSet(S), S # {}, NEW f, NEW g,
           \A x \in S : f[x] \in Int /\ g[x] \in Int
    PROVE  \E x \in S : \A y \in S : f[x] > f[y] \/ (f[x] = f[y] /\ g[x] >= g[y])
<1>1. PICK x \in S : \A y \in S : f[x] >= f[y]
  <2> DEFINE V == {f[x] : x \in S}
  <2>1. IsFiniteSet(V)
    BY ImageFinite
  <2>2. V # {} /\ \A v \in V : v \in Int
    OBVIOUS
  <2> HIDE DEF V
  <2>3. PICK m \in V : \A v \in V : m >= v
    BY <2>1, <2>2, GreatestNumber
  <2> QED
    BY <2>3 DEF V
<1> DEFINE T == {y \in S : f[y] = f[x]}
           W == {g[y] : y \in T}
<1>2. T # {} /\ T \in SUBSET S
  OBVIOUS
<1>3. IsFiniteSet(T)
  BY <1>2, FS_Subset
<1> HIDE DEF T
<1>4. IsFiniteSet(W)
  BY <1>3, ImageFinite
<1>5. W # {} /\ \A v \in W : v \in Int
  BY <1>2
<1> HIDE DEF W
<1>6. PICK m \in W : \A v \in W : m >= v
  BY <1>4, <1>5, GreatestNumber
<1>7. PICK y \in T : m = g[y]
  BY DEF W
<1>8. y \in S /\ f[y] = f[x]
  BY DEF T
<1>9. \A z \in S : f[y] > f[z] \/ (f[y] = f[z] /\ g[y] >= g[z])
  <2> SUFFICES ASSUME NEW z \in S PROVE f[y] > f[z] \/ (f[y] = f[z] /\ g[y] >= g[z])
    OBVIOUS
  <2>1. CASE f[z] = f[x]
    <3>1. g[z] \in W
      BY <2>1 DEF W, T
    <3> QED
      BY <1>6, <1>7, <1>8, <2>1, <3>1
  <2>2. CASE f[z] # f[x]
    <3>1. f[x] \in Int /\ f[z] \in Int /\ f[x] >= f[z]
      BY <1>1
    <3> QED
      BY <1>8, <2>2, <3>1
  <2> QED
    BY <2>1, <2>2
<1> QED
  BY <1>8, <1>9

\* The pivots a spread-out count picks are in the chart.
LEMMA SpreadIn ==
    ASSUME NEW pivots \in Seq(Pivots), NEW direction, NEW n \in Nat \ {0},
           NEW last \in DOMAIN pivots
    PROVE  WidestSpread(pivots, direction, n, last) \in {<<>>} \cup WindowsOf(n)
<1> DEFINE counts == SpreadCounts(pivots, direction, n, last)
<1>1. counts \in SUBSET IndexSets(pivots, n)
  <2> SUFFICES ASSUME NEW S \in counts PROVE S \in IndexSets(pivots, n)
    OBVIOUS
  <2>1. PICK T \in kSubset(n - 1, 1..last - 1) : S = T \cup {last}
    BY DEF SpreadCounts
  <2>2. T \in SUBSET (1..last - 1) /\ Cardinality(T) = n - 1
    BY DEF kSubset
  <2>3. DOMAIN pivots = 1..Len(pivots) /\ Len(pivots) \in Nat
    OBVIOUS
  <2>4. IsFiniteSet(1..last - 1)
    BY <2>3, FS_Interval
  <2>5. IsFiniteSet(T)
    BY <2>2, <2>4, FS_Subset
  <2>6. last \notin T
    BY <2>2, <2>3
  <2>7. Cardinality(S) = n
    <3>1. Cardinality(T \cup {last}) = Cardinality(T) + 1
      BY <2>5, <2>6, FS_AddElement
    <3> QED
      BY <2>1, <2>2, <3>1
  <2>8. S \in SUBSET (DOMAIN pivots)
    <3>1. \A i \in 1..last - 1 : i \in 1..Len(pivots)
      BY <2>3
    <3> QED
      BY <2>1, <2>2, <2>3, <3>1
  <2> QED
    BY <2>7, <2>8 DEF IndexSets
<1> HIDE DEF counts
<1>2. WidestOf(pivots, counts) \in {<<>>} \cup WindowsOf(n)
  BY <1>1, WidestIn
<1> QED
  BY <1>2 DEF WidestSpread, counts

\* What current_wave finds
Found == Waves \cup {NoWave}

\* Impulses of pivots that are not in a row are labelled with a wave.
LEMMA SpreadWavesIn ==
    ASSUME NEW pivots \in Seq(Pivots), NEW direction, NEW last \in DOMAIN pivots
    PROVE  /\ SpreadImpulse(pivots, direction, 4) \in Found
           /\ SpreadImpulse(pivots, direction, 5) \in Found
           /\ SpreadWaveA(pivots, direction, last) \in Found
<1>1. Len(pivots) \in DOMAIN pivots
  OBVIOUS
<1>2. ASSUME NEW n \in {4, 5} PROVE SpreadImpulse(pivots, direction, n) \in Found
  <2> DEFINE w == WidestSpread(pivots, direction, n, Len(pivots))
  <2>1. w \in {<<>>} \cup WindowsOf(n)
    BY <1>1, SpreadIn
  <2>2. SpreadImpulse(pivots, direction, n) = IF w = <<>> THEN NoWave ELSE PartialImpulse(w)
    BY DEF SpreadImpulse
  <2> HIDE DEF w
  <2>3. w \in WindowsOf(n) => w \in Seq(Pivots) /\ Len(w) \in 2..5
    BY DEF WindowsOf
  <2>4. w \in WindowsOf(n) => PartialImpulse(w) \in Waves
    BY <2>3, PartialImpulseIn
  <2> QED
    BY <2>1, <2>2, <2>4 DEF Found
<1>3. SpreadWaveA(pivots, direction, last) \in Found
  <2> DEFINE w == WidestSpread(pivots, direction, 6, last)
  <2>0. 6 \in Nat \ {0}
    OBVIOUS
  <2>1. w \in {<<>>} \cup WindowsOf(6)
    BY <2>0, SpreadIn
  <2>2. SpreadWaveA(pivots, direction, last) = IF w = <<>> THEN NoWave ELSE WaveABegins(w)
    BY DEF SpreadWaveA
  <2> HIDE DEF w
  <2>3. w \in WindowsOf(6) => WaveABegins(w) \in Waves
    BY FullWavesIn DEF WindowsOf
  <2> QED
    BY <2>1, <2>2, <2>3 DEF Found
<1> QED
  BY <1>2, <1>3

\* The longer of two labels is one of them.
LEMMA LongerIn ==
    ASSUME NEW w \in WindowsOf(6), NEW a \in Pivots
    PROVE  Append(w, a) \in Seq(Pivots) /\ Len(Append(w, a)) = 7
<1>1. w \in Seq(Pivots)
  BY DEF WindowsOf
<1>2. Len(w) = 6
  BY DEF WindowsOf
<1>3. Append(w, a) \in Seq(Pivots)
  BY <1>1
<1>4. Len(Append(w, a)) = Len(w) + 1
  BY <1>1
<1> QED
  BY <1>2, <1>3, <1>4

\* A spread-out wave B is labelled with a wave.
LEMMA SpreadWaveBIn ==
    ASSUME NEW pivots \in Seq(Pivots), NEW direction, pivots # <<>>
    PROVE  SpreadWaveB(pivots, direction) \in Found
<1> DEFINE a == Last(pivots)
           ends == {i \in 1..Len(pivots) - 1 :
                       /\ pivots[i].type # a.type
                       /\ PriceOf(direction, pivots[i].price) > PriceOf(direction, a.price)
                       /\ pivots[i].bar # a.bar}
           full == [i \in ends |-> WidestSpread(pivots, direction, 6, i)]
           found == {i \in ends : full[i] # <<>>}
           Span(i) == PriceSpan(Append(full[i], a))
           best == CHOOSE i \in found : \A j \in found :
                       Span(i) > Span(j) \/ (Span(i) = Span(j) /\ i >= j)
<1>1. SpreadWaveB(pivots, direction)
        = IF found = {} THEN NoWave ELSE WaveBBegins(Append(full[best], a))
  BY DEF SpreadWaveB
<1>2. a \in Pivots
  BY DEF Last
<1>3. \A i \in ends : i \in DOMAIN pivots /\ i \in Int
  OBVIOUS
<1>4. \A i \in ends : WidestSpread(pivots, direction, 6, i) \in {<<>>} \cup WindowsOf(6)
  <2>1. 6 \in Nat \ {0}
    OBVIOUS
  <2> QED
    BY <1>3, <2>1, SpreadIn
<1>5. IsFiniteSet(ends)
  <2>1. Len(pivots) \in Nat
    OBVIOUS
  <2>2. IsFiniteSet(1..Len(pivots) - 1)
    BY <2>1, FS_Interval
  <2>3. ends \in SUBSET (1..Len(pivots) - 1)
    OBVIOUS
  <2> HIDE DEF ends
  <2> QED
    BY <2>2, <2>3, FS_Subset
<1> HIDE DEF a, ends
<1>6. \A i \in found : /\ full[i] \in WindowsOf(6)
                       /\ Append(full[i], a) \in Seq(Pivots) /\ Len(Append(full[i], a)) = 7
  <2>1. \A i \in found : full[i] \in WindowsOf(6)
    BY <1>4
  <2>2. \A w \in WindowsOf(6) : Append(w, a) \in Seq(Pivots) /\ Len(Append(w, a)) = 7
    BY <1>2, LongerIn
  <2> HIDE DEF found, full
  <2> QED
    BY <2>1, <2>2
<1>7. IsFiniteSet(found)
  BY <1>5, FS_Subset
<1> HIDE DEF full
<1>8. \A i \in found : Span(i) \in Int /\ i \in Int
  <2> SUFFICES ASSUME NEW i \in found PROVE Span(i) \in Int /\ i \in Int
    OBVIOUS
  <2>1. Append(full[i], a) \in Seq(Pivots) /\ Len(Append(full[i], a)) = 7
    BY <1>6
  <2>2. Len(<<>>) = 0 /\ 0 # 7
    OBVIOUS
  <2>3. Append(full[i], a) # <<>>
    BY <2>1, <2>2
  <2>4. i \in Int
    BY <1>3
  <2> QED
    BY <2>1, <2>3, <2>4, SpanIsInt
<1>9. found # {} => best \in found
  <2> SUFFICES ASSUME found # {} PROVE best \in found
    OBVIOUS
  <2>5. found # {}
    OBVIOUS
  <2> DEFINE f == [i \in found |-> Span(i)]
             g == [i \in found |-> i]
  <2> HIDE DEF found
  <2>1. \A i \in found : f[i] = Span(i) /\ g[i] = i
    OBVIOUS
  <2> HIDE DEF Span, f, g
  <2>4. \A i \in found : f[i] \in Int /\ g[i] \in Int
    BY <1>8, <2>1
  <2>2. \E i \in found : \A j \in found : f[i] > f[j] \/ (f[i] = f[j] /\ g[i] >= g[j])
    BY <1>7, <2>4, <2>5, BestExists
  <2>3. \E i \in found : \A j \in found : Span(i) > Span(j) \/ (Span(i) = Span(j) /\ i >= j)
    BY <2>1, <2>2
  <2> QED
    BY <2>3
<1> HIDE DEF best, found, Span
<1>10. found # {} => WaveBBegins(Append(full[best], a)) \in Waves
  BY <1>6, <1>9, FullWavesIn
<1> QED
  BY <1>1, <1>10 DEF Found

\* The widest label of one length is a wave.
LEMMA WidestWaveIn ==
    ASSUME NEW counts \in Seq(Found)
    PROVE  Widest(counts) \in Found
<1> DEFINE T == {i \in DOMAIN counts : counts[i] # NoWave}
           found == Picked(counts, T)
           Wider(c, d) == \/ PriceSpan(c.pivots) > PriceSpan(d.pivots)
                          \/ /\ PriceSpan(c.pivots) = PriceSpan(d.pivots)
                             /\ c.completed > d.completed
           best == {i \in DOMAIN found : \A j \in DOMAIN found : ~Wider(found[j], found[i])}
<1>1. Widest(counts) = IF found = <<>> THEN NoWave ELSE found[Min(best)]
  BY DEF Widest
<1>2. T \in SUBSET (DOMAIN counts) /\ \A i \in T : counts[i] \in Waves
  BY DEF Found
<1> HIDE DEF T
<1>3. Numbers(T)
  BY <1>2, Indices
<1>4. found \in Seq(Waves)
  BY <1>2, <1>3, PickedSeq
<1> HIDE DEF found
<1> SUFFICES ASSUME found # <<>> PROVE found[Min(best)] \in Waves
  BY <1>1 DEF Found
<1>5. DOMAIN found = 1..Len(found) /\ Len(found) \in Nat /\ DOMAIN found # {}
  <2>1. Len(found) # 0
    BY <1>4, EmptySeq
  <2>2. DOMAIN found = 1..Len(found) /\ Len(found) \in Nat
    BY <1>4
  <2>3. 1 \in 1..Len(found)
    BY <2>1, <2>2
  <2>4. DOMAIN found # {}
    BY <2>2, <2>3
  <2> QED
    BY <2>2, <2>4
<1>6. IsFiniteSet(DOMAIN found)
  BY <1>5, FS_Interval
<1> DEFINE f == [i \in DOMAIN found |-> PriceSpan(found[i].pivots)]
           g == [i \in DOMAIN found |-> found[i].completed]
<1>7. \A i \in DOMAIN found : f[i] \in Int /\ g[i] \in Int
  <2> SUFFICES ASSUME NEW i \in DOMAIN found PROVE f[i] \in Int /\ g[i] \in Int
    OBVIOUS
  <2>1. found[i] \in Waves
    BY <1>4
  <2>2. \A v \in Waves : v.pivots \in Seq(Pivots) /\ v.pivots # <<>> /\ v.completed \in Int
    BY DEF Waves
  <2>3. PriceSpan(found[i].pivots) \in Int
    BY <2>1, <2>2, SpanIsInt
  <2> QED
    BY <2>1, <2>2, <2>3
<1>8. \A i \in DOMAIN found : f[i] = PriceSpan(found[i].pivots) /\ g[i] = found[i].completed
  OBVIOUS
<1> HIDE DEF f, g
<1>9. PICK i \in DOMAIN found : \A j \in DOMAIN found : f[i] > f[j] \/ (f[i] = f[j] /\ g[i] >= g[j])
  <2> DEFINE S == DOMAIN found
  <2>1. IsFiniteSet(S) /\ S # {} /\ \A i \in S : f[i] \in Int /\ g[i] \in Int
    BY <1>5, <1>6, <1>7
  <2> HIDE DEF S
  <2>2. \E i \in S : \A j \in S : f[i] > f[j] \/ (f[i] = f[j] /\ g[i] >= g[j])
    BY <2>1, BestExists
  <2> QED
    BY <2>2 DEF S
<1>10. i \in best
  <2> SUFFICES ASSUME NEW j \in DOMAIN found PROVE ~Wider(found[j], found[i])
    OBVIOUS
  <2>1. /\ f[i] \in Int /\ f[j] \in Int /\ g[i] \in Int /\ g[j] \in Int
        /\ f[i] > f[j] \/ (f[i] = f[j] /\ g[i] >= g[j])
    BY <1>7, <1>9
  <2>2. ~(f[j] > f[i] \/ (f[j] = f[i] /\ g[j] > g[i]))
    BY <2>1
  <2> QED
    BY <1>8, <2>2
<1>11. best \in SUBSET (DOMAIN found) /\ best # {}
  BY <1>10
<1> HIDE DEF best
<1>12. Numbers(best)
  BY <1>4, <1>11, Indices
<1>13. Min(best) \in DOMAIN found
  BY <1>11, <1>12, MinOf
<1> QED
  BY <1>4, <1>13

\* The tail of a chart that is searched is a list of pivots.
LEMMA TailIn ==
    ASSUME NEW pivots \in Seq(Pivots)
    PROVE  TailImpulse(pivots) \in Found
<1> DEFINE n == Len(pivots)
           fits == {k \in 2..Min({n, 5}) :
                       LET w == Run(pivots, n - k + 1, k)
                       IN  Alternates(w) /\ Climbs(w) /\ PartialRules(w)}
<1>1. TailImpulse(pivots)
        = IF fits = {} THEN NoWave
          ELSE PartialImpulse(Run(pivots, n - Max(fits) + 1, Max(fits)))
  BY DEF TailImpulse
<1>2. n \in Nat
  OBVIOUS
<1>3. Min({n, 5}) \in {n, 5} /\ Min({n, 5}) <= n /\ Min({n, 5}) <= 5
  <2>1. \A a \in Int, b \in Int : Min({a, b}) \in {a, b} /\ Min({a, b}) <= a /\ Min({a, b}) <= b
    BY PairNumbers
  <2>2. n \in Int /\ 5 \in Int
    BY <1>2
  <2> HIDE DEF n
  <2> QED
    BY <2>1, <2>2
<1> HIDE DEF n
<1>4. fits \in SUBSET (2..5) /\ \A k \in fits : k <= n
  <2> DEFINE m == Min({n, 5})
  <2>1. m \in Int /\ m <= n /\ m <= 5
    BY <1>2, <1>3
  <2>2. \A k \in 2..m : k \in 2..5 /\ k <= n
    <3> HIDE DEF m
    <3> QED
      BY <1>2, <2>1
  <2> QED
    BY <2>2
<1> HIDE DEF fits
<1>5. Numbers(fits)
  <2>1. \A k \in Nat : IsFiniteSet(1..k)
    BY FS_Interval
  <2>4. IsFiniteSet(1..5)
    BY <2>1
  <2>2. IsFiniteSet(2..5)
    <3>1. 2..5 \in SUBSET (1..5)
      OBVIOUS
    <3> QED
      BY <2>4, <3>1, FS_Subset
  <2>3. IsFiniteSet(fits)
    BY <1>4, <2>2, FS_Subset
  <2> QED
    BY <1>4, <2>3 DEF Numbers
<1>6. ASSUME fits # {} PROVE PartialImpulse(Run(pivots, n - Max(fits) + 1, Max(fits))) \in Waves
  <2> DEFINE k == Max(fits)
  <2>1. k \in 2..5 /\ k <= n
    BY <1>4, <1>5, <1>6, MaxOf
  <2> HIDE DEF k
  <2>2. k \in Nat \ {0} /\ n - k + 1 \in 1..Len(pivots) - k + 1
    BY <1>2, <2>1 DEF n
  <2>3. Run(pivots, n - k + 1, k) \in Seq(Pivots) /\ Len(Run(pivots, n - k + 1, k)) = k
    BY <2>2, RunIn
  <2>4. PartialImpulse(Run(pivots, n - k + 1, k)) \in Waves
    BY <2>1, <2>3, PartialImpulseIn
  <2> QED
    BY <2>4 DEF k
<1> QED
  BY <1>1, <1>6 DEF Found

\* A label of few pivots is a wave or none.
LEMMA ShortIn ==
    ASSUME NEW pivots \in Seq(Pivots)
    PROVE  ShortCorrection(pivots) \in Found
<1> DEFINE n == Len(pivots)
           fits == {f \in (1..n - 1) \X {2, 3} :
                       LET w == Run(pivots, f[1], f[2])
                       IN  f[1] + f[2] - 1 <= n /\ Alternates(w) /\ FitsCorrective(w)}
           lengths == {f[2] : f \in fits}
           longest == Max(lengths)
           starts == {f[1] : f \in {g \in fits : g[2] = longest}}
           latest == Max(starts)
<1>1. ShortCorrection(pivots)
        = IF n > 3 \/ fits = {} THEN NoWave ELSE PartialCorrective(Run(pivots, latest, longest))
  BY DEF ShortCorrection
<1>2. n \in Nat
  OBVIOUS
<1>3. \A f \in fits : /\ f[1] \in 1..n - 1 /\ f[2] \in {2, 3} /\ f[1] + f[2] - 1 <= n
                      /\ f = <<f[1], f[2]>>
  OBVIOUS
<1> HIDE DEF n, fits
<1> SUFFICES ASSUME fits # {} PROVE PartialCorrective(Run(pivots, latest, longest)) \in Waves
  BY <1>1 DEF Found
<1>4. longest \in lengths
  <2>1. lengths \in SUBSET {2, 3} /\ lengths # {}
    BY <1>3
  <2>2. IsFiniteSet({2, 3})
    <3>1. 2 \in Int /\ 3 \in Int
      OBVIOUS
    <3>2. \A a \in Int, b \in Int : Numbers({a, b})
      BY PairNumbers
    <3> QED
      BY <3>1, <3>2 DEF Numbers
  <2> HIDE DEF lengths
  <2>3. IsFiniteSet(lengths)
    BY <2>1, <2>2, FS_Subset
  <2>4. Numbers(lengths)
    BY <2>1, <2>3 DEF Numbers
  <2> QED
    BY <2>1, <2>4, MaxOf
<1> HIDE DEF longest
<1>5. latest \in starts
  <2>1. starts \in SUBSET (1..n - 1) /\ starts # {}
    BY <1>3, <1>4
  <2>2. IsFiniteSet(1..n - 1)
    BY <1>2, FS_Interval
  <2> HIDE DEF starts
  <2>3. IsFiniteSet(starts)
    BY <2>1, <2>2, FS_Subset
  <2>4. Numbers(starts)
    BY <2>1, <2>3 DEF Numbers
  <2> QED
    BY <2>1, <2>4, MaxOf
<1> HIDE DEF latest
<1>6. /\ latest \in 1..n - 1 /\ longest \in {2, 3} /\ latest + longest - 1 <= n
  BY <1>3, <1>5
<1>7. longest \in Nat \ {0} /\ latest \in 1..Len(pivots) - longest + 1 /\ longest \in 2..3
  BY <1>2, <1>6 DEF n
<1>8. Run(pivots, latest, longest) \in Seq(Pivots) /\ Len(Run(pivots, latest, longest)) = longest
  BY <1>7, RunIn
<1> QED
  BY <1>7, <1>8, PartialCorrectiveIn

\* The search of pivots that are not in a row finds a wave or none.
LEMMA FindSpreadIn ==
    ASSUME NEW pivots \in Seq(Pivots), pivots # <<>>, NEW direction
    PROVE  FindSpread(pivots, direction) \in Found
<1> DEFINE n == Len(pivots)
           top == IF direction = "bullish" THEN "H" ELSE "L"
           before == {i \in 1..n - 1 : pivots[i].type = top}
           sameBar == before # {} /\ pivots[Max(before)].bar = pivots[n].bar
           first == << SpreadWaveA(pivots, direction, n), SpreadImpulse(pivots, direction, 4) >>
           second == << SpreadWaveB(pivots, direction), SpreadImpulse(pivots, direction, 5),
                        IF sameBar THEN SpreadWaveA(pivots, direction, Max(before)) ELSE NoWave >>
<1>1. FindSpread(pivots, direction)
        = IF n < 4 THEN NoWave
          ELSE IF pivots[n].type = top THEN Widest(first) ELSE Widest(second)
  BY DEF FindSpread
<1>2. n \in DOMAIN pivots /\ n \in Nat
  OBVIOUS
<1>3. before # {} => Max(before) \in DOMAIN pivots
  <2>1. before \in SUBSET (DOMAIN pivots)
    BY <1>2
  <2> HIDE DEF before
  <2>2. Numbers(before)
    BY <2>1, Indices
  <2> QED
    BY <2>1, <2>2, MaxOf
<1>4. /\ SpreadWaveA(pivots, direction, n) \in Found
      /\ SpreadImpulse(pivots, direction, 4) \in Found
      /\ SpreadImpulse(pivots, direction, 5) \in Found
      /\ before # {} => SpreadWaveA(pivots, direction, Max(before)) \in Found
  BY <1>2, <1>3, SpreadWavesIn
<1>5. SpreadWaveB(pivots, direction) \in Found /\ NoWave \in Found
  BY SpreadWaveBIn DEF Found
<1>6. first \in Seq(Found)
  BY <1>4
<1>7. second \in Seq(Found)
  <2> DEFINE last == IF sameBar THEN SpreadWaveA(pivots, direction, Max(before)) ELSE NoWave
  <2>1. last \in Found
    BY <1>4, <1>5
  <2> HIDE DEF last
  <2>2. << SpreadWaveB(pivots, direction), SpreadImpulse(pivots, direction, 5), last >> \in Seq(Found)
    BY <1>4, <1>5, <2>1
  <2> QED
    BY <2>2 DEF last
<1>8. Widest(first) \in Found /\ Widest(second) \in Found
  <2> HIDE DEF first, second
  <2> QED
    BY <1>6, <1>7, WidestWaveIn
<1> HIDE DEF first, second
<1> QED
  BY <1>1, <1>5, <1>8

\* The wave in progress of any chart is a wave or none.
LEMMA InProgressIn ==
    ASSUME NEW all \in Seq(Pivots)
    PROVE  InProgressWave(all) \in Found
<1> DEFINE n == Min({Len(all), SearchWindow})
           pivots == Run(all, Len(all) - n + 1, n)
<1>1. n \in Int /\ n <= Len(all)
  <2>1. \A a \in Int, b \in Int : Min({a, b}) \in Int /\ Min({a, b}) <= a
    BY PairNumbers
  <2>2. Len(all) \in Int /\ SearchWindow \in Int
    BY DEF SearchWindow
  <2> QED
    BY <2>1, <2>2
<1> HIDE DEF n
<1>2. NoWave \in Found
  BY DEF Found
<1> SUFFICES ASSUME n >= 2 PROVE InProgressWave(all) \in Found
  BY <1>1, <1>2 DEF InProgressWave, n
<1>3. n \in Nat \ {0} /\ Len(all) - n + 1 \in 1..Len(all) - n + 1
  BY <1>1
<1>4. pivots \in Seq(Pivots) /\ Len(pivots) = n
  BY <1>3, RunIn
<1> HIDE DEF pivots
<1>5. pivots # <<>>
  <2>1. Len(<<>>) = 0 /\ n # 0
    BY <1>1
  <2> QED
    BY <1>4, <2>1
<1>6. /\ ShortCorrection(pivots) \in Found /\ TailImpulse(pivots) \in Found
      /\ FindSpread(pivots, "bearish") \in Found /\ FindSpread(pivots, "bullish") \in Found
  BY <1>4, <1>5, ShortIn, TailIn, FindSpreadIn
<1>7. InProgressWave(all)
        = Completer(ShortCorrection(pivots),
                    Completer(TailImpulse(pivots),
                              Completer(FindSpread(pivots, "bearish"),
                                        FindSpread(pivots, "bullish"))))
  BY <1>1 DEF InProgressWave, n, pivots
<1>8. \A a, b \in Found : Completer(a, b) \in Found
  BY DEF Completer
<1> QED
  BY <1>6, <1>7, <1>8

-----------------------------------------------------------------------------
(* Key levels, and the levels of a plan *)

\* The key levels of a plan
Levels == [support : Int, resistance : Int, invalidation : Int, confirmation : Int,
           start : Int, end : Int, b : Int, c : Int]

\* The patterns whose levels are those of their last leg
Plain == PatternTypes \ (Triangles \cup Diagonals \cup {"IMPULSE"})

\* Rearmost and foremost of two integers are among them.
LEMMA FarNear ==
    ASSUME NEW bias, NEW a \in Int, NEW b \in Int
    PROVE  /\ Rearmost(bias, {a, b}) \in {a, b} /\ Foremost(bias, {a, b}) \in {a, b}
           /\ Rearmost(bias, {a, b}) \in Int /\ Foremost(bias, {a, b}) \in Int
<1>1. \A x \in Int, y \in Int : Min({x, y}) \in {x, y} /\ Max({x, y}) \in {x, y}
  BY PairNumbers
<1>2. Min({a, b}) \in {a, b} /\ Max({a, b}) \in {a, b}
  BY <1>1
<1>3. Rearmost(bias, {a, b}) \in {a, b} /\ Foremost(bias, {a, b}) \in {a, b}
  BY <1>2 DEF Rearmost, Foremost, Either
<1> QED
  BY <1>3

\* The last two points of a valid pattern are at different prices.
LEMMA LastLeg ==
    ASSUME NEW type \in Plain \cup {"IMPULSE"}, NEW w \in WindowsOf(PointsOf(type)),
           PatternValid(type, w)
    PROVE  /\ type = "IMPULSE" => w[5].price # w[6].price
           /\ type # "IMPULSE" => w[2].price # w[3].price
<1>0. w \in Seq(Pivots) /\ (type = "IMPULSE" => Len(w) = 6) /\ (type # "IMPULSE" => Len(w) = 3)
  BY DEF WindowsOf, PointsOf, Plain
<1>1. CASE type = "IMPULSE"
  <2>1. Len(w) = 6
    BY <1>0, <1>1
  <2>2. ImpulseHolds(w)
    BY <1>1 DEF PatternValid, Triangles, ImpulseValid
  <2>3. Legs(w)[5] > 0
    BY <2>2 DEF ImpulseHolds
  <2>4. Legs(w)[5] = Height(w)[6] - Height(w)[5]
    BY <2>1, <1>0 DEF Legs
  <2>5. Height(w)[6] \in Int /\ Height(w)[5] \in Int
    <3>1. 5 \in 1..Len(w) /\ 6 \in 1..Len(w)
      BY <2>1
    <3> QED
      BY <1>0, <3>1, OnWindows
  <2>6. Height(w)[6] # Height(w)[5]
    BY <2>3, <2>4, <2>5
  <2>7. w[5].price = w[6].price => Height(w)[6] = Height(w)[5]
    BY <2>1, <1>0 DEF Height
  <2> QED
    BY <1>1, <2>6, <2>7
<1>2. CASE type # "IMPULSE"
  <2>1. Len(w) = 3
    BY <1>0, <1>2
  <2>2. /\ Legs(w)[1] = Height(w)[2] - Height(w)[1]
        /\ Legs(w)[2] = Height(w)[2] - Height(w)[3]
    BY <2>1, <1>0 DEF Legs
  <2>3. /\ Height(w)[1] \in Int /\ Height(w)[2] \in Int /\ Height(w)[3] \in Int
        /\ Legs(w)[1] \in Int /\ Legs(w)[2] \in Int
    <3>1. 1 \in 1..Len(w) /\ 2 \in 1..Len(w) /\ 3 \in 1..Len(w) /\ 1 \in 1..Len(w) - 1
          /\ 2 \in 1..Len(w) - 1
      BY <2>1
    <3> QED
      BY <1>0, <3>1, OnWindows
  <2>4. Height(w)[2] # Height(w)[3]
    <3>1. CASE type = "ABC_CORRECTION"
      <4>1. Height(w)[3] < Height(w)[2]
        BY <3>1 DEF PatternValid, Triangles, AbcValid
      <4> QED
        BY <2>3, <4>1
    <3>2. CASE type = "FLAT"
      <4>1. Height(w)[2] > Height(w)[1] /\ 900 * Legs(w)[1] <= 1000 * Legs(w)[2]
        BY <3>2 DEF PatternValid, Triangles, FlatValid, Between
      <4> QED
        BY <2>2, <2>3, <4>1
    <3>3. CASE type = "EXPANDED_FLAT"
      <4>1. Legs(w)[2] > 0
        BY <3>3 DEF PatternValid, Triangles, ExpandedFlatValid, FitsExpandedFlat, FlatLegs
      <4> QED
        BY <2>2, <2>3, <4>1
    <3>4. CASE type = "RUNNING_FLAT"
      <4>1. Legs(w)[2] > 0
        BY <3>4 DEF PatternValid, Triangles, RunningFlatValid, FitsRunningFlat, FlatLegs
      <4> QED
        BY <2>2, <2>3, <4>1
    <3>5. CASE type = "WXY"
      <4>1. Height(w)[2] > Height(w)[1] /\ 500 * Legs(w)[1] <= 1000 * Legs(w)[2]
        BY <3>5 DEF PatternValid, Triangles, WxyValid, Between
      <4> QED
        BY <2>2, <2>3, <4>1
    <3> QED
      BY <1>2, <3>1, <3>2, <3>3, <3>4, <3>5 DEF Plain, PatternTypes, Flats
  <2>5. w[2].price = w[3].price => Height(w)[2] = Height(w)[3]
    BY <2>1, <1>0 DEF Height
  <2> QED
    BY <1>2, <2>4, <2>5
<1> QED
  BY <1>1, <1>2

\* Key levels are integers; a triangle's are in order, and those of a last leg differ.
LEMMA KeyLevelsIn ==
    ASSUME NEW type \in PatternTypes, NEW w \in WindowsOf(PointsOf(type)), PatternValid(type, w)
    PROVE  /\ KeyLevels(type, w) \in Levels
           /\ type \in Triangles => KeyLevels(type, w).support <= KeyLevels(type, w).resistance
           /\ type \in Plain \cup {"IMPULSE"} =>
                  KeyLevels(type, w).support # KeyLevels(type, w).resistance
<1> DEFINE bias == DirectionOf(w)
           prices == {w[i].price : i \in DOMAIN w}
           Made(support, resistance, invalidation, confirmation) ==
               [support |-> support, resistance |-> resistance, invalidation |-> invalidation,
                confirmation |-> confirmation, start |-> w[1].price, end |-> Last(w).price,
                b |-> NoPrice, c |-> NoPrice]
<1>1. w \in Seq(Pivots) /\ Len(w) = PointsOf(type) /\ Len(w) \in {3, 5, 6}
  BY PatternsHave DEF WindowsOf
<1>2. w # <<>>
  <2>1. Len(<<>>) = 0
    OBVIOUS
  <2>2. Len(w) # 0
    BY <1>1
  <2> QED
    BY <2>1, <2>2
<1>3. w[1].price \in Int /\ w[2].price \in Int /\ w[3].price \in Int /\ Last(w).price \in Int
  <2>1. 1 \in 1..Len(w) /\ 2 \in 1..Len(w) /\ 3 \in 1..Len(w)
    BY <1>1
  <2> QED
    BY <1>1, <1>2, <2>1, OnWindows
<1>4. /\ prices # {} /\ Min(prices) \in Int /\ Max(prices) \in Int /\ Min(prices) <= Max(prices)
  BY <1>1, <1>2, SpanIsInt
<1> HIDE DEF prices
<1>5. \A s, r, i, c \in Int : Made(s, r, i, c) \in Levels
  BY <1>3 DEF Levels, NoPrice
<1>6. CASE type = "IMPULSE"
  <2>1. w[5].price \in Int /\ w[6].price \in Int
    <3>1. 5 \in 1..Len(w) /\ 6 \in 1..Len(w)
      BY <1>1, <1>6 DEF PointsOf
    <3> QED
      BY <1>1, <3>1, OnWindows
  <2>2. KeyLevels(type, w) = Made(Min({w[5].price, w[6].price}), Max({w[5].price, w[6].price}),
                                  w[1].price, w[6].price)
    BY <1>6 DEF KeyLevels, Triangles, Diagonals
  <2> DEFINE low == Min({w[5].price, w[6].price})
             high == Max({w[5].price, w[6].price})
  <2>3. /\ low \in Int /\ high \in Int
        /\ low <= w[5].price /\ low <= w[6].price /\ high >= w[5].price /\ high >= w[6].price
    <3>1. \A x \in Int, y \in Int : /\ Min({x, y}) \in Int /\ Max({x, y}) \in Int
                                    /\ Min({x, y}) <= x /\ Min({x, y}) <= y
                                    /\ Max({x, y}) >= x /\ Max({x, y}) >= y
      BY PairNumbers
    <3> QED
      BY <2>1, <3>1
  <2>4. w[5].price # w[6].price
    BY <1>6, LastLeg
  <2> HIDE DEF low, high
  <2>5. low # high
    BY <2>1, <2>3, <2>4
  <2>6. KeyLevels(type, w) = Made(low, high, w[1].price, w[6].price)
    BY <2>2 DEF low, high
  <2>7. KeyLevels(type, w) \in Levels
    BY <1>3, <1>5, <2>1, <2>3, <2>6
  <2>8. KeyLevels(type, w).support = low /\ KeyLevels(type, w).resistance = high
    BY <2>6
  <2> QED
    BY <1>6, <2>5, <2>7, <2>8 DEF Triangles
<1>7. CASE type \in Triangles
  <2>1. KeyLevels(type, w) = Made(Min(prices), Max(prices), Min(prices), Max(prices))
    BY <1>7 DEF KeyLevels, Triangles, Diagonals, prices
  <2>2. KeyLevels(type, w) \in Levels
    BY <1>4, <1>5, <2>1
  <2>3. KeyLevels(type, w).support = Min(prices) /\ KeyLevels(type, w).resistance = Max(prices)
    BY <2>1
  <2> QED
    BY <1>4, <1>7, <2>2, <2>3 DEF Plain, Triangles
<1>8. CASE type \in Diagonals
  <2>1. KeyLevels(type, w) = Made(Min(prices), Max(prices), w[1].price, Foremost(bias, prices))
    BY <1>8 DEF KeyLevels, Triangles, Diagonals, prices
  <2>2. Foremost(bias, prices) \in Int
    BY <1>4 DEF Foremost, Either
  <2>3. KeyLevels(type, w) \in Levels
    <3> HIDE DEF bias
    <3> QED
      BY <1>3, <1>4, <1>5, <2>1, <2>2
  <2> QED
    BY <1>8, <2>3 DEF Plain, Triangles, Diagonals
<1>9. CASE type \in Plain
  <2> DEFINE p == w[2].price
             q == w[3].price
  <2>1. KeyLevels(type, w) = CorrectiveLevels(bias, w[1].price, p, q)
    BY <1>9 DEF KeyLevels, Plain, PatternTypes, Flats, Triangles, Diagonals
  <2>2. p # q
    BY <1>9, LastLeg DEF Plain
  <2> HIDE DEF p, q, bias
  <2>3. p \in Int /\ q \in Int
    BY <1>3 DEF p, q
  <2>4. /\ Min({p, q}) \in Int /\ Max({p, q}) \in Int
        /\ Min({p, q}) <= p /\ Min({p, q}) <= q /\ Max({p, q}) >= p /\ Max({p, q}) >= q
    BY <2>3, PairNumbers
  <2>5. Rearmost(bias, {p, q}) \in Int /\ Foremost(bias, {p, q}) \in Int
    BY <2>3, FarNear
  <2>6. CorrectiveLevels(bias, w[1].price, p, q) \in Levels
    BY <1>3, <2>3, <2>4, <2>5 DEF CorrectiveLevels, Levels
  <2>7. Min({p, q}) # Max({p, q})
    BY <2>2, <2>3, <2>4
  <2>8. /\ KeyLevels(type, w).support = Min({p, q})
        /\ KeyLevels(type, w).resistance = Max({p, q})
    BY <2>1 DEF CorrectiveLevels
  <2> QED
    BY <1>9, <2>1, <2>6, <2>7, <2>8 DEF Plain
<1> QED
  BY <1>6, <1>7, <1>8, <1>9 DEF Plain

\* Part of a finite set of integers has its least and its greatest member.
LEMMA PartNumbers ==
    ASSUME NEW S, Numbers(S), NEW T, T \subseteq S
    PROVE  /\ Numbers(T)
           /\ T # {} => /\ Min(T) \in T /\ Min(T) \in Int /\ Max(T) \in T /\ Max(T) \in Int
                        /\ \A x \in T : Min(T) <= x /\ x <= Max(T)
<1>1. IsFiniteSet(T)
  BY FS_Subset DEF Numbers
<1>2. Numbers(T)
  BY <1>1 DEF Numbers
<1>3. T # {} => /\ Min(T) \in T /\ \A x \in T : Min(T) <= x
                /\ Max(T) \in T /\ \A x \in T : x <= Max(T)
  BY <1>2, MinOf, MaxOf
<1> QED
  BY <1>2, <1>3 DEF Numbers

\* The members of a list of integers are finitely many.
LEMMA MembersIn ==
    ASSUME NEW s \in Seq(Int)
    PROVE  Numbers({s[i] : i \in DOMAIN s})
<1> DEFINE V == {s[i] : i \in DOMAIN s}
<1>1. DOMAIN s = 1..Len(s) /\ Len(s) \in Nat
  OBVIOUS
<1>2. IsFiniteSet(DOMAIN s)
  BY <1>1, FS_Interval
<1>3. IsFiniteSet(V)
  BY <1>2, ImageFinite
<1>4. \A v \in V : v \in Int
  OBVIOUS
<1> QED
  BY <1>3, <1>4 DEF Numbers

\* A position that is not a triangle's has a direction; one of a correction is not
\* planned on a diagonal's levels.
LEMMA PositionIn ==
    ASSUME NEW c, IsCount(c), NEW wave \in Found
    PROVE  /\ Position(c, wave).structure \in PatternTypes \cup {"CORRECTION"}
           /\ Position(c, wave).structure \notin Triangles => Position(c, wave).bias \in Directions
           /\ Position(c, wave).structure \in Triangles => c.type \in Triangles
           /\ Position(c, wave).structure \in Correctives => c.type \in Plain \cup {"IMPULSE"}
<1>1. c.type \in PatternTypes /\ c.direction = CountDirection(c.type, c.w)
  BY DEF IsCount
<1>2. DirectionOf(c.w) \in Directions
  BY DEF DirectionOf, Directions
<1>3. CASE wave = NoWave
  <2>1. Position(c, wave) = [structure |-> c.type, bias |-> c.direction, building |-> FALSE]
    BY <1>3 DEF Position
  <2>2. c.type \notin Triangles => c.direction \in Directions
    BY <1>1, <1>2 DEF CountDirection
  <2>3. c.type \in Correctives => c.type \in Plain
    BY <1>1 DEF Correctives, Plain, PatternTypes, Triangles, Diagonals, Flats
  <2> QED
    BY <1>1, <2>1, <2>2, <2>3
<1>4. CASE wave # NoWave
  <2>1. wave.structure \in {"IMPULSE", "CORRECTION"} /\ wave.direction \in Directions
    BY <1>4 DEF Found, Waves
  <2>2. Position(c, wave) = [structure |-> IF c.type = "IMPULSE" THEN wave.structure ELSE c.type,
                             bias |-> wave.direction, building |-> TRUE]
    BY <1>4 DEF Position
  <2>3. c.type \in Correctives => c.type \in Plain
    BY <1>1 DEF Correctives, Plain, PatternTypes, Triangles, Diagonals, Flats
  <2>4. "IMPULSE" \in PatternTypes /\ "IMPULSE" \notin Triangles /\ "CORRECTION" \notin Triangles
    BY DEF PatternTypes, Triangles
  <2> QED
    BY <1>1, <2>1, <2>2, <2>3, <2>4
<1> QED
  BY <1>3, <1>4

\* The bracket of a price is two integers.
LEMMA BracketIn ==
    ASSUME NEW pivots \in Seq(Pivots), pivots # <<>>, NEW wave \in Found, NEW price \in Int,
           NEW atr \in Int
    PROVE  Bracket(pivots, wave, price, atr)[1] \in Int /\ Bracket(pivots, wave, price, atr)[2] \in Int
<1>1. ASSUME wave \in Waves
      PROVE  WaveBracket(wave, price)[1] \in Int /\ WaveBracket(wave, price)[2] \in Int
  <2> DEFINE targets == {wave.targets[i] : i \in DOMAIN wave.targets}
             above == {t \in targets : 1000 * t > 1005 * price}
             below == {t \in targets : 1000 * t < 995 * price}
  <2>1. wave.start \in Int /\ wave.invalidation \in Int /\ wave.targets \in Seq(Int)
    BY <1>1 DEF Waves
  <2>2. Numbers(targets)
    BY <2>1, MembersIn
  <2>3. above \subseteq targets /\ below \subseteq targets
    OBVIOUS
  <2>4. WaveBracket(wave, price)
          = IF wave.direction = "bearish"
            THEN <<wave.start, IF above = {} THEN wave.invalidation ELSE Min(above)>>
            ELSE <<IF below = {} THEN wave.invalidation ELSE Max(below), wave.start>>
    BY DEF WaveBracket
  <2> HIDE DEF targets, above, below
  <2>5. (above # {} => Min(above) \in Int) /\ (below # {} => Max(below) \in Int)
    BY <2>2, <2>3, PartNumbers
  <2> QED
    BY <2>1, <2>4, <2>5
<1>2. ASSUME NEW support \in Int
      PROVE  /\ PivotBracket(pivots, price, atr, support)[1] \in Int
             /\ PivotBracket(pivots, price, atr, support)[2] \in Int
  <2> DEFINE prices == {pivots[i].price : i \in DOMAIN pivots}
             below == {p \in prices : 1000 * p < 999 * price}
             above == {p \in prices : 1000 * p > 1001 * price}
             low == IF below # {} THEN Max(below)
                    ELSE IF support # NoPrice THEN support ELSE Min(prices)
             high == IF above # {} THEN Min(above) ELSE price + atr
  <2>1. Numbers(prices) /\ Min(prices) \in Int
    BY PricesIn, SpanIsInt
  <2>2. above \subseteq prices /\ below \subseteq prices
    OBVIOUS
  <2>3. PivotBracket(pivots, price, atr, support) = <<low, high>>
    BY DEF PivotBracket
  <2> HIDE DEF prices, above, below
  <2>4. (above # {} => Min(above) \in Int) /\ (below # {} => Max(below) \in Int)
    BY <2>1, <2>2, PartNumbers
  <2>5. low \in Int /\ high \in Int
    BY <2>1, <2>4
  <2> QED
    BY <2>3, <2>5
<1>3. NoPrice \in Int
  BY DEF NoPrice
<1> DEFINE first == IF wave = NoWave THEN <<NoPrice, NoPrice>> ELSE WaveBracket(wave, price)
<1>4. first[1] \in Int /\ first[2] \in Int
  BY <1>1, <1>3 DEF Found
<1>5. Bracket(pivots, wave, price, atr)
        = IF first[1] = NoPrice \/ first[2] <= price
          THEN PivotBracket(pivots, price, atr, first[1]) ELSE first
  BY DEF Bracket
<1> HIDE DEF first
<1> QED
  BY <1>2, <1>4, <1>5

\* Levels rebuilt around the price are in order, and differ.
LEMMA LevelsAroundIn ==
    ASSUME NEW k \in Levels, NEW pivots \in Seq(Pivots), pivots # <<>>, NEW wave \in Found,
           NEW price \in Int, NEW atr \in Int
    PROVE  LET around == LevelsAround(k, pivots, wave, price, atr)
           IN  /\ around \in Levels
               /\ k.support <= k.resistance => around.support <= around.resistance
               /\ k.support # k.resistance => around.support # around.resistance
<1> DEFINE bracket == Bracket(pivots, wave, price, atr)
           rebuilt == [support |-> bracket[1], resistance |-> bracket[2],
                       invalidation |-> IF wave = NoWave THEN bracket[1] ELSE wave.invalidation,
                       confirmation |-> bracket[2], start |-> bracket[1],
                       end |-> NoPrice, b |-> NoPrice, c |-> NoPrice]
<1>1. bracket[1] \in Int /\ bracket[2] \in Int
  BY BracketIn
<1>2. LevelsAround(k, pivots, wave, price, atr)
        = IF LevelsLeft(k, price) /\ bracket[1] < price /\ price < bracket[2] THEN rebuilt ELSE k
  BY DEF LevelsAround
<1> HIDE DEF bracket
<1>3. wave # NoWave => wave.invalidation \in Int
  BY DEF Found, Waves
<1>4. rebuilt \in Levels /\ rebuilt.support = bracket[1] /\ rebuilt.resistance = bracket[2]
  BY <1>1, <1>3 DEF Levels, NoPrice
<1> HIDE DEF rebuilt
<1>5. bracket[1] < price /\ price < bracket[2] => rebuilt.support < rebuilt.resistance
  BY <1>1, <1>4
<1>6. rebuilt.support < rebuilt.resistance
        => rebuilt.support <= rebuilt.resistance /\ rebuilt.support # rebuilt.resistance
  BY <1>1, <1>4
<1> QED
  BY <1>2, <1>4, <1>5, <1>6

\* Where a plan enters on the losing side of its correction
LastOf(bias, k) == IF k.c # NoPrice THEN k.c ELSE Either(bias, k.support, k.resistance)

\* Levels aligned to a bias put the price the alternate scenario enters at behind the
\* confirmation (align_corrective_key_levels_to_bias).
LEMMA AlignedIn ==
    ASSUME NEW k \in Levels, k.support # k.resistance, NEW bias \in Directions
    PROVE  /\ AlignedTo(bias, k) \in Levels
           /\ LastOf(bias, AlignedTo(bias, k)) \in Int
           /\ bias = "bullish" =>
                  LastOf(bias, AlignedTo(bias, k)) <= AlignedTo(bias, k).confirmation
           /\ bias # "bullish" =>
                  AlignedTo(bias, k).confirmation <= LastOf(bias, AlignedTo(bias, k))
<1> DEFINE all == {k.support, k.resistance, k.b, k.c}
           anchors == all \ {NoPrice}
           low == Min(anchors)
           high == Max(anchors)
<1>1. /\ k.support \in Int /\ k.resistance \in Int /\ k.b \in Int /\ k.c \in Int
      /\ k.start \in Int /\ k.end \in Int
  BY DEF Levels
<1>2. Numbers(all)
  <2>1. IsFiniteSet({k.support})
    BY FS_Singleton
  <2>2. IsFiniteSet({k.support} \cup {k.resistance})
    BY <2>1, FS_AddElement
  <2>3. IsFiniteSet(({k.support} \cup {k.resistance}) \cup {k.b})
    BY <2>2, FS_AddElement
  <2>4. IsFiniteSet((({k.support} \cup {k.resistance}) \cup {k.b}) \cup {k.c})
    BY <2>3, FS_AddElement
  <2>5. all = (({k.support} \cup {k.resistance}) \cup {k.b}) \cup {k.c}
    OBVIOUS
  <2>6. IsFiniteSet(all)
    BY <2>4, <2>5
  <2>7. \A x \in all : x \in Int
    BY <1>1
  <2> QED
    BY <2>6, <2>7 DEF Numbers
<1>3. anchors # {} /\ anchors \subseteq all
  BY <1>1
<1>4. k.c # NoPrice => k.c \in anchors
  OBVIOUS
<1>5. AlignedTo(bias, k) = [k EXCEPT !.support = low, !.resistance = high,
                                     !.invalidation = Rearmost(bias, anchors),
                                     !.confirmation = Foremost(bias, anchors)]
  BY DEF AlignedTo
<1> HIDE DEF all, anchors
<1>6. low \in Int /\ high \in Int /\ \A x \in anchors : low <= x /\ x <= high
  BY <1>2, <1>3, PartNumbers
<1>7. low <= high
  BY <1>3, <1>6, PartNumbers, <1>2
<1>8. /\ Rearmost(bias, anchors) = IF bias = "bullish" THEN low ELSE high
      /\ Foremost(bias, anchors) = IF bias = "bullish" THEN high ELSE low
  BY DEF Rearmost, Foremost, Either
<1> HIDE DEF low, high
<1> DEFINE made == AlignedTo(bias, k)
<1>9. made \in Levels
  <2>1. Rearmost(bias, anchors) \in Int /\ Foremost(bias, anchors) \in Int
    BY <1>6, <1>8
  <2> QED
    BY <1>5, <1>6, <2>1 DEF Levels
<1>10. /\ made.support = low /\ made.resistance = high /\ made.c = k.c
       /\ made.confirmation = IF bias = "bullish" THEN high ELSE low
  BY <1>5, <1>8 DEF Levels
<1> HIDE DEF made
<1>11. LastOf(bias, made) = IF k.c # NoPrice THEN k.c ELSE IF bias = "bullish" THEN low ELSE high
  BY <1>10 DEF LastOf, Either
<1>12. k.c # NoPrice => low <= k.c /\ k.c <= high
  BY <1>4, <1>6
<1> QED
  BY <1>1, <1>6, <1>7, <1>9, <1>10, <1>11, <1>12 DEF made

-----------------------------------------------------------------------------
(* Fibonacci zones *)

\* The Fibonacci levels of swings
FibLevels == [source : Int, price : Int]

\* A zone is of at least two levels: its strength is 300 or more.
ZoneSet == {z \in [center : Int, low : Int, high : Int, strength : Int] : z.strength >= 300}

\* Two levels or more make a zone.
LEMMA ZoneIn ==
    ASSUME NEW near, IsFiniteSet(near), near \subseteq FibLevels, ~(Cardinality(near) < 2)
    PROVE  ZoneOf(near) \in ZoneSet
<1> DEFINE prices == {l.price : l \in near}
           n == Cardinality(near)
           sources == {l.source : l \in near}
           swings == Cardinality(sources)
           f == [l \in near |-> l.price]
           g == [l \in near |-> l.source]
           total == SumFunctionOnSet(f, near)
           strong == 140 * n + (300 * swings) \div n
<1>1. n \in Nat /\ n >= 2
  BY FS_CardinalityType
<1>2. near # {}
  BY <1>1, FS_EmptySet
<1>3. \A l \in near : l.price \in Int /\ l.source \in Int
  BY DEF FibLevels
<1>4. Numbers(prices) /\ prices # {}
  <2>1. prices = {f[l] : l \in near}
    OBVIOUS
  <2> HIDE DEF f
  <2>2. IsFiniteSet(prices)
    BY <2>1, ImageFinite
  <2>3. \A p \in prices : p \in Int
    BY <1>3
  <2>4. prices # {}
    BY <1>2
  <2> QED
    BY <2>2, <2>3, <2>4 DEF Numbers
<1>5. swings \in Nat /\ swings >= 1
  <2>1. sources = {g[l] : l \in near}
    OBVIOUS
  <2> HIDE DEF g
  <2>2. IsFiniteSet(sources)
    BY <2>1, ImageFinite
  <2>3. sources # {}
    BY <1>2
  <2> HIDE DEF sources
  <2>4. swings \in Nat /\ swings # 0
    BY <2>2, <2>3, FS_CardinalityType, FS_EmptySet
  <2> QED
    BY <2>4
<1>6. total \in Int
  <2>1. \A l \in near : f[l] \in Int
    BY <1>3
  <2> HIDE DEF f
  <2> QED
    BY <2>1, SumType
<1> HIDE DEF n, swings, f, total
<1>7. strong \in Int /\ strong >= 300
  <2>1. CASE n = 2
    BY <1>5, <2>1
  <2>2. CASE n >= 3
    <3>1. (300 * swings) \div n \in Nat
      BY <1>1, <1>5
    <3> QED
      BY <1>1, <2>2, <3>1
  <2> QED
    BY <1>1, <2>1, <2>2
<1> HIDE DEF strong
<1>8. Min({1000, strong}) \in Int /\ Min({1000, strong}) >= 300
  <2>1. \A a \in Int, b \in Int : Min({a, b}) \in {a, b}
    BY PairNumbers
  <2>2. 1000 \in Int
    OBVIOUS
  <2>3. Min({1000, strong}) \in {1000, strong}
    BY <1>7, <2>1, <2>2
  <2> QED
    BY <1>7, <2>3
<1>9. Min(prices) \in Int /\ Max(prices) \in Int
  <2> HIDE DEF prices
  <2> QED
    BY <1>4, PartNumbers
<1> HIDE DEF prices
<1>10. (2 * total + n) \div (2 * n) \in Int
  BY <1>1, <1>6
<1>11. ZoneOf(near)
         = [center |-> (2 * total + n) \div (2 * n), low |-> Min(prices) - Min(prices) \div 200,
            high |-> Max(prices) + Max(prices) \div 200, strength |-> Min({1000, strong})]
  BY DEF ZoneOf, total, n, f, prices, swings, strong
<1>12. Min(prices) - Min(prices) \div 200 \in Int /\ Max(prices) + Max(prices) \div 200 \in Int
  BY <1>9
<1> DEFINE center == (2 * total + n) \div (2 * n)
           low == Min(prices) - Min(prices) \div 200
           high == Max(prices) + Max(prices) \div 200
           strength == Min({1000, strong})
<1>13. /\ center \in Int /\ low \in Int /\ high \in Int /\ strength \in Int /\ strength >= 300
       /\ ZoneOf(near) = [center |-> center, low |-> low, high |-> high, strength |-> strength]
  BY <1>8, <1>10, <1>11, <1>12
<1> HIDE DEF center, low, high, strength
<1> QED
  BY <1>13 DEF ZoneSet

\* What is gathered, level by level
Gathers(levels, sorted, n, g) ==
    g = [m \in 0..n |-> IF m = 0 THEN [used |-> {}, zones |-> <<>>]
                        ELSE Gather(levels, g[m - 1], sorted[m])]

\* Gathering from the lowest level up is defined.
LEMMA GathersExist ==
    ASSUME NEW levels, NEW sorted, NEW n \in Nat
    PROVE  \E g : Gathers(levels, sorted, n, g)
<1> DEFINE B == {m \in 0..n : ~\E g : Gathers(levels, sorted, m, g)}
           none == [used |-> {}, zones |-> <<>>]
<1> SUFFICES ASSUME B # {} PROVE FALSE
  OBVIOUS
<1>1. B \in SUBSET (0..n) /\ \A m \in B : m \in Int
  OBVIOUS
<1>2. IsFiniteSet(0..n)
  BY FS_Interval
<1>3. IsFiniteSet(B)
  BY <1>1, <1>2, FS_Subset
<1>4. PICK m \in B : \A k \in B : k >= m
  <2> HIDE DEF B
  <2> QED
    BY <1>1, <1>3, LeastNumber
<1>5. m \in 0..n /\ ~\E g : Gathers(levels, sorted, m, g)
  OBVIOUS
<1>6. CASE m = 0
  <2> DEFINE g == [k \in 0..0 |-> none]
  <2>1. g = [k \in 0..0 |-> IF k = 0 THEN none ELSE Gather(levels, g[k - 1], sorted[k])]
    <3>1. \A k \in 0..0 : k = 0
      OBVIOUS
    <3> QED
      BY <3>1
  <2>2. Gathers(levels, sorted, 0, g)
    BY <2>1 DEF Gathers
  <2> QED
    BY <1>5, <1>6, <2>2
<1>7. CASE m # 0
  <2>1. m - 1 \in 0..n /\ m - 1 \notin B
    BY <1>4, <1>5, <1>7
  <2>2. PICK h : Gathers(levels, sorted, m - 1, h)
    BY <2>1
  <2> DEFINE next == Gather(levels, h[m - 1], sorted[m])
             g == [k \in 0..m |-> IF k = m THEN next ELSE h[k]]
  <2>3. \A k \in 0..m - 1 : h[k] = IF k = 0 THEN none ELSE Gather(levels, h[k - 1], sorted[k])
    BY <2>2 DEF Gathers
  <2>4. \A k \in 0..m - 1 : g[k] = h[k]
    BY <1>5
  <2>5. \A k \in 0..m : g[k] = IF k = 0 THEN none ELSE Gather(levels, g[k - 1], sorted[k])
    <3> SUFFICES ASSUME NEW k \in 0..m
                 PROVE  g[k] = IF k = 0 THEN none ELSE Gather(levels, g[k - 1], sorted[k])
      OBVIOUS
    <3>1. CASE k = m
      <4>1. m - 1 \in 0..m - 1
        BY <1>5, <1>7
      <4>2. g[m - 1] = h[m - 1]
        BY <2>4, <4>1
      <4>3. g[m] = next
        BY <1>5
      <4> HIDE DEF g
      <4> QED
        BY <1>7, <3>1, <4>2, <4>3
    <3>2. CASE k # m
      <4>1. k \in 0..m - 1 /\ (k # 0 => k - 1 \in 0..m - 1)
        BY <1>5, <3>2
      <4> HIDE DEF g
      <4> QED
        BY <2>3, <2>4, <4>1
    <3> QED
      BY <3>1, <3>2
  <2>6. g = [k \in 0..m |-> g[k]]
    OBVIOUS
  <2> HIDE DEF g
  <2>7. Gathers(levels, sorted, m, g)
    BY <2>5, <2>6 DEF Gathers
  <2> QED
    BY <1>5, <2>7
<1> QED
  BY <1>6, <1>7

\* What is gathered are zones.
LEMMA GathersZones ==
    ASSUME NEW levels, IsFiniteSet(levels), levels \subseteq FibLevels, NEW sorted, NEW n \in Nat,
           NEW g, Gathers(levels, sorted, n, g)
    PROVE  g[n].zones \in Seq(ZoneSet)
<1> DEFINE B == {m \in 0..n : g[m].zones \notin Seq(ZoneSet)}
<1> SUFFICES ASSUME B # {} PROVE FALSE
  OBVIOUS
<1>1. B \in SUBSET (0..n) /\ \A m \in B : m \in Int
  OBVIOUS
<1>2. IsFiniteSet(0..n)
  BY FS_Interval
<1>3. IsFiniteSet(B)
  BY <1>1, <1>2, FS_Subset
<1>4. PICK m \in B : \A k \in B : k >= m
  <2> HIDE DEF B
  <2> QED
    BY <1>1, <1>3, LeastNumber
<1>5. m \in 0..n /\ g[m].zones \notin Seq(ZoneSet)
  OBVIOUS
<1>6. g[m] = IF m = 0 THEN [used |-> {}, zones |-> <<>>] ELSE Gather(levels, g[m - 1], sorted[m])
  BY <1>5 DEF Gathers
<1>7. CASE m = 0
  <2>1. g[m].zones = <<>>
    BY <1>6, <1>7
  <2>2. <<>> \in Seq(ZoneSet)
    OBVIOUS
  <2> QED
    BY <1>5, <2>1, <2>2
<1>8. CASE m # 0
  <2> DEFINE acc == g[m - 1]
             level == sorted[m]
             near == {l \in levels \ acc.used : 100 * Length(l.price - level.price) <= level.price}
  <2>1. acc.zones \in Seq(ZoneSet)
    BY <1>4, <1>5, <1>8
  <2>2. g[m] = Gather(levels, acc, level)
    BY <1>6, <1>8
  <2>3. near \subseteq levels
    OBVIOUS
  <2>4. IsFiniteSet(near) /\ near \subseteq FibLevels
    BY <2>3, FS_Subset
  <2>5. \/ g[m] = acc
        \/ /\ ~(Cardinality(near) < 2)
           /\ g[m] = [used |-> acc.used \cup near, zones |-> Append(acc.zones, ZoneOf(near))]
    BY <2>2 DEF Gather
  <2> HIDE DEF near, acc
  <2>6. g[m] = acc \/ g[m].zones \in Seq(ZoneSet)
    <3> SUFFICES ASSUME g[m] # acc PROVE g[m].zones \in Seq(ZoneSet)
      OBVIOUS
    <3>1. ZoneOf(near) \in ZoneSet
      BY <2>4, <2>5, ZoneIn
    <3>2. g[m].zones = Append(acc.zones, ZoneOf(near))
      BY <2>5
    <3> QED
      BY <2>1, <3>1, <3>2, AppendProperties
  <2> QED
    BY <1>5, <2>1, <2>6
<1> QED
  BY <1>7, <1>8

\* The zones of finitely many levels are zones.
LEMMA ZonesOfIn ==
    ASSUME NEW levels, IsFiniteSet(levels), levels \subseteq FibLevels
    PROVE  ZonesOf(levels) \in Seq(ZoneSet)
<1> DEFINE sorted == Ordered(levels, LAMBDA x, y : x.price < y.price
                                          \/ (x.price = y.price /\ x.source < y.source))
           n == Len(sorted)
           gathered == CHOOSE g : Gathers(levels, sorted, n, g)
<1>1. n \in Nat
  <2>1. Cardinality(levels) \in Nat
    BY FS_CardinalityType
  <2> QED
    BY <2>1 DEF Ordered
<1>2. ZonesOf(levels) = gathered[n].zones
  BY DEF ZonesOf, Gathers
<1> HIDE DEF sorted, n
<1>3. Gathers(levels, sorted, n, gathered)
  BY <1>1, GathersExist
<1> HIDE DEF gathered
<1> QED
  BY <1>1, <1>2, <1>3, GathersZones

\* A swing has finitely many levels.
LEMMA SwingLevelsIn ==
    ASSUME NEW pivots \in Seq(Pivots), NEW i \in Int, i \in DOMAIN pivots, i - 1 \in DOMAIN pivots
    PROVE  /\ IsFiniteSet(Range(SwingLevels(pivots, i)))
           /\ Range(SwingLevels(pivots, i)) \subseteq FibLevels
<1> DEFINE ratios == <<236, 382, 500, 618, 786, 1000, 1272, 1618>>
           p == pivots[i].price
           q == pivots[i - 1].price
           levels == [r \in DOMAIN ratios |-> [source |-> i, price |-> p - Times(ratios[r], p - q)]]
<1>1. p \in Int /\ q \in Int
  <2>1. pivots[i] \in Pivots /\ pivots[i - 1] \in Pivots
    OBVIOUS
  <2> QED
    BY <2>1 DEF Pivots
<1>2. SwingLevels(pivots, i) = IF p - q = 0 THEN <<>> ELSE levels
  BY DEF SwingLevels
<1>3. DOMAIN ratios = 1..8 /\ \A r \in DOMAIN ratios : ratios[r] \in Int
  <2>1. ratios \in Seq(Int) /\ DOMAIN ratios = 1..8 /\ Len(ratios) = 8
    OBVIOUS
  <2>2. \A t \in Seq(Int) : \A r \in 1..Len(t) : t[r] \in Int
    OBVIOUS
  <2> HIDE DEF ratios
  <2> QED
    BY <2>1, <2>2
<1> HIDE DEF p, q, ratios
<1>4. \A r \in DOMAIN ratios : levels[r] \in FibLevels
  <2> SUFFICES ASSUME NEW r \in DOMAIN ratios PROVE levels[r] \in FibLevels
    OBVIOUS
  <2>1. ratios[r] \in Int
    BY <1>3
  <2>0. p - q \in Int
    BY <1>1
  <2>2. Times(ratios[r], p - q) \in Int
    BY <2>0, <2>1, TimesIsInt
  <2> QED
    BY <1>1, <2>2 DEF FibLevels
<1>5. Range(<<>>) = {}
  BY DEF Range
<1>6. Range(levels) = {levels[r] : r \in DOMAIN ratios}
  BY DEF Range
<1> HIDE DEF levels
<1>7. \A k \in Nat : IsFiniteSet(1..k)
  BY FS_Interval
<1>8. IsFiniteSet(DOMAIN ratios)
  BY <1>3, <1>7
<1>9. IsFiniteSet({levels[r] : r \in DOMAIN ratios})
  BY <1>8, ImageFinite
<1>10. IsFiniteSet({})
  BY FS_EmptySet
<1>11. CASE p - q = 0
  BY <1>2, <1>5, <1>10, <1>11
<1>12. CASE p - q # 0
  BY <1>2, <1>4, <1>6, <1>9, <1>12
<1> QED
  BY <1>11, <1>12

\* So have the last three swings of a chart.
LEMMA FoundLevelsIn ==
    ASSUME NEW pivots \in Seq(Pivots), Len(pivots) >= 4
    PROVE  LET n == Len(pivots)
               levels == UNION {Range(SwingLevels(pivots, i)) : i \in n - 2..n}
           IN  IsFiniteSet(levels) /\ levels \subseteq FibLevels
<1> DEFINE n == Len(pivots)
           L(i) == Range(SwingLevels(pivots, i))
<1>1. n \in Nat /\ n >= 4 /\ DOMAIN pivots = 1..n
  OBVIOUS
<1>2. \A i \in n - 2..n : i \in Int /\ i \in DOMAIN pivots /\ i - 1 \in DOMAIN pivots
  BY <1>1
<1>3. \A i \in n - 2..n : IsFiniteSet(L(i)) /\ L(i) \subseteq FibLevels
  BY <1>2, SwingLevelsIn
<1> HIDE DEF L
<1>4. n - 2..n = {n - 2, n - 1, n}
  BY <1>1
<1>5. UNION {L(i) : i \in n - 2..n} = (L(n - 2) \cup L(n - 1)) \cup L(n)
  BY <1>4
<1>6. n - 2 \in n - 2..n /\ n - 1 \in n - 2..n /\ n \in n - 2..n
  BY <1>1
<1>7. IsFiniteSet(L(n - 2) \cup L(n - 1))
  BY <1>3, <1>6, FS_Union
<1>8. IsFiniteSet((L(n - 2) \cup L(n - 1)) \cup L(n))
  BY <1>3, <1>6, <1>7, FS_Union
<1>9. UNION {L(i) : i \in n - 2..n} \subseteq FibLevels
  BY <1>3
<1> QED
  BY <1>5, <1>8, <1>9 DEF L

\* The zones of a chart are a list of zones.
LEMMA ZonesIn ==
    ASSUME NEW pivots \in Seq(Pivots)
    PROVE  Zones(pivots) \in Seq(ZoneSet)
<1> DEFINE n == Len(pivots)
           levels == UNION {Range(SwingLevels(pivots, i)) : i \in n - 2..n}
           found == ZonesOf(levels)
           order == Ordered(DOMAIN found,
                        LAMBDA i, j : found[i].strength > found[j].strength
                                      \/ (found[i].strength = found[j].strength /\ i < j))
<1>1. Zones(pivots) = IF n < 4 THEN <<>> ELSE [i \in DOMAIN order |-> found[order[i]]]
  BY DEF Zones
<1>2. n \in Nat
  OBVIOUS
<1>3. CASE n < 4
  <2>1. <<>> \in Seq(ZoneSet)
    OBVIOUS
  <2> QED
    BY <1>1, <1>3, <2>1
<1>4. CASE n >= 4
  <2>1. IsFiniteSet(levels) /\ levels \subseteq FibLevels
    BY <1>4, FoundLevelsIn
  <2> HIDE DEF levels
  <2>2. found \in Seq(ZoneSet)
    BY <2>1, ZonesOfIn
  <2> HIDE DEF found
  <2> DEFINE S == DOMAIN found
             R == {p \in S \X S : found[p[1]].strength > found[p[2]].strength
                                  \/ (found[p[1]].strength = found[p[2]].strength /\ p[1] < p[2])}
  <2>3. S = 1..Len(found) /\ Len(found) \in Nat
    BY <2>2
  <2>4. IsFiniteSet(S)
    BY <2>3, FS_Interval
  <2>5. \A i \in S : i \in Int /\ found[i] \in ZoneSet /\ found[i].strength \in Int
    BY <2>2, <2>3 DEF ZoneSet
  <2>6. \A i, j \in S : <<i, j>> \in R 
          <=> \/ found[i].strength > found[j].strength
              \/ found[i].strength = found[j].strength /\ i < j
    OBVIOUS
  <2>7. \A i \in S : Before(R, S, i) =
            {j \in S : found[j].strength > found[i].strength
                       \/ (found[j].strength = found[i].strength /\ j < i)}
    BY <2>6 DEF Before
  <2> HIDE DEF S, R
  <2>8. Orders(R, S)
    <3>1. \A i \in S : <<i, i>> \notin R
      BY <2>5, <2>6
    <3>2. ASSUME NEW i \in S, NEW j \in S PROVE i = j \/ <<i, j>> \in R \/ <<j, i>> \in R
      <4>1. /\ i \in Int /\ j \in Int
            /\ found[i].strength \in Int /\ found[j].strength \in Int
        BY <2>5
      <4>2. \/ found[i].strength > found[j].strength \/ found[j].strength > found[i].strength
            \/ found[i].strength = found[j].strength /\ (i < j \/ j < i \/ i = j)
        BY <4>1
      <4>3. <<i, j>> \in R
              <=> \/ found[i].strength > found[j].strength
                  \/ found[i].strength = found[j].strength /\ i < j
        BY <2>6
      <4>4. <<j, i>> \in R
              <=> \/ found[j].strength > found[i].strength
                  \/ found[j].strength = found[i].strength /\ j < i
        BY <2>6
      <4> QED
        BY <4>2, <4>3, <4>4
    <3>3. \A i, j, k \in S : <<i, j>> \in R /\ <<j, k>> \in R => <<i, k>> \in R
      BY <2>5, <2>6
    <3> QED
      BY <3>1, <3>2, <3>3 DEF Orders
  <2>9. \A m \in 1..Cardinality(S) : \E i \in S : Cardinality(Before(R, S, i)) = m - 1
    BY <2>4, <2>8, NthExists
  <2>10. Cardinality(S) \in Nat
    BY <2>4, FS_CardinalityType
  <2>11. \A m \in 1..Cardinality(S) : \E i \in S :
            Cardinality({j \in S : found[j].strength > found[i].strength
                                   \/ (found[j].strength = found[i].strength /\ j < i)}) = m - 1
    BY <2>7, <2>9
  <2>12. DOMAIN order = 1..Cardinality(S) /\ \A m \in 1..Cardinality(S) : order[m] \in S
    BY <2>11 DEF Ordered, S
  <2> HIDE DEF order
  <2>13. [i \in DOMAIN order |-> found[order[i]]] \in [1..Cardinality(S) -> ZoneSet]
    BY <2>5, <2>12
  <2> QED
    BY <1>1, <1>4, <2>10, <2>13
<1> QED
  BY <1>2, <1>3, <1>4

\* The zones an entry may move to
NearOf(entry, zones) == {i \in DOMAIN zones : 1000 * Length(zones[i].center - entry) <= 15 * entry}

\* An entry moves to the first zone near it, or stays: every zone is strong enough.
LEMMA RefinedIs ==
    ASSUME NEW zones \in Seq(ZoneSet), NEW entry \in Int
    PROVE  LET near == NearOf(entry, zones)
           IN  /\ Numbers(near)
               /\ near = {} => Refined(entry, zones) = entry
               /\ near # {} => /\ Min(near) \in near /\ \A i \in near : Min(near) <= i
                               /\ Refined(entry, zones) = zones[Min(near)].center
               /\ Refined(entry, zones) \in Int
               /\ \A i \in DOMAIN zones : zones[i].center \in Int
<1> DEFINE near == NearOf(entry, zones)
           Near(z) == 1000 * Length(z.center - entry) <= 15 * entry
<1>1. near \in SUBSET (DOMAIN zones)
  BY DEF NearOf
<1>2. Numbers(near)
  BY <1>1, Indices
<1>3. \A i \in DOMAIN zones : zones[i].center \in Int /\ zones[i].strength >= 300
  BY DEF ZoneSet
<1>4. near # {} => Min(near) \in near /\ \A i \in near : Min(near) <= i
  BY <1>2, MinOf
<1>5. SomeZone(zones, Near) <=> near # {}
  BY DEF SomeZone, NearOf
<1>6. FirstZone(zones, Near) = zones[Min(near)]
  BY DEF FirstZone, NearOf
<1>7. Refined(entry, zones) = IF SomeZone(zones, Near) /\ FirstZone(zones, Near).strength >= 300
                              THEN FirstZone(zones, Near).center ELSE entry
  BY DEF Refined
<1> HIDE DEF near, Near
<1> QED
  BY <1>1, <1>2, <1>3, <1>4, <1>5, <1>6, <1>7 DEF near

\* Two zones, one of which is near to only one of two entries, are in the order of
\* these entries.
LEMMA NearestKeepOrder ==
    ASSUME NEW a \in Int, NEW b \in Int, a <= b, NEW x \in Int, NEW y \in Int,
           1000 * Length(x - a) <= 15 * a, 1000 * Length(y - b) <= 15 * b,
           1000 * Length(x - b) > 15 * b \/ 1000 * Length(y - a) > 15 * a
    PROVE  x <= y
<1> SUFFICES ASSUME x > y PROVE FALSE
  OBVIOUS
<1>1. 1000 * (x - a) <= 15 * a /\ 1000 * (a - x) <= 15 * a
  BY DEF Length
<1>2. 1000 * (y - b) <= 15 * b /\ 1000 * (b - y) <= 15 * b
  BY DEF Length
<1>3. CASE 1000 * Length(x - b) > 15 * b
  <2>1. 1000 * (x - b) > 15 * b \/ 1000 * (b - x) > 15 * b
    BY <1>3 DEF Length
  <2> QED
    BY <1>1, <1>2, <2>1
<1>4. CASE 1000 * Length(y - a) > 15 * a
  <2>1. 1000 * (y - a) > 15 * a \/ 1000 * (a - y) > 15 * a
    BY <1>4 DEF Length
  <2> QED
    BY <1>1, <1>2, <2>1
<1> QED
  BY <1>3, <1>4

\* Moving entries into zones does not change their order
\* (_refine_entry_with_confluence): the lower entry is not moved past the higher one.
LEMMA RefinedGrows ==
    ASSUME NEW zones \in Seq(ZoneSet), NEW a \in Int, NEW b \in Int, a <= b
    PROVE  Refined(a, zones) <= Refined(b, zones)
<1> DEFINE A == NearOf(a, zones)
           B == NearOf(b, zones)
           c == [i \in DOMAIN zones |-> zones[i].center]
<1>1. /\ A = {} => Refined(a, zones) = a
      /\ A # {} => Min(A) \in A /\ (\A i \in A : Min(A) <= i) /\ Refined(a, zones) = zones[Min(A)].center
      /\ Numbers(A)
  BY RefinedIs
<1>2. /\ B = {} => Refined(b, zones) = b
      /\ B # {} => Min(B) \in B /\ (\A i \in B : Min(B) <= i) /\ Refined(b, zones) = zones[Min(B)].center
      /\ Numbers(B)
  BY RefinedIs
<1>3. \A i \in DOMAIN zones : c[i] = zones[i].center /\ c[i] \in Int
  BY RefinedIs
<1>4. \A i \in A : i \in DOMAIN zones /\ 1000 * Length(c[i] - a) <= 15 * a
  BY <1>3 DEF NearOf
<1>5. \A i \in B : i \in DOMAIN zones /\ 1000 * Length(c[i] - b) <= 15 * b
  BY <1>3 DEF NearOf
<1>6. \A i \in DOMAIN zones : i \notin A => 1000 * Length(c[i] - a) > 15 * a
  <2>1. \A i \in DOMAIN zones : Length(c[i] - a) \in Int
    BY <1>3 DEF Length
  <2> QED
    BY <1>3, <2>1 DEF NearOf
<1>7. \A i \in DOMAIN zones : i \notin B => 1000 * Length(c[i] - b) > 15 * b
  <2>1. \A i \in DOMAIN zones : Length(c[i] - b) \in Int
    BY <1>3 DEF Length
  <2> QED
    BY <1>3, <2>1 DEF NearOf
<1> DEFINE i == Min(A)
           j == Min(B)
<1> HIDE DEF A, B, c
<1>8. CASE A = {} /\ B = {}
  BY <1>1, <1>2, <1>8
<1>9. CASE A # {} /\ B = {}
  <2>1. i \in A /\ i \in DOMAIN zones /\ i \notin B /\ c[i] \in Int
    BY <1>1, <1>3, <1>4, <1>9
  <2>2. 1000 * Length(c[i] - a) <= 15 * a /\ 1000 * Length(c[i] - b) > 15 * b
    BY <1>4, <1>7, <2>1
  <2>3. Refined(a, zones) = c[i] /\ Refined(b, zones) = b
    BY <1>1, <1>2, <1>3, <1>9, <2>1
  <2> HIDE DEF i
  <2> QED
    BY <2>1, <2>2, <2>3 DEF Length
<1>10. CASE A = {} /\ B # {}
  <2>1. j \in B /\ j \in DOMAIN zones /\ j \notin A /\ c[j] \in Int
    BY <1>2, <1>3, <1>5, <1>10
  <2>2. 1000 * Length(c[j] - b) <= 15 * b /\ 1000 * Length(c[j] - a) > 15 * a
    BY <1>5, <1>6, <2>1
  <2>3. Refined(b, zones) = c[j] /\ Refined(a, zones) = a
    BY <1>1, <1>2, <1>3, <1>10, <2>1
  <2> HIDE DEF j
  <2> QED
    BY <2>1, <2>2, <2>3 DEF Length
<1>11. CASE A # {} /\ B # {}
  <2>1. i \in A /\ i \in DOMAIN zones /\ c[i] \in Int /\ j \in B /\ j \in DOMAIN zones /\ c[j] \in Int
    BY <1>1, <1>2, <1>3, <1>4, <1>5, <1>11
  <2>2. 1000 * Length(c[i] - a) <= 15 * a /\ 1000 * Length(c[j] - b) <= 15 * b
    BY <1>4, <1>5, <2>1
  <2>3. i \in Int /\ j \in Int
    BY <1>1, <1>2, <2>1 DEF Numbers
  <2>4. i < j => i \notin B
    BY <1>2, <1>11, <2>3
  <2>5. j < i => j \notin A
    BY <1>1, <1>11, <2>3
  <2>6. i < j => 1000 * Length(c[i] - b) > 15 * b
    BY <1>7, <2>1, <2>4
  <2>7. j < i => 1000 * Length(c[j] - a) > 15 * a
    BY <1>6, <2>1, <2>5
  <2>8. Refined(a, zones) = c[i] /\ Refined(b, zones) = c[j]
    BY <1>1, <1>2, <1>3, <1>11, <2>1
  <2> DEFINE x == c[i]
             y == c[j]
  <2> HIDE DEF i, j, x, y
  <2>9. x <= y
    <3>1. CASE i = j
      BY <2>1, <3>1 DEF x, y
    <3>2. CASE i < j
      <4>1. /\ x \in Int /\ y \in Int
            /\ 1000 * Length(x - a) <= 15 * a /\ 1000 * Length(y - b) <= 15 * b
            /\ 1000 * Length(x - b) > 15 * b \/ 1000 * Length(y - a) > 15 * a
        BY <2>1, <2>2, <2>6, <3>2 DEF x, y
      <4> QED
        BY <4>1, NearestKeepOrder
    <3>3. CASE j < i
      <4>1. /\ x \in Int /\ y \in Int
            /\ 1000 * Length(x - a) <= 15 * a /\ 1000 * Length(y - b) <= 15 * b
            /\ 1000 * Length(x - b) > 15 * b \/ 1000 * Length(y - a) > 15 * a
        BY <2>1, <2>2, <2>7, <3>3 DEF x, y
      <4> QED
        BY <4>1, NearestKeepOrder
    <3> QED
      BY <2>3, <3>1, <3>2, <3>3
  <2> QED
    BY <2>8, <2>9 DEF x, y
<1> QED
  BY <1>8, <1>9, <1>10, <1>11

\* What a zone adds to a score is an integer.
LEMMA ZoneScoreIn ==
    ASSUME NEW zones \in Seq(ZoneSet), NEW entry \in Int
    PROVE  ZoneScore(entry, zones) \in Int
<1> DEFINE Holds(z) == z.low <= entry /\ entry <= z.high
           held == {i \in DOMAIN zones : Holds(zones[i])}
<1>1. held \in SUBSET (DOMAIN zones)
  OBVIOUS
<1>2. Numbers(held)
  <2> HIDE DEF held
  <2> QED
    BY <1>1, Indices
<1>3. SomeZone(zones, Holds) <=> held # {}
  BY DEF SomeZone
<1>4. FirstZone(zones, Holds) = zones[Min(held)]
  BY DEF FirstZone
<1>5. \A i \in DOMAIN zones : zones[i].strength \in Int
  BY DEF ZoneSet
<1>6. \/ SomeZone(zones, Holds) /\ ZoneScore(entry, zones) = FirstZone(zones, Holds).strength
      \/ ZoneScore(entry, zones) \in {300, 0}
  BY DEF ZoneScore
<1> HIDE DEF held, Holds
<1>7. held # {} => Min(held) \in held
  BY <1>2, MinOf
<1> QED
  BY <1>1, <1>3, <1>4, <1>5, <1>6, <1>7

-----------------------------------------------------------------------------
(* Plans and projections *)

\* The levels of a plan, as its scenarios need them
IsPlanned(position, k) ==
    /\ position.structure \notin Triangles => position.bias \in Directions
    /\ k \in Levels
    /\ position.structure \in Triangles => k.support <= k.resistance
    /\ position.structure \in Correctives =>
           /\ LastOf(position.bias, k) \in Int
           /\ IF position.bias = "bullish" THEN LastOf(position.bias, k) <= k.confirmation
              ELSE k.confirmation <= LastOf(position.bias, k)

\* The levels of every report are those of a plan.
LEMMA PlannedIn ==
    ASSUME NEW c, IsCount(c), NEW wave \in Found, NEW pivots \in Seq(Pivots), pivots # <<>>,
           NEW price \in Int, NEW atr \in Int
    PROVE  IsPlanned(Position(c, wave),
                     PlanLevels(Position(c, wave),
                                LevelsAround(KeyLevels(c.type, c.w), pivots, wave, price, atr)))
<1> DEFINE position == Position(c, wave)
           key == KeyLevels(c.type, c.w)
           around == LevelsAround(key, pivots, wave, price, atr)
           k == PlanLevels(position, around)
<1>1. /\ position.structure \notin Triangles => position.bias \in Directions
      /\ position.structure \in Triangles => c.type \in Triangles
      /\ position.structure \in Correctives => c.type \in Plain \cup {"IMPULSE"}
  BY PositionIn
<1>2. /\ key \in Levels
      /\ c.type \in Triangles => key.support <= key.resistance
      /\ c.type \in Plain \cup {"IMPULSE"} => key.support # key.resistance
  BY KeyLevelsIn DEF IsCount
<1> HIDE DEF key
<1>3. /\ around \in Levels
      /\ key.support <= key.resistance => around.support <= around.resistance
      /\ key.support # key.resistance => around.support # around.resistance
  BY <1>2, LevelsAroundIn
<1> HIDE DEF position, around
<1>4. position.structure \notin Correctives \/ position.structure \notin Triangles
  BY DEF Correctives, Triangles, Flats
<1>5. CASE position.structure \in Correctives
  <2>1. k = AlignedTo(position.bias, around)
    BY <1>5 DEF PlanLevels
  <2>2. position.bias \in Directions /\ around.support # around.resistance
    BY <1>1, <1>2, <1>3, <1>4, <1>5
  <2> DEFINE aligned == AlignedTo(position.bias, around)
  <2>3. /\ aligned \in Levels /\ LastOf(position.bias, aligned) \in Int
        /\ position.bias = "bullish" => LastOf(position.bias, aligned) <= aligned.confirmation
        /\ position.bias # "bullish" => aligned.confirmation <= LastOf(position.bias, aligned)
    BY <1>3, <2>2, AlignedIn
  <2> HIDE DEF aligned
  <2>4. k = aligned
    BY <2>1 DEF aligned
  <2> HIDE DEF k
  <2>5. IsPlanned(position, k)
    BY <1>4, <1>5, <2>2, <2>3, <2>4 DEF IsPlanned
  <2> QED
    BY <2>5 DEF k, position, around, key
<1>6. CASE position.structure \notin Correctives
  <2>1. k = around
    BY <1>6 DEF PlanLevels
  <2> HIDE DEF k
  <2>2. IsPlanned(position, k)
    BY <1>1, <1>2, <1>3, <1>6, <2>1 DEF IsPlanned
  <2> QED
    BY <2>2 DEF k, position, around, key
<1> QED
  BY <1>5, <1>6

\* The tighter stop is an integer.
LEMMA TighterIn ==
    ASSUME NEW bias, NEW structural \in Int, NEW entry \in Int, NEW pivots \in Seq(Pivots),
           NEW atr \in Int
    PROVE  TighterStop(bias, structural, entry, pivots, atr) \in Int
<1> DEFINE type == Either(bias, "L", "H")
           T == {j \in DOMAIN pivots : pivots[j].type = type /\ Further(bias, entry, pivots[j].price)}
           behind == {pivots[i].price : i \in T}
           buffer == Times(300, atr)
           swing == Either(bias, Max(behind) - buffer, Min(behind) + buffer)
<1>1. TighterStop(bias, structural, entry, pivots, atr)
        = IF behind = {} THEN structural ELSE NoLooser(bias, swing, structural)
  BY DEF TighterStop
<1>2. T \in SUBSET (DOMAIN pivots)
  OBVIOUS
<1> HIDE DEF T
<1>3. Numbers(behind)
  BY <1>2, PricesIn
<1> HIDE DEF behind
<1>4. behind # {} => Min(behind) \in Int /\ Max(behind) \in Int
  BY <1>3, PartNumbers
<1>5. buffer \in Int
  <2>1. \A r \in Int : Times(r, atr) \in Int
    BY TimesIsInt
  <2>2. 300 \in Int
    OBVIOUS
  <2> QED
    BY <2>1, <2>2
<1> HIDE DEF buffer
<1>6. behind # {} => swing \in Int
  BY <1>4, <1>5 DEF Either
<1> HIDE DEF swing
<1>7. swing \in Int => NoLooser(bias, swing, structural) \in Int
  BY FarNear DEF NoLooser
<1> QED
  BY <1>1, <1>6, <1>7

\* The greatest of three integers is an integer.
LEMMA TripleMax ==
    ASSUME NEW a \in Int, NEW b \in Int, NEW c \in Int
    PROVE  Max({a, b, c}) \in Int
<1> DEFINE S == {a, b, c}
<1>1. IsFiniteSet({a}) /\ IsFiniteSet({a} \cup {b}) /\ IsFiniteSet(({a} \cup {b}) \cup {c})
  BY FS_Singleton, FS_AddElement
<1>2. S = ({a} \cup {b}) \cup {c} /\ S # {} /\ \A x \in S : x \in Int
  OBVIOUS
<1> HIDE DEF S
<1>3. Numbers(S)
  BY <1>1, <1>2 DEF Numbers
<1>4. Max(S) \in S
  BY <1>2, <1>3, MaxOf
<1> QED
  BY <1>2, <1>4 DEF S

\* The members of a list of three integers
LEMMA TripleIn ==
    ASSUME NEW t \in Seq(Int), Len(t) = 3
    PROVE  \A i \in 1..3 : t[i] \in Int
<1>1. \A i \in 1..Len(t) : t[i] \in Int
  BY ElementOfSeq
<1> QED
  BY <1>1

\* Three levels at ratios of a step
LEMMA ThreeLevels ==
    ASSUME NEW rs \in Seq(Int), Len(rs) = 3, NEW base \in Int, NEW sign \in Int, NEW step \in Int
    PROVE  [i \in 1..3 |-> base + sign * Times(rs[i], step)] \in Seq(Int)
<1>1. \A i \in 1..3 : Times(rs[i], step) \in Int
  <2>1. \A i \in 1..3 : rs[i] \in Int
    OBVIOUS
  <2> QED
    BY <2>1, TimesIsInt
<1>2. \A i \in 1..3 : base + sign * Times(rs[i], step) \in Int
  BY <1>1
<1> DEFINE v(i) == base + sign * Times(rs[i], step)
<1> HIDE DEF v
<1>3. [i \in 1..3 |-> v(i)] \in [1..3 -> Int]
  BY <1>2 DEF v
<1>4. [i \in 1..3 |-> v(i)] \in Seq(Int)
  BY <1>3
<1> QED
  BY <1>4 DEF v

\* The targets of a projection are integers.
LEMMA DirectedIn ==
    ASSUME NEW bias, NEW entry \in Int, NEW targets \in Seq(Int), NEW stop \in Int, NEW k \in Levels
    PROVE  DirectedTargets(bias, entry, targets, stop, k) \in Seq(Int)
<1> DEFINE ahead == {i \in DOMAIN targets : Further(bias, targets[i], entry)}
           Nearer(i, j) == \/ Further(bias, targets[j], targets[i])
                           \/ targets[i] = targets[j] /\ i < j
           order == Ordered(ahead, Nearer)
           step == Max({Length(entry - stop), Length(k.resistance - k.support) \div 2,
                        entry \div 100})
           rs == <<618, 1000, 1272>>
           sign == Either(bias, 1, -1)
<1>1. DirectedTargets(bias, entry, targets, stop, k)
        = IF ahead # {} THEN [n \in DOMAIN order |-> targets[order[n]]]
          ELSE [i \in 1..3 |-> entry + sign * Times(rs[i], step)]
  BY DEF DirectedTargets
<1>2. CASE ahead = {}
  <2>1. k.resistance \in Int /\ k.support \in Int
    BY DEF Levels
  <2>2. /\ Length(entry - stop) \in Int /\ Length(k.resistance - k.support) \in Int
        /\ entry \div 100 \in Int
    BY <2>1 DEF Length
  <2>3. Length(k.resistance - k.support) \div 2 \in Int
    BY <2>2
  <2>4. step \in Int
    BY <2>2, <2>3, TripleMax
  <2>5. rs \in Seq(Int) /\ Len(rs) = 3
    OBVIOUS
  <2>6. sign \in Int
    BY DEF Either
  <2> HIDE DEF rs, sign, step
  <2>7. [i \in 1..3 |-> entry + sign * Times(rs[i], step)] \in Seq(Int)
    BY <2>4, <2>5, <2>6, ThreeLevels
  <2> QED
    BY <1>1, <1>2, <2>7
<1>3. CASE ahead # {}
  <2> DEFINE R == {p \in ahead \X ahead : Nearer(p[1], p[2])}
  <2>1. ahead \in SUBSET (DOMAIN targets)
    OBVIOUS
  <2>2. Numbers(ahead)
    <3> HIDE DEF ahead
    <3> QED
      BY <2>1, Indices
  <2>3. \A i \in ahead : i \in Int /\ targets[i] \in Int
    BY <2>1
  <2> HIDE DEF ahead
  <2>4. \A i, j \in ahead : <<i, j>> \in R <=> Nearer(i, j)
    OBVIOUS
  <2>5. \A i \in ahead : Before(R, ahead, i) = {j \in ahead : Nearer(j, i)}
    BY <2>4 DEF Before
  <2> HIDE DEF R
  <2>6. Orders(R, ahead)
    <3>1. \A i \in ahead : ~Nearer(i, i)
      BY <2>3 DEF Further
    <3>2. \A i, j \in ahead : i = j \/ Nearer(i, j) \/ Nearer(j, i)
      BY <2>3 DEF Further
    <3>3. \A i, j, m \in ahead : Nearer(i, j) /\ Nearer(j, m) => Nearer(i, m)
      BY <2>3 DEF Further
    <3> HIDE DEF Nearer
    <3> QED
      BY <2>4, <3>1, <3>2, <3>3 DEF Orders
  <2>7. \A n \in 1..Cardinality(ahead) : \E i \in ahead : Cardinality(Before(R, ahead, i)) = n - 1
    BY <2>2, <2>6, NthExists DEF Numbers
  <2>8. \A n \in 1..Cardinality(ahead) : \E i \in ahead :
            Cardinality({j \in ahead : Nearer(j, i)}) = n - 1
    <3> HIDE DEF Nearer
    <3> QED
      BY <2>5, <2>7
  <2>9. DOMAIN order = 1..Cardinality(ahead) /\ \A n \in 1..Cardinality(ahead) : order[n] \in ahead
    <3> HIDE DEF Nearer
    <3> QED
      BY <2>8 DEF Ordered
  <2>10. Cardinality(ahead) \in Nat
    BY <2>2, FS_CardinalityType DEF Numbers
  <2> HIDE DEF order
  <2> DEFINE made == [n \in DOMAIN order |-> targets[order[n]]]
  <2>11. made \in [1..Cardinality(ahead) -> Int]
    BY <2>3, <2>9
  <2>12. DirectedTargets(bias, entry, targets, stop, k) = made
    BY <1>1, <1>3
  <2> HIDE DEF made
  <2>13. made \in Seq(Int)
    BY <2>10, <2>11
  <2> QED
    BY <2>12, <2>13
<1> QED
  BY <1>2, <1>3

\* A projection, as the scenarios need it
IsProjection(p, k) ==
    /\ p.confirmation = k.confirmation
    /\ p.confirmation \in Int /\ p.invalidation \in Int /\ p.stop \in Int
    /\ p.targets \in Seq(Int)

\* Every position is projected: its confirmation is that of its levels.
LEMMA ProjectionIn ==
    ASSUME NEW position, NEW k, k \in Levels, NEW pivots \in Seq(Pivots), NEW atr \in Int
    PROVE  IsProjection(Projection(position, k, pivots, atr), k)
<1>1. /\ k.support \in Int /\ k.resistance \in Int /\ k.invalidation \in Int
      /\ k.confirmation \in Int /\ k.start \in Int /\ k.end \in Int
  BY DEF Levels
<1> DEFINE bias == position.bias
           stop == TighterStop(bias, k.invalidation, k.confirmation, pivots, atr)
<1>2. stop \in Int
  BY <1>1, TighterIn
<1>3. IsProjection([expected |-> "neutral", confirmation |-> k.confirmation,
                    invalidation |-> k.invalidation, stop |-> NoPrice,
                    targets |-> <<k.resistance, k.support>>], k)
  <2>1. <<k.resistance, k.support>> \in Seq(Int)
    BY <1>1
  <2> QED
    BY <1>1, <2>1 DEF IsProjection, NoPrice
<1>4. IsProjection(CorrectiveProjection(bias, k, pivots, atr), k)
  <2> DEFINE move == k.confirmation - k.end
             rs == <<618, 1000, 1272>>
             extensions == [i \in 1..3 |-> k.confirmation + Times(rs[i], move)]
             directed == DirectedTargets(bias, k.confirmation, extensions, stop, k)
  <2>1. move \in Int
    BY <1>1
  <2>2. rs \in Seq(Int) /\ Len(rs) = 3
    OBVIOUS
  <2>3. CorrectiveProjection(bias, k, pivots, atr)
          = [expected |-> bias, confirmation |-> k.confirmation, invalidation |-> k.invalidation,
             stop |-> stop, targets |-> directed]
    BY DEF CorrectiveProjection
  <2> HIDE DEF rs, move, stop
  <2>4. \A i \in 1..3 : Times(rs[i], move) \in Int
    <3>1. \A i \in 1..3 : rs[i] \in Int
      BY <2>2, TripleIn
    <3> QED
      BY <2>1, <3>1, TimesIsInt
  <2>5. extensions \in [1..3 -> Int]
    BY <1>1, <2>4
  <2>6. extensions \in Seq(Int)
    BY <2>5
  <2> HIDE DEF extensions
  <2>7. directed \in Seq(Int)
    BY <1>1, <1>2, <2>6, DirectedIn
  <2> HIDE DEF directed
  <2> QED
    BY <1>1, <1>2, <2>3, <2>7 DEF IsProjection
<1>5. IsProjection(TrendProjection(bias, k, pivots, atr), k)
  <2> DEFINE move == k.end - k.start
             rs == <<382, 618, 786>>
             back == [i \in 1..3 |-> k.end - Times(rs[i], move)]
  <2>1. move \in Int
    BY <1>1
  <2>2. rs \in Seq(Int) /\ Len(rs) = 3
    OBVIOUS
  <2>3. TrendProjection(bias, k, pivots, atr)
          = [expected |-> Opposite(bias), confirmation |-> k.confirmation,
             invalidation |-> k.invalidation, stop |-> stop, targets |-> back]
    BY DEF TrendProjection
  <2> HIDE DEF rs, move, stop
  <2>4. \A i \in 1..3 : Times(rs[i], move) \in Int
    <3>1. \A i \in 1..3 : rs[i] \in Int
      BY <2>2, TripleIn
    <3> QED
      BY <2>1, <3>1, TimesIsInt
  <2>5. back \in [1..3 -> Int]
    BY <1>1, <2>4
  <2>6. back \in Seq(Int)
    BY <2>5
  <2> HIDE DEF back
  <2> QED
    BY <1>1, <1>2, <2>3, <2>6 DEF IsProjection
<1> HIDE DEF stop, bias
<1>6. \/ Projection(position, k, pivots, atr)
           = [expected |-> "neutral", confirmation |-> k.confirmation,
              invalidation |-> k.invalidation, stop |-> NoPrice,
              targets |-> <<k.resistance, k.support>>]
      \/ Projection(position, k, pivots, atr) = CorrectiveProjection(bias, k, pivots, atr)
      \/ Projection(position, k, pivots, atr) = TrendProjection(bias, k, pivots, atr)
  BY DEF Projection, bias
<1> QED
  BY <1>3, <1>4, <1>5, <1>6

-----------------------------------------------------------------------------
(* Scenarios *)

\* The names of scenarios
ScenarioNames ==
    {"Main Bullish", "Main Bearish", "Alternate Bullish", "Alternate Bearish",
     "Main Corrective Pullback", "Main Corrective Rebound", "Bullish Breakout",
     "Bearish Breakdown", "InProgress Wave"}

\* Scenarios of any prices
Trades == [name : ScenarioNames, bias : Directions, entry : Int, stop : Int,
           invalidation : Int, targets : Seq(Int)]

\* The targets on the winning side are integers.
LEMMA WinningIn ==
    ASSUME NEW bias, NEW entry, NEW targets \in Seq(Int)
    PROVE  WinningTargets(bias, entry, targets) \in Seq(Int)
<1> DEFINE T == {i \in DOMAIN targets : Further(bias, targets[i], entry)}
<1>1. T \in SUBSET (DOMAIN targets)
  OBVIOUS
<1>2. WinningTargets(bias, entry, targets) = Picked(targets, T)
  BY DEF WinningTargets
<1> HIDE DEF T
<1>3. Numbers(T) /\ \A i \in T : targets[i] \in Int
  BY <1>1, Indices
<1> QED
  BY <1>2, <1>3, PickedSeq

\* So are the distinct ones,
LEMMA DistinctIn ==
    ASSUME NEW targets \in Seq(Int)
    PROVE  Distinct(targets) \in Seq(Int)
<1> DEFINE T == {i \in DOMAIN targets : i = 1 \/ targets[i] # targets[i - 1]}
<1>1. T \in SUBSET (DOMAIN targets)
  OBVIOUS
<1>2. Distinct(targets) = Picked(targets, T)
  BY DEF Distinct
<1> HIDE DEF T
<1>3. Numbers(T) /\ \A i \in T : targets[i] \in Int
  BY <1>1, Indices
<1> QED
  BY <1>2, <1>3, PickedSeq

\* those at multiples of the risk,
LEMMA RiskIn ==
    ASSUME NEW bias, NEW entry \in Int, NEW stop \in Int, NEW rs \in Seq(Int), Len(rs) = 3
    PROVE  RiskTargets(bias, entry, stop, rs) \in Seq(Int)
<1> DEFINE step == Length(entry - stop)
           sign == Either(bias, 1, -1)
<1>1. step \in Int /\ sign \in Int
  BY DEF Length, Either
<1>2. RiskTargets(bias, entry, stop, rs) = [i \in DOMAIN rs |-> entry + sign * Times(rs[i], step)]
  BY DEF RiskTargets
<1>3. DOMAIN rs = 1..3
  OBVIOUS
<1> HIDE DEF step, sign
<1>4. [i \in 1..3 |-> entry + sign * Times(rs[i], step)] \in Seq(Int)
  BY <1>1, ThreeLevels
<1> QED
  BY <1>2, <1>3, <1>4

\* those of an alternate scenario
LEMMA AlternateIn ==
    ASSUME NEW bias, NEW entry \in Int, NEW stop \in Int
    PROVE  AlternateTargets(bias, entry, stop) \in Seq(Int)
<1> DEFINE rs == <<1000, 1272, 1618>>
<1>1. rs \in Seq(Int) /\ Len(rs) = 3 /\ <<>> \in Seq(Int)
  OBVIOUS
<1>2. AlternateTargets(bias, entry, stop) = IF entry = stop THEN <<>>
                                            ELSE RiskTargets(bias, entry, stop, rs)
  BY DEF AlternateTargets
<1> HIDE DEF rs
<1>3. RiskTargets(bias, entry, stop, rs) \in Seq(Int)
  BY <1>1, RiskIn
<1> QED
  BY <1>1, <1>2, <1>3

\* and the aligned ones.
LEMMA AlignedTargetsIn ==
    ASSUME NEW bias, NEW entry \in Int, NEW stop \in Int, NEW targets \in Seq(Int)
    PROVE  AlignedTargets(bias, entry, stop, targets) \in Seq(Int)
BY WinningIn, AlternateIn DEF AlignedTargets

\* A stop that is put on the losing side is an integer.
LEMMA LosingStopIn ==
    ASSUME NEW bias, NEW entry \in Int, NEW stop \in Int, NEW k \in Levels
    PROVE  LosingStop(bias, entry, stop, k) \in Int
<1> DEFINE level == Either(bias, k.support, k.resistance)
           a == Times(Either(bias, 995, 1005), level)
           b == Times(Either(bias, 970, 1030), entry)
<1>1. level \in Int
  BY DEF Either, Levels
<1>2. LosingStop(bias, entry, stop, k) \in {stop, a, b}
  BY DEF LosingStop
<1>3. Either(bias, 995, 1005) \in Int /\ Either(bias, 970, 1030) \in Int
  BY DEF Either
<1>4. a \in Int /\ b \in Int
  <2> DEFINE x == Either(bias, 995, 1005)
             y == Either(bias, 970, 1030)
  <2> HIDE DEF level, x, y
  <2>1. x \in Int /\ y \in Int
    BY <1>3 DEF x, y
  <2>2. Times(x, level) \in Int /\ Times(y, entry) \in Int
    BY <1>1, <2>1, TimesIsInt
  <2> QED
    BY <2>2 DEF x, y
<1> QED
  BY <1>2, <1>4

\* Missing targets are filled with integers.
LEMMA FilledIn ==
    ASSUME NEW bias, NEW entry \in Int, NEW stop \in Int, NEW targets \in Seq(Int)
    PROVE  Filled(bias, entry, stop, targets) \in Seq(Int)
<1> DEFINE rs == <<1000, 2000, 3000>>
           risk == [i \in 1..3 |-> RiskTargets(bias, entry, stop, rs)[i]]
           made == [i \in 1..3 |-> IF i <= Len(targets) THEN targets[i]
                                   ELSE RiskTargets(bias, entry, stop, rs)[i]]
           step == Length(entry - stop)
           sign == Either(bias, 1, -1)
<1>1. rs \in Seq(Int) /\ Len(rs) = 3 /\ DOMAIN rs = 1..3
  OBVIOUS
<1>2. Filled(bias, entry, stop, targets) = IF entry = stop THEN targets ELSE made
  BY DEF Filled
<1>3. RiskTargets(bias, entry, stop, rs) = [i \in DOMAIN rs |-> entry + sign * Times(rs[i], step)]
  BY DEF RiskTargets
<1>4. step \in Int /\ sign \in Int
  BY DEF Length, Either
<1> HIDE DEF rs, step, sign
<1>5. \A i \in 1..3 : RiskTargets(bias, entry, stop, rs)[i] \in Int
  <2>1. \A i \in 1..3 : rs[i] \in Int
    BY <1>1, TripleIn
  <2>2. \A i \in 1..3 : Times(rs[i], step) \in Int
    BY <1>4, <2>1, TimesIsInt
  <2>3. \A i \in 1..3 : entry + sign * Times(rs[i], step) \in Int
    BY <1>4, <2>2
  <2> QED
    BY <1>1, <1>3, <2>3
<1>6. \A i \in 1..3 : i <= Len(targets) => targets[i] \in Int
  OBVIOUS
<1> DEFINE v(i) == IF i <= Len(targets) THEN targets[i] ELSE RiskTargets(bias, entry, stop, rs)[i]
<1>7. \A i \in 1..3 : v(i) \in Int
  BY <1>5, <1>6
<1>9. made = [i \in 1..3 |-> v(i)]
  OBVIOUS
<1> HIDE DEF v, made
<1>10. [i \in 1..3 |-> v(i)] \in Seq(Int)
  BY <1>7
<1>8. made \in Seq(Int)
  BY <1>9, <1>10
<1> QED
  BY <1>2, <1>8

\* Sanitizing a scenario keeps its name, its bias and its entry.
LEMMA SanitizedIn ==
    ASSUME NEW s \in Trades, NEW k \in Levels
    PROVE  /\ Sanitized(s, k) \in Trades
           /\ Sanitized(s, k).name = s.name
           /\ Sanitized(s, k).bias = s.bias
           /\ Sanitized(s, k).entry = s.entry
<1> DEFINE stop == LosingStop(s.bias, s.entry, s.stop, k)
           winning == WinningTargets(s.bias, s.entry, s.targets)
           targets == IF winning = <<>> THEN <<>> ELSE Filled(s.bias, s.entry, stop, winning)
<1>1. /\ s.name \in ScenarioNames /\ s.bias \in Directions /\ s.entry \in Int /\ s.stop \in Int
      /\ s.invalidation \in Int /\ s.targets \in Seq(Int)
  BY DEF Trades
<1>2. stop \in Int
  BY <1>1, LosingStopIn
<1>3. winning \in Seq(Int)
  BY <1>1, WinningIn
<1> HIDE DEF stop, winning
<1>4. Filled(s.bias, s.entry, stop, winning) \in Seq(Int) /\ <<>> \in Seq(Int)
  BY <1>1, <1>2, <1>3, FilledIn
<1>5. targets \in Seq(Int)
  BY <1>4
<1>6. Sanitized(s, k) = [s EXCEPT !.stop = stop, !.targets = targets]
  BY DEF Sanitized, stop, winning
<1> HIDE DEF targets
<1> QED
  BY <1>1, <1>2, <1>5, <1>6 DEF Trades

\* Sanitizing scenarios keeps some of them.
LEMMA AllSanitizedIn ==
    ASSUME NEW scenarios \in Seq(Trades), NEW k \in Levels
    PROVE  /\ AllSanitized(scenarios, k) \in Seq(Trades)
           /\ \A i \in DOMAIN AllSanitized(scenarios, k) : \E j \in DOMAIN scenarios :
                 /\ AllSanitized(scenarios, k)[i].name = scenarios[j].name
                 /\ AllSanitized(scenarios, k)[i].bias = scenarios[j].bias
                 /\ AllSanitized(scenarios, k)[i].entry = scenarios[j].entry
<1> DEFINE all == [i \in DOMAIN scenarios |-> Sanitized(scenarios[i], k)]
           T == {i \in DOMAIN all : all[i].targets # <<>>}
           picked == Picked(all, T)
<1>1. AllSanitized(scenarios, k) = picked
  BY DEF AllSanitized
<1>2. \A i \in DOMAIN scenarios : /\ all[i] \in Trades /\ all[i].name = scenarios[i].name
                                  /\ all[i].bias = scenarios[i].bias
                                  /\ all[i].entry = scenarios[i].entry
  <2>1. \A i \in DOMAIN scenarios : scenarios[i] \in Trades
    OBVIOUS
  <2> QED
    BY <2>1, SanitizedIn
<1>3. T \in SUBSET (DOMAIN scenarios)
  OBVIOUS
<1> HIDE DEF T, all
<1>4. Numbers(T)
  BY <1>3, Indices
<1>5. picked \in Seq(Trades)
  BY <1>2, <1>3, <1>4, PickedSeq
<1>6. DOMAIN picked = 1..Cardinality(T) /\ \A n \in 1..Cardinality(T) : \E i \in T : picked[n] = all[i]
  BY <1>4, PickedIn
<1> HIDE DEF picked
<1>7. \A n \in DOMAIN picked : \E j \in DOMAIN scenarios :
          /\ picked[n].name = scenarios[j].name /\ picked[n].bias = scenarios[j].bias
          /\ picked[n].entry = scenarios[j].entry
  <2> SUFFICES ASSUME NEW n \in DOMAIN picked
               PROVE  \E j \in DOMAIN scenarios :
                        /\ picked[n].name = scenarios[j].name /\ picked[n].bias = scenarios[j].bias
                        /\ picked[n].entry = scenarios[j].entry
    OBVIOUS
  <2>1. PICK j \in T : picked[n] = all[j]
    BY <1>6
  <2> QED
    BY <1>2, <1>3, <2>1
<1> QED
  BY <1>1, <1>5, <1>7

\* No price is past the entry of a bullish scenario and of a bearish one.
Apart(s) ==
    \A i, j \in DOMAIN s : s[i].bias = "bullish" /\ s[j].bias = "bearish" => s[j].entry <= s[i].entry

\* Sanitized scenarios are apart if they were.
LEMMA SanitizedApart ==
    ASSUME NEW scenarios \in Seq(Trades), NEW k \in Levels, Apart(scenarios),
           \A i \in DOMAIN scenarios : scenarios[i].name # "InProgress Wave"
    PROVE  /\ AllSanitized(scenarios, k) \in Seq(Trades)
           /\ Apart(AllSanitized(scenarios, k))
           /\ \A i \in DOMAIN AllSanitized(scenarios, k) :
                 AllSanitized(scenarios, k)[i].name # "InProgress Wave"
<1> DEFINE all == AllSanitized(scenarios, k)
<1>1. /\ all \in Seq(Trades)
      /\ \A i \in DOMAIN all : \E j \in DOMAIN scenarios :
            /\ all[i].name = scenarios[j].name /\ all[i].bias = scenarios[j].bias
            /\ all[i].entry = scenarios[j].entry
  BY AllSanitizedIn
<1> HIDE DEF all
<1>2. Apart(all)
  <2> SUFFICES ASSUME NEW i \in DOMAIN all, NEW j \in DOMAIN all,
                      all[i].bias = "bullish", all[j].bias = "bearish"
               PROVE  all[j].entry <= all[i].entry
    BY DEF Apart
  <2>1. PICK m \in DOMAIN scenarios :
           all[i].bias = scenarios[m].bias /\ all[i].entry = scenarios[m].entry
    BY <1>1
  <2>2. PICK n \in DOMAIN scenarios :
           all[j].bias = scenarios[n].bias /\ all[j].entry = scenarios[n].entry
    BY <1>1
  <2>3. scenarios[n].entry <= scenarios[m].entry
    BY <2>1, <2>2 DEF Apart
  <2> QED
    BY <2>1, <2>2, <2>3
<1>3. \A i \in DOMAIN all : all[i].name # "InProgress Wave"
  BY <1>1
<1> QED
  BY <1>1, <1>2, <1>3 DEF all

-----------------------------------------------------------------------------
(* The scenarios of a plan *)

\* The scenarios of a plan
IsPlan(s) ==
    /\ s \in Seq(Trades)
    /\ Apart(s)
    /\ \A i \in DOMAIN s : s[i].name # "InProgress Wave"

\* A list of two
LEMMA PairSeq ==
    ASSUME NEW S, NEW a \in S, NEW b \in S, NEW s, s = <<a, b>>
    PROVE  s \in Seq(S) /\ DOMAIN s = {1, 2} /\ s[1] = a /\ s[2] = b
<1>1. s \in Seq(S) /\ DOMAIN s = 1..2
  OBVIOUS
<1>2. 1..2 = {1, 2}
  OBVIOUS
<1> QED
  BY <1>1, <1>2

\* A list of one
LEMMA SingleSeq ==
    ASSUME NEW S, NEW a \in S
    PROVE  <<a>> \in Seq(S) /\ DOMAIN <<a>> = {1} /\ <<a>>[1] = a
<1>1. <<a>> \in Seq(S) /\ DOMAIN <<a>> = 1..1
  OBVIOUS
<1>2. 1..1 = {1}
  OBVIOUS
<1> QED
  BY <1>1, <1>2

\* The two sides of a plan
TwoSides(a, b) ==
    /\ a.name # "InProgress Wave" /\ b.name # "InProgress Wave"
    /\ a.bias # b.bias
    /\ a.bias = "bullish" => b.entry <= a.entry
    /\ a.bias = "bearish" => a.entry <= b.entry

\* Two sides that are apart are a plan.
LEMMA PairPlan ==
    ASSUME NEW a \in Trades, NEW b \in Trades, TwoSides(a, b)
    PROVE  IsPlan(<<a, b>>)
<1> DEFINE s == <<a, b>>
<1>1. s \in Seq(Trades) /\ DOMAIN s = {1, 2} /\ s[1] = a /\ s[2] = b
  <2>1. s = <<a, b>>
    OBVIOUS
  <2> HIDE DEF s
  <2> QED
    BY <2>1, PairSeq
<1> HIDE DEF s
<1>2. a.bias \in Directions /\ b.bias \in Directions
  BY DEF Trades
<1>3. Apart(s)
  <2> SUFFICES ASSUME NEW i \in DOMAIN s, NEW j \in DOMAIN s,
                      s[i].bias = "bullish", s[j].bias = "bearish"
               PROVE  s[j].entry <= s[i].entry
    BY DEF Apart
  <2>1. i \in {1, 2} /\ j \in {1, 2}
    BY <1>1
  <2>2. CASE i = 1
    <3>1. j = 2
      BY <1>1, <2>1, <2>2
    <3> QED
      BY <1>1, <2>2, <3>1 DEF TwoSides
  <2>3. CASE i = 2
    <3>1. j = 1
      BY <1>1, <2>1, <2>3
    <3> QED
      BY <1>1, <2>3, <3>1 DEF TwoSides
  <2> QED
    BY <2>1, <2>2, <2>3
<1>4. \A i \in DOMAIN s : s[i].name # "InProgress Wave"
  BY <1>1 DEF TwoSides
<1>5. IsPlan(s)
  BY <1>1, <1>3, <1>4 DEF IsPlan
<1> QED
  BY <1>5 DEF s

\* Scenarios that all enter at one price
OneEntry(s, entry) ==
    /\ s \in Seq(Trades)
    /\ \A i \in DOMAIN s : s[i].entry = entry /\ s[i].name # "InProgress Wave"

\* Scenarios that enter at one price are a plan.
LEMMA JoinedPlan ==
    ASSUME NEW entry \in Int, NEW s, OneEntry(s, entry), NEW t, OneEntry(t, entry)
    PROVE  IsPlan(s \o t) /\ OneEntry(s \o t, entry)
<1>1. s \in Seq(Trades) /\ t \in Seq(Trades)
  BY DEF OneEntry
<1>2. /\ s \o t \in Seq(Trades)
      /\ Len(s \o t) = Len(s) + Len(t)
      /\ \A i \in 1..Len(s) + Len(t) : (s \o t)[i] = IF i <= Len(s) THEN s[i] ELSE t[i - Len(s)]
  BY <1>1, ConcatProperties
<1> DEFINE all == s \o t
<1> HIDE DEF all
<1>3. Len(s) \in Nat /\ Len(t) \in Nat /\ DOMAIN s = 1..Len(s) /\ DOMAIN t = 1..Len(t)
  BY <1>1
<1>4. all \in Seq(Trades) /\ DOMAIN all = 1..Len(s) + Len(t)
  <2>1. all \in Seq(Trades) /\ Len(all) = Len(s) + Len(t)
    BY <1>2 DEF all
  <2> QED
    BY <2>1
<1>5. \A i \in DOMAIN all : all[i].entry = entry /\ all[i].name # "InProgress Wave"
  <2> SUFFICES ASSUME NEW i \in DOMAIN all
               PROVE  all[i].entry = entry /\ all[i].name # "InProgress Wave"
    OBVIOUS
  <2>1. i \in 1..Len(s) + Len(t)
    BY <1>4
  <2>2. CASE i <= Len(s)
    <3>1. i \in DOMAIN s /\ all[i] = s[i]
      BY <1>2, <1>3, <2>1, <2>2 DEF all
    <3> QED
      BY <3>1 DEF OneEntry
  <2>3. CASE ~(i <= Len(s))
    <3>1. i - Len(s) \in DOMAIN t /\ all[i] = t[i - Len(s)]
      BY <1>2, <1>3, <2>1, <2>3 DEF all
    <3> QED
      BY <3>1 DEF OneEntry
  <2> QED
    BY <2>2, <2>3
<1>6. Apart(all)
  <2> SUFFICES ASSUME NEW i \in DOMAIN all, NEW j \in DOMAIN all
               PROVE  all[j].entry <= all[i].entry
    BY DEF Apart
  <2>1. all[i].entry = entry /\ all[j].entry = entry
    BY <1>5
  <2> QED
    BY <2>1
<1>7. IsPlan(all) /\ OneEntry(all, entry)
  BY <1>4, <1>5, <1>6 DEF IsPlan, OneEntry
<1> QED
  BY <1>7 DEF all

\* A triangle is left upwards above where it is left downwards.
LEMMA BreakoutIn ==
    ASSUME NEW k \in Levels, k.support <= k.resistance, NEW zones \in Seq(ZoneSet)
    PROVE  IsPlan(BreakoutScenarios(k, zones))
<1> DEFINE range == k.resistance - k.support
           rs == <<1000, 1618, 2618>>
           Out(level, sign) == [i \in 1..3 |-> level + sign * Times(rs[i], range)]
           up == Scenario("Bullish Breakout", "bullish", Refined(k.resistance, zones), k.support,
                          k.support, Out(k.resistance, 1))
           down == Scenario("Bearish Breakdown", "bearish", Refined(k.support, zones),
                            k.resistance, k.resistance, Out(k.support, -1))
<1>1. k.support \in Int /\ k.resistance \in Int /\ range \in Int
  BY DEF Levels
<1>2. Refined(k.support, zones) \in Int /\ Refined(k.resistance, zones) \in Int
      /\ Refined(k.support, zones) <= Refined(k.resistance, zones)
  BY <1>1, RefinedIs, RefinedGrows
<1>3. rs \in Seq(Int) /\ Len(rs) = 3
  OBVIOUS
<1> HIDE DEF rs, range
<1>4. \A base \in Int, sign \in Int : Out(base, sign) \in Seq(Int)
  BY <1>1, <1>3, ThreeLevels
<1>5. Out(k.resistance, 1) \in Seq(Int) /\ Out(k.support, -1) \in Seq(Int)
  <2>1. 1 \in Int /\ -1 \in Int
    OBVIOUS
  <2> HIDE DEF Out
  <2> QED
    BY <1>1, <1>4, <2>1
<1>6. BreakoutScenarios(k, zones) = <<up, down>>
  BY DEF BreakoutScenarios, range, rs
<1> DEFINE high == Refined(k.resistance, zones)
           low == Refined(k.support, zones)
           above == Out(k.resistance, 1)
           below == Out(k.support, -1)
<1>10. /\ up = Scenario("Bullish Breakout", "bullish", high, k.support, k.support, above)
       /\ down = Scenario("Bearish Breakdown", "bearish", low, k.resistance, k.resistance, below)
  OBVIOUS
<1> HIDE DEF Out, up, down, high, low, above, below
<1>11. high \in Int /\ low \in Int /\ low <= high /\ above \in Seq(Int) /\ below \in Seq(Int)
  BY <1>2, <1>5 DEF high, low, above, below
<1>7. /\ "Bullish Breakout" \in ScenarioNames /\ "Bearish Breakdown" \in ScenarioNames
      /\ "bullish" \in Directions /\ "bearish" \in Directions
  BY DEF ScenarioNames, Directions
<1>8. /\ up \in Trades /\ up.name = "Bullish Breakout" /\ up.bias = "bullish"
      /\ up.entry = high
  BY <1>1, <1>7, <1>10, <1>11 DEF Scenario, Trades
<1>9. /\ down \in Trades /\ down.name = "Bearish Breakdown" /\ down.bias = "bearish"
      /\ down.entry = low
  BY <1>1, <1>7, <1>10, <1>11 DEF Scenario, Trades
<1>12. IsPlan(<<up, down>>)
  BY <1>8, <1>9, <1>11, PairPlan DEF TwoSides
<1> QED
  BY <1>6, <1>12

\* The alternate of a correction enters behind its main scenario.
LEMMA CorrectiveIn ==
    ASSUME NEW bias \in Directions, NEW k \in Levels, NEW zones \in Seq(ZoneSet),
           LastOf(bias, k) \in Int,
           IF bias = "bullish" THEN LastOf(bias, k) <= k.confirmation
           ELSE k.confirmation <= LastOf(bias, k),
           NEW p, IsProjection(p, k)
    PROVE  IsPlan(CorrectiveScenarios(bias, k, p, zones))
<1> DEFINE last == LastOf(bias, k)
           entry == Refined(p.confirmation, zones)
           other == Refined(last, zones)
           against == Opposite(bias)
           targets == AlignedTargets(bias, entry, p.stop, Distinct(p.targets))
           back == AlternateTargets(against, other, p.confirmation)
           main == Scenario(MainName(bias), bias, entry, p.stop, p.invalidation, targets)
           alternate == Scenario(Either(bias, "Alternate Bearish", "Alternate Bullish"), against,
                                 other, p.confirmation, p.confirmation, back)
<1>1. /\ p.confirmation = k.confirmation /\ p.confirmation \in Int /\ p.invalidation \in Int
      /\ p.stop \in Int /\ p.targets \in Seq(Int)
  BY DEF IsProjection
<1>2. entry \in Int /\ other \in Int
  BY <1>1, RefinedIs
<1>3. bias = "bullish" => other <= entry
  BY <1>1, RefinedGrows
<1>4. bias = "bearish" => entry <= other
  BY <1>1, RefinedGrows
<1>5. CorrectiveScenarios(bias, k, p, zones) = <<main, alternate>>
  BY DEF CorrectiveScenarios, LastOf
<1> HIDE DEF entry, other
<1>6. targets \in Seq(Int)
  BY <1>1, <1>2, DistinctIn, AlignedTargetsIn
<1>7. back \in Seq(Int)
  BY <1>1, <1>2, AlternateIn
<1> HIDE DEF targets, back
<1>8. /\ MainName(bias) \in ScenarioNames /\ MainName(bias) # "InProgress Wave"
      /\ Either(bias, "Alternate Bearish", "Alternate Bullish") \in ScenarioNames
      /\ Either(bias, "Alternate Bearish", "Alternate Bullish") # "InProgress Wave"
      /\ against \in Directions /\ against # bias
  BY DEF MainName, Either, ScenarioNames, Directions, Opposite
<1> DEFINE first == MainName(bias)
           second == Either(bias, "Alternate Bearish", "Alternate Bullish")
<1>12. /\ main = Scenario(first, bias, entry, p.stop, p.invalidation, targets)
       /\ alternate = Scenario(second, against, other, p.confirmation, p.confirmation, back)
  OBVIOUS
<1> HIDE DEF against, main, alternate, first, second
<1>13. /\ first \in ScenarioNames /\ first # "InProgress Wave"
       /\ second \in ScenarioNames /\ second # "InProgress Wave"
  BY <1>8 DEF first, second
<1>9. main \in Trades /\ main.name = first /\ main.bias = bias /\ main.entry = entry
  BY <1>1, <1>2, <1>6, <1>12, <1>13 DEF Scenario, Trades
<1>10. /\ alternate \in Trades /\ alternate.bias = against /\ alternate.entry = other
       /\ alternate.name = second
  BY <1>1, <1>2, <1>7, <1>8, <1>12, <1>13 DEF Scenario, Trades
<1>11. IsPlan(<<main, alternate>>)
  BY <1>3, <1>4, <1>8, <1>9, <1>10, <1>13, PairPlan DEF TwoSides
<1> QED
  BY <1>5, <1>11

\* A trend and the correction after it enter at one price.
LEMMA TrendIn ==
    ASSUME NEW bias \in Directions, NEW building \in BOOLEAN, NEW k \in Levels,
           NEW zones \in Seq(ZoneSet), NEW p, IsProjection(p, k)
    PROVE  /\ IsPlan(TrendScenarios(bias, building, k, p, zones))
           /\ OneEntry(TrendScenarios(bias, building, k, p, zones), Refined(p.confirmation, zones))
<1> DEFINE entry == Refined(p.confirmation, zones)
           against == Opposite(bias)
           stop == LosingStop(against, entry, p.stop, k)
           targets == Distinct(p.targets)
           forth == AlignedTargets(bias, entry, p.stop, targets)
           aside == AlignedTargets(against, entry, stop, targets)
           name == Either(bias, "Main Corrective Pullback", "Main Corrective Rebound")
           onward == Scenario(MainName(bias), bias, entry, p.stop, p.invalidation, forth)
           back == Scenario(name, against, entry, stop, p.invalidation, aside)
<1>1. /\ p.confirmation = k.confirmation /\ p.confirmation \in Int /\ p.invalidation \in Int
      /\ p.stop \in Int /\ p.targets \in Seq(Int)
  BY DEF IsProjection
<1>2. entry \in Int
  BY <1>1, RefinedIs
<1>3. TrendScenarios(bias, building, k, p, zones)
         = (IF building THEN <<onward>> ELSE <<>>)
           \o (IF back.targets # <<>> THEN <<back>> ELSE <<>>)
  BY DEF TrendScenarios
<1> HIDE DEF entry
<1>4. stop \in Int
  BY <1>1, <1>2, LosingStopIn
<1> HIDE DEF stop
<1>5. targets \in Seq(Int)
  BY <1>1, DistinctIn
<1> HIDE DEF targets
<1>6. forth \in Seq(Int) /\ aside \in Seq(Int)
  BY <1>1, <1>2, <1>4, <1>5, AlignedTargetsIn
<1> HIDE DEF forth, aside
<1>7. /\ MainName(bias) \in ScenarioNames /\ MainName(bias) # "InProgress Wave"
      /\ name \in ScenarioNames /\ name # "InProgress Wave"
      /\ against \in Directions /\ against # bias
  BY DEF MainName, Either, ScenarioNames, Directions, Opposite
<1> DEFINE main == MainName(bias)
<1>15. /\ onward = Scenario(main, bias, entry, p.stop, p.invalidation, forth)
       /\ back = Scenario(name, against, entry, stop, p.invalidation, aside)
  OBVIOUS
<1> HIDE DEF against, name, main, onward, back
<1>16. main \in ScenarioNames /\ main # "InProgress Wave"
  BY <1>7 DEF main
<1>8. onward \in Trades /\ onward.name = main /\ onward.bias = bias /\ onward.entry = entry
  BY <1>1, <1>2, <1>6, <1>15, <1>16 DEF Scenario, Trades
<1>9. back \in Trades /\ back.name = name /\ back.bias = against /\ back.entry = entry
  BY <1>1, <1>2, <1>4, <1>6, <1>7, <1>15 DEF Scenario, Trades
<1> DEFINE first == IF building THEN <<onward>> ELSE <<>>
           second == IF back.targets # <<>> THEN <<back>> ELSE <<>>
<1>10. \A a \in Trades : a.entry = entry /\ a.name # "InProgress Wave" => OneEntry(<<a>>, entry)
  <2> SUFFICES ASSUME NEW a \in Trades, a.entry = entry, a.name # "InProgress Wave"
               PROVE  OneEntry(<<a>>, entry)
    OBVIOUS
  <2>1. <<a>> \in Seq(Trades) /\ DOMAIN <<a>> = {1} /\ <<a>>[1] = a
    BY SingleSeq
  <2> QED
    BY <2>1 DEF OneEntry
<1>11. OneEntry(<<>>, entry)
  BY DEF OneEntry
<1>12. OneEntry(first, entry)
  BY <1>8, <1>10, <1>11, <1>16
<1>13. OneEntry(second, entry)
  BY <1>7, <1>9, <1>10, <1>11
<1> HIDE DEF first, second
<1>14. IsPlan(first \o second) /\ OneEntry(first \o second, entry)
  BY <1>2, <1>12, <1>13, JoinedPlan
<1> QED
  BY <1>3, <1>14 DEF first, second, entry

\* Whatever the position, its scenarios are a plan.
LEMMA PlanIn ==
    ASSUME NEW position, position.building \in BOOLEAN, NEW k, IsPlanned(position, k),
           NEW zones \in Seq(ZoneSet), NEW p, IsProjection(p, k)
    PROVE  IsPlan(PlanScenarios(position, k, p, zones))
<1>1. k \in Levels
  BY DEF IsPlanned
<1> DEFINE plan == CASE position.structure \in Triangles -> BreakoutScenarios(k, zones)
                     [] position.structure \in Correctives ->
                            CorrectiveScenarios(position.bias, k, p, zones)
                     [] OTHER -> TrendScenarios(position.bias, position.building, k, p, zones)
<1>2. PlanScenarios(position, k, p, zones) = AllSanitized(plan, k)
  BY DEF PlanScenarios
<1>3. position.structure \notin Correctives \/ position.structure \notin Triangles
  BY DEF Correctives, Triangles, Flats
<1>4. IsPlan(plan)
  <2>1. CASE position.structure \in Triangles
    <3>1. plan = BreakoutScenarios(k, zones)
      BY <1>3, <2>1
    <3>2. IsPlan(BreakoutScenarios(k, zones))
      BY <1>1, <2>1, BreakoutIn DEF IsPlanned
    <3> QED
      BY <3>1, <3>2
  <2>2. CASE position.structure \in Correctives
    <3>1. plan = CorrectiveScenarios(position.bias, k, p, zones)
      BY <1>3, <2>2
    <3>2. /\ position.bias \in Directions /\ LastOf(position.bias, k) \in Int
          /\ IF position.bias = "bullish" THEN LastOf(position.bias, k) <= k.confirmation
             ELSE k.confirmation <= LastOf(position.bias, k)
      BY <1>3, <2>2 DEF IsPlanned
    <3>3. IsPlan(CorrectiveScenarios(position.bias, k, p, zones))
      BY <1>1, <3>2, CorrectiveIn
    <3> QED
      BY <3>1, <3>3
  <2>3. CASE position.structure \notin Triangles /\ position.structure \notin Correctives
    <3>1. plan = TrendScenarios(position.bias, position.building, k, p, zones)
      BY <2>3
    <3>2. position.bias \in Directions
      BY <2>3 DEF IsPlanned
    <3>3. IsPlan(TrendScenarios(position.bias, position.building, k, p, zones))
      BY <1>1, <3>2, TrendIn
    <3> QED
      BY <3>1, <3>3
  <2> QED
    BY <2>1, <2>2, <2>3
<1> HIDE DEF plan
<1>5. IsPlan(AllSanitized(plan, k))
  BY <1>1, <1>4, SanitizedApart DEF IsPlan
<1> QED
  BY <1>2, <1>5

-----------------------------------------------------------------------------
(* Early entries are merged in *)

\* One more integer
LEMMA JoinedNumbers ==
    ASSUME NEW S, Numbers(S), NEW a \in Int
    PROVE  Numbers(S \cup {a})
<1>1. IsFiniteSet(S \cup {a})
  BY FS_AddElement DEF Numbers
<1> QED
  BY <1>1 DEF Numbers

\* Prices in the order of a bias are a list of integers.
LEMMA InOrderIn ==
    ASSUME NEW bias, NEW S, Numbers(S)
    PROVE  /\ InOrder(bias, S) \in Seq(Int)
           /\ \A m \in DOMAIN InOrder(bias, S) : InOrder(bias, S)[m] \in S
<1> DEFINE R == {p \in S \X S : Further(bias, p[2], p[1])}
           order == InOrder(bias, S)
           n == Cardinality(S)
<1>1. \A x \in S : x \in Int
  BY DEF Numbers
<1>2. \A x, y \in S : <<x, y>> \in R <=> Further(bias, y, x)
  OBVIOUS
<1>3. \A x \in S : Before(R, S, x) = {y \in S : Further(bias, x, y)}
  BY <1>2 DEF Before
<1> HIDE DEF R
<1>4. Orders(R, S)
  <2>1. \A x \in S : ~Further(bias, x, x)
    BY <1>1 DEF Further
  <2>2. \A x, y \in S : x = y \/ Further(bias, x, y) \/ Further(bias, y, x)
    BY <1>1 DEF Further
  <2>3. \A x, y, z \in S : Further(bias, y, x) /\ Further(bias, z, y) => Further(bias, z, x)
    BY <1>1 DEF Further
  <2> QED
    BY <1>2, <2>1, <2>2, <2>3 DEF Orders
<1>5. \A m \in 1..n : \E x \in S : Cardinality({y \in S : Further(bias, x, y)}) = m - 1
  <2>1. \A m \in 1..n : \E x \in S : Cardinality(Before(R, S, x)) = m - 1
    BY <1>4, NthExists DEF Numbers
  <2> QED
    BY <1>3, <2>1
<1>6. order = [m \in 1..n |-> order[m]] /\ \A m \in 1..n : order[m] \in S
  <2>1. order = [m \in 1..n |->
                    CHOOSE x \in S : Cardinality({y \in S : Further(bias, x, y)}) = m - 1]
    BY DEF InOrder, Ordered
  <2> HIDE DEF order, n
  <2>2. DOMAIN order = 1..n
    BY <2>1
  <2>3. \A m \in 1..n : order[m] \in S
    <3> SUFFICES ASSUME NEW m \in 1..n PROVE order[m] \in S
      OBVIOUS
    <3>1. order[m] = CHOOSE x \in S : Cardinality({y \in S : Further(bias, x, y)}) = m - 1
      BY <2>1
    <3>2. \E x \in S : Cardinality({y \in S : Further(bias, x, y)}) = m - 1
      BY <1>5
    <3> QED
      BY <3>1, <3>2
  <2>4. order = [m \in DOMAIN order |-> order[m]]
    BY <2>1
  <2> QED
    BY <2>2, <2>3, <2>4
<1>7. n \in Nat
  BY FS_CardinalityType DEF Numbers
<1> HIDE DEF order, n
<1>8. order \in [1..n -> Int]
  BY <1>1, <1>6
<1>9. order \in Seq(Int)
  BY <1>7, <1>8
<1>10. \A m \in DOMAIN order : order[m] \in S
  BY <1>6, <1>8
<1> QED
  BY <1>9, <1>10 DEF order

\* The nearest stop is an integer.
LEMMA NearestIn ==
    ASSUME NEW bias, NEW entry \in Int, NEW S, Numbers(S)
    PROVE  NearestStop(bias, entry, S) \in Int
<1> DEFINE behind == {x \in S : Further(bias, entry, x)}
           ratio == Either(bias, 970, 1030)
<1>1. behind \subseteq S
  OBVIOUS
<1>2. NearestStop(bias, entry, S)
        = IF behind = {} THEN Times(ratio, entry) ELSE Foremost(bias, behind)
  BY DEF NearestStop
<1> HIDE DEF behind
<1>3. behind # {} => Min(behind) \in Int /\ Max(behind) \in Int
  BY <1>1, PartNumbers
<1>4. behind # {} => Foremost(bias, behind) \in Int
  BY <1>3 DEF Foremost, Either
<1>5. ratio \in Int
  BY DEF Either
<1> HIDE DEF ratio
<1>6. Times(ratio, entry) \in Int
  BY <1>5, TimesIsInt
<1> QED
  BY <1>2, <1>4, <1>6

\* The early entries
IsEarly(s) == s \in Seq(Trades) /\ \A i \in DOMAIN s : s[i].name = "InProgress Wave"

\* What is planned of a wave in progress are early entries.
LEMMA EarlyIn ==
    ASSUME NEW wave \in Waves, NEW price \in Int
    PROVE  IsEarly(EarlyScenarios(wave, price))
<1> DEFINE bias == wave.building
           targets == {wave.targets[i] : i \in DOMAIN wave.targets}
           ahead == {x \in targets \cup {wave.start} : Further(bias, x, price)}
           entry == Rearmost(bias, ahead)
           levels == targets \cup {price, wave.start, wave.invalidation}
           stop == NearestStop(bias, entry, levels)
           after == {t \in targets : Further(bias, t, entry)}
           onward == InOrder(bias, after)
           invalidation == IF Further(bias, entry, wave.invalidation) THEN wave.invalidation
                           ELSE stop
           aims == IF onward # <<>> THEN onward ELSE AlternateTargets(bias, entry, stop)
           early == Scenario("InProgress Wave", bias, entry, stop, invalidation, aims)
<1>1. /\ bias \in Directions /\ wave.start \in Int /\ wave.invalidation \in Int
      /\ wave.targets \in Seq(Int)
  BY DEF Waves
<1>2. EarlyScenarios(wave, price) = IF targets = {} \/ ahead = {} THEN <<>> ELSE <<early>>
  BY DEF EarlyScenarios
<1>3. CASE targets = {} \/ ahead = {}
  <2>1. IsEarly(<<>>)
    BY DEF IsEarly
  <2> QED
    BY <1>2, <1>3, <2>1
<1>4. CASE ~(targets = {} \/ ahead = {})
  <2>1. Numbers(targets)
    BY <1>1, MembersIn
  <2> HIDE DEF targets, bias
  <2>2. Numbers(targets \cup {wave.start})
    BY <1>1, <2>1, JoinedNumbers
  <2>3. ahead \subseteq targets \cup {wave.start} /\ ahead # {}
    BY <1>4
  <2> HIDE DEF ahead
  <2>4. Min(ahead) \in Int /\ Max(ahead) \in Int
    BY <2>2, <2>3, PartNumbers
  <2>5. entry \in Int
    BY <2>4 DEF Rearmost, Either
  <2>6. Numbers(levels)
    <3>1. Numbers((targets \cup {wave.start}) \cup {wave.invalidation})
      BY <1>1, <2>2, JoinedNumbers
    <3>2. Numbers(((targets \cup {wave.start}) \cup {wave.invalidation}) \cup {price})
      BY <3>1, JoinedNumbers
    <3>3. levels = ((targets \cup {wave.start}) \cup {wave.invalidation}) \cup {price}
      OBVIOUS
    <3> QED
      BY <3>2, <3>3
  <2> HIDE DEF entry, levels
  <2>7. stop \in Int
    BY <2>5, <2>6, NearestIn
  <2> HIDE DEF stop
  <2>8. after \subseteq targets
    OBVIOUS
  <2> HIDE DEF after
  <2>9. Numbers(after)
    BY <2>1, <2>8, PartNumbers
  <2>10. onward \in Seq(Int)
    BY <2>9, InOrderIn
  <2> HIDE DEF onward
  <2>11. aims \in Seq(Int)
    BY <2>5, <2>7, <2>10, AlternateIn
  <2>12. invalidation \in Int
    BY <1>1, <2>7
  <2> HIDE DEF aims, invalidation
  <2>13. early = Scenario("InProgress Wave", bias, entry, stop, invalidation, aims)
    OBVIOUS
  <2> HIDE DEF early
  <2>14. "InProgress Wave" \in ScenarioNames
    BY DEF ScenarioNames
  <2>15. early \in Trades /\ early.name = "InProgress Wave"
    BY <1>1, <2>5, <2>7, <2>11, <2>12, <2>13, <2>14 DEF Scenario, Trades, bias
  <2>16. <<early>> \in Seq(Trades) /\ DOMAIN <<early>> = {1} /\ <<early>>[1] = early
    BY <2>15, SingleSeq
  <2>17. IsEarly(<<early>>)
    BY <2>15, <2>16 DEF IsEarly
  <2>18. EarlyScenarios(wave, price) = <<early>>
    BY <1>2, <1>4 DEF early, targets, ahead, bias, entry, stop, levels, after, onward, aims, invalidation
  <2> QED
    BY <2>17, <2>18
<1> QED
  BY <1>3, <1>4

\* What EntriesApart says of a list of scenarios
PlannedApart(s) ==
    \A i, j \in DOMAIN s :
        /\ s[i].bias = "bullish" /\ s[j].bias = "bearish"
        /\ "InProgress Wave" \notin {s[i].name, s[j].name}
        => s[j].entry <= s[i].entry

\* Early entries that are merged in leave the others apart.
LEMMA MergedIn ==
    ASSUME NEW s, IsPlan(s), NEW wave \in Found, NEW price \in Int
    PROVE  Merged(s, wave, price) \in Seq(Trades) /\ PlannedApart(Merged(s, wave, price))
<1> DEFINE early == IF wave = NoWave \/ wave.confidence < 450 THEN <<>>
                    ELSE EarlyScenarios(wave, price)
           biases == {s[i].bias : i \in DOMAIN s}
           T == {i \in DOMAIN early : early[i].bias \notin biases}
           more == Picked(early, T)
           all == s \o more
<1>1. Merged(s, wave, price) = all
  BY DEF Merged
<1>2. IsEarly(early)
  <2>1. IsEarly(<<>>)
    BY DEF IsEarly
  <2>2. wave # NoWave => IsEarly(EarlyScenarios(wave, price))
    BY EarlyIn DEF Found
  <2> QED
    BY <2>1, <2>2
<1> HIDE DEF early
<1>3. T \in SUBSET (DOMAIN early)
  OBVIOUS
<1> HIDE DEF T
<1>4. Numbers(T) /\ \A i \in T : early[i] \in Trades /\ early[i].name = "InProgress Wave"
  <2>1. early \in Seq(Trades)
    BY <1>2 DEF IsEarly
  <2>2. Numbers(T)
    BY <1>3, <2>1, Indices
  <2>3. \A i \in DOMAIN early : early[i] \in Trades
    BY <2>1
  <2> QED
    BY <1>2, <1>3, <2>2, <2>3 DEF IsEarly
<1>5. more \in Seq(Trades)
  BY <1>4, PickedSeq
<1>6. \A n \in DOMAIN more : more[n].name = "InProgress Wave"
  <2> DEFINE E == {t \in Trades : t.name = "InProgress Wave"}
  <2>1. \A i \in T : early[i] \in E
    BY <1>4
  <2>2. more \in Seq(E)
    <3> HIDE DEF E
    <3> QED
      BY <1>4, <2>1, PickedSeq
  <2> HIDE DEF more
  <2>3. \A n \in DOMAIN more : more[n] \in E
    <3> HIDE DEF E
    <3> QED
      BY <2>2
  <2> QED
    BY <2>3
<1> HIDE DEF more
<1>7. s \in Seq(Trades)
  BY DEF IsPlan
<1>8. /\ all \in Seq(Trades) /\ Len(all) = Len(s) + Len(more)
      /\ \A i \in 1..Len(s) + Len(more) : all[i] = IF i <= Len(s) THEN s[i] ELSE more[i - Len(s)]
  BY <1>5, <1>7, ConcatProperties
<1> HIDE DEF all
<1>9. /\ Len(s) \in Nat /\ Len(more) \in Nat
      /\ DOMAIN s = 1..Len(s) /\ DOMAIN more = 1..Len(more) /\ DOMAIN all = 1..Len(s) + Len(more)
  <2>1. DOMAIN all = 1..Len(all)
    BY <1>8
  <2> QED
    BY <1>5, <1>7, <1>8, <2>1
<1>10. \A i \in DOMAIN all : \/ i \in DOMAIN s /\ all[i] = s[i]
                             \/ all[i].name = "InProgress Wave"
  <2> SUFFICES ASSUME NEW i \in DOMAIN all
               PROVE  (i \in DOMAIN s /\ all[i] = s[i]) \/ all[i].name = "InProgress Wave"
    OBVIOUS
  <2>1. i \in 1..Len(s) + Len(more)
    BY <1>9
  <2>2. CASE i <= Len(s)
    <3>1. i \in DOMAIN s
      BY <1>9, <2>1, <2>2
    <3>2. all[i] = s[i]
      BY <1>8, <2>1, <2>2
    <3> QED
      BY <3>1, <3>2
  <2>3. CASE ~(i <= Len(s))
    <3>1. i - Len(s) \in DOMAIN more
      BY <1>9, <2>1, <2>3
    <3>2. all[i] = more[i - Len(s)]
      BY <1>8, <2>1, <2>3
    <3> QED
      BY <1>6, <3>1, <3>2
  <2> QED
    BY <2>2, <2>3
<1>11. PlannedApart(all)
  BY <1>10 DEF PlannedApart, IsPlan, Apart
<1> QED
  BY <1>1, <1>8, <1>11

-----------------------------------------------------------------------------
(* Reports; entries stay apart *)

\* A report's scenarios, zones and entries
IsReport(r) ==
    /\ r.scenarios \in Seq(Trades)
    /\ r.zones \in Seq(ZoneSet)
    /\ PlannedApart(r.scenarios)

\* Every report of the engine is one.
LEMMA ReportIn ==
    ASSUME AnalysisAssumption, NEW pivots \in Seq(Pivots), pivots # <<>>, NEW price \in Int,
           NEW signals, NEW r, r = Analysis(pivots, price, signals), r.found
    PROVE  IsReport(r)
<1> DEFINE counts == CountsInPlay(WaveCounts(pivots, signals), price)
           wave == InProgressWave(pivots)
           position == Position(counts[1], wave)
           levels == PlanLevels(position, LevelsAround(KeyLevels(counts[1].type, counts[1].w),
                                                       pivots, wave, price, Atr))
           projection == Projection(position, levels, pivots, Atr)
           zones == Zones(pivots)
           plan == PlanScenarios(position, levels, projection, zones)
           merged == Merged(plan, wave, price)
<1>1. counts # <<>> /\ r.scenarios = merged /\ r.zones = zones
  <2>1. Analysis(pivots, price, signals).found
    OBVIOUS
  <2>2. /\ counts # <<>>
        /\ Analysis(pivots, price, signals)
             = [found |-> TRUE, price |-> price, count |-> counts[1], wave |-> wave,
                bias |-> SummaryBias(counts), position |-> position, levels |-> levels,
                projection |-> projection, zones |-> zones, scenarios |-> merged]
    BY <2>1, ReportIs
  <2> HIDE DEF counts, wave, position, levels, projection, zones, merged
  <2> QED
    BY <2>2
<1>2. IsCount(counts[1])
  <2>1. PICK n \in Nat : Listed(counts, n) /\ \A i \in 1..n : IsCount(counts[i])
    BY CountsIn
  <2> HIDE DEF counts
  <2>2. n = 0 => counts = <<>>
    BY <2>1 DEF Listed
  <2>3. 1 \in 1..n
    BY <1>1, <2>1, <2>2
  <2> QED
    BY <2>1, <2>3
<1>3. wave \in Found
  BY InProgressIn
<1>4. Atr \in Int
  BY AnalysisAssumption DEF AnalysisAssumption
<1> DEFINE c == counts[1]
<1>5. IsCount(c)
  BY <1>2
<1>6. position = Position(c, wave)
  OBVIOUS
<1>7. levels = PlanLevels(Position(c, wave),
                          LevelsAround(KeyLevels(c.type, c.w), pivots, wave, price, Atr))
  OBVIOUS
<1>8. projection = Projection(position, levels, pivots, Atr)
  OBVIOUS
<1> HIDE DEF counts, c, wave, levels, position, projection, zones
<1>9. IsPlanned(position, levels)
  BY <1>3, <1>4, <1>5, <1>6, <1>7, PlannedIn
<1>10. IsProjection(projection, levels)
  BY <1>4, <1>8, <1>9, ProjectionIn DEF IsPlanned
<1>11. zones \in Seq(ZoneSet)
  BY ZonesIn DEF zones
<1>12. position.building \in BOOLEAN
  BY <1>6 DEF Position
<1>13. IsPlan(plan)
  BY <1>9, <1>10, <1>11, <1>12, PlanIn
<1> HIDE DEF plan
<1>14. merged \in Seq(Trades) /\ PlannedApart(merged)
  BY <1>3, <1>13, MergedIn
<1> HIDE DEF merged
<1> QED
  BY <1>1, <1>11, <1>14 DEF IsReport

\* The report on the chart, if there is one
ReportSound == report.found => IsReport(report)

\* An analysis makes a sound report.
LEMMA ReportMade ==
    ASSUME AnalysisAssumption, ChartIn, Analyse
    PROVE  ReportSound'
<1> USE AnalysisAssumption
<1>1. PICK drift \in Drifts, signals \in IndicatorSignals :
         report' = Analysis(chart, IF Last(chart).type = "H" THEN Last(chart).price - drift
                                   ELSE Last(chart).price + drift, signals)
  BY DEF Analyse
<1> DEFINE price == IF Last(chart).type = "H" THEN Last(chart).price - drift
                    ELSE Last(chart).price + drift
<1>2. chart # <<>> /\ chart \in Seq(Pivots)
  BY EmptySeq DEF ChartIn
<1>3. Last(chart).price \in Int
  BY <1>2, OnWindows
<1>4. drift \in Int
  BY DEF AnalysisAssumption
<1>5. price \in Int
  BY <1>3, <1>4
<1>6. report' = Analysis(chart, price, signals)
  BY <1>1
<1> HIDE DEF price
<1>7. report'.found => IsReport(report')
  BY <1>2, <1>5, <1>6, ReportIn
<1> QED
  BY <1>7 DEF ReportSound

\* Charts and reports are sound.
Sound == ChartIn /\ ReportSound

\* No step of the engine breaks that.
LEMMA SoundInductive ==
    ASSUME AnalysisAssumption
    PROVE  /\ AnalysisInit => Sound
           /\ Sound /\ [AnalysisNext]_analysisVars => Sound'
<1> USE AnalysisAssumption
<1>1. AnalysisInit => Sound
  BY ChartStarts DEF AnalysisInit, Sound, ReportSound, NoReport
<1>2. Sound /\ [AnalysisNext]_analysisVars => Sound'
  <2> SUFFICES ASSUME Sound, [AnalysisNext]_analysisVars PROVE Sound'
    OBVIOUS
  <2>1. CASE NewPivot
    <3>1. ChartIn'
      BY <2>1, ChartGrows DEF Sound
    <3>2. ReportSound'
      BY <2>1 DEF NewPivot, ReportSound, NoReport
    <3> QED
      BY <3>1, <3>2 DEF Sound
  <2>2. CASE Analyse
    <3>1. ReportSound'
      BY <2>2, ReportMade DEF Sound
    <3>2. ChartIn'
      BY <2>2 DEF Analyse, ChartIn, Sound
    <3> QED
      BY <3>1, <3>2 DEF Sound
  <2>3. CASE Prioritise
    BY <2>3 DEF Prioritise, Sound, ChartIn, ReportSound
  <2>4. CASE UNCHANGED analysisVars
    BY <2>4 DEF analysisVars, Sound, ChartIn, ReportSound
  <2> QED
    BY <2>1, <2>2, <2>3, <2>4 DEF AnalysisNext
<1> QED
  BY <1>1, <1>2

\* EntriesApart, of any chart, price, indicators and drift (generate_scenarios,
\* _refine_entry_with_confluence): whatever the levels and the zones, no price is past
\* the entries of both sides of a plan.
THEOREM EntriesStayApart == AnalysisSpec => []EntriesApart
<1> USE AnalysisAssumption
<1>1. AnalysisInit => Sound
  BY SoundInductive
<1>2. Sound /\ [AnalysisNext]_analysisVars => Sound'
  BY SoundInductive
<1>3. Sound => EntriesApart
  BY DEF Sound, ReportSound, IsReport, PlannedApart, EntriesApart
<1> QED
  BY <1>1, <1>2, <1>3, PTL DEF AnalysisSpec

-----------------------------------------------------------------------------
(* Scenarios held against past trades *)

\* A product of integers is an integer.
LEMMA Products ==
    ASSUME NEW a \in Int, NEW b \in Int
    PROVE  a * b \in Int
OBVIOUS

\* The expected reward of a scenario is an integer,
LEMMA RewardIn ==
    ASSUME NEW s \in Trades
    PROVE  ExpectedReward(s) \in Int
<1> DEFINE shares == <<4, 3, 3>>
           Part(i) == IF i <= Len(s.targets)
                      THEN <<4, 3, 3>>[i] * Length(s.targets[i] - s.entry) ELSE 0
           sum == 100 * (Part(1) + Part(2) + Part(3))
<1>1. s.targets \in Seq(Int) /\ s.entry \in Int /\ s.stop \in Int
  BY DEF Trades
<1>2. ExpectedReward(s) = IF Gap(s) = 0 THEN 0 ELSE Min({3000, sum \div Gap(s)})
  BY DEF ExpectedReward
<1>3. Gap(s) \in Nat
  BY <1>1 DEF Gap, Length
<1>4. \A i \in 1..3 : i <= Len(s.targets) => Length(s.targets[i] - s.entry) \in Int
  <2>1. \A i \in 1..3 : i <= Len(s.targets) => s.targets[i] \in Int
    BY <1>1
  <2> QED
    BY <1>1, <2>1 DEF Length
<1>5. Part(1) \in Int /\ Part(2) \in Int /\ Part(3) \in Int
  <2>1. 1 \in 1..3 /\ 2 \in 1..3 /\ 3 \in 1..3
    OBVIOUS
  <2>2. <<4, 3, 3>>[1] = 4 /\ <<4, 3, 3>>[2] = 3 /\ <<4, 3, 3>>[3] = 3
    OBVIOUS
  <2> QED
    BY <1>4, <2>1, <2>2
<1>6. sum \in Int
  <2> HIDE DEF Part
  <2> QED
    BY <1>5
<1> HIDE DEF sum
<1>7. Gap(s) # 0 => sum \div Gap(s) \in Int
  BY <1>3, <1>6
<1>8. \A x \in Int : Min({3000, x}) \in Int
  <2>1. \A a \in Int, b \in Int : Min({a, b}) \in {a, b}
    BY PairNumbers
  <2>2. 3000 \in Int
    OBVIOUS
  <2> SUFFICES ASSUME NEW x \in Int PROVE Min({3000, x}) \in Int
    OBVIOUS
  <2>3. Min({3000, x}) \in {3000, x}
    BY <2>1, <2>2
  <2> QED
    BY <2>3
<1> QED
  BY <1>2, <1>7, <1>8

\* what past results add to its score is one,
LEMMA EdgeScoreIn ==
    ASSUME NEW edge \in Edges, NEW scale \in Int
    PROVE  EdgeScore(edge, scale) \in Int
<1> DEFINE least == Min({edge.n, 8})
           weight == Max({350, 125 * least})
           base == (900 * edge.r + 1200 * (edge.win - 500)) \div 1000
           extra == Points(Winning(edge), 700) - Points(Losing(edge), 500)
                    - Points(BadlyLosing(edge), 900)
           score == (base * weight) \div 1000 + Points(Winning(edge), 700)
                    - Points(Losing(edge), 500) - Points(BadlyLosing(edge), 900)
<1>1. edge.n \in Nat /\ edge.r \in Int /\ edge.win \in Int
  BY DEF Edges
<1>2. \A a \in Int, b \in Int : Min({a, b}) \in {a, b} /\ Max({a, b}) \in {a, b}
  BY PairNumbers
<1>3. least \in Int
  <2>1. 8 \in Int /\ edge.n \in Int
    BY <1>1
  <2>2. least \in {edge.n, 8}
    BY <1>2, <2>1
  <2> QED
    BY <2>1, <2>2
<1> HIDE DEF least
<1>4. weight \in Int
  <2> DEFINE more == 125 * least
  <2>1. 350 \in Int /\ more \in Int
    BY <1>3
  <2> HIDE DEF more
  <2>2. Max({350, more}) \in {350, more}
    BY <1>2, <2>1
  <2> QED
    BY <2>1, <2>2 DEF more
<1>5. base \in Int
  BY <1>1
<1> HIDE DEF base, weight
<1>6. base * weight \in Int
  BY <1>4, <1>5, Products
<1>7. /\ Points(Winning(edge), 700) \in Int /\ Points(Losing(edge), 500) \in Int
      /\ Points(BadlyLosing(edge), 900) \in Int
  BY DEF Points
<1>8. score \in Int
  BY <1>6, <1>7
<1>9. EdgeScore(edge, scale) = IF edge.n = 0 THEN 0 ELSE (score * scale) \div 1000
  BY DEF EdgeScore, base, weight, least
<1> HIDE DEF score
<1>10. score * scale \in Int
  BY <1>8, Products
<1> QED
  BY <1>9, <1>10

\* and so is the score.
LEMMA ScoreIn ==
    ASSUME NEW s \in Trades, NEW expected, NEW zones \in Seq(ZoneSet), NEW edge \in Edges,
           NEW pattern \in Edges, NEW pair \in Edges
    PROVE  Score(s, expected, zones, edge, pattern, pair) \in Int
<1>1. ExpectedReward(s) \in Int
  BY RewardIn
<1>2. ZoneScore(s.entry, zones) \in Int
  <2>1. s.entry \in Int
    BY DEF Trades
  <2> QED
    BY <2>1, ZoneScoreIn
<1>3. Points(expected = s.bias, 350) \in Int
  BY DEF Points
<1>4. EdgeScore(edge, 1000) \in Int /\ EdgeScore(pattern, 450) \in Int /\ EdgeScore(pair, 700) \in Int
  <2> DEFINE whole == 1000
             half == 450
             most == 700
  <2>1. whole \in Int /\ half \in Int /\ most \in Int
    OBVIOUS
  <2> HIDE DEF whole, half, most
  <2>2. EdgeScore(edge, whole) \in Int /\ EdgeScore(pattern, half) \in Int
        /\ EdgeScore(pair, most) \in Int
    BY <2>1, EdgeScoreIn
  <2> QED
    BY <2>2 DEF whole, half, most
<1>5. Preference(s.name) \in Int /\ MicroRisk(s) \in Int
  BY DEF Preference, MicroRisk
<1> DEFINE reward == ExpectedReward(s)
           zone == ZoneScore(s.entry, zones)
           as == Points(expected = s.bias, 350)
           own == EdgeScore(edge, 1000)
           like == EdgeScore(pattern, 450)
           symbol == EdgeScore(pair, 700)
           preferred == Preference(s.name)
           micro == MicroRisk(s)
<1>6. Score(s, expected, zones, edge, pattern, pair)
         = (35 * reward) \div 100 + as + zone \div 2 + own + like + symbol + preferred + micro
  BY DEF Score
<1> HIDE DEF reward, zone, as, own, like, symbol, preferred, micro
<1>7. /\ reward \in Int /\ zone \in Int /\ as \in Int /\ own \in Int /\ like \in Int
      /\ symbol \in Int /\ preferred \in Int /\ micro \in Int
  BY <1>1, <1>2, <1>3, <1>4, <1>5 DEF reward, zone, as, own, like, symbol, preferred, micro
<1> QED
  BY <1>6, <1>7

\* Four keys, the first that differ decide
IsKey(a) == a[1] \in Int /\ a[2] \in Int /\ a[3] \in Int /\ a[4] \in Int

\* The comparison of scenarios in prioritize_scenarios
KeyBefore(a, b) == \E n \in 1..4 : a[n] > b[n] /\ \A m \in 1..n - 1 : a[m] = b[m]

\* It is lexicographic,
LEMMA KeyBeforeIs ==
    ASSUME NEW a, NEW b
    PROVE  KeyBefore(a, b) <=> \/ a[1] > b[1]
                               \/ a[1] = b[1] /\ a[2] > b[2]
                               \/ a[1] = b[1] /\ a[2] = b[2] /\ a[3] > b[3]
                               \/ a[1] = b[1] /\ a[2] = b[2] /\ a[3] = b[3] /\ a[4] > b[4]
<1> DEFINE Decides(n) == a[n] > b[n] /\ \A m \in 1..n - 1 : a[m] = b[m]
<1>1. 1..4 = {1, 2, 3, 4}
  OBVIOUS
<1>2. 1..1 - 1 = {} /\ 1..2 - 1 = {1} /\ 1..3 - 1 = {1, 2} /\ 1..4 - 1 = {1, 2, 3}
  OBVIOUS
<1>3. /\ Decides(1) <=> a[1] > b[1]
      /\ Decides(2) <=> a[1] = b[1] /\ a[2] > b[2]
      /\ Decides(3) <=> a[1] = b[1] /\ a[2] = b[2] /\ a[3] > b[3]
      /\ Decides(4) <=> a[1] = b[1] /\ a[2] = b[2] /\ a[3] = b[3] /\ a[4] > b[4]
  BY <1>2
<1>4. KeyBefore(a, b) <=> \E n \in 1..4 : Decides(n)
  BY DEF KeyBefore
<1> HIDE DEF Decides
<1>5. KeyBefore(a, b) <=> Decides(1) \/ Decides(2) \/ Decides(3) \/ Decides(4)
  BY <1>1, <1>4
<1> QED
  BY <1>3, <1>5

\* and a strict order, total on keys whose last differ.
LEMMA KeysOrdered ==
    ASSUME NEW a, NEW b, NEW c, IsKey(a), IsKey(b), IsKey(c)
    PROVE  /\ ~KeyBefore(a, a)
           /\ a[4] # b[4] => KeyBefore(a, b) \/ KeyBefore(b, a)
           /\ KeyBefore(a, b) /\ KeyBefore(b, c) => KeyBefore(a, c)
<1> DEFINE After(u, v) == \/ u[1] > v[1]
                          \/ u[1] = v[1] /\ u[2] > v[2]
                          \/ u[1] = v[1] /\ u[2] = v[2] /\ u[3] > v[3]
                          \/ u[1] = v[1] /\ u[2] = v[2] /\ u[3] = v[3] /\ u[4] > v[4]
<1>1. \A u, v : KeyBefore(u, v) <=> After(u, v)
  BY KeyBeforeIs
<1>2. /\ a[1] \in Int /\ a[2] \in Int /\ a[3] \in Int /\ a[4] \in Int
      /\ b[1] \in Int /\ b[2] \in Int /\ b[3] \in Int /\ b[4] \in Int
      /\ c[1] \in Int /\ c[2] \in Int /\ c[3] \in Int /\ c[4] \in Int
  BY DEF IsKey
<1>3. ~After(a, a)
  BY <1>2
<1>4. a[4] # b[4] => After(a, b) \/ After(b, a)
  BY <1>2
<1>5. After(a, b) /\ After(b, c) => After(a, c)
  BY <1>2
<1> HIDE DEF After
<1> QED
  BY <1>1, <1>3, <1>4, <1>5

\* An index that lost
Lost(edge) == edge.n >= 3 /\ edge.r <= -80

\* Whatever the scores, what is let through is a scenario that has not lost
\* (prioritize_scenarios).
LEMMA PrioritizedIn ==
    ASSUME NEW n \in Nat, NEW scenarios, DOMAIN scenarios = 1..n,
           \A i \in 1..n : scenarios[i] \in Trades,
           NEW expected, NEW zones \in Seq(ZoneSet), NEW edges \in [1..n -> Edges],
           NEW patterns \in [1..n -> Edges], NEW pair \in Edges
    PROVE  LET first == Prioritized(scenarios, expected, zones, edges, patterns, pair)
           IN  \A m \in DOMAIN first : first[m] \in 1..n /\ ~Lost(edges[first[m]])
<1> DEFINE all == 1..n
           score == [i \in all |-> Score(scenarios[i], expected, zones, edges[i], patterns[i], pair)]
           severe == {i \in all : BadlyLosing(edges[i]) /\ ExpectedReward(scenarios[i]) < 1200}
           good == {i \in all : Positive(edges[i], 2, 20)}
           goodPattern == {i \in all : Positive(patterns[i], 4, 50)}
           bad == {i \in all : Prunable(edges[i], 3)}
           badPattern == {i \in all : Prunable(patterns[i], 5)}
           positive == good \cup (goodPattern \ bad)
                       \cup (IF PairPositive(pair) THEN all \ (bad \cup badPattern) ELSE {})
           neutral == (all \ (bad \cup badPattern))
                      \ (IF PairPrunable(pair) THEN all \ (good \cup goodPattern) ELSE {})
           known == {i \in all : HasHistory(edges[i], patterns[i], pair)}
           Key(x) == << IF x \in severe THEN 0 ELSE 1, score[x], ExpectedReward(scenarios[x]), -x >>
           Goes(i, j) == KeyBefore(Key(i), Key(j))
           chosen == IF positive \ severe # {} THEN positive \ severe
                     ELSE IF neutral \ severe # {} THEN neutral \ severe
                     ELSE IF known # {} THEN {}
                     ELSE IF all \ severe # {} THEN all \ severe
                     ELSE {i \in all : \A j \in all : i = j \/ Goes(i, j)}
           first == Ordered(chosen, Goes)
<1>1. Prioritized(scenarios, expected, zones, edges, patterns, pair) = first
  BY DEF Prioritized, KeyBefore
<1>2. \A i \in all : edges[i] \in Edges /\ edges[i].n \in Int /\ edges[i].r \in Int
  BY DEF Edges
<1>3. \A i \in all : Lost(edges[i]) => i \in bad /\ i \notin good /\ i \in known
  <2> SUFFICES ASSUME NEW i \in all, Lost(edges[i])
               PROVE  i \in bad /\ i \notin good /\ i \in known
    OBVIOUS
  <2>1. edges[i].n >= 3 /\ edges[i].r <= -80 /\ edges[i].n \in Int /\ edges[i].r \in Int
    BY <1>2 DEF Lost
  <2>2. Prunable(edges[i], 3)
    BY <2>1 DEF Prunable
  <2>3. ~Positive(edges[i], 2, 20)
    BY <2>1 DEF Positive, Winning
  <2>4. HasHistory(edges[i], patterns[i], pair)
    BY <2>1 DEF HasHistory
  <2> QED
    BY <2>2, <2>3, <2>4
<1>4. \A i \in all : IsKey(Key(i)) /\ Key(i)[4] = -i
  <2> SUFFICES ASSUME NEW i \in all PROVE IsKey(Key(i)) /\ Key(i)[4] = -i
    OBVIOUS
  <2>1. score[i] \in Int /\ ExpectedReward(scenarios[i]) \in Int
    BY ScoreIn, RewardIn
  <2> HIDE DEF score, severe
  <2> QED
    BY <2>1 DEF IsKey
<1> HIDE DEF score, severe, good, goodPattern, bad, badPattern, known, Key
<1>5. chosen \subseteq all /\ \A i \in chosen : ~Lost(edges[i])
  <2>1. good \subseteq all /\ goodPattern \subseteq all
    BY DEF good, goodPattern
  <2>2. \A i \in positive : i \in all /\ ~Lost(edges[i])
    BY <1>3, <2>1
  <2>3. \A i \in neutral : i \in all /\ ~Lost(edges[i])
    BY <1>3
  <2>4. known = {} => \A i \in all : ~Lost(edges[i])
    BY <1>3
  <2> HIDE DEF positive, neutral, all, Goes
  <2> QED
    BY <2>2, <2>3, <2>4
<1> HIDE DEF chosen
<1> DEFINE R == {p \in all \X all : Goes(p[1], p[2])}
<1>6. Orders(R, chosen)
  <2>1. \A i, j \in chosen : <<i, j>> \in R <=> Goes(i, j)
    BY <1>5
  <2>2. \A i \in chosen : ~Goes(i, i)
    BY <1>4, <1>5, KeysOrdered
  <2>3. \A i, j \in chosen : i # j => Goes(i, j) \/ Goes(j, i)
    <3> SUFFICES ASSUME NEW i \in chosen, NEW j \in chosen, i # j PROVE Goes(i, j) \/ Goes(j, i)
      OBVIOUS
    <3>1. i \in all /\ j \in all
      BY <1>5
    <3>2. -i # -j
      BY <3>1
    <3>3. IsKey(Key(i)) /\ IsKey(Key(j)) /\ Key(i)[4] # Key(j)[4]
      BY <1>4, <3>1, <3>2
    <3> QED
      BY <3>3, KeysOrdered
  <2>4. \A i, j, k \in chosen : Goes(i, j) /\ Goes(j, k) => Goes(i, k)
    <3> SUFFICES ASSUME NEW i \in chosen, NEW j \in chosen, NEW k \in chosen,
                        Goes(i, j), Goes(j, k)
                 PROVE  Goes(i, k)
      OBVIOUS
    <3>1. IsKey(Key(i)) /\ IsKey(Key(j)) /\ IsKey(Key(k))
      BY <1>4, <1>5
    <3> QED
      BY <3>1, KeysOrdered
  <2> HIDE DEF R, Goes
  <2> QED
    BY <2>1, <2>2, <2>3, <2>4 DEF Orders
<1>7. \A i \in chosen : Before(R, chosen, i) = {j \in chosen : Goes(j, i)}
  BY <1>5 DEF Before
<1>8. IsFiniteSet(chosen)
  <2>1. IsFiniteSet(all)
    BY FS_Interval
  <2> QED
    BY <1>5, <2>1, FS_Subset
<1> HIDE DEF R
<1>9. \A m \in 1..Cardinality(chosen) : \E i \in chosen :
          Cardinality(Before(R, chosen, i)) = m - 1
  BY <1>6, <1>8, NthExists
<1> HIDE DEF Goes
<1>10. \A m \in 1..Cardinality(chosen) : \E i \in chosen :
          Cardinality({j \in chosen : Goes(j, i)}) = m - 1
  BY <1>7, <1>9
<1>11. DOMAIN first = 1..Cardinality(chosen) /\ \A m \in 1..Cardinality(chosen) : first[m] \in chosen
  BY <1>10 DEF Ordered
<1> HIDE DEF first
<1> QED
  BY <1>1, <1>5, <1>11

\* Nothing is executed of a chart that is not analysed.
NothingUnplanned == report.found \/ execution = <<>>

\* The inductive invariant of NoLoserExecuted
Unexecuted == Sound /\ NothingUnplanned /\ NoLoserExecuted

\* Holding scenarios against past trades leaves the losers out.
LEMMA LosersLeftOut ==
    ASSUME AnalysisAssumption, Sound, Prioritise
    PROVE  NoLoserExecuted'
<1> DEFINE scenarios == report.scenarios
           listed == [i \in DOMAIN scenarios |-> scenarios[i]]
           n == Len(scenarios)
<1>1. PICK past \in Histories :
         /\ report.found /\ history' = past /\ report' = report
         /\ execution' = Prioritized(listed, report.projection.expected, report.zones,
                                     [i \in DOMAIN scenarios |-> past.own[scenarios[i].bias]],
                                     [i \in DOMAIN scenarios |-> past.pattern[scenarios[i].bias]],
                                     past.pair)
  BY DEF Prioritise
<1> DEFINE edges == [i \in DOMAIN scenarios |-> past.own[scenarios[i].bias]]
           patterns == [i \in DOMAIN scenarios |-> past.pattern[scenarios[i].bias]]
           zones == report.zones
<1>2. scenarios \in Seq(Trades) /\ zones \in Seq(ZoneSet)
  BY <1>1 DEF Sound, ReportSound, IsReport
<1>3. /\ past.own \in [Directions -> Edges] /\ past.pattern \in [Directions -> Edges]
      /\ past.pair \in Edges
  <2>1. past \in [own : [Directions -> Edges], pattern : [Directions -> Edges], pair : Edges]
    BY AnalysisAssumption DEF AnalysisAssumption
  <2> QED
    BY <2>1
<1>4. execution' = Prioritized(listed, report.projection.expected, zones, edges, patterns, past.pair)
  BY <1>1
<1>5. n \in Nat /\ DOMAIN scenarios = 1..n /\ \A i \in 1..n : scenarios[i] \in Trades
  <2> HIDE DEF scenarios
  <2> QED
    BY <1>2
<1> HIDE DEF scenarios, n, zones
<1>6. \A i \in 1..n : scenarios[i].bias \in Directions
  BY <1>5 DEF Trades
<1>7. edges \in [1..n -> Edges] /\ patterns \in [1..n -> Edges]
  BY <1>3, <1>5, <1>6
<1>8. DOMAIN listed = 1..n /\ \A i \in 1..n : listed[i] \in Trades
  BY <1>5
<1>9. \A i \in 1..n : edges[i] = past.own[scenarios[i].bias]
  BY <1>5
<1> DEFINE expected == report.projection.expected
           pair == past.pair
<1> HIDE DEF listed, edges, patterns, expected, pair
<1>10. pair \in Edges
  BY <1>3 DEF pair
<1> DEFINE first == Prioritized(listed, expected, zones, edges, patterns, pair)
<1>11. \A m \in DOMAIN first : first[m] \in 1..n /\ ~Lost(edges[first[m]])
  BY <1>2, <1>5, <1>7, <1>8, <1>10, PrioritizedIn
<1>12. execution' = first
  BY <1>4 DEF expected, pair
<1> HIDE DEF first
<1>13. \A m \in DOMAIN first :
          ~(past.own[scenarios[first[m]].bias].n >= 3 /\ past.own[scenarios[first[m]].bias].r <= -80)
  BY <1>9, <1>11 DEF Lost
<1> QED
  BY <1>1, <1>12, <1>13 DEF NoLoserExecuted, scenarios

\* NoLoserExecuted, of any chart and any past results (prioritize_scenarios): a
\* scenario that lost in three trades or more is not executed.
THEOREM LosersNotExecuted == AnalysisSpec => []NoLoserExecuted
<1> USE AnalysisAssumption
<1>1. AnalysisInit => Unexecuted
  <2> SUFFICES ASSUME AnalysisInit PROVE Unexecuted
    OBVIOUS
  <2>1. execution = <<>> /\ DOMAIN <<>> = {}
    BY DEF AnalysisInit
  <2>2. Sound
    BY SoundInductive
  <2> QED
    BY <2>1, <2>2 DEF Unexecuted, NothingUnplanned, NoLoserExecuted
<1>2. Unexecuted /\ [AnalysisNext]_analysisVars => Unexecuted'
  <2> SUFFICES ASSUME Unexecuted, [AnalysisNext]_analysisVars PROVE Unexecuted'
    OBVIOUS
  <2>0. Sound'
    BY SoundInductive DEF Unexecuted
  <2>1. CASE NewPivot
    <3>1. execution' = <<>> /\ DOMAIN <<>> = {}
      BY <2>1 DEF NewPivot
    <3>2. NoLoserExecuted' /\ NothingUnplanned'
      BY <3>1 DEF NoLoserExecuted, NothingUnplanned
    <3> QED
      BY <2>0, <3>2 DEF Unexecuted
  <2>2. CASE Analyse
    <3>1. report = NoReport /\ execution' = execution /\ DOMAIN <<>> = {}
      BY <2>2 DEF Analyse
    <3>2. execution' = <<>>
      BY <3>1 DEF Unexecuted, NothingUnplanned, NoReport
    <3>3. NoLoserExecuted' /\ NothingUnplanned'
      BY <3>1, <3>2 DEF NoLoserExecuted, NothingUnplanned
    <3> QED
      BY <2>0, <3>3 DEF Unexecuted
  <2>3. CASE Prioritise
    <3>1. NoLoserExecuted'
      BY <2>3, LosersLeftOut DEF Unexecuted
    <3>2. NothingUnplanned'
      BY <2>3 DEF Prioritise, NothingUnplanned
    <3> QED
      BY <2>0, <3>1, <3>2 DEF Unexecuted
  <2>4. CASE UNCHANGED analysisVars
    BY <2>0, <2>4 DEF analysisVars, Unexecuted, NothingUnplanned, NoLoserExecuted
  <2> QED
    BY <2>1, <2>2, <2>3, <2>4 DEF AnalysisNext
<1>3. Unexecuted => NoLoserExecuted
  BY DEF Unexecuted
<1> QED
  BY <1>1, <1>2, <1>3, PTL DEF AnalysisSpec

-----------------------------------------------------------------------------
(* The points of a count are pivots of its chart *)

\* What a detector finds latest are members of its list.
LEMMA LatestOf ==
    ASSUME NEW A, NEW s \in Seq(A), NEW n \in Nat \ {0}, NEW starts \in SUBSET (1..Len(s) - n + 1)
    PROVE  (IF starts = {} THEN <<>> ELSE Run(s, Max(starts), n)) \in Seq(A)
<1>1. IsFiniteSet(1..Len(s) - n + 1)
  BY FS_Interval
<1>2. Numbers(starts)
  <2>1. IsFiniteSet(starts)
    BY <1>1, FS_Subset
  <2>2. \A x \in starts : x \in Int
    OBVIOUS
  <2> QED
    BY <2>1, <2>2 DEF Numbers
<1>3. starts # {} => Max(starts) \in 1..Len(s) - n + 1
  BY <1>2, MaxOf
<1>4. starts # {} => Run(s, Max(starts), n) \in Seq(A)
  BY <1>3, RunIn
<1> QED
  BY <1>4

\* So is every window that is found.
LEMMA DetectorsOf ==
    ASSUME NEW A, NEW s \in Seq(A)
    PROVE  /\ Swings(s) \in Seq(A)
           /\ DetectAbc(s) \in Seq(A) /\ DetectFlat(s) \in Seq(A)
           /\ DetectExpandedFlat(s) \in Seq(A) /\ DetectRunningFlat(s) \in Seq(A)
           /\ DetectWxy(s) \in Seq(A) /\ DetectEndingDiagonal(s) \in Seq(A)
           /\ DetectLeadingDiagonal(s) \in Seq(A) /\ DetectContractingTriangle(s) \in Seq(A)
           /\ DetectExpandingTriangle(s) \in Seq(A) /\ DetectBarrierTriangle(s) \in Seq(A)
           /\ DetectImpulse(s) \in Seq(A)
<1>1. \A T \in SUBSET (DOMAIN s) : Picked(s, T) \in Seq(A)
  <2> SUFFICES ASSUME NEW T \in SUBSET (DOMAIN s) PROVE Picked(s, T) \in Seq(A)
    OBVIOUS
  <2>1. Numbers(T) /\ \A i \in T : s[i] \in A
    BY Indices
  <2> QED
    BY <2>1, PickedSeq
<1>2. Swings(s) \in Seq(A)
  BY <1>1 DEF Swings
<1>3. \A starts \in SUBSET (1..Len(s) - 3 + 1) :
         (IF starts = {} THEN <<>> ELSE Run(s, Max(starts), 3)) \in Seq(A)
  BY LatestOf
<1>5. \A starts \in SUBSET (1..Len(s) - 5 + 1) :
         (IF starts = {} THEN <<>> ELSE Run(s, Max(starts), 5)) \in Seq(A)
  BY LatestOf
<1>6. \A starts \in SUBSET (1..Len(s) - 6 + 1) :
         (IF starts = {} THEN <<>> ELSE Run(s, Max(starts), 6)) \in Seq(A)
  BY LatestOf
<1>7. DetectAbc(s) \in Seq(A) /\ DetectFlat(s) \in Seq(A) /\ DetectExpandedFlat(s) \in Seq(A)
  BY <1>3 DEF Latest, DetectAbc, DetectFlat, DetectExpandedFlat
<1>8. DetectRunningFlat(s) \in Seq(A) /\ DetectWxy(s) \in Seq(A)
  BY <1>3 DEF Latest, DetectRunningFlat, DetectWxy
<1>9. DetectEndingDiagonal(s) \in Seq(A) /\ DetectLeadingDiagonal(s) \in Seq(A)
  BY <1>5 DEF Latest, DetectEndingDiagonal, DetectLeadingDiagonal
<1>10. /\ DetectContractingTriangle(s) \in Seq(A) /\ DetectExpandingTriangle(s) \in Seq(A)
       /\ DetectBarrierTriangle(s) \in Seq(A)
  BY <1>5 DEF Latest, DetectContractingTriangle, DetectExpandingTriangle, DetectBarrierTriangle
<1>11. DetectImpulse(s) \in Seq(A)
  BY <1>6 DEF Latest, DetectImpulse
<1> QED
  BY <1>2, <1>7, <1>8, <1>9, <1>10, <1>11

\* So is every window that is kept.
LEMMA ValidOf ==
    ASSUME NEW A, NEW s \in Seq(A)
    PROVE  \A i \in DOMAIN ValidPatterns(s) : ValidPatterns(s)[i].w \in Seq(A)
<1> DEFINE found == Detected(s)
           kept == {i \in DOMAIN found : found[i].w # <<>> /\ PatternValid(found[i].type, found[i].w)}
<1>1. \A i \in DOMAIN found : found[i].w \in Seq(A)
  <2>1. DOMAIN found = 1..11
    BY DEF Detected
  <2> DEFINE t == Swings(s)
  <2>2. DetectAbc(s) \in Seq(A) /\ DetectImpulse(s) \in Seq(A)
        /\ DetectEndingDiagonal(s) \in Seq(A) /\ DetectLeadingDiagonal(s) \in Seq(A)
        /\ t \in Seq(A)
    BY DetectorsOf
  <2>3. /\ DetectFlat(t) \in Seq(A) /\ DetectExpandedFlat(t) \in Seq(A)
        /\ DetectRunningFlat(t) \in Seq(A) /\ DetectContractingTriangle(t) \in Seq(A)
        /\ DetectExpandingTriangle(t) \in Seq(A) /\ DetectBarrierTriangle(t) \in Seq(A)
        /\ DetectWxy(t) \in Seq(A)
    <3> HIDE DEF t
    <3> QED
      BY <2>2, DetectorsOf
  <2>4. /\ found[1].w \in Seq(A) /\ found[2].w \in Seq(A)
        /\ found[3].w \in Seq(A)
    <3>1. found[1].w \in Seq(A)
      BY <2>2 DEF Detected
    <3>2. found[2].w \in Seq(A)
      BY <2>2 DEF Detected
    <3>3. found[3].w \in Seq(A)
      BY <2>3 DEF Detected
    <3> QED
      BY <3>1, <3>2, <3>3
  <2>5. found[4].w \in Seq(A) /\ found[5].w \in Seq(A)
    BY <2>3 DEF Detected
  <2>6. found[6].w \in Seq(A) /\ found[7].w \in Seq(A)
    BY <2>3 DEF Detected
  <2>7. found[8].w \in Seq(A) /\ found[9].w \in Seq(A)
    BY <2>3 DEF Detected
  <2>8. found[10].w \in Seq(A) /\ found[11].w \in Seq(A)
    BY <2>2 DEF Detected
  <2> HIDE DEF found
  <2>9. \A i \in 1..11 : i \in {1, 2, 3, 4, 5, 6, 7, 8, 9, 10, 11}
    OBVIOUS
  <2>10. \A i \in {1, 2, 3, 4, 5, 6, 7, 8, 9, 10, 11} : found[i].w \in Seq(A)
    BY <2>4, <2>5, <2>6, <2>7, <2>8
  <2> HIDE DEF t
  <2> QED
    BY <2>1, <2>9, <2>10
<1>2. Numbers(kept)
  <2>1. kept \in SUBSET (1..11)
    BY DEF Detected
  <2>2. IsFiniteSet(1..11)
    <3>1. \A k \in Nat : IsFiniteSet(1..k)
      BY FS_Interval
    <3> QED
      BY <3>1
  <2> HIDE DEF kept
  <2>3. IsFiniteSet(kept)
    BY <2>1, <2>2, FS_Subset
  <2> QED
    BY <2>1, <2>3 DEF Numbers
<1>3. ValidPatterns(s) = Picked(found, kept)
  BY DEF ValidPatterns
<1>4. \A i \in kept : found[i].w \in Seq(A)
  BY <1>1
<1> HIDE DEF found, kept
<1>5. /\ DOMAIN Picked(found, kept) = 1..Cardinality(kept)
      /\ \A n \in 1..Cardinality(kept) : \E i \in kept : Picked(found, kept)[n] = found[i]
  BY <1>2, PickedIn
<1> QED
  BY <1>3, <1>4, <1>5

\* So are the points of every count in play.
LEMMA CountsOf ==
    ASSUME NEW A, A \subseteq Pivots, NEW pivots \in Seq(A), NEW signals, NEW price,
           CountsInPlay(WaveCounts(pivots, signals), price) # <<>>
    PROVE  CountsInPlay(WaveCounts(pivots, signals), price)[1].w \in Seq(A)
<1> DEFINE patterns == ValidPatterns(pivots)
           weighed == [i \in DOMAIN patterns |-> Weighed(patterns[i].type, patterns[i].w, signals)]
           counts == WaveCounts(pivots, signals)
           m == Len(patterns)
<1>0. pivots \in Seq(Pivots)
  OBVIOUS
<1>1. /\ DOMAIN weighed = 1..m /\ m \in Nat /\ \A i \in 1..m : IsWeighed(weighed[i])
      /\ \A i \in 1..m : weighed[i].w \in Seq(A)
  <2>1. patterns \in Seq({d \in [type : PatternTypes, w : Seq(Pivots)] : IsPattern(d)})
    BY <1>0, ValidIn
  <2>2. \A i \in DOMAIN patterns : patterns[i].w \in Seq(A)
    BY ValidOf
  <2> HIDE DEF patterns
  <2>3. DOMAIN patterns = 1..m /\ m \in Nat /\ \A i \in 1..m : IsPattern(patterns[i])
    BY <2>1
  <2>4. \A i \in 1..m : IsWeighed(Weighed(patterns[i].type, patterns[i].w, signals))
    BY <2>3, WeighedIn DEF IsPattern
  <2>5. \A type, w : Weighed(type, w, signals).w = w
    BY DEF Weighed
  <2>6. \A i \in 1..m : weighed[i].w = patterns[i].w
    BY <2>3, <2>5
  <2> QED
    BY <2>2, <2>3, <2>4, <2>6
<1>2. counts = RankedCounts(weighed)
  BY DEF WaveCounts
<1> HIDE DEF weighed
<1>3. Listed(counts, m) /\ \A i \in 1..m : counts[i].w \in Seq(A)
  <2> HIDE DEF counts, m
  <2>1. DOMAIN weighed = 1..m /\ m \in Nat /\ \A i \in 1..m : IsWeighed(weighed[i])
    BY <1>1
  <2>2. Listed(RankedCounts(weighed), m) /\ SameWindows(RankedCounts(weighed), weighed, m)
    BY <2>1, RankedIn
  <2> QED
    BY <1>1, <1>2, <2>2 DEF SameWindows
<1> HIDE DEF counts, m, patterns
<1> DEFINE T == {i \in DOMAIN counts : InZone(counts[i], price)}
           near == Picked(counts, T)
<1>4. T \in SUBSET (1..m)
  BY <1>3 DEF Listed
<1>5. CountsInPlay(counts, price) = IF near = <<>> THEN counts ELSE near
  BY DEF CountsInPlay
<1> HIDE DEF T
<1>6. Numbers(T)
  <2>1. IsFiniteSet(1..m)
    BY <1>1, FS_Interval
  <2>2. IsFiniteSet(T)
    BY <1>4, <2>1, FS_Subset
  <2> QED
    BY <1>4, <2>2 DEF Numbers
<1>7. /\ \A n \in 1..Cardinality(T) : \E i \in T : near[n] = counts[i]
      /\ near = <<>> <=> T = {}
      /\ T # {} => 1 \in 1..Cardinality(T)
  BY <1>6, PickedIn
<1> HIDE DEF near
<1>8. near # <<>> => near[1].w \in Seq(A)
  BY <1>3, <1>4, <1>7
<1>9. counts # <<>> => counts[1].w \in Seq(A)
  <2>1. m = 0 => counts = <<>>
    BY <1>3 DEF Listed
  <2>2. m # 0 => 1 \in 1..m
    BY <1>1
  <2> QED
    BY <1>3, <2>1, <2>2
<1> QED
  BY <1>5, <1>8, <1>9 DEF counts

-----------------------------------------------------------------------------
(* Scenarios that can be traded *)

\* The least price of which three hundredths, rounded, are a unit of price
Least == 17

\* What ScenariosTradeable says of one scenario
Tradeable(s) ==
    /\ Further(s.bias, s.entry, s.stop)
    /\ s.targets # <<>>
    /\ \A t \in DOMAIN s.targets : Further(s.bias, s.targets[t], s.entry)

\* The stop is on the losing side already, or the entry is high enough for one to be
\* put there.
Stoppable(s) == s.entry >= Least \/ Further(s.bias, s.entry, s.stop)

\* The stop of a scenario is put on the losing side of its entry.
LEMMA StopBehind ==
    ASSUME NEW bias \in Directions, NEW entry \in Int, NEW stop \in Int, NEW k \in Levels,
           entry >= Least \/ Further(bias, entry, stop)
    PROVE  Further(bias, entry, LosingStop(bias, entry, stop, k))
<1>1. k.support \in Int /\ k.resistance \in Int
  BY DEF Levels
<1>2. CASE Further(bias, entry, stop)
  BY <1>2 DEF LosingStop
<1>3. CASE ~Further(bias, entry, stop) /\ bias = "bullish"
  <2>1. entry >= 17
    BY <1>3 DEF Least
  <2>2. \A level \in Int : entry > level => entry > Times(995, level)
    BY <2>1 DEF Times
  <2>3. entry > Times(970, entry)
    BY <2>1 DEF Times
  <2>4. LosingStop(bias, entry, stop, k)
          = IF k.support # NoPrice /\ entry > k.support THEN Times(995, k.support)
            ELSE Times(970, entry)
    BY <1>3 DEF LosingStop, Either, Further
  <2> QED
    BY <1>1, <1>3, <2>2, <2>3, <2>4 DEF Further
<1>4. CASE ~Further(bias, entry, stop) /\ bias # "bullish"
  <2>1. entry >= 17
    BY <1>4 DEF Least
  <2>2. \A level \in Int : entry < level => entry < Times(1005, level)
    BY <2>1 DEF Times
  <2>3. entry < Times(1030, entry)
    BY <2>1 DEF Times
  <2>4. LosingStop(bias, entry, stop, k)
          = IF k.resistance # NoPrice /\ entry < k.resistance THEN Times(1005, k.resistance)
            ELSE Times(1030, entry)
    BY <1>4 DEF LosingStop, Either, Further
  <2> QED
    BY <1>1, <1>4, <2>2, <2>3, <2>4 DEF Further
<1> QED
  BY <1>2, <1>3, <1>4

\* An entry that is moved into a zone is a high one.
LEMMA RefinedHigh ==
    ASSUME NEW zones \in Seq(ZoneSet), NEW entry \in Int
    PROVE  Refined(entry, zones) = entry \/ Refined(entry, zones) >= Least
<1> DEFINE near == NearOf(entry, zones)
<1>1. /\ near = {} => Refined(entry, zones) = entry
      /\ near # {} => /\ Min(near) \in near
                      /\ Refined(entry, zones) = zones[Min(near)].center
      /\ \A i \in DOMAIN zones : zones[i].center \in Int
  BY RefinedIs
<1>2. \A i \in near : i \in DOMAIN zones /\ 1000 * Length(zones[i].center - entry) <= 15 * entry
  BY DEF NearOf
<1> HIDE DEF near
<1>3. \A c \in Int : 1000 * Length(c - entry) <= 15 * entry => c = entry \/ c >= Least
  BY DEF Length, Least
<1> QED
  BY <1>1, <1>2, <1>3

\* The targets kept are on the winning side.
LEMMA WinningAhead ==
    ASSUME NEW bias, NEW entry, NEW targets \in Seq(Int)
    PROVE  LET w == WinningTargets(bias, entry, targets)
           IN  \A t \in DOMAIN w : Further(bias, w[t], entry)
<1> DEFINE T == {i \in DOMAIN targets : Further(bias, targets[i], entry)}
<1>1. WinningTargets(bias, entry, targets) = Picked(targets, T)
  BY DEF WinningTargets
<1>2. T \in SUBSET (DOMAIN targets) /\ \A i \in T : Further(bias, targets[i], entry)
  OBVIOUS
<1> HIDE DEF T
<1>3. Numbers(T)
  BY <1>2, Indices
<1>4. /\ DOMAIN Picked(targets, T) = 1..Cardinality(T)
      /\ \A n \in 1..Cardinality(T) : \E i \in T : Picked(targets, T)[n] = targets[i]
  BY <1>3, PickedIn
<1> QED
  BY <1>1, <1>2, <1>4

\* Targets at multiples of a risk are on the winning side.
LEMMA RiskAhead ==
    ASSUME NEW bias, NEW entry \in Int, NEW stop \in Int, entry # stop,
           NEW rs, DOMAIN rs = 1..3, \A i \in 1..3 : rs[i] \in Int /\ rs[i] >= 1000
    PROVE  /\ DOMAIN RiskTargets(bias, entry, stop, rs) = 1..3
           /\ \A i \in 1..3 : Further(bias, RiskTargets(bias, entry, stop, rs)[i], entry)
<1> DEFINE step == Length(entry - stop)
<1>1. step \in Int /\ step >= 1
  BY DEF Length
<1>2. RiskTargets(bias, entry, stop, rs)
        = [i \in DOMAIN rs |-> entry + Either(bias, 1, -1) * Times(rs[i], step)]
  BY DEF RiskTargets
<1> HIDE DEF step
<1>3. \A r \in Int : r >= 1000 => Times(r, step) \in Int /\ Times(r, step) >= 1
  <2> SUFFICES ASSUME NEW r \in Int, r >= 1000 PROVE Times(r, step) \in Int /\ Times(r, step) >= 1
    OBVIOUS
  <2> DEFINE product == r * step
  <2>1. product \in Int /\ product >= 1000
    BY <1>1
  <2> HIDE DEF product
  <2>2. (product + 500) \div 1000 \in Int /\ (product + 500) \div 1000 >= 1
    BY <2>1
  <2> QED
    BY <2>2 DEF Times, product
<1>4. \A x \in Int : x >= 1 => Further(bias, entry + Either(bias, 1, -1) * x, entry)
  BY DEF Further, Either
<1>5. \A i \in 1..3 : Further(bias, entry + Either(bias, 1, -1) * Times(rs[i], step), entry)
  BY <1>3, <1>4
<1> QED
  BY <1>2, <1>5

\* So are the targets of _fill_missing_targets, if there was one.
LEMMA FilledAhead ==
    ASSUME NEW bias, NEW entry \in Int, NEW stop \in Int, entry # stop,
           NEW targets \in Seq(Int),
           \A t \in DOMAIN targets : Further(bias, targets[t], entry)
    PROVE  LET filled == Filled(bias, entry, stop, targets)
           IN  filled # <<>> /\ \A t \in DOMAIN filled : Further(bias, filled[t], entry)
<1> DEFINE rs == <<1000, 2000, 3000>>
           risk == RiskTargets(bias, entry, stop, rs)
<1>1. DOMAIN rs = 1..3 /\ \A i \in 1..3 : rs[i] \in Int /\ rs[i] >= 1000
  OBVIOUS
<1>2. Filled(bias, entry, stop, targets)
        = [i \in 1..3 |-> IF i <= Len(targets) THEN targets[i] ELSE risk[i]]
  BY DEF Filled
<1> HIDE DEF rs
<1>3. \A i \in 1..3 : Further(bias, risk[i], entry)
  BY <1>1, RiskAhead
<1> HIDE DEF risk
<1>4. \A i \in 1..3 : i <= Len(targets) => i \in DOMAIN targets
  OBVIOUS
<1> QED
  BY <1>2, <1>3, <1>4

\* So are those of an alternate scenario.
LEMMA AlternateAhead ==
    ASSUME NEW bias, NEW entry \in Int, NEW stop \in Int, entry # stop
    PROVE  LET made == AlternateTargets(bias, entry, stop)
           IN  made # <<>> /\ \A t \in DOMAIN made : Further(bias, made[t], entry)
<1> DEFINE rs == <<1000, 1272, 1618>>
<1>1. DOMAIN rs = 1..3 /\ \A i \in 1..3 : rs[i] \in Int /\ rs[i] >= 1000
  OBVIOUS
<1>2. AlternateTargets(bias, entry, stop) = RiskTargets(bias, entry, stop, rs)
  BY DEF AlternateTargets
<1> HIDE DEF rs
<1>3. /\ DOMAIN RiskTargets(bias, entry, stop, rs) = 1..3
      /\ \A i \in 1..3 : Further(bias, RiskTargets(bias, entry, stop, rs)[i], entry)
  BY <1>1, RiskAhead
<1>4. 1 \in 1..3 /\ DOMAIN <<>> = {}
  OBVIOUS
<1> QED
  BY <1>2, <1>3, <1>4

\* A scenario that _sanitize_scenarios keeps can be traded.
LEMMA SanitizedTradeable ==
    ASSUME NEW s \in Trades, Stoppable(s), NEW k \in Levels, Sanitized(s, k).targets # <<>>
    PROVE  Tradeable(Sanitized(s, k))
<1> DEFINE stop == LosingStop(s.bias, s.entry, s.stop, k)
           winning == WinningTargets(s.bias, s.entry, s.targets)
           filled == Filled(s.bias, s.entry, stop, winning)
<1>1. s.bias \in Directions /\ s.entry \in Int /\ s.stop \in Int /\ s.targets \in Seq(Int)
  BY DEF Trades
<1>2. stop \in Int /\ Further(s.bias, s.entry, stop)
  BY <1>1, LosingStopIn, StopBehind DEF Stoppable
<1>3. s.entry # stop
  BY <1>1, <1>2 DEF Further
<1>4. winning \in Seq(Int) /\ \A t \in DOMAIN winning : Further(s.bias, winning[t], s.entry)
  BY <1>1, WinningIn, WinningAhead
<1> HIDE DEF stop, winning
<1>5. filled # <<>> /\ \A t \in DOMAIN filled : Further(s.bias, filled[t], s.entry)
  BY <1>1, <1>2, <1>3, <1>4, FilledAhead
<1> HIDE DEF filled
<1>6. Sanitized(s, k) = [s EXCEPT !.stop = stop, !.targets = IF winning = <<>> THEN <<>> ELSE filled]
  BY DEF Sanitized, stop, winning, filled
<1>7. /\ Sanitized(s, k).bias = s.bias /\ Sanitized(s, k).entry = s.entry
      /\ Sanitized(s, k).stop = stop
      /\ Sanitized(s, k).targets = IF winning = <<>> THEN <<>> ELSE filled
  BY <1>6 DEF Trades
<1>8. Sanitized(s, k).targets = filled
  BY <1>7
<1> QED
  BY <1>2, <1>5, <1>7, <1>8 DEF Tradeable

\* So can all of them.
LEMMA AllTradeable ==
    ASSUME NEW scenarios \in Seq(Trades), \A i \in DOMAIN scenarios : Stoppable(scenarios[i]),
           NEW k \in Levels
    PROVE  \A i \in DOMAIN AllSanitized(scenarios, k) : Tradeable(AllSanitized(scenarios, k)[i])
<1> DEFINE all == [i \in DOMAIN scenarios |-> Sanitized(scenarios[i], k)]
           T == {i \in DOMAIN all : all[i].targets # <<>>}
<1>1. AllSanitized(scenarios, k) = Picked(all, T)
  BY DEF AllSanitized
<1>2. T \in SUBSET (DOMAIN scenarios)
  OBVIOUS
<1>3. \A i \in T : Tradeable(all[i])
  <2> SUFFICES ASSUME NEW i \in T PROVE Tradeable(all[i])
    OBVIOUS
  <2>1. /\ i \in DOMAIN scenarios /\ scenarios[i] \in Trades
        /\ all[i] = Sanitized(scenarios[i], k) /\ all[i].targets # <<>>
    OBVIOUS
  <2> QED
    BY <2>1, SanitizedTradeable
<1> HIDE DEF T, all
<1>4. Numbers(T)
  BY <1>2, Indices
<1>5. /\ DOMAIN Picked(all, T) = 1..Cardinality(T)
      /\ \A n \in 1..Cardinality(T) : \E i \in T : Picked(all, T)[n] = all[i]
  BY <1>4, PickedIn
<1> QED
  BY <1>1, <1>3, <1>5

-----------------------------------------------------------------------------
(* Levels of high prices *)

\* Pivots whose prices are high enough
HighPivots == {p \in Pivots : p.price >= Least}

\* Key levels of such pivots
HighLevels(k) ==
    /\ k.resistance >= Least
    /\ k.confirmation >= Least
    /\ k.c = NoPrice \/ k.c >= Least

\* The levels of a count are prices of its points.
LEMMA KeyLevelsHigh ==
    ASSUME NEW type \in PatternTypes, NEW w \in WindowsOf(PointsOf(type)), w \in Seq(HighPivots)
    PROVE  HighLevels(KeyLevels(type, w))
<1> DEFINE bias == DirectionOf(w)
           prices == {w[i].price : i \in DOMAIN w}
<1>1. w \in Seq(Pivots) /\ Len(w) = PointsOf(type) /\ Len(w) \in {3, 5, 6} /\ w # <<>>
  <2>1. w \in Seq(Pivots) /\ Len(w) = PointsOf(type) /\ Len(w) \in {3, 5, 6}
    BY PatternsHave DEF WindowsOf
  <2>2. Len(<<>>) = 0
    OBVIOUS
  <2> QED
    BY <2>1, <2>2
<1>2. \A i \in 1..Len(w) : w[i].price \in Int /\ w[i].price >= Least
  BY DEF HighPivots, Pivots
<1>3. \A x \in prices : x \in Int /\ x >= Least
  <2>1. DOMAIN w = 1..Len(w)
    BY <1>1
  <2> QED
    BY <1>2, <2>1
<1>4. Min(prices) \in prices /\ Max(prices) \in prices
  <2>1. Numbers(prices) /\ prices # {}
    BY <1>1, PricesIn, SpanIsInt
  <2> QED
    BY <2>1, MinOf, MaxOf
<1> HIDE DEF prices
<1>5. Foremost(bias, prices) >= Least /\ Max(prices) >= Least
  BY <1>3, <1>4 DEF Foremost, Either
<1>6. \A x, y \in Int : x >= Least /\ y >= Least =>
         Max({x, y}) >= Least /\ Foremost(bias, {x, y}) >= Least
  <2> SUFFICES ASSUME NEW x \in Int, NEW y \in Int, x >= Least, y >= Least
               PROVE  Max({x, y}) >= Least /\ Foremost(bias, {x, y}) >= Least
    OBVIOUS
  <2>1. Max({x, y}) \in {x, y} /\ Foremost(bias, {x, y}) \in {x, y}
    BY PairNumbers, FarNear
  <2> QED
    BY <2>1
<1> HIDE DEF bias
<1>7. CASE type = "IMPULSE"
  <2>1. /\ KeyLevels(type, w).resistance = Max({w[5].price, w[6].price})
        /\ KeyLevels(type, w).confirmation = w[6].price /\ KeyLevels(type, w).c = NoPrice
    BY <1>7 DEF KeyLevels, Triangles, Diagonals
  <2>2. 5 \in 1..Len(w) /\ 6 \in 1..Len(w)
    BY <1>1, <1>7 DEF PointsOf
  <2>3. w[5].price \in Int /\ w[6].price \in Int /\ w[5].price >= Least /\ w[6].price >= Least
    BY <1>2, <2>2
  <2>4. Max({w[5].price, w[6].price}) >= Least
    BY <1>6, <2>3
  <2> QED
    BY <2>1, <2>3, <2>4 DEF HighLevels
<1>8. CASE type \in Triangles
  <2>1. /\ KeyLevels(type, w).resistance = Max(prices) /\ KeyLevels(type, w).confirmation = Max(prices)
        /\ KeyLevels(type, w).c = NoPrice
    BY <1>8 DEF KeyLevels, Triangles, Diagonals, prices
  <2> QED
    BY <1>5, <2>1 DEF HighLevels
<1>9. CASE type \in Diagonals
  <2>1. /\ KeyLevels(type, w).resistance = Max(prices)
        /\ KeyLevels(type, w).confirmation = Foremost(bias, prices)
        /\ KeyLevels(type, w).c = NoPrice
    BY <1>9 DEF KeyLevels, Triangles, Diagonals, prices, bias
  <2> QED
    BY <1>5, <2>1 DEF HighLevels
<1>10. CASE type \in Plain
  <2>1. KeyLevels(type, w) = CorrectiveLevels(bias, w[1].price, w[2].price, w[3].price)
    BY <1>10 DEF KeyLevels, Plain, PatternTypes, Flats, Triangles, Diagonals, bias
  <2>2. 2 \in 1..Len(w) /\ 3 \in 1..Len(w)
    BY <1>1
  <2> DEFINE b == w[2].price
             c == w[3].price
  <2>3. b \in Int /\ c \in Int /\ b >= Least /\ c >= Least
    BY <1>2, <2>2
  <2>4. KeyLevels(type, w) = CorrectiveLevels(bias, w[1].price, b, c)
    BY <2>1
  <2> HIDE DEF b, c
  <2>5. /\ KeyLevels(type, w).resistance = Max({b, c})
        /\ KeyLevels(type, w).confirmation = Foremost(bias, {b, c})
        /\ KeyLevels(type, w).c = c
    BY <2>4 DEF CorrectiveLevels
  <2>6. Max({b, c}) >= Least /\ Foremost(bias, {b, c}) >= Least
    BY <1>6, <2>3
  <2> QED
    BY <2>3, <2>5, <2>6 DEF HighLevels
<1> QED
  BY <1>7, <1>8, <1>9, <1>10 DEF Plain

\* Levels rebuilt around a high price are high.
LEMMA AroundHigh ==
    ASSUME NEW k \in Levels, HighLevels(k), NEW pivots \in Seq(Pivots), pivots # <<>>,
           NEW wave \in Found, NEW price \in Int, price >= Least, NEW atr \in Int
    PROVE  HighLevels(LevelsAround(k, pivots, wave, price, atr))
<1> DEFINE bracket == Bracket(pivots, wave, price, atr)
           rebuilt == [support |-> bracket[1], resistance |-> bracket[2],
                       invalidation |-> IF wave = NoWave THEN bracket[1] ELSE wave.invalidation,
                       confirmation |-> bracket[2], start |-> bracket[1],
                       end |-> NoPrice, b |-> NoPrice, c |-> NoPrice]
<1>1. bracket[1] \in Int /\ bracket[2] \in Int
  BY BracketIn
<1>2. LevelsAround(k, pivots, wave, price, atr)
        = IF LevelsLeft(k, price) /\ bracket[1] < price /\ price < bracket[2] THEN rebuilt ELSE k
  BY DEF LevelsAround
<1> HIDE DEF bracket
<1>3. price < bracket[2] => HighLevels(rebuilt)
  BY <1>1 DEF HighLevels, Least
<1> HIDE DEF rebuilt
<1> QED
  BY <1>2, <1>3

\* Where a plan's prices are high, as its stops need them to be
HighPlan(position, k) ==
    /\ k.resistance >= Least
    /\ k.c = NoPrice \/ k.c >= Least
    /\ position.structure \notin Correctives => k.confirmation >= Least
    /\ position.structure \in Correctives =>
           /\ k.support <= k.resistance
           /\ k.confirmation = Either(position.bias, k.resistance, k.support)
           /\ k.invalidation = Either(position.bias, k.support, k.resistance)

\* Levels aligned to a bias: the confirmation is one end, the invalidation the other.
LEMMA AlignedHigh ==
    ASSUME NEW k \in Levels, HighLevels(k), NEW bias \in Directions
    PROVE  LET a == AlignedTo(bias, k)
           IN  /\ a.resistance >= Least /\ a.c = k.c /\ a.support <= a.resistance
               /\ a.confirmation = Either(bias, a.resistance, a.support)
               /\ a.invalidation = Either(bias, a.support, a.resistance)
<1> DEFINE all == {k.support, k.resistance, k.b, k.c}
           anchors == all \ {NoPrice}
           low == Min(anchors)
           high == Max(anchors)
<1>1. k.support \in Int /\ k.resistance \in Int /\ k.b \in Int /\ k.c \in Int
  BY DEF Levels
<1>2. k.resistance \in anchors /\ anchors \subseteq all /\ anchors # {}
  BY <1>1 DEF HighLevels, Least, NoPrice
<1>3. Numbers(all)
  <2>1. Numbers({k.support, k.resistance})
    BY <1>1, PairNumbers
  <2>2. Numbers({k.support, k.resistance} \cup {k.b})
    BY <1>1, <2>1, JoinedNumbers
  <2>3. Numbers(({k.support, k.resistance} \cup {k.b}) \cup {k.c})
    BY <1>1, <2>2, JoinedNumbers
  <2>4. all = ({k.support, k.resistance} \cup {k.b}) \cup {k.c}
    OBVIOUS
  <2> QED
    BY <2>3, <2>4
<1>4. AlignedTo(bias, k) = [k EXCEPT !.support = low, !.resistance = high,
                                     !.invalidation = Rearmost(bias, anchors),
                                     !.confirmation = Foremost(bias, anchors)]
  BY DEF AlignedTo
<1> HIDE DEF all, anchors
<1>5. low \in Int /\ high \in Int /\ low <= k.resistance /\ k.resistance <= high
  BY <1>2, <1>3, PartNumbers
<1>6. Rearmost(bias, anchors) = Either(bias, low, high) /\ Foremost(bias, anchors) = Either(bias, high, low)
  BY DEF Rearmost, Foremost
<1> HIDE DEF low, high
<1>7. low <= high /\ high >= Least
  BY <1>1, <1>5 DEF HighLevels, Least
<1> QED
  BY <1>4, <1>6, <1>7 DEF Levels

\* The levels of a plan on a chart of high prices
LEMMA PlannedHigh ==
    ASSUME NEW c, IsCount(c), c.w \in Seq(HighPivots), NEW wave \in Found,
           NEW pivots \in Seq(Pivots), pivots # <<>>,
           NEW price \in Int, price >= Least, NEW atr \in Int
    PROVE  HighPlan(Position(c, wave),
                    PlanLevels(Position(c, wave),
                               LevelsAround(KeyLevels(c.type, c.w), pivots, wave, price, atr)))
<1> DEFINE position == Position(c, wave)
           key == KeyLevels(c.type, c.w)
           around == LevelsAround(key, pivots, wave, price, atr)
           k == PlanLevels(position, around)
<1>1. key \in Levels /\ HighLevels(key)
  BY KeyLevelsIn, KeyLevelsHigh DEF IsCount
<1>2. position.structure \notin Triangles => position.bias \in Directions
  BY PositionIn
<1> HIDE DEF key, position
<1>3. around \in Levels /\ HighLevels(around)
  BY <1>1, LevelsAroundIn, AroundHigh
<1> HIDE DEF around
<1>4. HighPlan(position, k)
  <2>1. CASE position.structure \in Correctives
    <3>1. position.bias \in Directions
      BY <1>2, <2>1 DEF Correctives, Triangles, Flats
    <3>2. k = AlignedTo(position.bias, around)
      BY <2>1 DEF PlanLevels
    <3> HIDE DEF k
    <3>3. /\ k.resistance >= Least /\ k.c = around.c /\ k.support <= k.resistance
          /\ k.confirmation = Either(position.bias, k.resistance, k.support)
          /\ k.invalidation = Either(position.bias, k.support, k.resistance)
      BY <1>3, <3>1, <3>2, AlignedHigh
    <3> QED
      BY <1>3, <2>1, <3>3 DEF HighPlan, HighLevels
  <2>2. CASE position.structure \notin Correctives
    <3>1. k = around
      BY <2>2 DEF PlanLevels
    <3> QED
      BY <1>3, <2>2, <3>1 DEF HighPlan, HighLevels
  <2> QED
    BY <2>1, <2>2
<1> QED
  BY <1>4 DEF k, around, key, position

\* The tighter stop stays on the losing side (_compute_tighter_sl).
LEMMA TighterBehind ==
    ASSUME NEW bias \in Directions, NEW structural \in Int, NEW entry \in Int,
           Further(bias, entry, structural), NEW pivots \in Seq(Pivots), NEW atr \in Nat
    PROVE  Further(bias, entry, TighterStop(bias, structural, entry, pivots, atr))
<1> DEFINE type == Either(bias, "L", "H")
           T == {j \in DOMAIN pivots : pivots[j].type = type /\ Further(bias, entry, pivots[j].price)}
           behind == {pivots[i].price : i \in T}
           buffer == Times(300, atr)
           swing == Either(bias, Max(behind) - buffer, Min(behind) + buffer)
<1>1. TighterStop(bias, structural, entry, pivots, atr)
        = IF behind = {} THEN structural ELSE NoLooser(bias, swing, structural)
  BY DEF TighterStop
<1>2. T \in SUBSET (DOMAIN pivots) /\ \A i \in T : Further(bias, entry, pivots[i].price)
  OBVIOUS
<1> HIDE DEF T
<1>3. Numbers(behind) /\ \A x \in behind : x \in Int /\ Further(bias, entry, x)
  <2>1. Numbers(behind)
    BY <1>2, PricesIn
  <2> QED
    BY <1>2, <2>1 DEF Numbers
<1> HIDE DEF behind
<1>4. behind # {} => /\ Min(behind) \in Int /\ Further(bias, entry, Min(behind))
                     /\ Max(behind) \in Int /\ Further(bias, entry, Max(behind))
  BY <1>3, MinOf, MaxOf
<1>5. buffer \in Int /\ buffer >= 0
  BY DEF Times
<1> HIDE DEF buffer
<1>6. behind # {} => swing \in Int /\ Further(bias, entry, swing)
  BY <1>4, <1>5 DEF Further, Either
<1> HIDE DEF swing
<1>7. swing \in Int => NoLooser(bias, swing, structural) \in {swing, structural}
  BY FarNear DEF NoLooser
<1> QED
  BY <1>1, <1>6, <1>7

-----------------------------------------------------------------------------
(* The plans of high prices *)

\* Every scenario has its stop on the losing side or is high enough to get one.
AllStoppable(s) == \A i \in DOMAIN s : Stoppable(s[i])

\* The two scenarios of a triangle
LEMMA BreakoutStoppable ==
    ASSUME NEW k \in Levels, k.support <= k.resistance, k.resistance >= Least,
           NEW zones \in Seq(ZoneSet)
    PROVE  AllStoppable(BreakoutScenarios(k, zones))
<1> DEFINE range == k.resistance - k.support
           Out(level, sign) == [i \in 1..3 |-> level + sign * Times(<<1000, 1618, 2618>>[i], range)]
           up == Scenario("Bullish Breakout", "bullish", Refined(k.resistance, zones), k.support,
                          k.support, Out(k.resistance, 1))
           down == Scenario("Bearish Breakdown", "bearish", Refined(k.support, zones),
                            k.resistance, k.resistance, Out(k.support, -1))
<1>1. k.support \in Int /\ k.resistance \in Int
  BY DEF Levels
<1>2. /\ Refined(k.support, zones) = k.support \/ Refined(k.support, zones) >= Least
      /\ Refined(k.resistance, zones) = k.resistance \/ Refined(k.resistance, zones) >= Least
  BY <1>1, RefinedHigh
<1>3. BreakoutScenarios(k, zones) = <<up, down>>
  BY DEF BreakoutScenarios
<1>4. /\ up.entry = Refined(k.resistance, zones)
      /\ down.bias = "bearish" /\ down.entry = Refined(k.support, zones) /\ down.stop = k.resistance
  BY DEF Scenario
<1> HIDE DEF up, down
<1>5. Stoppable(up)
  BY <1>1, <1>2, <1>4 DEF Stoppable
<1>6. Stoppable(down)
  BY <1>1, <1>2, <1>4 DEF Stoppable, Further, Least
<1>7. \A i \in DOMAIN <<up, down>> : <<up, down>>[i] = up \/ <<up, down>>[i] = down
  OBVIOUS
<1> QED
  BY <1>3, <1>5, <1>6, <1>7 DEF AllStoppable

\* The two scenarios of a correction: the stop of one is the confirmation of the other.
LEMMA CorrectiveStoppable ==
    ASSUME NEW position, position.structure \in Correctives, position.bias \in Directions,
           NEW k \in Levels, HighPlan(position, k), NEW zones \in Seq(ZoneSet),
           NEW pivots \in Seq(Pivots), NEW atr \in Nat
    PROVE  AllStoppable(CorrectiveScenarios(position.bias, k,
                                            Projection(position, k, pivots, atr), zones))
<1> DEFINE bias == position.bias
           p == Projection(position, k, pivots, atr)
           last == LastOf(bias, k)
           entry == Refined(p.confirmation, zones)
           other == Refined(last, zones)
           against == Opposite(bias)
           main == Scenario(MainName(bias), bias, entry, p.stop, p.invalidation,
                            AlignedTargets(bias, entry, p.stop, Distinct(p.targets)))
           alternate == Scenario(Either(bias, "Alternate Bearish", "Alternate Bullish"), against,
                                 other, p.confirmation, p.confirmation,
                                 AlternateTargets(against, other, p.confirmation))
<1>1. /\ k.support \in Int /\ k.resistance \in Int /\ k.c \in Int
      /\ k.confirmation \in Int /\ k.invalidation \in Int
  BY DEF Levels
<1>2. /\ k.resistance >= Least /\ k.support <= k.resistance
      /\ k.c = NoPrice \/ k.c >= Least
      /\ k.confirmation = Either(bias, k.resistance, k.support)
      /\ k.invalidation = Either(bias, k.support, k.resistance)
  BY DEF HighPlan
<1>3. bias \in Directions
  OBVIOUS
<1>4. /\ p.confirmation = k.confirmation
      /\ p.stop = TighterStop(bias, k.invalidation, k.confirmation, pivots, atr)
  <2>1. p = CorrectiveProjection(bias, k, pivots, atr)
    BY DEF Projection, Correctives, Triangles, Flats
  <2> HIDE DEF p, bias
  <2> QED
    BY <2>1 DEF CorrectiveProjection
<1>5. CorrectiveScenarios(bias, k, p, zones) = <<main, alternate>>
  BY DEF CorrectiveScenarios, LastOf
<1>6. main.bias = bias /\ main.entry = entry /\ main.stop = p.stop
  BY DEF Scenario
<1>7. alternate.bias = against /\ alternate.entry = other /\ alternate.stop = p.confirmation
  BY DEF Scenario
<1> HIDE DEF p, main, alternate, bias
<1>8. Stoppable(main)
  <2>1. entry = k.confirmation \/ entry >= Least
    BY <1>1, <1>4, RefinedHigh
  <2>2. k.confirmation >= Least \/ Further(bias, k.confirmation, p.stop)
    <3>1. CASE bias = "bullish"
      BY <1>2, <3>1 DEF Either
    <3>2. CASE bias # "bullish" /\ k.support < k.resistance
      <4>1. Further(bias, k.confirmation, k.invalidation)
        BY <1>2, <3>2 DEF Either, Further
      <4> QED
        BY <1>1, <1>3, <1>4, <4>1, TighterBehind
    <3>3. CASE bias # "bullish" /\ ~(k.support < k.resistance)
      BY <1>1, <1>2, <3>3 DEF Either, Least
    <3> QED
      BY <3>1, <3>2, <3>3
  <2> HIDE DEF entry
  <2> QED
    BY <1>1, <1>6, <2>1, <2>2 DEF Stoppable
<1>9. Stoppable(alternate)
  <2>1. last \in Int
    BY <1>1 DEF LastOf, Either
  <2> HIDE DEF last
  <2>2. other = last \/ other >= Least
    BY <2>1, RefinedHigh
  <2> HIDE DEF other
  <2>3. last >= Least \/ Further(against, last, k.confirmation)
    <3>1. CASE k.c # NoPrice
      BY <1>2, <3>1 DEF last, LastOf
    <3>2. CASE k.c = NoPrice /\ bias = "bullish"
      <4>1. last = k.support /\ k.confirmation = k.resistance /\ against = "bearish"
        BY <1>2, <3>2 DEF last, LastOf, Either, Opposite
      <4> QED
        BY <1>1, <1>2, <4>1 DEF Further, Least
    <3>3. CASE k.c = NoPrice /\ bias # "bullish"
      BY <1>2, <3>3 DEF last, LastOf, Either
    <3> QED
      BY <3>1, <3>2, <3>3
  <2> QED
    BY <1>4, <1>7, <2>2, <2>3 DEF Stoppable
<1>10. \A i \in DOMAIN <<main, alternate>> :
           <<main, alternate>>[i] = main \/ <<main, alternate>>[i] = alternate
  OBVIOUS
<1> QED
  BY <1>5, <1>8, <1>9, <1>10 DEF AllStoppable, bias, p

\* What can be said of every plan on a chart of high prices
LEMMA PlanTradeable ==
    ASSUME NEW position, position.building \in BOOLEAN, NEW k, IsPlanned(position, k),
           HighPlan(position, k), NEW zones \in Seq(ZoneSet), NEW pivots \in Seq(Pivots),
           NEW atr \in Nat
    PROVE  LET plan == PlanScenarios(position, k, Projection(position, k, pivots, atr), zones)
           IN  \A i \in DOMAIN plan : Tradeable(plan[i])
<1> DEFINE p == Projection(position, k, pivots, atr)
           plan == CASE position.structure \in Triangles -> BreakoutScenarios(k, zones)
                     [] position.structure \in Correctives ->
                            CorrectiveScenarios(position.bias, k, p, zones)
                     [] OTHER -> TrendScenarios(position.bias, position.building, k, p, zones)
<1>1. k \in Levels
  BY DEF IsPlanned
<1>2. PlanScenarios(position, k, p, zones) = AllSanitized(plan, k)
  BY DEF PlanScenarios
<1>3. position.structure \notin Correctives \/ position.structure \notin Triangles
  BY DEF Correctives, Triangles, Flats
<1>4. IsProjection(p, k)
  BY <1>1, ProjectionIn
<1>5. plan \in Seq(Trades) /\ AllStoppable(plan)
  <2>1. CASE position.structure \in Triangles
    <3>1. plan = BreakoutScenarios(k, zones)
      BY <1>3, <2>1
    <3>2. k.support <= k.resistance /\ k.resistance >= Least
      BY <2>1 DEF IsPlanned, HighPlan
    <3>3. IsPlan(BreakoutScenarios(k, zones)) /\ AllStoppable(BreakoutScenarios(k, zones))
      BY <1>1, <3>2, BreakoutIn, BreakoutStoppable
    <3> QED
      BY <3>1, <3>3 DEF IsPlan
  <2>2. CASE position.structure \in Correctives
    <3>1. plan = CorrectiveScenarios(position.bias, k, p, zones)
      BY <1>3, <2>2
    <3>2. /\ position.bias \in Directions /\ LastOf(position.bias, k) \in Int
          /\ IF position.bias = "bullish" THEN LastOf(position.bias, k) <= k.confirmation
             ELSE k.confirmation <= LastOf(position.bias, k)
      BY <1>3, <2>2 DEF IsPlanned
    <3>3. AllStoppable(CorrectiveScenarios(position.bias, k, p, zones))
      BY <1>1, <2>2, <3>2, CorrectiveStoppable
    <3> HIDE DEF p
    <3>4. IsPlan(CorrectiveScenarios(position.bias, k, p, zones))
      BY <1>1, <1>4, <3>2, CorrectiveIn
    <3> QED
      BY <3>1, <3>3, <3>4 DEF IsPlan
  <2>3. CASE position.structure \notin Triangles /\ position.structure \notin Correctives
    <3> DEFINE entry == Refined(p.confirmation, zones)
               made == TrendScenarios(position.bias, position.building, k, p, zones)
    <3>1. plan = made
      BY <2>3
    <3>2. position.bias \in Directions
      BY <2>3 DEF IsPlanned
    <3>3. IsPlan(made) /\ OneEntry(made, entry)
      <4> HIDE DEF p
      <4> QED
        BY <1>1, <1>4, <3>2, TrendIn
    <3>4. p.confirmation = k.confirmation /\ k.confirmation \in Int /\ k.confirmation >= Least
      BY <1>1, <1>4, <2>3 DEF IsProjection, HighPlan, Levels
    <3> HIDE DEF p, made
    <3>5. entry >= Least
      BY <3>4, RefinedHigh
    <3> HIDE DEF entry
    <3>6. AllStoppable(made)
      BY <3>3, <3>5 DEF AllStoppable, OneEntry, Stoppable
    <3> QED
      BY <3>1, <3>3, <3>6 DEF IsPlan
  <2> QED
    BY <2>1, <2>2, <2>3
<1> HIDE DEF plan
<1>6. \A i \in DOMAIN AllSanitized(plan, k) : Tradeable(AllSanitized(plan, k)[i])
  BY <1>1, <1>5, AllTradeable DEF AllStoppable
<1> QED
  BY <1>2, <1>6

\* An early entry can be traded: the price itself is behind it, so that there is a
\* level to stop at.
LEMMA EarlyTradeable ==
    ASSUME NEW wave \in Waves, NEW price \in Int
    PROVE  \A i \in DOMAIN EarlyScenarios(wave, price) : Tradeable(EarlyScenarios(wave, price)[i])
<1> DEFINE bias == wave.building
           targets == {wave.targets[i] : i \in DOMAIN wave.targets}
           ahead == {x \in targets \cup {wave.start} : Further(bias, x, price)}
           entry == Rearmost(bias, ahead)
           levels == targets \cup {price, wave.start, wave.invalidation}
           stop == NearestStop(bias, entry, levels)
           after == {t \in targets : Further(bias, t, entry)}
           onward == InOrder(bias, after)
           invalidation == IF Further(bias, entry, wave.invalidation) THEN wave.invalidation
                           ELSE stop
           aims == IF onward # <<>> THEN onward ELSE AlternateTargets(bias, entry, stop)
           early == Scenario("InProgress Wave", bias, entry, stop, invalidation, aims)
<1>1. /\ bias \in Directions /\ wave.start \in Int /\ wave.invalidation \in Int
      /\ wave.targets \in Seq(Int)
  BY DEF Waves
<1>2. EarlyScenarios(wave, price) = IF targets = {} \/ ahead = {} THEN <<>> ELSE <<early>>
  BY DEF EarlyScenarios
<1>3. ASSUME ahead # {} PROVE Tradeable(early)
  <2>1. Numbers(targets)
    BY <1>1, MembersIn
  <2> HIDE DEF targets, bias
  <2>2. Numbers(targets \cup {wave.start})
    BY <1>1, <2>1, JoinedNumbers
  <2>3. ahead \subseteq targets \cup {wave.start} /\ \A x \in ahead : Further(bias, x, price)
    OBVIOUS
  <2> HIDE DEF ahead
  <2>4. Min(ahead) \in ahead /\ Min(ahead) \in Int /\ Max(ahead) \in ahead /\ Max(ahead) \in Int
    BY <1>3, <2>2, <2>3, PartNumbers
  <2>5. entry \in Int /\ Further(bias, entry, price)
    BY <2>3, <2>4 DEF Rearmost, Either
  <2>6. Numbers(levels) /\ price \in levels
    <3>1. Numbers((targets \cup {wave.start}) \cup {wave.invalidation})
      BY <1>1, <2>2, JoinedNumbers
    <3>2. Numbers(((targets \cup {wave.start}) \cup {wave.invalidation}) \cup {price})
      BY <3>1, JoinedNumbers
    <3>3. levels = ((targets \cup {wave.start}) \cup {wave.invalidation}) \cup {price}
      OBVIOUS
    <3> QED
      BY <3>2, <3>3
  <2> HIDE DEF entry, levels
  <2>7. stop \in Int /\ Further(bias, entry, stop)
    <3> DEFINE behind == {x \in levels : Further(bias, entry, x)}
    <3>1. price \in behind
      BY <2>5, <2>6 DEF Further
    <3>2. behind \subseteq levels /\ behind # {} /\ \A x \in behind : Further(bias, entry, x)
      BY <3>1
    <3>3. stop = IF behind = {} THEN Times(Either(bias, 970, 1030), entry)
                 ELSE Foremost(bias, behind)
      BY DEF NearestStop
    <3> HIDE DEF behind, stop
    <3>4. Min(behind) \in behind /\ Max(behind) \in behind
          /\ Min(behind) \in Int /\ Max(behind) \in Int
      BY <2>6, <3>2, PartNumbers
    <3> QED
      BY <3>2, <3>3, <3>4 DEF Foremost, Either
  <2> HIDE DEF stop
  <2>8. after \subseteq targets /\ \A t \in after : Further(bias, t, entry)
    OBVIOUS
  <2> HIDE DEF after
  <2>9. Numbers(after)
    BY <2>1, <2>8, PartNumbers
  <2>10. onward \in Seq(Int) /\ \A n \in DOMAIN onward : Further(bias, onward[n], entry)
    BY <2>8, <2>9, InOrderIn
  <2> HIDE DEF onward
  <2>11. entry # stop
    BY <2>5, <2>7 DEF Further
  <2>12. aims # <<>> /\ \A n \in DOMAIN aims : Further(bias, aims[n], entry)
    <3> DEFINE others == AlternateTargets(bias, entry, stop)
    <3>1. others # <<>> /\ \A n \in DOMAIN others : Further(bias, others[n], entry)
      BY <2>5, <2>7, <2>11, AlternateAhead
    <3> HIDE DEF others
    <3>2. aims = IF onward # <<>> THEN onward ELSE others
      BY DEF others
    <3> QED
      BY <2>10, <3>1, <3>2
  <2> HIDE DEF aims, invalidation
  <2>13. early.bias = bias /\ early.entry = entry /\ early.stop = stop /\ early.targets = aims
    BY DEF Scenario
  <2> HIDE DEF early
  <2> QED
    BY <2>7, <2>12, <2>13 DEF Tradeable
<1>4. ASSUME ahead # {} PROVE DOMAIN <<early>> = {1} /\ <<early>>[1] = early
  <2> HIDE DEF early
  <2>1. DOMAIN <<early>> = 1..1 /\ 1..1 = {1}
    OBVIOUS
  <2> QED
    BY <2>1
<1> HIDE DEF targets, ahead, early
<1> QED
  BY <1>2, <1>3, <1>4

\* What is merged can be traded if both lists can.
LEMMA MergedTradeable ==
    ASSUME NEW s, IsPlan(s), \A i \in DOMAIN s : Tradeable(s[i]), NEW wave \in Found,
           NEW price \in Int
    PROVE  \A i \in DOMAIN Merged(s, wave, price) : Tradeable(Merged(s, wave, price)[i])
<1> DEFINE early == IF wave = NoWave \/ wave.confidence < 450 THEN <<>>
                    ELSE EarlyScenarios(wave, price)
           biases == {s[i].bias : i \in DOMAIN s}
           T == {i \in DOMAIN early : early[i].bias \notin biases}
           more == Picked(early, T)
           all == s \o more
<1>1. Merged(s, wave, price) = all
  BY DEF Merged
<1>2. early \in Seq(Trades) /\ \A i \in DOMAIN early : Tradeable(early[i])
  <2>1. <<>> \in Seq(Trades) /\ DOMAIN <<>> = {}
    OBVIOUS
  <2>2. wave # NoWave => /\ EarlyScenarios(wave, price) \in Seq(Trades)
                         /\ \A i \in DOMAIN EarlyScenarios(wave, price) :
                               Tradeable(EarlyScenarios(wave, price)[i])
    BY EarlyIn, EarlyTradeable DEF Found, IsEarly
  <2> QED
    BY <2>1, <2>2
<1> HIDE DEF early
<1>3. T \in SUBSET (DOMAIN early)
  OBVIOUS
<1> HIDE DEF T
<1>4. Numbers(T) /\ \A i \in T : early[i] \in Trades /\ Tradeable(early[i])
  <2>1. Numbers(T)
    BY <1>2, <1>3, Indices
  <2>2. \A i \in DOMAIN early : early[i] \in Trades
    BY <1>2
  <2> QED
    BY <1>2, <1>3, <2>1, <2>2
<1>5. more \in Seq({t \in Trades : Tradeable(t)})
  <2>1. \A i \in T : early[i] \in {t \in Trades : Tradeable(t)}
    BY <1>4
  <2> QED
    BY <1>4, <2>1, PickedSeq
<1> HIDE DEF more
<1>6. more \in Seq(Trades) /\ \A n \in DOMAIN more : Tradeable(more[n])
  BY <1>5
<1>7. s \in Seq(Trades)
  BY DEF IsPlan
<1>8. /\ all \in Seq(Trades) /\ Len(all) = Len(s) + Len(more)
      /\ \A i \in 1..Len(s) + Len(more) : all[i] = IF i <= Len(s) THEN s[i] ELSE more[i - Len(s)]
  BY <1>6, <1>7, ConcatProperties
<1> HIDE DEF all
<1>9. /\ Len(s) \in Nat /\ Len(more) \in Nat
      /\ DOMAIN s = 1..Len(s) /\ DOMAIN more = 1..Len(more) /\ DOMAIN all = 1..Len(s) + Len(more)
  <2>1. DOMAIN all = 1..Len(all)
    BY <1>8
  <2> QED
    BY <1>6, <1>7, <1>8, <2>1
<1>10. \A i \in DOMAIN all : Tradeable(all[i])
  <2> SUFFICES ASSUME NEW i \in DOMAIN all PROVE Tradeable(all[i])
    OBVIOUS
  <2>1. i \in 1..Len(s) + Len(more)
    BY <1>9
  <2>2. CASE i <= Len(s)
    <3>1. i \in DOMAIN s /\ all[i] = s[i]
      BY <1>8, <1>9, <2>1, <2>2
    <3> QED
      BY <3>1
  <2>3. CASE ~(i <= Len(s))
    <3>1. i - Len(s) \in DOMAIN more /\ all[i] = more[i - Len(s)]
      BY <1>8, <1>9, <2>1, <2>3
    <3> QED
      BY <1>6, <3>1
  <2> QED
    BY <2>2, <2>3
<1> QED
  BY <1>1, <1>10

\* Every scenario of a report on a chart of high prices can be traded.
LEMMA ReportTradeable ==
    ASSUME AnalysisAssumption, NEW pivots \in Seq(HighPivots), pivots # <<>>,
           NEW price \in Int, price >= Least,
           NEW signals, NEW r, r = Analysis(pivots, price, signals), r.found
    PROVE  \A i \in DOMAIN r.scenarios : Tradeable(r.scenarios[i])
<1> DEFINE counts == CountsInPlay(WaveCounts(pivots, signals), price)
           wave == InProgressWave(pivots)
           position == Position(counts[1], wave)
           levels == PlanLevels(position, LevelsAround(KeyLevels(counts[1].type, counts[1].w),
                                                       pivots, wave, price, Atr))
           projection == Projection(position, levels, pivots, Atr)
           zones == Zones(pivots)
           plan == PlanScenarios(position, levels, projection, zones)
           merged == Merged(plan, wave, price)
<1>1. counts # <<>> /\ r.scenarios = merged
  <2>1. Analysis(pivots, price, signals).found
    OBVIOUS
  <2>2. /\ counts # <<>>
        /\ Analysis(pivots, price, signals)
             = [found |-> TRUE, price |-> price, count |-> counts[1], wave |-> wave,
                bias |-> SummaryBias(counts), position |-> position, levels |-> levels,
                projection |-> projection, zones |-> zones, scenarios |-> merged]
    BY <2>1, ReportIs
  <2> HIDE DEF counts, wave, position, levels, projection, zones, merged
  <2> QED
    BY <2>2
<1>2. HighPivots \subseteq Pivots /\ pivots \in Seq(Pivots)
  BY DEF HighPivots
<1>3. IsCount(counts[1]) /\ counts[1].w \in Seq(HighPivots)
  <2>1. PICK n \in Nat : Listed(counts, n) /\ \A i \in 1..n : IsCount(counts[i])
    BY <1>2, CountsIn
  <2>2. counts[1].w \in Seq(HighPivots)
    BY <1>1, <1>2, CountsOf
  <2> HIDE DEF counts
  <2>3. n = 0 => counts = <<>>
    BY <2>1 DEF Listed
  <2>4. 1 \in 1..n
    BY <1>1, <2>1, <2>3
  <2> QED
    BY <2>1, <2>2, <2>4
<1>4. wave \in Found
  BY <1>2, InProgressIn
<1>5. Atr \in Nat /\ Atr \in Int
  BY AnalysisAssumption DEF AnalysisAssumption
<1> DEFINE c == counts[1]
<1>6. IsCount(c) /\ c.w \in Seq(HighPivots)
  BY <1>3
<1>7. position = Position(c, wave)
  OBVIOUS
<1>8. levels = PlanLevels(Position(c, wave),
                          LevelsAround(KeyLevels(c.type, c.w), pivots, wave, price, Atr))
  OBVIOUS
<1>9. projection = Projection(position, levels, pivots, Atr)
  OBVIOUS
<1> HIDE DEF counts, c, wave, levels, position, projection, zones
<1>10. IsPlanned(position, levels)
  BY <1>2, <1>4, <1>5, <1>6, <1>7, <1>8, PlannedIn
<1>11. HighPlan(position, levels)
  BY <1>2, <1>4, <1>5, <1>6, <1>7, <1>8, PlannedHigh
<1>12. IsProjection(projection, levels)
  BY <1>2, <1>5, <1>9, <1>10, ProjectionIn DEF IsPlanned
<1>13. zones \in Seq(ZoneSet)
  BY <1>2, ZonesIn DEF zones
<1>14. position.building \in BOOLEAN
  BY <1>7 DEF Position
<1>15. IsPlan(plan)
  BY <1>10, <1>12, <1>13, <1>14, PlanIn
<1>16. \A i \in DOMAIN plan : Tradeable(plan[i])
  BY <1>2, <1>5, <1>9, <1>10, <1>11, <1>13, <1>14, PlanTradeable
<1> HIDE DEF plan
<1>17. \A i \in DOMAIN merged : Tradeable(merged[i])
  BY <1>4, <1>15, <1>16, MergedTradeable
<1> HIDE DEF merged
<1> QED
  BY <1>1, <1>17

\* The chart and the price that was analysed are high.
PricesHigh ==
    /\ \A i \in DOMAIN chart : chart[i].price >= Least
    /\ report.found => report.price >= Least

\* What was reported on high prices can be traded.
TradeableIfHigh == PricesHigh => ScenariosTradeable

\* An analysis keeps it.
LEMMA AnalysisTradeable ==
    ASSUME AnalysisAssumption, ChartIn, Analyse
    PROVE  TradeableIfHigh'
<1> USE AnalysisAssumption
<1>1. PICK drift \in Drifts, signals \in IndicatorSignals :
         report' = Analysis(chart, IF Last(chart).type = "H" THEN Last(chart).price - drift
                                   ELSE Last(chart).price + drift, signals)
  BY DEF Analyse
<1> DEFINE price == IF Last(chart).type = "H" THEN Last(chart).price - drift
                    ELSE Last(chart).price + drift
<1>2. chart # <<>> /\ chart \in Seq(Pivots)
  BY EmptySeq DEF ChartIn
<1>3. price \in Int
  <2>1. Last(chart).price \in Int /\ drift \in Int
    BY <1>2, OnWindows DEF AnalysisAssumption
  <2> QED
    BY <2>1
<1>4. report' = Analysis(chart, price, signals) /\ report'.found /\ chart' = chart
  BY <1>1 DEF Analyse
<1> HIDE DEF price
<1>5. report'.price = price
  BY <1>4, ReportIs
<1>6. ASSUME PricesHigh' PROVE ScenariosTradeable'
  <2>1. price >= Least /\ \A i \in DOMAIN chart : chart[i].price >= Least
    BY <1>4, <1>5, <1>6 DEF PricesHigh
  <2>2. chart \in Seq(HighPivots)
    BY <1>2, <2>1 DEF HighPivots
  <2>3. \A i \in DOMAIN report'.scenarios : Tradeable(report'.scenarios[i])
    BY <1>2, <1>3, <1>4, <2>1, <2>2, ReportTradeable
  <2> QED
    BY <2>3 DEF ScenariosTradeable, Tradeable
<1> QED
  BY <1>6 DEF TradeableIfHigh

\* ScenariosTradeable, of any chart, price, indicators and drift
\* (_ensure_sl_direction, _fill_missing_targets, generate_inprogress_scenarios): where
\* the prices of the chart and the last one are high enough for three per cent of them to be
\* a unit, every scenario has its stop on the losing side of its entry and targets, all
\* of them on the winning side.
THEOREM ReportsTradeable == AnalysisSpec => [](PricesHigh => ScenariosTradeable)
<1> USE AnalysisAssumption
<1> DEFINE Inv == ChartIn /\ TradeableIfHigh
<1>1. AnalysisInit => Inv
  BY ChartStarts DEF AnalysisInit, TradeableIfHigh, ScenariosTradeable, NoReport
<1>2. Inv /\ [AnalysisNext]_analysisVars => Inv'
  <2> SUFFICES ASSUME Inv, [AnalysisNext]_analysisVars PROVE Inv'
    OBVIOUS
  <2>1. CASE NewPivot
    <3>1. ChartIn'
      BY <2>1, ChartGrows
    <3>2. TradeableIfHigh'
      BY <2>1 DEF NewPivot, TradeableIfHigh, ScenariosTradeable, NoReport
    <3> QED
      BY <3>1, <3>2
  <2>2. CASE Analyse
    <3>1. TradeableIfHigh'
      BY <2>2, AnalysisTradeable
    <3>2. ChartIn'
      BY <2>2 DEF Analyse, ChartIn
    <3> QED
      BY <3>1, <3>2
  <2>3. CASE Prioritise
    BY <2>3 DEF Prioritise, ChartIn, TradeableIfHigh, PricesHigh, ScenariosTradeable
  <2>4. CASE UNCHANGED analysisVars
    BY <2>4 DEF analysisVars, ChartIn, TradeableIfHigh, PricesHigh, ScenariosTradeable
  <2> QED
    BY <2>1, <2>2, <2>3, <2>4 DEF AnalysisNext
<1>3. Inv => (PricesHigh => ScenariosTradeable)
  BY DEF TradeableIfHigh
<1> QED
  BY <1>1, <1>2, <1>3, PTL DEF AnalysisSpec
=============================================================================
