----------------------------- MODULE SumTheorems -----------------------------
(***************************************************************************)
(* What a sum over a finite set is, SumFunctionOnSet of the community      *)
(* modules, for the modules that add up sizes, risks and profits.          *)
(***************************************************************************)
EXTENDS Integers, FiniteSets, Functions, FiniteSetTheorems, WellFoundedInduction, TLAPS

Pick(U) == CHOOSE x \in U : TRUE

\* The equation that the fold solves
Sums(f, S, g) ==
    g = [U \in SUBSET S |-> IF U = {} THEN 0 ELSE f[Pick(U)] + g[U \ {Pick(U)}]]

LEMMA PickIn ==
    ASSUME NEW U, U # {}
    PROVE  Pick(U) \in U
BY DEF Pick

LEMMA SumIsChosen ==
    ASSUME NEW f, NEW S
    PROVE  SumFunctionOnSet(f, S) = (CHOOSE g : Sums(f, S, g))[S]
BY DEF SumFunctionOnSet, FoldFunctionOnSet, MapThenFoldSet, Sums, Pick

\* Among finite sets there is always one without a smaller one.
LEMMA LeastSubset ==
    ASSUME NEW S, IsFiniteSet(S), NEW B \in SUBSET (SUBSET S), B # {}
    PROVE  \E T \in B : \A U \in B : U \subseteq T => U = T
<1>1. IsWellFoundedOn(StrictSubsetOrdering(S), FiniteSubsetsOf(S))
  BY FS_StrictSubsetOrderingWellFounded
<1>2. FiniteSubsetsOf(S) = SUBSET S
  BY FS_FiniteSubsetsOfFinite
<1>3. \E T \in B : \A U \in B : ~ (<<U, T>> \in StrictSubsetOrdering(S))
  BY <1>1, <1>2, WFMin
<1> QED
  BY <1>3 DEF StrictSubsetOrdering

\* A finite set of numbers has a least and a greatest one.
LEMMA LeastNumber ==
    ASSUME NEW S, IsFiniteSet(S), S # {}, \A k \in S : k \in Int
    PROVE  \E m \in S : \A k \in S : k >= m
<1> DEFINE B == {T \in SUBSET S : \E m \in S : T = {k \in S : k < m}}
<1>1. B \in SUBSET (SUBSET S) /\ B # {}
  <2>1. PICK m \in S : TRUE
    OBVIOUS
  <2>2. {k \in S : k < m} \in B
    OBVIOUS
  <2> QED
    BY <2>2
<1>2. \E T \in B : \A U \in B : U \subseteq T => U = T
  <2>1. B \in SUBSET (SUBSET S)
    BY <1>1
  <2>2. B # {}
    BY <1>1
  <2> HIDE DEF B
  <2> QED
    BY <2>1, <2>2, LeastSubset
<1>3. PICK T \in B : \A U \in B : U \subseteq T => U = T
  BY <1>2
<1>4. PICK m \in S : T = {k \in S : k < m}
  OBVIOUS
<1>5. ASSUME NEW k \in S, k < m PROVE FALSE
  <2>1. {j \in S : j < k} \in B
    OBVIOUS
  <2>3. {j \in S : j < k} \subseteq T
    <3>1. \A j \in S : j \in Int
      OBVIOUS
    <3>2. k \in Int /\ m \in Int
      BY <3>1
    <3>3. \A j \in S : j < k => j < m
      BY <1>5, <3>1, <3>2
    <3> QED
      BY <1>4, <3>3
  <2>2. k \in T /\ k \notin {j \in S : j < k}
    BY <1>4, <1>5
  <2> QED
    BY <1>3, <2>1, <2>2, <2>3
<1> QED
  BY <1>5

LEMMA GreatestNumber ==
    ASSUME NEW S, IsFiniteSet(S), S # {}, \A k \in S : k \in Int
    PROVE  \E m \in S : \A k \in S : m >= k
<1> DEFINE B == {T \in SUBSET S : \E m \in S : T = {k \in S : k > m}}
<1>1. B \in SUBSET (SUBSET S) /\ B # {}
  <2>1. PICK m \in S : TRUE
    OBVIOUS
  <2>2. {k \in S : k > m} \in B
    OBVIOUS
  <2> QED
    BY <2>2
<1>2. \E T \in B : \A U \in B : U \subseteq T => U = T
  <2>1. B \in SUBSET (SUBSET S)
    BY <1>1
  <2>2. B # {}
    BY <1>1
  <2> HIDE DEF B
  <2> QED
    BY <2>1, <2>2, LeastSubset
<1>3. PICK T \in B : \A U \in B : U \subseteq T => U = T
  BY <1>2
<1>4. PICK m \in S : T = {k \in S : k > m}
  OBVIOUS
<1>5. ASSUME NEW k \in S, k > m PROVE FALSE
  <2>1. {j \in S : j > k} \in B
    OBVIOUS
  <2>3. {j \in S : j > k} \subseteq T
    <3>1. \A j \in S : j \in Int
      OBVIOUS
    <3>2. k \in Int /\ m \in Int
      BY <3>1
    <3>3. \A j \in S : j > k => j > m
      BY <1>5, <3>1, <3>2
    <3> QED
      BY <1>4, <3>3
  <2>2. k \in T /\ k \notin {j \in S : j > k}
    BY <1>4, <1>5
  <2> QED
    BY <1>3, <2>1, <2>2, <2>3
<1> QED
  BY <1>5

\* Two solutions agree on the sets that both know.
LEMMA SumsAgree ==
    ASSUME NEW f, NEW S, NEW T, NEW g, NEW h, IsFiniteSet(S), Sums(f, S, g), Sums(f, T, h)
    PROVE  \A U \in SUBSET (S \cap T) : g[U] = h[U]
<1> DEFINE B == {U \in SUBSET (S \cap T) : g[U] # h[U]}
<1> SUFFICES ASSUME B # {} PROVE FALSE
  OBVIOUS
<1>1. IsFiniteSet(S \cap T)
  BY FS_Subset
<1>2. B \in SUBSET (SUBSET (S \cap T))
  OBVIOUS
<1>3. PICK U \in B : \A W \in B : W \subseteq U => W = U
  <2>1. B # {}
    OBVIOUS
  <2> HIDE DEF B
  <2> QED
    BY <1>1, <1>2, <2>1, LeastSubset
<1>4. CASE U = {}
  BY <1>4 DEF Sums
<1>5. CASE U # {}
  <2>1. Pick(U) \in U
    BY <1>5, PickIn
  <2>2. U \ {Pick(U)} \notin B /\ U \ {Pick(U)} \in SUBSET (S \cap T)
    BY <1>3, <2>1
  <2>3. g[U \ {Pick(U)}] = h[U \ {Pick(U)}]
    BY <2>2
  <2>4. U \in SUBSET S /\ U \in SUBSET T
    OBVIOUS
  <2> QED
    BY <1>5, <2>3, <2>4 DEF Sums
<1> QED
  BY <1>4, <1>5

\* A solution exists: the subsets' solutions, put together.
LEMMA SumsExist ==
    ASSUME NEW f, NEW S, IsFiniteSet(S)
    PROVE  \E g : Sums(f, S, g)
<1> DEFINE B == {T \in SUBSET S : ~\E g : Sums(f, T, g)}
<1> SUFFICES ASSUME B # {} PROVE FALSE
  OBVIOUS
<1>1. PICK T \in B : \A U \in B : U \subseteq T => U = T
  <2>1. B \in SUBSET (SUBSET S)
    OBVIOUS
  <2>2. B # {}
    OBVIOUS
  <2> HIDE DEF B
  <2> QED
    BY <2>1, <2>2, LeastSubset
<1>2. T \subseteq S /\ ~\E g : Sums(f, T, g)
  OBVIOUS
<1> DEFINE G(U) == CHOOSE g : Sums(f, U, g)
           Below(U) == IF U = {} THEN 0 ELSE f[Pick(U)] + G(U \ {Pick(U)})[U \ {Pick(U)}]
           whole == [U \in SUBSET T |-> Below(U)]
<1>3. \A U \in SUBSET T : U # T => Sums(f, U, G(U))
  <2> SUFFICES ASSUME NEW U \in SUBSET T, U # T PROVE Sums(f, U, G(U))
    OBVIOUS
  <2>1. \E g : Sums(f, U, g)
    BY <1>1, <1>2
  <2> QED
    BY <2>1
<1>4. ASSUME NEW U \in SUBSET T, U # T
      PROVE  G(U)[U] = Below(U)
  <2>1. Sums(f, U, G(U))
    BY <1>3, <1>4
  <2>2. CASE U = {}
    BY <2>1, <2>2 DEF Sums
  <2>3. CASE U # {}
    <3> DEFINE V == U \ {Pick(U)}
    <3>1. V \in SUBSET T /\ V # T /\ V \subseteq U /\ IsFiniteSet(U)
      BY <1>2, <2>3, PickIn, FS_Subset
    <3>2. Sums(f, V, G(V))
      BY <1>3, <3>1
    <3>3. G(U)[V] = G(V)[V]
      <4> HIDE DEF G, V
      <4> QED
        BY <2>1, <3>1, <3>2, SumsAgree
    <3>4. G(U)[U] = f[Pick(U)] + G(U)[V]
      BY <2>1, <2>3 DEF Sums
    <3> QED
      BY <2>3, <3>3, <3>4
  <2> QED
    BY <2>2, <2>3
<1> HIDE DEF G
<1>5. \A U \in SUBSET T : U # {} =>
         whole[U \ {Pick(U)}] = G(U \ {Pick(U)})[U \ {Pick(U)}]
  <2> SUFFICES ASSUME NEW U \in SUBSET T, U # {}
               PROVE  whole[U \ {Pick(U)}] = G(U \ {Pick(U)})[U \ {Pick(U)}]
    OBVIOUS
  <2> DEFINE V == U \ {Pick(U)}
  <2>1. V \in SUBSET T /\ V # T
    BY PickIn
  <2>2. whole[V] = Below(V)
    BY <2>1
  <2>3. G(V)[V] = Below(V)
    BY <1>4, <2>1
  <2> QED
    BY <2>2, <2>3
<1>6. Sums(f, T, whole)
  BY <1>5 DEF Sums
<1> QED
  BY <1>2, <1>6

-----------------------------------------------------------------------------
(* The equations of the sum.                                               *)

LEMMA SumSolves ==
    ASSUME NEW f, NEW S, IsFiniteSet(S)
    PROVE  \E g : Sums(f, S, g) /\ g[S] = SumFunctionOnSet(f, S)
<1>1. Sums(f, S, CHOOSE g : Sums(f, S, g))
  BY SumsExist
<1> QED
  BY <1>1, SumIsChosen

LEMMA SumEmpty ==
    ASSUME NEW f
    PROVE  SumFunctionOnSet(f, {}) = 0
<1>1. IsFiniteSet({})
  BY FS_EmptySet
<1>2. PICK g : Sums(f, {}, g) /\ g[{}] = SumFunctionOnSet(f, {})
  BY <1>1, SumSolves
<1> QED
  BY <1>2 DEF Sums

LEMMA SumPick ==
    ASSUME NEW f, NEW S, IsFiniteSet(S), S # {}
    PROVE  /\ Pick(S) \in S /\ IsFiniteSet(S \ {Pick(S)})
           /\ SumFunctionOnSet(f, S)
                = f[Pick(S)] + SumFunctionOnSet(f, S \ {Pick(S)})
<1>1. Pick(S) \in S
  BY PickIn
<1> DEFINE T == S \ {Pick(S)}
<1>2. T \subseteq S /\ IsFiniteSet(T)
  BY FS_Subset
<1>3. PICK g : Sums(f, S, g) /\ g[S] = SumFunctionOnSet(f, S)
  BY SumSolves
<1>4. PICK h : Sums(f, T, h) /\ h[T] = SumFunctionOnSet(f, T)
  BY <1>2, SumSolves
<1>5. g[T] = h[T]
  <2> HIDE DEF T
  <2> QED
    BY <1>2, <1>3, <1>4, SumsAgree
<1>6. g[S] = f[Pick(S)] + g[T]
  BY <1>3 DEF Sums
<1> QED
  BY <1>1, <1>2, <1>3, <1>4, <1>5, <1>6

LEMMA SumType ==
    ASSUME NEW f, NEW S, IsFiniteSet(S), \A x \in S : f[x] \in Int
    PROVE  SumFunctionOnSet(f, S) \in Int
<1> DEFINE B == {T \in SUBSET S : SumFunctionOnSet(f, T) \notin Int}
<1> SUFFICES ASSUME B # {} PROVE FALSE
  OBVIOUS
<1>1. PICK T \in B : \A U \in B : U \subseteq T => U = T
  <2>1. B \in SUBSET (SUBSET S)
    OBVIOUS
  <2>2. B # {}
    OBVIOUS
  <2> HIDE DEF B
  <2> QED
    BY <2>1, <2>2, LeastSubset
<1>2. T # {} /\ IsFiniteSet(T)
  <2>1. SumFunctionOnSet(f, {}) = 0
    BY SumEmpty
  <2>2. IsFiniteSet(T)
    BY FS_Subset
  <2> QED
    BY <2>1, <2>2
<1>3. T \ {Pick(T)} \notin B /\ T \ {Pick(T)} \in SUBSET S
  BY <1>1, <1>2, PickIn
<1>4. SumFunctionOnSet(f, T \ {Pick(T)}) \in Int /\ f[Pick(T)] \in Int
  BY <1>2, <1>3, PickIn
<1>5. SumFunctionOnSet(f, T) = f[Pick(T)] + SumFunctionOnSet(f, T \ {Pick(T)})
  BY <1>2, SumPick
<1> QED
  BY <1>4, <1>5

\* Any element may be taken first.
THEOREM SumOfElement ==
    ASSUME NEW f, NEW S, IsFiniteSet(S), \A y \in S : f[y] \in Int, NEW x \in S
    PROVE  SumFunctionOnSet(f, S) = f[x] + SumFunctionOnSet(f, S \ {x})
<1> DEFINE B == {T \in SUBSET S : \E y \in T : SumFunctionOnSet(f, T)
                                        # f[y] + SumFunctionOnSet(f, T \ {y})}
<1> SUFFICES B = {}
  OBVIOUS
<1> SUFFICES ASSUME B # {} PROVE FALSE
  OBVIOUS
<1>1. PICK T \in B : \A U \in B : U \subseteq T => U = T
  <2>1. B \in SUBSET (SUBSET S)
    OBVIOUS
  <2>2. B # {}
    OBVIOUS
  <2> HIDE DEF B
  <2> QED
    BY <2>1, <2>2, LeastSubset
<1>2. PICK y \in T : SumFunctionOnSet(f, T) # f[y] + SumFunctionOnSet(f, T \ {y})
  OBVIOUS
<1>3. PICK p : p = Pick(T)
  OBVIOUS
<1>4. /\ T \subseteq S /\ IsFiniteSet(T) /\ p \in T
      /\ SumFunctionOnSet(f, T) = f[p] + SumFunctionOnSet(f, T \ {p})
  BY <1>2, <1>3, FS_Subset, SumPick
<1>5. p # y
  BY <1>2, <1>4
<1>6. T \ {p} \notin B /\ T \ {y} \notin B
  BY <1>1, <1>2, <1>4
<1>7. SumFunctionOnSet(f, T \ {p}) = f[y] + SumFunctionOnSet(f, (T \ {p}) \ {y})
  BY <1>4, <1>5, <1>6
<1>8. SumFunctionOnSet(f, T \ {y}) = f[p] + SumFunctionOnSet(f, (T \ {y}) \ {p})
  BY <1>4, <1>5, <1>6
<1>9. (T \ {p}) \ {y} = (T \ {y}) \ {p}
  OBVIOUS
<1>10. SumFunctionOnSet(f, (T \ {p}) \ {y}) \in Int /\ f[p] \in Int /\ f[y] \in Int
  <2>1. IsFiniteSet((T \ {p}) \ {y})
    BY <1>4, FS_Subset
  <2> QED
    BY <1>4, <2>1, SumType
<1> HIDE DEF B
<1>11. SumFunctionOnSet(f, (T \ {p}) \ {y}) = SumFunctionOnSet(f, (T \ {y}) \ {p})
  BY <1>9
<1>12. SumFunctionOnSet(f, T) = f[p] + (f[y] + SumFunctionOnSet(f, (T \ {y}) \ {p}))
  BY <1>4, <1>7, <1>11
<1>13. SumFunctionOnSet(f, T) # f[y] + (f[p] + SumFunctionOnSet(f, (T \ {y}) \ {p}))
  BY <1>2, <1>8
<1> QED
  BY <1>10, <1>11, <1>12, <1>13

THEOREM SumWithout ==
    ASSUME NEW f, NEW S, IsFiniteSet(S), NEW x, x \notin S, f[x] \in Int,
           \A y \in S : f[y] \in Int
    PROVE  SumFunctionOnSet(f, S \cup {x}) = f[x] + SumFunctionOnSet(f, S)
<1> DEFINE T == S \cup {x}
<1>1. IsFiniteSet(T) /\ x \in T /\ T \ {x} = S /\ \A y \in T : f[y] \in Int
  BY FS_AddElement
<1> HIDE DEF T
<1>2. SumFunctionOnSet(f, T) = f[x] + SumFunctionOnSet(f, T \ {x})
  BY <1>1, SumOfElement
<1> QED
  BY <1>1, <1>2 DEF T

\* Only the elements' values count.
THEOREM SumSame ==
    ASSUME NEW f, NEW g, NEW S, IsFiniteSet(S), \A x \in S : f[x] = g[x]
    PROVE  SumFunctionOnSet(f, S) = SumFunctionOnSet(g, S)
<1> DEFINE B == {T \in SUBSET S : SumFunctionOnSet(f, T) # SumFunctionOnSet(g, T)}
<1> SUFFICES ASSUME B # {} PROVE FALSE
  OBVIOUS
<1>1. PICK T \in B : \A U \in B : U \subseteq T => U = T
  <2>1. B \in SUBSET (SUBSET S)
    OBVIOUS
  <2>2. B # {}
    OBVIOUS
  <2> HIDE DEF B
  <2> QED
    BY <2>1, <2>2, LeastSubset
<1>2. SumFunctionOnSet(f, {}) = 0 /\ SumFunctionOnSet(g, {}) = 0
  BY SumEmpty
<1>3. T # {} /\ IsFiniteSet(T)
  BY <1>2, FS_Subset
<1>4. PICK p : p = Pick(T)
  OBVIOUS
<1>5. p \in T /\ T \ {p} \notin B /\ T \ {p} \in SUBSET S
  BY <1>1, <1>3, <1>4, PickIn
<1>6. /\ SumFunctionOnSet(f, T) = f[p] + SumFunctionOnSet(f, T \ {p})
      /\ SumFunctionOnSet(g, T) = g[p] + SumFunctionOnSet(g, T \ {p})
  BY <1>3, <1>4, SumPick
<1> QED
  BY <1>5, <1>6

\* Nothing adds up to nothing.
THEOREM SumZero ==
    ASSUME NEW f, NEW S, IsFiniteSet(S), \A x \in S : f[x] = 0
    PROVE  SumFunctionOnSet(f, S) = 0
<1> DEFINE B == {T \in SUBSET S : SumFunctionOnSet(f, T) # 0}
<1> SUFFICES ASSUME B # {} PROVE FALSE
  OBVIOUS
<1>1. PICK T \in B : \A U \in B : U \subseteq T => U = T
  <2>1. B \in SUBSET (SUBSET S)
    OBVIOUS
  <2>2. B # {}
    OBVIOUS
  <2> HIDE DEF B
  <2> QED
    BY <2>1, <2>2, LeastSubset
<1>2. SumFunctionOnSet(f, {}) = 0
  BY SumEmpty
<1>3. T # {} /\ IsFiniteSet(T)
  BY <1>2, FS_Subset
<1>4. PICK p : p = Pick(T)
  OBVIOUS
<1>5. p \in T /\ T \ {p} \notin B /\ T \ {p} \in SUBSET S
  BY <1>1, <1>3, <1>4, PickIn
<1>6. SumFunctionOnSet(f, T) = f[p] + SumFunctionOnSet(f, T \ {p})
  BY <1>3, <1>4, SumPick
<1> QED
  BY <1>5, <1>6

\* One value changes.
THEOREM SumChange ==
    ASSUME NEW f, NEW g, NEW S, IsFiniteSet(S), NEW x \in S,
           \A y \in S : f[y] \in Int, g[x] \in Int, \A y \in S \ {x} : f[y] = g[y]
    PROVE  SumFunctionOnSet(g, S) = SumFunctionOnSet(f, S) + g[x] - f[x]
<1>1. IsFiniteSet(S \ {x}) /\ \A y \in S : g[y] \in Int
  BY FS_Subset
<1>2. SumFunctionOnSet(f, S) = f[x] + SumFunctionOnSet(f, S \ {x})
  BY SumOfElement
<1>3. SumFunctionOnSet(g, S) = g[x] + SumFunctionOnSet(g, S \ {x})
  BY <1>1, SumOfElement
<1>4. SumFunctionOnSet(f, S \ {x}) = SumFunctionOnSet(g, S \ {x})
  BY <1>1, SumSame
<1>5. SumFunctionOnSet(f, S \ {x}) \in Int
  BY <1>1, SumType
<1> QED
  BY <1>2, <1>3, <1>4, <1>5

\* Larger values add up to more.
THEOREM SumLeq ==
    ASSUME NEW f, NEW g, NEW S, IsFiniteSet(S),
           \A x \in S : f[x] \in Int /\ g[x] \in Int /\ f[x] <= g[x]
    PROVE  SumFunctionOnSet(f, S) <= SumFunctionOnSet(g, S)
<1> DEFINE B == {T \in SUBSET S : ~(SumFunctionOnSet(f, T) <= SumFunctionOnSet(g, T))}
<1> SUFFICES ASSUME B # {} PROVE FALSE
  OBVIOUS
<1>1. PICK T \in B : \A U \in B : U \subseteq T => U = T
  <2>1. B \in SUBSET (SUBSET S)
    OBVIOUS
  <2>2. B # {}
    OBVIOUS
  <2> HIDE DEF B
  <2> QED
    BY <2>1, <2>2, LeastSubset
<1>2. SumFunctionOnSet(f, {}) = 0 /\ SumFunctionOnSet(g, {}) = 0
  BY SumEmpty
<1>3. T # {} /\ IsFiniteSet(T)
  <2>1. IsFiniteSet(T)
    BY FS_Subset
  <2>2. {} \notin B
    BY <1>2
  <2> HIDE DEF B
  <2> QED
    BY <2>1, <2>2
<1>4. PICK p : p = Pick(T)
  OBVIOUS
<1>5. p \in T /\ T \ {p} \notin B /\ T \ {p} \in SUBSET S
  BY <1>1, <1>3, <1>4, PickIn
<1>6. /\ SumFunctionOnSet(f, T) = f[p] + SumFunctionOnSet(f, T \ {p})
      /\ SumFunctionOnSet(g, T) = g[p] + SumFunctionOnSet(g, T \ {p})
  BY <1>3, <1>4, SumPick
<1>7. SumFunctionOnSet(f, T \ {p}) \in Int /\ SumFunctionOnSet(g, T \ {p}) \in Int
  <2>1. IsFiniteSet(T \ {p}) /\ \A x \in T \ {p} : f[x] \in Int /\ g[x] \in Int
    BY <1>3, FS_Subset
  <2> QED
    BY <2>1, SumType
<1>8. SumFunctionOnSet(f, T \ {p}) <= SumFunctionOnSet(g, T \ {p})
  BY <1>5
<1>9. ~(SumFunctionOnSet(f, T) <= SumFunctionOnSet(g, T)) /\ f[p] <= g[p]
      /\ f[p] \in Int /\ g[p] \in Int
  BY <1>5
<1> HIDE DEF B
<1> QED
  BY <1>6, <1>7, <1>8, <1>9

\* Scaled values add up to the scaled sum.
THEOREM SumTimes ==
    ASSUME NEW f, NEW g, NEW S, IsFiniteSet(S), NEW c \in Int,
           \A x \in S : f[x] \in Int /\ g[x] = c * f[x]
    PROVE  SumFunctionOnSet(g, S) = c * SumFunctionOnSet(f, S)
<1> DEFINE B == {T \in SUBSET S : SumFunctionOnSet(g, T) # c * SumFunctionOnSet(f, T)}
<1> SUFFICES ASSUME B # {} PROVE FALSE
  OBVIOUS
<1>1. PICK T \in B : \A U \in B : U \subseteq T => U = T
  <2>1. B \in SUBSET (SUBSET S)
    OBVIOUS
  <2>2. B # {}
    OBVIOUS
  <2> HIDE DEF B
  <2> QED
    BY <2>1, <2>2, LeastSubset
<1>2. SumFunctionOnSet(f, {}) = 0 /\ SumFunctionOnSet(g, {}) = 0
  BY SumEmpty
<1>3. T # {} /\ IsFiniteSet(T)
  <2>1. IsFiniteSet(T)
    BY FS_Subset
  <2>2. c * 0 = 0
    OBVIOUS
  <2>3. {} \notin B
    BY <1>2, <2>2
  <2> HIDE DEF B
  <2> QED
    BY <2>1, <2>3
<1>4. PICK p : p = Pick(T)
  OBVIOUS
<1>5. p \in T /\ T \ {p} \notin B /\ T \ {p} \in SUBSET S
  BY <1>1, <1>3, <1>4, PickIn
<1>6. /\ SumFunctionOnSet(f, T) = f[p] + SumFunctionOnSet(f, T \ {p})
      /\ SumFunctionOnSet(g, T) = g[p] + SumFunctionOnSet(g, T \ {p})
  BY <1>3, <1>4, SumPick
<1>7. PICK rest \in Int : rest = SumFunctionOnSet(f, T \ {p})
  <2>1. IsFiniteSet(T \ {p}) /\ \A x \in T \ {p} : f[x] \in Int
    BY <1>3, FS_Subset
  <2> QED
    BY <2>1, SumType
<1>8. SumFunctionOnSet(g, T \ {p}) = c * rest
  BY <1>5, <1>7
<1>9. SumFunctionOnSet(g, T) # c * SumFunctionOnSet(f, T) /\ f[p] \in Int /\ g[p] = c * f[p]
  BY <1>5
<1>10. PICK one \in Int : one = f[p]
  BY <1>9
<1>11. c * (one + rest) = c * one + c * rest
  OBVIOUS
<1> HIDE DEF B
<1> QED
  BY <1>6, <1>7, <1>8, <1>9, <1>10, <1>11

\* What is summed over more elements, none of them negative, is no less.
THEOREM SumSubset ==
    ASSUME NEW f, NEW S, IsFiniteSet(S), \A x \in S : f[x] \in Nat, NEW R \in SUBSET S
    PROVE  /\ SumFunctionOnSet(f, R) \in Nat
           /\ SumFunctionOnSet(f, R) <= SumFunctionOnSet(f, S)
<1> DEFINE Good(T) == \A U \in SUBSET T : /\ SumFunctionOnSet(f, U) \in Nat
                                          /\ SumFunctionOnSet(f, U) <= SumFunctionOnSet(f, T)
           B == {T \in SUBSET S : ~Good(T)}
<1>1. SUFFICES ASSUME B # {} PROVE FALSE
  <2>1. S \notin B
    BY <1>1
  <2> QED
    BY <2>1
<1>2. PICK T \in B : \A U \in B : U \subseteq T => U = T
  <2>1. B \in SUBSET (SUBSET S)
    OBVIOUS
  <2> HIDE DEF B
  <2> QED
    BY <1>1, <2>1, LeastSubset
<1>3. T \subseteq S /\ ~Good(T)
  OBVIOUS
<1>4. PICK U \in SUBSET T : ~(/\ SumFunctionOnSet(f, U) \in Nat
                              /\ SumFunctionOnSet(f, U) <= SumFunctionOnSet(f, T))
  BY <1>3
<1>5. \A V \in SUBSET T : V # T => Good(V)
  BY <1>2, <1>3
<1> HIDE DEF Good, B
<1>6. \A V \in SUBSET T : \A x \in V :
         SumFunctionOnSet(f, V) = f[x] + SumFunctionOnSet(f, V \ {x})
  <2> SUFFICES ASSUME NEW V \in SUBSET T, NEW x \in V
               PROVE  SumFunctionOnSet(f, V) = f[x] + SumFunctionOnSet(f, V \ {x})
    OBVIOUS
  <2>1. IsFiniteSet(V) /\ \A y \in V : f[y] \in Int
    BY <1>3, FS_Subset
  <2> QED
    BY <2>1, SumOfElement
<1>7. SumFunctionOnSet(f, {}) = 0
  BY SumEmpty
<1>8. SumFunctionOnSet(f, T) \in Nat
  <2>1. CASE T = {}
    BY <1>7, <2>1
  <2>2. CASE T # {}
    <3>1. PICK x \in T : TRUE
      BY <2>2
    <3>2. SumFunctionOnSet(f, T \ {x}) \in Nat
      BY <1>5, <3>1 DEF Good
    <3> QED
      BY <1>3, <1>6, <3>1, <3>2
  <2> QED
    BY <2>1, <2>2
<1>9. CASE U = T
  BY <1>4, <1>8, <1>9
<1>10. CASE U # T
  <2>1. PICK x \in T : x \notin U
    BY <1>10
  <2>2. U \in SUBSET (T \ {x}) /\ Good(T \ {x})
    BY <1>5, <2>1
  <2>3. /\ SumFunctionOnSet(f, U) \in Nat
        /\ SumFunctionOnSet(f, U) <= SumFunctionOnSet(f, T \ {x})
        /\ SumFunctionOnSet(f, T \ {x}) \in Nat
    BY <2>2 DEF Good
  <2>4. SumFunctionOnSet(f, T) = f[x] + SumFunctionOnSet(f, T \ {x}) /\ f[x] \in Nat
    BY <1>3, <1>6, <2>1
  <2> QED
    BY <1>4, <2>3, <2>4
<1> QED
  BY <1>9, <1>10

\* What is summed over two sets apart from each other.
THEOREM SumUnion ==
    ASSUME NEW f, NEW S, NEW R, IsFiniteSet(S), IsFiniteSet(R), S \cap R = {},
           \A x \in S \cup R : f[x] \in Int
    PROVE  SumFunctionOnSet(f, S \cup R) = SumFunctionOnSet(f, S) + SumFunctionOnSet(f, R)
<1> DEFINE B == {T \in SUBSET R : SumFunctionOnSet(f, S \cup T)
                                    # SumFunctionOnSet(f, S) + SumFunctionOnSet(f, T)}
<1> SUFFICES ASSUME B # {} PROVE FALSE
  OBVIOUS
<1>1. PICK T \in B : \A U \in B : U \subseteq T => U = T
  <2>1. B \in SUBSET (SUBSET R)
    OBVIOUS
  <2>2. B # {}
    OBVIOUS
  <2> HIDE DEF B
  <2> QED
    BY <2>1, <2>2, LeastSubset
<1>2. SumFunctionOnSet(f, S) \in Int
  BY SumType
<1>3. T # {}
  <2> SUFFICES ASSUME T = {} PROVE FALSE
    OBVIOUS
  <2>1. S \cup T = S
    OBVIOUS
  <2>2. SumFunctionOnSet(f, T) = 0
    BY SumEmpty
  <2>3. SumFunctionOnSet(f, S \cup T) = SumFunctionOnSet(f, S)
    BY <2>1
  <2> QED
    BY <1>2, <2>2, <2>3
<1>4. PICK x \in T : TRUE
  BY <1>3
<1> DEFINE U == T \ {x}
<1>5. U \in SUBSET R /\ U \subseteq T /\ U # T /\ x \in R /\ x \notin S \cup U
  BY <1>4
<1>6. IsFiniteSet(U) /\ IsFiniteSet(S \cup U) /\ (S \cup U) \cup {x} = S \cup T /\ U \cup {x} = T
  <2>1. IsFiniteSet(U)
    BY <1>5, FS_Subset
  <2>2. IsFiniteSet(S \cup U)
    BY <2>1, FS_Union
  <2> QED
    BY <1>4, <2>1, <2>2
<1> HIDE DEF U
<1>7. U \notin B
  BY <1>1, <1>5
<1>8. SumFunctionOnSet(f, S \cup U) = SumFunctionOnSet(f, S) + SumFunctionOnSet(f, U)
  BY <1>5, <1>7
<1>9. f[x] \in Int /\ \A y \in S \cup U : f[y] \in Int
  BY <1>5
<1>10. SumFunctionOnSet(f, (S \cup U) \cup {x}) = f[x] + SumFunctionOnSet(f, S \cup U)
  BY <1>5, <1>6, <1>9, SumWithout
<1>11. SumFunctionOnSet(f, U \cup {x}) = f[x] + SumFunctionOnSet(f, U)
  BY <1>5, <1>6, <1>9, SumWithout
<1>12. SumFunctionOnSet(f, U) \in Int
  BY <1>6, <1>9, SumType
<1>13. SumFunctionOnSet(f, S \cup T) = SumFunctionOnSet(f, S) + SumFunctionOnSet(f, T)
  <2>1. SumFunctionOnSet(f, S \cup T) = f[x] + SumFunctionOnSet(f, S \cup U)
    BY <1>6, <1>10
  <2>2. SumFunctionOnSet(f, T) = f[x] + SumFunctionOnSet(f, U)
    BY <1>6, <1>11
  <2> QED
    BY <1>2, <1>8, <1>9, <1>12, <2>1, <2>2
<1> QED
  BY <1>1, <1>13
=============================================================================
