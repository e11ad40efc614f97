------------------------- MODULE FiniteSetLemmas -------------------------
(***************************************************************************)
(* What the proofs need of finite sets: induction, extremes, ranks, and    *)
(* the sums SumFunctionOnSet computes.  An induction principle is stated   *)
(* of a set of good sets, so that it can be cited with one in hand.        *)
(***************************************************************************)
EXTENDS Integers, Sequences, FiniteSets, FiniteSetsExt, FiniteSetTheorems, SequenceTheorems, TLAPS

\* A set is good if every finite set is whose strict subsets are.
LEMMA SetInduction ==
  ASSUME NEW S, IsFiniteSet(S), NEW Good,
         \A U \in SUBSET S : (\A V \in SUBSET U : V # U => V \in Good) => U \in Good
  PROVE  S \in Good
<1> SUFFICES ASSUME S \notin Good PROVE FALSE
  OBVIOUS
<1> DEFINE Bad == {U \in FiniteSubsetsOf(S) : U \notin Good}
           R == StrictSubsetOrdering(S)
<1>1. FiniteSubsetsOf(S) = SUBSET S
  BY FS_FiniteSubsetsOfFinite
<1>2. IsWellFoundedOn(R, FiniteSubsetsOf(S))
  BY FS_StrictSubsetOrderingWellFounded
<1>3. Bad # {} /\ Bad \subseteq FiniteSubsetsOf(S)
  BY <1>1
<1>4. PICK U \in Bad : \A V \in Bad : ~(<<V, U>> \in R)
  <2> HIDE DEF Bad, R
  <2> QED
    BY <1>2, <1>3, WFMin
<1>5. \A V \in SUBSET U : V # U => V \in Good
  BY <1>1, <1>4 DEF StrictSubsetOrdering
<1> QED
  BY <1>1, <1>4, <1>5

\* The same, one element at a time.
LEMMA ElementInduction ==
  ASSUME NEW S, IsFiniteSet(S), NEW Good, {} \in Good,
         \A U \in SUBSET S : \A x \in S \ U : U \in Good => U \cup {x} \in Good
  PROVE  S \in Good
<1>1. ASSUME NEW U \in SUBSET S, \A V \in SUBSET U : V # U => V \in Good PROVE U \in Good
  <2>1. CASE U = {}
    BY <2>1
  <2>2. CASE U # {}
    <3>1. PICK x \in U : TRUE
      BY <2>2
    <3>2. U \ {x} \in Good
      BY <1>1, <3>1
    <3>3. (U \ {x}) \cup {x} = U /\ U \ {x} \in SUBSET S /\ x \in S \ (U \ {x})
      BY <3>1
    <3> QED
      BY <3>2, <3>3
  <2> QED
    BY <2>1, <2>2
<1> QED
  BY <1>1, SetInduction

\* A finite set of integers has a greatest and a least element.
LEMMA ExtremesExist ==
  ASSUME NEW S \in SUBSET Int, IsFiniteSet(S), S # {}
  PROVE  /\ Max(S) \in S /\ \A x \in S : x <= Max(S)
         /\ Min(S) \in S /\ \A x \in S : Min(S) <= x
<1> DEFINE HasExtremes(U) == /\ \E m \in U : \A x \in U : x <= m
                             /\ \E m \in U : \A x \in U : m <= x
           Good == {U \in SUBSET S : U # {} => HasExtremes(U)}
<1>1. {} \in Good
  OBVIOUS
<1>2. ASSUME NEW U \in SUBSET S, NEW a \in S \ U, U \in Good PROVE U \cup {a} \in Good
  <2>1. CASE U = {}
    <3>1. a <= a
      OBVIOUS
    <3> QED
      BY <2>1, <3>1
  <2>2. CASE U # {}
    <3>1. PICK m \in U : \A x \in U : x <= m
      BY <1>2, <2>2
    <3>2. PICK l \in U : \A x \in U : l <= x
      BY <1>2, <2>2
    <3>3. \A x \in U \cup {a} : x \in Int
      OBVIOUS
    <3>4. \E n \in U \cup {a} : \A x \in U \cup {a} : x <= n
      <4>1. CASE a <= m
        BY <3>1, <3>3, <4>1
      <4>2. CASE ~(a <= m)
        BY <3>1, <3>3, <4>2
      <4> QED
        BY <4>1, <4>2
    <3>5. \E n \in U \cup {a} : \A x \in U \cup {a} : n <= x
      <4>1. CASE l <= a
        BY <3>2, <3>3, <4>1
      <4>2. CASE ~(l <= a)
        BY <3>2, <3>3, <4>2
      <4> QED
        BY <4>1, <4>2
    <3> QED
      BY <3>4, <3>5
  <2> QED
    BY <2>1, <2>2
<1>3. S \in Good
  <2> HIDE DEF Good
  <2> QED
    BY <1>1, <1>2, ElementInduction
<1>4. (\E m \in S : \A x \in S : x <= m) /\ (\E m \in S : \A x \in S : m <= x)
  BY <1>3
<1>5. (\E m \in S : \A x \in S : m >= x) /\ (\E m \in S : \A x \in S : m =< x)
  BY <1>4
<1> QED
  BY <1>5 DEF Max, Min

\* Induction over the naturals, for a set.
LEMMA NatSetInduction ==
  ASSUME NEW Good, 0 \in Good, \A n \in Nat : n \in Good => n + 1 \in Good,
         NEW n \in Nat
  PROVE  n \in Good
<1> SUFFICES ASSUME n \notin Good PROVE FALSE
  OBVIOUS
<1> DEFINE Bad == {k \in 0..n : k \notin Good}
           l == Min(Bad)
<1>1. Bad \in SUBSET Int /\ IsFiniteSet(Bad) /\ Bad # {}
  <2>1. IsFiniteSet(0..n)
    BY FS_Interval
  <2>2. Bad \in SUBSET Int /\ Bad \in SUBSET (0..n) /\ n \in Bad
    OBVIOUS
  <2> HIDE DEF Bad
  <2> QED
    BY <2>1, <2>2, FS_Subset
<1>2. l \in Bad /\ \A x \in Bad : l <= x
  <2> HIDE DEF Bad
  <2> QED
    BY <1>1, ExtremesExist
<1> HIDE DEF l
<1>3. l \in 0..n /\ l \notin Good /\ l # 0
  BY <1>2
<1>4. l - 1 \in Nat /\ l - 1 \notin Bad /\ l - 1 \in 0..n
  BY <1>2, <1>3
<1>5. l - 1 \in Good /\ (l - 1) + 1 = l
  BY <1>3, <1>4
<1> QED
  BY <1>3, <1>4, <1>5

\* Cardinalities of finite sets, as they are needed below and elsewhere.
LEMMA SmallerSet ==
  ASSUME NEW S, IsFiniteSet(S), NEW T \in SUBSET S
  PROVE  /\ IsFiniteSet(T) /\ Cardinality(T) \in Nat /\ Cardinality(S) \in Nat
         /\ Cardinality(T) <= Cardinality(S)
         /\ Cardinality(S \ T) = Cardinality(S) - Cardinality(T)
<1>1. IsFiniteSet(T) /\ Cardinality(T) <= Cardinality(S)
  BY FS_Subset
<1>2. Cardinality(S \ T) = Cardinality(S) - Cardinality(S \cap T)
  BY FS_Difference
<1>3. S \cap T = T
  OBVIOUS
<1> QED
  BY <1>1, <1>2, <1>3, FS_CardinalityType

\* Every rank below the size of a finite set of integers is somebody's.
LEMMA RanksExist ==
  ASSUME NEW S \in SUBSET Int, IsFiniteSet(S), NEW i \in 0..(Cardinality(S) - 1)
  PROVE  \E d \in S : Cardinality({e \in S : e < d}) = i
<1> DEFINE Ranked(U) == \A k \in 0..(Cardinality(U) - 1) : \E d \in U : Cardinality({e \in U : e < d}) = k
           Good == {U \in SUBSET S : Ranked(U)}
<1>1. ASSUME NEW U \in SUBSET S, \A V \in SUBSET U : V # U => V \in Good PROVE U \in Good
  <2>0. IsFiniteSet(U) /\ U \in SUBSET Int
    BY FS_Subset
  <2> SUFFICES ASSUME NEW k \in 0..(Cardinality(U) - 1)
               PROVE  \E d \in U : Cardinality({e \in U : e < d}) = k
    OBVIOUS
  <2>1. U # {}
    BY FS_EmptySet
  <2> DEFINE m == Max(U)
             V == U \ {m}
  <2>2. m \in U /\ \A x \in U : x <= m
    BY <2>0, <2>1, ExtremesExist
  <2>3. Cardinality(V) = Cardinality(U) - 1 /\ Cardinality(V) \in Nat
    <3>1. Cardinality(V) = Cardinality(U) - 1
      BY <2>0, <2>2, FS_RemoveElement
    <3>2. IsFiniteSet(V)
      BY <2>0, FS_Subset
    <3> QED
      BY <3>1, <3>2, FS_CardinalityType
  <2>4. CASE k = Cardinality(V)
    <3>1. {e \in U : e < m} = V
      <4>1. \A e \in U : e < m <=> e # m
        <5> HIDE DEF m
        <5> QED
          BY <2>0, <2>2
      <4> QED
        BY <4>1
    <3> QED
      BY <2>2, <2>4, <3>1
  <2>5. CASE k # Cardinality(V)
    <3>1. k \in 0..(Cardinality(V) - 1)
      BY <2>3, <2>5
    <3>2. V \in Good
      BY <1>1, <2>2
    <3>3. PICK d \in V : Cardinality({e \in V : e < d}) = k
      BY <3>1, <3>2
    <3>4. {e \in U : e < d} = {e \in V : e < d}
      <4>1. ~(m < d)
        <5> HIDE DEF m
        <5> QED
          BY <2>0, <2>2
      <4> QED
        BY <4>1
    <3> QED
      BY <3>3, <3>4
  <2> QED
    BY <2>4, <2>5
<1>2. S \in Good
  <2> HIDE DEF Good
  <2> QED
    BY <1>1, SetInduction
<1> QED
  BY <1>2

-----------------------------------------------------------------------------
(* Sums.                                                                   *)

\* The element a sum takes first.
First(s) == CHOOSE x \in s : TRUE

\* What SumFunctionOnSet recurs on.
SumRecursion(f, S, g) ==
    g = [s \in SUBSET S |-> IF s = {} THEN 0 ELSE f[First(s)] + g[s \ {First(s)}]]

\* The recursion decides the sum: it depends on the summands alone.
LEMMA RecursionDecides ==
  ASSUME NEW S, IsFiniteSet(S), NEW A, NEW B, S \subseteq A, S \subseteq B,
         NEW f, NEW e, \A x \in S : f[x] = e[x],
         NEW g, SumRecursion(f, A, g), NEW h, SumRecursion(e, B, h)
  PROVE  g[S] = h[S]
<1> DEFINE Good == {U \in SUBSET S : g[U] = h[U]}
<1>1. ASSUME NEW U \in SUBSET S, \A V \in SUBSET U : V # U => V \in Good PROVE U \in Good
  <2>1. CASE U = {}
    BY <2>1 DEF SumRecursion
  <2>2. CASE U # {}
    <3>1. First(U) \in U
      BY <2>2 DEF First
    <3>2. g[U \ {First(U)}] = h[U \ {First(U)}]
      BY <1>1, <3>1
    <3>3. g[U] = f[First(U)] + g[U \ {First(U)}] /\ h[U] = e[First(U)] + h[U \ {First(U)}]
      BY <2>2 DEF SumRecursion
    <3> QED
      BY <3>1, <3>2, <3>3
  <2> QED
    BY <2>1, <2>2
<1>2. S \in Good
  <2> HIDE DEF Good
  <2> QED
    BY <1>1, SetInduction
<1> QED
  BY <1>2

\* There is a function that satisfies the recursion.
LEMMA RecursionHasSolution ==
  ASSUME NEW S, IsFiniteSet(S), NEW f
  PROVE  \E g : SumRecursion(f, S, g)
<1> DEFINE Val(V) == (CHOOSE h : SumRecursion(f, V, h))[V]
           Solved(V) == \E g : SumRecursion(f, V, g)
           Good == {U \in SUBSET S : Solved(U)}
<1>1. ASSUME NEW V, IsFiniteSet(V), Solved(V), \A W \in SUBSET V : Solved(W)
      PROVE  Val(V) = IF V = {} THEN 0 ELSE f[First(V)] + Val(V \ {First(V)})
  <2>1. PICK h : SumRecursion(f, V, h) /\ h = (CHOOSE k : SumRecursion(f, V, k))
    BY <1>1
  <2>2. Val(V) = IF V = {} THEN 0 ELSE f[First(V)] + h[V \ {First(V)}]
    BY <2>1 DEF SumRecursion
  <2>3. CASE V # {}
    <3> DEFINE W == V \ {First(V)}
    <3>1. PICK k : SumRecursion(f, W, k) /\ k = (CHOOSE l : SumRecursion(f, W, l))
      BY <1>1
    <3>2. IsFiniteSet(W) /\ W \subseteq V
      BY <1>1, FS_Subset
    <3>3. h[W] = k[W]
      <4> HIDE DEF W
      <4> QED
        BY <2>1, <3>1, <3>2, RecursionDecides
    <3> QED
      BY <2>2, <3>1, <3>3
  <2> QED
    BY <2>2, <2>3
<1>2. ASSUME NEW U \in SUBSET S, \A V \in SUBSET U : V # U => V \in Good PROVE U \in Good
  <2> DEFINE g == [s \in SUBSET U |-> IF s = {} THEN 0 ELSE f[First(s)] + Val(s \ {First(s)})]
  <2>1. ASSUME NEW s \in SUBSET U, s # {} PROVE g[s \ {First(s)}] = Val(s \ {First(s)})
    <3> DEFINE t == s \ {First(s)}
    <3>1. First(s) \in s
      BY <2>1 DEF First
    <3>2. t \in SUBSET U /\ t # U
      BY <3>1
    <3>3. Solved(t) /\ \A W \in SUBSET t : Solved(W)
      BY <1>2, <3>2
    <3>4. IsFiniteSet(t)
      BY <3>2, FS_Subset
    <3>5. Val(t) = IF t = {} THEN 0 ELSE f[First(t)] + Val(t \ {First(t)})
      <4> HIDE DEF t, Val, Solved
      <4> QED
        BY <1>1, <3>3, <3>4
    <3>6. g[t] = IF t = {} THEN 0 ELSE f[First(t)] + Val(t \ {First(t)})
      <4> HIDE DEF t, Val
      <4> QED
        BY <3>2
    <3> QED
      BY <3>5, <3>6
  <2>2. SumRecursion(f, U, g)
    <3> HIDE DEF Val
    <3> QED
      BY <2>1 DEF SumRecursion
  <2> QED
    BY <2>2
<1>3. S \in Good
  <2> HIDE DEF Good
  <2> QED
    BY <1>2, SetInduction
<1> QED
  BY <1>3

\* A sum depends on its summands alone.
LEMMA SumSame ==
  ASSUME NEW S, IsFiniteSet(S), NEW f, NEW e, \A x \in S : f[x] = e[x]
  PROVE  SumFunctionOnSet(f, S) = SumFunctionOnSet(e, S)
<1>1. SumFunctionOnSet(f, S) = (CHOOSE g : SumRecursion(f, S, g))[S]
  BY DEF SumFunctionOnSet, FoldFunctionOnSet, MapThenFoldSet, SumRecursion, First
<1>2. SumFunctionOnSet(e, S) = (CHOOSE g : SumRecursion(e, S, g))[S]
  BY DEF SumFunctionOnSet, FoldFunctionOnSet, MapThenFoldSet, SumRecursion, First
<1>3. PICK g : SumRecursion(f, S, g) /\ g = (CHOOSE k : SumRecursion(f, S, k))
  BY RecursionHasSolution
<1>4. PICK h : SumRecursion(e, S, h) /\ h = (CHOOSE k : SumRecursion(e, S, k))
  BY RecursionHasSolution
<1> QED
  BY <1>1, <1>2, <1>3, <1>4, RecursionDecides

\* One step of the sum.
LEMMA SumFirst ==
  ASSUME NEW S, IsFiniteSet(S), NEW f
  PROVE  SumFunctionOnSet(f, S) =
            IF S = {} THEN 0 ELSE f[First(S)] + SumFunctionOnSet(f, S \ {First(S)})
<1>1. \A T : SumFunctionOnSet(f, T) = (CHOOSE g : SumRecursion(f, T, g))[T]
  BY DEF SumFunctionOnSet, FoldFunctionOnSet, MapThenFoldSet, SumRecursion, First
<1>2. PICK g : SumRecursion(f, S, g) /\ g = (CHOOSE k : SumRecursion(f, S, k))
  BY RecursionHasSolution
<1>3. SumFunctionOnSet(f, S) = IF S = {} THEN 0 ELSE f[First(S)] + g[S \ {First(S)}]
  <2>1. SumFunctionOnSet(f, S) = g[S]
    BY <1>1, <1>2
  <2>2. g[S] = IF S = {} THEN 0 ELSE f[First(S)] + g[S \ {First(S)}]
    BY <1>2 DEF SumRecursion
  <2> QED
    BY <2>1, <2>2
<1> DEFINE T == S \ {First(S)}
<1>4. IsFiniteSet(T) /\ T \subseteq S
  BY FS_Subset
<1>5. PICK h : SumRecursion(f, T, h) /\ h = (CHOOSE k : SumRecursion(f, T, k))
  BY <1>4, RecursionHasSolution
<1>6. g[T] = h[T]
  <2> HIDE DEF T
  <2> QED
    BY <1>2, <1>4, <1>5, RecursionDecides
<1> QED
  BY <1>1, <1>3, <1>5, <1>6

\* The sum over nothing.
LEMMA SumEmpty == ASSUME NEW f PROVE SumFunctionOnSet(f, {}) = 0
  BY SumFirst, FS_EmptySet

\* A sum of integers is an integer.
LEMMA SumInteger ==
  ASSUME NEW S, IsFiniteSet(S), NEW f, \A x \in S : f[x] \in Int
  PROVE  SumFunctionOnSet(f, S) \in Int
<1> DEFINE Good == {U \in SUBSET S : SumFunctionOnSet(f, U) \in Int}
<1>1. ASSUME NEW U \in SUBSET S, \A V \in SUBSET U : V # U => V \in Good PROVE U \in Good
  <2>1. IsFiniteSet(U)
    BY FS_Subset
  <2>2. CASE U = {}
    BY <2>2, SumEmpty
  <2>3. CASE U # {}
    <3>1. First(U) \in U
      BY <2>3 DEF First
    <3>2. SumFunctionOnSet(f, U \ {First(U)}) \in Int
      BY <1>1, <3>1
    <3>3. SumFunctionOnSet(f, U) = f[First(U)] + SumFunctionOnSet(f, U \ {First(U)})
      BY <2>1, <2>3, SumFirst
    <3> QED
      BY <3>1, <3>2, <3>3
  <2> QED
    BY <2>2, <2>3
<1>2. S \in Good
  <2> HIDE DEF Good
  <2> QED
    BY <1>1, SetInduction
<1> QED
  BY <1>2

\* Whatever element is taken out, it counts once.
LEMMA SumTakeOut ==
  ASSUME NEW S, IsFiniteSet(S), NEW f, \A x \in S : f[x] \in Int, NEW a \in S
  PROVE  SumFunctionOnSet(f, S) = f[a] + SumFunctionOnSet(f, S \ {a})
<1> DEFINE Sum(T) == SumFunctionOnSet(f, T)
           Good == {U \in SUBSET S : \A x \in U : Sum(U) = f[x] + Sum(U \ {x})}
<1>1. \A U \in SUBSET S : IsFiniteSet(U) /\ Sum(U) \in Int
  <2> SUFFICES ASSUME NEW U \in SUBSET S PROVE IsFiniteSet(U) /\ Sum(U) \in Int
    OBVIOUS
  <2>1. IsFiniteSet(U)
    BY FS_Subset
  <2> QED
    BY <2>1, SumInteger
<1>2. ASSUME NEW U \in SUBSET S, \A V \in SUBSET U : V # U => V \in Good PROVE U \in Good
  <2> SUFFICES ASSUME NEW x \in U PROVE Sum(U) = f[x] + Sum(U \ {x})
    OBVIOUS
  <2> DEFINE b == First(U)
             V == U \ {b}
  <2>1. b \in U /\ Sum(U) = f[b] + Sum(V)
    BY <1>1, SumFirst DEF First
  <2>2. CASE x # b
    <3>1. V \in Good /\ x \in V
      BY <1>2, <2>1, <2>2
    <3>2. Sum(V) = f[x] + Sum(V \ {x})
      BY <3>1
    <3>3. U \ {x} \in Good /\ b \in U \ {x}
      BY <1>2, <2>1, <2>2
    <3>4. Sum(U \ {x}) = f[b] + Sum((U \ {x}) \ {b})
      BY <3>3
    <3>5. (U \ {x}) \ {b} = V \ {x}
      OBVIOUS
    <3>6. f[x] \in Int /\ f[b] \in Int /\ Sum(V \ {x}) \in Int
      BY <1>1, <2>1
    <3>7. Sum(U \ {x}) = f[b] + Sum(V \ {x})
      BY <3>4, <3>5
    <3> HIDE DEF Sum, b, V, Good
    <3>8. Sum(U) = f[b] + (f[x] + Sum(V \ {x}))
      BY <2>1, <3>2
    <3>9. f[b] + (f[x] + Sum(V \ {x})) = f[x] + (f[b] + Sum(V \ {x}))
      BY <3>6
    <3> QED
      BY <3>7, <3>8, <3>9
  <2> QED
    BY <2>1, <2>2
<1>3. S \in Good
  <2> HIDE DEF Good
  <2> QED
    BY <1>2, SetInduction
<1> QED
  BY <1>3

\* One more element adds its summand.
LEMMA SumInsert ==
  ASSUME NEW S, IsFiniteSet(S), NEW a, a \notin S, NEW f, \A x \in S \cup {a} : f[x] \in Int
  PROVE  SumFunctionOnSet(f, S \cup {a}) = f[a] + SumFunctionOnSet(f, S)
<1>1. IsFiniteSet(S \cup {a})
  BY FS_AddElement
<1>2. (S \cup {a}) \ {a} = S
  OBVIOUS
<1> QED
  BY <1>1, <1>2, SumTakeOut

\* Sums are linear.
LEMMA SumLinear ==
  ASSUME NEW S, IsFiniteSet(S), NEW k \in Int, NEW f, NEW e, NEW g,
         \A x \in S : f[x] \in Int /\ e[x] \in Int /\ g[x] = f[x] + k * e[x]
  PROVE  SumFunctionOnSet(g, S) = SumFunctionOnSet(f, S) + k * SumFunctionOnSet(e, S)
<1> DEFINE Good == {U \in SUBSET S : SumFunctionOnSet(g, U) =
                                        SumFunctionOnSet(f, U) + k * SumFunctionOnSet(e, U)}
<1>1. {} \in Good
  BY SumEmpty
<1>2. ASSUME NEW U \in SUBSET S, NEW a \in S \ U, U \in Good PROVE U \cup {a} \in Good
  <2>1. IsFiniteSet(U)
    BY FS_Subset
  <2> DEFINE F == SumFunctionOnSet(f, U)
             E == SumFunctionOnSet(e, U)
             G == SumFunctionOnSet(g, U)
  <2>2. \A x \in S : f[x] \in Int /\ e[x] \in Int /\ g[x] \in Int
    OBVIOUS
  <2>3. F \in Int /\ E \in Int /\ G \in Int
    BY <2>1, <2>2, SumInteger
  <2>4. SumFunctionOnSet(f, U \cup {a}) = f[a] + F
    BY <2>1, <2>2, SumInsert
  <2>5. SumFunctionOnSet(e, U \cup {a}) = e[a] + E
    BY <2>1, <2>2, SumInsert
  <2>6. SumFunctionOnSet(g, U \cup {a}) = g[a] + G
    BY <2>1, <2>2, SumInsert
  <2>7. G = F + k * E
    BY <1>2
  <2>8. g[a] = f[a] + k * e[a]
    OBVIOUS
  <2>9. g[a] + G = (f[a] + F) + k * (e[a] + E)
    <3>1. f[a] \in Int /\ e[a] \in Int
      BY <2>2
    <3>2. k * (e[a] + E) = k * e[a] + k * E /\ k * e[a] \in Int /\ k * E \in Int
      <4> HIDE DEF E
      <4> QED
        BY <2>3, <3>1
    <3> HIDE DEF E, F, G
    <3> QED
      BY <2>3, <2>7, <2>8, <3>1, <3>2
  <2> HIDE DEF E, F, G
  <2>10. SumFunctionOnSet(g, U \cup {a}) =
           SumFunctionOnSet(f, U \cup {a}) + k * SumFunctionOnSet(e, U \cup {a})
    BY <2>4, <2>5, <2>6, <2>9
  <2> QED
    BY <2>10
<1>3. S \in Good
  <2> HIDE DEF Good
  <2> QED
    BY <1>1, <1>2, ElementInduction
<1> QED
  BY <1>3

\* A sum of smaller numbers is smaller.
LEMMA SumMonotone ==
  ASSUME NEW S, IsFiniteSet(S), NEW f, NEW e,
         \A x \in S : f[x] \in Int /\ e[x] \in Int /\ f[x] <= e[x]
  PROVE  SumFunctionOnSet(f, S) <= SumFunctionOnSet(e, S)
<1> DEFINE Good == {U \in SUBSET S : SumFunctionOnSet(f, U) <= SumFunctionOnSet(e, U)}
<1>1. {} \in Good
  BY SumEmpty
<1>2. ASSUME NEW U \in SUBSET S, NEW a \in S \ U, U \in Good PROVE U \cup {a} \in Good
  <2>1. IsFiniteSet(U)
    BY FS_Subset
  <2>2. SumFunctionOnSet(f, U) \in Int /\ SumFunctionOnSet(e, U) \in Int
    BY <2>1, SumInteger
  <2>3. SumFunctionOnSet(f, U \cup {a}) = f[a] + SumFunctionOnSet(f, U)
    BY <2>1, SumInsert
  <2>4. SumFunctionOnSet(e, U \cup {a}) = e[a] + SumFunctionOnSet(e, U)
    BY <2>1, SumInsert
  <2>5. SumFunctionOnSet(f, U) <= SumFunctionOnSet(e, U)
    BY <1>2
  <2>6. f[a] \in Int /\ e[a] \in Int /\ f[a] <= e[a]
    OBVIOUS
  <2>7. f[a] + SumFunctionOnSet(f, U) <= e[a] + SumFunctionOnSet(e, U)
    BY <2>2, <2>5, <2>6
  <2>8. SumFunctionOnSet(f, U \cup {a}) <= SumFunctionOnSet(e, U \cup {a})
    BY <2>3, <2>4, <2>7
  <2> QED
    BY <2>8
<1>3. S \in Good
  <2> HIDE DEF Good
  <2> QED
    BY <1>1, <1>2, ElementInduction
<1> QED
  BY <1>3

\* What adds nothing may be left out.
LEMMA SumWithoutZeros ==
  ASSUME NEW S, IsFiniteSet(S), NEW T \in SUBSET S, NEW f,
         \A x \in T : f[x] \in Int, \A x \in S \ T : f[x] = 0
  PROVE  SumFunctionOnSet(f, S) = SumFunctionOnSet(f, T)
<1> DEFINE D == S \ T
           Good == {U \in SUBSET D : SumFunctionOnSet(f, T \cup U) = SumFunctionOnSet(f, T)}
<1>1. {} \in Good
  <2>1. T \cup {} = T
    OBVIOUS
  <2> QED
    BY <2>1
<1>2. ASSUME NEW U \in SUBSET D, NEW a \in D \ U, U \in Good PROVE U \cup {a} \in Good
  <2>1. IsFiniteSet(T \cup U)
    BY FS_Subset
  <2>2. a \notin T \cup U /\ f[a] = 0 /\ T \cup (U \cup {a}) = (T \cup U) \cup {a}
    OBVIOUS
  <2>3. \A x \in (T \cup U) \cup {a} : f[x] \in Int
    OBVIOUS
  <2>4. SumFunctionOnSet(f, (T \cup U) \cup {a}) = f[a] + SumFunctionOnSet(f, T \cup U)
    BY <2>1, <2>2, <2>3, SumInsert
  <2>5. SumFunctionOnSet(f, T \cup U) \in Int
    BY <2>1, <2>3, SumInteger
  <2>6. SumFunctionOnSet(f, T \cup U) = SumFunctionOnSet(f, T)
    BY <1>2
  <2>7. SumFunctionOnSet(f, T \cup (U \cup {a})) = f[a] + SumFunctionOnSet(f, T \cup U)
    BY <2>2, <2>4
  <2>8. f[a] + SumFunctionOnSet(f, T \cup U) = SumFunctionOnSet(f, T \cup U)
    BY <2>2, <2>5
  <2> QED
    BY <2>6, <2>7, <2>8
<1>3. IsFiniteSet(D)
  BY FS_Subset
<1>4. D \in Good
  <2> HIDE DEF Good, D
  <2> QED
    BY <1>1, <1>2, <1>3, ElementInduction
<1>5. T \cup D = S
  OBVIOUS
<1> QED
  BY <1>4, <1>5

\* A sum falls into the sums over two parts.
LEMMA SumSplit ==
  ASSUME NEW S, IsFiniteSet(S), NEW T \in SUBSET S, NEW f, \A x \in S : f[x] \in Int
  PROVE  SumFunctionOnSet(f, S) = SumFunctionOnSet(f, T) + SumFunctionOnSet(f, S \ T)
<1> DEFINE e == [x \in S |-> IF x \in T THEN f[x] ELSE 0]
           h == [x \in S |-> IF x \in T THEN 0 ELSE f[x]]
           one == 1
<1>1. SumFunctionOnSet(f, S) = SumFunctionOnSet(e, S) + one * SumFunctionOnSet(h, S)
  <2>1. \A x \in S : e[x] \in Int /\ h[x] \in Int /\ f[x] = e[x] + one * h[x]
    OBVIOUS
  <2>2. one \in Int
    OBVIOUS
  <2> HIDE DEF e, h, one
  <2> QED
    BY <2>1, <2>2, SumLinear
<1>2. SumFunctionOnSet(e, S) = SumFunctionOnSet(e, T)
  <2>1. (\A x \in T : e[x] \in Int) /\ \A x \in S \ T : e[x] = 0
    OBVIOUS
  <2> HIDE DEF e
  <2> QED
    BY <2>1, SumWithoutZeros
<1>3. SumFunctionOnSet(h, S) = SumFunctionOnSet(h, S \ T)
  <2>1. (\A x \in S \ T : h[x] \in Int) /\ \A x \in S \ (S \ T) : h[x] = 0
    OBVIOUS
  <2>2. S \ T \in SUBSET S
    OBVIOUS
  <2> HIDE DEF h
  <2> QED
    BY <2>1, <2>2, SumWithoutZeros
<1>4. IsFiniteSet(T) /\ IsFiniteSet(S \ T)
  BY FS_Subset
<1>5. SumFunctionOnSet(e, T) = SumFunctionOnSet(f, T)
  <2>1. \A x \in T : e[x] = f[x]
    OBVIOUS
  <2> HIDE DEF e
  <2> QED
    BY <1>4, <2>1, SumSame
<1>6. SumFunctionOnSet(h, S \ T) = SumFunctionOnSet(f, S \ T)
  <2>1. \A x \in S \ T : h[x] = f[x]
    OBVIOUS
  <2> HIDE DEF h
  <2> QED
    BY <1>4, <2>1, SumSame
<1>7. SumFunctionOnSet(f, T) \in Int /\ SumFunctionOnSet(f, S \ T) \in Int
  BY <1>4, SumInteger
<1> HIDE DEF e, h
<1> QED
  BY <1>1, <1>2, <1>3, <1>5, <1>6, <1>7

\* A factor comes out of a sum.
LEMMA SumScaled ==
  ASSUME NEW S, IsFiniteSet(S), NEW k \in Int, NEW f, NEW g,
         \A x \in S : f[x] \in Int /\ g[x] = k * f[x]
  PROVE  SumFunctionOnSet(g, S) = k * SumFunctionOnSet(f, S)
<1> DEFINE Good == {U \in SUBSET S : SumFunctionOnSet(g, U) = k * SumFunctionOnSet(f, U)}
<1>1. {} \in Good
  BY SumEmpty
<1>2. \A x \in S : f[x] \in Int /\ g[x] \in Int
  OBVIOUS
<1>3. ASSUME NEW U \in SUBSET S, NEW a \in S \ U, U \in Good PROVE U \cup {a} \in Good
  <2>1. IsFiniteSet(U)
    BY FS_Subset
  <2> DEFINE F == SumFunctionOnSet(f, U)
             G == SumFunctionOnSet(g, U)
  <2>2. F \in Int
    BY <1>2, <2>1, SumInteger
  <2>3. SumFunctionOnSet(f, U \cup {a}) = f[a] + F
    BY <1>2, <2>1, SumInsert
  <2>4. SumFunctionOnSet(g, U \cup {a}) = g[a] + G
    BY <1>2, <2>1, SumInsert
  <2>5. G = k * F /\ g[a] = k * f[a]
    BY <1>3
  <2> HIDE DEF F, G
  <2>6. k * f[a] + k * F = k * (f[a] + F)
    BY <1>2, <2>2
  <2>7. SumFunctionOnSet(g, U \cup {a}) = k * SumFunctionOnSet(f, U \cup {a})
    BY <2>3, <2>4, <2>5, <2>6
  <2> QED
    BY <2>7
<1>4. S \in Good
  <2> HIDE DEF Good
  <2> QED
    BY <1>1, <1>3, ElementInduction
<1> QED
  BY <1>4

\* The sum of a sequence grows by what is appended.
LEMMA SumAppend ==
  ASSUME NEW s \in Seq(Int), NEW x \in Int
  PROVE  /\ SumFunction(s) \in Int
         /\ SumFunction(Append(s, x)) = SumFunction(s) + x
<1> DEFINE n == Len(s)
           t == Append(s, x)
<1>1. n \in Nat /\ DOMAIN s = 1..n /\ DOMAIN t = 1..(n + 1) /\ IsFiniteSet(1..n)
  BY FS_Interval
<1>2. \A i \in 1..n : s[i] \in Int /\ t[i] = s[i]
  OBVIOUS
<1>3. t[n + 1] = x /\ n + 1 \notin 1..n /\ 1..(n + 1) = (1..n) \cup {n + 1}
  BY <1>1
<1>4. \A i \in (1..n) \cup {n + 1} : t[i] \in Int
  BY <1>2, <1>3
<1>5. SumFunctionOnSet(s, 1..n) \in Int /\ SumFunctionOnSet(t, 1..n) = SumFunctionOnSet(s, 1..n)
  <2> HIDE DEF n, t
  <2> QED
    BY <1>1, <1>2, SumInteger, SumSame
<1>6. SumFunctionOnSet(t, (1..n) \cup {n + 1}) = t[n + 1] + SumFunctionOnSet(t, 1..n)
  <2> HIDE DEF n, t
  <2> QED
    BY <1>1, <1>3, <1>4, SumInsert
<1>7. SumFunction(s) = SumFunctionOnSet(s, 1..n)
  BY <1>1 DEF SumFunction
<1>8. SumFunction(t) = SumFunctionOnSet(t, (1..n) \cup {n + 1})
  BY <1>1, <1>3 DEF SumFunction
<1>9. SumFunction(s) \in Int /\ SumFunction(t) = SumFunction(s) + x
  <2> HIDE DEF n, t
  <2> QED
    BY <1>3, <1>5, <1>6, <1>7, <1>8
<1> QED
  BY <1>9
=============================================================================
