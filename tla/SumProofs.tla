------------------------------ MODULE SumProofs ------------------------------
(***************************************************************************)
(* Facts about the sums the ledgers, budgets and limits are stated with:   *)
(* SumFunctionOnSet(f, S), the f[x] for x in the finite set S added up.    *)
(*                                                                         *)
(* SumFunctionOnSet is a function defined recursively on the subsets of S. *)
(* That there is such a function, and what follows from it by induction,   *)
(* is proved from the least member of a set of counterexamples, since the  *)
(* subsets of a finite set are well-founded.                               *)
(***************************************************************************)
EXTENDS Integers, FiniteSets, Functions, FiniteSetTheorems, WellFoundedInduction, TLAPS

First(S) == CHOOSE x \in S : TRUE

LEMMA FirstIn == \A S : S # {} => First(S) \in S
  BY DEF First

\* A nonempty set of subsets of a finite set has a member that contains no other.
LEMMA Smallest ==
    ASSUME NEW S, IsFiniteSet(S), NEW Ts, Ts \subseteq SUBSET S, Ts # {}
    PROVE  \E T \in Ts : \A U \in Ts : U \subseteq T => U = T
  <1>1. FiniteSubsetsOf(S) = SUBSET S BY FS_FiniteSubsetsOfFinite
  <1>2. IsWellFoundedOn(StrictSubsetOrdering(S), SUBSET S)
    BY <1>1, FS_StrictSubsetOrderingWellFounded
  <1>3. PICK T \in Ts : \A U \in Ts : <<U, T>> \notin StrictSubsetOrdering(S)
    BY <1>2, WFMin
  <1>4. QED BY <1>3 DEF StrictSubsetOrdering

\* What holds of a subset when it holds of all its proper subsets holds of every subset.
LEMMA SubsetInduction ==
    ASSUME NEW S, IsFiniteSet(S), NEW Good,
           \A T \in SUBSET S : (\A U \in SUBSET T : U # T => U \in Good) => T \in Good
    PROVE  \A T \in SUBSET S : T \in Good
  <1> DEFINE Bad == {T \in SUBSET S : T \notin Good}
  <1>1. SUFFICES ASSUME Bad # {} PROVE FALSE
    OBVIOUS
  <1>2. PICK T \in Bad : \A U \in Bad : U \subseteq T => U = T
    <2>1. Bad \subseteq SUBSET S OBVIOUS
    <2> HIDE DEF Bad
    <2>2. QED BY <1>1, <2>1, Smallest
  <1>3. QED BY <1>2

\* What holds of the empty set, and of a set when it holds without the set's first
\* element, holds of every finite set.
LEMMA FirstInduction ==
    ASSUME NEW S, IsFiniteSet(S), NEW Good, {} \in Good,
           \A T \in SUBSET S : T # {} /\ T \ {First(T)} \in Good => T \in Good
    PROVE  S \in Good
  <1>1. ASSUME NEW T \in SUBSET S, \A U \in SUBSET T : U # T => U \in Good
        PROVE  T \in Good
    <2>1. CASE T = {} BY <2>1
    <2>2. CASE T # {}
      <3>1. First(T) \in T BY <2>2, FirstIn
      <3>2. T \ {First(T)} \in Good BY <1>1, <3>1
      <3>3. QED BY <2>2, <3>2
    <2>3. QED BY <2>1, <2>2
  <1>2. QED BY <1>1, SubsetInduction

-----------------------------------------------------------------------------
(* The recursive function behind the sum *)

Added(f, g, T) == IF T = {} THEN 0 ELSE f[First(T)] + g[T \ {First(T)}]
Adds(f, g, S) == g = [T \in SUBSET S |-> Added(f, g, T)]

LEMMA SumUnfolds ==
    ASSUME NEW f, NEW S
    PROVE  SumFunctionOnSet(f, S) = (CHOOSE g : Adds(f, g, S))[S]
  BY DEF SumFunctionOnSet, FoldFunctionOnSet, MapThenFoldSet, Adds, Added, First

LEMMA AddsAt ==
    ASSUME NEW f, NEW S, NEW g, Adds(f, g, S), NEW T \in SUBSET S
    PROVE  g[T] = Added(f, g, T)
  <1> DEFINE h == [U \in SUBSET S |-> Added(f, g, U)]
  <1>1. g = h BY DEF Adds
  <1>2. h[T] = Added(f, g, T) OBVIOUS
  <1> HIDE DEF h
  <1>3. QED BY <1>1, <1>2

\* Two functions that add f up agree where both do.
LEMMA AddsUnique ==
    ASSUME NEW f, NEW S, IsFiniteSet(S), NEW g, NEW h,
           NEW R \in SUBSET S, Adds(f, g, S), Adds(f, h, R)
    PROVE  \A T \in SUBSET R : g[T] = h[T]
  <1> DEFINE Good == {T \in SUBSET R : g[T] = h[T]}
  <1>1. ASSUME NEW T \in SUBSET R, \A U \in SUBSET T : U # T => U \in Good
        PROVE  T \in Good
    <2>1. g[T] = Added(f, g, T) /\ h[T] = Added(f, h, T) BY AddsAt
    <2>2. CASE T = {} BY <2>1, <2>2 DEF Added
    <2>3. CASE T # {}
      <3>1. First(T) \in T BY <2>3, FirstIn
      <3>2. g[T \ {First(T)}] = h[T \ {First(T)}] BY <1>1, <3>1
      <3>3. QED BY <2>1, <3>2 DEF Added
    <2>4. QED BY <2>2, <2>3
  <1>2. IsFiniteSet(R) BY FS_Subset
  <1> HIDE DEF Good
  <1>3. \A T \in SUBSET R : T \in Good BY <1>1, <1>2, SubsetInduction
  <1>4. QED BY <1>3 DEF Good

\* There is a function that adds f up over the subsets of a finite set.
LEMMA AddsExists ==
    ASSUME NEW f, NEW S, IsFiniteSet(S)
    PROVE  \E g : Adds(f, g, S)
  <1> DEFINE Good == {T \in SUBSET S : \E g : Adds(f, g, T)}
             G(U) == CHOOSE g : Adds(f, g, U)
  <1>1. ASSUME NEW T \in SUBSET S, \A U \in SUBSET T : U # T => U \in Good
        PROVE  T \in Good
    <2> DEFINE h == [U \in SUBSET T |-> IF U = {} THEN 0
                                        ELSE f[First(U)] + G(U \ {First(U)})[U \ {First(U)}]]
    <2>1. ASSUME NEW U \in SUBSET T, U # T PROVE Adds(f, G(U), U)
      BY <1>1, <2>1
    <2>2. ASSUME NEW U \in SUBSET T, U # T PROVE h[U] = G(U)[U]
      <3>1. Adds(f, G(U), U) BY <2>1, <2>2
      <3> HIDE DEF G
      <3>2. G(U)[U] = Added(f, G(U), U) BY <3>1, AddsAt
      <3>3. CASE U = {} BY <3>2, <3>3 DEF Added
      <3>4. CASE U # {}
        <4> DEFINE V == U \ {First(U)}
        <4>1. V \in SUBSET U /\ V # T BY <2>2, <3>4, FirstIn
        <4>2. Adds(f, G(V), V) BY <2>1, <4>1
        <4>3. IsFiniteSet(U) BY FS_Subset
        <4>4. G(U)[V] = G(V)[V] BY <3>1, <4>1, <4>2, <4>3, AddsUnique
        <4>5. h[U] = f[First(U)] + G(V)[V] BY <3>4
        <4> HIDE DEF h
        <4>6. QED BY <3>2, <3>4, <4>4, <4>5 DEF Added
      <3>5. QED BY <3>3, <3>4
    <2>3. ASSUME NEW U \in SUBSET T PROVE h[U] = Added(f, h, U)
      <3>1. CASE U = {} BY <3>1 DEF Added
      <3>2. CASE U # {}
        <4> DEFINE V == U \ {First(U)}
        <4>1. V \in SUBSET T /\ V # T BY <3>2, FirstIn
        <4>2. h[V] = G(V)[V] BY <2>2, <4>1
        <4>3. h[U] = f[First(U)] + G(V)[V] BY <3>2
        <4> HIDE DEF h, G
        <4>4. QED BY <3>2, <4>2, <4>3 DEF Added
      <3>3. QED BY <3>1, <3>2
    <2>4. Adds(f, h, T)
      <3> DEFINE k == [U \in SUBSET T |-> Added(f, h, U)]
      <3>1. /\ \A U \in SUBSET T : h[U] = k[U]
            /\ DOMAIN h = SUBSET T /\ DOMAIN k = SUBSET T
            /\ h = [U \in DOMAIN h |-> h[U]] /\ k = [U \in DOMAIN k |-> k[U]]
        BY <2>3
      <3>2. h = k
        <4> HIDE DEF h, k
        <4>1. QED BY <3>1
      <3>3. QED BY <3>2 DEF Adds
    <2>5. QED BY <2>4
  <1> HIDE DEF Good
  <1>2. S \in Good BY <1>1, SubsetInduction
  <1>3. QED BY <1>2 DEF Good

\* A sum over a subset is what any such function says.
LEMMA SumAdds ==
    ASSUME NEW f, NEW S, IsFiniteSet(S), NEW g, Adds(f, g, S), NEW T \in SUBSET S
    PROVE  SumFunctionOnSet(f, T) = g[T]
  <1> DEFINE h == CHOOSE h : Adds(f, h, T)
  <1>1. IsFiniteSet(T) BY FS_Subset
  <1>2. Adds(f, h, T) BY <1>1, AddsExists
  <1>3. SumFunctionOnSet(f, T) = h[T] BY SumUnfolds
  <1> HIDE DEF h
  <1>4. g[T] = h[T] BY <1>2, AddsUnique
  <1>5. QED BY <1>3, <1>4

-----------------------------------------------------------------------------
(* Sums *)

LEMMA SumEmpty == \A f : SumFunctionOnSet(f, {}) = 0
  <1> SUFFICES ASSUME NEW f PROVE SumFunctionOnSet(f, {}) = 0
    OBVIOUS
  <1>1. PICK g : Adds(f, g, {}) BY FS_EmptySet, AddsExists
  <1>2. SumFunctionOnSet(f, {}) = g[{}] BY <1>1, FS_EmptySet, SumAdds
  <1>3. g[{}] = Added(f, g, {}) BY <1>1, AddsAt
  <1>4. QED BY <1>2, <1>3 DEF Added

LEMMA SumFirst ==
    ASSUME NEW f, NEW S, IsFiniteSet(S), S # {}
    PROVE  SumFunctionOnSet(f, S) = f[First(S)] + SumFunctionOnSet(f, S \ {First(S)})
  <1>1. PICK g : Adds(f, g, S) BY AddsExists
  <1>2. g[S] = Added(f, g, S) BY <1>1, AddsAt
  <1>3. SumFunctionOnSet(f, S) = g[S] BY <1>1, SumAdds
  <1>4. SumFunctionOnSet(f, S \ {First(S)}) = g[S \ {First(S)}] BY <1>1, SumAdds
  <1>5. QED BY <1>2, <1>3, <1>4 DEF Added

\* A property of the sums over S that the sum of nothing has and one more summand keeps.
LEMMA SumStep ==
    ASSUME NEW f, NEW S, IsFiniteSet(S), NEW T \in SUBSET S, T # {}
    PROVE  /\ First(T) \in S
           /\ SumFunctionOnSet(f, T) = f[First(T)] + SumFunctionOnSet(f, T \ {First(T)})
  <1>1. IsFiniteSet(T) BY FS_Subset
  <1>2. QED BY <1>1, FirstIn, SumFirst

LEMMA SumInt ==
    ASSUME NEW f, NEW S, IsFiniteSet(S), \A x \in S : f[x] \in Int
    PROVE  SumFunctionOnSet(f, S) \in Int
  <1> DEFINE Good == {T \in SUBSET S : SumFunctionOnSet(f, T) \in Int}
  <1>1. {} \in Good BY SumEmpty
  <1>2. ASSUME NEW T \in SUBSET S, T # {}, T \ {First(T)} \in Good
        PROVE  T \in Good
    <2>1. First(T) \in S /\ SumFunctionOnSet(f, T) = f[First(T)] + SumFunctionOnSet(f, T \ {First(T)})
      BY <1>2, SumStep
    <2>2. f[First(T)] \in Int /\ SumFunctionOnSet(f, T \ {First(T)}) \in Int BY <1>2, <2>1
    <2>3. SumFunctionOnSet(f, T) \in Int BY <2>1, <2>2
    <2>4. QED BY <2>3
  <1> HIDE DEF Good
  <1>3. S \in Good BY <1>1, <1>2, FirstInduction
  <1>4. QED BY <1>3 DEF Good

LEMMA SumNat ==
    ASSUME NEW f, NEW S, IsFiniteSet(S), \A x \in S : f[x] \in Nat
    PROVE  SumFunctionOnSet(f, S) \in Nat
  <1> DEFINE Good == {T \in SUBSET S : SumFunctionOnSet(f, T) \in Nat}
  <1>1. {} \in Good BY SumEmpty
  <1>2. ASSUME NEW T \in SUBSET S, T # {}, T \ {First(T)} \in Good
        PROVE  T \in Good
    <2>1. First(T) \in S /\ SumFunctionOnSet(f, T) = f[First(T)] + SumFunctionOnSet(f, T \ {First(T)})
      BY <1>2, SumStep
    <2>2. f[First(T)] \in Nat /\ SumFunctionOnSet(f, T \ {First(T)}) \in Nat BY <1>2, <2>1
    <2>3. SumFunctionOnSet(f, T) \in Nat BY <2>1, <2>2
    <2>4. QED BY <2>3
  <1> HIDE DEF Good
  <1>3. S \in Good BY <1>1, <1>2, FirstInduction
  <1>4. QED BY <1>3 DEF Good

\* A sum depends on nothing but its summands.
LEMMA SumSame ==
    ASSUME NEW f, NEW g, NEW S, IsFiniteSet(S), \A x \in S : f[x] = g[x]
    PROVE  SumFunctionOnSet(f, S) = SumFunctionOnSet(g, S)
  <1> DEFINE Good == {T \in SUBSET S : SumFunctionOnSet(f, T) = SumFunctionOnSet(g, T)}
  <1>1. {} \in Good BY SumEmpty
  <1>2. ASSUME NEW T \in SUBSET S, T # {}, T \ {First(T)} \in Good
        PROVE  T \in Good
    BY <1>2, SumStep
  <1> HIDE DEF Good
  <1>3. S \in Good BY <1>1, <1>2, FirstInduction
  <1>4. QED BY <1>3 DEF Good

\* Larger summands make a sum no smaller.
LEMMA SumMonotone ==
    ASSUME NEW f, NEW g, NEW S, IsFiniteSet(S),
           \A x \in S : f[x] \in Int /\ g[x] \in Int /\ f[x] <= g[x]
    PROVE  SumFunctionOnSet(f, S) <= SumFunctionOnSet(g, S)
  <1> DEFINE Sum(h, T) == SumFunctionOnSet(h, T)
             Good == {T \in SUBSET S : Sum(f, T) <= Sum(g, T)}
  <1>1. {} \in Good BY SumEmpty
  <1>2. ASSUME NEW T \in SUBSET S, T # {}, T \ {First(T)} \in Good
        PROVE  T \in Good
    <2> DEFINE y == First(T)
               U == T \ {y}
    <2>1. Sum(f, U) <= Sum(g, U) BY <1>2
    <2>2. y \in S /\ Sum(f, T) = f[y] + Sum(f, U) /\ Sum(g, T) = g[y] + Sum(g, U)
      BY <1>2, SumStep
    <2>3. f[y] \in Int /\ g[y] \in Int /\ f[y] <= g[y] BY <2>2
    <2>4. Sum(f, U) \in Int /\ Sum(g, U) \in Int BY FS_Subset, SumInt
    <2> HIDE DEF y, U, Sum
    <2>5. Sum(f, T) <= Sum(g, T) BY <2>1, <2>2, <2>3, <2>4
    <2>6. QED BY <2>5
  <1> HIDE DEF Good
  <1>3. S \in Good BY <1>1, <1>2, FirstInduction
  <1>4. QED BY <1>3 DEF Good

\* Nothing adds up to nothing.
LEMMA SumZero ==
    ASSUME NEW f, NEW S, IsFiniteSet(S), \A x \in S : f[x] = 0
    PROVE  SumFunctionOnSet(f, S) = 0
  <1> DEFINE Good == {T \in SUBSET S : SumFunctionOnSet(f, T) = 0}
  <1>1. {} \in Good BY SumEmpty
  <1>2. ASSUME NEW T \in SUBSET S, T # {}, T \ {First(T)} \in Good
        PROVE  T \in Good
    BY <1>2, SumStep
  <1> HIDE DEF Good
  <1>3. S \in Good BY <1>1, <1>2, FirstInduction
  <1>4. QED BY <1>3 DEF Good

\* The order of the summands does not matter: any of them may be taken out.
LEMMA SumTake ==
    ASSUME NEW f, NEW S, IsFiniteSet(S), \A y \in S : f[y] \in Int, NEW x \in S
    PROVE  SumFunctionOnSet(f, S) = f[x] + SumFunctionOnSet(f, S \ {x})
  <1> DEFINE Sum(T) == SumFunctionOnSet(f, T)
             Good == {T \in SUBSET S : \A z \in T : Sum(T) = f[z] + Sum(T \ {z})}
  <1>1. ASSUME NEW T \in SUBSET S, \A U \in SUBSET T : U # T => U \in Good
        PROVE  T \in Good
    <2> SUFFICES ASSUME NEW z \in T PROVE Sum(T) = f[z] + Sum(T \ {z})
      OBVIOUS
    <2> DEFINE y == First(T)
               V == T \ {y, z}
    <2>1. T # {} /\ y \in T BY FirstIn
    <2>2. Sum(T) = f[y] + Sum(T \ {y}) BY <2>1, SumStep
    <2>3. CASE y = z BY <2>2, <2>3
    <2>4. CASE y # z
      <3>1. T \ {y} \in Good /\ T \ {z} \in Good BY <1>1, <2>1
      <3> HIDE DEF y
      <3>2. V = (T \ {y}) \ {z} /\ V = (T \ {z}) \ {y} OBVIOUS
      <3>3. Sum(T \ {y}) = f[z] + Sum(V) BY <2>1, <2>4, <3>1, <3>2
      <3>4. Sum(T \ {z}) = f[y] + Sum(V) BY <2>1, <2>4, <3>1, <3>2
      <3>5. f[y] \in Int /\ f[z] \in Int BY <2>1
      <3>6. IsFiniteSet(V) BY FS_Subset
      <3>7. Sum(V) \in Int BY <3>6, SumInt
      <3> HIDE DEF Sum, V, Good
      <3>8. QED BY <2>2, <3>3, <3>4, <3>5, <3>7
    <2>5. QED BY <2>3, <2>4
  <1> HIDE DEF Good
  <1>2. S \in Good BY <1>1, SubsetInduction
  <1>3. QED BY <1>2 DEF Good

\* A sum of naturals is at least each of its summands.
LEMMA SumCovers ==
    ASSUME NEW f, NEW S, IsFiniteSet(S), \A y \in S : f[y] \in Nat, NEW x \in S
    PROVE  f[x] <= SumFunctionOnSet(f, S)
  <1>1. SumFunctionOnSet(f, S) = f[x] + SumFunctionOnSet(f, S \ {x}) BY SumTake
  <1>2. IsFiniteSet(S \ {x}) BY FS_RemoveElement
  <1>3. SumFunctionOnSet(f, S \ {x}) \in Nat BY <1>2, SumNat
  <1>4. QED BY <1>1, <1>3

\* A new element adds its summand.
LEMMA SumMore ==
    ASSUME NEW f, NEW S, IsFiniteSet(S), NEW x, x \notin S,
           \A y \in S \cup {x} : f[y] \in Int
    PROVE  SumFunctionOnSet(f, S \cup {x}) = f[x] + SumFunctionOnSet(f, S)
  <1> DEFINE T == S \cup {x}
  <1>1. IsFiniteSet(T) BY FS_AddElement
  <1>2. x \in T /\ T \ {x} = S OBVIOUS
  <1>3. \A y \in T : f[y] \in Int OBVIOUS
  <1> HIDE DEF T
  <1>4. SumFunctionOnSet(f, T) = f[x] + SumFunctionOnSet(f, T \ {x}) BY <1>1, <1>2, <1>3, SumTake
  <1>5. QED BY <1>2, <1>4 DEF T

\* A change of one summand changes the sum by as much.
LEMMA SumChange ==
    ASSUME NEW f, NEW g, NEW S, IsFiniteSet(S), NEW x \in S,
           \A y \in S : f[y] \in Int /\ g[y] \in Int,
           \A y \in S \ {x} : f[y] = g[y]
    PROVE  SumFunctionOnSet(g, S) = SumFunctionOnSet(f, S) + (g[x] - f[x])
  <1> DEFINE T == S \ {x}
  <1>1. IsFiniteSet(T) BY FS_RemoveElement
  <1>2. SumFunctionOnSet(f, T) = SumFunctionOnSet(g, T) BY <1>1, SumSame
  <1>3. SumFunctionOnSet(f, T) \in Int BY <1>1, SumInt
  <1>4. SumFunctionOnSet(f, S) = f[x] + SumFunctionOnSet(f, T) BY SumTake
  <1>5. SumFunctionOnSet(g, S) = g[x] + SumFunctionOnSet(g, T) BY SumTake
  <1>6. f[x] \in Int /\ g[x] \in Int OBVIOUS
  <1> HIDE DEF T
  <1>7. QED BY <1>2, <1>3, <1>4, <1>5, <1>6

\* The sums of two disjoint sets.
LEMMA SumUnion ==
    ASSUME NEW f, NEW R, IsFiniteSet(R), NEW S, IsFiniteSet(S), R \cap S = {},
           \A x \in R \cup S : f[x] \in Int
    PROVE  SumFunctionOnSet(f, R \cup S) = SumFunctionOnSet(f, R) + SumFunctionOnSet(f, S)
  <1> DEFINE Sum(T) == SumFunctionOnSet(f, T)
             Good == {T \in SUBSET S : Sum(R \cup T) = Sum(R) + Sum(T)}
  <1>0. Sum(R) \in Int BY SumInt
  <1>1. {} \in Good
    <2>1. R \cup {} = R OBVIOUS
    <2>2. Sum({}) = 0 BY SumEmpty
    <2> HIDE DEF Sum
    <2>3. QED BY <1>0, <2>1, <2>2
  <1>2. ASSUME NEW T \in SUBSET S, T # {}, T \ {First(T)} \in Good
        PROVE  T \in Good
    <2> DEFINE x == First(T)
               U == T \ {x}
    <2>1. x \in T /\ x \in S /\ Sum(T) = f[x] + Sum(U) BY <1>2, FirstIn, SumStep
    <2>2. Sum(R \cup U) = Sum(R) + Sum(U) BY <1>2
    <2>3. IsFiniteSet(U) BY FS_Subset
    <2>4. IsFiniteSet(R \cup U) BY <2>3, FS_Union
    <2>5. R \cup T = (R \cup U) \cup {x} BY <2>1
    <2>6. x \notin R \cup U BY <2>1
    <2>7. f[x] \in Int /\ \A y \in (R \cup U) \cup {x} : f[y] \in Int BY <2>1
    <2>8. Sum(U) \in Int BY <2>3, SumInt
    <2> HIDE DEF x, U
    <2>9. Sum((R \cup U) \cup {x}) = f[x] + Sum(R \cup U) BY <2>4, <2>6, <2>7, SumMore
    <2>10. Sum(R \cup T) = f[x] + Sum(R \cup U) BY <2>5, <2>9
    <2> HIDE DEF Sum
    <2>11. Sum(R \cup T) = Sum(R) + Sum(T) BY <1>0, <2>1, <2>2, <2>7, <2>8, <2>10
    <2>12. QED BY <2>11
  <1> HIDE DEF Good
  <1>3. S \in Good BY <1>1, <1>2, FirstInduction
  <1>4. QED BY <1>3 DEF Good

\* A part of a set and the rest of it.
LEMMA SumPart ==
    ASSUME NEW f, NEW S, IsFiniteSet(S), NEW R \in SUBSET S, \A x \in S : f[x] \in Int
    PROVE  SumFunctionOnSet(f, S) = SumFunctionOnSet(f, R) + SumFunctionOnSet(f, S \ R)
  <1>1. IsFiniteSet(R) /\ IsFiniteSet(S \ R) BY FS_Subset
  <1>2. S = R \cup (S \ R) /\ R \cap (S \ R) = {} OBVIOUS
  <1>3. SumFunctionOnSet(f, R \cup (S \ R))
            = SumFunctionOnSet(f, R) + SumFunctionOnSet(f, S \ R)
    BY <1>1, <1>2, SumUnion
  <1>4. QED BY <1>2, <1>3

\* A sum of naturals is at least the sum of any of them.
LEMMA SumSubset ==
    ASSUME NEW f, NEW S, IsFiniteSet(S), NEW R \in SUBSET S, \A x \in S : f[x] \in Nat
    PROVE  SumFunctionOnSet(f, R) <= SumFunctionOnSet(f, S)
  <1>1. SumFunctionOnSet(f, S) = SumFunctionOnSet(f, R) + SumFunctionOnSet(f, S \ R)
    BY SumPart
  <1>2. IsFiniteSet(R) /\ IsFiniteSet(S \ R) BY FS_Subset
  <1>3. SumFunctionOnSet(f, R) \in Nat /\ SumFunctionOnSet(f, S \ R) \in Nat BY <1>2, SumNat
  <1>4. QED BY <1>1, <1>3

\* Summands that are zero may be left out.
LEMMA SumExtends ==
    ASSUME NEW f, NEW S, IsFiniteSet(S), NEW R \in SUBSET S, \A x \in S : f[x] \in Int,
           \A x \in S \ R : f[x] = 0
    PROVE  SumFunctionOnSet(f, R) = SumFunctionOnSet(f, S)
  <1>1. SumFunctionOnSet(f, S) = SumFunctionOnSet(f, R) + SumFunctionOnSet(f, S \ R)
    BY SumPart
  <1>2. IsFiniteSet(R) /\ IsFiniteSet(S \ R) BY FS_Subset
  <1>3. SumFunctionOnSet(f, S \ R) = 0 BY <1>2, SumZero
  <1>4. SumFunctionOnSet(f, R) \in Int BY <1>2, SumInt
  <1>5. QED BY <1>1, <1>3, <1>4

\* One of finitely many integers is the highest.
LEMMA HighestOf ==
    ASSUME NEW f, NEW S, IsFiniteSet(S), S # {}, \A x \in S : f[x] \in Int
    PROVE  \E x \in S : \A y \in S : f[y] <= f[x]
  <1> DEFINE Good == {T \in SUBSET S : T = {} \/ \E x \in T : \A y \in T : f[y] <= f[x]}
  <1>1. {} \in Good OBVIOUS
  <1>2. ASSUME NEW T \in SUBSET S, T # {}, T \ {First(T)} \in Good
        PROVE  T \in Good
    <2>1. PICK z \in T : z = First(T) BY <1>2, FirstIn
    <2>2. CASE T \ {z} = {}
      <3>1. \A y \in T : y = z BY <2>2
      <3>2. f[z] \in Int OBVIOUS
      <3>3. \A y \in T : f[y] <= f[z] BY <3>1, <3>2
      <3>4. QED BY <3>3
    <2>3. ASSUME NEW x \in T \ {z}, \A y \in T \ {z} : f[y] <= f[x]
          PROVE  T \in Good
      <3>1. f[z] \in Int /\ f[x] \in Int /\ \A y \in T : f[y] \in Int OBVIOUS
      <3>2. CASE f[z] <= f[x]
        <4>1. \A y \in T : f[y] <= f[x] BY <2>3, <3>2
        <4>2. QED BY <4>1
      <3>3. CASE f[x] <= f[z]
        <4>1. \A y \in T : f[y] <= f[z] BY <2>3, <3>1, <3>3
        <4>2. QED BY <4>1
      <3>4. QED BY <3>1, <3>2, <3>3
    <2>4. QED BY <1>2, <2>1, <2>2, <2>3
  <1> HIDE DEF Good
  <1>3. S \in Good BY <1>1, <1>2, FirstInduction
  <1>4. QED BY <1>3 DEF Good
=============================================================================
