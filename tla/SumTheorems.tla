---------------------------- MODULE SumTheorems ----------------------------
(***************************************************************************)
(* Facts about the sum of a function over a finite set, which the other    *)
(* proofs count with.  The library defines the sum by a recursive function *)
(* on the subsets of the set; that this function exists, and that the      *)
(* order in which it takes the elements does not matter, is proved here by *)
(* induction on the subsets, a set of sets playing the predicate.          *)
(***************************************************************************)
EXTENDS Functions, FiniteSetTheorems, TLAPS

\* Induction over the subsets of a finite set: a set of them that holds each
\* one whose strict subsets it holds has them all.
LEMMA SubsetInduction ==
  ASSUME NEW S, IsFiniteSet(S), NEW Good,
         \A T \in SUBSET S : (\A U \in SUBSET T : U # T => U \in Good) => T \in Good
  PROVE  SUBSET S \subseteq Good
<1> DEFINE Bad == (SUBSET S) \ Good
<1> SUFFICES ASSUME Bad # {} PROVE FALSE
  OBVIOUS
<1>1. IsWellFoundedOn(StrictSubsetOrdering(S), SUBSET S)
  <2>1. IsWellFoundedOn(StrictSubsetOrdering(S), FiniteSubsetsOf(S))
    BY FS_StrictSubsetOrderingWellFounded, Zenon
  <2>2. FiniteSubsetsOf(S) = SUBSET S
    BY FS_FiniteSubsetsOfFinite, Zenon
  <2> QED
    BY <2>1, <2>2, Zenon
<1>2. PICK T \in Bad : \A U \in Bad : <<U, T>> \notin StrictSubsetOrdering(S)
  <2> HIDE DEF Bad
  <2>1. Bad \subseteq SUBSET S
    BY DEF Bad
  <2> QED
    BY <1>1, <2>1, WFMin
<1>3. \A U \in SUBSET T : U # T => U \in Good
  BY <1>2 DEF StrictSubsetOrdering
<1> QED
  BY <1>2, <1>3

-----------------------------------------------------------------------------
(* The recursive function of the sum. *)

\* The element of a set the sum takes first.
First(T) == CHOOSE x \in T : TRUE

Sums(sum, f, S) ==
  sum = [T \in SUBSET S |->
           IF T = {} THEN 0 ELSE f[First(T)] + sum[T \ {First(T)}]]

LEMMA SumDefinition ==
  ASSUME NEW f, NEW S
  PROVE  SumFunctionOnSet(f, S) = (CHOOSE sum : Sums(sum, f, S))[S]
BY DEF SumFunctionOnSet, FoldFunctionOnSet, MapThenFoldSet, Sums, First

LEMMA FirstElement ==
  ASSUME NEW T, T # {}
  PROVE  First(T) \in T /\ T \ {First(T)} \in SUBSET T /\ T \ {First(T)} # T
BY DEF First

LEMMA SumsApplied ==
  ASSUME NEW sum, NEW f, NEW S, Sums(sum, f, S), NEW T \in SUBSET S
  PROVE  sum[T] = IF T = {} THEN 0 ELSE f[First(T)] + sum[T \ {First(T)}]
BY DEF Sums

\* There is one such function at most, whatever the set it sums over.
LEMMA SumsAgree ==
  ASSUME NEW S, IsFiniteSet(S), NEW R \in SUBSET S, NEW f, NEW g, NEW h,
         Sums(g, f, S), Sums(h, f, R)
  PROVE  \A T \in SUBSET R : g[T] = h[T]
<1> DEFINE Good == {T \in SUBSET R : g[T] = h[T]}
<1>1. IsFiniteSet(R)
  BY FS_Subset
<1>2. ASSUME NEW T \in SUBSET R, \A U \in SUBSET T : U # T => U \in Good
      PROVE  T \in Good
  <2>1. T \in SUBSET S
    OBVIOUS
  <2>2. /\ g[T] = IF T = {} THEN 0 ELSE f[First(T)] + g[T \ {First(T)}]
        /\ h[T] = IF T = {} THEN 0 ELSE f[First(T)] + h[T \ {First(T)}]
    BY <2>1, SumsApplied, Zenon
  <2>3. T # {} => g[T \ {First(T)}] = h[T \ {First(T)}]
    BY <1>2, FirstElement
  <2> QED
    BY <2>2, <2>3
<1> HIDE DEF Good
<1>3. SUBSET R \subseteq Good
  BY <1>1, <1>2, SubsetInduction, Zenon
<1> QED
  BY <1>3 DEF Good

\* And there is one.
LEMMA SumsExist ==
  ASSUME NEW S, IsFiniteSet(S), NEW f
  PROVE  \A T \in SUBSET S : \E sum : Sums(sum, f, T)
<1> DEFINE Good == {T \in SUBSET S : \E sum : Sums(sum, f, T)}
           Total(T) == (CHOOSE sum : Sums(sum, f, T))[T]
<1>1. ASSUME NEW T \in SUBSET S, \A U \in SUBSET T : U # T => U \in Good
      PROVE  T \in Good
  <2> DEFINE step(U) == IF U = {} THEN 0 ELSE f[First(U)] + Total(U \ {First(U)})
             sum == [U \in SUBSET T |-> step(U)]
  <2>1. ASSUME NEW U \in SUBSET T, U # T
        PROVE  Total(U) = step(U)
    <3> DEFINE g == CHOOSE g : Sums(g, f, U)
               V == U \ {First(U)}
               h == CHOOSE h : Sums(h, f, V)
    <3>1. Sums(g, f, U) /\ IsFiniteSet(U)
      BY <1>1, <2>1, FS_Subset
    <3>2. CASE U = {}
      BY <3>1, <3>2, SumsApplied
    <3>3. CASE U # {}
      <4>1. V \in SUBSET U /\ V # T
        BY <2>1, <3>3, FirstElement
      <4>2. Sums(h, f, V)
        BY <1>1, <4>1
      <4> HIDE DEF g, h, V
      <4>3. g[V] = h[V]
        BY <3>1, <4>1, <4>2, SumsAgree
      <4>4. g[U] = f[First(U)] + g[V]
        BY <3>1, <3>3, SumsApplied DEF V
      <4> QED
        BY <3>3, <4>3, <4>4 DEF g, h, V
    <3> QED
      BY <3>2, <3>3
  <2>2. ASSUME NEW U \in SUBSET T, U # {}
        PROVE  sum[U \ {First(U)}] = Total(U \ {First(U)})
    <3> DEFINE V == U \ {First(U)}
    <3>1. V \in SUBSET T /\ V # T
      BY <2>2, FirstElement
    <3> HIDE DEF V, Total
    <3>2. Total(V) = step(V) /\ sum[V] = step(V)
      BY <2>1, <3>1
    <3> QED
      BY <3>2 DEF V
  <2> HIDE DEF Total
  <2>3. Sums(sum, f, T)
    BY <2>2 DEF Sums
  <2> QED
    BY <2>3
<1> HIDE DEF Good
<1>2. SUBSET S \subseteq Good
  BY <1>1, SubsetInduction, Zenon
<1> QED
  BY <1>2 DEF Good

-----------------------------------------------------------------------------
(* What the sum is. *)

\* The sum, element by element: in the order of the definition, then in any.
LEMMA SumFirst ==
  ASSUME NEW S, IsFiniteSet(S), NEW f
  PROVE  SumFunctionOnSet(f, S) =
           IF S = {} THEN 0 ELSE f[First(S)] + SumFunctionOnSet(f, S \ {First(S)})
<1> DEFINE R == S \ {First(S)}
           g == CHOOSE sum : Sums(sum, f, S)
           h == CHOOSE sum : Sums(sum, f, R)
<1>1. R \in SUBSET S
  OBVIOUS
<1>2. Sums(g, f, S) /\ Sums(h, f, R)
  <2>1. (\E sum : Sums(sum, f, S)) /\ (\E sum : Sums(sum, f, R))
    BY <1>1, SumsExist
  <2> QED
    BY <2>1
<1>3. SumFunctionOnSet(f, S) = g[S] /\ SumFunctionOnSet(f, R) = h[R]
  BY SumDefinition, Zenon
<1> HIDE DEF g, h, R
<1>4. g[S] = IF S = {} THEN 0 ELSE f[First(S)] + g[R]
  BY <1>2, SumsApplied DEF R
<1>5. g[R] = h[R]
  BY <1>1, <1>2, SumsAgree
<1> QED
  BY <1>3, <1>4, <1>5 DEF R

LEMMA SumEmpty ==
  ASSUME NEW f
  PROVE  SumFunctionOnSet(f, {}) = 0
BY SumFirst, FS_EmptySet

LEMMA SumType ==
  ASSUME NEW S, IsFiniteSet(S), NEW f, NEW Numbers, Numbers = Nat \/ Numbers = Int,
         \A x \in S : f[x] \in Numbers
  PROVE  \A T \in SUBSET S : SumFunctionOnSet(f, T) \in Numbers
<1> DEFINE Good == {T \in SUBSET S : SumFunctionOnSet(f, T) \in Numbers}
<1>1. ASSUME NEW T \in SUBSET S, \A U \in SUBSET T : U # T => U \in Good
      PROVE  T \in Good
  <2>1. IsFiniteSet(T)
    BY FS_Subset
  <2>2. CASE T = {}
    BY <2>2, SumEmpty
  <2>3. CASE T # {}
    <3>1. SumFunctionOnSet(f, T) = f[First(T)] + SumFunctionOnSet(f, T \ {First(T)})
      BY <2>1, <2>3, SumFirst
    <3>2. SumFunctionOnSet(f, T \ {First(T)}) \in Numbers /\ f[First(T)] \in Numbers
      BY <1>1, <2>3, FirstElement
    <3> QED
      BY <3>1, <3>2
  <2> QED
    BY <2>2, <2>3
<1> HIDE DEF Good
<1>2. SUBSET S \subseteq Good
  BY <1>1, SubsetInduction, Zenon
<1> QED
  BY <1>2 DEF Good

LEMMA SumSplit ==
  ASSUME NEW S, IsFiniteSet(S), NEW f, \A x \in S : f[x] \in Int, NEW a \in S
  PROVE  SumFunctionOnSet(f, S) = f[a] + SumFunctionOnSet(f, S \ {a})
<1> DEFINE sum(T) == SumFunctionOnSet(f, T)
           Good == {T \in SUBSET S : \A x \in T : sum(T) = f[x] + sum(T \ {x})}
<1>1. ASSUME NEW T \in SUBSET S, \A U \in SUBSET T : U # T => U \in Good, NEW x \in T
      PROVE  sum(T) = f[x] + sum(T \ {x})
  <2> DEFINE y == First(T)
             R == T \ {x, y}
  <2>1. y \in T /\ sum(T) = f[y] + sum(T \ {y})
    <3>1. IsFiniteSet(T) /\ T # {}
      BY FS_Subset
    <3> QED
      BY <3>1, SumFirst, FirstElement
  <2> HIDE DEF y, sum
  <2>2. CASE x # y
    <3>1. sum(T \ {y}) = f[x] + sum(R)
      <4>1. (T \ {y}) \in Good /\ x \in T \ {y} /\ (T \ {y}) \ {x} = R
        BY <1>1, <2>1, <2>2
      <4> QED
        BY <4>1
    <3>2. sum(T \ {x}) = f[y] + sum(R)
      <4>1. (T \ {x}) \in Good /\ y \in T \ {x} /\ (T \ {x}) \ {y} = R
        BY <1>1, <2>1, <2>2
      <4> QED
        BY <4>1
    <3>3. f[x] \in Int /\ f[y] \in Int /\ sum(R) \in Int
      <4>1. R \in SUBSET S
        OBVIOUS
      <4>2. sum(R) \in Int
        BY <4>1, SumType DEF sum
      <4> QED
        BY <2>1, <4>2
    <3> QED
      BY <2>1, <3>1, <3>2, <3>3
  <2> QED
    BY <2>1, <2>2
<1>2. ASSUME NEW T \in SUBSET S, \A U \in SUBSET T : U # T => U \in Good
      PROVE  T \in Good
  <2> HIDE DEF sum
  <2> QED
    BY <1>1, <1>2
<1>3. SUBSET S \subseteq Good
  <2> HIDE DEF Good
  <2> QED
    BY <1>2, SubsetInduction, Zenon
<1> QED
  BY <1>3

-----------------------------------------------------------------------------
(* How the sums of two functions compare. *)

LEMMA SumMonotone ==
  ASSUME NEW S, IsFiniteSet(S), NEW f, NEW g,
         \A x \in S : f[x] \in Int /\ g[x] \in Int /\ f[x] <= g[x]
  PROVE  SumFunctionOnSet(f, S) <= SumFunctionOnSet(g, S)
<1> DEFINE Good == {T \in SUBSET S : SumFunctionOnSet(f, T) <= SumFunctionOnSet(g, T)}
<1>1. ASSUME NEW T \in SUBSET S, \A U \in SUBSET T : U # T => U \in Good
      PROVE  T \in Good
  <2>1. IsFiniteSet(T)
    BY FS_Subset
  <2>2. CASE T = {}
    BY <2>2, SumEmpty
  <2>3. CASE T # {}
    <3> DEFINE x == First(T)
               R == T \ {x}
    <3>1. x \in S /\ R \in SUBSET S
      BY <2>3, FirstElement
    <3>2. /\ SumFunctionOnSet(f, T) = f[x] + SumFunctionOnSet(f, R)
          /\ SumFunctionOnSet(g, T) = g[x] + SumFunctionOnSet(g, R)
      BY <2>1, <2>3, SumFirst
    <3>3. SumFunctionOnSet(f, R) <= SumFunctionOnSet(g, R)
      BY <1>1, <2>3, FirstElement
    <3>4. SumFunctionOnSet(f, R) \in Int /\ SumFunctionOnSet(g, R) \in Int
      BY <3>1, SumType
    <3> HIDE DEF x, R
    <3> QED
      BY <3>1, <3>2, <3>3, <3>4
  <2> QED
    BY <2>2, <2>3
<1> HIDE DEF Good
<1>2. SUBSET S \subseteq Good
  BY <1>1, SubsetInduction, Zenon
<1> QED
  BY <1>2 DEF Good

LEMMA SumZero ==
  ASSUME NEW S, IsFiniteSet(S), NEW f, \A x \in S : f[x] = 0
  PROVE  SumFunctionOnSet(f, S) = 0
<1> DEFINE Good == {T \in SUBSET S : SumFunctionOnSet(f, T) = 0}
<1>1. ASSUME NEW T \in SUBSET S, \A U \in SUBSET T : U # T => U \in Good
      PROVE  T \in Good
  <2>1. IsFiniteSet(T)
    BY FS_Subset
  <2>2. CASE T = {}
    BY <2>2, SumEmpty
  <2>3. CASE T # {}
    <3>1. SumFunctionOnSet(f, T) = f[First(T)] + SumFunctionOnSet(f, T \ {First(T)})
      BY <2>1, <2>3, SumFirst
    <3>2. SumFunctionOnSet(f, T \ {First(T)}) = 0 /\ f[First(T)] = 0
      BY <1>1, <2>3, FirstElement
    <3> QED
      BY <3>1, <3>2
  <2> QED
    BY <2>2, <2>3
<1> HIDE DEF Good
<1>2. SUBSET S \subseteq Good
  BY <1>1, SubsetInduction, Zenon
<1> QED
  BY <1>2 DEF Good

\* Two functions that differ at one element.
LEMMA SumChange ==
  ASSUME NEW S, IsFiniteSet(S), NEW f, NEW g, NEW a \in S,
         \A x \in S : f[x] \in Int /\ g[x] \in Int /\ (x # a => g[x] = f[x])
  PROVE  /\ SumFunctionOnSet(f, S) \in Int /\ SumFunctionOnSet(g, S) \in Int
         /\ SumFunctionOnSet(g, S) - SumFunctionOnSet(f, S) = g[a] - f[a]
<1> DEFINE R == S \ {a}
<1>1. /\ SumFunctionOnSet(f, S) = f[a] + SumFunctionOnSet(f, R)
      /\ SumFunctionOnSet(g, S) = g[a] + SumFunctionOnSet(g, R)
  BY SumSplit
<1>2. SumFunctionOnSet(f, R) \in Int /\ SumFunctionOnSet(g, R) \in Int
  BY SumType
<1>3. SumFunctionOnSet(f, R) = SumFunctionOnSet(g, R)
  <2>1. IsFiniteSet(R)
    BY FS_RemoveElement
  <2>2. SumFunctionOnSet(f, R) <= SumFunctionOnSet(g, R)
        /\ SumFunctionOnSet(g, R) <= SumFunctionOnSet(f, R)
    BY <2>1, SumMonotone
  <2> QED
    BY <1>2, <2>2
<1> QED
  BY <1>1, <1>2, <1>3

\* A set that is covered by sets of bounded size has no more elements than the
\* bounds add up to.
LEMMA UnionBound ==
  ASSUME NEW S, IsFiniteSet(S), NEW bound, NEW part,
         \A x \in S : bound[x] \in Int /\ IsFiniteSet(part[x]) /\ Cardinality(part[x]) <= bound[x]
  PROVE  LET all == UNION {part[x] : x \in S}
         IN  IsFiniteSet(all) /\ Cardinality(all) <= SumFunctionOnSet(bound, S)
<1> DEFINE all(T) == UNION {part[x] : x \in T}
           Bounded(T) == IsFiniteSet(all(T)) /\ Cardinality(all(T)) <= SumFunctionOnSet(bound, T)
           Good == {T \in SUBSET S : Bounded(T)}
<1>1. ASSUME NEW T \in SUBSET S, \A U \in SUBSET T : U # T => U \in Good
      PROVE  Bounded(T)
  <2>1. CASE T = {}
    <3>1. all(T) = {}
      BY <2>1
    <3> QED
      BY <2>1, <3>1, SumEmpty, FS_EmptySet
  <2>2. CASE T # {}
    <3> DEFINE x == First(T)
               R == T \ {x}
    <3>1. x \in T /\ R \in SUBSET T /\ R # T
      BY <2>2, FirstElement
    <3>2. Bounded(R)
      BY <1>1, <3>1
    <3>3. SumFunctionOnSet(bound, T) = bound[x] + SumFunctionOnSet(bound, R)
      <4>1. IsFiniteSet(T)
        BY FS_Subset
      <4> QED
        BY <2>2, <4>1, SumFirst
    <3>4. SumFunctionOnSet(bound, R) \in Int
      BY <3>1, SumType
    <3> HIDE DEF x
    <3>5. all(T) = part[x] \cup all(R)
      BY <3>1
    <3> HIDE DEF all, R
    <3>6. IsFiniteSet(all(T))
          /\ Cardinality(all(T)) = Cardinality(part[x]) + Cardinality(all(R))
               - Cardinality(part[x] \cap all(R))
      BY <3>1, <3>2, <3>5, FS_Union
    <3>7. Cardinality(part[x]) \in Nat /\ Cardinality(all(R)) \in Nat
          /\ Cardinality(part[x] \cap all(R)) \in Nat
      BY <3>1, <3>2, FS_CardinalityType, FS_Intersection
    <3>8. bound[x] \in Int /\ Cardinality(part[x]) <= bound[x]
      BY <3>1
    <3> QED
      BY <3>2, <3>3, <3>4, <3>6, <3>7, <3>8
  <2> QED
    BY <2>1, <2>2
<1>2. ASSUME NEW T \in SUBSET S, \A U \in SUBSET T : U # T => U \in Good
      PROVE  T \in Good
  <2> HIDE DEF Bounded
  <2> QED
    BY <1>1, <1>2
<1>3. SUBSET S \subseteq Good
  <2> HIDE DEF Good
  <2> QED
    BY <1>2, SubsetInduction, Zenon
<1>4. Bounded(S)
  <2> HIDE DEF Bounded
  <2> QED
    BY <1>3
<1> QED
  BY <1>4
=============================================================================
