----------------------------- MODULE Induction ------------------------------
(***************************************************************************)
(* Induction over numbers and over finite sets, for the proofs about the   *)
(* other modules.  What is to be shown of every n is given as the set of   *)
(* those n it holds of, never as an operator, so that a backend can use    *)
(* each fact as it stands.  All of it rests on the minimal elements of     *)
(* well-founded relations.                                                 *)
(***************************************************************************)
EXTENDS Integers, FiniteSets, FiniteSetsExt, Functions, FiniteSetTheorems,
        WellFoundedInduction, TLAPS

\* A set of numbers has a least one.
LEMMA LeastNumber ==
    ASSUME NEW T \in SUBSET Nat, T # {}
    PROVE  \E x \in T : \A y \in T : x <= y
<1> DEFINE R == OpToRel(<, Nat)
<1>1. IsWellFoundedOn(R, Nat)
  BY NatLessThanWellFounded
<1>2. ASSUME NEW x \in T, NEW y \in T, y < x
      PROVE  <<y, x>> \in R
  BY <1>2 DEF OpToRel
<1> HIDE DEF R
<1>3. PICK x \in T : \A y \in T : <<y, x>> \notin R
  BY <1>1, WFMin
<1>4. ASSUME NEW y \in T
      PROVE  x <= y
  <2>1. ~(y < x)
    BY <1>2, <1>3
  <2>2. x \in Nat /\ y \in Nat
    OBVIOUS
  <2> QED
    BY <2>1, <2>2
<1> QED
  BY <1>4

\* Induction over the numbers.
LEMMA Numbers ==
    ASSUME NEW P, 0 \in P, \A n \in Nat : n \in P => n + 1 \in P
    PROVE  Nat \subseteq P
<1>1. ASSUME Nat \ P # {}
      PROVE  FALSE
  <2>1. PICK x \in Nat \ P : \A y \in Nat \ P : x <= y
    BY <1>1, LeastNumber
  <2>2. x # 0 /\ x - 1 \in Nat
    BY <2>1
  <2>3. x - 1 \in P
    BY <2>1, <2>2
  <2>4. (x - 1) + 1 \in P
    BY <2>2, <2>3
  <2> QED
    BY <2>1, <2>4
<1> QED
  BY <1>1

\* The same up to a bound.
LEMMA NumbersUpTo ==
    ASSUME NEW k \in Nat, NEW P, 0 \in P,
           \A n \in 0 .. k : n \in P /\ n < k => n + 1 \in P
    PROVE  0 .. k \subseteq P
<1> DEFINE Q == {n \in Nat : n <= k => n \in P}
<1>1. 0 \in Q
  OBVIOUS
<1>2. ASSUME NEW n \in Nat, n \in Q
      PROVE  n + 1 \in Q
  BY <1>2
<1>3. Nat \subseteq Q
  <2> HIDE DEF Q
  <2> QED
    BY <1>1, <1>2, Numbers
<1> QED
  BY <1>3

\* Induction over a finite set: nothing, then one element more.
LEMMA OneMore ==
    ASSUME NEW S, IsFiniteSet(S), NEW P, {} \in P,
           \A T \in SUBSET S : \A x \in S \ T : T \in P => T \cup {x} \in P
    PROVE  S \in P
<1> DEFINE Bad == {T \in SUBSET S : S \ T \in P}
           R == StrictSubsetOrdering(S)
           F == FiniteSubsetsOf(S)
<1>1. IsWellFoundedOn(R, F)
  BY FS_StrictSubsetOrderingWellFounded
<1>2. Bad \subseteq F
  BY FS_Subset DEF FiniteSubsetsOf
<1>3. S \in Bad
  <2>1. S \ S = {}
    OBVIOUS
  <2> QED
    BY <2>1
<1>4. PICK T \in Bad : \A U \in Bad : <<U, T>> \notin R
  <2> HIDE DEF R, F, Bad
  <2> QED
    BY <1>1, <1>2, <1>3, WFMin
<1>5. CASE T = {}
  <2>1. S \ T = S
    BY <1>5
  <2> QED
    BY <1>4, <2>1
<1>6. CASE T # {}
  <2>1. PICK x \in T : TRUE
    BY <1>6
  <2>2. x \in S \ (S \ T) /\ S \ T \in SUBSET S /\ S \ T \in P
    BY <2>1
  <2>3. (S \ T) \cup {x} \in P
    BY <2>2
  <2>4. S \ (T \ {x}) = (S \ T) \cup {x}
    BY <2>2
  <2>5. T \ {x} \in Bad
    BY <2>3, <2>4
  <2>6. <<T \ {x}, T>> \in R
    BY <2>1 DEF StrictSubsetOrdering
  <2> QED
    BY <1>4, <2>5, <2>6
<1> QED
  BY <1>5, <1>6

\* The values of a function on a finite set.
LEMMA ImageIsFinite ==
    ASSUME NEW S, IsFiniteSet(S), NEW f
    PROVE  IsFiniteSet({f[x] : x \in S})
<1> DEFINE P == {T \in SUBSET S : IsFiniteSet({f[x] : x \in T})}
<1>1. {} \in P
  <2>1. {f[x] : x \in {}} = {}
    OBVIOUS
  <2> QED
    BY <2>1, FS_EmptySet
<1>2. ASSUME NEW T \in SUBSET S, NEW y \in S \ T, T \in P
      PROVE  T \cup {y} \in P
  <2>1. {f[x] : x \in T \cup {y}} = {f[x] : x \in T} \cup {f[y]}
    OBVIOUS
  <2>2. IsFiniteSet({f[x] : x \in T})
    BY <1>2
  <2>3. IsFiniteSet({f[x] : x \in T} \cup {f[y]})
    BY <2>2, FS_AddElement
  <2> QED
    BY <2>1, <2>3
<1>3. S \in P
  <2> HIDE DEF P
  <2> QED
    BY <1>1, <1>2, OneMore
<1> QED
  BY <1>3

\* A finite set of integers has a least and a greatest element.
LEMMA MinOfFinite ==
    ASSUME NEW S \in SUBSET Int, IsFiniteSet(S), S # {}
    PROVE  Min(S) \in S /\ \A x \in S : Min(S) <= x
<1> DEFINE P == {T \in SUBSET S : T # {} => \E m \in T : \A x \in T : m <= x}
<1>1. {} \in P
  OBVIOUS
<1>2. ASSUME NEW T \in SUBSET S, NEW y \in S \ T, T \in P
      PROVE  T \cup {y} \in P
  <2>1. CASE T = {}
    BY <2>1
  <2>2. CASE T # {}
    <3>1. PICK m \in T : \A x \in T : m <= x
      BY <1>2, <2>2
    <3>2. CASE m <= y
      BY <3>1, <3>2
    <3>3. CASE ~(m <= y)
      <4>1. \A x \in T : y <= x
        BY <3>1, <3>3
      <4> QED
        BY <4>1
    <3> QED
      BY <3>2, <3>3
  <2> QED
    BY <2>1, <2>2
<1>3. S \in P
  <2> HIDE DEF P
  <2> QED
    BY <1>1, <1>2, OneMore
<1>4. \E m \in S : \A x \in S : m <= x
  BY <1>3
<1> QED
  BY <1>4 DEF Min

LEMMA MaxOfFinite ==
    ASSUME NEW S \in SUBSET Int, IsFiniteSet(S), S # {}
    PROVE  Max(S) \in S /\ \A x \in S : Max(S) >= x
<1> DEFINE P == {T \in SUBSET S : T # {} => \E m \in T : \A x \in T : m >= x}
<1>1. {} \in P
  OBVIOUS
<1>2. ASSUME NEW T \in SUBSET S, NEW y \in S \ T, T \in P
      PROVE  T \cup {y} \in P
  <2>1. CASE T = {}
    BY <2>1
  <2>2. CASE T # {}
    <3>1. PICK m \in T : \A x \in T : m >= x
      BY <1>2, <2>2
    <3>2. CASE m >= y
      BY <3>1, <3>2
    <3>3. CASE ~(m >= y)
      <4>1. \A x \in T : y >= x
        BY <3>1, <3>3
      <4> QED
        BY <4>1
    <3> QED
      BY <3>2, <3>3
  <2> QED
    BY <2>1, <2>2
<1>3. S \in P
  <2> HIDE DEF P
  <2> QED
    BY <1>1, <1>2, OneMore
<1>4. \E m \in S : \A x \in S : m >= x
  BY <1>3
<1> QED
  BY <1>4 DEF Max

-----------------------------------------------------------------------------
(* Recursive functions over the numbers exist.                             *)

Iterates(f, k, S, a, G) ==
    f \in [0 .. k -> S] /\ f[0] = a /\ \A n \in 1 .. k : f[n] = G[f[n - 1]]

LEMMA IteratesAgree ==
    ASSUME NEW S, NEW a, NEW G, NEW j \in Nat, NEW k \in Nat, j <= k,
           NEW f, NEW g, Iterates(f, j, S, a, G), Iterates(g, k, S, a, G)
    PROVE  \A n \in 0 .. j : f[n] = g[n]
<1> DEFINE P == {n \in 0 .. j : f[n] = g[n]}
<1>1. 0 \in P
  BY DEF Iterates
<1>2. ASSUME NEW n \in 0 .. j, n \in P, n < j
      PROVE  n + 1 \in P
  <2>1. n + 1 \in 1 .. j /\ n + 1 \in 1 .. k /\ (n + 1) - 1 = n
    BY <1>2
  <2>2. f[n + 1] = G[f[n]] /\ g[n + 1] = G[g[n]]
    BY <2>1 DEF Iterates
  <2> QED
    BY <1>2, <2>1, <2>2
<1>3. 0 .. j \subseteq P
  <2> HIDE DEF P
  <2> QED
    BY <1>1, <1>2, NumbersUpTo
<1> QED
  BY <1>3

LEMMA IteratesExist ==
    ASSUME NEW S, NEW a \in S, NEW G \in [S -> S]
    PROVE  \A k \in Nat : \E f : Iterates(f, k, S, a, G)
<1> DEFINE P == {k \in Nat : \E f : Iterates(f, k, S, a, G)}
<1>1. 0 \in P
  <2>1. Iterates([n \in 0 .. 0 |-> a], 0, S, a, G)
    BY DEF Iterates
  <2> QED
    BY <2>1
<1>2. ASSUME NEW k \in Nat, k \in P
      PROVE  k + 1 \in P
  <2>1. PICK f : Iterates(f, k, S, a, G)
    BY <1>2
  <2> DEFINE g == [n \in 0 .. k + 1 |-> IF n = k + 1 THEN G[f[k]] ELSE f[n]]
  <2>2. f \in [0 .. k -> S] /\ f[0] = a /\ \A n \in 1 .. k : f[n] = G[f[n - 1]]
    BY <2>1 DEF Iterates
  <2>3. g \in [0 .. k + 1 -> S]
    BY <2>2
  <2>4. g[0] = a
    BY <2>2
  <2>5. ASSUME NEW n \in 1 .. k + 1
        PROVE  g[n] = G[g[n - 1]]
    <3>1. CASE n = k + 1
      BY <2>2, <3>1
    <3>2. CASE n # k + 1
      <4>1. n \in 1 .. k /\ n - 1 \in 0 .. k
        BY <3>2
      <4> QED
        BY <2>2, <3>2, <4>1
    <3> QED
      BY <3>1, <3>2
  <2>6. Iterates(g, k + 1, S, a, G)
    <3> HIDE DEF g
    <3> QED
      BY <2>3, <2>4, <2>5 DEF Iterates
  <2> QED
    BY <2>6
<1>3. Nat \subseteq P
  <2> HIDE DEF P
  <2> QED
    BY <1>1, <1>2, Numbers
<1> QED
  BY <1>3

\* f[0] = a, f[n + 1] = G[f[n]] defines a function.
LEMMA Recursion ==
    ASSUME NEW S, NEW a \in S, NEW G \in [S -> S]
    PROVE  \E f \in [Nat -> S] : f[0] = a /\ \A n \in Nat : f[n + 1] = G[f[n]]
<1> DEFINE upTo(k) == CHOOSE f : Iterates(f, k, S, a, G)
           f == [n \in Nat |-> upTo(n)[n]]
<1>1. \A k \in Nat : Iterates(upTo(k), k, S, a, G)
  BY IteratesExist
<1> HIDE DEF upTo
<1>2. f \in [Nat -> S]
  BY <1>1 DEF Iterates
<1>3. f[0] = a
  BY <1>1 DEF Iterates
<1>4. ASSUME NEW n \in Nat
      PROVE  f[n + 1] = G[f[n]]
  <2>1. Iterates(upTo(n), n, S, a, G) /\ Iterates(upTo(n + 1), n + 1, S, a, G)
    BY <1>1
  <2>2. n \in 0 .. n /\ n <= n + 1 /\ n + 1 \in Nat
    OBVIOUS
  <2>3. \A m \in 0 .. n : upTo(n)[m] = upTo(n + 1)[m]
    BY <2>1, <2>2, IteratesAgree
  <2>4. upTo(n)[n] = upTo(n + 1)[n]
    BY <2>2, <2>3
  <2>5. n + 1 \in 1 .. n + 1 /\ (n + 1) - 1 = n
    OBVIOUS
  <2>6. upTo(n + 1)[n + 1] = G[upTo(n + 1)[n]]
    BY <2>1, <2>5 DEF Iterates
  <2> QED
    BY <2>4, <2>6
<1> QED
  <2> HIDE DEF f
  <2> QED
    BY <1>2, <1>3, <1>4

-----------------------------------------------------------------------------
(* Sums over finite sets, as FiniteSetsExt and Functions compute them: one *)
(* element after the other, in an order of CHOOSE's.                       *)

Some(T) == CHOOSE x \in T : TRUE

SumFrom(f, S) ==
    CHOOSE g : g = [T \in SUBSET S |-> IF T = {} THEN 0 ELSE f[Some(T)] + g[T \ {Some(T)}]]

Sum(f, S) == SumFrom(f, S)[S]

LEMMA SumOfFunction ==
    ASSUME NEW f, NEW S
    PROVE  SumFunctionOnSet(f, S) = Sum(f, S)
  BY DEF SumFunctionOnSet, FoldFunctionOnSet, MapThenFoldSet, Sum, SumFrom, Some

LEMMA SumOfMap ==
    ASSUME NEW f, NEW S
    PROVE  MapThenSumSet(LAMBDA x : f[x], S) = Sum(f, S)
  BY DEF MapThenSumSet, MapThenFoldSet, Sum, SumFrom, Some

\* g gives the sums of the subsets of S with at most k elements.
Sums(g, f, S, k) ==
    /\ g \in [{T \in SUBSET S : Cardinality(T) <= k} -> Int]
    /\ \A T \in SUBSET S : Cardinality(T) <= k =>
           g[T] = IF T = {} THEN 0 ELSE f[Some(T)] + g[T \ {Some(T)}]

LEMMA OneLess ==
    ASSUME NEW S, IsFiniteSet(S), NEW T \in SUBSET S, T # {}
    PROVE  /\ Some(T) \in T /\ T \ {Some(T)} \in SUBSET S
           /\ Cardinality(T) \in Nat
           /\ Cardinality(T \ {Some(T)}) = Cardinality(T) - 1
<1>1. Some(T) \in T
  BY DEF Some
<1>2. IsFiniteSet(T)
  BY FS_Subset
<1>3. Cardinality(T) \in Nat /\ Cardinality(T \ {Some(T)}) = Cardinality(T) - 1
  BY <1>1, <1>2, FS_CardinalityType, FS_RemoveElement
<1> QED
  BY <1>1, <1>3

LEMMA SumsExist ==
    ASSUME NEW S, IsFiniteSet(S), NEW f, \A x \in S : f[x] \in Int
    PROVE  \A k \in Nat : \E g : Sums(g, f, S, k)
<1> DEFINE P == {k \in Nat : \E g : Sums(g, f, S, k)}
           next(g, T) == IF T = {} THEN 0 ELSE f[Some(T)] + g[T \ {Some(T)}]
<1>1. 0 \in P
  <2> DEFINE g == [T \in {U \in SUBSET S : Cardinality(U) <= 0} |-> 0]
  <2>1. ASSUME NEW T \in SUBSET S, Cardinality(T) <= 0
        PROVE  T = {}
    <3>1. IsFiniteSet(T)
      BY FS_Subset
    <3> QED
      BY <2>1, <3>1, FS_CardinalityType, FS_EmptySet
  <2>2. Sums(g, f, S, 0)
    BY <2>1 DEF Sums
  <2> QED
    BY <2>2
<1>2. ASSUME NEW k \in Nat, k \in P
      PROVE  k + 1 \in P
  <2>1. PICK g : Sums(g, f, S, k)
    BY <1>2
  <2> DEFINE h == [T \in {U \in SUBSET S : Cardinality(U) <= k + 1} |->
                       IF Cardinality(T) <= k THEN g[T] ELSE next(g, T)]
  <2>2. \A T \in SUBSET S : Cardinality(T) <= k => g[T] \in Int /\ g[T] = next(g, T)
    BY <2>1 DEF Sums
  <2>3. \A T \in SUBSET S : Cardinality(T) <= k + 1 => h[T] = IF Cardinality(T) <= k THEN g[T] ELSE next(g, T)
    OBVIOUS
  <2>4. ASSUME NEW T \in SUBSET S, Cardinality(T) <= k + 1, T # {}
        PROVE  /\ T \ {Some(T)} \in SUBSET S
               /\ Cardinality(T \ {Some(T)}) <= k /\ f[Some(T)] \in Int
    BY <2>4, OneLess
  <2>5. ASSUME NEW T \in SUBSET S, Cardinality(T) <= k + 1
        PROVE  h[T] = next(h, T) /\ h[T] \in Int
    <3>1. h[T] = next(g, T)
      BY <2>2, <2>3, <2>5
    <3>2. CASE T = {}
      BY <3>1, <3>2
    <3>3. CASE T # {}
      <4>1. /\ T \ {Some(T)} \in SUBSET S /\ f[Some(T)] \in Int
            /\ Cardinality(T \ {Some(T)}) <= k /\ Cardinality(T \ {Some(T)}) <= k + 1
        <5>1. Cardinality(T \ {Some(T)}) = Cardinality(T) - 1 /\ Cardinality(T) \in Nat
          BY <3>3, OneLess
        <5> QED
          BY <2>4, <2>5, <3>3, <5>1
      <4>2. h[T \ {Some(T)}] = g[T \ {Some(T)}] /\ g[T \ {Some(T)}] \in Int
        BY <4>1, <2>2, <2>3
      <4>3. next(g, T) = f[Some(T)] + g[T \ {Some(T)}] /\ next(h, T) = f[Some(T)] + h[T \ {Some(T)}]
        BY <3>3
      <4> HIDE DEF next, h
      <4> QED
        BY <3>1, <4>1, <4>2, <4>3
    <3> QED
      BY <3>2, <3>3
  <2>6. h \in [{U \in SUBSET S : Cardinality(U) <= k + 1} -> Int]
    <3>1. \A T \in {U \in SUBSET S : Cardinality(U) <= k + 1} : h[T] \in Int
      BY <2>5
    <3> QED
      BY <3>1
  <2>7. Sums(h, f, S, k + 1)
    <3> HIDE DEF h
    <3> QED
      BY <2>5, <2>6 DEF Sums
  <2> QED
    BY <2>7
<1>3. Nat \subseteq P
  <2> HIDE DEF P
  <2> QED
    BY <1>1, <1>2, Numbers
<1> QED
  BY <1>3

\* The recursion that Sum stands for has a solution.
LEMMA SumFromStep ==
    ASSUME NEW S, IsFiniteSet(S), NEW f, \A x \in S : f[x] \in Int
    PROVE  /\ SumFrom(f, S) \in [SUBSET S -> Int]
           /\ \A T \in SUBSET S : SumFrom(f, S)[T] =
                  IF T = {} THEN 0 ELSE f[Some(T)] + SumFrom(f, S)[T \ {Some(T)}]
<1>1. Cardinality(S) \in Nat
  BY FS_CardinalityType
<1>2. PICK g : Sums(g, f, S, Cardinality(S))
  BY <1>1, SumsExist
<1>3. {T \in SUBSET S : Cardinality(T) <= Cardinality(S)} = SUBSET S
  BY FS_Subset
<1>4. /\ g \in [SUBSET S -> Int]
      /\ \A T \in SUBSET S : g[T] = IF T = {} THEN 0 ELSE f[Some(T)] + g[T \ {Some(T)}]
  BY <1>2, <1>3 DEF Sums
<1>5. g = [T \in SUBSET S |-> IF T = {} THEN 0 ELSE f[Some(T)] + g[T \ {Some(T)}]]
  BY <1>4
<1> DEFINE h == SumFrom(f, S)
<1>6. h = [T \in SUBSET S |-> IF T = {} THEN 0 ELSE f[Some(T)] + h[T \ {Some(T)}]]
  BY <1>5 DEF SumFrom
<1> HIDE DEF h
<1>7. \A T \in SUBSET S : h[T] = IF T = {} THEN 0 ELSE f[Some(T)] + h[T \ {Some(T)}]
  BY <1>6
<1> DEFINE P == {T \in SUBSET S : h[T] = g[T]}
<1>8. \A k \in Nat : \A T \in SUBSET S : Cardinality(T) = k => h[T] = g[T]
  <2> DEFINE Q == {k \in Nat : \A T \in SUBSET S : Cardinality(T) = k => h[T] = g[T]}
  <2>1. 0 \in Q
    <3>1. ASSUME NEW T \in SUBSET S, Cardinality(T) = 0
          PROVE  h[T] = g[T]
      <4>1. T = {}
        BY <3>1, FS_Subset, FS_EmptySet
      <4> QED
        BY <1>4, <1>7, <4>1
    <3> QED
      BY <3>1
  <2>2. ASSUME NEW k \in Nat, k \in Q
        PROVE  k + 1 \in Q
    <3>1. ASSUME NEW T \in SUBSET S, Cardinality(T) = k + 1
          PROVE  h[T] = g[T]
      <4>1. T # {}
        BY <3>1, FS_EmptySet
      <4>2. T \ {Some(T)} \in SUBSET S /\ Cardinality(T \ {Some(T)}) = k
        BY <3>1, <4>1, OneLess
      <4>3. h[T \ {Some(T)}] = g[T \ {Some(T)}]
        BY <2>2, <4>2
      <4> QED
        BY <1>4, <1>7, <4>1, <4>3
    <3> QED
      BY <3>1
  <2>3. Nat \subseteq Q
    <3> HIDE DEF Q
    <3> QED
      BY <2>1, <2>2, Numbers
  <2> QED
    BY <2>3
<1>9. \A T \in SUBSET S : Cardinality(T) \in Nat
  BY FS_Subset, FS_CardinalityType
<1>10. \A T \in SUBSET S : h[T] = g[T]
  BY <1>8, <1>9
<1>11. h \in [SUBSET S -> Int]
  <2>1. \A T \in SUBSET S : h[T] \in Int
    BY <1>4, <1>10
  <2> QED
    BY <1>6, <2>1
<1> QED
  BY <1>7, <1>11 DEF h

\* A sum depends on the summands only, not on the set it was started from.
LEMMA SumFromAgree ==
    ASSUME NEW S, IsFiniteSet(S), NEW f, \A x \in S : f[x] \in Int,
           NEW R, IsFiniteSet(R), NEW g, \A x \in R : g[x] \in Int,
           NEW T \in SUBSET S, T \in SUBSET R, \A x \in T : f[x] = g[x]
    PROVE  SumFrom(f, S)[T] = SumFrom(g, R)[T]
<1> DEFINE same(U) == SumFrom(f, S)[U] = SumFrom(g, R)[U]
           P == {k \in Nat : \A U \in SUBSET T : Cardinality(U) = k => same(U)}
<1>1. /\ \A U \in SUBSET S : SumFrom(f, S)[U] =
             IF U = {} THEN 0 ELSE f[Some(U)] + SumFrom(f, S)[U \ {Some(U)}]
      /\ \A U \in SUBSET R : SumFrom(g, R)[U] =
             IF U = {} THEN 0 ELSE g[Some(U)] + SumFrom(g, R)[U \ {Some(U)}]
  BY SumFromStep
<1>2. IsFiniteSet(T)
  BY FS_Subset
<1>3. 0 \in P
  <2>1. ASSUME NEW U \in SUBSET T, Cardinality(U) = 0
        PROVE  same(U)
    <3>1. U = {}
      BY <1>2, <2>1, FS_Subset, FS_EmptySet
    <3> QED
      BY <1>1, <3>1
  <2> QED
    BY <2>1
<1>4. ASSUME NEW k \in Nat, k \in P
      PROVE  k + 1 \in P
  <2>1. ASSUME NEW U \in SUBSET T, Cardinality(U) = k + 1
        PROVE  same(U)
    <3>1. U # {}
      BY <2>1, FS_EmptySet
    <3>2. Some(U) \in T /\ U \ {Some(U)} \in SUBSET T /\ Cardinality(U \ {Some(U)}) = k
      BY <1>2, <2>1, <3>1, OneLess
    <3>3. same(U \ {Some(U)})
      BY <1>4, <3>2
    <3> QED
      BY <1>1, <3>1, <3>2, <3>3
  <2> HIDE DEF same
  <2> QED
    BY <2>1
<1>5. Nat \subseteq P
  <2> HIDE DEF P
  <2> QED
    BY <1>3, <1>4, Numbers
<1>6. Cardinality(T) \in P
  BY <1>2, <1>5, FS_CardinalityType
<1> QED
  BY <1>6

LEMMA SumAgree ==
    ASSUME NEW S, IsFiniteSet(S), NEW f, \A x \in S : f[x] \in Int,
           NEW g, \A x \in S : g[x] = f[x]
    PROVE  Sum(g, S) = Sum(f, S)
<1>1. S \in SUBSET S /\ \A x \in S : g[x] \in Int /\ f[x] = g[x]
  OBVIOUS
<1> QED
  BY <1>1, SumFromAgree DEF Sum

LEMMA SumEmpty ==
    ASSUME NEW f
    PROVE  Sum(f, {}) = 0
<1>1. IsFiniteSet({}) /\ \A x \in {} : f[x] \in Int
  BY FS_EmptySet
<1>2. {} \in SUBSET {}
  OBVIOUS
<1> QED
  BY <1>1, <1>2, SumFromStep DEF Sum

LEMMA SumIsInt ==
    ASSUME NEW S, IsFiniteSet(S), NEW f, \A x \in S : f[x] \in Int
    PROVE  Sum(f, S) \in Int
<1>1. S \in SUBSET S
  OBVIOUS
<1> QED
  BY <1>1, SumFromStep DEF Sum

\* Any element may be taken out.
LEMMA SumLess ==
    ASSUME NEW S, IsFiniteSet(S), NEW f, \A x \in S : f[x] \in Int, NEW x \in S
    PROVE  Sum(f, S) = f[x] + Sum(f, S \ {x})
<1> DEFINE Splits(U) == \A y \in U : Sum(f, U) = f[y] + Sum(f, U \ {y})
           P == {k \in Nat : \A U \in SUBSET S : Cardinality(U) = k => Splits(U)}
<1>1. ASSUME NEW U \in SUBSET S
      PROVE  /\ IsFiniteSet(U) /\ Cardinality(U) \in Nat /\ Sum(f, U) \in Int
             /\ U # {} => Sum(f, U) = f[Some(U)] + Sum(f, U \ {Some(U)})
  <2>1. IsFiniteSet(U) /\ Cardinality(U) \in Nat /\ \A y \in U : f[y] \in Int
    BY FS_Subset, FS_CardinalityType
  <2>2. Sum(f, U) \in Int
    BY <2>1, SumIsInt
  <2>3. ASSUME U # {}
        PROVE  Sum(f, U) = f[Some(U)] + Sum(f, U \ {Some(U)})
    <3> DEFINE V == U \ {Some(U)}
    <3>1. V \in SUBSET U /\ V \in SUBSET V /\ U \in SUBSET U /\ \A y \in V : f[y] = f[y]
      OBVIOUS
    <3>2. IsFiniteSet(V) /\ \A y \in V : f[y] \in Int
      BY <2>1, FS_Subset
    <3>3. SumFrom(f, U)[U] = f[Some(U)] + SumFrom(f, U)[V]
      BY <2>1, <2>3, <3>1, SumFromStep
    <3> HIDE DEF V
    <3>4. SumFrom(f, U)[V] = SumFrom(f, V)[V]
      BY <2>1, <3>1, <3>2, SumFromAgree
    <3> QED
      BY <3>3, <3>4 DEF Sum, V
  <2> QED
    BY <2>1, <2>2, <2>3
<1>2. 0 \in P
  <2>1. \A U \in SUBSET S : Cardinality(U) = 0 => U = {}
    BY <1>1, FS_EmptySet
  <2> QED
    BY <2>1
<1>3. ASSUME NEW k \in Nat, k \in P
      PROVE  k + 1 \in P
  <2>1. ASSUME NEW U \in SUBSET S, Cardinality(U) = k + 1, NEW y \in U
        PROVE  Sum(f, U) = f[y] + Sum(f, U \ {y})
    <3> DEFINE s == Some(U)
    <3>1. s \in U /\ Sum(f, U) = f[s] + Sum(f, U \ {s})
      BY <1>1 DEF Some
    <3>2. CASE y = s
      BY <3>1, <3>2
    <3>3. CASE y # s
      <4>1. U \ {s} \in SUBSET S /\ U \ {y} \in SUBSET S /\ U \ {s, y} \in SUBSET S
        OBVIOUS
      <4>2. Cardinality(U \ {s}) = k /\ Cardinality(U \ {y}) = k
        <5>1. IsFiniteSet(U) /\ Cardinality(U) \in Nat
          BY <1>1
        <5>2. Cardinality(U \ {s}) = Cardinality(U) - 1 /\ Cardinality(U \ {y}) = Cardinality(U) - 1
          BY <3>1, <5>1, FS_RemoveElement
        <5> QED
          BY <2>1, <5>1, <5>2
      <4>3. y \in U \ {s} /\ s \in U \ {y}
        BY <3>1, <3>3
      <4>4. Sum(f, U \ {s}) = f[y] + Sum(f, (U \ {s}) \ {y})
        BY <1>3, <4>1, <4>2, <4>3
      <4>5. Sum(f, U \ {y}) = f[s] + Sum(f, (U \ {y}) \ {s})
        BY <1>3, <4>1, <4>2, <4>3
      <4>6. (U \ {s}) \ {y} = U \ {s, y} /\ (U \ {y}) \ {s} = U \ {s, y}
        OBVIOUS
      <4>7. Sum(f, U \ {s}) = f[y] + Sum(f, U \ {s, y}) /\ Sum(f, U \ {y}) = f[s] + Sum(f, U \ {s, y})
        BY ONLY <4>4, <4>5, <4>6, Zenon
      <4>8. Sum(f, U \ {s, y}) \in Int /\ f[s] \in Int /\ f[y] \in Int
        BY <1>1, <3>1, <4>1
      <4> HIDE DEF s
      <4> QED
        BY ONLY <3>1, <4>7, <4>8
    <3> QED
      BY <3>2, <3>3
  <2> QED
    BY <2>1
<1>4. Nat \subseteq P
  <2> HIDE DEF P
  <2> QED
    BY <1>2, <1>3, Numbers
<1>5. S \in SUBSET S /\ Cardinality(S) \in Nat
  BY FS_CardinalityType
<1>6. Splits(S)
  BY <1>4, <1>5
<1> QED
  BY <1>6

LEMMA SumMore ==
    ASSUME NEW S, IsFiniteSet(S), NEW x, x \notin S,
           NEW f, \A y \in S \cup {x} : f[y] \in Int
    PROVE  Sum(f, S \cup {x}) = f[x] + Sum(f, S)
<1>1. IsFiniteSet(S \cup {x}) /\ (S \cup {x}) \ {x} = S /\ x \in S \cup {x}
  BY FS_AddElement
<1> QED
  BY <1>1, SumLess

\* Smaller summands, smaller sum.
LEMMA SumMonotone ==
    ASSUME NEW S, IsFiniteSet(S), NEW f, NEW g,
           \A x \in S : f[x] \in Int /\ g[x] \in Int /\ f[x] <= g[x]
    PROVE  Sum(f, S) <= Sum(g, S)
<1> DEFINE P == {T \in SUBSET S : Sum(f, T) <= Sum(g, T)}
<1>1. {} \in P
  BY SumEmpty
<1>2. ASSUME NEW T \in SUBSET S, NEW x \in S \ T, T \in P
      PROVE  T \cup {x} \in P
  <2>1. IsFiniteSet(T) /\ x \notin T
    BY FS_Subset
  <2>2. (\A y \in T \cup {x} : f[y] \in Int) /\ (\A y \in T \cup {x} : g[y] \in Int)
    OBVIOUS
  <2>3. Sum(f, T \cup {x}) = f[x] + Sum(f, T)
    BY <2>1, <2>2, SumMore
  <2>4. Sum(g, T \cup {x}) = g[x] + Sum(g, T)
    BY <2>1, <2>2, SumMore
  <2>5. (\A y \in T : f[y] \in Int) /\ (\A y \in T : g[y] \in Int)
    OBVIOUS
  <2>6. Sum(f, T) \in Int /\ Sum(g, T) \in Int
    BY <2>1, <2>5, SumIsInt
  <2>7. f[x] \in Int /\ g[x] \in Int /\ f[x] <= g[x] /\ Sum(f, T) <= Sum(g, T)
    BY <1>2
  <2>8. Sum(f, T \cup {x}) <= Sum(g, T \cup {x})
    BY <2>3, <2>4, <2>6, <2>7
  <2> QED
    BY <2>8
<1>3. S \in P
  <2> HIDE DEF P
  <2> QED
    BY <1>1, <1>2, OneMore
<1> QED
  BY <1>3

\* What is zero may be left out of a sum.
LEMMA SumOverSubset ==
    ASSUME NEW S, IsFiniteSet(S), NEW R \in SUBSET S,
           NEW f, \A x \in S : f[x] \in Int, \A x \in S \ R : f[x] = 0
    PROVE  Sum(f, S) = Sum(f, R)
<1> DEFINE rest == S \ R
           P == {T \in SUBSET rest : Sum(f, R \cup T) = Sum(f, R)}
<1>0. IsFiniteSet(rest) /\ IsFiniteSet(R)
  BY FS_Subset
<1>1. {} \in P
  <2>1. R \cup {} = R
    OBVIOUS
  <2> QED
    BY <2>1
<1>2. ASSUME NEW T \in SUBSET rest, NEW x \in rest \ T, T \in P
      PROVE  T \cup {x} \in P
  <2>1. R \cup T \in SUBSET S /\ x \notin R \cup T /\ R \cup (T \cup {x}) = (R \cup T) \cup {x}
    OBVIOUS
  <2>2. IsFiniteSet(R \cup T) /\ \A y \in (R \cup T) \cup {x} : f[y] \in Int
    BY <2>1, FS_Subset
  <2>3. Sum(f, (R \cup T) \cup {x}) = f[x] + Sum(f, R \cup T)
    BY <2>1, <2>2, SumMore
  <2>4. f[x] = 0 /\ Sum(f, R \cup T) = Sum(f, R)
    BY <1>2
  <2>5. Sum(f, R) \in Int
    BY <1>0, SumIsInt
  <2>6. Sum(f, (R \cup T) \cup {x}) = Sum(f, R)
    BY <2>3, <2>4, <2>5
  <2>7. Sum(f, R \cup (T \cup {x})) = Sum(f, R)
    BY ONLY <2>1, <2>6, Zenon
  <2> QED
    BY <2>7
<1>3. rest \in P
  <2> HIDE DEF P, rest
  <2> QED
    BY <1>0, <1>1, <1>2, OneMore
<1>4. R \cup rest = S
  OBVIOUS
<1> QED
  BY <1>3, <1>4

LEMMA SumZero ==
    ASSUME NEW S, IsFiniteSet(S), NEW f, \A x \in S : f[x] = 0
    PROVE  Sum(f, S) = 0
<1>1. {} \in SUBSET S /\ (\A x \in S : f[x] \in Int) /\ \A x \in S \ {} : f[x] = 0
  OBVIOUS
<1>2. Sum(f, S) = Sum(f, {})
  BY <1>1, SumOverSubset
<1> QED
  BY <1>2, SumEmpty

\* With summands that are not negative a larger set has a larger sum, and no
\* summand is above it.
LEMMA SumOfLargerSet ==
    ASSUME NEW S, IsFiniteSet(S), NEW R \in SUBSET S, NEW f, \A x \in S : f[x] \in Nat
    PROVE  Sum(f, R) <= Sum(f, S)
<1> DEFINE g == [x \in S |-> IF x \in R THEN f[x] ELSE 0]
<1>0. IsFiniteSet(R)
  BY FS_Subset
<1>1. /\ \A x \in S : g[x] \in Int /\ f[x] \in Int /\ g[x] <= f[x]
      /\ \A x \in S \ R : g[x] = 0
      /\ \A x \in R : g[x] = f[x]
      /\ \A x \in R : f[x] \in Int
      /\ \A x \in S : g[x] \in Int
  OBVIOUS
<1> HIDE DEF g
<1>2. Sum(g, S) <= Sum(f, S)
  BY <1>1, SumMonotone
<1>3. Sum(g, S) = Sum(g, R)
  BY <1>1, SumOverSubset
<1>4. Sum(g, R) = Sum(f, R)
  BY <1>0, <1>1, SumAgree
<1> QED
  BY <1>2, <1>3, <1>4

LEMMA SumIsNat ==
    ASSUME NEW S, IsFiniteSet(S), NEW f, \A x \in S : f[x] \in Nat
    PROVE  Sum(f, S) \in Nat
<1>1. {} \in SUBSET S /\ \A x \in S : f[x] \in Int
  OBVIOUS
<1>2. Sum(f, {}) <= Sum(f, S)
  BY <1>1, SumOfLargerSet
<1>3. Sum(f, S) \in Int
  BY <1>1, SumIsInt
<1> QED
  BY <1>2, <1>3, SumEmpty

LEMMA SummandBelowSum ==
    ASSUME NEW S, IsFiniteSet(S), NEW f, \A x \in S : f[x] \in Nat, NEW x \in S
    PROVE  f[x] <= Sum(f, S)
<1>1. S \ {x} \in SUBSET S /\ (\A y \in S : f[y] \in Int) /\ \A y \in S \ {x} : f[y] \in Nat
  OBVIOUS
<1>2. IsFiniteSet(S \ {x})
  BY FS_RemoveElement
<1>3. Sum(f, S) = f[x] + Sum(f, S \ {x}) /\ Sum(f, S \ {x}) \in Nat
  BY <1>1, <1>2, SumLess, SumIsNat
<1> QED
  BY <1>3

\* One summand changes.
LEMMA SumChanged ==
    ASSUME NEW S, IsFiniteSet(S), NEW f, \A y \in S : f[y] \in Int,
           NEW x \in S, NEW g, g[x] \in Int, \A y \in S \ {x} : g[y] = f[y]
    PROVE  Sum(g, S) = Sum(f, S) + (g[x] - f[x])
<1>1. IsFiniteSet(S \ {x})
  BY FS_RemoveElement
<1>2. (\A y \in S \ {x} : f[y] \in Int) /\ (\A y \in S : g[y] \in Int)
  OBVIOUS
<1>3. Sum(g, S \ {x}) = Sum(f, S \ {x}) /\ Sum(f, S \ {x}) \in Int
  BY <1>1, <1>2, SumAgree, SumIsInt
<1>4. Sum(f, S) = f[x] + Sum(f, S \ {x}) /\ Sum(g, S) = g[x] + Sum(g, S \ {x})
  BY <1>2, SumLess
<1> QED
  BY <1>3, <1>4
=============================================================================
