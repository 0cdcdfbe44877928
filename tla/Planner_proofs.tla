--------------------------- MODULE Planner_proofs ---------------------------
(***************************************************************************)
(* Proofs about Planner and PlanService, for any number of models and any  *)
(* graph, changes and watermarks: the sort of the affected models and the  *)
(* plan built from it are what the properties say.                         *)
(***************************************************************************)
EXTENDS MCPlanner, Induction

-----------------------------------------------------------------------------
(* The input, which no step changes.                                       *)

InputOK ==
    /\ dag \subseteq {e \in Models \X Models : e[1] # e[2]}
    /\ change \in [Models -> {"none", "added", "modified", "cosmetic"}]
    /\ kind \in [Models -> {"full", "incremental"}]
    /\ mark \in [Models -> Watermarks]

LEMMA ModelsFinite ==
    /\ IsFiniteSet(Models) /\ Cardinality(Models) = N /\ N \in Nat
    /\ \A S \in SUBSET Models : /\ IsFiniteSet(S)
                                /\ Cardinality(S) \in 0 .. N
                                /\ Cardinality(S) = 0 <=> S = {}
<1>1. N \in Nat /\ 1 \in Int
  BY PlannerAssumption
<1>2. IsFiniteSet(Models) /\ Cardinality(Models) = N
  BY <1>1, FS_Interval DEF Models
<1>3. ASSUME NEW S \in SUBSET Models
      PROVE  /\ IsFiniteSet(S) /\ Cardinality(S) \in 0 .. N
             /\ Cardinality(S) = 0 <=> S = {}
  <2>1. IsFiniteSet(S) /\ Cardinality(S) <= Cardinality(Models)
    BY <1>2, FS_Subset
  <2>2. Cardinality(S) \in Nat /\ (Cardinality(S) = 0 <=> S = {})
    BY <2>1, FS_CardinalityType, FS_EmptySet
  <2> QED
    BY <1>1, <1>2, <2>1, <2>2
<1> QED
  BY <1>1, <1>2, <1>3

\* One more element, one more in the cardinality.
LEMMA CountOneMore ==
    ASSUME NEW S \in SUBSET Models, NEW m \in Models \ S
    PROVE  Cardinality(S \cup {m}) = Cardinality(S) + 1
<1>1. IsFiniteSet(S)
  BY ModelsFinite
<1> QED
  BY <1>1, FS_AddElement

LEMMA CountSubset ==
    ASSUME NEW S \in SUBSET Models, NEW T \in SUBSET S
    PROVE  /\ Cardinality(T) <= Cardinality(S)
           /\ T # S => Cardinality(T) < Cardinality(S)
<1>1. IsFiniteSet(S) /\ IsFiniteSet(T) /\ Cardinality(S) \in Nat /\ Cardinality(T) \in Nat
  BY ModelsFinite
<1>2. Cardinality(T) <= Cardinality(S) /\ (Cardinality(T) = Cardinality(S) => T = S)
  BY <1>1, FS_Subset
<1> QED
  BY <1>1, <1>2

-----------------------------------------------------------------------------
(* Paths.                                                                  *)

Closed(c) == \A m \in c : Succs(m) \subseteq c

LEMMA ReachesTransitive ==
    ASSUME NEW a, NEW b, NEW d, b \in Models, Reaches(a, b), Reaches(b, d)
    PROVE  Reaches(a, d)
  BY DEF Reaches

LEMMA ReachesNext ==
    ASSUME NEW a, NEW b \in Succs(a)
    PROVE  Reaches(a, b)
  BY DEF Reaches

\* Following edges once more.
Onward(s) == s \cup UNION {Succs(q) : q \in s}

LEMMA OnwardGrows ==
    ASSUME NEW s \in SUBSET Models
    PROVE  /\ Onward(s) \in SUBSET Models /\ s \subseteq Onward(s)
           /\ Onward(s) = s <=> Closed(s)
  BY DEF Onward, Succs, Closed

\* nx.descendants of m after k rounds, and after as many rounds as there are
\* models, which is enough.
LEMMA DescendantsRounds ==
    ASSUME NEW m
    PROVE  \E f \in [Nat -> SUBSET Models] :
               /\ f[0] = Succs(m)
               /\ \A k \in Nat : f[k + 1] = Onward(f[k])
               /\ f[N] = Descendants(m)
<1> DEFINE G == [s \in SUBSET Models |-> Onward(s)]
           reach == CHOOSE g : g = [k \in Nat |-> IF k = 0 THEN Succs(m)
                        ELSE g[k - 1] \cup UNION {Succs(q) : q \in g[k - 1]}]
<1>1. Succs(m) \in SUBSET Models /\ G \in [SUBSET Models -> SUBSET Models]
  BY OnwardGrows DEF Succs
<1>2. PICK f \in [Nat -> SUBSET Models] :
          f[0] = Succs(m) /\ \A k \in Nat : f[k + 1] = G[f[k]]
  <2> DEFINE V == SUBSET Models
             a == Succs(m)
  <2>1. a \in V /\ G \in [V -> V]
    BY <1>1
  <2> HIDE DEF G, V, a
  <2>2. \E f \in [Nat -> V] : f[0] = a /\ \A k \in Nat : f[k + 1] = G[f[k]]
    BY <2>1, Recursion
  <2> QED
    BY <2>2 DEF V, a
<1>3. \A k \in Nat : f[k + 1] = Onward(f[k])
  BY <1>2
<1>4. \A k \in Nat : f[k] = IF k = 0 THEN Succs(m)
                            ELSE f[k - 1] \cup UNION {Succs(q) : q \in f[k - 1]}
  <2>1. ASSUME NEW k \in Nat, k # 0
        PROVE  f[k] = f[k - 1] \cup UNION {Succs(q) : q \in f[k - 1]}
    <3>1. k - 1 \in Nat /\ (k - 1) + 1 = k
      BY <2>1
    <3>2. f[(k - 1) + 1] = Onward(f[k - 1])
      BY <1>3, <3>1
    <3> QED
      BY <3>1, <3>2 DEF Onward
  <2> QED
    BY <1>2, <2>1
<1>5. f = [k \in Nat |-> IF k = 0 THEN Succs(m)
                         ELSE f[k - 1] \cup UNION {Succs(q) : q \in f[k - 1]}]
  <2> DEFINE value(k) == IF k = 0 THEN Succs(m)
                         ELSE f[k - 1] \cup UNION {Succs(q) : q \in f[k - 1]}
  <2>1. f = [k \in Nat |-> f[k]] /\ \A k \in Nat : f[k] = value(k)
    BY <1>4
  <2>2. f = [k \in Nat |-> value(k)]
    <3> HIDE DEF value
    <3> QED
      BY <2>1
  <2> QED
    BY <2>2
<1>6. reach = [k \in Nat |-> IF k = 0 THEN Succs(m)
                             ELSE reach[k - 1] \cup UNION {Succs(q) : q \in reach[k - 1]}]
  BY <1>5
<1>7. Descendants(m) = reach[N]
  BY DEF Descendants
<1> HIDE DEF reach
<1>8. \A k \in Nat : reach[k] = IF k = 0 THEN Succs(m)
                     ELSE reach[k - 1] \cup UNION {Succs(q) : q \in reach[k - 1]}
  BY <1>6
<1>9. \A k \in Nat : reach[k + 1] = Onward(reach[k])
  <2>1. ASSUME NEW k \in Nat
        PROVE  reach[k + 1] = Onward(reach[k])
    <3>1. k + 1 \in Nat /\ k + 1 # 0 /\ (k + 1) - 1 = k
      OBVIOUS
    <3> QED
      BY <1>8, <3>1 DEF Onward
  <2> QED
    BY <2>1
<1>10. reach[0] = Succs(m)
  BY <1>8
<1> DEFINE P == {k \in Nat : reach[k] \in SUBSET Models}
<1>11. 0 \in P /\ \A k \in Nat : k \in P => k + 1 \in P
  BY <1>1, <1>9, <1>10, OnwardGrows
<1>12. Nat \subseteq P
  <2> HIDE DEF P
  <2> QED
    BY <1>11, Numbers
<1>13. reach \in [Nat -> SUBSET Models]
  <2>1. \A k \in Nat : reach[k] \in SUBSET Models
    BY <1>12
  <2>2. DOMAIN reach = Nat /\ reach = [k \in Nat |-> reach[k]]
    BY <1>6
  <2> QED
    BY <2>1, <2>2
<1> QED
  BY <1>7, <1>9, <1>10, <1>13

\* nx.descendants returns the models that a path from m leads to.
LEMMA DescendantsAreReached ==
    ASSUME NEW m
    PROVE  Descendants(m) = {b \in Models : Reaches(m, b)}
<1>0. PICK f \in [Nat -> SUBSET Models] :
          /\ f[0] = Succs(m)
          /\ \A k \in Nat : f[k + 1] = Onward(f[k])
          /\ f[N] = Descendants(m)
  BY DescendantsRounds
<1>1. N \in Nat /\ f[N] \in SUBSET Models
  BY <1>0, ModelsFinite
<1>2. ASSUME NEW b \in f[N]
      PROVE  Reaches(m, b)
  <2> SUFFICES ASSUME NEW c \in SUBSET Models, Succs(m) \subseteq c, Closed(c)
               PROVE  b \in c
    BY DEF Reaches, Closed
  <2> DEFINE P == {k \in Nat : f[k] \subseteq c}
  <2>1. 0 \in P
    BY <1>0
  <2>2. ASSUME NEW k \in Nat, k \in P
        PROVE  k + 1 \in P
    BY <1>0, <2>2 DEF Onward, Closed
  <2>3. Nat \subseteq P
    <3> HIDE DEF P
    <3> QED
      BY <2>1, <2>2, Numbers
  <2> QED
    BY <1>1, <2>3
<1>3. Succs(m) \subseteq f[N]
  <2> DEFINE P == {k \in Nat : Succs(m) \subseteq f[k]}
  <2>1. 0 \in P
    BY <1>0
  <2>2. ASSUME NEW k \in Nat, k \in P
        PROVE  k + 1 \in P
    BY <1>0, <2>2, OnwardGrows
  <2>3. Nat \subseteq P
    <3> HIDE DEF P
    <3> QED
      BY <2>1, <2>2, Numbers
  <2> QED
    BY <1>1, <2>3
<1>4. Closed(f[N])
  <2> DEFINE P == {k \in Nat : Closed(f[k]) \/ Cardinality(f[k]) >= k}
  <2>1. 0 \in P
    <3>1. Cardinality(f[0]) \in 0 .. N
      BY ModelsFinite
    <3> QED
      BY <1>1, <3>1
  <2>2. ASSUME NEW k \in Nat, k \in P
        PROVE  k + 1 \in P
    <3>1. f[k] \in SUBSET Models /\ f[k + 1] = Onward(f[k]) /\ k + 1 \in Nat
      BY <1>0
    <3>2. CASE Closed(f[k])
      <4>1. f[k + 1] = f[k]
        BY <3>1, <3>2, OnwardGrows
      <4> QED
        BY <3>1, <3>2, <4>1
    <3>3. CASE ~Closed(f[k])
      <4>1. f[k + 1] \in SUBSET Models /\ f[k] \in SUBSET f[k + 1] /\ f[k] # f[k + 1]
        BY <3>1, <3>3, OnwardGrows
      <4>2. Cardinality(f[k]) < Cardinality(f[k + 1])
        BY <4>1, CountSubset
      <4>3. Cardinality(f[k]) \in 0 .. N /\ Cardinality(f[k + 1]) \in 0 .. N
        BY <3>1, <4>1, ModelsFinite
      <4>4. Cardinality(f[k]) >= k
        BY <2>2, <3>3
      <4>5. Cardinality(f[k + 1]) >= k + 1
        BY <1>1, <4>2, <4>3, <4>4
      <4> QED
        BY <3>1, <4>5
    <3> QED
      BY <3>2, <3>3
  <2>3. Nat \subseteq P
    <3> HIDE DEF P
    <3> QED
      BY <2>1, <2>2, Numbers
  <2>4. Closed(f[N]) \/ Cardinality(f[N]) >= N
    BY <1>1, <2>3
  <2>5. ASSUME Cardinality(f[N]) >= N
        PROVE  f[N] = Models
    <3>1. Cardinality(f[N]) \in 0 .. N /\ Cardinality(Models) = N /\ Models \in SUBSET Models
      BY <1>1, ModelsFinite
    <3>2. ~(Cardinality(f[N]) < Cardinality(Models))
      BY <1>1, <2>5, <3>1
    <3> QED
      BY <1>1, <3>1, <3>2, CountSubset
  <2>6. Closed(Models)
    BY DEF Closed, Succs
  <2> QED
    BY <2>4, <2>5, <2>6
<1>5. ASSUME NEW b \in Models, Reaches(m, b)
      PROVE  b \in f[N]
  BY <1>1, <1>3, <1>4, <1>5 DEF Reaches, Closed
<1> QED
  BY <1>0, <1>1, <1>2, <1>5

\* The affected models: what changed, and what a path leads to from there.
LEMMA AffectedAreReached ==
    /\ Affected \in SUBSET Models
    /\ Affected = {m \in Models : \E c \in DirectlyChanged : m = c \/ Reaches(c, m)}
  BY DescendantsAreReached DEF Affected, Closure, DirectlyChanged

LEMMA AffectedClosed ==
    ASSUME NEW m \in Affected
    PROVE  Succs(m) \subseteq Affected
<1>1. PICK c \in DirectlyChanged : m \in Models /\ (m = c \/ Reaches(c, m))
  BY AffectedAreReached
<1>2. ASSUME NEW s \in Succs(m)
      PROVE  s \in Models /\ Reaches(c, s)
  <2>1. s \in Models /\ Reaches(m, s)
    BY ReachesNext DEF Succs
  <2>2. CASE m = c
    BY <2>1, <2>2
  <2>3. CASE Reaches(c, m)
    BY <1>1, <2>1, <2>3, ReachesTransitive
  <2> QED
    BY <1>1, <2>1, <2>2, <2>3
<1> QED
  BY <1>2, AffectedAreReached

-----------------------------------------------------------------------------
(* The sort.                                                               *)

Sorted == DOMAIN depth

\* All predecessors of a sorted model are sorted, in earlier layers, and one of
\* them is in the layer just before.
Layered(m) ==
    /\ AffectedPreds(m) \subseteq Sorted
    /\ \A p \in AffectedPreds(m) : depth[p] < depth[m]
    /\ depth[m] > 0 => \E p \in AffectedPreds(m) : depth[p] = depth[m] - 1

SortInv ==
    /\ Sorted \subseteq Affected
    /\ order \in Seq(Affected) /\ Len(order) = Cardinality(Sorted)
    /\ degree = [m \in Affected |-> Cardinality(AffectedPreds(m) \ Sorted)]
    /\ heap = {m \in Affected \ Sorted : AffectedPreds(m) \subseteq Sorted}
    /\ depth \in [Sorted -> 0 .. Cardinality(Sorted) - 1]
    /\ \A m \in Sorted : Layered(m)

\* No step changes what is affected, nor what the plan says of a model.
LEMMA InputStays ==
    ASSUME UNCHANGED input
    PROVE  /\ Affected' = Affected /\ DirectlyChanged' = DirectlyChanged
           /\ InputOK => InputOK'
           /\ \A m : AffectedPreds(m)' = AffectedPreds(m)
           /\ \A m : Succs(m)' = Succs(m)
           /\ SortedAffected' = SortedAffected
<1>1. Affected' = Affected
  BY DEF input, Affected, Closure, DirectlyChanged, Descendants, Succs
<1>2. \A m : Succs(m)' = Succs(m) /\ Preds(m)' = Preds(m)
  BY DEF input, Succs, Preds
<1>3. \A m : AffectedPreds(m)' = AffectedPreds(m)
  BY <1>1, <1>2 DEF AffectedPreds
<1>4. InputOK => InputOK'
  BY DEF input, InputOK
<1>5. SortedAffected' = SortedAffected
  BY <1>1 DEF SortedAffected
<1>6. DirectlyChanged' = DirectlyChanged
  BY DEF input, DirectlyChanged
<1> QED
  BY <1>1, <1>2, <1>3, <1>4, <1>5, <1>6

LEMMA PredsAffected ==
    ASSUME NEW m
    PROVE  AffectedPreds(m) \in SUBSET Affected /\ AffectedPreds(m) \in SUBSET Models
  BY DEF AffectedPreds, Preds

LEMMA PredsAndSuccs ==
    ASSUME NEW m \in Affected, NEW q \in Affected
    PROVE  m \in AffectedPreds(q) <=> q \in Succs(m)
  BY AffectedAreReached DEF AffectedPreds, Preds, Succs

LEMMA SortStarts == StartSort => SortInv
<1> SUFFICES ASSUME StartSort
             PROVE  SortInv
  OBVIOUS
<1>1. Sorted = {} /\ depth \in [{} -> 0 .. Cardinality({}) - 1]
  BY DEF StartSort, Sorted
<1>2. Cardinality({}) = 0
  BY FS_EmptySet
<1>3. degree = [m \in Affected |-> Cardinality(AffectedPreds(m) \ Sorted)]
  BY <1>1 DEF StartSort
<1>4. heap = {m \in Affected \ Sorted : AffectedPreds(m) \subseteq Sorted}
  BY <1>1 DEF StartSort
<1>5. order \in Seq(Affected) /\ Len(order) = 0
  BY DEF StartSort
<1> QED
  BY <1>1, <1>2, <1>3, <1>4, <1>5 DEF SortInv

\* The popped model is ready, and takes the layer after its predecessors.
LEMMA PoppedIsReady ==
    ASSUME SortInv, heap # {}
    PROVE  /\ Min(heap) \in heap
           /\ Min(heap) \in Affected \ Sorted
           /\ AffectedPreds(Min(heap)) \subseteq Sorted
<1>1. heap \in SUBSET Models /\ Models \in SUBSET Int
  BY AffectedAreReached, ModelsFinite DEF SortInv, Models
<1>2. IsFiniteSet(heap) /\ heap \in SUBSET Int
  BY <1>1, ModelsFinite
<1>3. Min(heap) \in heap
  BY <1>2, MinOfFinite
<1> QED
  BY <1>3 DEF SortInv

LEMMA LayerOfPopped ==
    ASSUME SortInv, NEW m \in Affected \ Sorted, AffectedPreds(m) \subseteq Sorted
    PROVE  /\ LongestPath(m) \in 0 .. Cardinality(Sorted)
           /\ \A p \in AffectedPreds(m) : depth[p] < LongestPath(m)
           /\ LongestPath(m) > 0 =>
                  \E p \in AffectedPreds(m) : depth[p] = LongestPath(m) - 1
<1> DEFINE preds == AffectedPreds(m)
           depths == {depth[p] : p \in preds}
<1>1. LongestPath(m) = IF preds = {} THEN 0 ELSE Max(depths) + 1
  <2>1. preds \cap DOMAIN depth = preds
    BY DEF Sorted
  <2> QED
    BY <2>1 DEF LongestPath
<1>2. Sorted \in SUBSET Models /\ Cardinality(Sorted) \in 0 .. N /\ N \in Nat
  BY AffectedAreReached, ModelsFinite DEF SortInv
<1>3. CASE preds = {}
  BY <1>1, <1>2, <1>3
<1>4. CASE preds # {}
  <2>1. \A p \in preds : depth[p] \in 0 .. Cardinality(Sorted) - 1
    BY DEF SortInv
  <2>2. IsFiniteSet(preds)
    BY PredsAffected, ModelsFinite
  <2>3. IsFiniteSet(depths) /\ depths # {} /\ depths \in SUBSET Int
    BY <1>2, <1>4, <2>1, <2>2, ImageIsFinite
  <2>4. Max(depths) \in depths /\ \A d \in depths : Max(depths) >= d
    BY <2>3, MaxOfFinite
  <2>5. PICK p \in preds : Max(depths) = depth[p]
    BY <2>4
  <2>6. \A q \in preds : Max(depths) >= depth[q]
    BY <2>4
  <2>7. LongestPath(m) = depth[p] + 1
    BY <1>1, <1>4, <2>5
  <2> HIDE DEF depths, preds
  <2>8. depth[p] \in 0 .. Cardinality(Sorted) - 1
    BY <2>1, <2>5
  <2>9. \A q \in preds : depth[q] < LongestPath(m)
    BY <1>2, <2>1, <2>5, <2>6, <2>7, <2>8
  <2>10. LongestPath(m) \in 0 .. Cardinality(Sorted) /\ depth[p] = LongestPath(m) - 1
    BY <1>2, <2>7, <2>8
  <2> QED
    BY <2>5, <2>9, <2>10 DEF preds
<1> QED
  BY <1>3, <1>4

LEMMA PopKeepsSort ==
    ASSUME SortInv, PopReady
    PROVE  SortInv'
<1> DEFINE m == Min(heap)
           D == Sorted \cup {m}
<1>1. /\ heap # {} /\ UNCHANGED input
      /\ order' = Append(order, m)
      /\ degree' = [q \in Affected |-> IF q \in Succs(m) THEN degree[q] - 1 ELSE degree[q]]
      /\ heap' = (heap \ {m}) \cup Ready(m)
      /\ depth' = [q \in D |-> IF q = m THEN LongestPath(m) ELSE depth[q]]
  BY DEF PopReady, Sorted
<1>2. m \in heap /\ m \in Affected \ Sorted /\ AffectedPreds(m) \subseteq Sorted
  BY <1>1, PoppedIsReady
<1>3. Sorted' = D /\ D \subseteq Affected
  BY <1>1, <1>2 DEF Sorted, SortInv
<1> HIDE DEF m
<1>4. /\ Affected' = Affected /\ \A q : AffectedPreds(q)' = AffectedPreds(q)
      /\ Affected \in SUBSET Models /\ Sorted \in SUBSET Models
  BY <1>1, InputStays, AffectedAreReached DEF SortInv
<1>5. Cardinality(D) = Cardinality(Sorted) + 1 /\ Cardinality(Sorted) \in Nat
  BY <1>2, <1>4, CountOneMore, ModelsFinite
<1>6. order' \in Seq(Affected) /\ Len(order') = Cardinality(D)
  BY <1>1, <1>2, <1>5 DEF SortInv
<1>7. ASSUME NEW q \in Affected
      PROVE  /\ q \in Succs(m) => /\ AffectedPreds(q) \ Sorted = (AffectedPreds(q) \ D) \cup {m}
                                  /\ Cardinality(AffectedPreds(q) \ Sorted) = Cardinality(AffectedPreds(q) \ D) + 1
             /\ q \notin Succs(m) => AffectedPreds(q) \ Sorted = AffectedPreds(q) \ D
             /\ Cardinality(AffectedPreds(q) \ D) \in Nat
             /\ Cardinality(AffectedPreds(q) \ D) = 0 <=> AffectedPreds(q) \subseteq D
  <2>1. AffectedPreds(q) \ D \in SUBSET Models /\ m \in Models \ (AffectedPreds(q) \ D)
    BY <1>2, <1>4, PredsAffected
  <2>2. /\ Cardinality(AffectedPreds(q) \ D) \in Nat
        /\ Cardinality(AffectedPreds(q) \ D) = 0 <=> AffectedPreds(q) \subseteq D
    BY <2>1, ModelsFinite
  <2>3. Cardinality((AffectedPreds(q) \ D) \cup {m}) = Cardinality(AffectedPreds(q) \ D) + 1
    BY <2>1, CountOneMore
  <2>4. m \in AffectedPreds(q) <=> q \in Succs(m)
    BY <1>2, PredsAndSuccs
  <2>5. q \in Succs(m) => AffectedPreds(q) \ Sorted = (AffectedPreds(q) \ D) \cup {m}
    BY <1>2, <2>4
  <2>6. q \notin Succs(m) => AffectedPreds(q) \ Sorted = AffectedPreds(q) \ D
    BY <2>4
  <2> HIDE DEF D
  <2> QED
    BY <2>2, <2>3, <2>5, <2>6
<1>8. \A q \in Affected : degree[q] = Cardinality(AffectedPreds(q) \ Sorted)
  BY DEF SortInv
<1> HIDE DEF D
<1>9. degree' = [q \in Affected |-> Cardinality(AffectedPreds(q) \ D)]
  <2>1. ASSUME NEW q \in Affected
        PROVE  degree'[q] = Cardinality(AffectedPreds(q) \ D)
    <3>1. CASE q \in Succs(m)
      <4>1. degree'[q] = degree[q] - 1
        BY <1>1, <3>1
      <4>2. degree[q] = Cardinality(AffectedPreds(q) \ D) + 1
        BY <1>7, <1>8, <3>1
      <4>3. Cardinality(AffectedPreds(q) \ D) \in Nat
        BY <1>7
      <4> QED
        BY ONLY <4>1, <4>2, <4>3
    <3>2. CASE q \notin Succs(m)
      <4>1. degree'[q] = degree[q]
        BY <1>1, <3>2
      <4> QED
        BY <1>7, <1>8, <3>2, <4>1
    <3> QED
      BY <3>1, <3>2
  <2> QED
    BY <1>1, <2>1
<1>10. heap' = {q \in Affected \ D : AffectedPreds(q) \subseteq D}
  <2>1. heap = {q \in Affected \ Sorted : AffectedPreds(q) \subseteq Sorted} /\ D = Sorted \cup {m}
    BY DEF SortInv, D
  <2>2. Ready(m) = {q \in Succs(m) \cap Affected : AffectedPreds(q) \subseteq D}
    <3>1. \A q \in Succs(m) \cap Affected : degree[q] = 1 <=> AffectedPreds(q) \subseteq D
      <4>1. ASSUME NEW q \in Affected, q \in Succs(m)
            PROVE  degree[q] = 1 <=> AffectedPreds(q) \subseteq D
        <5>1. degree[q] = Cardinality(AffectedPreds(q) \ D) + 1
          BY <1>7, <1>8, <4>1
        <5>2. /\ Cardinality(AffectedPreds(q) \ D) \in Nat
              /\ Cardinality(AffectedPreds(q) \ D) = 0 <=> AffectedPreds(q) \subseteq D
          BY <1>7
        <5> QED
          BY ONLY <5>1, <5>2
      <4> QED
        BY <4>1
    <3> QED
      BY <3>1 DEF Ready
  <2>3. ASSUME NEW q \in Affected
        PROVE  q \in heap' <=> q \notin D /\ AffectedPreds(q) \subseteq D
    <3>1. CASE q \in Succs(m)
      <4>1. m \in AffectedPreds(q) /\ q # m /\ q \notin Sorted
        BY <1>2, <3>1, PredsAndSuccs DEF SortInv, Layered
      <4> QED
        BY <1>1, <1>2, <2>1, <2>2, <3>1, <4>1
    <3>2. CASE q \notin Succs(m)
      <4>1. m \notin AffectedPreds(q)
        BY <1>2, <3>2, PredsAndSuccs
      <4> QED
        BY <1>1, <2>1, <2>2, <3>2, <4>1
    <3> QED
      BY <3>1, <3>2
  <2>4. heap' \subseteq Affected
    BY <1>1, <2>1 DEF Ready
  <2> QED
    BY <2>3, <2>4
<1>11. /\ LongestPath(m) \in 0 .. Cardinality(Sorted)
       /\ \A p \in AffectedPreds(m) : depth[p] < LongestPath(m)
       /\ LongestPath(m) > 0 =>
              \E p \in AffectedPreds(m) : depth[p] = LongestPath(m) - 1
  BY <1>2, LayerOfPopped
<1>12. \A q \in Sorted : q # m /\ depth'[q] = depth[q] /\ depth[q] \in 0 .. Cardinality(Sorted) - 1
  BY <1>1, <1>2 DEF SortInv, D
<1>13. depth' \in [D -> 0 .. Cardinality(D) - 1]
  <2>1. \A q \in D : depth'[q] \in 0 .. Cardinality(D) - 1
    BY <1>1, <1>5, <1>11, <1>12 DEF D
  <2> QED
    BY <1>1, <2>1
<1>14. ASSUME NEW q \in D
       PROVE  /\ AffectedPreds(q) \subseteq D
              /\ \A p \in AffectedPreds(q) : depth'[p] < depth'[q]
              /\ depth'[q] > 0 => \E p \in AffectedPreds(q) : depth'[p] = depth'[q] - 1
  <2>1. CASE q = m
    <3>1. depth'[m] = LongestPath(m)
      BY <1>1 DEF D
    <3> QED
      BY <1>2, <1>11, <1>12, <2>1, <3>1 DEF D
  <2>2. CASE q # m
    <3>1. q \in Sorted /\ Layered(q)
      BY <2>2 DEF D, SortInv
    <3> QED
      BY <1>12, <3>1 DEF Layered, D
  <2> QED
    BY <2>1, <2>2
<1> QED
  BY <1>3, <1>4, <1>6, <1>9, <1>10, <1>13, <1>14 DEF SortInv, Layered

-----------------------------------------------------------------------------
(* The plan that is built.                                                 *)

Rank(m) == Cardinality({q \in Affected : q <= m})

LEMMA Ranks ==
    /\ \A m \in Affected : Rank(m) \in 1 .. Cardinality(Affected)
    /\ \A m, n \in Affected : m # n => Rank(m) # Rank(n)
    /\ \A i \in 1 .. Cardinality(Affected) : \E m \in Affected : Rank(m) = i
<1> DEFINE below(m) == {q \in Affected : q <= m}
           size == Cardinality(Affected)
<1>1. /\ Affected \in SUBSET Models /\ Models \in SUBSET Int
      /\ IsFiniteSet(Affected) /\ size \in Nat
  BY AffectedAreReached, ModelsFinite DEF Models
<1>2. ASSUME NEW m \in Affected
      PROVE  below(m) \in SUBSET Affected /\ m \in below(m) /\ Rank(m) \in 1 .. size
  <2>1. below(m) \in SUBSET Affected /\ m \in below(m) /\ below(m) # {} /\ m \in Int
    BY <1>1
  <2>2. Cardinality(below(m)) \in Nat /\ Cardinality(below(m)) # 0 /\ Cardinality(below(m)) <= size
    BY <1>1, <2>1, ModelsFinite, CountSubset
  <2> HIDE DEF size
  <2> QED
    BY <1>1, <2>1, <2>2 DEF Rank
<1>3. ASSUME NEW m \in Affected, NEW n \in Affected, m < n
      PROVE  Rank(m) < Rank(n)
  <2>0. /\ \A q \in Affected : q \in Int
        /\ m \in Int /\ n \in Int
    BY <1>1
  <2>1. below(m) \in SUBSET below(n) /\ n \in below(n) /\ n \notin below(m)
    <3>1. \A q \in Affected : q <= m => q <= n
      BY <1>3, <2>0
    <3>2. ~(n <= m) /\ n <= n
      BY <1>3, <2>0
    <3> QED
      BY <3>1, <3>2
  <2>2. below(n) \in SUBSET Models /\ below(m) # below(n)
    BY <1>1, <2>1
  <2>3. Cardinality(below(m)) < Cardinality(below(n))
    BY <2>1, <2>2, CountSubset
  <2> QED
    BY <2>3 DEF Rank
<1>4. ASSUME NEW m \in Affected, NEW n \in Affected, m # n
      PROVE  Rank(m) # Rank(n)
  <2>1. m \in Int /\ n \in Int /\ Rank(m) \in Int /\ Rank(n) \in Int
    BY <1>1, <1>2
  <2>2. m < n \/ n < m
    BY <1>4, <2>1
  <2> QED
    BY <1>3, <2>1, <2>2
<1> DEFINE rank == [m \in Affected |-> Rank(m)]
<1>5. rank \in Injection(Affected, 1 .. size)
  BY <1>2, <1>4 DEF Injection, IsInjective
<1>6. IsFiniteSet(1 .. size) /\ Cardinality(1 .. size) = size
  BY <1>1, FS_Interval
<1>7. rank \in Surjection(Affected, 1 .. size)
  <2> HIDE DEF rank
  <2> QED
    BY <1>5, <1>6, FS_Injection
<1> QED
  BY <1>2, <1>4, <1>7 DEF Surjection

ThePlan == [i \in 1 .. Cardinality(Affected) |-> PlanStep(SortedAffected[i])]

PlanInv == plan # <<>> => heap = {} /\ plan = ThePlan

\* Every affected model has one step.
LEMMA StepsOfThePlan ==
    ASSUME PlanInv, plan # <<>>
    PROVE  /\ Steps = {PlanStep(m) : m \in Affected}
           /\ Planned = Affected
           /\ \A m \in Affected : StepOf(m) = PlanStep(m)
<1>1. ASSUME NEW i \in 1 .. Cardinality(Affected)
      PROVE  SortedAffected[i] \in Affected /\ Rank(SortedAffected[i]) = i
  BY Ranks DEF SortedAffected, Rank
<1>2. ASSUME NEW m \in Affected
      PROVE  \E i \in 1 .. Cardinality(Affected) : SortedAffected[i] = m
  <2>1. Rank(m) \in 1 .. Cardinality(Affected)
    BY Ranks
  <2>2. SortedAffected[Rank(m)] \in Affected /\ Rank(SortedAffected[Rank(m)]) = Rank(m)
    BY <1>1, <2>1
  <2>3. SortedAffected[Rank(m)] = m
    BY <2>2, Ranks
  <2> QED
    BY <2>1, <2>3
<1>3. Steps = {PlanStep(SortedAffected[i]) : i \in 1 .. Cardinality(Affected)}
  BY DEF Steps, PlanInv, ThePlan
<1>4. Steps = {PlanStep(m) : m \in Affected}
  BY <1>1, <1>2, <1>3
<1>5. \A m : PlanStep(m).model = m
  BY DEF PlanStep
<1>6. Planned = Affected
  BY <1>4, <1>5 DEF Planned
<1>7. ASSUME NEW m \in Affected
      PROVE  StepOf(m) = PlanStep(m)
  BY <1>4, <1>5 DEF StepOf
<1> QED
  BY <1>4, <1>6, <1>7

LEMMA StepsOf ==
    ASSUME PlanInv, NEW s \in Steps
    PROVE  plan # <<>> /\ \E m \in Affected : s = PlanStep(m)
<1>1. plan # <<>>
  BY DEF Steps
<1> QED
  BY <1>1, StepsOfThePlan

\* The start of an incremental step is that of one of the watermarks, or the
\* look-back, and none of them is before it.
LEMMA StartOfStep ==
    ASSUME InputOK, NEW m \in Affected
    PROVE  /\ WidenedStart(m) \in Int
           /\ mark[m] # NoMark => WidenedStart(m) <= mark[m].to
           /\ \A u \in AffectedPreds(m) : mark[u] # NoMark => WidenedStart(m) <= mark[u].from
<1> DEFINE own == IF mark[m] = NoMark THEN AsOf - Lookback ELSE mark[m].to
           marked == {v \in AffectedPreds(m) : mark[v] # NoMark}
           first == [u \in Models |-> mark[u].from]
           starts == {mark[u].from : u \in marked}
           all == {own} \cup starts
<1>1. m \in Models /\ marked \in SUBSET Models /\ AsOf - Lookback \in Int
  BY AffectedAreReached, PredsAffected, PlannerAssumption
<1>2. \A u \in Models : mark[u] # NoMark => mark[u].from \in Int /\ mark[u].to \in Int
  BY DEF InputOK, Watermarks
<1>3. own \in Int /\ all \in SUBSET Int /\ own \in all
  BY <1>1, <1>2
<1>4. starts = {first[u] : u \in marked}
  BY <1>1
<1>5. IsFiniteSet(starts)
  <2>1. IsFiniteSet(marked)
    BY <1>1, ModelsFinite
  <2>2. IsFiniteSet({first[u] : u \in marked})
    <3> HIDE DEF first, marked
    <3> QED
      BY <2>1, ImageIsFinite
  <2> QED
    BY <1>4, <2>2
<1>6. IsFiniteSet(all)
  <2>1. all = starts \cup {own}
    OBVIOUS
  <2> HIDE DEF all, starts, own
  <2> QED
    BY <1>5, <2>1, FS_AddElement
<1>7. WidenedStart(m) = Min(all)
  BY DEF WidenedStart
<1>8. Min(all) \in all /\ \A d \in all : Min(all) <= d
  <2> HIDE DEF all
  <2> QED
    BY <1>3, <1>6, MinOfFinite
<1>9. \A u \in AffectedPreds(m) : mark[u] # NoMark => mark[u].from \in all
  OBVIOUS
<1>10. mark[m] # NoMark => own = mark[m].to
  OBVIOUS
<1> HIDE DEF all, own
<1> QED
  BY <1>3, <1>7, <1>8, <1>9, <1>10

-----------------------------------------------------------------------------
(* The invariant.                                                          *)

PlannerInv == InputOK /\ SortInv /\ PlanInv

LEMMA InitHolds == Init => PlannerInv
<1> SUFFICES ASSUME Init
             PROVE  PlannerInv
  OBVIOUS
<1>1. InputOK
  BY PlannerAssumption DEF Init, InputOK
<1>2. plan = <<>>
  BY DEF Init, StartSort
<1> QED
  BY <1>1, <1>2, SortStarts DEF Init, PlannerInv, PlanInv

LEMMA ServiceInitHolds == ServiceInit => PlannerInv
<1> SUFFICES ASSUME ServiceInit
             PROVE  PlannerInv
  OBVIOUS
<1>1. dag \subseteq {e \in Models \X Models : e[1] # e[2]}
  BY ServiceAssumption DEF ServiceInit, Edges, Loaded
<1>2. \A m \in Models : StructuralDiff(m) \in {"none", "added", "modified"}
  BY DEF StructuralDiff
<1>3. InputOK
  BY <1>1, <1>2 DEF ServiceInit, InputOK, Watermarks
<1>4. plan = <<>>
  BY DEF ServiceInit, StartSort
<1> QED
  BY <1>3, <1>4, SortStarts DEF ServiceInit, PlannerInv, PlanInv

\* Once the sort is over nothing that the plan is made from changes.
LEMMA NothingMoves ==
    ASSUME UNCHANGED <<input, degree, heap, order, depth>>
    PROVE  (SortInv => SortInv') /\ ThePlan' = ThePlan
<1>1. /\ Affected' = Affected /\ SortedAffected' = SortedAffected
      /\ \A m : AffectedPreds(m)' = AffectedPreds(m)
  BY InputStays
<1>2. Sorted' = Sorted
  BY DEF Sorted
<1>3. SortInv => SortInv'
  BY <1>1, <1>2 DEF SortInv, Layered
<1>4. \A m : PlanStep(m)' = PlanStep(m)
  <2>1. Groups' = Groups
    BY <1>1 DEF Groups
  <2>2. \A m : WidenedStart(m)' = WidenedStart(m)
    BY <1>1 DEF WidenedStart, input
  <2>3. \A m : InputRange(m)' = InputRange(m)
    BY <2>2 DEF InputRange
  <2>4. \A m : Incremental(m)' = Incremental(m) /\ DependsOn(m)' = DependsOn(m)
    BY <1>1 DEF Incremental, DependsOn, input
  <2> QED
    BY <2>1, <2>3, <2>4 DEF PlanStep
<1>5. ThePlan' = ThePlan
  BY <1>1, <1>4 DEF ThePlan
<1> QED
  BY <1>3, <1>5

LEMMA StepHolds == PlannerInv /\ [Next]_vars => PlannerInv'
<1> SUFFICES ASSUME PlannerInv, [Next]_vars
             PROVE  PlannerInv'
  OBVIOUS
<1>0. InputOK'
  BY InputStays DEF PlannerInv, Next, PopReady, BuildPlan, vars, input
<1>1. CASE PopReady
  <2>1. SortInv'
    BY <1>1, PopKeepsSort DEF PlannerInv
  <2>2. plan' = <<>>
    BY <1>1 DEF PopReady
  <2> QED
    BY <1>0, <2>1, <2>2 DEF PlannerInv, PlanInv
<1>2. CASE BuildPlan
  <2>1. UNCHANGED <<input, degree, heap, order, depth>> /\ heap = {}
    BY <1>2 DEF BuildPlan
  <2>2. plan' = ThePlan
    BY <1>2 DEF BuildPlan, ThePlan
  <2>3. SortInv' /\ ThePlan' = ThePlan
    BY <2>1, NothingMoves DEF PlannerInv
  <2> QED
    BY <1>0, <2>1, <2>2, <2>3 DEF PlannerInv, PlanInv
<1>3. CASE UNCHANGED vars
  <2>1. UNCHANGED <<input, degree, heap, order, depth>> /\ plan' = plan
    BY <1>3 DEF vars, input
  <2>2. SortInv' /\ ThePlan' = ThePlan
    BY <2>1, NothingMoves DEF PlannerInv
  <2> QED
    BY <1>0, <2>1, <2>2 DEF PlannerInv, PlanInv
<1> QED
  BY <1>1, <1>2, <1>3 DEF Next

LEMMA ServiceSteps == [ServiceNext]_serviceVars => [Next]_vars
  BY DEF ServiceNext, serviceVars

\* The planner by itself on any input, and behind the service.
LEMMA InvAlways == Spec \/ AnySpec => []PlannerInv
<1>1. AnyInit => PlannerInv
  BY InitHolds, ServiceInitHolds DEF AnyInit
<1> QED
  BY <1>1, InitHolds, StepHolds, ServiceSteps, PTL DEF Spec, AnySpec

\* Every reachable state is well typed.
THEOREM TypeCorrect == Spec \/ AnySpec => []TypeOK
<1>1. ASSUME PlannerInv
      PROVE  TypeOK
  <2>1. Affected \in SUBSET Models /\ Sorted \in SUBSET Models /\ N \in Nat
    BY <1>1, AffectedAreReached, ModelsFinite DEF PlannerInv, SortInv
  <2>2. Cardinality(Sorted) \in 0 .. N
    BY <2>1, ModelsFinite
  <2>3. degree \in [Affected -> 0 .. N]
    <3>1. \A m \in Affected : AffectedPreds(m) \ Sorted \in SUBSET Models
      BY PredsAffected
    <3>2. \A m \in Affected : Cardinality(AffectedPreds(m) \ Sorted) \in 0 .. N
      BY <3>1, ModelsFinite
    <3> QED
      BY <1>1, <3>2 DEF PlannerInv, SortInv
  <2>4. heap \subseteq Affected /\ order \in Seq(Affected) /\ Len(order) <= N
    BY <1>1, <2>1, <2>2 DEF PlannerInv, SortInv
  <2>5. Sorted \subseteq Affected /\ \A m \in Sorted : depth[m] \in 0 .. N
    BY <1>1, <2>1, <2>2 DEF PlannerInv, SortInv
  <2>6. ASSUME NEW s \in Steps, s.range # NoMark
        PROVE  s.range.from <= s.range.to
    <3>1. PICK m \in Affected : s = PlanStep(m)
      BY <1>1, StepsOf DEF PlannerInv
    <3>2. s.range = InputRange(m)
      BY <2>6, <3>1 DEF PlanStep
    <3>3. WidenedStart(m) \in Int /\ AsOf \in Int
      BY <1>1, StartOfStep, PlannerAssumption DEF PlannerInv
    <3> QED
      BY <3>2, <3>3 DEF InputRange
  <2> QED
    BY <2>3, <2>4, <2>5, <2>6 DEF TypeOK, Sorted
<1> QED
  BY <1>1, InvAlways, PTL

\* The plan contains what changed and what a path leads to from there, nothing else.
THEOREM PlansAreExact == Spec \/ AnySpec => []PlanIsExact
<1>1. ASSUME PlannerInv
      PROVE  PlanIsExact
  <2>1. Built => Planned = {m \in Models : \E c \in DirectlyChanged : m = c \/ Reaches(c, m)}
    BY <1>1, StepsOfThePlan, AffectedAreReached DEF PlannerInv, Built
  <2>2. ASSUME NEW s \in Steps
        PROVE  s.dependsOn = {a \in Planned : <<a, s.model>> \in dag}
    <3>1. PICK m \in Affected : s = PlanStep(m)
      BY <1>1, StepsOf DEF PlannerInv
    <3>2. Planned = Affected
      BY <1>1, StepsOf, StepsOfThePlan DEF PlannerInv
    <3>3. s.model = m /\ s.dependsOn = AffectedPreds(m)
      BY <3>1 DEF PlanStep, DependsOn
    <3>4. AffectedPreds(m) = {a \in Affected : <<a, m>> \in dag}
      BY AffectedAreReached DEF AffectedPreds, Preds
    <3> QED
      BY <3>2, <3>3, <3>4
  <2> QED
    BY <2>1, <2>2 DEF PlanIsExact
<1> QED
  BY <1>1, InvAlways, PTL

\* No incremental step starts after the data of one of its upstream steps begins.
THEOREM RangesCover == Spec \/ AnySpec => []RangeCoversWatermarks
<1>1. ASSUME PlannerInv
      PROVE  RangeCoversWatermarks
  <2> SUFFICES ASSUME NEW s \in Steps, s.run = "INCREMENTAL"
               PROVE  /\ s.range.to = AsOf
                      /\ mark[s.model] # NoMark => s.range.from <= mark[s.model].to
                      /\ \A u \in s.dependsOn : mark[u] # NoMark => s.range.from <= mark[u].from
    BY DEF RangeCoversWatermarks
  <2>1. PICK m \in Affected : s = PlanStep(m)
    BY <1>1, StepsOf DEF PlannerInv
  <2>2. s.model = m /\ s.dependsOn = AffectedPreds(m) /\ s.range = InputRange(m)
    BY <2>1 DEF PlanStep, DependsOn
  <2>3. /\ WidenedStart(m) \in Int /\ AsOf \in Int
        /\ mark[m] # NoMark => WidenedStart(m) <= mark[m].to
        /\ \A u \in AffectedPreds(m) : mark[u] # NoMark => WidenedStart(m) <= mark[u].from
    BY <1>1, StartOfStep, PlannerAssumption DEF PlannerInv
  <2>4. InputRange(m).to = AsOf /\ InputRange(m).from \in Int /\ InputRange(m).from <= WidenedStart(m)
    BY <2>3 DEF InputRange
  <2>5. /\ m \in Models /\ AffectedPreds(m) \subseteq Models
        /\ \A u \in Models : mark[u] # NoMark => mark[u].from \in Int /\ mark[u].to \in Int
    BY <1>1, AffectedAreReached, PredsAffected DEF PlannerInv, InputOK, Watermarks
  <2> QED
    BY <2>2, <2>3, <2>4, <2>5
<1> QED
  BY <1>1, InvAlways, PTL

-----------------------------------------------------------------------------
(* Cycles and groups.                                                      *)

\* Among sorted models a path leads to a later layer.
LEMMA PathsDescend ==
    ASSUME SortInv, Sorted = Affected, NEW a \in Affected, NEW b, Reaches(a, b)
    PROVE  b \in Affected /\ depth[a] < depth[b]
<1> DEFINE c == {q \in Affected : depth[a] < depth[q]}
<1>1. \A q \in Affected : depth[q] \in Int
  BY DEF SortInv
<1>2. \A q \in Affected : \A s \in Succs(q) : s \in Affected /\ depth[q] < depth[s]
  <2>1. ASSUME NEW q \in Affected, NEW s \in Succs(q)
        PROVE  s \in Affected /\ depth[q] < depth[s]
    <3>1. s \in Affected
      BY AffectedClosed
    <3>2. q \in AffectedPreds(s)
      BY <3>1, PredsAndSuccs
    <3> QED
      BY <3>1, <3>2 DEF SortInv, Layered
  <2> QED
    BY <2>1
<1>3. Succs(a) \subseteq c
  BY <1>2
<1>4. ASSUME NEW q \in c, NEW s \in Succs(q)
      PROVE  s \in c
  <2>1. s \in Affected /\ depth[q] < depth[s] /\ depth[a] < depth[q]
    BY <1>2
  <2>2. depth[a] \in Int /\ depth[q] \in Int /\ depth[s] \in Int
    BY <1>1, <2>1
  <2> QED
    BY <2>1, <2>2
<1>5. c \in SUBSET Models
  BY AffectedAreReached
<1>6. b \in c
  <2> HIDE DEF c
  <2> QED
    BY <1>3, <1>4, <1>5 DEF Reaches
<1> QED
  BY <1>6

\* Models each of which has a predecessor among them contain a cycle: if none
\* did, one with the fewest models before it would have none before it.
LEMMA CycleAmong ==
    ASSUME NEW U \in SUBSET Affected, U # {}, \A m \in U : \E p \in U : m \in Succs(p)
    PROVE  Cyclic
<1> DEFINE Before(m) == {a \in U : Reaches(a, m)}
           sizes == {Cardinality(Before(m)) : m \in U}
<1>1. U \in SUBSET Models /\ \A m \in U : Before(m) \in SUBSET U
  BY AffectedAreReached
<1>2. \A m \in U : Cardinality(Before(m)) \in Nat
  BY <1>1, ModelsFinite
<1>3. sizes \in SUBSET Nat /\ sizes # {}
  BY <1>2
<1>4. PICK k \in sizes : \A l \in sizes : k <= l
  <2> HIDE DEF sizes
  <2> QED
    BY <1>3, LeastNumber
<1>5. PICK m \in U : \A n \in U : Cardinality(Before(m)) <= Cardinality(Before(n))
  <2>1. PICK m \in U : k = Cardinality(Before(m))
    BY <1>4
  <2>2. \A n \in U : Cardinality(Before(n)) \in sizes
    OBVIOUS
  <2>3. \A n \in U : k <= Cardinality(Before(n))
    <3> HIDE DEF sizes, Before
    <3> QED
      BY <1>4, <2>2
  <2> HIDE DEF sizes, Before
  <2> QED
    BY <2>1, <2>3
<1>6. PICK p \in U : m \in Succs(p)
  OBVIOUS
<1>7. Reaches(p, m) /\ p \in Models
  BY <1>1, <1>6, ReachesNext
<1>8. Before(p) \in SUBSET Before(m)
  BY <1>1, <1>7, ReachesTransitive
<1>9. ASSUME p \notin Before(p)
      PROVE  FALSE
  <2>1. p \in Before(m) /\ Before(m) \in SUBSET Models
    BY <1>1, <1>7
  <2>2. Cardinality(Before(p)) < Cardinality(Before(m))
    BY <1>8, <1>9, <2>1, CountSubset
  <2>3. Cardinality(Before(m)) <= Cardinality(Before(p))
    BY <1>5
  <2>4. Cardinality(Before(p)) \in Nat /\ Cardinality(Before(m)) \in Nat
    BY <1>2
  <2> HIDE DEF Before
  <2> QED
    BY <2>2, <2>3, <2>4
<1>10. Reaches(p, p)
  BY <1>9
<1> QED
  BY <1>10 DEF Cyclic

\* When no model is ready the sort has stopped early exactly if there is a cycle.
LEMMA StopsAtCycle ==
    ASSUME SortInv, heap = {}
    PROVE  Cyclic <=> Len(order) < Cardinality(Affected)
<1>1. /\ Affected \in SUBSET Models /\ Sorted \in SUBSET Affected
      /\ Len(order) = Cardinality(Sorted)
      /\ Cardinality(Affected) \in Nat /\ Cardinality(Sorted) \in Nat
  BY AffectedAreReached, ModelsFinite DEF SortInv
<1>2. ASSUME Sorted # Affected
      PROVE  Cyclic
  <2> DEFINE U == Affected \ Sorted
  <2>1. U # {} /\ U \in SUBSET Affected
    BY <1>1, <1>2
  <2>2. ASSUME NEW m \in U
        PROVE  \E p \in U : m \in Succs(p)
    <3>1. ~(AffectedPreds(m) \subseteq Sorted)
      BY DEF SortInv
    <3>2. PICK p \in AffectedPreds(m) : p \notin Sorted
      BY <3>1
    <3>3. p \in U /\ m \in Succs(p)
      BY <3>2, PredsAffected, PredsAndSuccs
    <3> QED
      BY <3>3
  <2> HIDE DEF U
  <2> QED
    BY <2>1, <2>2, CycleAmong
<1>3. ASSUME Sorted = Affected, Cyclic
      PROVE  FALSE
  <2>1. PICK m \in Affected : Reaches(m, m)
    BY <1>3 DEF Cyclic
  <2>2. depth[m] < depth[m] /\ depth[m] \in Int
    BY <1>3, <2>1, PathsDescend DEF SortInv
  <2> QED
    BY <2>2
<1>4. Sorted # Affected <=> Cardinality(Sorted) < Cardinality(Affected)
  BY <1>1, CountSubset
<1> QED
  BY <1>1, <1>2, <1>3, <1>4

\* The loop gives up exactly on a cycle; otherwise the groups are the layers of the
\* graph: no path inside a group, and none later than its predecessors force.
THEOREM GroupsLayer == Spec \/ AnySpec => []GroupsAreLayers
<1>1. ASSUME PlannerInv
      PROVE  GroupsAreLayers
  <2> SUFFICES ASSUME Built
               PROVE  /\ Cyclic <=> Len(order) < Cardinality(Affected)
                      /\ ~Cyclic =>
                           /\ \A a, b \in Planned : Reaches(a, b) => StepOf(a).group < StepOf(b).group
                           /\ \A b \in Planned : StepOf(b).group > 0 =>
                                 \E a \in StepOf(b).dependsOn : StepOf(a).group = StepOf(b).group - 1
    BY DEF GroupsAreLayers
  <2>1. SortInv /\ heap = {} /\ Planned = Affected /\ \A m \in Affected : StepOf(m) = PlanStep(m)
    BY <1>1, StepsOfThePlan DEF PlannerInv, PlanInv, Built
  <2>2. Cyclic <=> Len(order) < Cardinality(Affected)
    BY <2>1, StopsAtCycle
  <2>3. ASSUME ~Cyclic
        PROVE  Sorted = Affected /\ Groups = depth
    <3>1. /\ Affected \in SUBSET Models /\ Sorted \in SUBSET Affected
          /\ Len(order) = Cardinality(Sorted)
          /\ Cardinality(Affected) \in Nat /\ Cardinality(Sorted) \in Nat
      BY <2>1, AffectedAreReached, ModelsFinite DEF SortInv
    <3>2. ~(Cardinality(Sorted) < Cardinality(Affected))
      BY <2>2, <2>3, <3>1
    <3>3. Sorted = Affected
      BY <3>1, <3>2, CountSubset
    <3> QED
      BY <3>1, <3>3 DEF Groups
  <2>4. ASSUME ~Cyclic, NEW m \in Affected
        PROVE  StepOf(m).group = depth[m] /\ StepOf(m).dependsOn = AffectedPreds(m)
    BY <2>1, <2>3, <2>4 DEF PlanStep, DependsOn
  <2>5. ASSUME ~Cyclic, NEW a \in Affected, NEW b \in Affected, Reaches(a, b)
        PROVE  StepOf(a).group < StepOf(b).group
    BY <2>1, <2>3, <2>4, <2>5, PathsDescend
  <2>6. ASSUME ~Cyclic, NEW b \in Affected, StepOf(b).group > 0
        PROVE  \E a \in StepOf(b).dependsOn : StepOf(a).group = StepOf(b).group - 1
    <3>1. depth[b] > 0 /\ Layered(b)
      BY <2>1, <2>3, <2>4, <2>6 DEF SortInv
    <3>2. PICK a \in AffectedPreds(b) : depth[a] = depth[b] - 1
      BY <3>1 DEF Layered
    <3>3. a \in Affected
      BY PredsAffected
    <3> QED
      BY <2>4, <2>6, <3>2, <3>3
  <2> QED
    BY <2>1, <2>2, <2>5, <2>6
<1> QED
  BY <1>1, InvAlways, PTL

-----------------------------------------------------------------------------
(* From two commits to a plan.                                             *)

\* What the planner is given, as long as it runs.
ServiceInv ==
    IF caller = "none"
    THEN checkout = [f \in Files |-> NoFile]
    ELSE /\ caller \in {"api", "cli"}
         /\ change = [m \in Models |-> StructuralDiff(m)]

LEMMA ServiceInvAlways == AnySpec => []ServiceInv
<1>1. AnyInit => ServiceInv
  BY DEF AnyInit, ServiceInit, ServiceInv
<1>2. ServiceInv /\ [ServiceNext]_serviceVars => ServiceInv'
  <2> SUFFICES ASSUME ServiceInv, [ServiceNext]_serviceVars
               PROVE  ServiceInv'
    OBVIOUS
  <2>1. UNCHANGED <<change, caller, base, target, checkout, renames>>
    BY DEF ServiceNext, serviceVars, request, Next, vars, PopReady, BuildPlan, input
  <2>2. \A m : StructuralDiff(m)' = StructuralDiff(m)
    <3>1. Loaded' = Loaded /\ TargetVersions' = TargetVersions
      BY <2>1 DEF Loaded, TargetVersions, BodyHash, FileOf, Defines
    <3>2. ChangedFiles' = ChangedFiles /\ StatusFiles' = StatusFiles
      BY <2>1 DEF ChangedFiles, StatusFiles, RenamedFrom, RenamedTo
    <3>3. ApiBaseVersions' = ApiBaseVersions
      BY <2>1, <3>2 DEF ApiBaseVersions, OldHash, Defines
    <3>4. CliBaseVersions' = CliBaseVersions
      BY <2>1, <3>1, <3>2 DEF CliBaseVersions, Matched, Defines, FileOf, BodyHash
    <3>5. BaseVersions' = BaseVersions
      BY <2>1, <3>3, <3>4 DEF BaseVersions
    <3> QED
      BY <3>1, <3>5 DEF StructuralDiff
  <2> QED
    BY <2>1, <2>2 DEF ServiceInv
<1> QED
  BY <1>1, <1>2, PTL DEF AnySpec

\* No hash of an old file is that of a loaded model.
LEMMA HashesDiffer ==
    ASSUME NEW c, NEW m
    PROVE  OldHash(c) # BodyHash(m)
<1>1. OldHash(c).of # "body"
  BY DEF OldHash
<1>2. BodyHash(m).of = "body"
  BY DEF BodyHash
<1> QED
  BY <1>1, <1>2

\* For the API, a loaded model whose file differs counts as changed; for the CLI, those
\* are the models that a listed file names.
LEMMA TouchedAreChanged ==
    ASSUME ServiceInv, caller # "none", NEW m \in Models
    PROVE  /\ caller = "api" /\ m \in Loaded => m \in DirectlyChanged
           /\ caller # "api" => (m \in DirectlyChanged <=> m \in Loaded /\ Matched(m))
<1>1. /\ caller \in {"api", "cli"} /\ change[m] = StructuralDiff(m)
      /\ m \in DirectlyChanged <=> StructuralDiff(m) # "none"
  BY DEF ServiceInv, DirectlyChanged, StructuralDiff
<1>2. m \in DirectlyChanged <=>
          /\ m \in Loaded
          /\ m \in DOMAIN BaseVersions => BaseVersions[m] # BodyHash(m)
  BY <1>1 DEF StructuralDiff, TargetVersions
<1>3. CASE caller = "api"
  <2>1. m \in DOMAIN BaseVersions => BaseVersions[m] # BodyHash(m)
    BY <1>3, HashesDiffer DEF BaseVersions, ApiBaseVersions
  <2> QED
    BY <1>2, <1>3, <2>1
<1>4. CASE caller = "cli"
  <2>1. BaseVersions = [n \in {k \in Loaded : ~Matched(k)} |-> BodyHash(n)]
    BY <1>4 DEF BaseVersions, CliBaseVersions
  <2>2. m \in DOMAIN BaseVersions <=> m \in Loaded /\ ~Matched(m)
    BY <2>1
  <2>3. m \in Loaded /\ ~Matched(m) => BaseVersions[m] = BodyHash(m)
    BY <2>1
  <2> QED
    BY <1>2, <1>4, <2>2, <2>3
<1> QED
  BY <1>1, <1>3, <1>4

\* What git lists for the CLI lies between the files that changed in place and those
\* that changed.
LEMMA MatchedAreNamed ==
    ASSUME NEW m \in Models
    PROVE  /\ TouchedInPlace(m) => Matched(m)
           /\ Matched(m) => NamedByChange(m)
<1>1. TouchedInPlace(m) => Matched(m)
  <2> SUFFICES ASSUME NEW f \in ModelFiles, Defines(checkout, f, m), Differs(f),
                      f \notin RenamedFrom \cup RenamedTo
               PROVE  Matched(m)
    BY DEF TouchedInPlace
  <2>1. f \in Files /\ <<f, f>> \in EndsWith
    BY ServiceAssumption
  <2>2. f \in StatusFiles
    BY <2>1 DEF StatusFiles, ChangedFiles, Differs
  <2> QED
    BY <2>1, <2>2 DEF Matched
<1>2. Matched(m) => NamedByChange(m)
  BY DEF Matched, NamedByChange, StatusFiles, ChangedFiles, Differs
<1> QED
  BY <1>1, <1>2

\* The API plans what changed between the commits and all that reads it; the CLI what
\* changed in place and all that reads it, and nothing that no changed file names.
THEOREM ChangesPlanned == AnySpec => []ChangesArePlanned
<1>1. ASSUME PlannerInv, ServiceInv
      PROVE  ChangesArePlanned
  <2>1. CASE caller = "none"
    <3>1. Loaded = {}
      BY <1>1, <2>1, ServiceAssumption DEF ServiceInv, Loaded, Defines
    <3> QED
      BY <2>1, <3>1 DEF ChangesArePlanned
  <2>2. CASE caller # "none"
    <3> SUFFICES ASSUME Built PROVE ChangesArePlanned
      BY DEF ChangesArePlanned
    <3>1. Planned = {m \in Models : \E c \in DirectlyChanged : m = c \/ Reaches(c, m)}
      BY <1>1, StepsOfThePlan, AffectedAreReached DEF PlannerInv, Built
    <3>2. /\ Planned \subseteq Models /\ Loaded \subseteq Models /\ DirectlyChanged \subseteq Models
          /\ caller \in {"api", "cli"}
      BY <1>1, <2>2, <3>1 DEF Loaded, DirectlyChanged, ServiceInv
    <3>3. ASSUME NEW c \in DirectlyChanged
          PROVE  Downstream(c) \subseteq Planned
      BY <3>1, <3>3 DEF Downstream
    <3>4. ASSUME NEW m \in Planned
          PROVE  \E c \in DirectlyChanged : m \in Downstream(c)
      BY <3>1, <3>2, <3>4 DEF Downstream
    <3>5. ASSUME NEW c \in Loaded, IF caller = "cli" THEN TouchedInPlace(c) ELSE Touched(c)
          PROVE  c \in DirectlyChanged
      BY <1>1, <2>2, <3>2, <3>5, TouchedAreChanged, MatchedAreNamed
    <3>6. ASSUME caller = "cli", NEW c \in DirectlyChanged
          PROVE  c \in Loaded /\ NamedByChange(c)
      BY <1>1, <2>2, <3>2, <3>6, TouchedAreChanged, MatchedAreNamed
    <3> QED
      BY <3>3, <3>4, <3>5, <3>6 DEF ChangesArePlanned
  <2> QED
    BY <2>1, <2>2
<1> QED
  BY <1>1, InvAlways, ServiceInvAlways, PTL
=============================================================================
