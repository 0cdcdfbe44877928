------------------------------ MODULE Planner -------------------------------
(***************************************************************************)
(* Plan generation: generate_plan of                                       *)
(* core_engine/core_engine/planner/interval_planner.py, with the           *)
(* topological sort of core_engine/core_engine/graph/dag_builder.py.  The  *)
(* behaviour of this module is one call: the input is chosen in Init, the  *)
(* loop of Kahn's algorithm takes one step per node, and the last step     *)
(* builds the plan.                                                        *)
(*                                                                         *)
(* Models are numbered in the alphabetical order of their names, days from *)
(* a common origin.  Costs, reasons and contract violations are left out.  *)
(***************************************************************************)
EXTENDS Integers, Sequences, FiniteSets, FiniteSetsExt

CONSTANTS
    N,           \* models are 1..N
    Inputs,      \* what generate_plan may be given: records of four sets, dag (sets of
                 \* edges <<upstream, downstream>>), change (what the diff says of each
                 \* model), kind (how it is built) and mark (its latest watermark)
    NoMark,
    AsOf,        \* as_of_date
    Lookback     \* default_lookback_days

Models == 1 .. N

\* The interval a model was last built for, or none.
Watermarks == {w \in [from : Int, to : Int] : w.from <= w.to} \cup {NoMark}

ASSUME PlannerAssumption ==
    /\ N \in Nat \ {0}
    /\ AsOf \in Int /\ Lookback \in Nat
    /\ \A x \in Inputs :
          /\ \A g \in x.dag : g \subseteq {e \in Models \X Models : e[1] # e[2]}
          /\ x.change \subseteq [Models -> {"none", "added", "modified", "cosmetic"}]
          /\ x.kind \subseteq [Models -> {"full", "incremental"}]
          /\ x.mark \subseteq [Models -> Watermarks]

VARIABLES
    dag, change, kind, mark,      \* the input
    degree, heap, order, depth,   \* Kahn's algorithm and the layering
    plan                          \* <<>> until it is built

vars == <<dag, change, kind, mark, degree, heap, order, depth, plan>>
input == <<dag, change, kind, mark>>

-----------------------------------------------------------------------------
(* The affected set.                                                       *)

Preds(m) == {p \in Models : <<p, m>> \in dag}
Succs(m) == {q \in Models : <<m, q>> \in dag}

\* nx.descendants: the models reachable from m, found by following edges N times.
Descendants(m) ==
    LET reach[k \in Nat] ==
            IF k = 0 THEN Succs(m)
            ELSE reach[k - 1] \cup UNION {Succs(q) : q \in reach[k - 1]}
    IN  reach[N]

\* Added and modified models; modified ones with a cosmetic diff are dropped.
DirectlyChanged == {m \in Models : change[m] \in {"added", "modified"}}

\* Mutant: only the next models downstream.
OneHop(seeds) == seeds \cup UNION {Succs(m) : m \in seeds}

Closure(seeds) == seeds \cup UNION {Descendants(m) : m \in seeds}

Affected == Closure(DirectlyChanged)

\* The subgraph induced by the affected models.
AffectedPreds(m) == Preds(m) \cap Affected

-----------------------------------------------------------------------------
(* _assign_parallel_groups.                                                *)

\* Its start: in-degrees in the subgraph, and the models without predecessor.
StartSort ==
    /\ degree = [m \in Affected |-> Cardinality(AffectedPreds(m))]
    /\ heap = {m \in Affected : AffectedPreds(m) = {}}
    /\ order = <<>>
    /\ depth = [m \in {} |-> 0]
    /\ plan = <<>>

Init ==
    /\ \E x \in Inputs :
          dag \in x.dag /\ change \in x.change /\ kind \in x.kind /\ mark \in x.mark
    /\ StartSort

\* Mutant: the group of the first predecessor, not of the deepest.
FirstPredDepth(m) ==
    LET preds == AffectedPreds(m) \cap DOMAIN depth
    IN  IF preds = {} THEN 0 ELSE depth[Min(preds)] + 1

\* Longest path from a source: one more than the deepest predecessor.
LongestPath(m) ==
    LET preds == AffectedPreds(m) \cap DOMAIN depth
    IN  IF preds = {} THEN 0 ELSE Max({depth[p] : p \in preds}) + 1

\* The successors of m whose last unsorted predecessor is m.
Ready(m) == {q \in Succs(m) \cap Affected : degree[q] = 1}

\* One round of _lexicographic_topological_sort: the smallest ready model is
\* popped.  longest_path is filled by a second loop over the same order.
PopReady ==
    /\ plan = <<>>
    /\ heap # {}
    /\ LET m == Min(heap)
       IN  /\ order' = Append(order, m)
           /\ degree' = [q \in Affected |-> IF q \in Succs(m) THEN degree[q] - 1 ELSE degree[q]]
           /\ heap' = (heap \ {m}) \cup Ready(m)
           /\ depth' = [q \in DOMAIN depth \cup {m} |->
                            IF q = m THEN LongestPath(m) ELSE depth[q]]
    /\ UNCHANGED <<input, plan>>

\* sorted(all_affected): the order of the steps in the plan.
SortedAffected ==
    [i \in 1 .. Cardinality(Affected) |->
        CHOOSE m \in Affected : Cardinality({q \in Affected : q <= m}) = i]

\* A cycle among the affected models: one group after the other.
Groups ==
    IF Len(order) = Cardinality(Affected)
    THEN depth
    ELSE [m \in Affected |-> Cardinality({q \in Affected : q < m})]

-----------------------------------------------------------------------------
(* _determine_run_type and _compute_incremental_range.                     *)

Incremental(m) == change[m] # "added" /\ kind[m] = "incremental"

\* Mutant: only the model's own watermark.
OwnStart(m) == IF mark[m] = NoMark THEN AsOf - Lookback ELSE mark[m].to

\* The model's own start, widened to the watermark start of any upstream
\* affected model.
WidenedStart(m) ==
    LET own == IF mark[m] = NoMark THEN AsOf - Lookback ELSE mark[m].to
    IN  Min({own} \cup {mark[u].from : u \in {v \in AffectedPreds(m) : mark[v] # NoMark}})

\* Mutant: the guard against a start after the end is missing.
UnclampedRange(m) == [from |-> WidenedStart(m), to |-> AsOf]

InputRange(m) ==
    [from |-> IF WidenedStart(m) > AsOf THEN AsOf ELSE WidenedStart(m), to |-> AsOf]

DependsOn(m) == AffectedPreds(m)

PlanStep(m) ==
    [model     |-> m,
     run       |-> IF Incremental(m) THEN "INCREMENTAL" ELSE "FULL_REFRESH",
     range     |-> IF Incremental(m) THEN InputRange(m) ELSE NoMark,
     dependsOn |-> DependsOn(m),
     group     |-> Groups[m]]

BuildPlan ==
    /\ plan = <<>>
    /\ heap = {} /\ Affected # {}
    /\ plan' = [i \in 1 .. Cardinality(Affected) |-> PlanStep(SortedAffected[i])]
    /\ UNCHANGED <<input, degree, heap, order, depth>>

Next == PopReady \/ BuildPlan

Spec == Init /\ [][Next]_vars

-----------------------------------------------------------------------------
(* Properties.                                                             *)

Built == plan # <<>>
Steps == {plan[i] : i \in DOMAIN plan}
StepOf(m) == CHOOSE s \in Steps : s.model = m
Planned == {s.model : s \in Steps}

\* A path from a to b inside the affected set, stated without the algorithm:
\* no set that contains a and is closed under edges misses b.
Reaches(a, b) ==
    \A c \in SUBSET Models :
        Succs(a) \subseteq c /\ (\A m \in c : Succs(m) \subseteq c) => b \in c

Cyclic == \E m \in Affected : Reaches(m, m)

TypeOK ==
    /\ degree \in [Affected -> 0 .. N]
    /\ heap \subseteq Affected
    /\ order \in Seq(Affected) /\ Len(order) <= N
    /\ DOMAIN depth \subseteq Affected /\ \A m \in DOMAIN depth : depth[m] \in 0 .. N
    /\ \A s \in Steps : s.range # NoMark => s.range.from <= s.range.to

\* The plan contains what changed and everything that can read it, directly or
\* through other models, and nothing else; a step depends on the models it reads
\* that are in the plan.
PlanIsExact ==
    /\ Built => Planned = {m \in Models :
                  \E c \in DirectlyChanged : m = c \/ Reaches(c, m)}
    /\ \A s \in Steps : s.dependsOn = {a \in Planned : <<a, s.model>> \in dag}

\* "Steps sharing a parallel group may execute concurrently": Kahn's loop gives up
\* exactly on a cycle; otherwise no path joins two models of one group, and a group is
\* never later than the dependencies force.
GroupsAreLayers ==
    /\ Built => (Cyclic <=> Len(order) < Cardinality(Affected))
    /\ Built /\ ~Cyclic =>
        /\ \A a, b \in Planned : Reaches(a, b) => StepOf(a).group < StepOf(b).group
        /\ \A b \in Planned : StepOf(b).group > 0 =>
               \E a \in StepOf(b).dependsOn : StepOf(a).group = StepOf(b).group - 1

\* An incremental step starts no later than the model's own watermark ends and
\* than the watermarks of the upstream models it is planned with start, and it
\* ends at the reference date.
RangeCoversWatermarks ==
    \A s \in Steps : s.run = "INCREMENTAL" =>
        /\ s.range.to = AsOf
        /\ mark[s.model] # NoMark => s.range.from <= mark[s.model].to
        /\ \A u \in s.dependsOn : mark[u] # NoMark => s.range.from <= mark[u].from
=============================================================================
