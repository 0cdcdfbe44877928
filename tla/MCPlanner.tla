----------------------------- MODULE MCPlanner ------------------------------
(* Values of the constants of Planner and PlanService for TLC: the planner is called *)
(* on inputs of its own, or by the API and the CLI on the trees of two commits.      *)
EXTENDS PlanService

Pairs == {e \in Models \X Models : e[1] # e[2]}

\* Every graph of N models with at most N edges (diamonds and full cycles among
\* them), and every set of modified models.
Shapes ==
    [dag    |-> {g \in SUBSET Pairs : Cardinality(g) <= N},
     change |-> [Models -> {"none", "modified"}],
     kind   |-> {[m \in Models |-> "full"]},
     mark   |-> {[m \in Models |-> NoMark]}]

\* Three of the models in every acyclic graph, up to renaming, with every change,
\* build and watermark; the last model is left alone.
Three(values, rest) ==
    {[m \in Models |-> IF m = N THEN rest ELSE f[m]] : f \in [1 .. N - 1 -> values]}

Dates ==
    [dag    |-> SUBSET {e \in Pairs : e[1] < e[2] /\ e[2] < N},
     change |-> Three({"cosmetic", "added", "modified"}, "none"),
     kind   |-> Three({"full", "incremental"}, "full"),
     mark   |-> Three({NoMark, [from |-> 1, to |-> 4], [from |-> 3, to |-> 3]}, NoMark)]

ShapesAndDates == {Shapes, Dates}

\* Three files: one that may lose its header or change it, one that may go or change
\* its SQL, one that may go and holds a third model or a copy of the second, so that
\* the second may be moved, and edited on the way.
File(m, h, b) == [model |-> m, header |-> h, body |-> b]

SmallTrees ==
    {[f \in Files |-> CASE f = 1 -> x [] f = 2 -> y [] OTHER -> z] :
        x \in {File(0, 1, 1), File(1, 1, 1), File(1, 2, 1)},
        y \in {NoFile, File(2, 1, 1), File(2, 1, 2)},
        z \in {NoFile, File(3, 1, 1), File(2, 1, 1)}}

\* 1 is orders.sql, and 3 stg_orders.sql.
ThirdEndsWithFirst == {<<f, f>> : f \in Files} \cup {<<3, 1>>}

\* 3 reads 1; 2 stands alone.
ThreeReadsOne == [m \in Models |-> IF m = 3 THEN {1} ELSE {}]

AnyInit ==
    \/ Init /\ caller = "none" /\ base = <<>> /\ target = <<>> /\ checkout = [f \in Files |-> NoFile] /\ renames = {}
    \/ ServiceInit

AnySpec == AnyInit /\ [][ServiceNext]_serviceVars

\* The checkout is the target commit, as the endpoint expects it.
TargetSpec == ServiceInit /\ checkout = target /\ [][ServiceNext]_serviceVars
=============================================================================
