---------------------------- MODULE MCPlanApply -----------------------------
(* Values of the constants of PlanApply for TLC. *)
EXTENDS PlanApply, TLC

CONSTANTS s1, s2

\* Steps are numbered in the alphabetical order of their models.  2 reads 1, as
\* a chain named in order; or 1 reads 2, a chain named against it.
InOrder  == <<1, 2>>
Three    == <<1, 2, 3>>
Forward  == [x \in Steps |-> IF x = 1 THEN {} ELSE {x - 1}]
Backward == [x \in Steps |-> IF x = 1 THEN {2} ELSE {}]

Reported  == {"ok", "fail"}
AnyResult == {"ok", "fail", "cancelled"}

\* The runs rows a database takes before and after migration 022.
Unchecked == {"PENDING", "RUNNING", "SUCCESS", "FAIL", "CANCELLED"}
Checked   == {"PENDING", "RUNNING", "COMPLETED", "FAILED", "CANCELLED"}

Either       == {Unchecked, Checked}
BeforeChecks == {Unchecked}
AfterChecks  == {Checked}

Symm == Permutations(Sessions)
=============================================================================
