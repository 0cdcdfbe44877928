----------------------------- MODULE MCBackfill -----------------------------
(* Values of the constants of Backfill for TLC. *)
EXTENDS Backfill, TLC

CONSTANTS j1, j2, s1, s2

\* j1 and j2 ask for the same days in chunks of one day and of two.
TwoJobs   == {j1, j2}
OneJob    == {j1}
FromOne   == [j \in Jobs |-> 1]
ToLast    == [j \in Jobs |-> LastDay]
Sizes     == [j \in Jobs |-> IF j = j2 THEN 2 ELSE 1]
FirstDay  == {[from |-> 1, to |-> 1]}
NoSingles == {}
Reported  == {"ok", "fail"}
AnyResult == {"ok", "fail", "cancelled"}

\* The runs rows a database takes before and after migration 022.
Unchecked == {"PENDING", "RUNNING", "SUCCESS", "FAIL", "CANCELLED"}
Checked   == {"PENDING", "RUNNING", "COMPLETED", "FAILED", "CANCELLED"}

Either       == {Unchecked, Checked}
BeforeChecks == {Unchecked}

Symm == Permutations(Sessions)
=============================================================================
