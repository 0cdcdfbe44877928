------------------------------- MODULE Ledger -------------------------------
(***************************************************************************)
(* What the state store promises about the work it keeps records of,       *)
(* without requests, chunks, locks or transactions: the abstract           *)
(* specification that both Backfill and PlanApply implement.               *)
(*                                                                         *)
(* The warehouse answers for work.  Work that was answered for, and no     *)
(* other, is posted: at once to the records, to the watermarks if it is    *)
(* work that leaves one, and to the rows of at most one owner, a backfill  *)
(* or a request.  Nothing that was posted is ever retracted.               *)
(***************************************************************************)

CONSTANTS
    Work,     \* days, or steps of a plan
    Kept,     \* the work that leaves a watermark
    Owners    \* whose success rows are kept apart

VARIABLES
    answered,   \* what the warehouse executed or cancelled
    recorded,   \* what the store says was done
    marks,      \* what lies under a watermark
    rows        \* [Owners -> what the success rows of an owner stand for]

vars == <<answered, recorded, marks, rows>>

Init ==
    /\ answered = {} /\ recorded = {} /\ marks = {}
    /\ rows = [o \in Owners |-> {}]

Answer ==
    /\ \E work \in SUBSET Work : answered' = answered \cup work
    /\ UNCHANGED <<recorded, marks, rows>>

Post(work, owner) ==
    /\ work \subseteq answered
    /\ recorded' = recorded \cup work
    /\ marks' = marks \cup (work \cap Kept)
    /\ rows' = [o \in Owners |-> IF o \in owner THEN rows[o] \cup work ELSE rows[o]]
    /\ UNCHANGED answered

Next ==
    \/ Answer
    \/ \E work \in SUBSET answered, owner \in {{}} \cup {{o} : o \in Owners} : Post(work, owner)

Spec == Init /\ [][Next]_vars

-----------------------------------------------------------------------------
(* What follows from the promise.                                          *)

\* Every record stands for work that was answered for, watermarks and records
\* never come apart, and no owner has a row for work that is not recorded.
BooksAgree ==
    /\ recorded \subseteq answered
    /\ marks = recorded \cap Kept
    /\ \A o \in Owners : rows[o] \subseteq recorded
=============================================================================
