----------------------------- MODULE PlanReview -----------------------------
(***************************************************************************)
(* Reviews of one plan: approve_plan and reject_plan of                    *)
(* api/api/routers/approvals.py over PlanRepository, and the approval gate *)
(* at the start of ExecutionService.apply_plan.                            *)
(*                                                                         *)
(* Requests are READ COMMITTED transactions on PostgreSQL.  approvals_json *)
(* is written as JSON text, which the JSONB column gives back as text,     *)
(* except by add_approval on PostgreSQL, whose concatenation yields an     *)
(* array: json.loads raises on it.                                         *)
(*                                                                         *)
(* On SQLite each session has a connection of its own, and the driver      *)
(* begins a transaction only before INSERT, UPDATE or DELETE: what a       *)
(* request read first may be old when it writes, and releasing             *)
(* add_approval's savepoint, the outermost one, commits the approval.      *)
(*                                                                         *)
(* The plan cache is left out: no router gives PlanService a Redis client, *)
(* so it is never filled.                                                  *)
(***************************************************************************)
EXTENDS Integers, Sequences, FiniteSets

CONSTANTS
    Users,
    Reviews,       \* review requests being served
    MaxEntries     \* bound: reviews recorded

\* What the constants must be.
ReviewAssumption == MaxEntries \in Nat

Entry == [user : Users, rejected : BOOLEAN]

VARIABLES
    dialect, env,  \* the deployment: database, and platform_env
    approvals,     \* the committed approvals_json, a sequence of entries
    trail,         \* committed audit rows: PLAN_APPROVED and PLAN_REJECTED
    review,        \* [Reviews -> the locals of a request, or Idle]
    applied        \* history: what the gate of apply_plan let through without a bypass

config == <<dialect, env>>
reviewVars == <<dialect, env, approvals, trail, review, applied>>

\* form is "text" or "array": how the value the request wrote comes back.
Idle == [pc |-> "idle"]

Init ==
    /\ dialect \in {"postgresql", "sqlite"}
    /\ env \in {"dev", "prod"}   \* the gate asks only whether it is dev
    /\ approvals = <<>>
    /\ trail = {}
    /\ review = [r \in Reviews |-> Idle]
    /\ applied = {}

Entries == {approvals[i] : i \in DOMAIN approvals}
Busy(r) == review[r].pc # "idle"

\* A write waits for the transaction that updated the plan before: for its row on
\* PostgreSQL, for the database's only writer on SQLite.
RowFree(r) == \A q \in Reviews \ {r} : review[q].pc # "wrote"

\* Mutant: nobody is asked whether he has reviewed before.
NeverReviewed(u) == FALSE

\* "already approved": any entry of the user, a rejection included.
HasReviewed(u) == \E e \in Entries : e.user = u

MayBegin(r) == ~Busy(r) /\ Len(approvals) < MaxEntries

\* Both handlers read the list; the session keeps the row it loaded.
Begin(r, pc, u, rejected) ==
    review' = [review EXCEPT ![r] =
        [pc |-> pc, entry |-> [user |-> u, rejected |-> rejected], read |-> approvals]]

BeginApprove(r, u) ==
    /\ MayBegin(r) /\ ~HasReviewed(u)
    /\ Begin(r, "approve", u, FALSE)
    /\ UNCHANGED <<config, approvals, trail, applied>>

BeginReject(r, u) ==
    /\ MayBegin(r)
    /\ Begin(r, "reject", u, TRUE)
    /\ UNCHANGED <<config, approvals, trail, applied>>

Wrote(r, list, form) ==
    review' = [review EXCEPT ![r] =
        [pc |-> "wrote", entry |-> review[r].entry, list |-> list, form |-> form]]

\* add_approval on PostgreSQL: the column of the moment, with the entry at its end.
AddApproval(r) ==
    /\ review[r].pc = "approve" /\ dialect = "postgresql" /\ RowFree(r)
    /\ Wrote(r, Append(approvals, review[r].entry), "array")
    /\ UNCHANGED <<config, approvals, trail, applied>>

\* add_approval on SQLite: the row the handler loaded, with the entry at its end, for
\* all to see.
SaveApproval(r) ==
    /\ review[r].pc = "approve" /\ dialect = "sqlite" /\ RowFree(r)
    /\ approvals' = Append(review[r].read, review[r].entry)
    /\ review' = [review EXCEPT ![r] = [pc |-> "saved", entry |-> review[r].entry]]
    /\ UNCHANGED <<config, trail, applied>>

\* An absolute value, from what was read.
WriteRejection(r) ==
    /\ review[r].pc = "reject" /\ RowFree(r)
    /\ Wrote(r, Append(review[r].read, review[r].entry), "text")
    /\ UNCHANGED <<config, approvals, trail, applied>>

Logged(e) == trail \cup {e}

\* The handler logs, reads the plan back and returns: commit.  approve_plan also
\* parses the approvals, which raises on an array.
Commit(r) ==
    /\ review[r].pc = "wrote" /\ review[r].form = "text"
    /\ approvals' = review[r].list
    /\ trail' = Logged(review[r].entry)
    /\ review' = [review EXCEPT ![r] = Idle]
    /\ UNCHANGED <<config, applied>>

\* The same after SaveApproval: a transaction of the audit row alone.
LogApproval(r) ==
    /\ review[r].pc = "saved" /\ RowFree(r)
    /\ trail' = Logged(review[r].entry)
    /\ review' = [review EXCEPT ![r] = Idle]
    /\ UNCHANGED <<config, approvals, applied>>

\* The read-back raises, the process dies, or a wait times out.  An approval that was
\* saved stays.
Rollback(r) ==
    /\ Busy(r)
    /\ review' = [review EXCEPT ![r] = Idle]
    /\ UNCHANGED <<config, approvals, trail, applied>>

\* The gate of apply_plan.  auto_approve is for an ADMIN.
Bypassed(auto) == auto \/ env = "dev"
Gate(auto) == Bypassed(auto) \/ approvals # <<>>

Apply(auto, role) ==
    /\ auto => role = "admin"
    /\ Gate(auto)
    /\ applied' = IF Bypassed(auto) THEN applied
                  ELSE applied \cup {[reviewed |-> Entries \cap trail # {},
                                      approved |-> \E e \in Entries : ~e.rejected]}
    /\ UNCHANGED <<config, approvals, trail, review>>

Next ==
    \/ \E r \in Reviews, u \in Users : BeginApprove(r, u) \/ BeginReject(r, u)
    \/ \E r \in Reviews : \/ AddApproval(r) \/ SaveApproval(r) \/ WriteRejection(r)
                          \/ Commit(r) \/ LogApproval(r) \/ Rollback(r)
    \/ \E auto \in BOOLEAN, role \in {"operator", "admin"} : Apply(auto, role)

Spec == Init /\ [][Next]_reviewVars

-----------------------------------------------------------------------------
(* Properties.                                                             *)

TypeOK ==
    /\ approvals \in Seq(Entry)
    /\ trail \subseteq Entry
    /\ \A r \in Reviews : Busy(r) => review[r].entry \in Entry
    /\ applied \subseteq [reviewed : BOOLEAN, approved : BOOLEAN]

\* Whatever reviews overlap, overwrite one another or fail half-way, every entry is
\* in the audit trail, but for an approval on SQLite; an apply outside dev without the
\* ADMIN bypass follows such an entry; and nobody approves who has reviewed before,
\* in whichever order the lists that were read are written back.
ReviewedBeforeApplied ==
    /\ \A e \in Entries : e \in trail \/ (dialect = "sqlite" /\ ~e.rejected)
    /\ \A a \in applied : a.reviewed \/ (dialect = "sqlite" /\ a.approved)
    /\ \A i, j \in DOMAIN approvals :
           i < j /\ approvals[i].user = approvals[j].user => approvals[j].rejected

\* "Requires prior approval in non-dev environments unless auto_approve is set"
\* (api/api/routers/plans.py): the gate lets through only plans somebody approved.
AppliedWasApproved ==
    \A a \in applied : a.approved
=============================================================================
