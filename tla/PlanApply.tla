----------------------------- MODULE PlanApply ------------------------------
(***************************************************************************)
(* Applying one plan: ExecutionService.apply_plan of                       *)
(* api/api/services/execution_service.py, with its executions, its run     *)
(* rows and its locks.  Several requests may apply the same plan at once,  *)
(* or one after the other when the first failed on some steps.             *)
(*                                                                         *)
(* As in Backfill, a request is one READ COMMITTED transaction: the tx*    *)
(* variables are what it wrote, runs, watermarks and locks what is         *)
(* committed, executed what the warehouse did.  Each step of a plan has a  *)
(* model of its own, so a step names its lock and its watermark.           *)
(*                                                                         *)
(* The requests here have passed the role and approval checks at the start *)
(* of apply_plan: a refused one changes nothing.                           *)
(***************************************************************************)
EXTENDS Integers, Sequences, FiniteSets

CONSTANTS
    Sessions,      \* requests being served, over all replicas
    Steps,
    Listed,        \* the plan's steps, in the order of plan_json
    DependsOn,     \* [Steps -> set of steps]
    Locked,        \* the INCREMENTAL steps with an input range
    Outcomes,      \* what a step may do: subset of {"ok", "fail", "cancelled"}
    Schemas,       \* what the runs table may accept as a status: a set of sets
    MaxRequests    \* bound: requests made

ASSUME PlanAssumption ==
    /\ Listed \in Seq(Steps)
    /\ Steps = {Listed[i] : i \in DOMAIN Listed}
    /\ DependsOn \in [Steps -> SUBSET Steps]
    /\ Locked \subseteq Steps
    /\ Outcomes \subseteq {"ok", "fail", "cancelled"}
    /\ MaxRequests \in Nat

\* A runs row; the request stands for its run_id.
Run == [step : Steps, request : 1 .. MaxRequests, status : {"SUCCESS", "FAIL"}]

VARIABLES
    runs, watermarks, locks,             \* committed; a watermark is named by its step
    runStatuses,                         \* what the runs table accepts as a status
    executed, cancelled,                 \* steps the warehouse has executed, has cancelled
    requests,                            \* how many were made
    pc, request, index, status,          \* locals of the request
    skipped,                             \* steps answered CANCELLED, without a run row
    doneBefore,                          \* history: steps done when the request began
    txRuns, txMarks, txKeys, txLocks     \* its uncommitted writes

db     == <<runs, watermarks, locks, runStatuses>>
world  == <<executed, cancelled>>
locals == <<pc, request, index, status, skipped, doneBefore>>
tx     == <<txRuns, txMarks, txKeys, txLocks>>
vars   == <<db, world, requests, locals, tx>>

Init ==
    /\ runs = {} /\ watermarks = {} /\ locks = {}
    /\ runStatuses \in Schemas
    /\ executed = {} /\ cancelled = {}
    /\ requests = 0
    /\ pc = [s \in Sessions |-> "idle"]
    /\ request = [s \in Sessions |-> 0]
    /\ index = [s \in Sessions |-> 1]
    /\ status = [s \in Sessions |-> "none"]
    /\ skipped = [s \in Sessions |-> {}]
    /\ doneBefore = [s \in Sessions |-> {}]
    /\ txRuns = [s \in Sessions |-> {}]
    /\ txMarks = [s \in Sessions |-> {}]
    /\ txKeys = [s \in Sessions |-> {}]
    /\ txLocks = [s \in Sessions |-> {}]

-----------------------------------------------------------------------------
Done(rows) == {r.step : r \in {q \in rows : q.status = "SUCCESS"}}

\* The step the loop of s has reached.
Current(s) == Listed[index[s]]

\* Mutants: no wait for a key another transaction inserted; a lock left behind;
\* the earlier runs not looked at; their status not looked at.
AlwaysFree(s) == TRUE
LeaveLock(s) == UNCHANGED txLocks
NeverDone(s) == FALSE
HasRun(s) == \E r \in runs \cup txRuns[s] : r.step = Current(s)

KeyFree(s) == \A t \in Sessions \ {s} : Current(s) \notin txKeys[t]

\* get_by_plan: a committed SUCCESS run, or one of this request.
AlreadyDone(s) == Current(s) \in Done(runs \cup txRuns[s])

EndTransaction(s) ==
    /\ pc' = [pc EXCEPT ![s] = "idle"]
    /\ request' = [request EXCEPT ![s] = 0]
    /\ index' = [index EXCEPT ![s] = 1]
    /\ status' = [status EXCEPT ![s] = "none"]
    /\ skipped' = [skipped EXCEPT ![s] = {}]
    /\ doneBefore' = [doneBefore EXCEPT ![s] = {}]
    /\ txRuns' = [txRuns EXCEPT ![s] = {}]
    /\ txMarks' = [txMarks EXCEPT ![s] = {}]
    /\ txKeys' = [txKeys EXCEPT ![s] = {}]
    /\ txLocks' = [txLocks EXCEPT ![s] = {}]

Rollback(s) == EndTransaction(s) /\ UNCHANGED <<db, world, requests>>

-----------------------------------------------------------------------------
(* The loop of apply_plan.                                                 *)

Start(s) ==
    /\ pc[s] = "idle"
    /\ requests < MaxRequests
    /\ requests' = requests + 1
    /\ request' = [request EXCEPT ![s] = requests + 1]
    /\ pc' = [pc EXCEPT ![s] = "check"]
    /\ doneBefore' = [doneBefore EXCEPT ![s] = Done(runs)]
    /\ UNCHANGED <<db, world, index, status, skipped, tx>>

\* A step with a SUCCESS run is passed over; an incremental one is locked
\* before it is executed.
CheckDone(s) ==
    /\ pc[s] = "check" /\ index[s] <= Len(Listed)
    /\ IF AlreadyDone(s)
       THEN /\ index' = [index EXCEPT ![s] = @ + 1]
            /\ UNCHANGED pc
       ELSE /\ pc' = [pc EXCEPT ![s] = IF Current(s) \in Locked THEN "lock" ELSE "exec"]
            /\ UNCHANGED index
    /\ UNCHANGED <<db, world, requests, request, status, skipped, doneBefore, tx>>

\* acquire_lock.  The runs are not read again after the wait.
AcquireLock(s) ==
    /\ pc[s] = "lock"
    /\ KeyFree(s)
    /\ IF Current(s) \in locks
       THEN /\ skipped' = [skipped EXCEPT ![s] = @ \cup {Current(s)}]
            /\ index' = [index EXCEPT ![s] = @ + 1]
            /\ pc' = [pc EXCEPT ![s] = "check"]
            /\ UNCHANGED <<txKeys, txLocks>>
       ELSE /\ txKeys' = [txKeys EXCEPT ![s] = @ \cup {Current(s)}]
            /\ txLocks' = [txLocks EXCEPT ![s] = @ \cup {Current(s)}]
            /\ pc' = [pc EXCEPT ![s] = "exec"]
            /\ UNCHANGED <<skipped, index>>
    /\ UNCHANGED <<db, world, requests, request, status, doneBefore, txRuns, txMarks>>

\* Mutant: a failed step is reported as a success.
ExecutedAnyhow(s, result) ==
    /\ status' = [status EXCEPT ![s] = "SUCCESS"]
    /\ pc' = [pc EXCEPT ![s] = "record"]
    /\ UNCHANGED <<db, requests, request, index, skipped, doneBefore, tx>>

Executed(s, result) ==
    /\ status' = [status EXCEPT ![s] = result]
    /\ pc' = [pc EXCEPT ![s] = "record"]
    /\ UNCHANGED <<db, requests, request, index, skipped, doneBefore, tx>>

ExecuteOk(s) ==
    /\ pc[s] = "exec" /\ "ok" \in Outcomes
    /\ executed' = executed \cup {Current(s)}
    /\ UNCHANGED cancelled
    /\ Executed(s, "SUCCESS")

\* The executor raised, perhaps after the warehouse had done the work.
ExecuteFail(s) ==
    /\ pc[s] = "exec" /\ "fail" \in Outcomes
    /\ executed' \in {executed, executed \cup {Current(s)}}
    /\ UNCHANGED cancelled
    /\ Executed(s, "FAIL")

\* Databricks reports CANCELLED; _execute_on_databricks raises for FAIL only.
ExecuteCancelled(s) ==
    /\ pc[s] = "exec" /\ "cancelled" \in Outcomes
    /\ cancelled' = cancelled \cup {Current(s)}
    /\ UNCHANGED executed
    /\ Executed(s, "SUCCESS")

ReleaseLock(s) == txLocks' = [txLocks EXCEPT ![s] = @ \ {Current(s)}]

\* Mutant: a watermark for a step that has no range.
MarkAnyStep(s) == IF status[s] = "SUCCESS" THEN {Current(s)} ELSE {}

\* The watermark a step leaves: a locked step's that succeeded.
Marked(s) == IF status[s] = "SUCCESS" THEN {Current(s)} \cap Locked ELSE {}

\* The run row, the watermark, the release.  The loop goes on after a failed
\* step.
Record(s) ==
    /\ pc[s] = "record" /\ status[s] \in runStatuses
    /\ txRuns' = [txRuns EXCEPT ![s] = @ \cup
           {[step |-> Current(s), request |-> request[s], status |-> status[s]]}]
    /\ txMarks' = [txMarks EXCEPT ![s] = @ \cup Marked(s)]
    /\ ReleaseLock(s)
    /\ index' = [index EXCEPT ![s] = @ + 1]
    /\ status' = [status EXCEPT ![s] = "none"]
    /\ pc' = [pc EXCEPT ![s] = "check"]
    /\ UNCHANGED <<db, world, requests, request, skipped, doneBefore, txKeys>>

\* create_run violates the constraint: the request raises.
RefuseRun(s) == pc[s] = "record" /\ status[s] \notin runStatuses /\ Rollback(s)

Commit(s) ==
    /\ pc[s] = "check" /\ index[s] > Len(Listed)
    /\ runs' = runs \cup txRuns[s]
    /\ watermarks' = watermarks \cup txMarks[s]
    /\ locks' = locks \cup txLocks[s]
    /\ EndTransaction(s)
    /\ UNCHANGED <<runStatuses, world, requests>>

\* The process dies, the connection drops or the client goes away.
Crash(s) == pc[s] # "idle" /\ Rollback(s)

\* The insert of the lock row waited lock_timeout.
LockTimeout(s) == pc[s] = "lock" /\ ~KeyFree(s) /\ Rollback(s)

Next ==
    \E s \in Sessions :
        \/ Start(s) \/ CheckDone(s) \/ AcquireLock(s)
        \/ ExecuteOk(s) \/ ExecuteFail(s) \/ ExecuteCancelled(s)
        \/ Record(s) \/ RefuseRun(s) \/ Commit(s) \/ LockTimeout(s) \/ Crash(s)

Spec == Init /\ [][Next]_vars

-----------------------------------------------------------------------------
(* Properties.                                                             *)

TypeOK ==
    /\ runs \subseteq Run /\ watermarks \subseteq Locked /\ locks \subseteq Locked
    /\ runStatuses \in Schemas
    /\ executed \subseteq Steps /\ cancelled \subseteq Steps
    /\ requests \in 0 .. MaxRequests
    /\ pc \in [Sessions -> {"idle", "check", "lock", "exec", "record"}]
    /\ request \in [Sessions -> 0 .. MaxRequests]
    /\ index \in [Sessions -> 1 .. Len(Listed) + 1]
    /\ status \in [Sessions -> {"none", "SUCCESS", "FAIL"}]
    /\ skipped \in [Sessions -> SUBSET Steps] /\ doneBefore \in [Sessions -> SUBSET Steps]
    /\ txRuns \in [Sessions -> SUBSET Run] /\ txMarks \in [Sessions -> SUBSET Locked]
    /\ txKeys \in [Sessions -> SUBSET Locked] /\ txLocks \in [Sessions -> SUBSET Locked]

\* Steps the warehouse was given and has executed or cancelled.
Answered == executed \cup cancelled

\* What the state store says was done was done, whatever crashed or ran twice:
\* a step with a SUCCESS run or a watermark was executed (or cancelled in the
\* workspace, which no handler tells apart), and a watermark never appears
\* without the run that produced it.
RecordsTrue ==
    /\ Done(runs) \subseteq Answered
    /\ watermarks = Done(runs) \cap Locked

\* What an observer of module Ledger sees: steps, each request with its runs.
Store == INSTANCE Ledger WITH
    Work <- Steps, Kept <- Locked, Owners <- 1 .. MaxRequests,
    answered <- Answered, recorded <- Done(runs), marks <- watermarks,
    rows <- [r \in 1 .. MaxRequests |-> Done({q \in runs : q.request = r})]

\* The records are a ledger: only steps the warehouse answered for are posted, a
\* request's in one step with their watermarks, and no posting is ever lost.
LedgerIsKept == Store!Spec

\* An answered request leaves no step without an answer: when it commits, each
\* step was done by somebody or has a run of this request that says it failed,
\* so applying again until nothing fails completes the plan.
EveryStepAnswered ==
    \A s \in Sessions : pc[s] = "check" /\ index[s] > Len(Listed) =>
        \A x \in Steps :
            \/ x \in Done(runs \cup txRuns[s])
            \/ [step |-> x, request |-> request[s], status |-> "FAIL"] \in txRuns[s]

\* A retry never repeats what was already done when it began, in whichever order
\* earlier requests, crashes and rollbacks came.
RetrySkipsDone ==
    [][\A s \in Sessions :
        ExecuteOk(s) \/ ExecuteFail(s) => Current(s) \notin doneBefore[s]]_vars

\* No two requests execute the same incremental step at the same time.
LockedStepMutex ==
    \A s, t \in Sessions :
        s # t /\ pc[s] = "exec" /\ pc[t] = "exec" /\ Current(s) = Current(t)
            => Current(s) \notin Locked

\* "guarantee lock release": no lock row outlives its request, so the answer
\* "Lock acquisition failed" is never given.
NoOrphanLock == locks = {} /\ \A s \in Sessions : skipped[s] = {}

(* What the repository says and the code does not do.                      *)

\* "Execute every step in a plan in topological order" (apply_plan).
TopologicalOrder ==
    [][\A s \in Sessions :
        ExecuteOk(s) \/ ExecuteFail(s) =>
            \A d \in DependsOn[Current(s)] :
                \E r \in runs \cup txRuns[s] : r.step = d]_vars

\* Run records "provide the primary audit trail for every SQL statement executed
\* by the engine" (RunRecord): a request that comes to record an execution
\* leaves a run row.
ExecutionsAreRecorded ==
    [][\A s \in Sessions : Record(s) \/ RefuseRun(s) => txRuns'[s] # txRuns[s]]_vars

=============================================================================
