------------------------------ MODULE Backfill ------------------------------
(***************************************************************************)
(* Backfills of one model: ExecutionService.backfill, chunked_backfill and *)
(* resume_backfill of api/api/services/execution_service.py, running as    *)
(* concurrent HTTP requests over one PostgreSQL database.                  *)
(*                                                                         *)
(* A request owns one session, hence one READ COMMITTED transaction that   *)
(* is committed when the handler returns and rolled back when it raises    *)
(* (api/api/dependencies.py, _with_session).  What the warehouse executed  *)
(* is not part of that transaction.  The tx* variables are what a request  *)
(* has written and not yet committed; the unprimed tables are what every   *)
(* other request sees.  A write that meets a key or a row another open     *)
(* transaction has written waits for it, at most lock_timeout.             *)
(*                                                                         *)
(* Rows of two models never meet, so one model is enough.  Run rows and    *)
(* costs are not kept: no handler below reads them, and an insert can only *)
(* fail on the status.                                                     *)
(***************************************************************************)
EXTENDS Integers, FiniteSets

CONSTANTS
    Sessions,      \* requests being served, over all replicas
    Jobs,          \* chunked backfills: one per (start, end, chunk size)
    Start, End,    \* [Jobs -> day] overall_start, overall_end
    Size,          \* [Jobs -> days] chunk_size_days
    Singles,       \* ranges [from, to] given to POST /backfills
    LastDay,       \* bound: the days that occur are 1..LastDay
    Outcomes,      \* what a step may do: subset of {"ok", "fail", "cancelled"}
    Schemas,       \* what the runs table may accept as a status: a set of sets
    NoJob, NoRow

Day   == 1 .. LastDay
Range == [from : Day, to : Day]
Days(r) == r.from .. r.to

ASSUME JobsAssumption ==
    /\ LastDay \in Nat
    /\ Start \in [Jobs -> Day] /\ End \in [Jobs -> Day]
    /\ Size \in [Jobs -> Nat \ {0}]
    /\ \A j \in Jobs : Start[j] <= End[j]
    /\ Singles \subseteq {r \in Range : r.from <= r.to}
    /\ Outcomes \subseteq {"ok", "fail", "cancelled"}
    /\ NoJob \notin Jobs

\* A backfill_checkpoints row.  completed_through = None is the day before
\* overall_start.
Row == [status    : {"RUNNING", "FAILED", "COMPLETED"},
        through   : 0 .. LastDay,
        completed : Nat]

ASSUME NoRowAssumption == NoRow \notin Row

AuditRow == [job : Jobs, chunk : Range, status : {"SUCCESS", "FAILED"}]

VARIABLES
    checkpoint,   \* [Jobs -> Row or NoRow]  committed backfill_checkpoints
    watermarks,   \* committed partition ranges of the model
    audit,        \* committed backfill_audit rows
    locks,        \* committed lock rows
    plans,        \* ranges whose synthetic single-step plan is committed
    runStatuses,  \* what the runs table accepts as a status
    processed,    \* days whose SQL the warehouse has executed
    cancelled,    \* days whose SQL it was given and has cancelled
    pc, job, chunk, count, status,                \* locals of the request
    txRow, txMarks, txAudit, txKeys, txLocks, txPlans  \* its uncommitted writes

db     == <<checkpoint, watermarks, audit, locks, plans, runStatuses>>
world  == <<processed, cancelled>>
locals == <<pc, job, chunk, count, status>>
tx     == <<txRow, txMarks, txAudit, txKeys, txLocks, txPlans>>
vars   == <<db, world, locals, tx>>

NoChunk == [from |-> 1, to |-> 0]

Init ==
    /\ checkpoint = [j \in Jobs |-> NoRow]
    /\ watermarks = {} /\ audit = {} /\ locks = {} /\ plans = {}
    /\ runStatuses \in Schemas
    /\ processed = {} /\ cancelled = {}
    /\ pc = [s \in Sessions |-> "idle"]
    /\ job = [s \in Sessions |-> NoJob]
    /\ chunk = [s \in Sessions |-> NoChunk]
    /\ count = [s \in Sessions |-> 0]
    /\ status = [s \in Sessions |-> "none"]
    /\ txRow = [s \in Sessions |-> NoRow]
    /\ txMarks = [s \in Sessions |-> {}]
    /\ txAudit = [s \in Sessions |-> {}]
    /\ txKeys = [s \in Sessions |-> {}]
    /\ txLocks = [s \in Sessions |-> {}]
    /\ txPlans = [s \in Sessions |-> {}]

-----------------------------------------------------------------------------
(* The database.  Row s sees of a table: its own write, else the committed *)
(* one.  RowFree and KeyFree hold when a write of s need not wait.         *)

\* Mutants: no wait for a key another transaction inserted; a lock left behind.
AlwaysFree(s, r) == TRUE
LeaveLock(s) == UNCHANGED txLocks

RowFree(s, j) == \A t \in Sessions \ {s} : job[t] = j => txRow[t] = NoRow
KeyFree(s, r) == \A t \in Sessions \ {s} : r \notin txKeys[t]

CurrentRow(s) == IF txRow[s] # NoRow THEN txRow[s] ELSE checkpoint[job[s]]

\* The end of the transaction of s: its locals and its writes are gone.
EndTransaction(s) ==
    /\ pc' = [pc EXCEPT ![s] = "idle"]
    /\ job' = [job EXCEPT ![s] = NoJob]
    /\ chunk' = [chunk EXCEPT ![s] = NoChunk]
    /\ count' = [count EXCEPT ![s] = 0]
    /\ status' = [status EXCEPT ![s] = "none"]
    /\ txRow' = [txRow EXCEPT ![s] = NoRow]
    /\ txMarks' = [txMarks EXCEPT ![s] = {}]
    /\ txAudit' = [txAudit EXCEPT ![s] = {}]
    /\ txKeys' = [txKeys EXCEPT ![s] = {}]
    /\ txLocks' = [txLocks EXCEPT ![s] = {}]
    /\ txPlans' = [txPlans EXCEPT ![s] = {}]

Rollback(s) == EndTransaction(s) /\ UNCHANGED <<db, world>>

Commit(s) ==
    /\ pc[s] = "commit"
    /\ checkpoint' = IF txRow[s] = NoRow THEN checkpoint
                     ELSE [checkpoint EXCEPT ![job[s]] = txRow[s]]
    /\ watermarks' = watermarks \cup txMarks[s]
    /\ audit' = audit \cup txAudit[s]
    /\ locks' = locks \cup txLocks[s]
    /\ plans' = plans \cup txPlans[s]
    /\ EndTransaction(s)
    /\ UNCHANGED <<runStatuses, world>>

-----------------------------------------------------------------------------
(* chunked_backfill and resume_backfill: where the chunks start.           *)

\* Mutants: the last chunk not cut at the end of the range; a chunk one day
\* too long; a chunk that starts one day late.
NotCut(a, b) == a
LongChunkFrom(j, d) ==
    [from |-> d, to |-> IF d + Size[j] <= End[j] THEN d + Size[j] ELSE End[j]]
LateChunkFrom(j, d) ==
    LET last == IF d + Size[j] - 1 <= End[j] THEN d + Size[j] - 1 ELSE End[j]
    IN  [from |-> IF d < last THEN d + 1 ELSE d, to |-> last]

EarlierOf(a, b) == IF a <= b THEN a ELSE b

\* The chunk of j that starts on day d.  The remaining chunks are computed
\* before the loop, from a fixed end: stepping from one to the next is the same.
ChunkFrom(j, d) == [from |-> d, to |-> EarlierOf(d + Size[j] - 1, End[j])]

\* How many chunks the whole range of j is split into (total_chunks).
TotalChunks(j) == (End[j] - Start[j]) \div Size[j] + 1

\* chunked_backfill: the checkpoint is inserted RUNNING.  A second request
\* waits for the first one's insert, and fails on the primary key once that
\* is committed.
StartChunked(s, j) ==
    /\ pc[s] = "idle"
    /\ checkpoint[j] = NoRow
    /\ RowFree(s, j)
    /\ pc' = [pc EXCEPT ![s] = "lock"]
    /\ job' = [job EXCEPT ![s] = j]
    /\ chunk' = [chunk EXCEPT ![s] = ChunkFrom(j, Start[j])]
    /\ txRow' = [txRow EXCEPT ![s] = [status |-> "RUNNING", through |-> Start[j] - 1,
                                      completed |-> 0]]
    /\ UNCHANGED <<db, world, count, status, txMarks, txAudit, txKeys, txLocks, txPlans>>

\* resume_backfill: the checkpoint is read once; nothing stops a second
\* request, or one still running, from reading the same row.
Resume(s, j) ==
    /\ pc[s] = "idle"
    /\ checkpoint[j] # NoRow
    /\ checkpoint[j].status \in {"FAILED", "RUNNING"}
    /\ LET first == checkpoint[j].through + 1
       IN  IF first > End[j]
           THEN /\ pc' = [pc EXCEPT ![s] = "finish"]
                /\ UNCHANGED chunk
           ELSE /\ pc' = [pc EXCEPT ![s] = "lock"]
                /\ chunk' = [chunk EXCEPT ![s] = ChunkFrom(j, first)]
    /\ job' = [job EXCEPT ![s] = j]
    /\ count' = [count EXCEPT ![s] = checkpoint[j].completed]
    /\ UNCHANGED <<db, world, status, tx>>

\* _execute_chunks, the chunk's lock.  A committed lock row on the same range
\* ends the request with a FAILED checkpoint.
AcquireLock(s) ==
    /\ pc[s] = "lock" /\ job[s] # NoJob
    /\ KeyFree(s, chunk[s])
    /\ IF chunk[s] \in locks
       THEN /\ RowFree(s, job[s])
            /\ txAudit' = [txAudit EXCEPT ![s] = @ \cup
                   {[job |-> job[s], chunk |-> chunk[s], status |-> "FAILED"]}]
            /\ txRow' = [txRow EXCEPT ![s] = [CurrentRow(s) EXCEPT !.status = "FAILED"]]
            /\ pc' = [pc EXCEPT ![s] = "commit"]
            /\ UNCHANGED <<txKeys, txLocks>>
       ELSE /\ txKeys' = [txKeys EXCEPT ![s] = @ \cup {chunk[s]}]
            /\ txLocks' = [txLocks EXCEPT ![s] = @ \cup {chunk[s]}]
            /\ pc' = [pc EXCEPT ![s] = "exec"]
            /\ UNCHANGED <<txAudit, txRow>>
    /\ UNCHANGED <<db, world, job, chunk, count, status, txMarks, txPlans>>

-----------------------------------------------------------------------------
(* _execute_step: the warehouse runs the SQL of the range.                 *)

\* Mutant: a failed step is reported as a success.
ExecutedAnyhow(s, result) ==
    /\ status' = [status EXCEPT ![s] = "SUCCESS"]
    /\ pc' = [pc EXCEPT ![s] = "record"]
    /\ UNCHANGED <<db, job, chunk, count, tx>>

Executed(s, result) ==
    /\ status' = [status EXCEPT ![s] = result]
    /\ pc' = [pc EXCEPT ![s] = "record"]
    /\ UNCHANGED <<db, job, chunk, count, tx>>

ExecuteOk(s) ==
    /\ pc[s] = "exec" /\ "ok" \in Outcomes
    /\ processed' = processed \cup Days(chunk[s])
    /\ UNCHANGED cancelled
    /\ Executed(s, "SUCCESS")

\* The executor raised: the SQL failed, or the wait for it timed out after
\* the warehouse had in fact done the work.
ExecuteFail(s) ==
    /\ pc[s] = "exec" /\ "fail" \in Outcomes
    /\ \/ processed' = processed
       \/ processed' = processed \cup Days(chunk[s])
    /\ UNCHANGED cancelled
    /\ Executed(s, "FAIL")

\* Databricks reports CANCELLED (the run was cancelled in the workspace, or
\* skipped).  _execute_on_databricks raises for FAIL only.
ExecuteCancelled(s) ==
    /\ pc[s] = "exec" /\ "cancelled" \in Outcomes
    /\ cancelled' = cancelled \cup Days(chunk[s])
    /\ UNCHANGED processed
    /\ Executed(s, "SUCCESS")

-----------------------------------------------------------------------------
(* _execute_chunks, after the step.                                        *)

ReleaseLock(s) == txLocks' = [txLocks EXCEPT ![s] = @ \ {chunk[s]}]

\* create_run, the first write after the step, violates the constraint.
RefuseRun(s) == pc[s] = "record" /\ status[s] \notin runStatuses /\ Rollback(s)

RecordSuccess(s) ==
    /\ pc[s] = "record" /\ job[s] # NoJob /\ status[s] = "SUCCESS"
    /\ status[s] \in runStatuses
    /\ RowFree(s, job[s])
    /\ txMarks' = [txMarks EXCEPT ![s] = @ \cup {chunk[s]}]
    /\ txAudit' = [txAudit EXCEPT ![s] = @ \cup
           {[job |-> job[s], chunk |-> chunk[s], status |-> "SUCCESS"]}]
    /\ count' = [count EXCEPT ![s] = @ + 1]
    /\ txRow' = [txRow EXCEPT ![s] =
           [CurrentRow(s) EXCEPT !.through = chunk[s].to, !.completed = count[s] + 1]]
    /\ ReleaseLock(s)
    /\ IF chunk[s].to < End[job[s]]
       THEN /\ chunk' = [chunk EXCEPT ![s] = ChunkFrom(job[s], chunk[s].to + 1)]
            /\ pc' = [pc EXCEPT ![s] = "lock"]
       ELSE /\ pc' = [pc EXCEPT ![s] = "finish"]
            /\ UNCHANGED chunk
    /\ status' = [status EXCEPT ![s] = "none"]
    /\ UNCHANGED <<db, world, job, txKeys, txPlans>>

RecordFailure(s) ==
    /\ pc[s] = "record" /\ job[s] # NoJob /\ status[s] = "FAIL"
    /\ status[s] \in runStatuses
    /\ RowFree(s, job[s])
    /\ txAudit' = [txAudit EXCEPT ![s] = @ \cup
           {[job |-> job[s], chunk |-> chunk[s], status |-> "FAILED"]}]
    /\ txRow' = [txRow EXCEPT ![s] = [CurrentRow(s) EXCEPT !.status = "FAILED"]]
    /\ ReleaseLock(s)
    /\ pc' = [pc EXCEPT ![s] = "commit"]
    /\ UNCHANGED <<db, world, job, chunk, count, status, txMarks, txKeys, txPlans>>

\* mark_completed, after the last chunk or by a resume that finds none left.
MarkCompleted(s) ==
    /\ pc[s] = "finish"
    /\ RowFree(s, job[s])
    /\ txRow' = [txRow EXCEPT ![s] = [CurrentRow(s) EXCEPT !.status = "COMPLETED"]]
    /\ pc' = [pc EXCEPT ![s] = "commit"]
    /\ UNCHANGED <<db, world, job, chunk, count, status, txMarks, txAudit, txKeys, txLocks,
                   txPlans>>

-----------------------------------------------------------------------------
(* backfill: one range, one synthetic plan, no checkpoint.                 *)

\* check_lock answers 409 when a live lock row is visible.
StartSingle(s, r) ==
    /\ pc[s] = "idle"
    /\ r \notin locks
    /\ pc' = [pc EXCEPT ![s] = "lock"]
    /\ chunk' = [chunk EXCEPT ![s] = r]
    /\ UNCHANGED <<db, world, job, count, status, tx>>

\* acquire_lock, whose result is not looked at, then save_plan: the plan id is
\* a hash of the range, so a range backfilled before fails on the primary key.
LockAndSavePlan(s) ==
    /\ pc[s] = "lock" /\ job[s] = NoJob
    /\ KeyFree(s, chunk[s])
    /\ IF chunk[s] \in plans
       THEN Rollback(s)
       ELSE /\ txKeys' = [txKeys EXCEPT ![s] = @ \cup {chunk[s]}]
            /\ txLocks' = [txLocks EXCEPT ![s] = @ \cup ({chunk[s]} \ locks)]
            /\ txPlans' = [txPlans EXCEPT ![s] = {chunk[s]}]
            /\ pc' = [pc EXCEPT ![s] = "exec"]
            /\ UNCHANGED <<db, world, job, chunk, count, status, txRow, txMarks, txAudit>>

RecordSingle(s) ==
    /\ pc[s] = "record" /\ job[s] = NoJob /\ status[s] \in runStatuses
    /\ txMarks' = [txMarks EXCEPT ![s] =
           IF status[s] = "SUCCESS" THEN {chunk[s]} ELSE {}]
    /\ ReleaseLock(s)
    /\ pc' = [pc EXCEPT ![s] = "commit"]
    /\ UNCHANGED <<db, world, job, chunk, count, status, txRow, txAudit, txKeys, txPlans>>

-----------------------------------------------------------------------------
(* Failures of the request itself.                                         *)

\* The process dies, the connection drops or the client goes away.
Crash(s) == pc[s] # "idle" /\ Rollback(s)

\* Mutant: a statement waits for ever.
NeverTimeout(s) == FALSE

\* A statement waited lock_timeout (or was the victim of the deadlock
\* detector): it raises, and the request is rolled back.
LockTimeout(s) ==
    /\ \/ pc[s] = "lock" /\ ~KeyFree(s, chunk[s])
       \/ /\ job[s] # NoJob /\ ~RowFree(s, job[s])
          /\ \/ pc[s] = "record" /\ status[s] \in runStatuses
             \/ pc[s] = "finish"
             \/ pc[s] = "lock" /\ chunk[s] \in locks
    /\ Rollback(s)

\* What a request does by itself once it has started.
Step(s) ==
    \/ AcquireLock(s) \/ LockAndSavePlan(s)
    \/ ExecuteOk(s) \/ ExecuteFail(s) \/ ExecuteCancelled(s)
    \/ RecordSuccess(s) \/ RecordFailure(s) \/ RecordSingle(s) \/ RefuseRun(s)
    \/ MarkCompleted(s) \/ Commit(s) \/ LockTimeout(s)

Next ==
    \E s \in Sessions :
        \/ \E j \in Jobs : StartChunked(s, j) \/ Resume(s, j)
        \/ \E r \in Singles : StartSingle(s, r)
        \/ Step(s)
        \/ Crash(s)

Spec == Init /\ [][Next]_vars

\* A handler that can go on does: the event loop runs it, the poll of the
\* warehouse has a deadline and every wait for a row has lock_timeout.
FairSpec == Spec /\ \A s \in Sessions : WF_vars(Step(s))
-----------------------------------------------------------------------------
(* Properties.                                                             *)

TypeOK ==
    /\ checkpoint \in [Jobs -> Row \cup {NoRow}]
    /\ watermarks \subseteq Range /\ audit \subseteq AuditRow
    /\ locks \subseteq Range /\ plans \subseteq Range
    /\ runStatuses \in Schemas
    /\ processed \subseteq Day /\ cancelled \subseteq Day
    /\ pc \in [Sessions -> {"idle", "lock", "exec", "record", "finish", "commit"}]
    /\ job \in [Sessions -> Jobs \cup {NoJob}]
    /\ chunk \in [Sessions -> Range \cup {NoChunk}]
    /\ count \in [Sessions -> Nat]
    /\ status \in [Sessions -> {"none", "SUCCESS", "FAIL"}]
    /\ txRow \in [Sessions -> Row \cup {NoRow}]
    /\ txMarks \in [Sessions -> SUBSET Range] /\ txAudit \in [Sessions -> SUBSET AuditRow]
    /\ txKeys \in [Sessions -> SUBSET Range] /\ txLocks \in [Sessions -> SUBSET Range]
    /\ txPlans \in [Sessions -> SUBSET Range]

Successes(j) == {a.chunk : a \in {b \in audit : b.job = j /\ b.status = "SUCCESS"}}
Covered(ranges) == UNION {Days(r) : r \in ranges}

\* Days the warehouse was given and has executed or cancelled.
Answered == processed \cup cancelled

\* What the state store says was done, was done: the days of every committed
\* watermark and of every SUCCESS audit row were executed by the warehouse (or
\* cancelled in the workspace, which no handler tells apart), whatever crashed,
\* timed out or ran twice in between.
RecordsTrue ==
    /\ Covered(watermarks) \subseteq Answered
    /\ \A j \in Jobs : Covered(Successes(j)) \subseteq Answered

\* What an observer of module Ledger sees: days, each backfill with its audit rows.
Store == INSTANCE Ledger WITH
    Work <- Day, Kept <- Day, Owners <- Jobs,
    answered <- Answered, recorded <- Covered(watermarks), marks <- Covered(watermarks),
    rows <- [j \in Jobs |-> Covered(Successes(j))]

\* The records are a ledger: only days the warehouse answered for are posted, to the
\* watermarks and to the audit of one backfill in one step, whatever is rolled back,
\* resumed from a stale checkpoint or done twice, and no posting is ever lost.
LedgerIsKept == Store!Spec

\* A checkpoint's completed_through may be trusted by the next resume: every
\* day up to it was executed or cancelled, lies under a committed watermark and
\* has a SUCCESS row in the audit of this backfill.  Requests that resume from a
\* stale checkpoint move completed_through back, never past a hole.
ProgressIsBacked ==
    \A j \in Jobs : checkpoint[j] # NoRow =>
        Start[j] .. checkpoint[j].through
            \subseteq Answered \cap Covered(watermarks) \cap Covered(Successes(j))

\* completed_chunks and completed_through never drift apart, although one is
\* counted by the loop and the other is the end of a chunk recomputed from the
\* last resume point: together they always say "this many chunks of the original
\* split, hence up to this day".
ChunkCountAgrees ==
    \A j \in Jobs : checkpoint[j] # NoRow =>
        LET row == checkpoint[j]
        IN  IF row.through = End[j]
            THEN row.completed = TotalChunks(j)
            ELSE row.through = Start[j] + row.completed * Size[j] - 1

\* A lock row never outlives its request: the row is deleted in the
\* transaction that inserted it, on every path through the handlers.  So
\* acquire_lock never finds a live lock of another request; what makes a second
\* one wait is the unique index.
NoOrphanLock == locks = {}

\* Two requests never hold the same range at once, from the acquisition to the
\* end of the transaction.  Chunks of one backfill are of one split, from whichever
\* checkpoint a request resumed, so no two requests of one backfill execute a day
\* at the same time.
RangeMutex ==
    \A s, t \in Sessions : s # t =>
        /\ txKeys[s] \cap txKeys[t] = {}
        /\ pc[s] = "exec" /\ pc[t] = "exec" /\ job[s] = job[t] /\ job[s] # NoJob
               => Days(chunk[s]) \cap Days(chunk[t]) = {}

\* No request hangs: two resumes that wait for each other's rows, or a queue of
\* requests behind a slow one, always come to an answer.
RequestsEnd == \A s \in Sessions : pc[s] # "idle" ~> pc[s] = "idle"

(* What the repository says and the code does not do.                      *)

\* "Partition-range advisory locks preventing concurrent writes" (tables.py):
\* no two requests execute a day at the same time.
NoConcurrentWrites ==
    \A s, t \in Sessions :
        s # t /\ pc[s] = "exec" /\ pc[t] = "exec" => Days(chunk[s]) \cap Days(chunk[t]) = {}

\* "Resume a previously failed or interrupted chunked backfill"
\* (resume_backfill): an interrupted backfill has a checkpoint to resume from.
InterruptedIsResumable ==
    [][\A s \in Sessions :
        Crash(s) /\ job[s] # NoJob /\ txMarks[s] # {} => checkpoint[job[s]] # NoRow]_vars
=============================================================================
