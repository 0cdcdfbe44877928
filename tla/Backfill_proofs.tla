--------------------------- MODULE Backfill_proofs --------------------------
(***************************************************************************)
(* Proofs about Backfill, for any number of requests, backfills and days.  *)
(***************************************************************************)
EXTENDS Backfill, TLAPS

-----------------------------------------------------------------------------
(* Types.                                                                  *)

\* Where a request is fixes which of its locals mean something.
Shape ==
    \A s \in Sessions :
        /\ pc[s] \in {"lock", "exec", "record"} => chunk[s] \in Range
        /\ pc[s] = "record" => status[s] # "none"
        /\ pc[s] = "finish" => job[s] # NoJob
        /\ pc[s] = "idle" => job[s] = NoJob /\ count[s] = 0
        /\ job[s] # NoJob => txRow[s] # NoRow \/ checkpoint[job[s]] # NoRow
        /\ job[s] = NoJob => txRow[s] = NoRow

TypeInv == TypeOK /\ Shape

LEMMA ChunkFromIsRange ==
    ASSUME NEW j \in Jobs, NEW d \in Day, d <= End[j]
    PROVE  /\ ChunkFrom(j, d) \in Range
           /\ ChunkFrom(j, d).from = d /\ d <= ChunkFrom(j, d).to
           /\ ChunkFrom(j, d).to <= End[j]
<1>1. Size[j] \in Nat \ {0} /\ End[j] \in Day /\ LastDay \in Nat
  BY JobsAssumption
<1>2. EarlierOf(d + Size[j] - 1, End[j]) \in d .. End[j]
  BY <1>1 DEF EarlierOf, Day
<1> QED
  BY <1>1, <1>2 DEF ChunkFrom, Range, Day

\* A request with a checkpoint reads a row of its own or a committed one.
LEMMA CurrentRowIsRow ==
    ASSUME TypeInv, NEW s \in Sessions, job[s] # NoJob
    PROVE  CurrentRow(s) \in Row /\ job[s] \in Jobs
  BY DEF TypeInv, TypeOK, Shape, CurrentRow

LEMMA AdvancedRow ==
    ASSUME NEW r \in Row, NEW d \in 0 .. LastDay, NEW n \in Nat
    PROVE  [r EXCEPT !.through = d, !.completed = n] \in Row
<1> DEFINE moved == [r EXCEPT !.through = d]
<1>1. moved \in Row
  BY DEF Row
<1> HIDE DEF moved
<1>2. [moved EXCEPT !.completed = n] \in Row
  BY <1>1 DEF Row
<1> QED
  BY <1>2 DEF moved

\* The outcomes of a step are three ways to write the same locals.
Execute(s) ==
    /\ pc[s] = "exec"
    /\ \E result \in {"SUCCESS", "FAIL"} : Executed(s, result)
    /\ processed' \in {processed, processed \cup Days(chunk[s])}
    /\ cancelled' \in {cancelled, cancelled \cup Days(chunk[s])}

LEMMA ExecuteCases ==
    ASSUME NEW s, ExecuteOk(s) \/ ExecuteFail(s) \/ ExecuteCancelled(s)
    PROVE  Execute(s)
  BY DEF ExecuteOk, ExecuteFail, ExecuteCancelled, Execute

LEMMA TypeInit == Init => TypeInv
  BY JobsAssumption DEF Init, TypeInv, TypeOK, Shape

LEMMA TypeStep == TypeInv /\ [Next]_vars => TypeInv'
<1> SUFFICES ASSUME TypeInv, [Next]_vars
             PROVE  TypeInv'
  OBVIOUS
<1> USE DEF TypeInv, TypeOK, Shape, world
<1>1. ASSUME NEW s \in Sessions, NEW j \in Jobs, StartChunked(s, j)
      PROVE  TypeInv'
  <2>1. ChunkFrom(j, Start[j]) \in Range
    BY JobsAssumption, ChunkFromIsRange
  <2>2. [status |-> "RUNNING", through |-> Start[j] - 1, completed |-> 0] \in Row
    BY JobsAssumption DEF Row, Day
  <2>3. j # NoJob
    BY JobsAssumption
  <2> DEFINE c == ChunkFrom(j, Start[j])
             row == [status |-> "RUNNING", through |-> Start[j] - 1, completed |-> 0]
  <2>4. /\ pc' = [pc EXCEPT ![s] = "lock"] /\ job' = [job EXCEPT ![s] = j]
        /\ chunk' = [chunk EXCEPT ![s] = c] /\ txRow' = [txRow EXCEPT ![s] = row]
        /\ UNCHANGED <<db, world, count, status, txMarks, txAudit, txKeys, txLocks, txPlans>>
    BY <1>1 DEF StartChunked
  <2>5. c \in Range /\ row \in Row /\ row # NoRow
    BY <2>1, <2>2, NoRowAssumption
  <2> HIDE DEF c, row
  <2>6. TypeOK'
    BY <2>4, <2>5 DEF db
  <2>7. Shape'
    BY <2>3, <2>4, <2>5 DEF db
  <2> QED
    BY <2>6, <2>7
<1>2. ASSUME NEW s \in Sessions, NEW j \in Jobs, Resume(s, j)
      PROVE  TypeInv'
  <2> DEFINE first == checkpoint[j].through + 1
             c == ChunkFrom(j, first)
  <2>1. checkpoint[j] \in Row
    BY <1>2 DEF Resume
  <2>2. first <= End[j] => c \in Range
    <3>1. first <= End[j] => first \in Day
      BY <2>1, JobsAssumption DEF Row, Day
    <3> QED
      BY <3>1, ChunkFromIsRange
  <2>3. checkpoint[j].completed \in Nat
    BY <2>1 DEF Row
  <2>4. /\ \/ first > End[j] /\ pc' = [pc EXCEPT ![s] = "finish"] /\ chunk' = chunk
           \/ ~(first > End[j]) /\ pc' = [pc EXCEPT ![s] = "lock"] /\ chunk' = [chunk EXCEPT ![s] = c]
        /\ job' = [job EXCEPT ![s] = j]
        /\ count' = [count EXCEPT ![s] = checkpoint[j].completed]
        /\ checkpoint[j] # NoRow
        /\ UNCHANGED <<db, world, status, tx>>
    BY <1>2 DEF Resume
  <2>5. first \in Nat /\ End[j] \in Nat /\ j # NoJob
    BY <2>1, JobsAssumption DEF Row, Day
  <2> HIDE DEF first, c
  <2>6. TypeOK'
    BY <2>2, <2>3, <2>4, <2>5 DEF db, tx
  <2>7. Shape'
    BY <2>2, <2>4, <2>5 DEF db, tx
  <2> QED
    BY <2>6, <2>7
<1>3. ASSUME NEW s \in Sessions, AcquireLock(s)
      PROVE  TypeInv'
  <2> DEFINE c == chunk[s]
             row == [CurrentRow(s) EXCEPT !.status = "FAILED"]
             answer == [job |-> job[s], chunk |-> c, status |-> "FAILED"]
  <2>1. c \in Range /\ row \in Row /\ answer \in AuditRow /\ row # NoRow
    BY <1>3, CurrentRowIsRow, NoRowAssumption DEF AcquireLock, Row, AuditRow
  <2>2. /\ \/ /\ txAudit' = [txAudit EXCEPT ![s] = @ \cup {answer}]
              /\ txRow' = [txRow EXCEPT ![s] = row]
              /\ pc' = [pc EXCEPT ![s] = "commit"]
              /\ UNCHANGED <<txKeys, txLocks>>
           \/ /\ txKeys' = [txKeys EXCEPT ![s] = @ \cup {c}]
              /\ txLocks' = [txLocks EXCEPT ![s] = @ \cup {c}]
              /\ pc' = [pc EXCEPT ![s] = "exec"]
              /\ UNCHANGED <<txAudit, txRow>>
        /\ UNCHANGED <<db, world, job, chunk, count, status, txMarks, txPlans>>
        /\ pc[s] = "lock" /\ job[s] # NoJob
    BY <1>3 DEF AcquireLock
  <2> HIDE DEF c, row, answer
  <2>3. TypeOK'
    BY <2>1, <2>2 DEF db
  <2>4. Shape'
    BY <2>1, <2>2 DEF db
  <2> QED
    BY <2>3, <2>4
<1>4. ASSUME NEW s \in Sessions, Execute(s)
      PROVE  TypeInv'
  <2>1. Days(chunk[s]) \subseteq Day
    BY <1>4, JobsAssumption DEF Execute, Days, Range, Day
  <2>2. PICK result \in {"SUCCESS", "FAIL"} :
            /\ status' = [status EXCEPT ![s] = result]
            /\ pc' = [pc EXCEPT ![s] = "record"]
            /\ UNCHANGED <<db, job, chunk, count, tx>>
    BY <1>4 DEF Execute, Executed
  <2>3. processed' \subseteq Day /\ cancelled' \subseteq Day
    BY <1>4, <2>1 DEF Execute
  <2>4. TypeOK'
    BY <2>2, <2>3 DEF db, tx
  <2>5. Shape'
    BY <1>4, <2>2 DEF db, tx, Execute
  <2> QED
    BY <2>4, <2>5
<1>5. ASSUME NEW s \in Sessions, RecordSuccess(s)
      PROVE  TypeInv'
  <2> DEFINE c == chunk[s]
             next == ChunkFrom(job[s], chunk[s].to + 1)
             row == [CurrentRow(s) EXCEPT !.through = chunk[s].to, !.completed = count[s] + 1]
             answer == [job |-> job[s], chunk |-> c, status |-> "SUCCESS"]
  <2>1. c \in Range /\ answer \in AuditRow /\ row \in Row /\ row # NoRow
    <3>1. c \in Range /\ job[s] \in Jobs /\ count[s] \in Nat /\ CurrentRow(s) \in Row
      BY <1>5, CurrentRowIsRow DEF RecordSuccess
    <3>2. c.to \in 0 .. LastDay /\ count[s] + 1 \in Nat
      BY <3>1, JobsAssumption DEF Range, Day
    <3>3. row \in Row
      BY <3>1, <3>2, AdvancedRow, Zenon
    <3> QED
      BY <3>1, <3>3, NoRowAssumption DEF AuditRow
  <2>2. chunk[s].to < End[job[s]] => next \in Range
    <3>1. job[s] \in Jobs /\ chunk[s].to \in Day
      BY <1>5, <2>1 DEF RecordSuccess, Range
    <3>2. chunk[s].to < End[job[s]] => chunk[s].to + 1 \in Day /\ chunk[s].to + 1 <= End[job[s]]
      BY <3>1, JobsAssumption DEF Day
    <3> QED
      BY <3>1, <3>2, ChunkFromIsRange
  <2>3. /\ txMarks' = [txMarks EXCEPT ![s] = @ \cup {c}]
        /\ txAudit' = [txAudit EXCEPT ![s] = @ \cup {answer}]
        /\ count' = [count EXCEPT ![s] = @ + 1]
        /\ txRow' = [txRow EXCEPT ![s] = row]
        /\ txLocks' = [txLocks EXCEPT ![s] = @ \ {c}]
        /\ \/ chunk[s].to < End[job[s]] /\ chunk' = [chunk EXCEPT ![s] = next]
                                       /\ pc' = [pc EXCEPT ![s] = "lock"]
           \/ pc' = [pc EXCEPT ![s] = "finish"] /\ chunk' = chunk
        /\ status' = [status EXCEPT ![s] = "none"]
        /\ UNCHANGED <<db, world, job, txKeys, txPlans>>
        /\ job[s] # NoJob
    BY <1>5 DEF RecordSuccess, ReleaseLock
  <2> HIDE DEF c, next, row, answer
  <2>4. chunk' \in [Sessions -> Range \cup {NoChunk}] /\ txRow' \in [Sessions -> Row \cup {NoRow}]
    BY <2>1, <2>2, <2>3
  <2>5. TypeOK'
    <3>1. /\ txMarks' \in [Sessions -> SUBSET Range] /\ txAudit' \in [Sessions -> SUBSET AuditRow]
          /\ txLocks' \in [Sessions -> SUBSET Range]
      BY <2>1, <2>3
    <3>2. count' \in [Sessions -> Nat]
      BY <2>3
    <3>3. pc' \in [Sessions -> {"idle", "lock", "exec", "record", "finish", "commit"}]
      BY <2>3
    <3>4. status' \in [Sessions -> {"none", "SUCCESS", "FAIL"}]
      BY <2>3
    <3> QED
      BY <2>3, <2>4, <3>1, <3>2, <3>3, <3>4 DEF db
  <2>6. Shape'
    BY <2>1, <2>2, <2>3 DEF db
  <2> QED
    BY <2>5, <2>6
<1>6. ASSUME NEW s \in Sessions, RecordFailure(s)
      PROVE  TypeInv'
  <2> DEFINE c == chunk[s]
             row == [CurrentRow(s) EXCEPT !.status = "FAILED"]
             answer == [job |-> job[s], chunk |-> c, status |-> "FAILED"]
  <2>1. c \in Range /\ row \in Row /\ answer \in AuditRow /\ row # NoRow
    BY <1>6, CurrentRowIsRow, NoRowAssumption DEF RecordFailure, Row, AuditRow
  <2>2. /\ txAudit' = [txAudit EXCEPT ![s] = @ \cup {answer}]
        /\ txRow' = [txRow EXCEPT ![s] = row]
        /\ txLocks' = [txLocks EXCEPT ![s] = @ \ {c}]
        /\ pc' = [pc EXCEPT ![s] = "commit"]
        /\ UNCHANGED <<db, world, job, chunk, count, status, txMarks, txKeys, txPlans>>
        /\ job[s] # NoJob
    BY <1>6 DEF RecordFailure, ReleaseLock
  <2> HIDE DEF c, row, answer
  <2>3. TypeOK'
    BY <2>1, <2>2 DEF db
  <2>4. Shape'
    BY <2>1, <2>2 DEF db
  <2> QED
    BY <2>3, <2>4
<1>7. ASSUME NEW s \in Sessions, MarkCompleted(s)
      PROVE  TypeInv'
  <2> DEFINE row == [CurrentRow(s) EXCEPT !.status = "COMPLETED"]
  <2>1. row \in Row /\ row # NoRow
    BY <1>7, CurrentRowIsRow, NoRowAssumption DEF MarkCompleted, Row
  <2>2. /\ txRow' = [txRow EXCEPT ![s] = row]
        /\ pc' = [pc EXCEPT ![s] = "commit"]
        /\ UNCHANGED <<db, world, job, chunk, count, status, txMarks, txAudit, txKeys,
                       txLocks, txPlans>>
        /\ job[s] # NoJob
    BY <1>7 DEF MarkCompleted
  <2> HIDE DEF row
  <2> QED
    BY <2>1, <2>2 DEF db
<1>8. ASSUME NEW s \in Sessions, NEW r \in Singles, StartSingle(s, r)
      PROVE  TypeInv'
  BY <1>8, JobsAssumption DEF StartSingle, db, tx
<1>9. ASSUME NEW s \in Sessions, Rollback(s)
      PROVE  TypeInv'
  BY <1>9 DEF Rollback, EndTransaction, db
<1>10. ASSUME NEW s \in Sessions, LockAndSavePlan(s), ~Rollback(s)
       PROVE  TypeInv'
  <2>1. /\ txKeys' = [txKeys EXCEPT ![s] = @ \cup {chunk[s]}]
        /\ txLocks' = [txLocks EXCEPT ![s] = @ \cup ({chunk[s]} \ locks)]
        /\ txPlans' = [txPlans EXCEPT ![s] = {chunk[s]}]
        /\ pc' = [pc EXCEPT ![s] = "exec"]
        /\ UNCHANGED <<db, world, job, chunk, count, status, txRow, txMarks, txAudit>>
        /\ chunk[s] \in Range
    BY <1>10 DEF LockAndSavePlan
  <2> QED
    BY <2>1 DEF db
<1>11. ASSUME NEW s \in Sessions, RecordSingle(s)
       PROVE  TypeInv'
  <2>1. chunk[s] \in Range
    BY <1>11 DEF RecordSingle
  <2>2. TypeOK'
    BY <1>11, <2>1 DEF RecordSingle, ReleaseLock, db
  <2>3. Shape'
    BY <1>11 DEF RecordSingle, ReleaseLock, db
  <2> QED
    BY <2>2, <2>3
<1>12. ASSUME NEW s \in Sessions, Commit(s)
       PROVE  TypeInv'
  <2>1. checkpoint' \in [Jobs -> Row \cup {NoRow}]
    BY <1>12 DEF Commit
  <2>2. \A j \in Jobs : checkpoint[j] # NoRow => checkpoint'[j] # NoRow
    BY <1>12 DEF Commit
  <2>3. TypeOK'
    BY <1>12, <2>1 DEF Commit, EndTransaction
  <2>4. Shape'
    BY <1>12, <2>2 DEF Commit, EndTransaction
  <2> QED
    BY <2>3, <2>4
<1>13. CASE UNCHANGED vars
  BY <1>13 DEF vars, db, locals, tx
<1> QED
  BY <1>1, <1>2, <1>3, <1>4, <1>5, <1>6, <1>7, <1>8, <1>9, <1>10, <1>11, <1>12, <1>13,
     ExecuteCases
  DEF Next, Step, LockTimeout, Crash, RefuseRun

LEMMA TypeAlways == Spec => []TypeInv
  BY TypeInit, TypeStep, PTL DEF Spec

\* Every reachable state is well typed.
THEOREM TypeCorrect == Spec => []TypeOK
<1>1. TypeInv => TypeOK
  BY DEF TypeInv
<1> QED
  BY <1>1, TypeAlways, PTL

-----------------------------------------------------------------------------
(* Locks.                                                                  *)

\* A request executes a chunk whose key it has inserted, and deletes the lock row
\* before it goes on to the next; an inserted key belongs to one transaction.
LockInv ==
    /\ locks = {}
    /\ \A s \in Sessions :
          /\ pc[s] = "exec" => chunk[s] \in txKeys[s]
          /\ txLocks[s] \subseteq {chunk[s]}
          /\ pc[s] \notin {"exec", "record"} => txLocks[s] = {}
    /\ \A s, t \in Sessions : s # t => txKeys[s] \cap txKeys[t] = {}

LEMMA LockStep == TypeInv /\ LockInv /\ [Next]_vars => LockInv'
<1> SUFFICES ASSUME TypeInv, LockInv, [Next]_vars
             PROVE  LockInv'
  OBVIOUS
<1>0. /\ pc \in [Sessions -> {"idle", "lock", "exec", "record", "finish", "commit"}]
      /\ chunk \in [Sessions -> Range \cup {NoChunk}]
      /\ txKeys \in [Sessions -> SUBSET Range] /\ txLocks \in [Sessions -> SUBSET Range]
  BY DEF TypeInv, TypeOK
<1> USE DEF LockInv
<1>1. ASSUME NEW s \in Sessions, NEW j \in Jobs, StartChunked(s, j)
      PROVE  LockInv'
  BY <1>0, <1>1 DEF StartChunked, db
<1>2. ASSUME NEW s \in Sessions, NEW j \in Jobs, Resume(s, j)
      PROVE  LockInv'
  BY <1>0, <1>2 DEF Resume, db, tx
<1>3. ASSUME NEW s \in Sessions, AcquireLock(s)
      PROVE  LockInv'
  BY <1>0, <1>3 DEF AcquireLock, KeyFree, db
<1>4. ASSUME NEW s \in Sessions, Execute(s)
      PROVE  LockInv'
  BY <1>0, <1>4 DEF Execute, Executed, db, tx
<1>5. ASSUME NEW s \in Sessions, RecordSuccess(s)
      PROVE  LockInv'
  <2>1. /\ txLocks' = [txLocks EXCEPT ![s] = @ \ {chunk[s]}]
        /\ \A t \in Sessions \ {s} : chunk'[t] = chunk[t] /\ pc'[t] = pc[t]
        /\ pc'[s] \in {"lock", "finish"}
        /\ UNCHANGED <<locks, txKeys>>
    BY <1>0, <1>5 DEF RecordSuccess, ReleaseLock, db
  <2>2. txLocks'[s] = {}
    BY <1>0, <2>1
  <2> QED
    BY <1>0, <2>1, <2>2
<1>6. ASSUME NEW s \in Sessions, RecordFailure(s)
      PROVE  LockInv'
  BY <1>0, <1>6 DEF RecordFailure, ReleaseLock, db
<1>7. ASSUME NEW s \in Sessions, MarkCompleted(s)
      PROVE  LockInv'
  BY <1>0, <1>7 DEF MarkCompleted, db
<1>8. ASSUME NEW s \in Sessions, NEW r \in Singles, StartSingle(s, r)
      PROVE  LockInv'
  BY <1>0, <1>8 DEF StartSingle, db, tx
<1>9. ASSUME NEW s \in Sessions, EndTransaction(s), locks' = {}
      PROVE  LockInv'
  BY <1>0, <1>9 DEF EndTransaction
<1>10. ASSUME NEW s \in Sessions, LockAndSavePlan(s), ~Rollback(s)
       PROVE  LockInv'
  BY <1>0, <1>10 DEF LockAndSavePlan, KeyFree, db
<1>11. ASSUME NEW s \in Sessions, RecordSingle(s)
       PROVE  LockInv'
  BY <1>0, <1>11 DEF RecordSingle, ReleaseLock, db
<1>12. ASSUME NEW s \in Sessions, Commit(s)
       PROVE  LockInv'
  <2>1. locks' = {}
    BY <1>0, <1>12 DEF Commit
  <2> QED
    BY <1>9, <1>12, <2>1 DEF Commit
<1>13. CASE UNCHANGED vars
  BY <1>13 DEF vars, db, locals, tx
<1> QED
  BY <1>1, <1>2, <1>3, <1>4, <1>5, <1>6, <1>7, <1>8, <1>9, <1>10, <1>11, <1>12, <1>13,
     ExecuteCases
  DEF Next, Step, LockTimeout, Crash, RefuseRun, Rollback, db

LEMMA LockAlways == Spec => []LockInv
<1>1. Init => LockInv
  BY DEF Init, LockInv
<1> QED
  BY <1>1, LockStep, TypeAlways, PTL DEF Spec

\* No lock row outlives its request.
THEOREM LocksAreReleased == Spec => []NoOrphanLock
<1>1. LockInv => NoOrphanLock
  BY DEF LockInv, NoOrphanLock
<1> QED
  BY <1>1, LockAlways, PTL

-----------------------------------------------------------------------------
(* Records.                                                                *)

\* What a request has written and not committed is as true as what is committed.
RecordsInv ==
    /\ \A r \in watermarks : Days(r) \subseteq Answered
    /\ \A a \in audit : a.status = "SUCCESS" => Days(a.chunk) \subseteq Answered
    /\ \A s \in Sessions :
          /\ \A r \in txMarks[s] : Days(r) \subseteq Answered
          /\ \A a \in txAudit[s] : a.status = "SUCCESS" => Days(a.chunk) \subseteq Answered
          /\ pc[s] = "record" /\ status[s] = "SUCCESS" => Days(chunk[s]) \subseteq Answered

LEMMA RecordsStep == TypeInv /\ RecordsInv /\ [Next]_vars => RecordsInv'
<1> SUFFICES ASSUME TypeInv, RecordsInv, [Next]_vars
             PROVE  RecordsInv'
  OBVIOUS
<1>0. /\ pc \in [Sessions -> {"idle", "lock", "exec", "record", "finish", "commit"}]
      /\ chunk \in [Sessions -> Range \cup {NoChunk}]
      /\ status \in [Sessions -> {"none", "SUCCESS", "FAIL"}]
      /\ txMarks \in [Sessions -> SUBSET Range] /\ txAudit \in [Sessions -> SUBSET AuditRow]
  BY DEF TypeInv, TypeOK
<1> USE DEF RecordsInv, Answered, world
<1>1. ASSUME NEW s \in Sessions, NEW j \in Jobs, StartChunked(s, j)
      PROVE  RecordsInv'
  BY <1>0, <1>1 DEF StartChunked, db
<1>2. ASSUME NEW s \in Sessions, NEW j \in Jobs, Resume(s, j)
      PROVE  RecordsInv'
  <2>1. /\ UNCHANGED <<watermarks, audit, Answered, txMarks, txAudit, status>>
        /\ pc'[s] # "record"
        /\ \A t \in Sessions \ {s} : pc'[t] = pc[t] /\ chunk'[t] = chunk[t]
    BY <1>0, <1>2 DEF Resume, db, tx
  <2> QED
    BY <1>0, <2>1
<1>3. ASSUME NEW s \in Sessions, AcquireLock(s)
      PROVE  RecordsInv'
  <2>1. /\ UNCHANGED <<watermarks, audit, Answered, txMarks, status, chunk>>
        /\ pc'[s] # "record"
        /\ \A t \in Sessions \ {s} : pc'[t] = pc[t] /\ txAudit'[t] = txAudit[t]
        /\ \A a \in txAudit'[s] : a \in txAudit[s] \/ a.status = "FAILED"
    BY <1>0, <1>3 DEF AcquireLock, db
  <2> QED
    BY <1>0, <2>1
<1>4. ASSUME NEW s \in Sessions, ExecuteOk(s) \/ ExecuteFail(s) \/ ExecuteCancelled(s)
      PROVE  RecordsInv'
  BY <1>0, <1>4 DEF ExecuteOk, ExecuteFail, ExecuteCancelled, Executed, db, tx
<1>5. ASSUME NEW s \in Sessions, RecordSuccess(s)
      PROVE  RecordsInv'
  <2> DEFINE c == chunk[s]
             answer == [job |-> job[s], chunk |-> c, status |-> "SUCCESS"]
  <2>1. Days(c) \subseteq Answered /\ answer.chunk = c
    BY <1>5 DEF RecordSuccess
  <2>2. /\ txMarks' = [txMarks EXCEPT ![s] = @ \cup {c}]
        /\ txAudit' = [txAudit EXCEPT ![s] = @ \cup {answer}]
        /\ UNCHANGED <<watermarks, audit, Answered>>
        /\ pc'[s] # "record"
        /\ \A t \in Sessions \ {s} : pc'[t] = pc[t] /\ chunk'[t] = chunk[t]
                                     /\ status'[t] = status[t]
    BY <1>0, <1>5 DEF RecordSuccess, db
  <2> HIDE DEF c, answer
  <2> QED
    BY <1>0, <2>1, <2>2
<1>6. ASSUME NEW s \in Sessions, RecordFailure(s)
      PROVE  RecordsInv'
  <2>1. /\ UNCHANGED <<watermarks, audit, Answered, txMarks, status, chunk>>
        /\ pc' = [pc EXCEPT ![s] = "commit"]
        /\ \A t \in Sessions \ {s} : txAudit'[t] = txAudit[t]
        /\ \A a \in txAudit'[s] : a \in txAudit[s] \/ a.status = "FAILED"
    BY <1>0, <1>6 DEF RecordFailure, db
  <2> QED
    BY <1>0, <2>1
<1>7. ASSUME NEW s \in Sessions, MarkCompleted(s)
      PROVE  RecordsInv'
  BY <1>0, <1>7 DEF MarkCompleted, db
<1>8. ASSUME NEW s \in Sessions, NEW r \in Singles, StartSingle(s, r)
      PROVE  RecordsInv'
  BY <1>0, <1>8 DEF StartSingle, db, tx
<1>9. ASSUME NEW s \in Sessions, Rollback(s)
      PROVE  RecordsInv'
  BY <1>0, <1>9 DEF Rollback, EndTransaction, db
<1>10. ASSUME NEW s \in Sessions, LockAndSavePlan(s), ~Rollback(s)
       PROVE  RecordsInv'
  BY <1>0, <1>10 DEF LockAndSavePlan, db
<1>11. ASSUME NEW s \in Sessions, RecordSingle(s)
       PROVE  RecordsInv'
  BY <1>0, <1>11 DEF RecordSingle, db
<1>12. ASSUME NEW s \in Sessions, Commit(s)
       PROVE  RecordsInv'
  BY <1>0, <1>12 DEF Commit, EndTransaction
<1>13. CASE UNCHANGED vars
  BY <1>13 DEF vars, db, locals, tx
<1> QED
  BY <1>1, <1>2, <1>3, <1>4, <1>5, <1>6, <1>7, <1>8, <1>9, <1>10, <1>11, <1>12, <1>13
  DEF Next, Step, LockTimeout, Crash, RefuseRun

LEMMA RecordsAlways == Spec => []RecordsInv
<1>1. Init => RecordsInv
  BY DEF Init, RecordsInv
<1>2. TypeInv /\ RecordsInv /\ [Next]_vars => RecordsInv'
  BY RecordsStep
<1> QED
  BY <1>1, <1>2, TypeAlways, PTL DEF Spec

\* What the state store says was done was executed, or cancelled in the workspace.
THEOREM RecordsAreTrue == Spec => []RecordsTrue
<1>1. RecordsInv => RecordsTrue
  BY DEF RecordsInv, RecordsTrue, Covered, Successes
<1>2. Spec => []RecordsInv
  BY RecordsAlways
<1> QED
  BY <1>1, <1>2, PTL

-----------------------------------------------------------------------------
(* The ledger.                                                             *)

\* What a request of a backfill has marked is what it has a SUCCESS row of, and
\* its rows are of its backfill; a request of a single range writes no row.
PostInv ==
    \A s \in Sessions :
        /\ pc[s] = "idle" => txMarks[s] = {} /\ txAudit[s] = {}
        /\ \A a \in txAudit[s] :
              a.job = job[s] /\ (a.status = "SUCCESS" => a.chunk \in txMarks[s])
        /\ job[s] # NoJob =>
              \A m \in txMarks[s] : \E a \in txAudit[s] : a.chunk = m /\ a.status = "SUCCESS"

LEMMA PostStep == TypeInv /\ PostInv /\ [Next]_vars => PostInv'
<1> SUFFICES ASSUME TypeInv, PostInv, [Next]_vars
             PROVE  PostInv'
  OBVIOUS
<1>0. /\ pc \in [Sessions -> {"idle", "lock", "exec", "record", "finish", "commit"}]
      /\ job \in [Sessions -> Jobs \cup {NoJob}]
      /\ txMarks \in [Sessions -> SUBSET Range] /\ txAudit \in [Sessions -> SUBSET AuditRow]
      /\ NoJob \notin Jobs
  BY JobsAssumption DEF TypeInv, TypeOK
<1>1. \A s \in Sessions : job[s] = NoJob => txAudit[s] = {}
  BY <1>0 DEF PostInv, AuditRow
<1> USE DEF PostInv
<1>2. ASSUME NEW s \in Sessions, NEW j \in Jobs, StartChunked(s, j) \/ Resume(s, j)
      PROVE  PostInv'
  <2>1. /\ pc[s] = "idle" /\ pc'[s] # "idle" /\ UNCHANGED <<txMarks, txAudit>>
        /\ \A t \in Sessions \ {s} : pc'[t] = pc[t] /\ job'[t] = job[t]
    BY <1>0, <1>2 DEF StartChunked, Resume, tx
  <2> QED
    BY <1>0, <2>1
<1>3. ASSUME NEW s \in Sessions, AcquireLock(s) \/ RecordFailure(s)
      PROVE  PostInv'
  <2>1. /\ pc[s] # "idle" /\ pc'[s] # "idle" /\ UNCHANGED <<job, txMarks>>
        /\ \A t \in Sessions \ {s} : pc'[t] = pc[t] /\ txAudit'[t] = txAudit[t]
        /\ txAudit[s] \subseteq txAudit'[s]
        /\ \A a \in txAudit'[s] : a \in txAudit[s] \/ (a.job = job[s] /\ a.status = "FAILED")
    BY <1>0, <1>3 DEF AcquireLock, RecordFailure
  <2> QED
    BY <1>0, <2>1
<1>4. ASSUME NEW s \in Sessions, Execute(s) \/ MarkCompleted(s)
      PROVE  PostInv'
  <2>1. /\ pc[s] # "idle" /\ pc'[s] # "idle" /\ UNCHANGED <<job, txMarks, txAudit>>
        /\ \A t \in Sessions \ {s} : pc'[t] = pc[t]
    BY <1>0, <1>4 DEF Execute, Executed, MarkCompleted, tx
  <2> QED
    BY <1>0, <2>1
<1>5. ASSUME NEW s \in Sessions, RecordSuccess(s)
      PROVE  PostInv'
  <2> DEFINE c == chunk[s]
             answer == [job |-> job[s], chunk |-> c, status |-> "SUCCESS"]
  <2>1. answer.chunk = c /\ answer.job = job[s] /\ answer.status = "SUCCESS"
    OBVIOUS
  <2>2. /\ txMarks' = [txMarks EXCEPT ![s] = @ \cup {c}]
        /\ txAudit' = [txAudit EXCEPT ![s] = @ \cup {answer}]
        /\ job' = job /\ pc'[s] # "idle"
        /\ \A t \in Sessions \ {s} : pc'[t] = pc[t]
    BY <1>0, <1>5 DEF RecordSuccess
  <2> HIDE DEF c, answer
  <2> QED
    BY <1>0, <2>1, <2>2
<1>6. ASSUME NEW s \in Sessions, NEW r \in Singles, StartSingle(s, r)
      PROVE  PostInv'
  <2>1. /\ pc'[s] # "idle" /\ UNCHANGED <<job, txMarks, txAudit>>
        /\ \A t \in Sessions \ {s} : pc'[t] = pc[t]
    BY <1>0, <1>6 DEF StartSingle, tx
  <2> QED
    BY <1>0, <2>1
<1>7. ASSUME NEW s \in Sessions, EndTransaction(s)
      PROVE  PostInv'
  BY <1>0, <1>7 DEF EndTransaction
<1>8. ASSUME NEW s \in Sessions, (LockAndSavePlan(s) /\ ~Rollback(s)) \/ RecordSingle(s)
      PROVE  PostInv'
  <2>1. /\ job[s] = NoJob /\ UNCHANGED <<job, txAudit>> /\ pc'[s] # "idle"
        /\ \A t \in Sessions \ {s} : pc'[t] = pc[t] /\ txMarks'[t] = txMarks[t]
    BY <1>0, <1>8 DEF LockAndSavePlan, RecordSingle
  <2> QED
    BY <1>0, <1>1, <2>1
<1>9. CASE UNCHANGED vars
  <2>1. UNCHANGED <<pc, job, txMarks, txAudit>>
    BY <1>9 DEF vars, locals, tx
  <2> QED
    BY <2>1
<1> QED
  BY <1>2, <1>3, <1>4, <1>5, <1>6, <1>7, <1>8, <1>9, ExecuteCases
  DEF Next, Step, LockTimeout, Crash, RefuseRun, Rollback, Commit

\* What a transaction posts: the days it marks, and for its backfill their rows.
LEMMA CommitPosts ==
    ASSUME TypeInv, RecordsInv, PostInv, NEW s \in Sessions, Commit(s)
    PROVE  Store!Post(Covered(txMarks[s]), {job[s]} \cap Jobs)
<1> DEFINE work == Covered(txMarks[s])
<1>1. /\ watermarks' = watermarks \cup txMarks[s] /\ audit' = audit \cup txAudit[s]
      /\ Answered' = Answered
  BY DEF Commit, world, Answered
<1>2. work \subseteq Answered
  BY DEF RecordsInv, Covered
<1>3. Covered(watermarks)' = Covered(watermarks) \cup work
  BY <1>1 DEF Covered
<1>4. Covered(watermarks)' = Covered(watermarks) \cup (work \cap Day)
  <2>1. txMarks[s] \subseteq Range
    BY DEF TypeInv, TypeOK
  <2>2. \A m \in Range : Days(m) \subseteq Day
    BY JobsAssumption DEF Range, Days, Day
  <2>3. work \subseteq Day
    BY <2>1, <2>2 DEF Covered
  <2> QED
    BY <1>3, <2>3
<1>5. ASSUME NEW j \in Jobs
      PROVE  Covered(Successes(j))' =
                 IF j \in {job[s]} \cap Jobs THEN Covered(Successes(j)) \cup work
                                             ELSE Covered(Successes(j))
  <2>1. CASE j = job[s]
    <3>1. job[s] # NoJob
      BY <2>1, JobsAssumption
    <3>2. \A m : m \in txMarks[s] <=>
              \E a \in txAudit[s] : a.job = j /\ a.status = "SUCCESS" /\ a.chunk = m
      BY <2>1, <3>1 DEF PostInv
    <3>3. Successes(j)' = Successes(j) \cup txMarks[s]
      BY <1>1, <3>2 DEF Successes
    <3>4. Covered(Successes(j))' = Covered(Successes(j)) \cup work
      BY <3>3 DEF Covered
    <3> QED
      BY <2>1, <3>4
  <2>2. CASE j # job[s]
    <3>1. \A a \in txAudit[s] : a.job # j
      BY <2>2 DEF PostInv
    <3>2. Successes(j)' = Successes(j)
      BY <1>1, <3>1 DEF Successes
    <3> QED
      BY <2>2, <3>2 DEF Covered
  <2> QED
    BY <2>1, <2>2
<1> HIDE DEF work
<1>6. [j \in Jobs |-> Covered(Successes(j))]' =
          [j \in Jobs |-> IF j \in {job[s]} \cap Jobs
                          THEN [i \in Jobs |-> Covered(Successes(i))][j] \cup work
                          ELSE [i \in Jobs |-> Covered(Successes(i))][j]]
  BY <1>5
<1>7. Store!Post(work, {job[s]} \cap Jobs)
  BY <1>1, <1>2, <1>3, <1>4, <1>6 DEF Store!Post
<1> QED
  BY <1>7 DEF work

\* Every step of Backfill is one of Ledger or changes nothing of what it shows.
LEMMA StoreStep ==
    TypeInv /\ RecordsInv /\ PostInv /\ [Next]_vars => [Store!Next]_(Store!vars)
<1> SUFFICES ASSUME TypeInv, RecordsInv, PostInv, [Next]_vars
             PROVE  [Store!Next]_(Store!vars)
  OBVIOUS
<1>1. ASSUME UNCHANGED <<watermarks, audit, Answered>>
      PROVE  UNCHANGED Store!vars
  BY <1>1 DEF Store!vars, Covered, Successes
<1>2. ASSUME NEW s \in Sessions, Commit(s)
      PROVE  Store!Next
  <2>1. Covered(txMarks[s]) \in SUBSET Answered
    BY DEF RecordsInv, Covered
  <2>2. {job[s]} \cap Jobs \in {{}} \cup {{j} : j \in Jobs}
    <3>1. CASE job[s] \in Jobs
      <4>1. {job[s]} \cap Jobs = {job[s]}
        BY <3>1
      <4> QED
        BY <3>1, <4>1
    <3>2. CASE job[s] \notin Jobs
      <4>1. {job[s]} \cap Jobs = {}
        BY <3>2
      <4> QED
        BY <4>1
    <3> QED
      BY <3>1, <3>2
  <2> QED
    BY <1>2, <2>1, <2>2, CommitPosts DEF Store!Next
<1>3. ASSUME NEW s \in Sessions, ExecuteOk(s) \/ ExecuteFail(s) \/ ExecuteCancelled(s)
      PROVE  Store!Next
  <2>1. Days(chunk[s]) \subseteq Day
    BY <1>3, JobsAssumption
    DEF TypeInv, TypeOK, Shape, ExecuteOk, ExecuteFail, ExecuteCancelled, Range, Days, Day
  <2>2. /\ UNCHANGED <<watermarks, audit>>
        /\ \/ Answered' = Answered \cup Days(chunk[s])
           \/ Answered' = Answered \cup {}
    BY <1>3 DEF ExecuteOk, ExecuteFail, ExecuteCancelled, Executed, db, Answered
  <2>3. \E work \in SUBSET Day : Answered' = Answered \cup work
    BY <2>1, <2>2
  <2>4. Store!Answer
    BY <2>2, <2>3 DEF Store!Answer, Covered, Successes
  <2> QED
    BY <2>4 DEF Store!Next
<1>4. ASSUME NEW s \in Sessions,
             \/ Rollback(s)
             \/ \E j \in Jobs : StartChunked(s, j) \/ Resume(s, j)
             \/ \E r \in Singles : StartSingle(s, r)
             \/ AcquireLock(s) \/ LockAndSavePlan(s)
             \/ RecordSuccess(s) \/ RecordFailure(s) \/ RecordSingle(s) \/ MarkCompleted(s)
      PROVE  UNCHANGED <<watermarks, audit, Answered>>
  BY <1>4 DEF Rollback, StartChunked, Resume, StartSingle, AcquireLock, LockAndSavePlan,
     RecordSuccess, RecordFailure, RecordSingle, MarkCompleted, db, world, Answered
<1>5. CASE UNCHANGED vars
  BY <1>1, <1>5 DEF vars, db, world, Answered
<1> QED
  BY <1>1, <1>2, <1>3, <1>4, <1>5 DEF Next, Step, LockTimeout, Crash, RefuseRun

\* The records of Backfill are a ledger.
THEOREM KeepsLedger == Spec => LedgerIsKept
<1>1. Init => Store!Init /\ PostInv
  BY DEF Init, Store!Init, PostInv, Answered, Covered, Successes
<1>2. TypeInv /\ RecordsInv /\ PostInv /\ [Next]_vars => [Store!Next]_(Store!vars)
  BY StoreStep
<1> QED
  BY <1>1, <1>2, PostStep, TypeAlways, RecordsAlways, PTL DEF Spec, LedgerIsKept, Store!Spec

\* What follows from the ledger alone: every day with a SUCCESS row in the audit of a
\* backfill lies under a watermark, and the warehouse answered for it.
THEOREM BooksAgree == Spec => []Store!BooksAgree
<1>1. Store!Init => Store!BooksAgree
  BY DEF Store!Init, Store!BooksAgree
<1>2. Store!BooksAgree /\ [Store!Next]_(Store!vars) => Store!BooksAgree'
  BY DEF Store!BooksAgree, Store!Next, Store!Answer, Store!Post, Store!vars
<1> QED
  BY <1>1, <1>2, KeepsLedger, PTL DEF LedgerIsKept, Store!Spec

-----------------------------------------------------------------------------
(* Progress.                                                               *)

\* Day x of backfill j is recorded: a watermark of marks and a SUCCESS row of
\* rows cover it.
Recorded(j, x, marks, rows) ==
    /\ \E r \in marks : x \in Days(r)
    /\ \E a \in rows : a.job = j /\ a.status = "SUCCESS" /\ x \in Days(a.chunk)

\* The days of j up to d are.
Backed(j, d, marks, rows) == \A x \in Start[j] .. d : Recorded(j, x, marks, rows)

\* What request s sees of the two tables.
SeenMarks(s) == watermarks \cup txMarks[s]
SeenRows(s)  == audit \cup txAudit[s]

\* The checkpoint s has written, and the position of its loop, stand on the
\* records s sees.
Stands(s) ==
    job[s] # NoJob =>
        /\ txRow[s] # NoRow => Backed(job[s], txRow[s].through, SeenMarks(s), SeenRows(s))
        /\ pc[s] \in {"lock", "exec", "record"} =>
              Backed(job[s], chunk[s].from - 1, SeenMarks(s), SeenRows(s))

ProgressInv ==
    /\ \A j \in Jobs : checkpoint[j] # NoRow =>
          Backed(j, checkpoint[j].through, watermarks, audit)
    /\ \A s \in Sessions : Stands(s)

\* A step that commits nothing, and changes the variables of s only.
Alone(s) ==
    /\ UNCHANGED <<checkpoint, watermarks, audit>>
    /\ \A t \in Sessions \ {s} :
          /\ job'[t] = job[t] /\ pc'[t] = pc[t] /\ chunk'[t] = chunk[t] /\ count'[t] = count[t]
          /\ txRow'[t] = txRow[t] /\ txMarks'[t] = txMarks[t] /\ txAudit'[t] = txAudit[t]

\* Every step but a commit is one.
LEMMA StepsAreAlone ==
    ASSUME TypeInv, NEW s \in Sessions,
           \/ \E j \in Jobs : StartChunked(s, j) \/ Resume(s, j)
           \/ \E r \in Singles : StartSingle(s, r)
           \/ AcquireLock(s) \/ LockAndSavePlan(s) \/ Execute(s)
           \/ RecordSuccess(s) \/ RecordFailure(s) \/ RecordSingle(s)
           \/ MarkCompleted(s) \/ Rollback(s)
    PROVE  Alone(s)
<1>0. /\ pc \in [Sessions -> {"idle", "lock", "exec", "record", "finish", "commit"}]
      /\ job \in [Sessions -> Jobs \cup {NoJob}]
      /\ chunk \in [Sessions -> Range \cup {NoChunk}]
      /\ count \in [Sessions -> Nat]
      /\ txRow \in [Sessions -> Row \cup {NoRow}]
      /\ txMarks \in [Sessions -> SUBSET Range] /\ txAudit \in [Sessions -> SUBSET AuditRow]
  BY DEF TypeInv, TypeOK
<1> USE DEF Alone, db, tx
<1>1. ASSUME NEW j \in Jobs, StartChunked(s, j) \/ Resume(s, j)
      PROVE  Alone(s)
  BY <1>0, <1>1 DEF StartChunked, Resume
<1>2. ASSUME NEW r \in Singles, StartSingle(s, r)
      PROVE  Alone(s)
  BY <1>0, <1>2 DEF StartSingle
<1>3. CASE AcquireLock(s)
  BY <1>0, <1>3 DEF AcquireLock
<1>4. CASE Execute(s)
  BY <1>0, <1>4 DEF Execute, Executed
<1>5. CASE RecordSuccess(s)
  BY <1>0, <1>5 DEF RecordSuccess
<1>6. CASE RecordFailure(s) \/ RecordSingle(s) \/ MarkCompleted(s)
  BY <1>0, <1>6 DEF RecordFailure, RecordSingle, MarkCompleted
<1>7. CASE Rollback(s)
  BY <1>0, <1>7 DEF Rollback, EndTransaction
<1>8. CASE LockAndSavePlan(s) /\ ~Rollback(s)
  BY <1>0, <1>8 DEF LockAndSavePlan
<1> HIDE DEF Alone
<1> QED
  BY <1>1, <1>2, <1>3, <1>4, <1>5, <1>6, <1>7, <1>8

LEMMA BackedGrows ==
    ASSUME NEW j, NEW d, NEW marks, NEW rows, NEW more, NEW others,
           marks \subseteq more, rows \subseteq others, Backed(j, d, marks, rows)
    PROVE  Backed(j, d, more, others)
  BY DEF Backed, Recorded

LEMMA BackedEmpty ==
    ASSUME NEW j \in Jobs, NEW marks, NEW rows
    PROVE  Backed(j, Start[j] - 1, marks, rows)
<1>1. Start[j] \in Nat
  BY JobsAssumption DEF Day
<1> QED
  BY <1>1 DEF Backed

\* Recording a chunk moves the backed days from before it to its end.
LEMMA BackedAdvances ==
    ASSUME NEW j \in Jobs, NEW c \in Range, NEW marks, NEW rows, c \in marks,
           [job |-> j, chunk |-> c, status |-> "SUCCESS"] \in rows,
           Backed(j, c.from - 1, marks, rows)
    PROVE  Backed(j, c.to, marks, rows)
<1> DEFINE answer == [job |-> j, chunk |-> c, status |-> "SUCCESS"]
<1>1. Start[j] \in Nat /\ c.from \in Nat /\ c.to \in Nat
  BY JobsAssumption DEF Day, Range
<1>2. answer.job = j /\ answer.chunk = c /\ answer.status = "SUCCESS" /\ answer \in rows
  OBVIOUS
<1> HIDE DEF answer
<1> SUFFICES ASSUME NEW x \in Start[j] .. c.to
             PROVE  Recorded(j, x, marks, rows)
  BY DEF Backed
<1>3. CASE x \in Start[j] .. c.from - 1
  BY <1>3 DEF Backed
<1>4. CASE x \in c.from .. c.to
  BY <1>2, <1>4 DEF Recorded, Days
<1> QED
  BY <1>1, <1>3, <1>4

\* The row a request would write over is backed by what the request sees.
LEMMA CurrentRowIsBacked ==
    ASSUME TypeInv, ProgressInv, NEW s \in Sessions, job[s] # NoJob
    PROVE  Backed(job[s], CurrentRow(s).through, SeenMarks(s), SeenRows(s))
<1>1. job[s] \in Jobs
  BY CurrentRowIsRow
<1>2. CASE txRow[s] # NoRow
  BY <1>2 DEF ProgressInv, Stands, CurrentRow
<1>3. CASE txRow[s] = NoRow
  <2>1. Backed(job[s], checkpoint[job[s]].through, watermarks, audit)
    BY <1>1, <1>3 DEF ProgressInv, TypeInv, Shape
  <2>2. Backed(job[s], checkpoint[job[s]].through, SeenMarks(s), SeenRows(s))
    BY <2>1, BackedGrows DEF SeenMarks, SeenRows
  <2> QED
    BY <1>3, <2>2 DEF CurrentRow
<1> QED
  BY <1>2, <1>3

\* A request whose own variables do not change keeps its part of the invariant
\* while the committed tables grow.
LEMMA OthersStand ==
    ASSUME ProgressInv, NEW t \in Sessions,
           watermarks \subseteq watermarks', audit \subseteq audit',
           job'[t] = job[t], pc'[t] = pc[t], chunk'[t] = chunk[t], txRow'[t] = txRow[t],
           txMarks'[t] = txMarks[t], txAudit'[t] = txAudit[t]
    PROVE  Stands(t)'
<1>1. SeenMarks(t) \subseteq SeenMarks(t)' /\ SeenRows(t) \subseteq SeenRows(t)'
  BY DEF SeenMarks, SeenRows
<1>2. Stands(t)
  BY DEF ProgressInv
<1> QED
  BY <1>1, <1>2, BackedGrows DEF Stands

LEMMA ProgressAlone ==
    ASSUME ProgressInv, NEW s \in Sessions, Alone(s), Stands(s)'
    PROVE  ProgressInv'
<1>1. ASSUME NEW t \in Sessions \ {s}
      PROVE  Stands(t)'
  BY OthersStand DEF Alone
<1> QED
  BY <1>1 DEF ProgressInv, Alone

LEMMA ProgressStep == TypeInv /\ ProgressInv /\ [Next]_vars => ProgressInv'
<1> SUFFICES ASSUME TypeInv, ProgressInv, [Next]_vars
             PROVE  ProgressInv'
  OBVIOUS
<1>0. /\ pc \in [Sessions -> {"idle", "lock", "exec", "record", "finish", "commit"}]
      /\ job \in [Sessions -> Jobs \cup {NoJob}]
      /\ chunk \in [Sessions -> Range \cup {NoChunk}]
      /\ txRow \in [Sessions -> Row \cup {NoRow}]
      /\ txMarks \in [Sessions -> SUBSET Range] /\ txAudit \in [Sessions -> SUBSET AuditRow]
  BY DEF TypeInv, TypeOK
<1>s. \A s \in Sessions : Stands(s)
  BY DEF ProgressInv
<1>1. ASSUME NEW s \in Sessions, NEW j \in Jobs, StartChunked(s, j)
      PROVE  ProgressInv'
  <2>1. Alone(s)
    BY <1>1, StepsAreAlone
  <2>2. job'[s] = j /\ txRow'[s].through = Start[j] - 1 /\ chunk'[s].from = Start[j]
    BY <1>0, <1>1 DEF StartChunked, ChunkFrom
  <2>3. Stands(s)'
    BY <2>2, BackedEmpty DEF Stands
  <2> QED
    BY <2>1, <2>3, ProgressAlone
<1>2. ASSUME NEW s \in Sessions, NEW j \in Jobs, Resume(s, j)
      PROVE  ProgressInv'
  <2>1. Alone(s)
    BY <1>2, StepsAreAlone
  <2>2. /\ job'[s] = j /\ txRow'[s] = NoRow
        /\ pc'[s] = "lock" => chunk'[s].from = checkpoint[j].through + 1
        /\ pc'[s] \in {"lock", "finish"}
    <3>1. txRow[s] = NoRow
      BY <1>2, <1>0 DEF Resume, TypeInv, Shape
    <3> QED
      BY <1>0, <1>2, <3>1 DEF Resume, ChunkFrom, tx
  <2>3. checkpoint[j].through \in Nat
    BY <1>2, JobsAssumption DEF Resume, TypeInv, TypeOK, Row
  <2>4. Backed(j, checkpoint[j].through, watermarks, audit)
    BY <1>2 DEF Resume, ProgressInv
  <2>5. Backed(j, checkpoint[j].through, SeenMarks(s)', SeenRows(s)')
    BY <2>1, <2>4, BackedGrows DEF Alone, SeenMarks, SeenRows
  <2>6. pc'[s] = "lock" => chunk'[s].from - 1 = checkpoint[j].through
    BY <2>2, <2>3
  <2>7. Stands(s)'
    BY <2>2, <2>5, <2>6 DEF Stands
  <2> QED
    BY <2>1, <2>7, ProgressAlone
<1>3. ASSUME NEW s \in Sessions, AcquireLock(s) \/ RecordFailure(s) \/ MarkCompleted(s)
      PROVE  ProgressInv'
  <2>1. Alone(s)
    BY <1>3, StepsAreAlone
  <2>2. job[s] # NoJob /\ job'[s] = job[s] /\ chunk'[s] = chunk[s]
    BY <1>3 DEF AcquireLock, RecordFailure, MarkCompleted, TypeInv, Shape
  <2>3. SeenMarks(s) \subseteq SeenMarks(s)' /\ SeenRows(s) \subseteq SeenRows(s)'
    BY <1>0, <1>3, <2>1 DEF AcquireLock, RecordFailure, MarkCompleted, SeenMarks, SeenRows, Alone
  <2>4. CurrentRow(s) \in Row
    BY <2>2, CurrentRowIsRow
  <2>5. \/ txRow'[s] = txRow[s] /\ pc'[s] = "exec" /\ pc[s] = "lock"
        \/ pc'[s] = "commit" /\ \E new \in {"FAILED", "COMPLETED"} :
              txRow'[s] = [CurrentRow(s) EXCEPT !.status = new]
    BY <1>0, <1>3 DEF AcquireLock, RecordFailure, MarkCompleted
  <2>6. CASE txRow'[s] = txRow[s] /\ pc'[s] = "exec" /\ pc[s] = "lock"
    <3>1. Stands(s)'
      BY <1>s, <2>2, <2>3, <2>6, BackedGrows DEF Stands
    <3> QED
      BY <2>1, <3>1, ProgressAlone
  <2>7. CASE pc'[s] = "commit" /\ \E new \in {"FAILED", "COMPLETED"} :
               txRow'[s] = [CurrentRow(s) EXCEPT !.status = new]
    <3>1. txRow'[s].through = CurrentRow(s).through
      BY <2>4, <2>7 DEF Row
    <3>2. Backed(job[s], CurrentRow(s).through, SeenMarks(s), SeenRows(s))
      BY <2>2, CurrentRowIsBacked
    <3>3. Stands(s)'
      BY <2>2, <2>3, <2>7, <3>1, <3>2, BackedGrows DEF Stands
    <3> QED
      BY <2>1, <3>3, ProgressAlone
  <2> QED
    BY <2>5, <2>6, <2>7
<1>4. ASSUME NEW s \in Sessions, Execute(s)
      PROVE  ProgressInv'
  <2>1. Alone(s)
    BY <1>4, StepsAreAlone
  <2>2. /\ pc[s] = "exec" /\ UNCHANGED <<watermarks, audit, job, chunk, txRow, txMarks, txAudit>>
    BY <1>4 DEF Execute, Executed, db, tx
  <2>3. Stands(s)'
    BY <1>s, <2>2 DEF Stands, SeenMarks, SeenRows
  <2> QED
    BY <2>1, <2>3, ProgressAlone
<1>5. ASSUME NEW s \in Sessions, RecordSuccess(s)
      PROVE  ProgressInv'
  <2> DEFINE c == chunk[s]
             answer == [job |-> job[s], chunk |-> c, status |-> "SUCCESS"]
  <2>1. Alone(s)
    BY <1>5, StepsAreAlone
  <2>2. /\ job[s] # NoJob /\ job'[s] = job[s] /\ pc[s] = "record"
        /\ txMarks'[s] = txMarks[s] \cup {c} /\ txAudit'[s] = txAudit[s] \cup {answer}
    BY <1>0, <1>5 DEF RecordSuccess
  <2>3. c \in Range /\ job[s] \in Jobs /\ CurrentRow(s) \in Row
    BY <1>5, CurrentRowIsRow DEF RecordSuccess, TypeInv, Shape
  <2>4. /\ txRow'[s].through = c.to
        /\ pc'[s] = "lock" => chunk'[s].from = c.to + 1
        /\ pc'[s] \in {"lock", "finish"}
    <3>1. txRow'[s] = [CurrentRow(s) EXCEPT !.through = c.to, !.completed = count[s] + 1]
      BY <1>0, <1>5 DEF RecordSuccess
    <3>2. txRow'[s].through = c.to
      BY <2>3, <3>1 DEF Row
    <3> QED
      BY <1>0, <1>5, <3>2 DEF RecordSuccess, ChunkFrom
  <2>5. c \in SeenMarks(s)' /\ answer \in SeenRows(s)'
    BY <2>2 DEF SeenMarks, SeenRows
  <2>6. SeenMarks(s) \subseteq SeenMarks(s)' /\ SeenRows(s) \subseteq SeenRows(s)'
    BY <2>1, <2>2 DEF SeenMarks, SeenRows, Alone
  <2>7. Backed(job[s], c.from - 1, SeenMarks(s)', SeenRows(s)')
    BY <1>s, <2>2, <2>6, BackedGrows DEF Stands
  <2>8. Backed(job[s], c.to, SeenMarks(s)', SeenRows(s)')
    BY <2>3, <2>5, <2>7, BackedAdvances
  <2>9. pc'[s] = "lock" => chunk'[s].from - 1 = c.to
    BY <2>3, <2>4 DEF Range, Day
  <2>10. Stands(s)'
    BY <2>2, <2>4, <2>8, <2>9 DEF Stands
  <2> QED
    BY <2>1, <2>10, ProgressAlone
<1>6. ASSUME NEW s \in Sessions, NEW r \in Singles, StartSingle(s, r)
      PROVE  ProgressInv'
  <2>1. Alone(s)
    BY <1>6, StepsAreAlone
  <2>2. Stands(s)'
    BY <1>6 DEF StartSingle, Stands, TypeInv, Shape
  <2> QED
    BY <2>1, <2>2, ProgressAlone
<1>7. ASSUME NEW s \in Sessions, Rollback(s)
      PROVE  ProgressInv'
  <2>1. Alone(s) /\ job'[s] = NoJob
    BY <1>0, <1>7, StepsAreAlone DEF Rollback, EndTransaction
  <2> QED
    BY <2>1, ProgressAlone DEF Stands
<1>8. ASSUME NEW s \in Sessions, (LockAndSavePlan(s) /\ ~Rollback(s)) \/ RecordSingle(s)
      PROVE  ProgressInv'
  <2>1. Alone(s) /\ job'[s] = NoJob
    BY <1>0, <1>8, StepsAreAlone DEF LockAndSavePlan, RecordSingle
  <2> QED
    BY <2>1, ProgressAlone DEF Stands
<1>9. ASSUME NEW s \in Sessions, Commit(s)
      PROVE  ProgressInv'
  <2>1. /\ watermarks' = SeenMarks(s) /\ audit' = SeenRows(s)
        /\ checkpoint' = IF txRow[s] = NoRow THEN checkpoint
                         ELSE [checkpoint EXCEPT ![job[s]] = txRow[s]]
    BY <1>9 DEF Commit, SeenMarks, SeenRows
  <2>2. ASSUME NEW j \in Jobs, checkpoint'[j] # NoRow
        PROVE  Backed(j, checkpoint'[j].through, watermarks', audit')
    <3>1. CASE checkpoint'[j] = checkpoint[j]
      BY <2>1, <2>2, <3>1, BackedGrows DEF ProgressInv, SeenMarks, SeenRows
    <3>2. CASE checkpoint'[j] # checkpoint[j]
      <4>1. txRow[s] # NoRow /\ job[s] = j /\ checkpoint'[j] = txRow[s] /\ j # NoJob
        BY <2>1, <3>2, JobsAssumption DEF TypeInv, TypeOK
      <4> QED
        BY <1>s, <2>1, <4>1 DEF Stands
    <3> QED
      BY <3>1, <3>2
  <2>3. ASSUME NEW t \in Sessions
        PROVE  Stands(t)'
    <3>1. CASE t = s
      BY <1>0, <1>9, <3>1 DEF Commit, EndTransaction, Stands
    <3>2. CASE t # s
      <4>1. /\ job'[t] = job[t] /\ pc'[t] = pc[t] /\ chunk'[t] = chunk[t] /\ txRow'[t] = txRow[t]
            /\ txMarks'[t] = txMarks[t] /\ txAudit'[t] = txAudit[t]
        BY <1>0, <1>9, <3>2 DEF Commit, EndTransaction
      <4>2. watermarks \subseteq watermarks' /\ audit \subseteq audit'
        BY <2>1 DEF SeenMarks, SeenRows
      <4> QED
        BY <4>1, <4>2, OthersStand
    <3> QED
      BY <3>1, <3>2
  <2> QED
    BY <2>2, <2>3 DEF ProgressInv
<1>10. CASE UNCHANGED vars
  <2>1. ASSUME NEW t \in Sessions
        PROVE  Stands(t)'
    BY <1>10, OthersStand DEF vars, db, locals, tx
  <2> QED
    BY <1>10, <2>1 DEF ProgressInv, vars, db
<1> QED
  BY <1>1, <1>2, <1>3, <1>4, <1>5, <1>6, <1>7, <1>8, <1>9, <1>10, ExecuteCases
  DEF Next, Step, LockTimeout, Crash, RefuseRun

LEMMA ProgressAlways == Spec => []ProgressInv
<1>1. Init => ProgressInv
  BY DEF Init, ProgressInv, Stands
<1> QED
  BY <1>1, ProgressStep, TypeAlways, PTL DEF Spec

\* Every day up to a checkpoint's completed_through was executed (or cancelled in
\* the workspace) and lies under a watermark and a SUCCESS row.
THEOREM ProgressIsTrue == Spec => []ProgressIsBacked
<1>1. RecordsInv /\ ProgressInv => ProgressIsBacked
  BY DEF RecordsInv, ProgressInv, ProgressIsBacked, Backed, Recorded, Covered, Successes
<1>2. Spec => []RecordsInv
  BY RecordsAlways
<1> QED
  BY <1>1, <1>2, ProgressAlways, PTL

-----------------------------------------------------------------------------
(* The count of chunks.                                                    *)

\* The row of j says how many chunks of the original split are done, and hence
\* up to which day.
RowAgrees(j, row) ==
    IF row.through = End[j]
    THEN row.completed = TotalChunks(j)
    ELSE row.through = Start[j] + row.completed * Size[j] - 1

\* The loop of s stands at a chunk of the original split, its count at how many
\* come before.
AtSplit(s) ==
    /\ chunk[s].from = Start[job[s]] + count[s] * Size[job[s]]
    /\ chunk[s].from <= End[job[s]]
    /\ chunk[s] = ChunkFrom(job[s], chunk[s].from)

Counts(s) ==
    job[s] # NoJob =>
        /\ txRow[s] # NoRow => RowAgrees(job[s], txRow[s])
        /\ pc[s] \in {"lock", "exec", "record"} => AtSplit(s)

CountInv ==
    /\ \A j \in Jobs : checkpoint[j] # NoRow => RowAgrees(j, checkpoint[j])
    /\ \A s \in Sessions : Counts(s)

LEMMA Quotient ==
    ASSUME NEW a \in Nat, NEW b \in Nat \ {0}, NEW q \in Nat, q * b <= a, a < q * b + b
    PROVE  a \div b = q
  OBVIOUS

LEMMA OneMore ==
    ASSUME NEW n \in Nat, NEW b \in Nat
    PROVE  (n + 1) * b = n * b + b /\ n * b \in Nat
  OBVIOUS

LEMMA CurrentRowAgrees ==
    ASSUME TypeInv, CountInv, NEW s \in Sessions, job[s] # NoJob
    PROVE  RowAgrees(job[s], CurrentRow(s))
  BY CurrentRowIsRow DEF CountInv, Counts, CurrentRow, TypeInv, Shape

\* The end of a chunk of the original split, and one more chunk done, agree.
LEMMA SplitAdvances ==
    ASSUME NEW j \in Jobs, NEW n \in Nat, NEW d \in Day,
           d = Start[j] + n * Size[j], d <= End[j],
           NEW row, row.through = ChunkFrom(j, d).to, row.completed = n + 1
    PROVE  /\ RowAgrees(j, row)
           /\ row.through < End[j] => row.through + 1 = Start[j] + (n + 1) * Size[j]
<1>1. Start[j] \in Nat /\ End[j] \in Nat /\ Size[j] \in Nat \ {0} /\ d \in Nat
  BY JobsAssumption DEF Day
<1>2. (n + 1) * Size[j] = n * Size[j] + Size[j] /\ n * Size[j] \in Nat
  BY <1>1, OneMore
<1>3. row.through = IF d + Size[j] - 1 <= End[j] THEN d + Size[j] - 1 ELSE End[j]
  BY DEF ChunkFrom, EarlierOf
<1>4. CASE row.through = End[j]
  <2>1. End[j] - Start[j] \in Nat /\ n * Size[j] <= End[j] - Start[j]
        /\ End[j] - Start[j] < n * Size[j] + Size[j]
    BY <1>1, <1>3, <1>4
  <2>2. (End[j] - Start[j]) \div Size[j] = n
    BY <1>1, <2>1, Quotient
  <2>3. TotalChunks(j) = n + 1
    BY <2>2 DEF TotalChunks
  <2> QED
    BY <1>1, <1>4, <2>3 DEF RowAgrees
<1>5. CASE row.through # End[j]
  <2>1. row.through = d + Size[j] - 1
    BY <1>3, <1>5
  <2>2. row.through = Start[j] + (n + 1) * Size[j] - 1
    BY <1>1, <1>2, <2>1
  <2>3. row.through + 1 = Start[j] + (n + 1) * Size[j]
    BY <1>1, <1>2, <2>1
  <2>4. RowAgrees(j, row)
    BY <1>5, <2>2 DEF RowAgrees
  <2> QED
    BY <2>3, <2>4
<1> QED
  BY <1>1, <1>4, <1>5

LEMMA CountAlone ==
    ASSUME CountInv, NEW s \in Sessions, Alone(s), Counts(s)'
    PROVE  CountInv'
  BY DEF CountInv, Counts, Alone, AtSplit

LEMMA CountStep == TypeInv /\ CountInv /\ [Next]_vars => CountInv'
<1> SUFFICES ASSUME TypeInv, CountInv, [Next]_vars
             PROVE  CountInv'
  OBVIOUS
<1>0. /\ pc \in [Sessions -> {"idle", "lock", "exec", "record", "finish", "commit"}]
      /\ job \in [Sessions -> Jobs \cup {NoJob}]
      /\ chunk \in [Sessions -> Range \cup {NoChunk}]
      /\ count \in [Sessions -> Nat]
      /\ txRow \in [Sessions -> Row \cup {NoRow}]
  BY DEF TypeInv, TypeOK
<1>s. \A s \in Sessions : Counts(s)
  BY DEF CountInv
<1>z. \A j \in Jobs : 0 * Size[j] = 0 /\ Start[j] \in Nat /\ End[j] \in Nat /\ Start[j] <= End[j]
  BY JobsAssumption DEF Day
<1>1. ASSUME NEW s \in Sessions, NEW j \in Jobs, StartChunked(s, j)
      PROVE  CountInv'
  <2> DEFINE row == [status |-> "RUNNING", through |-> Start[j] - 1, completed |-> 0]
  <2>1. /\ job'[s] = j /\ chunk'[s] = ChunkFrom(j, Start[j]) /\ count'[s] = count[s]
        /\ txRow'[s] = row
    BY <1>0, <1>1 DEF StartChunked
  <2>2. row.through = Start[j] - 1 /\ row.completed = 0
    OBVIOUS
  <2> HIDE DEF row
  <2>3. RowAgrees(j, row)
    BY <1>z, <2>2 DEF RowAgrees
  <2>4. count[s] = 0
    BY <1>1 DEF StartChunked, TypeInv, Shape
  <2>5. AtSplit(s)'
    BY <1>z, <2>1, <2>4 DEF AtSplit, ChunkFrom
  <2>6. Counts(s)'
    BY <2>1, <2>3, <2>5 DEF Counts
  <2> QED
    BY <1>1, <2>6, StepsAreAlone, CountAlone
<1>2. ASSUME NEW s \in Sessions, NEW j \in Jobs, Resume(s, j)
      PROVE  CountInv'
  <2> DEFINE row == checkpoint[j]
  <2>1. /\ job'[s] = j /\ txRow'[s] = txRow[s] /\ count'[s] = row.completed
        /\ pc'[s] = "lock" => /\ chunk'[s] = ChunkFrom(j, row.through + 1)
                             /\ ~(row.through + 1 > End[j])
        /\ pc'[s] \in {"lock", "finish"}
    BY <1>0, <1>2 DEF Resume, tx
  <2>2. txRow[s] = NoRow
    BY <1>0, <1>2 DEF Resume, TypeInv, Shape
  <2>3. row.through \in Nat /\ row.completed \in Nat
    BY <1>2, JobsAssumption DEF Resume, TypeInv, TypeOK, Row
  <2>4. RowAgrees(j, row)
    BY <1>2 DEF Resume, CountInv
  <2> HIDE DEF row
  <2>5. ASSUME pc'[s] = "lock"
        PROVE  AtSplit(s)'
    <3>1. row.through + 1 = Start[j] + row.completed * Size[j] /\ row.through + 1 <= End[j]
      <4>1. row.completed * Size[j] \in Nat
        BY <2>3, OneMore, JobsAssumption
      <4> QED
        BY <1>z, <2>1, <2>3, <2>4, <2>5, <4>1 DEF RowAgrees
    <3>2. chunk'[s].from = row.through + 1
      BY <2>1, <2>5 DEF ChunkFrom
    <3> QED
      BY <2>1, <2>5, <3>1, <3>2 DEF AtSplit
  <2>6. Counts(s)'
    BY <2>1, <2>2, <2>5 DEF Counts
  <2> QED
    BY <1>2, <2>6, StepsAreAlone, CountAlone
<1>3. ASSUME NEW s \in Sessions, AcquireLock(s) \/ RecordFailure(s) \/ MarkCompleted(s)
      PROVE  CountInv'
  <2>1. job[s] # NoJob /\ job'[s] = job[s] /\ chunk'[s] = chunk[s] /\ count'[s] = count[s]
    BY <1>3 DEF AcquireLock, RecordFailure, MarkCompleted, TypeInv, Shape
  <2>2. CurrentRow(s) \in Row /\ RowAgrees(job[s], CurrentRow(s))
    BY <2>1, CurrentRowIsRow, CurrentRowAgrees
  <2>3. \/ txRow'[s] = txRow[s] /\ pc'[s] = "exec" /\ pc[s] = "lock"
        \/ pc'[s] = "commit" /\ \E new \in {"FAILED", "COMPLETED"} :
              txRow'[s] = [CurrentRow(s) EXCEPT !.status = new]
    BY <1>0, <1>3 DEF AcquireLock, RecordFailure, MarkCompleted
  <2>4. CASE txRow'[s] = txRow[s] /\ pc'[s] = "exec" /\ pc[s] = "lock"
    BY <1>3, <1>s, <2>1, <2>4, StepsAreAlone, CountAlone DEF Counts, AtSplit
  <2>5. CASE pc'[s] = "commit" /\ \E new \in {"FAILED", "COMPLETED"} :
               txRow'[s] = [CurrentRow(s) EXCEPT !.status = new]
    <3>1. /\ txRow'[s].through = CurrentRow(s).through
          /\ txRow'[s].completed = CurrentRow(s).completed
      BY <2>2, <2>5 DEF Row
    <3>2. Counts(s)'
      BY <2>1, <2>2, <2>5, <3>1 DEF Counts, RowAgrees
    <3> QED
      BY <1>3, <3>2, StepsAreAlone, CountAlone
  <2> QED
    BY <2>3, <2>4, <2>5
<1>4. ASSUME NEW s \in Sessions, Execute(s)
      PROVE  CountInv'
  <2>1. pc[s] = "exec" /\ UNCHANGED <<job, chunk, count, txRow>>
    BY <1>4 DEF Execute, Executed, tx
  <2>2. Counts(s)'
    BY <1>s, <2>1 DEF Counts, AtSplit
  <2> QED
    BY <1>4, <2>2, StepsAreAlone, CountAlone
<1>5. ASSUME NEW s \in Sessions, RecordSuccess(s)
      PROVE  CountInv'
  <2> DEFINE d == chunk[s].from
             row == txRow'[s]
  <2>1. /\ job[s] # NoJob /\ job'[s] = job[s] /\ pc[s] = "record"
        /\ count'[s] = count[s] + 1
        /\ row = [CurrentRow(s) EXCEPT !.through = chunk[s].to, !.completed = count[s] + 1]
    BY <1>0, <1>5 DEF RecordSuccess
  <2>2. /\ pc'[s] = "lock" => /\ chunk'[s] = ChunkFrom(job[s], chunk[s].to + 1)
                             /\ chunk[s].to < End[job[s]]
        /\ pc'[s] \in {"lock", "finish"}
    BY <1>0, <1>5 DEF RecordSuccess
  <2>3. chunk[s] \in Range /\ job[s] \in Jobs /\ CurrentRow(s) \in Row /\ count[s] \in Nat
    BY <1>0, <1>5, CurrentRowIsRow DEF RecordSuccess, TypeInv, Shape
  <2>4. row.through = chunk[s].to /\ row.completed = count[s] + 1
    BY <2>1, <2>3 DEF Row
  <2>5. /\ d = Start[job[s]] + count[s] * Size[job[s]] /\ d <= End[job[s]] /\ d \in Day
        /\ chunk[s] = ChunkFrom(job[s], d)
    BY <1>s, <2>1, <2>3 DEF Counts, AtSplit, Range
  <2> HIDE DEF d, row
  <2>6. /\ RowAgrees(job[s], row)
        /\ row.through < End[job[s]] =>
              row.through + 1 = Start[job[s]] + (count[s] + 1) * Size[job[s]]
    BY <2>3, <2>4, <2>5, SplitAdvances
  <2>7. ASSUME pc'[s] = "lock"
        PROVE  AtSplit(s)'
    <3>1. chunk'[s].from = chunk[s].to + 1
      BY <2>2, <2>7 DEF ChunkFrom
    <3>2. chunk[s].to + 1 <= End[job[s]]
      BY <1>z, <2>2, <2>3, <2>7 DEF Range, Day
    <3> QED
      BY <2>1, <2>2, <2>4, <2>6, <2>7, <3>1, <3>2 DEF AtSplit
  <2>8. Counts(s)'
    BY <2>1, <2>2, <2>6, <2>7 DEF Counts, row
  <2> QED
    BY <1>5, <2>8, StepsAreAlone, CountAlone
<1>6. ASSUME NEW s \in Sessions, NEW r \in Singles, StartSingle(s, r)
      PROVE  CountInv'
  <2>1. Counts(s)'
    BY <1>6 DEF StartSingle, Counts, TypeInv, Shape
  <2> QED
    BY <1>6, <2>1, StepsAreAlone, CountAlone
<1>7. ASSUME NEW s \in Sessions,
             Rollback(s) \/ (LockAndSavePlan(s) /\ ~Rollback(s)) \/ RecordSingle(s)
      PROVE  CountInv'
  <2>1. job'[s] = NoJob
    BY <1>0, <1>7 DEF Rollback, EndTransaction, LockAndSavePlan, RecordSingle
  <2> QED
    BY <1>7, <2>1, StepsAreAlone, CountAlone DEF Counts
<1>8. ASSUME NEW s \in Sessions, Commit(s)
      PROVE  CountInv'
  <2>1. ASSUME NEW j \in Jobs, checkpoint'[j] # NoRow
        PROVE  RowAgrees(j, checkpoint'[j])
    <3>1. CASE checkpoint'[j] = checkpoint[j]
      BY <2>1, <3>1 DEF CountInv
    <3>2. CASE checkpoint'[j] # checkpoint[j]
      <4>1. txRow[s] # NoRow /\ job[s] = j /\ checkpoint'[j] = txRow[s] /\ j # NoJob
        BY <1>8, <3>2, JobsAssumption DEF Commit, TypeInv, TypeOK
      <4> QED
        BY <1>s, <4>1 DEF Counts
    <3> QED
      BY <3>1, <3>2
  <2>2. ASSUME NEW t \in Sessions
        PROVE  Counts(t)'
    BY <1>0, <1>8, <1>s DEF Commit, EndTransaction, Counts, AtSplit
  <2> QED
    BY <2>1, <2>2 DEF CountInv
<1>9. CASE UNCHANGED vars
  <2>1. UNCHANGED <<checkpoint, pc, job, chunk, count, txRow>>
    BY <1>9 DEF vars, db, locals, tx
  <2>2. ASSUME NEW t \in Sessions
        PROVE  Counts(t)'
    BY <1>s, <2>1 DEF Counts, AtSplit
  <2>3. ASSUME NEW j \in Jobs, checkpoint'[j] # NoRow
        PROVE  RowAgrees(j, checkpoint'[j])
    BY <2>1, <2>3 DEF CountInv
  <2> QED
    BY <2>2, <2>3 DEF CountInv
<1> QED
  BY <1>1, <1>2, <1>3, <1>4, <1>5, <1>6, <1>7, <1>8, <1>9, ExecuteCases
  DEF Next, Step, LockTimeout, Crash, RefuseRun

\* completed_chunks and completed_through always say the same.
THEOREM CountsAgree == Spec => []ChunkCountAgrees
<1>1. Init => CountInv
  BY DEF Init, CountInv, Counts
<1>2. CountInv => ChunkCountAgrees
  BY DEF CountInv, RowAgrees, ChunkCountAgrees
<1> QED
  BY <1>1, <1>2, CountStep, TypeAlways, PTL DEF Spec

-----------------------------------------------------------------------------
(* Exclusion.                                                              *)

LEMMA MultiplesApart ==
    ASSUME NEW a \in Nat, NEW b \in Nat, NEW n \in Nat, a < b
    PROVE  a * n + n <= b * n
<1> DEFINE k == b - a - 1
<1>1. k \in Nat /\ b = a + 1 + k
  OBVIOUS
<1> HIDE DEF k
<1>2. k * n >= 0 /\ b * n = a * n + n + k * n
  BY <1>1
<1>3. a * n \in Int /\ b * n \in Int /\ k * n \in Int
  BY <1>1
<1> QED
  BY <1>2, <1>3

\* Chunks of one split are the same or do not meet.
LEMMA SplitExcludes ==
    ASSUME NEW j \in Jobs, NEW a \in Nat, NEW b \in Nat, a < b, NEW c, NEW d,
           c = ChunkFrom(j, Start[j] + a * Size[j]), d = ChunkFrom(j, Start[j] + b * Size[j])
    PROVE  Days(c) \cap Days(d) = {}
<1>1. Start[j] \in Nat /\ End[j] \in Nat /\ Size[j] \in Nat
  BY JobsAssumption DEF Day
<1>2. a * Size[j] + Size[j] <= b * Size[j] /\ a * Size[j] \in Nat /\ b * Size[j] \in Nat
  BY <1>1, MultiplesApart
<1>3. c.to <= Start[j] + a * Size[j] + Size[j] - 1 /\ c.to \in Int
  BY <1>1, <1>2 DEF ChunkFrom, EarlierOf
<1>4. d.from = Start[j] + b * Size[j] /\ d.from \in Int
  BY <1>1, <1>2 DEF ChunkFrom
<1>5. c.to < d.from
  BY <1>1, <1>2, <1>3, <1>4
<1> QED
  BY <1>3, <1>4, <1>5 DEF Days

\* Two requests never hold one range, and those of one backfill never execute one day
\* at the same time.
THEOREM RangesExclude == Spec => []RangeMutex
<1>1. ASSUME TypeInv, LockInv, CountInv
      PROVE  RangeMutex
  <2>1. ASSUME NEW s \in Sessions, NEW t \in Sessions, s # t, pc[s] = "exec", pc[t] = "exec",
               job[s] = job[t], job[s] # NoJob
        PROVE  Days(chunk[s]) \cap Days(chunk[t]) = {}
    <3> DEFINE j == job[s]
    <3>1. j \in Jobs /\ count[s] \in Nat /\ count[t] \in Nat
      BY <1>1, <2>1 DEF TypeInv, TypeOK
    <3>2. /\ chunk[s] = ChunkFrom(j, Start[j] + count[s] * Size[j])
          /\ chunk[t] = ChunkFrom(j, Start[j] + count[t] * Size[j])
      BY <1>1, <2>1 DEF CountInv, Counts, AtSplit
    <3>3. count[s] # count[t]
      BY <1>1, <2>1, <3>2 DEF LockInv
    <3>4. count[s] < count[t] \/ count[t] < count[s]
      BY <3>1, <3>3
    <3> HIDE DEF j
    <3> QED
      BY <3>1, <3>2, <3>4, SplitExcludes
  <2>2. \A s, t \in Sessions : s # t => txKeys[s] \cap txKeys[t] = {}
    BY <1>1 DEF LockInv
  <2> QED
    BY <2>1, <2>2 DEF RangeMutex
<1>2. Init => CountInv
  BY DEF Init, CountInv, Counts
<1> QED
  BY <1>1, <1>2, CountStep, TypeAlways, LockAlways, PTL DEF Spec

-----------------------------------------------------------------------------
(* Termination: what can be proved of RequestsEnd without fairness.        *)

\* At most how many steps request s still makes: a chunk takes three, a lock, the
\* execution and the record, and the end of the request two.
StepsLeft(s) ==
    LET chunks == IF job[s] = NoJob THEN 0 ELSE 3 * (End[job[s]] - chunk[s].to)
    IN  CASE pc[s] = "lock"   -> chunks + 5
          [] pc[s] = "exec"   -> chunks + 4
          [] pc[s] = "record" -> chunks + 3
          [] pc[s] = "finish" -> 2
          [] pc[s] = "commit" -> 1
          [] pc[s] = "idle"   -> 0

\* A request in the loop has a chunk that does not pass the end of its backfill.
InRange(s) ==
    job[s] # NoJob /\ pc[s] \in {"lock", "exec", "record"} =>
        /\ job[s] \in Jobs /\ chunk[s].to \in Nat /\ End[job[s]] \in Nat
        /\ chunk[s].to <= End[job[s]]

LEMMA ChunkInRange ==
    ASSUME TypeInv, CountInv, NEW s \in Sessions
    PROVE  InRange(s)
<1> SUFFICES ASSUME job[s] # NoJob, pc[s] \in {"lock", "exec", "record"}
             PROVE  /\ job[s] \in Jobs /\ chunk[s].to \in Nat /\ End[job[s]] \in Nat
                    /\ chunk[s].to <= End[job[s]]
  BY DEF InRange
<1>1. job[s] \in Jobs /\ chunk[s] \in Range
  BY DEF TypeInv, TypeOK, Shape
<1>2. End[job[s]] \in Nat /\ Start[job[s]] \in Nat /\ Size[job[s]] \in Nat
  BY <1>1, JobsAssumption DEF Day
<1>3. chunk[s].to \in Nat /\ chunk[s].from \in Nat
  BY <1>1, JobsAssumption DEF Range, Day
<1>4. chunk[s] = ChunkFrom(job[s], chunk[s].from)
  BY DEF CountInv, Counts, AtSplit
<1>5. chunk[s].to = EarlierOf(chunk[s].from + Size[job[s]] - 1, End[job[s]])
  BY <1>4 DEF ChunkFrom
<1>6. chunk[s].to <= End[job[s]]
  BY <1>2, <1>3, <1>5 DEF EarlierOf
<1> QED
  BY <1>1, <1>2, <1>3, <1>6

LEMMA StepsLeftIsNat ==
    ASSUME TypeInv, CountInv, NEW s \in Sessions
    PROVE  StepsLeft(s) \in Nat
<1>1. pc[s] \in {"idle", "lock", "exec", "record", "finish", "commit"}
  BY DEF TypeInv, TypeOK
<1>2. InRange(s)
  BY ChunkInRange
<1> QED
  BY <1>1, <1>2 DEF InRange, StepsLeft


\* What a request does by itself brings its end nearer.
LEMMA StepsGoOn ==
    ASSUME TypeInv, CountInv, NEW s \in Sessions, Step(s)
    PROVE  StepsLeft(s)' \in 0 .. StepsLeft(s) - 1
<1>0. /\ pc \in [Sessions -> {"idle", "lock", "exec", "record", "finish", "commit"}]
      /\ job \in [Sessions -> Jobs \cup {NoJob}]
      /\ chunk \in [Sessions -> Range \cup {NoChunk}]
  BY DEF TypeInv, TypeOK
<1>1. InRange(s) /\ StepsLeft(s) \in Nat
  BY ChunkInRange, StepsLeftIsNat
<1>2. CASE Rollback(s) \/ Commit(s)
  <2>1. pc'[s] = "idle" /\ pc[s] # "idle"
    BY <1>0, <1>2 DEF Rollback, Commit, EndTransaction, Step, AcquireLock, LockAndSavePlan,
       ExecuteOk, ExecuteFail, ExecuteCancelled, RecordSuccess, RecordFailure, RecordSingle,
       RefuseRun, MarkCompleted, LockTimeout
  <2>2. StepsLeft(s)' = 0
    BY <2>1 DEF StepsLeft
  <2>3. StepsLeft(s) # 0
    BY <1>0, <1>1, <2>1 DEF StepsLeft, InRange
  <2> QED
    BY <1>1, <2>2, <2>3
<1>3. ASSUME UNCHANGED <<job, chunk>>,
             \/ pc[s] = "lock" /\ pc'[s] \in {"exec", "commit"}
             \/ pc[s] = "exec" /\ pc'[s] = "record"
             \/ pc[s] = "record" /\ pc'[s] \in {"finish", "commit"}
             \/ pc[s] = "finish" /\ pc'[s] = "commit"
      PROVE  StepsLeft(s)' \in 0 .. StepsLeft(s) - 1
  <2> DEFINE chunks == IF job[s] = NoJob THEN 0 ELSE 3 * (End[job[s]] - chunk[s].to)
  <2>1. CASE pc[s] \in {"lock", "exec", "record"}
    <3>1. chunks \in Nat /\ chunks' = chunks
      BY <1>1, <1>3, <2>1 DEF InRange
    <3>2. StepsLeft(s) = chunks + (CASE pc[s] = "lock" -> 5 [] pc[s] = "exec" -> 4
                                     [] pc[s] = "record" -> 3)
      BY <2>1 DEF StepsLeft
    <3>3. /\ pc'[s] = "exec" => StepsLeft(s)' = chunks' + 4
          /\ pc'[s] = "record" => StepsLeft(s)' = chunks' + 3
          /\ pc'[s] = "finish" => StepsLeft(s)' = 2
          /\ pc'[s] = "commit" => StepsLeft(s)' = 1
      BY DEF StepsLeft
    <3> HIDE DEF chunks
    <3> QED
      BY <1>3, <2>1, <3>1, <3>2, <3>3
  <2>2. CASE pc[s] = "finish"
    BY <1>3, <2>2 DEF StepsLeft
  <2> QED
    BY <1>3, <2>1, <2>2
<1>4. CASE AcquireLock(s) \/ (LockAndSavePlan(s) /\ ~Rollback(s)) \/ Execute(s)
           \/ RecordFailure(s) \/ RecordSingle(s) \/ MarkCompleted(s)
  BY <1>0, <1>3, <1>4 DEF AcquireLock, LockAndSavePlan, Execute, Executed, RecordFailure,
     RecordSingle, MarkCompleted
<1>5. CASE RecordSuccess(s) /\ chunk[s].to >= End[job[s]]
  <2>1. InRange(s) /\ pc[s] = "record" /\ job[s] # NoJob
    BY <1>1, <1>5 DEF RecordSuccess
  <2>2. pc'[s] = "finish" /\ UNCHANGED <<job, chunk>>
    BY <1>0, <1>5, <2>1 DEF RecordSuccess, InRange
  <2> QED
    BY <1>3, <2>1, <2>2
<1>6. CASE RecordSuccess(s) /\ chunk[s].to < End[job[s]]
  <2> DEFINE j == job[s]
             a == chunk[s].to
             b == EarlierOf(a + 1 + Size[j] - 1, End[j])
  <2>1. /\ pc[s] = "record" /\ j # NoJob /\ j \in Jobs
        /\ a \in Nat /\ End[j] \in Nat /\ a < End[j]
    BY <1>1, <1>6 DEF RecordSuccess, InRange
  <2>2. /\ pc'[s] = "lock" /\ job'[s] = j /\ chunk'[s] = ChunkFrom(j, a + 1)
    BY <1>0, <1>6 DEF RecordSuccess
  <2>3. chunk'[s].to = b
    BY <2>2 DEF ChunkFrom
  <2>4. b \in Nat /\ a < b /\ b <= End[j]
    BY <2>1, JobsAssumption DEF EarlierOf
  <2>5. StepsLeft(s) = 3 * (End[j] - a) + 3
    BY <2>1 DEF StepsLeft
  <2>6. StepsLeft(s)' = 3 * (End[j] - b) + 5
    <3> HIDE DEF b
    <3> QED
      BY <2>1, <2>2, <2>3 DEF StepsLeft
  <2> HIDE DEF j, a, b
  <2> QED
    BY <2>1, <2>4, <2>5, <2>6
<1> QED
  BY <1>2, <1>4, <1>5, <1>6, <1>1, <1>0, ExecuteCases
  DEF Step, LockTimeout, RefuseRun, InRange, RecordSuccess

\* What others do leaves it as it is.
LEMMA StepsStay ==
    ASSUME TypeInv, CountInv, [Next]_vars, NEW s \in Sessions, pc[s] # "idle"
    PROVE  StepsLeft(s)' \in 0 .. StepsLeft(s)
<1>0. /\ pc \in [Sessions -> {"idle", "lock", "exec", "record", "finish", "commit"}]
      /\ job \in [Sessions -> Jobs \cup {NoJob}]
      /\ chunk \in [Sessions -> Range \cup {NoChunk}]
  BY DEF TypeInv, TypeOK
<1>1. StepsLeft(s) \in Nat
  BY StepsLeftIsNat
<1>2. ASSUME pc'[s] = pc[s], job'[s] = job[s], chunk'[s] = chunk[s]
      PROVE  StepsLeft(s)' \in 0 .. StepsLeft(s)
  <2>1. StepsLeft(s)' = StepsLeft(s)
    BY <1>2 DEF StepsLeft
  <2> QED
    BY <1>1, <2>1
<1>3. CASE Step(s)
  <2>1. StepsLeft(s)' \in 0 .. StepsLeft(s) - 1
    BY <1>3, StepsGoOn
  <2> QED
    BY <1>1, <2>1
<1>4. CASE Crash(s)
  <2>1. pc'[s] = "idle"
    BY <1>0, <1>4 DEF Crash, Rollback, EndTransaction
  <2>2. StepsLeft(s)' = 0
    BY <2>1 DEF StepsLeft
  <2> QED
    BY <1>1, <2>2
<1>5. ASSUME NEW t \in Sessions, t # s,
             \/ \E j \in Jobs : StartChunked(t, j) \/ Resume(t, j)
             \/ \E r \in Singles : StartSingle(t, r)
             \/ AcquireLock(t) \/ LockAndSavePlan(t) \/ Execute(t) \/ EndTransaction(t)
             \/ RecordSuccess(t) \/ RecordFailure(t) \/ RecordSingle(t) \/ MarkCompleted(t)
      PROVE  pc'[s] = pc[s] /\ job'[s] = job[s] /\ chunk'[s] = chunk[s]
  BY <1>0, <1>5 DEF StartChunked, Resume, StartSingle, AcquireLock, LockAndSavePlan, Rollback,
     Execute, Executed, RecordSuccess, RecordFailure, RecordSingle, MarkCompleted,
     EndTransaction
<1>6. CASE UNCHANGED vars
  BY <1>2, <1>6 DEF vars, locals
<1>7. ASSUME NEW t \in Sessions, t # s,
             \/ \E j \in Jobs : StartChunked(t, j) \/ Resume(t, j)
             \/ \E r \in Singles : StartSingle(t, r)
             \/ Step(t) \/ Crash(t)
      PROVE  StepsLeft(s)' \in 0 .. StepsLeft(s)
  BY <1>2, <1>5, <1>7, ExecuteCases DEF Step, Crash, LockTimeout, RefuseRun, Rollback, Commit
<1>8. ASSUME \/ \E j \in Jobs : StartChunked(s, j) \/ Resume(s, j)
             \/ \E r \in Singles : StartSingle(s, r)
      PROVE  FALSE
  BY <1>8 DEF StartChunked, Resume, StartSingle
<1> QED
  BY <1>3, <1>4, <1>6, <1>7, <1>8 DEF Next

\* A request that goes on comes to its end within StepsLeft steps of its own, whatever
\* the others do in between: no loop of the handlers turns without getting nearer.
BoundedSteps ==
    [][\A s \in Sessions :
          /\ StepsLeft(s) \in Nat
          /\ Step(s) => StepsLeft(s)' \in 0 .. StepsLeft(s) - 1
          /\ pc[s] # "idle" => StepsLeft(s)' \in 0 .. StepsLeft(s)]_vars

\* A request is answered after a bounded number of its own steps.
THEOREM StepsAreBounded == Spec => BoundedSteps
<1>1. TypeInv /\ CountInv /\ [Next]_vars =>
          [\A s \in Sessions :
              /\ StepsLeft(s) \in Nat
              /\ Step(s) => StepsLeft(s)' \in 0 .. StepsLeft(s) - 1
              /\ pc[s] # "idle" => StepsLeft(s)' \in 0 .. StepsLeft(s)]_vars
  BY StepsLeftIsNat, StepsGoOn, StepsStay
<1>2. Init => CountInv
  BY DEF Init, CountInv, Counts
<1> QED
  BY <1>1, <1>2, CountStep, TypeAlways, PTL DEF Spec, BoundedSteps
=============================================================================
