-------------------------- MODULE PlanApply_proofs --------------------------
(***************************************************************************)
(* Proofs about PlanApply, for any plan and any number of requests.        *)
(***************************************************************************)
EXTENDS PlanApply, TLAPS

-----------------------------------------------------------------------------
(* Types.                                                                  *)

\* Where a request is in the loop bounds its index and fixes its locals.
InLoop ==
    \A s \in Sessions :
        /\ pc[s] # "idle" => request[s] \in 1 .. MaxRequests
        /\ pc[s] \in {"lock", "exec", "record"} => index[s] <= Len(Listed)
        /\ pc[s] = "lock" => Current(s) \in Locked
        /\ pc[s] = "record" => status[s] # "none"

TypeInv == TypeOK /\ InLoop

LEMMA CurrentIsStep ==
    ASSUME TypeInv, NEW s \in Sessions, index[s] <= Len(Listed)
    PROVE  Current(s) \in Steps /\ index[s] + 1 \in 1 .. Len(Listed) + 1
  BY PlanAssumption DEF TypeInv, TypeOK, Current

\* The outcomes of a step are three ways to write the same locals.
Execute(s) ==
    /\ pc[s] = "exec"
    /\ \E result \in {"SUCCESS", "FAIL"} : Executed(s, result)
    /\ executed' \in {executed, executed \cup {Current(s)}}
    /\ cancelled' \in {cancelled, cancelled \cup {Current(s)}}

LEMMA ExecuteCases ==
    ASSUME NEW s, ExecuteOk(s) \/ ExecuteFail(s) \/ ExecuteCancelled(s)
    PROVE  Execute(s)
  BY DEF ExecuteOk, ExecuteFail, ExecuteCancelled, Execute

LEMMA TypeInit == Init => TypeInv
  BY PlanAssumption DEF Init, TypeInv, TypeOK, InLoop

LEMMA TypeStep == TypeInv /\ [Next]_vars => TypeInv'
<1> SUFFICES ASSUME TypeInv, [Next]_vars
             PROVE  TypeInv'
  OBVIOUS
<1> USE DEF TypeInv, TypeOK, InLoop
<1>1. ASSUME NEW s \in Sessions, Start(s)
      PROVE  TypeInv'
  <2>1. TypeOK'
    BY <1>1, PlanAssumption DEF Start, db, world, tx, Done, Run
  <2>2. InLoop'
    BY <1>1, PlanAssumption DEF Start, Current
  <2> QED
    BY <2>1, <2>2
<1>2. ASSUME NEW s \in Sessions, CheckDone(s)
      PROVE  TypeInv'
  <2>1. index[s] + 1 \in 1 .. Len(Listed) + 1
    BY <1>2, CurrentIsStep DEF CheckDone
  <2>2. TypeOK'
    BY <1>2, <2>1 DEF CheckDone, db, world, tx
  <2>3. InLoop'
    BY <1>2 DEF CheckDone, Current
  <2> QED
    BY <2>2, <2>3
<1>3. ASSUME NEW s \in Sessions, AcquireLock(s)
      PROVE  TypeInv'
  <2>1. Current(s) \in Locked /\ Current(s) \in Steps /\ index[s] + 1 \in 1 .. Len(Listed) + 1
    BY <1>3, CurrentIsStep DEF AcquireLock
  <2>2. TypeOK'
    <3> DEFINE x == Current(s)
    <3>0. UNCHANGED <<db, world, requests, request, status, doneBefore, txRuns, txMarks>>
      BY <1>3 DEF AcquireLock
    <3>1. CASE Current(s) \in locks
      <4>1. /\ skipped' = [skipped EXCEPT ![s] = @ \cup {x}]
            /\ index' = [index EXCEPT ![s] = @ + 1]
            /\ pc' = [pc EXCEPT ![s] = "check"]
            /\ UNCHANGED <<txKeys, txLocks>>
        BY <1>3, <3>1 DEF AcquireLock
      <4> HIDE DEF x
      <4>2. x \in Steps
        BY <2>1 DEF x
      <4> QED
        BY <2>1, <3>0, <4>1, <4>2 DEF db, world
    <3>2. CASE Current(s) \notin locks
      <4>1. /\ txKeys' = [txKeys EXCEPT ![s] = @ \cup {x}]
            /\ txLocks' = [txLocks EXCEPT ![s] = @ \cup {x}]
            /\ pc' = [pc EXCEPT ![s] = "exec"]
            /\ UNCHANGED <<skipped, index>>
        BY <1>3, <3>2 DEF AcquireLock
      <4> HIDE DEF x
      <4>2. x \in Locked
        BY <2>1 DEF x
      <4> QED
        BY <3>0, <4>1, <4>2 DEF db, world
    <3> QED
      BY <3>1, <3>2
  <2>3. InLoop'
    BY <1>3 DEF AcquireLock, Current
  <2> QED
    BY <2>2, <2>3
<1>4. ASSUME NEW s \in Sessions, Execute(s)
      PROVE  TypeInv'
  <2>1. Current(s) \in Steps
    BY <1>4, CurrentIsStep DEF Execute
  <2>2. executed' \subseteq Steps /\ cancelled' \subseteq Steps
    BY <1>4, <2>1 DEF Execute
  <2>3. TypeOK'
    BY <1>4, <2>2 DEF Execute, Executed, db, world, tx
  <2>4. InLoop'
    BY <1>4 DEF Execute, Executed, Current
  <2> QED
    BY <2>3, <2>4
<1>5. ASSUME NEW s \in Sessions, Record(s)
      PROVE  TypeInv'
  <2>1. Current(s) \in Steps /\ index[s] + 1 \in 1 .. Len(Listed) + 1
    BY <1>5, CurrentIsStep DEF Record
  <2>2. [step |-> Current(s), request |-> request[s], status |-> status[s]] \in Run
    BY <1>5, <2>1 DEF Record, Run
  <2>3. txRuns' \in [Sessions -> SUBSET Run]
    BY <1>5, <2>2 DEF Record
  <2>4. txMarks' \in [Sessions -> SUBSET Locked] /\ txLocks' \in [Sessions -> SUBSET Locked]
    BY <1>5 DEF Record, Marked, ReleaseLock
  <2> QED
    BY <1>5, <2>1, <2>3, <2>4 DEF Record, db, world, Current
<1>6. ASSUME NEW s \in Sessions, Commit(s)
      PROVE  TypeInv'
  BY <1>6, PlanAssumption DEF Commit, EndTransaction, world, Current
<1>7. ASSUME NEW s \in Sessions, Rollback(s)
      PROVE  TypeInv'
  BY <1>7, PlanAssumption DEF Rollback, EndTransaction, db, world, Current
<1>8. CASE UNCHANGED vars
  BY <1>8 DEF vars, db, world, locals, tx, Current
<1> QED
  BY <1>1, <1>2, <1>3, <1>4, <1>5, <1>6, <1>7, <1>8, ExecuteCases DEF Next, LockTimeout, Crash, RefuseRun

LEMMA TypeAlways == Spec => []TypeInv
  BY TypeInit, TypeStep, PTL DEF Spec

\* Every reachable state is well typed.
THEOREM TypeCorrect == Spec => []TypeOK
<1>1. TypeInv => TypeOK
  BY DEF TypeInv
<1> QED
  BY <1>1, TypeAlways, PTL

-----------------------------------------------------------------------------
(* Locks.                                                                  *)

\* A request that executes an incremental step has inserted the step's lock, and
\* deletes it before it goes on; an inserted key belongs to one transaction.
LockInv ==
    /\ locks = {}
    /\ \A s \in Sessions :
          /\ skipped[s] = {}
          /\ pc[s] \in {"exec", "record"} /\ Current(s) \in Locked => Current(s) \in txKeys[s]
          /\ txLocks[s] \subseteq {Current(s)}
          /\ pc[s] \in {"idle", "check", "lock"} => txLocks[s] = {}
    /\ \A s, t \in Sessions : s # t => txKeys[s] \cap txKeys[t] = {}

LEMMA LockStep == TypeInv /\ LockInv /\ [Next]_vars => LockInv'
<1> SUFFICES ASSUME TypeInv, LockInv, [Next]_vars
             PROVE  LockInv'
  OBVIOUS
<1>0. /\ pc \in [Sessions -> {"idle", "check", "lock", "exec", "record"}]
      /\ index \in [Sessions -> 1 .. Len(Listed) + 1]
      /\ skipped \in [Sessions -> SUBSET Steps]
      /\ txKeys \in [Sessions -> SUBSET Locked] /\ txLocks \in [Sessions -> SUBSET Locked]
  BY DEF TypeInv, TypeOK
<1> USE DEF LockInv
<1>1. ASSUME NEW s \in Sessions, Start(s)
      PROVE  LockInv'
  BY <1>0, <1>1 DEF Start, db, tx, Current
<1>2. ASSUME NEW s \in Sessions, CheckDone(s)
      PROVE  LockInv'
  <2>1. /\ pc[s] = "check" /\ UNCHANGED <<locks, skipped, txKeys, txLocks>>
        /\ \A t \in Sessions \ {s} : pc'[t] = pc[t] /\ Current(t)' = Current(t)
    BY <1>0, <1>2 DEF CheckDone, db, tx, Current
  <2>2. pc'[s] \in {"check", "lock"} \/ (pc'[s] = "exec" /\ Current(s)' \notin Locked)
    BY <1>0, <1>2 DEF CheckDone, Current
  <2>3. txLocks[s] = {}
    BY <2>1
  <2> QED
    BY <2>1, <2>2, <2>3
<1>3. ASSUME NEW s \in Sessions, AcquireLock(s)
      PROVE  LockInv'
  <2> DEFINE x == Current(s)
  <2>1. /\ txKeys' = [txKeys EXCEPT ![s] = @ \cup {x}]
        /\ txLocks' = [txLocks EXCEPT ![s] = @ \cup {x}]
        /\ pc' = [pc EXCEPT ![s] = "exec"]
        /\ UNCHANGED <<locks, skipped, index>>
        /\ txLocks[s] = {}
        /\ \A t \in Sessions \ {s} : x \notin txKeys[t]
    BY <1>0, <1>3 DEF AcquireLock, KeyFree, db
  <2>2. \A t \in Sessions : Current(t)' = Current(t)
    BY <2>1 DEF Current
  <2>3. x = Current(s)
    OBVIOUS
  <2> HIDE DEF x
  <2> QED
    BY <1>0, <2>1, <2>2, <2>3
<1>4. ASSUME NEW s \in Sessions, Execute(s)
      PROVE  LockInv'
  BY <1>0, <1>4 DEF Execute, Executed, db, tx, Current
<1>5. ASSUME NEW s \in Sessions, Record(s)
      PROVE  LockInv'
  <2>1. /\ pc' = [pc EXCEPT ![s] = "check"] /\ index' = [index EXCEPT ![s] = @ + 1]
        /\ txLocks' = [txLocks EXCEPT ![s] = @ \ {Current(s)}]
        /\ UNCHANGED <<locks, skipped, txKeys>>
    BY <1>5 DEF Record, ReleaseLock, db
  <2>2. txLocks'[s] = {}
    BY <1>0, <2>1
  <2>3. \A t \in Sessions \ {s} : Current(t)' = Current(t) /\ txLocks'[t] = txLocks[t]
    BY <1>0, <2>1 DEF Current
  <2> QED
    BY <1>0, <2>1, <2>2, <2>3
<1>6. ASSUME NEW s \in Sessions, Commit(s)
      PROVE  LockInv'
  BY <1>0, <1>6 DEF Commit, EndTransaction, Current
<1>7. ASSUME NEW s \in Sessions, Rollback(s)
      PROVE  LockInv'
  BY <1>0, <1>7 DEF Rollback, EndTransaction, db, Current
<1>8. CASE UNCHANGED vars
  BY <1>8 DEF vars, db, world, locals, tx, Current
<1> QED
  BY <1>1, <1>2, <1>3, <1>4, <1>5, <1>6, <1>7, <1>8, ExecuteCases DEF Next, LockTimeout, Crash, RefuseRun

LEMMA LockAlways == Spec => []LockInv
<1>1. Init => LockInv
  BY DEF Init, LockInv
<1> QED
  BY <1>1, LockStep, TypeAlways, PTL DEF Spec

\* No two requests execute one incremental step at the same time.
THEOREM LockedStepsExclude == Spec => []LockedStepMutex
<1>1. LockInv => LockedStepMutex
  BY DEF LockInv, LockedStepMutex
<1> QED
  BY <1>1, LockAlways, PTL

\* No lock row outlives its request.
THEOREM LocksAreReleased == Spec => []NoOrphanLock
<1>1. LockInv => NoOrphanLock
  BY DEF LockInv, NoOrphanLock
<1> QED
  BY <1>1, LockAlways, PTL

-----------------------------------------------------------------------------
(* Records.                                                                *)

\* What a request has written and not committed is as true as what is committed.
RecordsInv ==
    /\ Done(runs) \subseteq Answered
    /\ watermarks = Done(runs) \cap Locked
    /\ \A s \in Sessions :
          /\ Done(txRuns[s]) \subseteq Answered
          /\ txMarks[s] = Done(txRuns[s]) \cap Locked
          /\ pc[s] = "record" /\ status[s] = "SUCCESS" => Current(s) \in Answered

LEMMA DoneUnion ==
    ASSUME NEW a, NEW b
    PROVE  Done(a \cup b) = Done(a) \cup Done(b)
  BY DEF Done

LEMMA DoneOne ==
    ASSUME NEW x, NEW q, NEW r
    PROVE  Done({[step |-> x, request |-> q, status |-> r]}) = IF r = "SUCCESS" THEN {x} ELSE {}
<1> DEFINE row == [step |-> x, request |-> q, status |-> r]
<1>1. row.status = r /\ row.step = x
  OBVIOUS
<1> HIDE DEF row
<1>2. Done({row}) = IF r = "SUCCESS" THEN {x} ELSE {}
  BY <1>1 DEF Done
<1> QED
  BY <1>2 DEF row

LEMMA RecordsStep == TypeInv /\ RecordsInv /\ [Next]_vars => RecordsInv'
<1> SUFFICES ASSUME TypeInv, RecordsInv, [Next]_vars
             PROVE  RecordsInv'
  OBVIOUS
<1>0. /\ pc \in [Sessions -> {"idle", "check", "lock", "exec", "record"}]
      /\ index \in [Sessions -> 1 .. Len(Listed) + 1]
      /\ status \in [Sessions -> {"none", "SUCCESS", "FAIL"}]
      /\ txRuns \in [Sessions -> SUBSET Run] /\ txMarks \in [Sessions -> SUBSET Locked]
  BY DEF TypeInv, TypeOK
<1> USE DEF RecordsInv, Answered, world
<1>1. ASSUME NEW s \in Sessions, Start(s)
      PROVE  RecordsInv'
  BY <1>0, <1>1 DEF Start, db, tx, Current
<1>2. ASSUME NEW s \in Sessions, CheckDone(s)
      PROVE  RecordsInv'
  BY <1>0, <1>2 DEF CheckDone, db, tx, Current
<1>3. ASSUME NEW s \in Sessions, AcquireLock(s)
      PROVE  RecordsInv'
  BY <1>0, <1>3 DEF AcquireLock, db, Current
<1>4. ASSUME NEW s \in Sessions, ExecuteOk(s) \/ ExecuteFail(s) \/ ExecuteCancelled(s)
      PROVE  RecordsInv'
  <2>1. /\ pc' = [pc EXCEPT ![s] = "record"]
        /\ \/ status' = [status EXCEPT ![s] = "SUCCESS"] /\ Answered' = Answered \cup {Current(s)}
           \/ status' = [status EXCEPT ![s] = "FAIL"] /\ Answered \subseteq Answered'
        /\ UNCHANGED <<runs, watermarks, index, txRuns, txMarks>>
    BY <1>4 DEF ExecuteOk, ExecuteFail, ExecuteCancelled, Executed, db, tx
  <2>2. \A t \in Sessions : Current(t)' = Current(t)
    BY <2>1 DEF Current
  <2> QED
    BY <1>0, <2>1, <2>2
<1>5. ASSUME NEW s \in Sessions, Record(s)
      PROVE  RecordsInv'
  <2> DEFINE row == [step |-> Current(s), request |-> request[s], status |-> status[s]]
  <2>1. /\ pc' = [pc EXCEPT ![s] = "check"]
        /\ index' = [index EXCEPT ![s] = @ + 1]
        /\ txRuns' = [txRuns EXCEPT ![s] = @ \cup {row}]
        /\ txMarks' = [txMarks EXCEPT ![s] = @ \cup Marked(s)]
        /\ status' = [status EXCEPT ![s] = "none"]
        /\ UNCHANGED <<runs, watermarks, Answered>>
        /\ pc[s] = "record"
    BY <1>5 DEF Record, db
  <2>2. Done(txRuns'[s]) = Done(txRuns[s]) \cup (IF status[s] = "SUCCESS" THEN {Current(s)} ELSE {})
    <3>1. txRuns'[s] = txRuns[s] \cup {row}
      BY <1>0, <2>1
    <3>2. Done({row}) = IF status[s] = "SUCCESS" THEN {Current(s)} ELSE {}
      BY DoneOne
    <3> HIDE DEF row
    <3>3. Done(txRuns[s] \cup {row}) = Done(txRuns[s]) \cup Done({row})
      BY DoneUnion
    <3> QED
      BY <3>1, <3>2, <3>3
  <2>3. txMarks'[s] = txMarks[s] \cup Marked(s)
    BY <1>0, <2>1
  <2>4. Done(txRuns'[s]) \subseteq Answered /\ txMarks'[s] = Done(txRuns'[s]) \cap Locked
    BY <1>0, <2>1, <2>2, <2>3 DEF Marked
  <2>5. \A t \in Sessions \ {s} :
            /\ txRuns'[t] = txRuns[t] /\ txMarks'[t] = txMarks[t] /\ pc'[t] = pc[t]
            /\ status'[t] = status[t] /\ Current(t)' = Current(t)
    BY <1>0, <2>1 DEF Current
  <2>6. pc'[s] = "check" /\ UNCHANGED <<runs, watermarks, Answered>>
    BY <1>0, <2>1
  <2> HIDE DEF row
  <2> QED
    BY <2>4, <2>5, <2>6
<1>6. ASSUME NEW s \in Sessions, Commit(s)
      PROVE  RecordsInv'
  <2>1. /\ runs' = runs \cup txRuns[s] /\ watermarks' = watermarks \cup txMarks[s]
        /\ pc' = [pc EXCEPT ![s] = "idle"] /\ index' = [index EXCEPT ![s] = 1]
        /\ txRuns' = [txRuns EXCEPT ![s] = {}] /\ txMarks' = [txMarks EXCEPT ![s] = {}]
        /\ status' = [status EXCEPT ![s] = "none"] /\ Answered' = Answered
    BY <1>6 DEF Commit, EndTransaction
  <2>2. Done(runs') = Done(runs) \cup Done(txRuns[s])
    BY <2>1, DoneUnion
  <2>3. Done({}) = {}
    BY DEF Done
  <2>4. \A t \in Sessions \ {s} :
            /\ txRuns'[t] = txRuns[t] /\ txMarks'[t] = txMarks[t] /\ pc'[t] = pc[t]
            /\ status'[t] = status[t] /\ Current(t)' = Current(t)
    BY <1>0, <2>1 DEF Current
  <2>5. pc'[s] = "idle" /\ txRuns'[s] = {} /\ txMarks'[s] = {}
    BY <1>0, <2>1
  <2> QED
    BY <2>1, <2>2, <2>3, <2>4, <2>5
<1>7. ASSUME NEW s \in Sessions, Rollback(s)
      PROVE  RecordsInv'
  <2>1. Done({}) = {}
    BY DEF Done
  <2> QED
    BY <1>0, <1>7, <2>1 DEF Rollback, EndTransaction, db, Current
<1>8. CASE UNCHANGED vars
  BY <1>8 DEF vars, db, world, locals, tx, Current
<1> QED
  BY <1>1, <1>2, <1>3, <1>4, <1>5, <1>6, <1>7, <1>8
  DEF Next, LockTimeout, Crash, RefuseRun

LEMMA RecordsAlways == Spec => []RecordsInv
<1>1. Init => RecordsInv
  BY DEF Init, RecordsInv, Done
<1> QED
  BY <1>1, RecordsStep, TypeAlways, PTL DEF Spec

\* What the state store says was done was executed, or cancelled in the workspace.
THEOREM RecordsAreTrue == Spec => []RecordsTrue
<1>1. RecordsInv => RecordsTrue
  BY DEF RecordsInv, RecordsTrue
<1> QED
  BY <1>1, RecordsAlways, PTL

-----------------------------------------------------------------------------
(* The ledger.                                                             *)

\* The rows a request has not committed carry its number.
PostInv ==
    \A s \in Sessions :
        /\ pc[s] = "idle" => txRuns[s] = {}
        /\ \A q \in txRuns[s] : q.request = request[s]

LEMMA PostStep == TypeInv /\ PostInv /\ [Next]_vars => PostInv'
<1> SUFFICES ASSUME TypeInv, PostInv, [Next]_vars
             PROVE  PostInv'
  OBVIOUS
<1>0. /\ pc \in [Sessions -> {"idle", "check", "lock", "exec", "record"}]
      /\ request \in [Sessions -> 0 .. MaxRequests] /\ txRuns \in [Sessions -> SUBSET Run]
  BY DEF TypeInv, TypeOK
<1> USE DEF PostInv
<1>1. ASSUME NEW s \in Sessions, Start(s)
      PROVE  PostInv'
  <2>1. /\ txRuns[s] = {} /\ txRuns' = txRuns /\ pc'[s] = "check"
        /\ \A t \in Sessions \ {s} : pc'[t] = pc[t] /\ request'[t] = request[t]
    BY <1>0, <1>1 DEF Start, tx
  <2> QED
    BY <2>1
<1>2. ASSUME NEW s \in Sessions, CheckDone(s) \/ AcquireLock(s) \/ Execute(s)
      PROVE  PostInv'
  <2>1. /\ UNCHANGED <<request, txRuns>> /\ pc[s] # "idle" /\ pc'[s] # "idle"
        /\ \A t \in Sessions \ {s} : pc'[t] = pc[t]
    BY <1>0, <1>2 DEF CheckDone, AcquireLock, Execute, Executed, tx
  <2> QED
    BY <2>1
<1>3. ASSUME NEW s \in Sessions, Record(s)
      PROVE  PostInv'
  <2> DEFINE row == [step |-> Current(s), request |-> request[s], status |-> status[s]]
  <2>1. row.request = request[s]
    OBVIOUS
  <2>2. /\ request' = request /\ txRuns' = [txRuns EXCEPT ![s] = @ \cup {row}]
        /\ pc'[s] # "idle" /\ \A t \in Sessions \ {s} : pc'[t] = pc[t]
    BY <1>0, <1>3 DEF Record
  <2> HIDE DEF row
  <2> QED
    BY <1>0, <2>1, <2>2
<1>4. ASSUME NEW s \in Sessions, EndTransaction(s)
      PROVE  PostInv'
  <2>1. /\ txRuns'[s] = {}
        /\ \A t \in Sessions \ {s} :
              pc'[t] = pc[t] /\ request'[t] = request[t] /\ txRuns'[t] = txRuns[t]
    BY <1>0, <1>4 DEF EndTransaction
  <2> QED
    BY <2>1
<1>5. CASE UNCHANGED vars
  BY <1>5 DEF vars, locals, tx
<1> QED
  BY <1>1, <1>2, <1>3, <1>4, <1>5, ExecuteCases
  DEF Next, LockTimeout, Crash, RefuseRun, Rollback, Commit

LEMMA PostAlways == Spec => []PostInv
<1>1. Init => PostInv
  BY DEF Init, PostInv
<1> QED
  BY <1>1, PostStep, TypeAlways, PTL DEF Spec

\* What a request posts when it commits: the steps it has SUCCESS runs of.
LEMMA CommitPosts ==
    ASSUME TypeInv, RecordsInv, PostInv, NEW s \in Sessions, Commit(s)
    PROVE  Store!Post(Done(txRuns[s]), {request[s]})
<1> DEFINE work == Done(txRuns[s])
           Of(r, rows) == {q \in rows : q.request = r}
<1>1. /\ runs' = runs \cup txRuns[s] /\ watermarks' = watermarks \cup txMarks[s]
      /\ Answered' = Answered
  BY DEF Commit, world, Answered
<1>2. work \subseteq Answered /\ txMarks[s] = work \cap Locked
  BY DEF RecordsInv
<1>3. Done(runs)' = Done(runs) \cup work
  BY <1>1, DoneUnion
<1>4. ASSUME NEW r \in 1 .. MaxRequests
      PROVE  Done(Of(r, runs')) = IF r \in {request[s]} THEN Done(Of(r, runs)) \cup work
                                                        ELSE Done(Of(r, runs))
  <2>1. CASE r = request[s]
    <3>1. Of(r, runs') = Of(r, runs) \cup txRuns[s]
      BY <1>1, <2>1 DEF PostInv
    <3> QED
      BY <2>1, <3>1, DoneUnion
  <2>2. CASE r # request[s]
    <3>1. Of(r, runs') = Of(r, runs)
      BY <1>1, <2>2 DEF PostInv
    <3> QED
      BY <2>2, <3>1
  <2> QED
    BY <2>1, <2>2
<1> HIDE DEF work
<1>5. [r \in 1 .. MaxRequests |-> Done({q \in runs : q.request = r})]' =
          [r \in 1 .. MaxRequests |->
              IF r \in {request[s]}
              THEN [i \in 1 .. MaxRequests |-> Done({q \in runs : q.request = i})][r] \cup work
              ELSE [i \in 1 .. MaxRequests |-> Done({q \in runs : q.request = i})][r]]
  BY <1>4
<1>6. Store!Post(work, {request[s]})
  BY <1>1, <1>2, <1>3, <1>5 DEF Store!Post
<1> QED
  BY <1>6 DEF work

\* Every step of PlanApply is one of Ledger or changes nothing of what it shows.
LEMMA StoreStep ==
    TypeInv /\ RecordsInv /\ PostInv /\ [Next]_vars => [Store!Next]_(Store!vars)
<1> SUFFICES ASSUME TypeInv, RecordsInv, PostInv, [Next]_vars
             PROVE  [Store!Next]_(Store!vars)
  OBVIOUS
<1>1. ASSUME UNCHANGED <<runs, watermarks, Answered>>
      PROVE  UNCHANGED Store!vars
  BY <1>1 DEF Store!vars
<1>2. ASSUME NEW s \in Sessions, Commit(s)
      PROVE  Store!Next
  <2>1. Done(txRuns[s]) \in SUBSET Answered
    BY DEF RecordsInv
  <2>2. request[s] \in 1 .. MaxRequests
    BY <1>2 DEF Commit, TypeInv, InLoop
  <2> QED
    BY <1>2, <2>1, <2>2, CommitPosts DEF Store!Next
<1>3. ASSUME NEW s \in Sessions, ExecuteOk(s) \/ ExecuteFail(s) \/ ExecuteCancelled(s)
      PROVE  Store!Next
  <2>1. Current(s) \in Steps
    BY <1>3, CurrentIsStep DEF ExecuteOk, ExecuteFail, ExecuteCancelled, TypeInv, InLoop
  <2>2. /\ UNCHANGED <<runs, watermarks>>
        /\ \/ Answered' = Answered \cup {Current(s)}
           \/ Answered' = Answered \cup {}
    BY <1>3 DEF ExecuteOk, ExecuteFail, ExecuteCancelled, Executed, db, Answered
  <2>3. \E work \in SUBSET Steps : Answered' = Answered \cup work
    BY <2>1, <2>2
  <2>4. Store!Answer
    BY <2>2, <2>3 DEF Store!Answer
  <2> QED
    BY <2>4 DEF Store!Next
<1>4. ASSUME NEW s \in Sessions,
             Start(s) \/ CheckDone(s) \/ AcquireLock(s) \/ Record(s) \/ Rollback(s)
      PROVE  UNCHANGED <<runs, watermarks, Answered>>
  BY <1>4 DEF Start, CheckDone, AcquireLock, Record, Rollback, db, world, Answered
<1>5. CASE UNCHANGED vars
  BY <1>1, <1>5 DEF vars, db, world, Answered
<1> QED
  BY <1>1, <1>2, <1>3, <1>4, <1>5 DEF Next, LockTimeout, Crash, RefuseRun

\* The records of a plan are a ledger.
THEOREM KeepsLedger == Spec => LedgerIsKept
<1>1. Init => Store!Init
  BY DEF Init, Store!Init, Answered, Done
<1> QED
  BY <1>1, StoreStep, PostAlways, TypeAlways, RecordsAlways, PTL
  DEF Spec, LedgerIsKept, Store!Spec

\* What follows from the ledger alone: no request has a SUCCESS run of a step that was
\* not done, and its watermarks are those of the incremental steps it did.
THEOREM BooksAgree == Spec => []Store!BooksAgree
<1>1. Store!Init => Store!BooksAgree
  BY DEF Store!Init, Store!BooksAgree
<1>2. Store!BooksAgree /\ [Store!Next]_(Store!vars) => Store!BooksAgree'
  BY DEF Store!BooksAgree, Store!Next, Store!Answer, Store!Post, Store!vars
<1> QED
  BY <1>1, <1>2, KeepsLedger, PTL DEF LedgerIsKept, Store!Spec

-----------------------------------------------------------------------------
(* Answers.                                                                *)

HasAnswer(s, x) ==
    \/ x \in Done(runs \cup txRuns[s])
    \/ [step |-> x, request |-> request[s], status |-> "FAIL"] \in txRuns[s]

\* Every step the loop has passed has its answer.
HasAnswerInv ==
    \A s \in Sessions :
        /\ pc[s] = "idle" => index[s] = 1
        /\ \A i \in 1 .. index[s] - 1 : HasAnswer(s, Listed[i])

\* An answer survives whatever adds rows and leaves the request the same.
LEMMA AnswerStays ==
    ASSUME NEW s, NEW x, HasAnswer(s, x), runs \subseteq runs', txRuns[s] \subseteq txRuns'[s],
           request'[s] = request[s]
    PROVE  HasAnswer(s, x)'
  BY DEF HasAnswer, Done

LEMMA AnswerStep == TypeInv /\ LockInv /\ HasAnswerInv /\ [Next]_vars => HasAnswerInv'
<1> SUFFICES ASSUME TypeInv, LockInv, HasAnswerInv, [Next]_vars,
                    NEW t \in Sessions
             PROVE  /\ pc'[t] = "idle" => index'[t] = 1
                    /\ \A i \in 1 .. index'[t] - 1 : HasAnswer(t, Listed[i])'
  BY DEF HasAnswerInv
<1>0. /\ pc \in [Sessions -> {"idle", "check", "lock", "exec", "record"}]
      /\ index \in [Sessions -> 1 .. Len(Listed) + 1]
      /\ request \in [Sessions -> 0 .. MaxRequests]
      /\ status \in [Sessions -> {"none", "SUCCESS", "FAIL"}]
      /\ skipped \in [Sessions -> SUBSET Steps]
      /\ doneBefore \in [Sessions -> SUBSET Steps]
      /\ txRuns \in [Sessions -> SUBSET Run]
  BY DEF TypeInv, TypeOK
\* A step that only adds rows, and does not move the loop of t.
<1>a. ASSUME runs \subseteq runs', txRuns[t] \subseteq txRuns'[t], request'[t] = request[t],
             index'[t] = index[t], pc'[t] = "idle" => pc[t] = "idle"
      PROVE  /\ pc'[t] = "idle" => index'[t] = 1
             /\ \A i \in 1 .. index'[t] - 1 : HasAnswer(t, Listed[i])'
  BY <1>a, AnswerStays DEF HasAnswerInv
\* A step that answers the step t has reached, and moves its loop to the next.
<1>b. ASSUME NEW x, x = Listed[index[t]], runs \subseteq runs', txRuns[t] \subseteq txRuns'[t], request'[t] = request[t],
             index'[t] = index[t] + 1, pc'[t] # "idle", HasAnswer(t, x)'
      PROVE  /\ pc'[t] = "idle" => index'[t] = 1
             /\ \A i \in 1 .. index'[t] - 1 : HasAnswer(t, Listed[i])'
  <2> SUFFICES ASSUME NEW i \in 1 .. index'[t] - 1
               PROVE  HasAnswer(t, Listed[i])'
    BY <1>b
  <2>1. i \in 1 .. index[t] - 1 \/ i = index[t]
    BY <1>0, <1>b
  <2>2. CASE i \in 1 .. index[t] - 1
    <3>1. HasAnswer(t, Listed[i])
      BY <2>2 DEF HasAnswerInv
    <3> QED
      BY <1>b, <3>1, AnswerStays
  <2> QED
    BY <1>b, <2>1, <2>2
\* The end of the transaction of t.
<1>c. ASSUME index'[t] = 1
      PROVE  /\ pc'[t] = "idle" => index'[t] = 1
             /\ \A i \in 1 .. index'[t] - 1 : HasAnswer(t, Listed[i])'
  BY <1>c
<1>1. ASSUME NEW s \in Sessions, Start(s)
      PROVE  /\ pc'[t] = "idle" => index'[t] = 1
             /\ \A i \in 1 .. index'[t] - 1 : HasAnswer(t, Listed[i])'
  <2>1. /\ runs' = runs /\ txRuns' = txRuns /\ index' = index /\ pc[s] = "idle"
        /\ request' = [request EXCEPT ![s] = requests + 1]
        /\ pc' = [pc EXCEPT ![s] = "check"]
    BY <1>1 DEF Start, db, tx
  <2>2. CASE t = s
    BY <2>1, <2>2, <1>c DEF HasAnswerInv
  <2>3. CASE t # s
    BY <1>0, <1>a, <2>1, <2>3
  <2> QED
    BY <2>2, <2>3
<1>2. ASSUME NEW s \in Sessions, CheckDone(s)
      PROVE  /\ pc'[t] = "idle" => index'[t] = 1
             /\ \A i \in 1 .. index'[t] - 1 : HasAnswer(t, Listed[i])'
  <2>1. runs' = runs /\ txRuns' = txRuns /\ request' = request
    BY <1>2 DEF CheckDone, db, tx
  <2>2. CASE t = s /\ AlreadyDone(s)
    <3>1. index'[t] = index[t] + 1 /\ pc'[t] = "check"
      BY <1>0, <1>2, <2>2 DEF CheckDone
    <3>2. PICK x : x = Listed[index[t]]
      OBVIOUS
    <3>3. HasAnswer(t, x)'
      BY <2>1, <2>2, <3>2 DEF AlreadyDone, HasAnswer, Done, Current
    <3> QED
      BY <1>b, <2>1, <3>1, <3>2, <3>3
  <2>3. CASE ~(t = s /\ AlreadyDone(s))
    <3>1. index'[t] = index[t] /\ (pc'[t] = "idle" => pc[t] = "idle")
      BY <1>0, <1>2, <2>3 DEF CheckDone
    <3> QED
      BY <1>a, <2>1, <3>1
  <2> QED
    BY <2>2, <2>3
\* No lock row is committed, so acquire_lock never skips a step.
<1>3. ASSUME NEW s \in Sessions, AcquireLock(s)
      PROVE  /\ pc'[t] = "idle" => index'[t] = 1
             /\ \A i \in 1 .. index'[t] - 1 : HasAnswer(t, Listed[i])'
  <2>1. /\ runs' = runs /\ txRuns' = txRuns /\ request' = request /\ index' = index
        /\ pc' = [pc EXCEPT ![s] = "exec"]
    BY <1>3 DEF AcquireLock, LockInv, db
  <2> QED
    BY <1>0, <1>a, <2>1
<1>4. ASSUME NEW s \in Sessions, Execute(s)
      PROVE  /\ pc'[t] = "idle" => index'[t] = 1
             /\ \A i \in 1 .. index'[t] - 1 : HasAnswer(t, Listed[i])'
  <2>1. /\ runs' = runs /\ txRuns' = txRuns /\ request' = request /\ index' = index
        /\ pc' = [pc EXCEPT ![s] = "record"]
    BY <1>4 DEF Execute, Executed, db, tx
  <2> QED
    BY <1>0, <1>a, <2>1
<1>5. ASSUME NEW s \in Sessions, Record(s)
      PROVE  /\ pc'[t] = "idle" => index'[t] = 1
             /\ \A i \in 1 .. index'[t] - 1 : HasAnswer(t, Listed[i])'
  <2> DEFINE row == [step |-> Current(s), request |-> request[s], status |-> status[s]]
  <2>1. /\ runs' = runs /\ request' = request
        /\ txRuns' = [txRuns EXCEPT ![s] = @ \cup {row}]
        /\ index' = [index EXCEPT ![s] = @ + 1]
        /\ pc' = [pc EXCEPT ![s] = "check"]
    BY <1>5 DEF Record, db
  <2>2. status[s] \in {"SUCCESS", "FAIL"}
    BY <1>0, <1>5 DEF Record, TypeInv, InLoop
  <2>3. CASE t = s
    <3>1. row \in txRuns'[s] /\ txRuns[s] \subseteq txRuns'[s]
      <4> HIDE DEF row
      <4> QED
        BY <1>0, <2>1
    <3>2. PICK x : x = Listed[index[s]]
      OBVIOUS
    <3>3. HasAnswer(s, x)'
      <4>1. CASE status[s] = "FAIL"
        BY <2>1, <3>1, <3>2, <4>1 DEF HasAnswer, Current
      <4>2. CASE status[s] = "SUCCESS"
        <5>1. row.status = "SUCCESS" /\ row.step = x
          BY <3>2, <4>2 DEF Current
        <5> HIDE DEF row
        <5> QED
          BY <3>1, <5>1 DEF HasAnswer, Done
      <4> QED
        BY <2>2, <4>1, <4>2
    <3> HIDE DEF row
    <3>4. index'[s] = index[s] + 1 /\ pc'[s] # "idle"
      BY <1>0, <2>1
    <3> QED
      BY <1>b, <2>1, <2>3, <3>1, <3>2, <3>3, <3>4
  <2>4. CASE t # s
    <3> HIDE DEF row
    <3> QED
      BY <1>0, <1>a, <2>1, <2>4
  <2> QED
    BY <2>3, <2>4
<1>6. ASSUME NEW s \in Sessions, EndTransaction(s), runs \subseteq runs'
      PROVE  /\ pc'[t] = "idle" => index'[t] = 1
             /\ \A i \in 1 .. index'[t] - 1 : HasAnswer(t, Listed[i])'
  <2>1. CASE t = s
    BY <1>0, <1>6, <1>c, <2>1 DEF EndTransaction
  <2>2. CASE t # s
    <3>1. /\ index'[t] = index[t] /\ pc'[t] = pc[t] /\ txRuns'[t] = txRuns[t]
          /\ request'[t] = request[t]
      BY <1>0, <1>6, <2>2 DEF EndTransaction
    <3> QED
      BY <1>6, <1>a, <3>1
  <2> QED
    BY <2>1, <2>2
<1>7. CASE UNCHANGED vars
  BY <1>7, <1>a DEF vars, db, world, locals, tx
<1> QED
  BY <1>1, <1>2, <1>3, <1>4, <1>5, <1>6, <1>7, ExecuteCases
  DEF Next, LockTimeout, Crash, RefuseRun, Rollback, Commit, db

\* When a request is answered, each step is done or has a run of this request
\* that says it failed.
THEOREM StepsAreAnswered == Spec => []EveryStepAnswered
<1>1. Init => HasAnswerInv
  BY DEF Init, HasAnswerInv
<1>2. TypeInv /\ HasAnswerInv => EveryStepAnswered
  <2> SUFFICES ASSUME TypeInv, HasAnswerInv, NEW s \in Sessions, index[s] > Len(Listed),
                      NEW x \in Steps
               PROVE  HasAnswer(s, x)
    BY DEF EveryStepAnswered, HasAnswer
  <2>1. PICK i \in 1 .. Len(Listed) : x = Listed[i]
    BY PlanAssumption
  <2>2. i \in 1 .. index[s] - 1
    BY <2>1, PlanAssumption DEF TypeInv, TypeOK
  <2> QED
    BY <2>1, <2>2 DEF HasAnswerInv
<1> QED
  BY <1>1, <1>2, AnswerStep, TypeAlways, LockAlways, PTL DEF Spec

-----------------------------------------------------------------------------
(* Retries.                                                                *)

\* What was done when the request began is still done, and a step the request
\* locks or executes was not.
RetryInv ==
    \A s \in Sessions :
        /\ doneBefore[s] \subseteq Done(runs)
        /\ pc[s] \in {"lock", "exec"} => Current(s) \notin doneBefore[s]

LEMMA RetryStep == TypeInv /\ RetryInv /\ [Next]_vars => RetryInv'
<1> SUFFICES ASSUME TypeInv, RetryInv, [Next]_vars
             PROVE  RetryInv'
  OBVIOUS
<1>0. /\ pc \in [Sessions -> {"idle", "check", "lock", "exec", "record"}]
      /\ index \in [Sessions -> 1 .. Len(Listed) + 1]
      /\ doneBefore \in [Sessions -> SUBSET Steps]
  BY DEF TypeInv, TypeOK
<1>a. ASSUME runs \subseteq runs'
      PROVE  Done(runs) \subseteq Done(runs')
  BY <1>a DEF Done
<1> USE DEF RetryInv
<1>1. ASSUME NEW s \in Sessions, Start(s)
      PROVE  RetryInv'
  <2>1. /\ doneBefore' = [doneBefore EXCEPT ![s] = Done(runs)]
        /\ pc' = [pc EXCEPT ![s] = "check"] /\ runs' = runs /\ index' = index
    BY <1>1 DEF Start, db
  <2>2. \A t \in Sessions : Current(t)' = Current(t)
    BY <2>1 DEF Current
  <2> QED
    BY <1>0, <2>1, <2>2
<1>2. ASSUME NEW s \in Sessions, CheckDone(s)
      PROVE  RetryInv'
  <2>1. doneBefore' = doneBefore /\ runs' = runs /\ txRuns' = txRuns
    BY <1>2 DEF CheckDone, db, tx
  <2>2. \A t \in Sessions \ {s} : pc'[t] = pc[t] /\ Current(t)' = Current(t)
    BY <1>0, <1>2 DEF CheckDone, Current
  <2>3. CASE AlreadyDone(s)
    <3>1. pc' = pc /\ pc[s] = "check"
      BY <1>2, <2>3 DEF CheckDone
    <3> QED
      BY <2>1, <2>2, <3>1
  <2>4. CASE ~AlreadyDone(s)
    <3>1. Current(s)' = Current(s) /\ Current(s) \notin Done(runs)
      BY <1>2, <2>4 DEF CheckDone, AlreadyDone, Current, Done
    <3> QED
      BY <2>1, <2>2, <3>1
  <2> QED
    BY <2>3, <2>4
<1>3. ASSUME NEW s \in Sessions, AcquireLock(s)
      PROVE  RetryInv'
  BY <1>0, <1>3 DEF AcquireLock, db, Current
<1>4. ASSUME NEW s \in Sessions, Execute(s)
      PROVE  RetryInv'
  BY <1>0, <1>4 DEF Execute, Executed, db, Current
<1>5. ASSUME NEW s \in Sessions, Record(s)
      PROVE  RetryInv'
  BY <1>0, <1>5 DEF Record, db, Current
<1>6. ASSUME NEW s \in Sessions, EndTransaction(s), runs \subseteq runs'
      PROVE  RetryInv'
  <2>1. /\ pc' = [pc EXCEPT ![s] = "idle"] /\ index' = [index EXCEPT ![s] = 1]
        /\ doneBefore' = [doneBefore EXCEPT ![s] = {}]
    BY <1>6 DEF EndTransaction
  <2>2. \A t \in Sessions \ {s} : Current(t)' = Current(t)
    BY <1>0, <2>1 DEF Current
  <2> QED
    BY <1>0, <1>6, <1>a, <2>1, <2>2
<1>7. CASE UNCHANGED vars
  BY <1>7 DEF vars, db, world, locals, tx, Current
<1> QED
  BY <1>1, <1>2, <1>3, <1>4, <1>5, <1>6, <1>7, ExecuteCases
  DEF Next, LockTimeout, Crash, RefuseRun, Rollback, Commit, db

\* A request never executes a step that was done when it began.
THEOREM RetriesSkipDone == Spec => RetrySkipsDone
<1>1. Init => RetryInv
  BY DEF Init, RetryInv
<1>2. RetryInv => [\A s \in Sessions :
                      ExecuteOk(s) \/ ExecuteFail(s) => Current(s) \notin doneBefore[s]]_vars
  BY DEF RetryInv, ExecuteOk, ExecuteFail
<1> QED
  BY <1>1, <1>2, RetryStep, TypeAlways, PTL DEF Spec, RetrySkipsDone

-----------------------------------------------------------------------------
(* Termination: a request is answered after a bounded number of steps.     *)

\* What a request does by itself once it has started.
GoOn(s) ==
    \/ CheckDone(s) \/ AcquireLock(s)
    \/ ExecuteOk(s) \/ ExecuteFail(s) \/ ExecuteCancelled(s)
    \/ Record(s) \/ RefuseRun(s) \/ Commit(s) \/ LockTimeout(s)

\* At most how many steps request s still makes: a step of the plan takes four, the
\* check, the lock, the execution and the record, and the commit one.
StepsLeft(s) ==
    LET ahead == 4 * (Len(Listed) + 1 - index[s])
    IN  CASE pc[s] = "check"  -> ahead + 1
          [] pc[s] = "lock"   -> ahead
          [] pc[s] = "exec"   -> ahead - 1
          [] pc[s] = "record" -> ahead - 2
          [] pc[s] = "idle"   -> 0

LEMMA StepsLeftIsNat ==
    ASSUME TypeInv, NEW s \in Sessions
    PROVE  StepsLeft(s) \in Nat /\ (pc[s] # "idle" => StepsLeft(s) > 0)
<1>1. /\ pc[s] \in {"idle", "check", "lock", "exec", "record"}
      /\ index[s] \in Nat /\ Len(Listed) \in Nat /\ index[s] <= Len(Listed) + 1
      /\ pc[s] \in {"lock", "exec", "record"} => index[s] <= Len(Listed)
  BY PlanAssumption DEF TypeInv, TypeOK, InLoop
<1> DEFINE ahead == 4 * (Len(Listed) + 1 - index[s])
<1>2. ahead \in Nat /\ (pc[s] \in {"lock", "exec", "record"} => ahead >= 4)
  BY <1>1
<1>3. /\ pc[s] = "check" => StepsLeft(s) = ahead + 1
      /\ pc[s] = "lock" => StepsLeft(s) = ahead
      /\ pc[s] = "exec" => StepsLeft(s) = ahead - 1
      /\ pc[s] = "record" => StepsLeft(s) = ahead - 2
      /\ pc[s] = "idle" => StepsLeft(s) = 0
  BY DEF StepsLeft
<1> HIDE DEF ahead
<1> QED
  BY <1>1, <1>2, <1>3

\* What a request does by itself brings its end nearer.
LEMMA StepsGoOn ==
    ASSUME TypeInv, NEW s \in Sessions, GoOn(s)
    PROVE  StepsLeft(s)' \in 0 .. StepsLeft(s) - 1
<1>0. /\ pc \in [Sessions -> {"idle", "check", "lock", "exec", "record"}]
      /\ index \in [Sessions -> 1 .. Len(Listed) + 1] /\ Len(Listed) \in Nat
  BY PlanAssumption DEF TypeInv, TypeOK
<1>1. CASE Rollback(s) \/ Commit(s)
  <2>1. pc'[s] = "idle" /\ pc[s] # "idle"
    BY <1>0, <1>1 DEF Rollback, Commit, EndTransaction, GoOn, CheckDone, AcquireLock,
       ExecuteOk, ExecuteFail, ExecuteCancelled, Record, RefuseRun, LockTimeout
  <2>2. StepsLeft(s)' = 0
    BY <2>1 DEF StepsLeft
  <2> QED
    BY <2>1, <2>2, StepsLeftIsNat
<1>2. CASE CheckDone(s) \/ AcquireLock(s) \/ Execute(s) \/ Record(s)
  <2>1. index[s] \in 1 .. Len(Listed)
    BY <1>0, <1>2 DEF CheckDone, AcquireLock, Execute, Record, TypeInv, InLoop
  <2>2. \/ pc[s] = "check" /\ pc'[s] \in {"lock", "exec"} /\ index'[s] = index[s]
        \/ pc[s] = "lock" /\ pc'[s] = "exec" /\ index'[s] = index[s]
        \/ pc[s] = "exec" /\ pc'[s] = "record" /\ index'[s] = index[s]
        \/ pc[s] \in {"check", "lock", "record"} /\ pc'[s] = "check" /\ index'[s] = index[s] + 1
    BY <1>0, <1>2 DEF CheckDone, AcquireLock, Execute, Executed, Record
  <2> DEFINE ahead == 4 * (Len(Listed) + 1 - index[s])
  <2> DEFINE i == index[s]
             k == index'[s]
             n == Len(Listed)
  <2>3. /\ ahead \in Nat /\ ahead >= 4
        /\ k = i => ahead' = ahead
        /\ k = i + 1 => ahead' = ahead - 4
    <3>1. /\ i \in Nat /\ n \in Nat /\ i <= n
          /\ ahead = 4 * (n + 1 - i) /\ ahead' = 4 * (n + 1 - k)
      BY <1>0, <2>1
    <3> HIDE DEF ahead, i, k, n
    <3> QED
      BY <3>1
  <2>4. /\ pc[s] = "check" => StepsLeft(s) = ahead + 1
        /\ pc[s] = "lock" => StepsLeft(s) = ahead
        /\ pc[s] = "exec" => StepsLeft(s) = ahead - 1
        /\ pc[s] = "record" => StepsLeft(s) = ahead - 2
    BY DEF StepsLeft
  <2>5. /\ pc'[s] = "check" => StepsLeft(s)' = ahead' + 1
        /\ pc'[s] = "lock" => StepsLeft(s)' = ahead'
        /\ pc'[s] = "exec" => StepsLeft(s)' = ahead' - 1
        /\ pc'[s] = "record" => StepsLeft(s)' = ahead' - 2
    BY DEF StepsLeft
  <2> HIDE DEF ahead
  <2> QED
    BY <2>2, <2>3, <2>4, <2>5
<1> QED
  BY <1>1, <1>2, ExecuteCases DEF GoOn, LockTimeout, RefuseRun

\* What others do leaves it as it is.
LEMMA StepsStay ==
    ASSUME TypeInv, [Next]_vars, NEW s \in Sessions, pc[s] # "idle"
    PROVE  StepsLeft(s)' \in 0 .. StepsLeft(s)
<1>0. /\ pc \in [Sessions -> {"idle", "check", "lock", "exec", "record"}]
      /\ index \in [Sessions -> 1 .. Len(Listed) + 1]
  BY DEF TypeInv, TypeOK
<1>1. StepsLeft(s) \in Nat
  BY StepsLeftIsNat
<1>2. ASSUME pc'[s] = pc[s], index'[s] = index[s]
      PROVE  StepsLeft(s)' \in 0 .. StepsLeft(s)
  <2>1. StepsLeft(s)' = StepsLeft(s)
    BY <1>2 DEF StepsLeft
  <2> QED
    BY <1>1, <2>1
<1>3. CASE GoOn(s)
  <2>1. StepsLeft(s)' \in 0 .. StepsLeft(s) - 1
    BY <1>3, StepsGoOn
  <2> QED
    BY <1>1, <2>1
<1>4. CASE Crash(s)
  <2>1. pc'[s] = "idle"
    BY <1>0, <1>4 DEF Crash, Rollback, EndTransaction
  <2>2. StepsLeft(s)' = 0
    BY <2>1 DEF StepsLeft
  <2> QED
    BY <1>1, <2>2
<1>5. ASSUME NEW t \in Sessions, t # s,
             Start(t) \/ CheckDone(t) \/ AcquireLock(t) \/ Execute(t) \/ Record(t)
                \/ EndTransaction(t)
      PROVE  pc'[s] = pc[s] /\ index'[s] = index[s]
  BY <1>0, <1>5 DEF Start, CheckDone, AcquireLock, Execute, Executed, Record, EndTransaction
<1>6. CASE UNCHANGED vars
  BY <1>2, <1>6 DEF vars, locals
<1>7. ASSUME NEW t \in Sessions, t # s, Start(t) \/ GoOn(t) \/ Crash(t)
      PROVE  StepsLeft(s)' \in 0 .. StepsLeft(s)
  BY <1>2, <1>5, <1>7, ExecuteCases DEF GoOn, Crash, LockTimeout, RefuseRun, Rollback, Commit
<1>8. ~ Start(s)
  BY DEF Start
<1> QED
  BY <1>3, <1>4, <1>6, <1>7, <1>8 DEF Next, GoOn

\* A request that goes on comes to its end within StepsLeft steps of its own, whatever
\* the others do in between: the loop over the plan passes every step once.
BoundedSteps ==
    [][\A s \in Sessions :
          /\ StepsLeft(s) \in Nat
          /\ GoOn(s) => StepsLeft(s)' \in 0 .. StepsLeft(s) - 1
          /\ pc[s] # "idle" => StepsLeft(s)' \in 0 .. StepsLeft(s)]_vars

\* A request is answered after a bounded number of its own steps.
THEOREM StepsAreBounded == Spec => BoundedSteps
<1>1. TypeInv /\ [Next]_vars =>
          [\A s \in Sessions :
              /\ StepsLeft(s) \in Nat
              /\ GoOn(s) => StepsLeft(s)' \in 0 .. StepsLeft(s) - 1
              /\ pc[s] # "idle" => StepsLeft(s)' \in 0 .. StepsLeft(s)]_vars
  BY StepsLeftIsNat, StepsGoOn, StepsStay
<1> QED
  BY <1>1, TypeAlways, PTL DEF Spec, BoundedSteps
=============================================================================
