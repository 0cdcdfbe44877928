--------------------------- MODULE WarehouseRuns ----------------------------
(***************************************************************************)
(* One step of a plan on Databricks: DatabricksExecutor.execute_step with  *)
(* its polling and retries, ExecutionService._execute_step around it, and  *)
(* what ReconciliationService says of the rows that result.                *)
(*                                                                         *)
(* Each call is one attempt of the step by one request.  The warehouse     *)
(* runs its job by itself: it may be cancelled there, go on after the      *)
(* request is gone, or have been created by a submission whose answer was  *)
(* lost.  A poll already stands for its retries (retry_with_backoff).      *)
(* No row keeps the job's id (external_run_id is None), so the             *)
(* reconciliation skips every row; Classify is what it would say.          *)
(***************************************************************************)
EXTENDS Integers, FiniteSets

CONSTANTS
    Calls,
    MaxErrors,     \* max_consecutive_errors
    Timeout        \* the job's timeout, in turns of the polling loop

\* What the constants must be.
WarehouseAssumption == MaxErrors \in Nat \ {0} /\ Timeout \in Nat

VARIABLES
    job,        \* [Calls -> life_cycle_state and result_state of the job submitted]
    call,       \* [Calls -> "idle", "polling" or "ended"]
    pollErrors, \* [Calls -> consecutive_errors]
    elapsed,    \* [Calls -> turns of the polling loop since the submission, up to Timeout]
    runRow      \* [Calls -> status of the committed row, or "none"]

warehouseVars == <<job, call, pollErrors, elapsed, runRow>>

Terminal == {"TERMINATED", "SKIPPED", "INTERNAL_ERROR"}
Results == {"SUCCESS", "FAILED", "TIMEDOUT", "CANCELED"}
NoJob == [life |-> "none", result |-> "none"]

Init ==
    /\ job = [c \in Calls |-> NoJob]
    /\ call = [c \in Calls |-> "idle"]
    /\ pollErrors = [c \in Calls |-> 0]
    /\ elapsed = [c \in Calls |-> 0]
    /\ runRow = [c \in Calls |-> "none"]

-----------------------------------------------------------------------------
(* The warehouse.                                                          *)

Becomes(c, life, result) == job' = [job EXCEPT ![c] = [life |-> life, result |-> result]]

JobMoves(c) ==
    /\ \/ job[c].life = "PENDING" /\ Becomes(c, "RUNNING", "none")
       \/ job[c].life = "PENDING" /\ Becomes(c, "SKIPPED", "none")
       \/ job[c].life \in {"PENDING", "RUNNING"} /\ Becomes(c, "INTERNAL_ERROR", "FAILED")
       \/ job[c].life = "RUNNING" /\ Becomes(c, "TERMINATING", "none")
       \/ job[c].life = "TERMINATING" /\ \E r \in Results : Becomes(c, "TERMINATED", r)
    /\ UNCHANGED <<call, pollErrors, elapsed, runRow>>

-----------------------------------------------------------------------------
(* Translating and recording the outcome.                                  *)

\* _map_status: SKIPPED is terminal without a result, which reads FAIL.
MapStatus(j) ==
    IF j.life \in Terminal
    THEN CASE j.result = "SUCCESS" -> "SUCCESS"
           [] j.result = "CANCELED" -> "CANCELLED"
           [] OTHER -> "FAIL"
    ELSE IF j.life = "TERMINATING" THEN "RUNNING" ELSE j.life

Finished == {"SUCCESS", "FAIL", "CANCELLED"}

\* Mutant: the outcome of the job is not looked at.
AlwaysGood(status) == "SUCCESS"

\* Mutant: the executor's status as it is, which no caller of _execute_step expects.
AsItIs(status) == status

\* _execute_on_databricks raises when the job failed; _execute_step makes a raise
\* FAIL and anything else SUCCESS, a cancelled job included.
Recorded(status) == IF status = "FAIL" THEN "FAIL" ELSE "SUCCESS"

End(c, status) ==
    /\ call' = [call EXCEPT ![c] = "ended"]
    /\ runRow' = [runRow EXCEPT ![c] = status]

-----------------------------------------------------------------------------
(* execute_step.                                                           *)

\* A step that has a successful run is not executed again.
Submit(c) ==
    /\ call[c] = "idle" /\ \A d \in Calls : runRow[d] # "SUCCESS"
    /\ \/ /\ call' = [call EXCEPT ![c] = "polling"]
          /\ Becomes(c, "PENDING", "none")
          /\ UNCHANGED runRow
       \/ /\ End(c, "FAIL")
          /\ Becomes(c, "PENDING", "none") \/ UNCHANGED job
    /\ UNCHANGED <<pollErrors, elapsed>>

\* Mutant: no deadline.
Never(c) == FALSE

\* time.monotonic() > deadline, looked at first in every turn.
TimeIsUp(c) == elapsed[c] >= Timeout

\* One more turn, with its sleep.
Turn(c) ==
    /\ call[c] = "polling" /\ ~TimeIsUp(c)
    /\ elapsed' = [elapsed EXCEPT ![c] = IF @ < Timeout THEN @ + 1 ELSE @]
    /\ UNCHANGED job

PollAnswered(c) ==
    /\ Turn(c)
    /\ IF MapStatus(job[c]) \in Finished
       THEN End(c, Recorded(MapStatus(job[c])))
       ELSE UNCHANGED <<call, runRow>>
    /\ pollErrors' = [pollErrors EXCEPT ![c] = 0]

PollFailed(c) ==
    /\ Turn(c)
    /\ IF pollErrors[c] + 1 >= MaxErrors
       THEN End(c, "FAIL") /\ UNCHANGED pollErrors
       ELSE /\ pollErrors' = [pollErrors EXCEPT ![c] = @ + 1]
            /\ UNCHANGED <<call, runRow>>

\* The deadline has passed.  The cancellation may fail, or come too late.
Deadline(c) ==
    /\ call[c] = "polling" /\ TimeIsUp(c)
    /\ End(c, "FAIL")
    /\ \/ job[c].life \in {"PENDING", "RUNNING"} /\ Becomes(c, "TERMINATED", "CANCELED")
       \/ UNCHANGED job
    /\ UNCHANGED <<pollErrors, elapsed>>

\* The process dies, or the request's transaction is rolled back: no row.
CallLost(c) ==
    /\ call[c] = "polling"
    /\ call' = [call EXCEPT ![c] = "ended"]
    /\ UNCHANGED <<job, pollErrors, elapsed, runRow>>

Next == \E c \in Calls :
    JobMoves(c) \/ Submit(c) \/ PollAnswered(c) \/ PollFailed(c) \/ Deadline(c) \/ CallLost(c)

Spec == Init /\ [][Next]_warehouseVars

\* The polling loop sleeps for bounded times and takes its next turn.
WarehouseFairness ==
    \A c \in Calls : WF_warehouseVars(PollAnswered(c) \/ PollFailed(c) \/ Deadline(c))

-----------------------------------------------------------------------------
(* Properties.                                                             *)

TypeOK ==
    /\ job \in [Calls -> [life : {"none", "PENDING", "RUNNING", "TERMINATING"} \cup Terminal,
                          result : {"none"} \cup Results]]
    /\ call \in [Calls -> {"idle", "polling", "ended"}]
    /\ pollErrors \in [Calls -> 0 .. MaxErrors - 1] /\ elapsed \in [Calls -> 0 .. Timeout]
    /\ runRow \in [Calls -> {"none", "SUCCESS", "FAIL"}]

\* _classify_discrepancy, for the statuses a row can have.
Classify(expected, actual) ==
    CASE expected = actual -> "matched"
      [] expected = "SUCCESS" /\ actual = "FAIL" -> "phantom_success"
      [] expected = "FAIL" /\ actual = "SUCCESS" -> "missed_success"
      [] OTHER -> "status_mismatch"

Verdict(c) == Classify(runRow[c], MapStatus(job[c]))

\* However polls fail, deadlines pass and jobs go on by themselves, a row SUCCESS has
\* a job of its own that is over and never turns out to have failed, and a job that
\* was seen to fail is never a success: only what the call could not see is amiss.
NoPhantomSuccess ==
    \A c \in Calls : runRow[c] = "SUCCESS" =>
        /\ job[c].life \in Terminal
        /\ Verdict(c) # "phantom_success"

\* The rows are "the primary audit trail for every SQL statement executed by the
\* engine" (core_engine/models/run.py): a row SUCCESS has a job that succeeded.
SuccessIsSuccess == \A c \in Calls : runRow[c] = "SUCCESS" => Verdict(c) = "matched"

\* Every call ends, whatever the warehouse answers and however answers and errors
\* alternate: an answer resets the errors, nothing resets the deadline.
CallsEnd == \A c \in Calls : call[c] = "polling" ~> call[c] = "ended"
=============================================================================
