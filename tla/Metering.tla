------------------------------ MODULE Metering ------------------------------
(***************************************************************************)
(* Monthly quotas and the events they count: QuotaService (check_plan_quota*)
(* and check_ai_quota), the requests of api/api/routers/plans.py that ask  *)
(* it, and MeteringCollector with its two sinks.                           *)
(*                                                                         *)
(* A request checks the stored events under an advisory lock of its        *)
(* transaction, and records its own events in the buffer of its process.   *)
(* The buffer is flushed later, by a timer or when full: to a database     *)
(* task, which may fail unseen, or to a file, whose failures trip a        *)
(* circuit breaker.  The lock's id is salted per process (hash of a string)*)
(* so that it excludes requests of one process only.                       *)
(***************************************************************************)
EXTENDS Integers, Sequences, FiniteSets, SequencesExt

CONSTANTS
    Processes, Requests,
    Quota,         \* the effective monthly quota
    BufferSize,    \* max_buffer_size
    Threshold,     \* circuit_breaker_threshold
    KeepDivisor,   \* the breaker keeps this part of a batch: 5, for "* 0.20"
    MaxEvents,     \* bound: events recorded
    Nobody

\* What the constants must be.
MeteringAssumption ==
    /\ Quota \in Nat /\ BufferSize \in Nat \ {0} /\ Threshold \in Nat \ {0} /\ MaxEvents \in Nat
    /\ KeepDivisor \in Nat \ {0} /\ Nobody \notin Requests

Events == 1 .. MaxEvents

VARIABLES
    sink,        \* "database" (the API) or "file"
    recorded,    \* how many events there are: 1..recorded
    buffer,      \* [Processes -> sequence of events, oldest first]
    flight,      \* batches handed to a database task: [process, batch]
    stored,      \* [Events -> how often the event was stored, up to 2]
    failures,    \* [Processes -> _consecutive_flush_failures, up to Threshold]
    circuitOpen, \* [Processes -> BOOLEAN]
    quotaLock,   \* [Processes -> the request whose transaction holds it, or Nobody]
    admitted     \* history: requests let through

collector == <<buffer, flight, stored, failures, circuitOpen>>
meteringVars == <<sink, recorded, collector, quotaLock, admitted>>

Init ==
    /\ sink \in {"database", "file"}
    /\ recorded = 0 /\ admitted = 0
    /\ buffer = [p \in Processes |-> <<>>]
    /\ flight = {}
    /\ stored = [e \in Events |-> 0]
    /\ failures = [p \in Processes |-> 0]
    /\ circuitOpen = [p \in Processes |-> FALSE]
    /\ quotaLock = [p \in Processes |-> Nobody]

-----------------------------------------------------------------------------
(* MeteringCollector.                                                      *)

StoredAlso(batch) ==
    [e \in Events |-> IF e \in ToSet(batch) /\ stored[e] < 2 THEN stored[e] + 1 ELSE stored[e]]

KeepCount(batch) == LET part == Len(batch) \div KeepDivisor IN IF part > 1 THEN part ELSE 1

Kept(batch) == SubSeq(batch, Len(batch) - KeepCount(batch) + 1, Len(batch))

Buffer(p, events) == buffer' = [buffer EXCEPT ![p] = events]

\* _flush_locked, called with what the buffer holds.
DropAll(p, batch) ==
    /\ circuitOpen[p]
    /\ Buffer(p, <<>>)
    /\ UNCHANGED <<flight, stored, failures, circuitOpen>>

\* Mutant: the buffer is not cleared.
HandOverAgain(p, batch) ==
    /\ ~circuitOpen[p] /\ sink = "database"
    /\ Buffer(p, batch)
    /\ flight' = flight \cup {[process |-> p, batch |-> batch]}
    /\ failures' = [failures EXCEPT ![p] = 0]
    /\ UNCHANGED <<stored, circuitOpen>>

\* DatabaseSink.flush starts a task and never raises.
HandOver(p, batch) ==
    /\ ~circuitOpen[p] /\ sink = "database"
    /\ Buffer(p, <<>>)
    /\ flight' = flight \cup {[process |-> p, batch |-> batch]}
    /\ failures' = [failures EXCEPT ![p] = 0]
    /\ UNCHANGED <<stored, circuitOpen>>

WriteFile(p, batch) ==
    /\ ~circuitOpen[p] /\ sink = "file"
    /\ Buffer(p, <<>>)
    /\ stored' = StoredAlso(batch)
    /\ failures' = [failures EXCEPT ![p] = 0]
    /\ UNCHANGED <<flight, circuitOpen>>

\* The file takes the first lines and fails.  At the threshold the breaker opens and
\* the newest events go back to the buffer; before, all are lost.
FailFile(p, batch) ==
    /\ ~circuitOpen[p] /\ sink = "file"
    /\ \E written \in 0 .. Len(batch) - 1 : stored' = StoredAlso(SubSeq(batch, 1, written))
    /\ failures' = [failures EXCEPT ![p] = IF @ < Threshold THEN @ + 1 ELSE @]
    /\ IF failures[p] + 1 >= Threshold
       THEN Buffer(p, Kept(batch)) /\ circuitOpen' = [circuitOpen EXCEPT ![p] = TRUE]
       ELSE Buffer(p, <<>>) /\ UNCHANGED circuitOpen
    /\ UNCHANGED flight

FlushLocked(p, batch) ==
    DropAll(p, batch) \/ HandOver(p, batch) \/ WriteFile(p, batch) \/ FailFile(p, batch)

\* The timer of the flush thread, or the flush at shutdown.
Flush(p) ==
    /\ buffer[p] # <<>>
    /\ FlushLocked(p, buffer[p])
    /\ UNCHANGED <<sink, recorded, quotaLock, admitted>>

\* _async_flush: one transaction; an exception is logged.
TaskEnds ==
    /\ \E f \in flight :
          /\ flight' = flight \ {f}
          /\ stored' = StoredAlso(f.batch) \/ UNCHANGED stored
    /\ UNCHANGED <<sink, recorded, buffer, failures, circuitOpen, quotaLock, admitted>>

BackoffEnds(p) ==
    /\ circuitOpen[p]
    /\ circuitOpen' = [circuitOpen EXCEPT ![p] = FALSE]
    /\ UNCHANGED <<sink, recorded, buffer, flight, stored, failures, quotaLock, admitted>>

-----------------------------------------------------------------------------
(* Requests.                                                               *)

\* The count of usage_events.
Used == IF sink = "database" THEN Cardinality({e \in Events : stored[e] > 0}) ELSE 0

Check(r, p) ==
    /\ quotaLock[p] = Nobody /\ \A q \in Processes : quotaLock[q] # r
    /\ Used < Quota /\ admitted < MaxEvents
    /\ quotaLock' = [quotaLock EXCEPT ![p] = r]
    /\ admitted' = admitted + 1
    /\ UNCHANGED <<sink, recorded, collector>>

\* record: a plan run, or one of up to three AI calls per step.
Record(p) ==
    /\ quotaLock[p] # Nobody /\ recorded < MaxEvents
    /\ recorded' = recorded + 1
    /\ LET events == Append(buffer[p], recorded + 1)
       IN  IF Len(events) >= BufferSize THEN FlushLocked(p, events)
           ELSE Buffer(p, events) /\ UNCHANGED <<flight, stored, failures, circuitOpen>>
    /\ UNCHANGED <<sink, quotaLock, admitted>>

\* Commit or rollback: what is recorded stays recorded.
EndRequest(p) ==
    /\ quotaLock[p] # Nobody
    /\ quotaLock' = [quotaLock EXCEPT ![p] = Nobody]
    /\ UNCHANGED <<sink, recorded, collector, admitted>>

\* The process dies: its buffer and its tasks are gone.
ProcessDies(p) ==
    /\ buffer[p] # <<>> \/ quotaLock[p] # Nobody
    /\ Buffer(p, <<>>)
    /\ flight' = {f \in flight : f.process # p}
    /\ failures' = [failures EXCEPT ![p] = 0]
    /\ circuitOpen' = [circuitOpen EXCEPT ![p] = FALSE]
    /\ quotaLock' = [quotaLock EXCEPT ![p] = Nobody]
    /\ UNCHANGED <<sink, recorded, stored, admitted>>

Next ==
    \/ \E p \in Processes : \/ \E r \in Requests : Check(r, p)
                            \/ Record(p) \/ EndRequest(p) \/ ProcessDies(p)
                            \/ Flush(p) \/ BackoffEnds(p)
    \/ TaskEnds

Spec == Init /\ [][Next]_meteringVars

-----------------------------------------------------------------------------
(* Properties.                                                             *)

Batches == {buffer[p] : p \in Processes} \cup {f.batch : f \in flight}

TypeOK ==
    /\ recorded \in 0 .. MaxEvents /\ admitted \in 0 .. MaxEvents
    /\ \A b \in Batches : b \in Seq(Events)
    /\ stored \in [Events -> 0 .. 2]
    /\ failures \in [Processes -> 0 .. Threshold]
    /\ circuitOpen \in [Processes -> BOOLEAN]
    /\ quotaLock \in [Processes -> Requests \cup {Nobody}]

\* An event is billed at most once: through size and time flushes of several processes,
\* failed tasks and crashes, no event is stored twice in the database, or is stored and
\* still on its way, and each batch is in the order of recording.  A file that failed
\* may hold events that the breaker put back: those, and no others, are written again.
BilledOnce ==
    /\ sink = "database" =>
          /\ \A e \in Events : stored[e] <= 1
          /\ \A b \in Batches : \A i \in DOMAIN b : stored[b[i]] = 0
    /\ \A p \in Processes : \A i \in DOMAIN buffer[p] :
          stored[buffer[p][i]] > 0 => failures[p] = Threshold
    /\ \A b \in Batches : \A i, j \in DOMAIN b : i < j => b[i] < b[j]

\* "Acquires an advisory lock to prevent concurrent requests from both passing the
\* quota boundary" (api/api/services/quota_service.py).
QuotaHolds == sink = "database" => admitted <= Quota
=============================================================================
