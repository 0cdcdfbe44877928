---------------------------- MODULE EventOutbox -----------------------------
(***************************************************************************)
(* The transactional outbox: EventBus.emit_persistent and OutboxPoller of  *)
(* api/api/services/event_bus.py, over EventOutboxRepository.              *)
(*                                                                         *)
(* A request writes an event inside its own transaction.  Each replica may *)
(* run a poller, which reads the pending entries, closes the session,      *)
(* dispatches each entry to every handler, and in a second transaction     *)
(* marks the entries delivered or failed from what it read before.         *)
(*                                                                         *)
(* Events are numbered in the order of created_at.  The dispatch           *)
(* emit_persistent does in memory, best effort, does not touch the outbox  *)
(* and is left out.                                                        *)
(***************************************************************************)
EXTENDS Integers, Sequences, FiniteSets

CONSTANTS
    N,             \* bound: events written
    Pollers,       \* the replicas that may run one
    Handlers,      \* of the event bus; the same in each replica
    MaxAttempts,   \* max_attempts
    Limit,         \* entries read per poll
    MaxCrashes     \* bound: polls cut short

Events == 1 .. N

ASSUME OutboxAssumption ==
    /\ N \in Nat /\ IsFiniteSet(Pollers)
    /\ Handlers # {} /\ IsFiniteSet(Handlers)
    /\ MaxAttempts \in Nat /\ Limit \in Nat \ {0} /\ MaxCrashes \in Nat

\* An entry a poller has read, and what it will do with it.
Snap == [id : Events, attempts : Nat]

VARIABLES
    replicas,    \* the pollers of this deployment
    status,      \* [Events -> "none", "open" (uncommitted), "aborted", "pending",
                 \*            "delivered", "failed" or "deleted"]
    attempts,    \* [Events -> the attempts column]
    queue,       \* [Pollers -> snapshots not dispatched yet]
    polling,     \* [Pollers -> BOOLEAN]
    delivered,   \* [Pollers -> delivered_ids]
    retry,       \* [Pollers -> failed entries to try again]
    giveUp,      \* [Pollers -> failed entries past max_attempts]
    crashes,
    handled,     \* [Events -> handlers that have dealt with the event]
    tries        \* [Events -> how often a poller dispatched it, up to MaxAttempts]

outbox == <<status, attempts>>
poller == <<queue, polling, delivered, retry, giveUp>>
world  == <<handled, tries>>
vars   == <<replicas, outbox, poller, crashes, world>>

Init ==
    /\ replicas \in (SUBSET Pollers) \ {{}}
    /\ status = [e \in Events |-> "none"]
    /\ attempts = [e \in Events |-> 0]
    /\ queue = [p \in Pollers |-> <<>>]
    /\ polling = [p \in Pollers |-> FALSE]
    /\ delivered = [p \in Pollers |-> {}]
    /\ retry = [p \in Pollers |-> {}]
    /\ giveUp = [p \in Pollers |-> {}]
    /\ crashes = 0
    /\ handled = [e \in Events |-> {}]
    /\ tries = [e \in Events |-> 0]

-----------------------------------------------------------------------------
(* The request that emits.                                                 *)

EmitPersistent(e) ==
    /\ status[e] = "none" /\ \A f \in Events : f < e => status[f] # "none"
    /\ status' = [status EXCEPT ![e] = "open"]
    /\ UNCHANGED <<replicas, attempts, poller, crashes, world>>

EndTransaction(e) ==
    /\ status[e] = "open"
    /\ \E outcome \in {"pending", "aborted"} : status' = [status EXCEPT ![e] = outcome]
    /\ UNCHANGED <<replicas, attempts, poller, crashes, world>>

-----------------------------------------------------------------------------
(* _poll_once.                                                             *)

\* Mutant: delivered entries are read again.
NotFailed == {e \in Events : status[e] \in {"pending", "delivered"}}

Pending == {e \in Events : status[e] = "pending"}

\* Mutant: no limit.
WholeBacklog == Cardinality(Pending)

BatchSize == IF Cardinality(Pending) < Limit THEN Cardinality(Pending) ELSE Limit

\* get_pending: the oldest entries first, each as it is now.
OldestFirst(ids) ==
    /\ \A i, j \in DOMAIN ids : i < j => ids[i] < ids[j]
    /\ \A e \in Pending : (\A i \in DOMAIN ids : ids[i] # e) => \A i \in DOMAIN ids : ids[i] < e

Read(p) ==
    /\ p \in replicas /\ ~polling[p]
    /\ Pending # {}
    /\ polling' = [polling EXCEPT ![p] = TRUE]
    /\ \E ids \in [1 .. BatchSize -> Pending] :
          /\ OldestFirst(ids)
          /\ queue' = [queue EXCEPT ![p] =
                 [i \in 1 .. BatchSize |-> [id |-> ids[i], attempts |-> attempts[ids[i]]]]]
    /\ UNCHANGED <<replicas, outbox, delivered, retry, giveUp, crashes, world>>

Exhausted(n) == n >= MaxAttempts

Abandon(p) ==
    /\ queue[p] # <<>>
    /\ Exhausted(Head(queue[p]).attempts)
    /\ queue' = [queue EXCEPT ![p] = Tail(@)]
    /\ giveUp' = [giveUp EXCEPT ![p] = @ \cup {Head(queue[p]).id}]
    /\ UNCHANGED <<replicas, outbox, polling, delivered, retry, crashes, world>>

\* Mutant: one handler's success stands for all.
AnyOk(ok) == ok # {}

AllOk(ok) == ok = Handlers

\* Every handler is called, each with a deadline: one that timed out may have
\* done its work.
Dispatch(p) ==
    /\ queue[p] # <<>>
    /\ ~Exhausted(Head(queue[p]).attempts)
    /\ LET e == Head(queue[p]).id
       IN  \E ok \in SUBSET Handlers : \E late \in SUBSET (Handlers \ ok) :
              /\ handled' = [handled EXCEPT ![e] = @ \cup ok \cup late]
              /\ tries' = [tries EXCEPT ![e] = IF @ < MaxAttempts THEN @ + 1 ELSE @]
              /\ IF AllOk(ok)
                 THEN /\ delivered' = [delivered EXCEPT ![p] = @ \cup {e}]
                      /\ UNCHANGED retry
                 ELSE /\ retry' = [retry EXCEPT ![p] = @ \cup {e}]
                      /\ UNCHANGED delivered
    /\ queue' = [queue EXCEPT ![p] = Tail(@)]
    /\ UNCHANGED <<replicas, outbox, polling, giveUp, crashes>>

EndPoll(p) ==
    /\ queue' = [queue EXCEPT ![p] = <<>>]
    /\ polling' = [polling EXCEPT ![p] = FALSE]
    /\ delivered' = [delivered EXCEPT ![p] = {}]
    /\ retry' = [retry EXCEPT ![p] = {}]
    /\ giveUp' = [giveUp EXCEPT ![p] = {}]

\* mark_delivered_batch and mark_failed: by id, whatever the row says by now.  A
\* row that is gone is not updated.
Marked(p, e) ==
    IF status[e] = "deleted" THEN "deleted"
    ELSE IF e \in giveUp[p] THEN "failed"
    ELSE IF e \in delivered[p] THEN "delivered"
    ELSE status[e]

\* Mutant: mark_failed forgets to count.
NotCounted(p, e) == attempts[e]

Counted(p, e) ==
    IF e \in retry[p] \cup giveUp[p] /\ status[e] # "deleted"
    THEN attempts[e] + 1 ELSE attempts[e]

Mark(p) ==
    /\ polling[p] /\ queue[p] = <<>>
    /\ status' = [e \in Events |-> Marked(p, e)]
    /\ attempts' = [e \in Events |-> Counted(p, e)]
    /\ EndPoll(p)
    /\ UNCHANGED <<replicas, crashes, world>>

\* The process dies, or a transaction of the poll fails and is logged.
Crash(p) ==
    /\ polling[p]
    /\ crashes < MaxCrashes
    /\ crashes' = crashes + 1
    /\ EndPoll(p)
    /\ UNCHANGED <<replicas, outbox, world>>

\* cleanup_delivered, cleanup_failed.
Prunable == {"delivered", "failed"}

\* _cleanup, run between two polls: an entry past the retention time.
Cleanup(p) ==
    /\ p \in replicas /\ ~polling[p]
    /\ \E e \in Events :
          /\ status[e] \in Prunable
          /\ status' = [status EXCEPT ![e] = "deleted"]
    /\ UNCHANGED <<replicas, attempts, poller, crashes, world>>

Poll(p) == Read(p) \/ Abandon(p) \/ Dispatch(p) \/ Mark(p)

Next ==
    \/ \E e \in Events : EmitPersistent(e) \/ EndTransaction(e)
    \/ \E p \in Pollers : Poll(p) \/ Crash(p) \/ Cleanup(p)

Spec == Init /\ [][Next]_vars

\* The poll loop runs for ever and each of its waits has a deadline.
FairSpec == Spec /\ \A p \in Pollers : WF_vars(Poll(p))

-----------------------------------------------------------------------------
(* Properties.                                                             *)

TypeOK ==
    /\ replicas \in (SUBSET Pollers) \ {{}}
    /\ status \in [Events -> {"none", "open", "aborted", "pending", "delivered", "failed",
                              "deleted"}]
    /\ attempts \in [Events -> Nat]
    /\ queue \in [Pollers -> Seq(Snap)]
    /\ \A p \in Pollers : Len(queue[p]) <= Limit
    /\ polling \in [Pollers -> BOOLEAN]
    /\ delivered \in [Pollers -> SUBSET Events] /\ retry \in [Pollers -> SUBSET Events]
    /\ giveUp \in [Pollers -> SUBSET Events]
    /\ crashes \in 0 .. MaxCrashes
    /\ handled \in [Events -> SUBSET Handlers]
    /\ tries \in [Events -> 0 .. MaxAttempts]

Settled == {"delivered", "failed", "deleted"}

\* What an observer of module Delivery sees of an entry.
Phase == [e \in Events |-> IF status[e] \in Settled THEN "settled" ELSE status[e]]

Promise == INSTANCE Delivery WITH phase <- Phase, heard <- handled

\* "Ensuring at-least-once delivery even if the process crashes": the pollers, however
\* many, do what Delivery promises.  An event whose transaction did not commit is never
\* dispatched; one that committed is settled only when every handler has dealt with
\* it or after max_attempts dispatches; what is settled stays settled.
AtLeastOnce == Promise!Spec

\* Every event is settled, by however many pollers: entries whose handlers keep
\* failing leave the head of the queue, so the ones behind them are reached.
EventuallySettled == Promise!EventuallySettled

\* While one replica polls, a delivered entry is never reported as failed, in
\* whichever order deliveries, retries, crashes and cleanups come.
DeliveredStays ==
    [][Cardinality(replicas) = 1 =>
          \A e \in Events : status[e] = "delivered" => status'[e] # "failed"]_vars
=============================================================================
