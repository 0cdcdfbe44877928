------------------------------ MODULE Delivery ------------------------------
(***************************************************************************)
(* What the event outbox promises, without rows, polls or replicas: the    *)
(* abstract specification that EventOutbox implements.                     *)
(*                                                                         *)
(* An event is written by a transaction.  Once that has committed, and not *)
(* before, it is handed to the handlers, each time to some of them and as  *)
(* often as it takes, once too often included.  It is settled when every   *)
(* handler has heard of it, or after MaxAttempts attempts.                 *)
(***************************************************************************)
EXTENDS Integers, FiniteSets

CONSTANTS N, Handlers, MaxAttempts

Events == 1 .. N

\* What the constants must be.
DeliveryAssumption == N \in Nat /\ Handlers # {} /\ MaxAttempts \in Nat

VARIABLES
    phase,   \* [Events -> "none", "open", "aborted", "pending" or "settled"]
    heard,   \* [Events -> handlers that have dealt with the event]
    tries    \* [Events -> attempts to hand the event on, counted up to MaxAttempts]

vars == <<phase, heard, tries>>

Init ==
    /\ phase = [e \in Events |-> "none"]
    /\ heard = [e \in Events |-> {}]
    /\ tries = [e \in Events |-> 0]

Emit(e) ==
    /\ phase[e] = "none"
    /\ phase' = [phase EXCEPT ![e] = "open"]
    /\ UNCHANGED <<heard, tries>>

Commit(e) ==
    /\ phase[e] = "open"
    /\ phase' = [phase EXCEPT ![e] = "pending"]
    /\ UNCHANGED <<heard, tries>>

Abort(e) ==
    /\ phase[e] = "open"
    /\ phase' = [phase EXCEPT ![e] = "aborted"]
    /\ UNCHANGED <<heard, tries>>

Hand(e) ==
    /\ phase[e] \in {"pending", "settled"}
    /\ \E some \in SUBSET Handlers : heard' = [heard EXCEPT ![e] = @ \cup some]
    /\ tries' = [tries EXCEPT ![e] = IF @ < MaxAttempts THEN @ + 1 ELSE @]
    /\ UNCHANGED phase

Done(e) == heard[e] = Handlers \/ tries[e] = MaxAttempts

\* A poll settles several events at once.
Settle ==
    /\ \E done \in SUBSET {e \in Events : phase[e] = "pending" /\ Done(e)} :
          /\ done # {}
          /\ phase' = [e \in Events |-> IF e \in done THEN "settled" ELSE phase[e]]
    /\ UNCHANGED <<heard, tries>>

Next ==
    \/ \E e \in Events : Emit(e) \/ Commit(e) \/ Abort(e) \/ Hand(e)
    \/ Settle

Spec == Init /\ [][Next]_vars

-----------------------------------------------------------------------------
(* What follows from the promise.                                          *)

TypeOK ==
    /\ phase \in [Events -> {"none", "open", "aborted", "pending", "settled"}]
    /\ heard \in [Events -> SUBSET Handlers]
    /\ tries \in [Events -> 0 .. MaxAttempts]

\* An event that is settled was heard of by every handler or tried often enough.
SettledIsDone == \A e \in Events : phase[e] = "settled" => Done(e)

\* No handler hears of an event whose transaction has not committed.
OnlyCommitted ==
    \A e \in Events : phase[e] \in {"none", "open", "aborted"} => heard[e] = {} /\ tries[e] = 0

\* Every event that commits is settled.
EventuallySettled == \A e \in Events : phase[e] = "pending" ~> phase[e] = "settled"
=============================================================================
