---------------------------- MODULE UsageReports ----------------------------
(***************************************************************************)
(* Usage reported to Stripe: StripeUsageReporter of                        *)
(* api/api/services/billing_service.py, a thread of each process that runs *)
(* it.  It keeps no mark of what it has reported: each report counts the   *)
(* stored events of the last interval, up to the moment of the count.      *)
(*                                                                         *)
(* An event keeps the time it was recorded at, and may be stored much      *)
(* later, or never: the collector buffers it.  Stripe is external.         *)
(***************************************************************************)
EXTENDS Integers, FiniteSets

CONSTANTS
    Reporters,     \* processes that run the reporter
    UsageEvents,
    Interval,      \* interval_seconds, in ticks
    MaxTime        \* bound

\* What the constants must be.
ReportsAssumption ==
    IsFiniteSet(Reporters) /\ Interval \in Nat \ {0} /\ MaxTime \in Nat

NotYet == MaxTime + 1

VARIABLES
    instant,
    usedAt,        \* [UsageEvents -> created_at, or NotYet]
    inStore,       \* events stored in usage_events
    reporter,      \* [Reporters -> locals of the thread]
    increments     \* [UsageEvents -> how often Stripe counted the event, up to 2]

reportsVars == <<instant, usedAt, inStore, reporter, increments>>

Waiting == [pc |-> "waiting", since |-> instant]

Init ==
    /\ instant = 0
    /\ usedAt = [e \in UsageEvents |-> NotYet]
    /\ inStore = {}
    /\ reporter = [p \in Reporters |-> Waiting]
    /\ increments = [e \in UsageEvents |-> 0]

-----------------------------------------------------------------------------

Use(e) ==
    /\ usedAt[e] = NotYet
    /\ usedAt' = [usedAt EXCEPT ![e] = instant]
    /\ UNCHANGED <<instant, inStore, reporter, increments>>

Store(e) ==
    /\ usedAt[e] # NotYet /\ e \notin inStore
    /\ inStore' = inStore \cup {e}
    /\ UNCHANGED <<instant, usedAt, reporter, increments>>

Goes(p, locals) == reporter' = [reporter EXCEPT ![p] = locals]

\* Mutant: the window reaches one tick further back, to be on the safe side.
Overlapping(p) == instant - Interval - 1

Cutoff(p) == instant - Interval

\* wait(interval) is over; the cutoff is of the time the report starts.
Wake(p) ==
    /\ reporter[p].pc = "waiting" /\ instant > reporter[p].since + Interval
    /\ Goes(p, [pc |-> "counting", cutoff |-> Cutoff(p)])
    /\ UNCHANGED <<instant, usedAt, inStore, increments>>

Count(p) ==
    /\ reporter[p].pc = "counting"
    /\ LET counted == {e \in inStore : usedAt[e] >= reporter[p].cutoff}
       IN  Goes(p, IF counted = {} THEN Waiting ELSE [pc |-> "sending", counted |-> counted])
    /\ UNCHANGED <<instant, usedAt, inStore, increments>>

\* create_usage_record, action "increment".  An exception is logged: Stripe counted
\* the events or it did not, and the thread waits again.
Send(p) ==
    /\ reporter[p].pc = "sending"
    /\ \/ increments' = [e \in UsageEvents |-> IF e \in reporter[p].counted /\ increments[e] < 2
                                               THEN increments[e] + 1 ELSE increments[e]]
       \/ UNCHANGED increments
    /\ Goes(p, Waiting)
    /\ UNCHANGED <<instant, usedAt, inStore>>

\* The process restarts, and the thread waits a whole interval first.
Restart(p) ==
    /\ Goes(p, Waiting)
    /\ UNCHANGED <<instant, usedAt, inStore, increments>>

Tick ==
    /\ instant < MaxTime
    /\ instant' = instant + 1
    /\ UNCHANGED <<usedAt, inStore, reporter, increments>>

Next ==
    \/ \E e \in UsageEvents : Use(e) \/ Store(e)
    \/ \E p \in Reporters : Wake(p) \/ Count(p) \/ Send(p) \/ Restart(p)
    \/ Tick

Spec == Init /\ [][Next]_reportsVars

-----------------------------------------------------------------------------
(* Properties.                                                             *)

TypeOK ==
    /\ instant \in 0 .. MaxTime
    /\ usedAt \in [UsageEvents -> 0 .. NotYet]
    /\ inStore \subseteq {e \in UsageEvents : usedAt[e] # NotYet}
    /\ \A p \in Reporters : reporter[p].pc \in {"waiting", "counting", "sending"}
    /\ increments \in [UsageEvents -> 0 .. 2]

\* One process never reports an event twice, though no event is marked, a count takes
\* in what was recorded since the report started, answers are lost and the process
\* restarts: the windows of two reports do not meet.  Two processes do.
ReportedOnce ==
    Cardinality(Reporters) = 1 => \A e \in UsageEvents : increments[e] <= 1

\* "queries un-reported usage events from the database"
\* (api/api/services/billing_service.py): what is stored and was never reported is
\* in the window of the report that starts next.
UnreportedIsQueried ==
    \A e \in inStore : \A p \in Reporters :
        reporter[p].pc = "counting" /\ increments[e] = 0 => usedAt[e] >= reporter[p].cutoff
=============================================================================
