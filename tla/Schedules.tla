----------------------------- MODULE Schedules ------------------------------
(***************************************************************************)
(* Scheduled reconciliation: compute_next_run, the loop of                 *)
(* ReconciliationScheduler, and PUT /schedule                              *)
(* (api/api/services/reconciliation_scheduler.py,                          *)
(* api/api/routers/reconciliation.py), for one schedule type.              *)
(*                                                                         *)
(* Time is the number of minutes since a Monday began.  Hours, days and    *)
(* weeks may be shorter than ours; the calendar arithmetic is the code's.  *)
(***************************************************************************)
EXTENDS Integers, FiniteSets

CONSTANTS
    HourLength, DayLength, WeekLength,   \* in minutes, hours and days
    Schedulers,                          \* processes that run the loop
    MaxMinute,                           \* bound
    Absent                               \* next_run_at IS NULL

\* What the constants must be.
SchedulesAssumption ==
    /\ HourLength \in Nat \ {0} /\ DayLength \in Nat \ {0} /\ WeekLength \in Nat \ {0}
    /\ MaxMinute \in Nat /\ Absent \notin Nat /\ IsFiniteSet(Schedulers)

DayMinutes == HourLength * DayLength

Crons ==
    [kind : {"hourly"}, minute : 0 .. HourLength - 1]
    \cup [kind : {"daily"}, minute : 0 .. HourLength - 1, hour : 0 .. DayLength - 1]
    \cup [kind : {"weekly"}, minute : 0 .. HourLength - 1, hour : 0 .. DayLength - 1,
          dow : 0 .. WeekLength - 1]

VARIABLES
    minuteNow,
    schedule,    \* the committed row: cron, enabled, next_run_at
    loop,        \* [Schedulers -> the row of the transaction that executes it, or Idle]
    served       \* history: the slot whose execution was committed last, or -1

schedulesVars == <<minuteNow, schedule, loop, served>>

Idle == [pc |-> "idle"]

Init ==
    /\ minuteNow = 0
    /\ \E c \in Crons : schedule = [cron |-> c, enabled |-> FALSE, next |-> Absent]
    /\ loop = [p \in Schedulers |-> Idle]
    /\ served = -1

-----------------------------------------------------------------------------
(* compute_next_run.                                                       *)

\* Mutant: Sunday taken for Python's day 0.
CronDay(dow) == dow % WeekLength

Passed(candidate, t) == candidate <= t

\* Cron counts days from Sunday, Python from Monday.
PythonDay(dow) == (dow - 1) % WeekLength

AtMinute(c, t) == t - (t % HourLength) + c.minute
AtHour(c, t) == t - (t % DayMinutes) + c.hour * HourLength + c.minute
Weekday(t) == (t \div DayMinutes) % WeekLength

DaysAhead(c, t) ==
    LET days == (PythonDay(c.dow) - Weekday(t)) % WeekLength
    IN  IF days = 0 /\ Passed(AtHour(c, t), t) THEN WeekLength ELSE days

NextRun(c, t) ==
    CASE c.kind = "hourly" -> AtMinute(c, t) + (IF Passed(AtMinute(c, t), t) THEN HourLength ELSE 0)
      [] c.kind = "daily"  -> AtHour(c, t) + (IF Passed(AtHour(c, t), t) THEN DayMinutes ELSE 0)
      [] c.kind = "weekly" -> AtHour(c, t) + DaysAhead(c, t) * DayMinutes

-----------------------------------------------------------------------------
(* The loop and the request.                                               *)

\* The transaction reads the row, finds it due, and reconciles.
FindDue(p) ==
    /\ loop[p] = Idle
    /\ schedule.enabled /\ schedule.next # Absent /\ schedule.next <= minuteNow
    /\ loop' = [loop EXCEPT ![p] = [pc |-> "running", cron |-> schedule.cron,
                                    slot |-> schedule.next, now |-> minuteNow]]
    /\ UNCHANGED <<minuteNow, schedule, served>>

\* update_last_run, from the time the execution began, and commit.  A reconciliation
\* that failed advances the schedule all the same.
Advance(p) ==
    /\ loop[p] # Idle
    /\ schedule' = [schedule EXCEPT !.next = NextRun(loop[p].cron, loop[p].now)]
    /\ served' = loop[p].slot
    /\ loop' = [loop EXCEPT ![p] = Idle]
    /\ UNCHANGED minuteNow

\* The transaction is rolled back, or the process restarts.
Undo(p) ==
    /\ loop[p] # Idle
    /\ loop' = [loop EXCEPT ![p] = Idle]
    /\ UNCHANGED <<minuteNow, schedule, served>>

\* upsert_reconciliation_schedule: the next run is set only if none is.
Upsert(cron, enabled) ==
    /\ schedule' = [cron |-> cron, enabled |-> enabled,
                    next |-> IF schedule.next = Absent THEN NextRun(cron, minuteNow)
                             ELSE schedule.next]
    /\ UNCHANGED <<minuteNow, loop, served>>

Minute ==
    /\ minuteNow < MaxMinute
    /\ minuteNow' = minuteNow + 1
    /\ UNCHANGED <<schedule, loop, served>>

Next ==
    \/ \E p \in Schedulers : FindDue(p) \/ Advance(p) \/ Undo(p)
    \/ \E c \in Crons, enabled \in BOOLEAN : Upsert(c, enabled)
    \/ Minute

Spec == Init /\ [][Next]_schedulesVars

-----------------------------------------------------------------------------
(* Properties.                                                             *)

TypeOK ==
    /\ minuteNow \in 0 .. MaxMinute
    /\ schedule.cron \in Crons /\ schedule.enabled \in BOOLEAN
    /\ schedule.next \in Nat \cup {Absent}
    /\ \A p \in Schedulers : loop[p].pc \in {"idle", "running"}
    /\ served \in -1 .. MaxMinute

\* What "M * * * *", "M H * * *" and "M H * * D" (0=Sunday) mean.
Matches(c, t) ==
    /\ t % HourLength = c.minute
    /\ c.kind # "hourly" => (t % DayMinutes) \div HourLength = c.hour
    /\ c.kind = "weekly" => (t \div DayMinutes + 1) % WeekLength = c.dow

\* The next run is the first minute after the present one that the expression names,
\* across the ends of hours, days and weeks; and one process serves each slot once
\* and in order, however long a reconciliation takes, fails or is undone while requests
\* change the expression.
SlotsAreServedOnce ==
    /\ LET next == NextRun(schedule.cron, minuteNow)
       IN  /\ next > minuteNow /\ Matches(schedule.cron, next)
           /\ \A t \in minuteNow + 1 .. next - 1 : ~Matches(schedule.cron, t)
    /\ Cardinality(Schedulers) = 1 =>
           \A p \in Schedulers : loop[p] # Idle => loop[p].slot > served

\* "The schedule is identified by (tenant_id, schedule_type) and is upserted"
\* (api/api/routers/reconciliation.py): the answer's next_run_at is the row's.  A
\* changed expression leaves the row's next run where the old one put it.
NextRunMatches ==
    schedule.next # Absent => Matches(schedule.cron, schedule.next)
=============================================================================
