----------------------------- MODULE MCServices -----------------------------
(***************************************************************************)
(* The services around plans and backfills, model-checked in one run.  No  *)
(* two of them share state, so interleaving their steps would show nothing *)
(* new: each behaviour runs one of them, chosen at the start, and the      *)
(* others stay in an initial state.                                        *)
(***************************************************************************)
EXTENDS Integers, Sequences, FiniteSets

CONSTANTS
    \* PlanReview
    Users, Reviews, MaxEntries,
    \* WarehouseRuns
    Calls, MaxErrors, Timeout,
    \* Metering, Invoices and Billing
    Processes, Requests, Nobody,
    Quota, BufferSize, Threshold, KeepDivisor, MaxMetered,
    Months, StripeIds, NoStripe, MaxInvoices,
    Tiers, MaxCustomers, MaxEvents,
    \* RevocationCache, UsageReports
    Replicas, Checks, ShortTTL, LongTTL, MaxDelay, LastTick,
    Reporters, UsageEvents, Interval, LastInstant,
    \* Environments
    Names, Catalogs, Snapshots, Promoters, MaxRows, MaxPromotions,
    \* BudgetGuard
    Callers, Daily, Monthly, MaxCost, MonthLength, MaxAge, MaxDays,
    \* Schedules
    HourLength, DayLength, WeekLength, Schedulers, MaxMinute, Absent,
    \* Seats (and Requests, Nobody)
    Emails, LockNumbers, SeatLimit,
    \* RateLimit
    Window, BurstLimit, Late, Early, Grace, MaxClock, MaxHits

VARIABLES
    active,    \* the service that runs
    dialect, env, approvals, trail, review, applied,
    job, call, pollErrors, elapsed, runRow,
    sink, recorded, buffer, flight, stored, failures, circuitOpen, quotaLock, admitted,
    now, withRedis, hidden, revokedAt, redisRevoked, l1, check, lastAccepted,
    envRows, promotions, promoter, refused,
    month, invoices, pdfs, making,
    customers, record, asking, subscriptions, sent, handling, overlapped,
    today, usage, calling, answered,
    instant, usedAt, inStore, reporter, increments,
    minuteNow, schedule, loop, served,
    numbers, users, seatLock, team, quantity,
    backend, clock, hits, lastHit, passed

Review == INSTANCE PlanReview
Warehouse == INSTANCE WarehouseRuns
Meter == INSTANCE Metering WITH MaxEvents <- MaxMetered
Revocation == INSTANCE RevocationCache WITH MaxTime <- LastTick
Environment == INSTANCE Environments
Invoice == INSTANCE Invoices
Bill == INSTANCE Billing
Budget == INSTANCE BudgetGuard
Report == INSTANCE UsageReports WITH MaxTime <- LastInstant
Schedule == INSTANCE Schedules
Seat == INSTANCE Seats
Rate == INSTANCE RateLimit

ASSUME ServicesAssumption ==
    /\ Review!ReviewAssumption /\ Warehouse!WarehouseAssumption /\ Meter!MeteringAssumption
    /\ Revocation!RevocationAssumption /\ Environment!EnvironmentsAssumption
    /\ Invoice!InvoicesAssumption /\ Bill!BillingAssumption /\ Budget!BudgetAssumption
    /\ Report!ReportsAssumption /\ Schedule!SchedulesAssumption
    /\ Seat!SeatsAssumption /\ Rate!RateLimitAssumption

reviewVars == <<dialect, env, approvals, trail, review, applied>>
warehouseVars == <<job, call, pollErrors, elapsed, runRow>>
meteringVars ==
    <<sink, recorded, buffer, flight, stored, failures, circuitOpen, quotaLock, admitted>>
revocationVars == <<now, withRedis, hidden, revokedAt, redisRevoked, l1, check, lastAccepted>>
environmentsVars == <<envRows, promotions, promoter, refused>>
invoicesVars == <<month, invoices, pdfs, making>>
billingVars == <<customers, record, asking, subscriptions, sent, handling, overlapped>>
budgetVars == <<today, usage, calling, answered>>
reportsVars == <<instant, usedAt, inStore, reporter, increments>>
schedulesVars == <<minuteNow, schedule, loop, served>>
seatsVars == <<numbers, users, seatLock, team, quantity>>
rateVars == <<backend, clock, hits, lastHit, passed>>

money == <<meteringVars, invoicesVars, billingVars, budgetVars, reportsVars>>
access == <<revocationVars, seatsVars, rateVars>>
work == <<reviewVars, warehouseVars, environmentsVars, schedulesVars>>

vars == <<active, money, access, work>>

Services == {"reviews", "warehouse", "metering", "revocation", "environments", "invoices",
             "billing", "budget", "reports", "schedules", "seats", "rates"}

\* A service that does not run has one initial state.
Settled ==
    /\ active # "reviews" => dialect = "sqlite" /\ env = "dev"
    /\ active # "metering" => sink = "database"
    /\ active # "revocation" => ~withRedis /\ ~hidden
    /\ active # "schedules" => schedule.cron = [kind |-> "hourly", minute |-> 0]
    /\ active # "seats" => numbers = LockNumbers /\ users[CHOOSE e \in Emails : TRUE] = "active"
    /\ active # "rates" => backend = "process"

Init ==
    /\ active \in Services
    /\ Review!Init /\ Warehouse!Init /\ Meter!Init /\ Revocation!Init /\ Environment!Init
    /\ Invoice!Init /\ Bill!Init /\ Budget!Init /\ Report!Init /\ Schedule!Init
    /\ Seat!Init /\ Rate!Init
    /\ Settled

Next ==
    /\ UNCHANGED active
    /\ \/ /\ active = "metering" /\ Meter!Next
          /\ UNCHANGED <<access, work, invoicesVars, billingVars, budgetVars, reportsVars>>
       \/ /\ active = "invoices" /\ Invoice!Next
          /\ UNCHANGED <<access, work, meteringVars, billingVars, budgetVars, reportsVars>>
       \/ /\ active = "billing" /\ Bill!Next
          /\ UNCHANGED <<access, work, meteringVars, invoicesVars, budgetVars, reportsVars>>
       \/ /\ active = "budget" /\ Budget!Next
          /\ UNCHANGED <<access, work, meteringVars, invoicesVars, billingVars, reportsVars>>
       \/ /\ active = "reports" /\ Report!Next
          /\ UNCHANGED <<access, work, meteringVars, invoicesVars, billingVars, budgetVars>>
       \/ /\ active = "revocation" /\ Revocation!Next
          /\ UNCHANGED <<money, work, seatsVars, rateVars>>
       \/ /\ active = "seats" /\ Seat!Next
          /\ UNCHANGED <<money, work, revocationVars, rateVars>>
       \/ /\ active = "rates" /\ Rate!Next
          /\ UNCHANGED <<money, work, revocationVars, seatsVars>>
       \/ /\ active = "reviews" /\ Review!Next
          /\ UNCHANGED <<money, access, warehouseVars, environmentsVars, schedulesVars>>
       \/ /\ active = "warehouse" /\ Warehouse!Next
          /\ UNCHANGED <<money, access, reviewVars, environmentsVars, schedulesVars>>
       \/ /\ active = "environments" /\ Environment!Next
          /\ UNCHANGED <<money, access, reviewVars, warehouseVars, schedulesVars>>
       \/ /\ active = "schedules" /\ Schedule!Next
          /\ UNCHANGED <<money, access, reviewVars, warehouseVars, environmentsVars>>

Spec == Init /\ [][Next]_vars

\* Fairness is the polling loop's, the only one a property relies on.
FairSpec == Spec /\ Warehouse!WarehouseFairness

-----------------------------------------------------------------------------
(* The properties of the services; each is stated in the service's module. *)

\* Types, of every service.
TypesOK ==
    CASE active = "reviews"      -> Review!TypeOK
      [] active = "warehouse"    -> Warehouse!TypeOK
      [] active = "metering"     -> Meter!TypeOK
      [] active = "revocation"   -> Revocation!TypeOK
      [] active = "environments" -> Environment!TypeOK
      [] active = "invoices"     -> Invoice!TypeOK
      [] active = "billing"      -> Bill!TypeOK
      [] active = "budget"       -> Budget!TypeOK
      [] active = "reports"      -> Report!TypeOK
      [] active = "schedules"    -> Schedule!TypeOK
      [] active = "seats"        -> Seat!TypeOK
      [] active = "rates"        -> Rate!TypeOK

\* An apply outside dev without the bypass follows a review on record, which is audited
\* but for approvals on SQLite; nobody approves after a review of his own.
ReviewedBeforeApplied == Review!ReviewedBeforeApplied

\* A run recorded SUCCESS is never one the warehouse reports as failed.
NoPhantomSuccess == Warehouse!NoPhantomSuccess

\* Every call of the warehouse ends.
CallsEnd == Warehouse!CallsEnd

\* A usage event is stored at most once, and in order.
BilledOnce == Meter!BilledOnce

\* A usage event is reported to Stripe at most once by one process.
ReportedOnce == Report!ReportedOnce

\* A revoked token is refused everywhere once the cache's time has passed, unless row
\* security hides revocations from the checks: then no cache ever learns of one.
RevocationSpreads == Revocation!RevocationSpreads

\* The names in a promotion tell which environments took part.
PromotionsNameOneEnvironment == Environment!PromotionsNameOneEnvironment

\* Invoices are numbered 1, 2, 3 ... in each month.
NumbersAreDense == Invoice!NumbersAreDense

\* Tier and subscription are Stripe's words on that customer; and a paid tier has its
\* subscription as long as no two events were handled at once.
TierComesFromStripe == Bill!TierComesFromStripe

\* A process passes a budget by less than one call.
OvershootIsOneCall == Budget!OvershootIsOneCall

\* The next run is the next match, and each slot is served once.
SlotsAreServedOnce == Schedule!SlotsAreServedOnce

\* The seat limit is passed by less than one member per lock number in use.
SeatsAreLimited == Seat!SeatsAreLimited

\* No span of the window, less delay and skew, sees more requests than the burst limit.
BurstIsLimited == Rate!BurstIsLimited
=============================================================================
