---------------------------- MODULE BudgetGuard ----------------------------
(***************************************************************************)
(* The spend limits of the AI engine: BudgetGuard.guard_call over the      *)
(* InMemoryLLMUsageRepo of one process, as LLMClient._call_llm calls it.   *)
(*                                                                         *)
(* check, call and record happen under one asyncio lock, but they await,   *)
(* so other requests, midnight and the first of the month come in between. *)
(* The repository belongs to its process: it starts empty, and it prunes   *)
(* at every write what it takes to be too old for any budget.              *)
(***************************************************************************)
EXTENDS Integers, FiniteSets, FiniteSetsExt, Functions

CONSTANTS
    Callers,         \* requests that may call the model at the same time
    Daily, Monthly,  \* the budgets, in units of cost
    MaxCost,         \* the cost of the dearest call (max_tokens bounds it)
    MonthLength,     \* days in a month
    MaxAge,          \* max_age_days of the repository
    MaxDays          \* bound: days

\* What the constants must be.
BudgetAssumption ==
    /\ Daily \in Nat \ {0} /\ Monthly \in Nat \ {0} /\ MaxCost \in Nat
    /\ MonthLength \in Nat \ {0} /\ MaxDays \in Nat \ {0}
    /\ MaxAge \in Nat /\ MaxAge >= MonthLength

Days == 1 .. MaxDays

VARIABLES
    today,
    usage,      \* _records: [Days -> the cost recorded on the day]
    calling,    \* callers between check_budget and record_usage
    answered    \* history: [Days -> the cost of the calls answered on the day since the start]

budgetVars == <<today, usage, calling, answered>>

Init ==
    /\ today = 1
    /\ usage = [d \in Days |-> 0] /\ answered = [d \in Days |-> 0]
    /\ calling = {}

-----------------------------------------------------------------------------

MonthOf(d) == (d - 1) \div MonthLength
MonthDays(d) == {e \in Days : MonthOf(e) = MonthOf(d)}

\* get_period_cost(since), for a period that lasts until now.
PeriodCost(costs, period) == SumFunctionOnSet(costs, period)

WithinBudget ==
    /\ PeriodCost(usage, {today}) < Daily
    /\ PeriodCost(usage, {d \in MonthDays(today) : d <= today}) < Monthly

\* Mutant: a lock object per call.
AnyTime(c) == c \notin calling

LockIsFree(c) == calling = {}

\* guard_call up to its await of the model; a caller over budget gets BudgetExceededError
\* and nothing changes.
StartCall(c) ==
    /\ LockIsFree(c) /\ WithinBudget
    /\ calling' = calling \cup {c}
    /\ UNCHANGED <<today, usage, answered>>

\* _prune drops what is older than now less MaxAge days: of the day that began MaxAge
\* days ago, the records before the present hour, so either all or none as far as it goes.
Kept(d) == d >= today - MaxAge

Record(cost) ==
    LET written == [usage EXCEPT ![today] = @ + cost]
    IN  \E oldest \in {today - MaxAge, today - MaxAge + 1} :
            usage' = [d \in Days |-> IF Kept(d) /\ d >= oldest THEN written[d] ELSE 0]

Answer(c) ==
    /\ c \in calling
    /\ \E cost \in 0 .. MaxCost :
          /\ Record(cost)
          /\ answered' = [answered EXCEPT ![today] = @ + cost]
    /\ calling' = calling \ {c}
    /\ UNCHANGED today

\* An exception of the client, a timeout among them: zero tokens are recorded.
FailedCall(c) ==
    /\ c \in calling
    /\ Record(0)
    /\ calling' = calling \ {c}
    /\ UNCHANGED <<today, answered>>

\* The request is cancelled: "except Exception" does not see a CancelledError.  What
\* failed and cancelled calls were charged is in no record.
Cancelled(c) ==
    /\ c \in calling
    /\ calling' = calling \ {c}
    /\ UNCHANGED <<today, usage, answered>>

NextDay ==
    /\ today < MaxDays
    /\ today' = today + 1
    /\ UNCHANGED <<usage, calling, answered>>

Restart ==
    /\ usage' = [d \in Days |-> 0] /\ answered' = [d \in Days |-> 0]
    /\ calling' = {}
    /\ UNCHANGED today

Next ==
    \/ \E c \in Callers : StartCall(c) \/ Answer(c) \/ FailedCall(c) \/ Cancelled(c)
    \/ NextDay
    \/ Restart

Spec == Init /\ [][Next]_budgetVars

-----------------------------------------------------------------------------

\* Types.
TypeOK ==
    /\ today \in Days
    /\ usage \in [Days -> Nat] /\ answered \in [Days -> Nat]
    /\ calling \subseteq Callers

(* However requests, midnight and the month's end interleave with the calls, what     *)
(* one process spends on answered calls passes each budget by less than the cost of   *)
(* one call: no second caller passes the check on the first one's spend, and pruning  *)
(* never forgets a day of the current month.                                          *)
OvershootIsOneCall ==
    \A d \in Days :
        /\ answered[d] < Daily + MaxCost
        /\ SumFunctionOnSet(answered, MonthDays(d)) < Monthly + MaxCost

=============================================================================
