# IronLayer in TLA+

IronLayer plans and executes incremental SQL transformations on a warehouse
(Databricks, or DuckDB locally). A planner turns a change of SQL models into a
plan of steps; users review the plan; an execution service runs its steps, or a
backfill of one model over a range of days, and keeps in PostgreSQL what was run,
up to which day, and an audit log. Around that stand metering, quotas, billing,
environments, reconciliation and token revocation. This directory holds TLA+
models of these parts, the TLC runs that check them, and TLAPS proofs that every
safety property of the passing runs, the refinements included, holds for all values
of the constants.

Paths below are relative to the repository: `api/` is `api/api/`, `core/` is
`core_engine/core_engine/`.

## 1. The system

| Component | State | Operations | What is hard | What makes it correct |
|---|---|---|---|---|
| Backfills `api/services/execution_service.py`, `core/state/repository.py` | `backfill_checkpoints`, `backfill_audit`, `watermarks`, `locks`, `plans`; the warehouse | `backfill`, `chunked_backfill`, `resume_backfill`, each over `_execute_step` | concurrent requests on one backfill or on overlapping ranges; crashes between chunks; the warehouse is outside the transaction; stale resume points | recorded days were executed; a checkpoint never passes a hole; one request per range; no lock left behind; every request ends |
| Plan execution `execution_service.apply_plan` | `runs`, `watermarks`, `locks`; the warehouse | the loop over the steps | two requests on one plan; retries after partial failure; records refused after the work is done | runs are true; retries skip what is done; every step is answered |
| Partition locks | `locks` | acquire, release, check, expire, force-release | a lock row is visible only after commit: exclusion comes from waiting on the unique key | mutual exclusion, no orphan |
| Request transactions `api/dependencies.py`, `core/state/database.py` | one session per request | commit at the end, rollback on an exception | what was rolled back and what was not (the warehouse) | part of every model |
| Audit chain `repository.AuditRepository`, `api/services/audit_service.py` | `audit_log` | log, verify, anonymize, clean up | clock read before the lock; salted lock number per replica; erasure rewrites hashed fields | entries link to committed entries, one start per replica, verification survives erasure |
| Planner `core/planner/interval_planner.py`, `core/graph/dag_builder.py` | none: a function of models, diff, watermarks | `generate_plan` | cycles, diamonds, gaps between changed models, watermarks past the reference date | exact affected set, sound sort, true layers, ranges that cover watermarks |
| Plan service and CLI plan `api/services/plan_service.py`, `cli/cli/commands/plan.py` | none; two commits and a working copy | load, version maps, structural diff, plan | each side is hashed from a different text; files come, go, move, lose headers, share a model, end in one another's path | what changed is planned; the CLI misses what moved and plans what a changed path names |
| Event outbox `api/services/event_bus.py` | `event_outbox` | emit with the request; poll, dispatch, mark, prune | crash between dispatch and mark; several pollers; handlers that time out after working | at-least-once, only committed events, every event settled |
| Plan approvals `api/routers/approvals.py` | `plans.approvals_json`, `audit_log` | approve, reject, the gate of apply | lists that are old when they are written back; a JSONB column that gives back text or an array; a savepoint that commits on SQLite | nothing is applied outside dev without a recorded review; the audit row of an approval may be missing on SQLite only |
| Quotas, metering `api/services/quota_service.py`, `core/metering/collector.py` | `usage_events`, a buffer per process, a circuit breaker | check, record, flush, break, back off | events are counted in one transaction and written in a later one; a file takes half a batch; failed flushes drop | the database bills no event twice |
| AI budget guard `ai_engine` `budget_guard.py`, `in_memory_usage_repo.py` | the usage log of a process | check, call, record, prune | awaits between check and record; midnight, the first of the month; pruning | a budget is passed by less than one call |
| Databricks executor `core/executor/databricks_executor.py` | the job in the workspace, the run row | submit, poll, cancel, record | deadline against a late answer; lost answers; jobs that end by themselves | a SUCCESS row has a job that did not fail; every call ends |
| Reconciliation `api/services/reconciliation_*.py` | the schedule row, the loop | classify, compute the next run, execute, reschedule | cron days against Python days; a reconciliation longer than its slot | each slot is served once |
| Environments `api/services/environment_service.py` | `environments`, `environment_promotions` | create, delete, expire, clean up, promote | a promotion looks up first and records later | the names in a promotion tell which environments took part |
| Billing, invoices, usage reports `api/services/billing_service.py`, `invoice_service.py` | `billing_customers`, `invoices`, PDFs; Stripe | customers, webhook events, invoice numbers, reports | repeated, reordered and overlapping events; a salted lock; reports that keep no mark | tiers and subscriptions come from Stripe, and belong together while handlers do not overlap; numbers are dense; an event is reported once |
| Team members `api/services/team_service.py`, `quota_service.py` | `users`, the quantity of the Stripe subscription | invite, reactivate, remove | a count under a salted lock; removals take no lock; Stripe is told before the commit | the seat limit is passed by less than a member per lock number |
| Rate limits `api/middleware/rate_limit.py` | a sorted set in Redis, or a deque per process | hit, prune, expire | stamps of several clocks that arrive in another order; lost answers; a key that expires | no window, less delay and skew, forwards more than the burst |
| Token revocation `api/middleware/auth.py` | a cache per process, Redis, `token_revocations` | check, learn, revoke | an answer that is old when it reaches the cache; outages; row security | where the checks see the rows, a revoked token is refused everywhere after a known time |
| Webhooks, parsing, SQL toolkit, contracts, checks, AI engine, MCP server, front end | none or files | transformations, calls, pages | little that interleaves | not modelled |

**How they interact.** A router opens one session, hence one READ COMMITTED
transaction, calls a service, and the dependency commits when the handler returns
(`_with_session`). The execution service shares `locks` and `watermarks` between
backfills and plans, calls the warehouse in the middle of the transaction, and
records afterwards. Handlers call `AuditService.log` in the same transaction.
`emit_persistent` writes an outbox row in it too, and a poller of each replica
takes over after the commit. The plan service calls the planner, which reads the
watermarks the execution service wrote. The metering collector writes the events
that quota checks and usage reports count, in transactions of its own.

## 2. The modules

| Module | Models | Instance for TLC | Proofs |
|---|---|---|---|
| `Backfill` | backfills of one model, with the tables they touch | `MCBackfill` | `Backfill_proofs` |
| `PlanApply` | requests applying one plan | `MCPlanApply` | `PlanApply_proofs` |
| `Ledger` | what the database promises about done work: the abstract specification | by `Backfill` and `PlanApply` | with theirs |
| `AuditChain` | the audit log of one tenant | `MCAuditChain` | `AuditChain_proofs` |
| `Planner` | one call of `generate_plan` | `MCPlanner` | `Planner_proofs` |
| `PlanService` (extends `Planner`) | from two commits to a plan, by the API or the CLI | `MCPlanner` | `Planner_proofs` |
| `EventOutbox` | the outbox and its pollers | `MCEventOutbox` | `EventOutbox_proofs` |
| `Delivery` | what the outbox promises: the abstract specification | by `EventOutbox` | with those of `EventOutbox` |
| `PlanReview` | reviews of a plan and the gate of apply | `MCServices`, itself | `Services_proofs` |
| `WarehouseRuns` | the calls that execute one step on Databricks | `MCServices`, itself | `Services_proofs` |
| `Metering`, `UsageReports` | events: quota, buffer, sinks; reports to Stripe | `MCServices` | `Services_proofs` |
| `BudgetGuard` | the spend limits of one process | `MCServices` | `Services_proofs` |
| `Billing`, `Invoices` | one tenant's customer and subscriptions; its invoices | `MCServices` | `Services_proofs` |
| `Environments` | environments and promotions of one tenant | `MCServices` | `Services_proofs` |
| `RevocationCache` | checks of one token | `MCServices` | `Access_proofs` |
| `Schedules` | one reconciliation schedule | `MCServices` | `Services_proofs` |
| `Seats` | the members of one tenant and its seat limit | `MCServices` | `Access_proofs` |
| `RateLimit` | the requests of one client against one limit | `MCServices` | `Access_proofs` |

`MCServices` is the sum of the last twelve: they share no state, so each behaviour
runs one of them, chosen in `Init`, and the others stay where they started.
Nothing is lost: a property of one service depends on its own steps only.
`Services_proofs` proves that a behaviour of the sum is a behaviour of each service,
so its theorems are about the very specification the run checks. It extends
`Access_proofs`, where three of the services have their proofs, and that extends
`Induction`, a library of lemmas about numbers, finite sets, recursive functions and
sums which `Planner_proofs` uses too.

### Transactions

`Backfill`, `PlanApply` and `AuditChain` write the database the same way. The
unprimed tables (`checkpoint`, `runs`, `log`, ...) hold committed rows. What a
request wrote is in its `tx*` (or `mine`) entry and becomes visible in `Commit`;
`Rollback` forgets it. `Crash` is a rollback at any moment. A statement that
touches a key or a row another open transaction wrote is disabled until that one
ends (`KeyFree`, `RowFree`); `LockTimeout` is the 10 s `lock_timeout` of
`get_engine`, and stands for the deadlock detector as well. This is PostgreSQL; of
the modules only `PlanReview` and `RevocationCache` say what differs on SQLite. The warehouse
(`processed`, `executed`, `cancelled`) is not rolled back. In the services a
request's locals hold what it read (`review`, `promoter`, `making`, `check`,
`loop`), and its last step is its commit.

### Backfill

| State | Code |
|---|---|
| `checkpoint[j]` | the `backfill_checkpoints` row of backfill `j`: `status`, `completed_through` (as `through`), `completed_chunks` |
| `watermarks`, `audit`, `locks`, `plans` | the tables of the same names, for one model |
| `processed`, `cancelled` | days whose SQL the warehouse ran, or was given and cancelled |
| `pc`, `job`, `chunk`, `count`, `status` | where a request is in `_execute_chunks` or `backfill`, and its locals |

`StartChunked` and `Resume` are the two entry points and compute the first chunk;
`AcquireLock`, `ExecuteOk`/`ExecuteFail`/`ExecuteCancelled`,
`RecordSuccess`/`RecordFailure` and `MarkCompleted` are the loop of
`_execute_chunks`; `StartSingle`, `LockAndSavePlan`, `RecordSingle` are
`backfill`. An execution that raises may have had its effect, since the wait for
the warehouse has a deadline of its own. Days are numbers, a chunk a pair of
days. `LastDay` bounds them.

### PlanApply

`Listed` is the order of `plan_json`; `Locked` the INCREMENTAL steps with an
input range. `CheckDone` reads the runs, `AcquireLock` inserts the lock row,
`Execute*` is `_execute_step`, `Record` the run, the watermark and the release.
`skipped` are steps answered because a lock was refused; `doneBefore` and
`request` exist for the properties. Requests are assumed to have passed the role
check and the gate of `PlanReview`: a refused one changes nothing. `MaxRequests`
bounds the requests made.

### Ledger

What `Backfill` and `PlanApply` have in common: the warehouse answers for work
(`Answer`), and work it answered for is posted (`Post`) in one step to the records, to
the watermarks if it is of the kind that leaves one, and to the rows of its owner.
Nothing is taken back. There are no requests, chunks, locks or transactions in it, so
each of the two has to show that its own come to that (`LedgerIsKept`):

| `Ledger` | in `Backfill` | in `PlanApply` |
|---|---|---|
| work; kept work | days; all of them | steps; the locked ones |
| owners | the backfills | the requests |
| `answered` | days executed or cancelled | steps executed or cancelled |
| `recorded`; `marks` | days under a watermark, both | steps with a SUCCESS run; `watermarks` |
| `rows` | days with a SUCCESS row in the audit of a backfill | steps with a SUCCESS run of a request |

An `Execute*` maps to `Answer`, a `Commit` to one `Post` of all the request did, and
every other step, a crash or a rollback included, to no step at all. `BooksAgree` says
what follows from the ledger alone.

### The status a run may have

`tables.py:199-203` and migration 022 give `runs` a CHECK constraint on
PENDING, RUNNING, COMPLETED, FAILED, CANCELLED. The execution service inserts
SUCCESS or FAIL (`core/models/run.py`, `RunStatus`), so on such a database **every
apply and every backfill raises at its first `create_run` and rolls back**. A
database migrated up to 021, or one whose existing rows make the migration fail,
accepts every status. Both are modelled: `runStatuses` is chosen in `Init` from
`Schemas`, `RefuseRun` is the violated constraint, and `Record*` are possible
only where the status is accepted. The theorems hold for every schema.

### AuditChain

Every reading of the clock is a new number and an entry's hash is named by its
`created_at` (SHA-256 is taken to be injective). `BeginLog` reads the clock,
`AdvisoryLock` takes the transaction-scoped lock whose number depends on the
process, `Insert` links to the latest visible entry. `Anonymize`, `Cleanup` and
the operator `VerifyChain` are the rest of the repository. `lock` in an entry and
the variable `history` exist for the properties only.

### Planner and PlanService

The behaviour of `Planner` is one call: `Init` chooses the input, `PopReady` is a
round of Kahn's algorithm with its smallest-name-first heap, `BuildPlan` writes
the steps. Models are numbered in the order of their names.

`PlanService` computes that input from a base commit, a target commit and a
working copy, which are functions from files to contents: `Loaded` and
`TargetVersions` are the loader, `ChangedFiles` and `StatusFiles` what the API and
the CLI read from git diff, `ApiBaseVersions` and `CliBaseVersions` the two version
maps, `StructuralDiff` the diff. A hash is the text it is computed from; the API
hashes the whole old file, the loader the SQL without its header, so they differ.

git is external: `renames` is chosen in `ServiceInit` from `PossibleRenames`, the
pairings of a file that is gone with a new one, in which files of equal contents are
always paired. Of a rename the API lists the new name; the CLI splits the line once
and gets a path that holds both names and is no model's. The CLI takes a model as
changed when its path ends with a listed one (`EndsWith`, a constant: which path ends
with which). It then asks git for the old text by the absolute path the loader gives,
which git never finds; the error is swallowed, so a changed model always looks added.
The test the other way round (`cf.path.endswith(m.file_path)`) never holds, for the
path of a model is absolute.

### EventOutbox and Delivery

`EmitPersistent` and `EndTransaction` are the request; `Read`, `Abandon`,
`Dispatch`, `Mark` are `_poll_once`, split where it releases its session;
`Cleanup` prunes. A handler that missed its deadline may have done its work.
`Delivery` has neither rows, polls nor replicas: an event that has committed is
handed to some handlers any number of times (`Hand`), and is settled (`Settle`)
when every handler has heard of it or after `MaxAttempts` attempts. The mapping
(`Phase`) takes delivered, failed and deleted rows for settled. Nothing in the
repository constructs an `OutboxPoller` at start-up yet; the model is of the class.

### The services

| Module | State and actions |
|---|---|
| `PlanReview` | `BeginApprove`/`BeginReject` are the reads of the two handlers. On PostgreSQL `AddApproval` appends in the database; the concatenation yields a JSONB array, the read-back raises on it, and the request rolls back. On SQLite each session has a connection of its own and the driver begins a transaction only at the first write: `SaveApproval` writes the list that was read, which may be old by then, and releasing its savepoint commits it; `LogApproval` adds the audit row in a second transaction, which may not come (`Rollback`). `WriteRejection` writes the list read before, with the entry; `Commit` logs and commits; `Apply` is the gate. |
| `WarehouseRuns` | `job` moves by itself; `Submit`, `PollAnswered`, `PollFailed`, `Deadline` are `execute_step` and its polling loop, `MapStatus` and `Recorded` the translation into a row. `Classify` is the reconciliation's. |
| `Metering` | `Check`, `Record`, `EndRequest` are a request; `Flush`, `HandOver`, `WriteFile`, `FailFile`, `DropAll`, `TaskEnds`, `BackoffEnds` the collector with either sink; `ProcessDies`. |
| `UsageReports` | `Wake`, `Count`, `Send`: the reporter thread. `Use` and `Store` are the metering as it sees it. |
| `BudgetGuard` | `StartCall` (the check, under the lock), `Answer`, `FailedCall`, `Cancelled`; `Record` prunes. `NextDay`, `Restart`. |
| `Billing` | `CreateCustomer`, `InsertRecord`, `RequestLost`; `Subscribe` and `ChangeSubscription` at Stripe, each with an event in `sent`; `ReadEvent` is a handler's SELECT, which takes no lock, `WriteEvent` its UPDATE of the columns it changed, with the commit, `HandlerFails` everything else. `overlapped` exists for the property. |
| `Invoices` | `Begin`, `Number` (count under the lock), `Insert` (PDF, then the row), `Commit`, `Abort`; `NextMonth`. |
| `Environments` | `Create`, `SoftDelete`, `Expire`, `CleanupExpired`; `LookUp` and `RecordPromotion`. |
| `RevocationCache` | `AskCache`, `AskRedis`, `ReadDatabase`, `Learn`, `DatabaseDown`: a check; `Revoke`, `Restart`, `Tick`. `hidden`, chosen in `Init`, says whether the row security of migration 004 applies to the role of the checks, whose session names no tenant: they then see no row. It does not on SQLite, nor for a superuser or a role with BYPASSRLS. |
| `Schedules` | `FindDue`, `Advance`, `Undo`: the loop; `Upsert`: the request; `NextRun` is `compute_next_run`. |
| `Seats` | `CheckSeats` is the quota check with its wait for the lock, whose number is one of `numbers`; `Look`, `Write`, `Sync`, `Commit` are the rest of both handlers. A removal keeps the row and marks it. |
| `RateLimit` | `Hit` and `LoseAnswer` are a request at the moment its backend serves it; its stamp is up to `Late` old (the socket timeout) or `Early` ahead (the clock skew between replicas). `Tick` drops an idle key after the window and `Grace`, the two seconds `expire` adds. `passed` exists for the property. |

Stripe, git, the file system and the workspace are external: what they may do is
written from how the code treats their answers.

Limits of these models:

- The webhook route of Stripe calls `get_session_factory()` without its required
  `request` (`routers/billing.py:313`, `dependencies.py:63`): as it is written every
  event raises, and Stripe sends it again. In `Billing` those are the behaviours in
  which `HandlerFails` always comes; the others are what the service does once the
  call is repaired. Where the row security of `billing_customers` (migration 011)
  applies to the route's role and the event's metadata does not name the tenant, the
  event is ignored: `ReadEvent` does not come.
- `Seats` is about PostgreSQL. On SQLite `_acquire_advisory_lock` does nothing
  (`quota_service.py:81-91`), and two invitations may both take the last seat.
- `RateLimit` chooses one backend for a behaviour. The middleware starts with the
  store of the process and tries once, at its first request, to change to Redis
  (`_maybe_upgrade_backend`): requests served while it waits are counted in the
  process and then forgotten, and a process whose attempt fails keeps its own store
  although others use Redis. The bound on a span holds from the change on, and for
  the processes that made it.

## 3. The runs

| Run | Question | Result |
|---|---|---|
| `Backfill_safe` | Are checkpoints true and consistent with watermarks and audit under concurrent starts and resumes? Are ranges, and the days of one backfill, exclusive? | holds |
| `Backfill_live` | Does every request end? Do backfills implement `Ledger`? | holds |
| `PlanApply_safe` | Do plans implement `Ledger`? Are retries idempotent, steps all answered, locked steps exclusive? | holds |
| `PlanApply_order` | Are steps executed in topological order (`execution_service.py:79`)? | no: in the order of `plan_json`, alphabetical |
| `AuditChain_safe` | Do links survive aborts and replicas, is the chain started once per replica, does it verify? | holds |
| `AuditChain_fork` | Does the lock prevent forks (`repository.py:809`)? | no: the clock is read before the lock |
| `Planner_plans` | Is the plan exact, sorted, layered, closed, do ranges cover watermarks, and does what changed between two commits, renames included, get planned? | holds, less what the CLI misses |
| `PlanService_unchanged` | Are unchanged models left out of the API's plan (`plan_service.py:596`)? | no: they look added |
| `EventOutbox` | Does the outbox implement `Delivery`, is every event settled, does a delivered one stay delivered with one poller? | holds |
| `Services` | The properties of the twelve services | hold |
| `PlanReview_rejected` | Does an apply outside dev follow an approval (`plans.py:264`)? | no: any review passes the gate, a rejection too |
| `WarehouseRuns_cancelled` | Does a SUCCESS row stand for a job that succeeded (`models/run.py:32`)? | no: a cancelled job is recorded SUCCESS |

**Bounds.** `Backfill_safe`: two requests at a time, two backfills of three days
in chunks of one and of two days (so the last chunk of the second is cut short),
one single-day backfill that collides with the first chunk of one of them; the
number of requests made is not bounded. Three days give a resume point with done
chunks before it and open ones after it. `Backfill_live` has two days, enough for
a chunk after a chunk and for two backfills that post one day. `PlanApply_safe`: three
steps, the middle one unlocked, and three requests, two at a time, so that a third can
follow two that overlapped.
`AuditChain_safe`: four clock readings, three requests of two replicas, a verify
limit of three so that the newest entry may be out of reach. `Planner_plans`: all
graphs of four models with at most four edges (diamond, four-cycle) for the
shapes; all DAGs of three models with all changes, builds and three watermark
situations (none, behind, past the reference date) for the ranges; all triples of
trees of three files for the commits, with every set of renames git may show: a header
that is lost or changed, a file that goes, changes or moves, edited on the way or not,
two files of one model, and a path that ends with another. `EventOutbox`: two events,
two handlers, two attempts, one or two pollers, one crash, a batch of one, so that
an entry waits behind a failing one. `Services.cfg` gives a service two
requests (callers, checks, processes) to interleave, or one where its property is
about one process (the reporter, the scheduler loop, the promotion, a Stripe
invoice), and one bound on what is made:
two reviews; three events of which two fill a buffer and two failures trip the
breaker, which keeps the whole batch (a fifth of ten in the code), so that an event
the file has taken is put back; months, days and hours of two units and one more of each than a period
holds; a cache time of one tick with Redis and two without; three subscription
events; three emails for two seats and two lock numbers; a window of four ticks, a
burst of two, a delay and a skew of one. Sessions are symmetric where no liveness is checked.

**Deadlock** is checked in the two passing runs of `Backfill`. In the others the
bounds on requests, clock, events or rows make the system stop.

**Mutants.** Beside the helpers of each module stand operators commented
*Mutant*: the same helper with a plausible mistake (no wait for a key, a lock
not deleted, an uncounted failure, a chunk one day too long, a cache entry that
does not expire). Every property of a passing run is violated under one of them;
`PROJECT.json` names which.

**Fairness.** `Backfill!FairSpec` is weak fairness of the steps of each request
that has begun: the event loop runs a handler that can go on, the wait for the
warehouse has a deadline (`_poll_until_complete`), a wait for a row ends after
`lock_timeout`. No fairness is put on clients or on crashes.
`EventOutbox!FairSpec` is weak fairness of each poller: `_poll_loop` runs for the
life of the process and each handler call has a deadline. `EventuallySettled`
also rests on the bound on crashes. `WarehouseRuns!WarehouseFairness` is weak
fairness of the polling loop, whose sleeps and requests are bounded; none is put
on the warehouse.

## 4. Differences between text and code

Five runs above show one each. The following are stated as definitions of the
modules, fail in TLC when checked, and have no run of their own:

- `Backfill!NoConcurrentWrites` (`tables.py:246`): overlapping chunks that are not
  equal take different keys, so requests of two backfills execute one day together.
  Requests of one backfill never do: that is part of `RangeMutex`.
- `Backfill!InterruptedIsResumable` (`execution_service.py:518`): the checkpoint of
  a chunked backfill is in the transaction that is gone.
- `PlanApply!ExecutionsAreRecorded` (`models/run.py:32`): on a database with
  migration 022 no execution leaves a run.
- `Metering!QuotaHolds` (`quota_service.py`): the lock covers the check, but the
  events it counts are stored later, and its number differs between processes.
- `Environments!RefusedNamesAreActive`: `ix_env_tenant_name` covers deleted rows,
  so a name once used is never free again.
- `Invoices!OneInvoicePerStripe`: two deliveries of one Stripe invoice look for it
  before either commits.
- `Billing!PaidTierHasSubscription` (`billing_service.py:368`): both handlers read
  the row without a lock and write the columns they changed. A deletion that overlaps
  an update of the tier alone leaves the paid tier and no subscription. Without an
  overlap it holds: that is part of `TierComesFromStripe`.
- `UsageReports!UnreportedIsQueried`: an event stored later than one interval
  after its use is in no window. With two reporters each event is reported twice.
- `Seats!StripeBillsMembers` (`team_service.py:245`): `count_by_tenant` counts every
  row, so a removed member keeps their seat and stays billed.
- `Schedules!NextRunMatches`: PUT /schedule keeps the next run of the old
  expression.

Part of a model, whose property says how far the code goes:

- The CLI does not plan a model that was moved and edited (`git_client.py:176` splits a
  rename line once), plans an untouched model whose path ends with that of a changed
  file (`cli/commands/plan.py:72`), and asks git for the old text by an absolute path,
  which always fails unseen (`:83`). `ChangesArePlanned` says what is left.
- On SQLite an approval is committed before its audit row, and of two reviews that
  overlap one is lost (`plan_repository.py:78`; `database.py:44` calls the engine
  "single-connection"). `ReviewedBeforeApplied` says what is left; the JSONB array of
  PostgreSQL makes every approval there roll back.
- The check of a revoked token asks the database without a tenant, and migration 004
  forces row security on the table: for an ordinary role no revocation is ever seen
  (`middleware/auth.py:195`; `repository.py:1059` promises a cross-tenant lookup).
  `RevocationSpreads` has its deadline only where the rows are seen.

Met while modelling, without a definition: nothing orders the events of Stripe, so an
old one may be applied last and stay; `LLMClient` says that check and record are
"intentionally not held under the guard's lock during the LLM call itself"
(`llm_client.py:91`), while `_call_llm` goes through `guard_call`, which holds it over
all three, as its own docstring says (`:323`, `:368`): `OvershootIsOneCall` is about
the code, and would not hold of what the class describes; a run the workspace cancelled is
recorded as a success, so `LedgerIsKept` and `ProgressIsBacked` say *executed or
cancelled*; no run row is given an `external_run_id`, so the reconciliation skips
every row; `guard_call` records zero tokens for a failed call and nothing for a
cancelled one; a usage file that fails in the middle of a batch keeps the lines it
took, and what the breaker puts back of them is written a second time, if the batch
has ten events or more (`core/metering/collector.py:235-242`; the API uses the
database sink, which takes all or nothing); `verify_chain` says it reads the most recent entries and reads the
oldest (`repository.py:895`, `:918`); after `cleanup_old_entries` a chain no longer
verifies, which its comment denies (`:993`); `_compute_incremental_range` says an
incremental step starts the day after its watermark and starts on it
(`interval_planner.py:347`, `:376`); with two pollers, one that read an entry as
exhausted can mark it failed after the other delivered it; the push
webhook and the Stripe webhook call `get_session_factory()` without its required
`request` (`api/routers/webhooks.py`, `api/routers/billing.py:313`), so each of their
events raises, and `handle_push_event` answers `plan_triggered` without a plan; the plan cache, the usage reporter, the
reconciliation scheduler, the outbox poller and the webhook dispatcher are
constructed by nothing at start-up.

## 5. The proofs

All theorems are about any number of sessions, jobs, replicas, events and handlers,
any plan, range, chunk size, schema, limit and lock numbers, under the `ASSUME`s of
the modules only, which say what the constants are. Each proof module has one step
lemma per invariant with one case per action.

- `Backfill_proofs`. `TypeInv` is `TypeOK` with the shape of a request's locals
  (which chunk is a range where). `LockInv` adds that a request's own lock rows
  are at most the one of its current chunk and are there only while it executes
  and records, and that it holds the chunk's key while it executes: from it
  `NoOrphanLock` and half of `RangeMutex`. `RecordsInv` says of uncommitted rows what
  `RecordsTrue` says of committed ones. `ProgressInv` is
  why checkpoints may be trusted: the row a request wrote *and* the day its loop
  stands at are backed, day by day, by the marks and rows it *sees* (committed and
  its own); since those only grow and another request's commit can only add to
  them, a stale resume point stays backed. `CountInv` keeps each loop at a chunk of
  the original split (`AtSplit`), with its count the number of chunks before it. The
  other half of `RangeMutex` follows from it and `LockInv`: two requests of one backfill
  that execute hold different keys, hence different chunks of one split, and those
  share no day (`SplitExcludes`).
  For `KeepsLedger`, `PostInv`: the marks of a transaction are the chunks of its SUCCESS
  rows, all of one backfill, and an idle request has none. So a commit posts one set of
  days to watermarks and audit alike (`CommitPosts`), and the days are answered for by
  `RecordsInv`; `StoreStep` puts the actions together.
- `PlanApply_proofs`. `InLoop` bounds the index; `LockInv` and `RecordsInv` are as
  above; `StepsAreAnswered` needs that every step before the index is answered,
  and `LockInv` for the absence of skipped steps; `RetrySkipsDone` that runs never
  disappear and that a step past the idempotency check was not done when the
  request began. `KeepsLedger` needs of `PostInv` that uncommitted runs carry their
  request's number, and of `RecordsInv` that its marks are those of its runs.
- Bounds on steps. What can be proved of termination without fairness is a number that
  each step of a request lowers and nothing else raises. `StepsAreBounded` of
  `Backfill_proofs` counts three steps per day still ahead of the chunk, which rests on
  `CountInv` (a chunk never passes the end of its backfill), that of `PlanApply_proofs`
  four per step of the plan, and `TurnsAreBounded` of `Services_proofs` the turns left
  before the deadline of a warehouse call, and `AttemptsAreBounded` of
  `EventOutbox_proofs` the attempts left at an entry. With them, `RequestsEnd` and
  `CallsEnd` depend on one thing only, that a request or call can always take a step and
  does; `EventuallySettled` also on pollers reaching every entry.
- `AuditChain_proofs`. `LinksInv` states linkage of what each request sees, since
  an uncommitted entry may be linked to another of the same transaction.
  `RootInv`: of the requests with one lock number only one holds it and only that
  one has rows of its own, and each sees at most one start of the chain per lock
  number. `ChainInv`, for `Verifies`: as long as requests log one after the other,
  what each of them sees is `Chained` (distinct times, each entry with the hash of
  the latest one before it), and the time a request has read is later than what it
  sees. `Anonymize` keeps time and link, and `verify_chain` skips what it redacted.
- `Planner_proofs`, for any number of models and any graph, acyclic or not.
  `DescendantsAreReached`: the closure the planner iterates is what edges reach.
  `SortInv` is Kahn's loop: degrees count the predecessors not popped, the heap is
  what is ready, the order lists each popped model after its predecessors, and the
  depth of a popped model is one more than the largest depth of its predecessors.
  Hence `PlanIsExact`, `RangeCoversWatermarks` and `GroupsAreLayers`: a path
  descends in the order (`PathsDescend`), and when the heap empties early the models
  left over contain a cycle, because each has a predecessor among them (`StopsAtCycle`).
  The theorems hold for the specification of `Planner` and for the one that starts
  from two commits. `ServiceInv` and `HashesDiffer` give `ChangesArePlanned`: the
  hash of an old file is never that of a loaded model, so each model of a changed file
  is in the diff, but for the CLI those shown as renamed; and what the CLI has in its
  diff is named by the path of a changed file.
- `EventOutbox_proofs`. That the outbox implements `Delivery` (`Implements`) rests
  on `SafeInv`. `HandInv`: whatever a poller holds has been committed. `HeardInv`:
  what it will mark delivered was heard by every handler. `CountInv` is the heart:
  the attempts column, plus the pollers that have failed the event and not counted
  it yet, never exceeds the dispatches. A poller that reads an exhausted row
  therefore knows of enough dispatches (`GiveUpInv`), although other pollers count
  and crash meanwhile. `PromiseKept` follows from steps of `Delivery` alone: what was
  done stays done, so each settled event is. `LoneDelivery` needs `AloneInv`: what a
  lone poller holds to dispatch or to give up is still pending, since nobody else marks.
  `AttemptsAreBounded` rests on `OverrunInv`, for any number of replicas: until an
  entry is settled, the attempts counted and those under way stay below `max_attempts`
  plus the number of replicas. A replica joins those under way only by reading an entry
  that is not exhausted, and each adds at most one attempt. The bound is attained: with
  two replicas and `max_attempts` 2 a pending entry has 3 attempts on record.
- `Access_proofs`:
  - `RevocationCache`. `CheckInv`: a check that read "not revoked" began before the
    revocation; `CacheInv`: hence no entry "not revoked" is newer than the revocation
    by more than a check takes. Both are about checks that may see the rows; otherwise
    nothing "revoked" is ever read or kept. `ConfigStays`: the deployment does not change.
  - `Seats`. `SeatInv`: rows and locks held together stay below the limit plus the
    numbers in use. A seat was free when a lock was acquired, no more locks are held
    than there are numbers, and a commit turns a lock into at most one row; `RemoveInv`
    (a removal updates a row that stays) is why removals, which hold no lock, add none.
  - `RateLimit`. `CoverInv`: from each start within the span, the requests let through
    since then are at most the stamps in the set that can belong to them. Pruning
    spares those stamps, because a stamp is at most the delay older than its request
    and the clock that prunes is at most the skew ahead, and the key expires only
    after a span without requests. The hit that is let through counted them all.
- `Services_proofs`, a section for each of the other services:
  - `PlanReview`. `TrailInv`: what a request read is covered (in the trail, or an
    approval on SQLite), so what it writes back is too, stale or not. `OnceInv`: a list
    with an approval after a review of the same user is never made, because the request
    that appends an approval appends it to the list in which it found none of the user,
    stale or not; on PostgreSQL, where the append is to the column of the moment, because
    the read-back of the array raises and only rejections are stored. `GateInv`: what
    the gate let through, it found in the list.
  - `UsageReports`. `WindowInv`: what is reported was used before the window that is
    open or before the sleep that precedes it.
  - `WarehouseRuns`. `JobInv`: a call that recorded a success has ended and its job is
    over, so neither a late answer nor a deadline can touch them again.
  - `Metering`. `BufferInv` and `FlightInv`: an event is in one buffer, or in one task,
    or it is stored; no two batches share one. The proof is for batches of every size,
    and it is how the double write of section 4 was found: a run with small batches,
    where the breaker keeps one event, could not show it.
  - `Invoices`. `NumberInv`: the number of a row that is inserted and not committed is
    one more than the rows of its month and is nobody else's, because the unique index
    makes the second wait and fail; a number that is only counted may be stale.
  - `Billing`. `ToldInv`: the columns of the record, and those of each row a handler has
    read, were told by an event of the customer, so whatever columns are written, in any
    order, are too. `AloneInv`: until two handlers overlap at most one is at work and the
    row it read is the record, so it writes both columns as one event has them.
  - `Environments`. `EnvironmentInv`: rows of one name have one catalog, also while a
    promotion is between its look-up and its record.
  - `BudgetGuard`. `RecordedInv`: of the current month the log holds all that was
    answered, since pruning reaches no day of it, and of days to come nothing;
    `CheckedInv`: whoever calls the model was alone in finding the day and the month below
    their budgets, also when midnight passes during the call, since a new day or month
    begins at zero. `SpentInv` follows by one call's cost.
  - `Schedules`. `FirstOfPeriod` and `FirstOfWeek` are arithmetic with remainders of
    products of two constants: the time the code computes is the first after now at the
    expression's offset in an hour, a day or a week; `NextRunIsFirst` puts them together.
    `ServedInv`: with one process the slot of the row comes after the one served last,
    and what the process executes is the row's slot, so an advance moves strictly on.
  - Types: each invariant above begins with the types it needs; what they leave out is
    proved in the last section, and `TypesCorrect` collects the twelve.
- `Induction`. The provers cannot apply an induction rule to a predicate, so the rule is
  proved where it is needed as a statement about a set: a nonempty set of naturals has
  a least element (`LeastNumber`), a finite set of them a largest (`MaxOfFinite`). From it
  follow what a recursive function on an initial segment of the naturals satisfies
  (`Recursion`) and how the community modules' fold adds up: empty and one-point sums,
  one more or one fewer summand, order, subsets, one changed summand (`SumChanged`).

The assumptions of the services are operators (`SeatsAssumption`, ...) which
`MCServices` assumes and the lemmas about each service take as hypotheses.
`SchedulesAssumption` says that there are finitely many processes, which the property
counts. All of them are met by the instances the runs check.

Only model-checked: the liveness properties (`RequestsEnd`, `EventuallySettled` of
the outbox, `CallsEnd` of the warehouse calls), for which the provers have no rules of
fairness or of `ENABLED`: the bounds on steps above are the half that is proved. That
the statements of section 4 fail is shown by counterexamples, which need no proof. Every other property of a passing run is a theorem.

## 6. What is left out

Costs, telemetry, AI feedback and advisory text are written by the handlers and
read by no decision modelled here. `expire_stale_locks` deletes rows that
`NoOrphanLock` shows do not exist; `force_release_lock` is called from tests only.
Nothing is said of the SQL itself: parsing, normalisation, rewriting, the checks
and the contracts are sequential functions of text. The front end, the MCP server,
the AI engine's prompts and the deployment descriptions hold no state that
interleaves. Roles, log-in and sign-up are checks on one row. The webhook dispatcher is
constructed by tests only; its retries are those of `EventOutbox` without a
table. The components without a module are listed in `PROJECT.json` with the
reason.

## 7. Plan

1. Done: the modules above, the proofs of every safety invariant and action property
   of the passing runs, the refinements of `Delivery` and of `Ledger`, and the bounds on
   the steps of backfills, plans and warehouse calls.
2. To prove: for each violated statement of section 4 the weaker one the code keeps,
   where it is not a theorem yet.
3. To model: backfills and plans over the same watermarks, as two owners of one ledger;
   the webhook dispatcher, once something constructs it.
