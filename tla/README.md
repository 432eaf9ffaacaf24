# ComicOS automation and marketplace stock in TLA+

ComicOS is a FastAPI application over a relational database: several hundred
services for a comic collection and business (catalogue, pricing, grading,
marketplace, live sales), a web client, and, underneath the automated parts,
the **P41 automation runtime**. This project models the three parts in which
several actors share state, where requests commit half way, and where a test of
one function at a time says least:

- the **P41 runtime**: a job queue with reservations, workers that hold leases
  and run jobs, and a recovery engine with retries, dead letters and replay;
- **P41 scheduling**: triggers and schedules that become workflow executions,
  which queue jobs;
- **marketplace stock**: listings, availability snapshots, reservations, and
  imported orders that reserve, release and sell.

All paths below are relative to `src/apps/api/app/services/` unless they start
with `docs/` or `tests/`.

## Inventory of the system

### Modelled: the P41 runtime

**Job ledger** (`automation_jobs.py`, `automation_queue_state.py`).
State: a queue row per key (ACTIVE, DRAINING, PAUSED), a job row (status,
reservation token, attempt count, `available_at`, rank), an append-only history
of transitions, issues unique by checksum.
Operations: create, reserve (the head of the queue takes the caller's token),
release, complete, fail, and pause or resume a queue. The rules engine writes
job rows and queue statuses of its own (`automation_rules.py`,
`_apply_planned_side_effects`), the ops dashboard queue statuses
(`automation_ops.py`, `apply_ops_control`).
Correct when: a token is on a job exactly while it is owned and is never
overwritten; the attempt count stays within the budget and accounts for the
runs that ended badly.

**Worker runtime** (`automation_workers.py`, `automation_worker_state.py`).
State: a worker row (status, `current_job_id`, last heartbeat), lease rows
unique by reservation token (ACTIVE, RELEASED, EXPIRED, with an expiry),
execution rows (STARTED, COMPLETED, FAILED, ABANDONED), worker history unique by
checksum.
Operations: register, heartbeat, acquire a lease, renew it, start, complete and
fail an execution, and a sweep that expires leases (`release_expired_leases`).
It calls the ledger for every change of a job, except in the sweep, which
writes the job row itself.
Correct when: a job has one run at a time; a RUNNING job has a run; success is
recorded once, in both tables, and is final; every reservation has a lease and
every lease a reservation; an idle worker names no job; nothing stays reserved,
running or occupied for good.

**Recovery engine** (`automation_recovery.py`).
State: dead letters by job, failure events unique by checksum, recovery runs.
Operations: `schedule_retry`, `transfer_to_dead_letter`,
`recover_expired_execution`, `replay_failed_job` (a new job with the payload of
a failed one). Correct when: retries stop at the smaller of the policy's and
the job's limit; a dead letter and its job agree; a replay's dead letter is
resolved if and only if there is a replay.

How they interact: everything is a request against one database. The hard part
is where transactions end. The ledger's functions **commit by themselves**, so
`acquire_job_lease`, `complete_job_execution`, `fail_job_execution` and
`replay_failed_job`, which call them in the middle, are two transactions each:

| request | first commit | then, in a second transaction |
|---|---|---|
| acquire | job RESERVED under the token | lease row, worker RESERVED, `current_job_id` |
| complete, fail | execution outcome, job settled | lease RELEASED, worker IDLE |
| replay | dead letter REPLAY_PENDING, new job | dead letter RESOLVED |

Between the two, other requests run, and the request may die with its process.
Moreover nothing is locked when it is read, and rows are written by id: what a
request has compared may have changed when it commits.

### Modelled: P41 scheduling

**Scheduling and workflows** (`automation_scheduling.py`).
State: triggers (PENDING, PROCESSED, FAILED) unique by checksum; schedules with
`next_run_at`; workflow executions (RUNNING, COMPLETED, BLOCKED) that carry the
activation key they are for; history rows unique by checksum.
Operations: `create_trigger`, `process_triggers`, `process_due_schedules`, and
`execute_workflow`, which the two passes call for each row and an ops route calls
by hand. Nothing runs by itself: every pass is a request.
Correct when: an activation is executed once; a row that is passed over was
executed; triggers go in order; nothing runs early; an execution left RUNNING
has a reason.

It calls the ledger: `create_automation_job` **commits the session of the
pass**, and with it whatever that session had flushed or changed. So a pass over
several rows commits in the middle, several times, and dies in the middle. A
queue that is paused refuses the job; `process_triggers` catches that and goes
on without a rollback, `process_due_schedules` does not catch it. The row of an
unfinished execution has the checksum `"pending"`, and the column is unique: one
that is left behind refuses every later execution of the system.

### Modelled: marketplace stock

**Availability and reservations** (`marketplace_inventory_availability.py`,
`marketplace_inventory_reservations.py`, `marketplace_inventory_allocation.py`).
State: listings with a quantity, append-only availability snapshots of which the
newest counts, reservations (ACTIVE, RELEASED, EXPIRED) made for an order item
or directly.
**Orders** (`marketplace_orders.py`, `shopify_order_import.py`,
`whatnot_order_import.py`, and the route of `api/marketplace_sync.py` that
creates an order). State: orders (PENDING, PAID, FULFILLED, CANCELLED) and
their items (PENDING, ALLOCATED, RELEASED, SOLD).
Operations: import or post an order and allocate it item by item, reserve directly,
release, expire, recalculate, mark paid, fulfilled or cancelled, and edit a
listing's quantity.
Correct when: no more is reserved and sold than there is; the snapshot says what
is available; an open order is backed by reservations; orders and items move
together and forwards; an external order is one order.

Every one of these functions commits several times: the order, then each
reservation, then each recalculated snapshot, then the items. The check of a
reservation reads the snapshot, which is a figure of an earlier moment, and
nothing is locked.

### Not modelled yet, or not at all

| component | why |
|---|---|
| rules engine (`automation_rules.py`) | only its writes to jobs and queues; evaluation and its idempotency keys are in the plan |
| batches and maintenance (`automation_batch.py`) | in the plan |
| ops controls (`automation_ops.py`) | pausing and resuming a queue is modelled; the rest is dashboards and records of commands |
| notifications, analytics | append-only records and aggregates, no protocol |
| HTTP routes | thin; used to know who may call what |
| live sale claims | in the plan |
| convention, quick sale, offline sync, listing registry, sales ledger, intake, receiving | sequential flows over their own tables; candidates for later |
| task queue (RQ), sessions and authentication, retailer import | library wiring and I/O |
| catalogue, pricing, grading, recommendations | data pipelines and scoring, no shared control state; they are most of the repository's half million lines |
| migrations, web client | generated DDL; presentation |

Inside the modelled parts, these are left out: job dependencies (written by
`create_job_dependency`, read by nothing in the runtime), artifacts, manifests
and snapshots, the read models and the numbers of the backoff strategies (a
retry becomes available some time later); the sync plans computed from the
availability of listings, and `add_order_item`, which nothing calls; the order
of a workflow's steps, since the only source of steps (`_WORKFLOW_BLUEPRINTS`)
gives every workflow one; the history of jobs, which nothing reads. Checksums
are modelled by what they make unique. In scheduling and in the marketplace a
read that a later commit depends on is a step of its own. In the P41 runtime a
transaction is one step in `AutomationRecovery` and its two parts are two steps
in `AutomationReservationRace` and `AutomationRaces` (see "Bounds and
abstractions").

## Modules

| module | models |
|---|---|
| `AutomationJobs` | the ledger: `CreateJob`, `CreateRuleJob`, `ReserveJob`, `ReleaseReservation`, `MarkCompleted`, `MarkFailed`, `SetQueueStatus`, time |
| `AutomationReservationRace` | the ledger with `reserve_automation_job` split into `ChooseJob` (its read) and `CommitReservation` |
| `AutomationWorkers` | the worker runtime, extending the ledger and using its actions as the code calls the service |
| `AutomationRecovery` | the recovery engine, extending the workers: the whole runtime, `Spec` |
| `JobLifecycle` | the abstract specification: what happens to a job, with no word about tokens, leases or transactions |
| `AutomationRaces` | the whole runtime with start, completion, failure and recovery split into their reads (`ReadStart`, `ReadEnd`, `ReadRecover`) and their commit (`CommitStart`, ...), between which anything may commit |
| `AutomationLiveness` | `Spec` with fairness, and the progress properties |
| `AutomationTypeProofs`, `AutomationSafetyProofs` | theorems about `AutomationRecovery` that hold whatever goes wrong |
| `AutomationLedgerProofs` | the refinement of `JobLifecycle`; what the attempt count accounts for; a theorem about `AutomationRaces` |
| `AutomationOwnershipProofs` | theorems about `AutomationRecovery` that need some discipline of clients and processes |
| `AutomationScheduling` | triggers, schedules, the two passes and `execute_workflow` between its commits |
| `AutomationSchedulingProofs` | theorems about it |
| `MarketplaceInventory` | snapshots, reservations and orders; a request is a process that goes from commit to commit |
| `StockLedger` | the abstract specification: claims on copies, with no snapshots, rows or requests |
| `MarketplaceSafetyProofs`, `MarketplaceSerialProofs`, `MarketplaceStockProofs` | theorems about `MarketplaceInventory`, each module under stronger assumptions than the one before |
| `MCAutomation`, `MCReservationRace`, `MCRaces`, `MCLiveness`, `MCScheduling`, `MCMarketplace` | instances for TLC; one `.cfg` per run |

### The P41 runtime

State corresponds to tables: `job`, `queue`, `issue`, `worker`, `lease`, `exec`,
`beaten` (heartbeat history), `deadLetter`, `replayed` (failure events of
replays). `inflight` and `replaying` are the requests between their commits.
A job row keeps its `status`, its `token`, its `attempts`, whether
`available_at` has passed (`ready`) and its `rank`. A lease keeps the steps of the clock left to it
(`ttl`); 0 is `lease_expires_at <= now`. A worker keeps whether its last
heartbeat is older than the 120 seconds recovery looks at (`beat`).

An action is a transaction. An early return or an exception before the commit is
an action that is not enabled; one after the first commit is an action
(`AcquireRefused`) or the death of the request (`RequestDies`, `ReplayDies`).

`deterministic_rank` is a count of rows made before the insert, so requests that
overlap may get the same; `CreateJob` takes any rank up to the count. The later
sort keys end with the row's id, which is unique, so in the code a tie has a
winner; `Before` compares priority and rank only and leaves it open which of two
tied jobs is the head, which covers either.

In `AutomationRaces` the set `reads` holds the requests between their last read
and their commit, with the rows they have read. A commit writes the columns the
request assigned, from the values it had read: that is what an UPDATE by id
does. A completion and a failure compare the job's token last. The query that
loads the job first flushes the execution's outcome, which locks the
execution's row until the commit, and no request moves an owned job without
writing its execution; so that comparison belongs to the commit, and a late
completion is refused where a late recovery is not.

### Scheduling

`trigger`, `next` (the schedules' `next_run_at`), `execution` and `processed`
(the history rows whose checksum is unique) are tables. `pass[p]` is the session
of a request: the rows it listed (`todo`), the activation at hand (`current`),
and what it has written and not committed: executions it flushed (`fresh`),
history rows (`done`), triggers that failed (`failed`) and schedules it moved
(`moved`). `Committed` puts all of that into the tables, whoever asked for the
commit; `Abort` forgets it. The steps of a pass are the lookup by activation key
(`FindExecution`, `FindNone`), the flush of a new row (`InsertExecution`, or
`InsertCollides` with a row left "pending"), the commit inside
`create_automation_job` (`QueueJob`; or `BlockExecution`, `FailTrigger`,
`RefusePass`), and the commit at the end (`FinishExecution`). After a commit the
session reloads what it reads, so a schedule's time is then the table's
(`expired`, `Seen`).

### Marketplace stock

`stock`, `snapshot` (the newest availability row), `order`, `item` and `row`
(reservations) are tables. A reservation keeps the item it is `for` and the item
its `source` names: the allocation sets both, while the client of a direct
reservation writes any source, `order_item:N` included (`ClientDraft`;
`NamedItems` are the items a run lets clients name), and releasing an order goes
by `source`. `request[r]` is what a thread is doing: its task, the
step it is at, the items its loop has still to reach, the items it has changed
and not committed (`staged`), the reservation that passed the check (`draft`),
and the listings it has to recalculate (`stale`). One action takes it from one
commit to the next, or from a read a later commit depends on: the snapshot is
checked in `AllocateItem` and `RequestHold` and the reservation committed in
`Reserve`; a figure is computed in `ReadFigures` and written in `WriteSnapshot`;
a transition is checked in `RequestStatus` and committed in `CommitStatus`.
An order comes from an importer, which looks for an existing one first
(`ImportOrder`), or from the orders route, which does not (`PostOrder`).

### Mistakes the runs are tested with

Definitions marked `SLIP` in the modules are not the code's: each is a plausible
mistake in the definition after it, and substituting it makes a run report the
property it is meant for.

### What clients and processes may do wrong

`Faults` names what a run allows, since several properties need some discipline
and others none. In the P41 runtime:

| fault | meaning |
|---|---|
| `crash` | a request dies between its commits |
| `overlap` | a worker sends a request while one of its own is between its commits |
| `token_reuse` | an acquire repeats a reservation token |
| `busy_acquire` | a worker whose record names a job asks for another |

| property | holds under |
|---|---|
| `TypeOK`, `TokenWhileOwned`, `AttemptBudget`, `RunningHasRun`, `CompletedOnce`, `IdleWorkerFree`, `AttemptsAccounted`, `DeadLetterMatchesJob`, `ResolvedHasReplay`, `ImplementsLifecycle` | every fault |
| `PendingIsReplaying` | every fault but `crash` |
| `LeaseHoldsJob`, `RunHasOwner` | `token_reuse` and `busy_acquire` |
| `ReservationsEnd`, `RunsEnd`, `WorkersAreFreed`, with fairness | `busy_acquire` |
| `ReservationHasLease` | no fault at all |

The last three rows are the main result of the modelling: the ties between jobs,
leases, runs and workers, and with them all progress, hold as long as nothing
goes wrong between the two commits of a request and every worker waits for its
answers; what survives without that discipline is the row at the top. They are
sharp: each of the four faults alone breaks `ReservationHasLease`, and `crash`
and `overlap` each break `LeaseHoldsJob` and `RunHasOwner`. A refused acquire
strands its reservation with no crash at all (`stranded`), which is why
`ReservationsEnd` speaks of reservations that have their lease; and overlapping
requests of one worker, or a failure that dies half way, leave a run that nothing
can end (see the known disagreements below), which is why no progress is claimed
under `overlap` and `crash`.

The table is about transactions that are single steps. With the windows between
reads and commits open:

| property | with the windows of start, complete, fail and recover open |
|---|---|
| `RunningHasRun` (every fault), `ReservationHasLease`, `AbandonedIsFinal` (no fault) | hold |
| one open run per job | fails: two starts under one lease both find no open execution before either commits one |
| a completed job does not fail | fails: a recovery that read its rows before the completion committed makes the COMPLETED job FAILED |
| `CompletedOnce`, `AttemptsAccounted`, `TokenWhileOwned`, `IdleWorkerFree`, `LeaseHoldsJob`, `RunHasOwner` | fail: a start that commits late makes a COMPLETED job RUNNING again, or a job the sweep has given back RUNNING under no token, and a late recovery writes an attempt count back |

So most of what this project shows of the P41 runtime is what its transactions
keep when each is served without another between its reads and its commit, which
the code leaves to chance: it locks nothing. What stands regardless is that a
RUNNING job keeps an open run to recover it by.

In scheduling (`crash`: a pass dies between two commits; `pause`: a queue is
paused or resumed; `overlap`: a pass starts while another runs):

| property | holds under |
|---|---|
| `TypeOK` | every fault |
| `ExecutedOnce`, `NothingSkipped`, `InOrder`, `NotEarly`, `LeftRunningIsExplained` | `crash` and `pause` |

With overlapping passes an activation is executed twice, which is the run
`double_execution`; `NothingSkipped` and `LeftRunningIsExplained` fail there as
well.

In the marketplace (`crash`; `overlap`: a request starts while another runs;
`release`: a client releases the reservation of an order item; `restock`: the
owner edits a quantity):

| property | holds under |
|---|---|
| `TypeOK`, `ReservedOnce` | every fault |
| `ItemsFollowOrder`, `AnswerSettlesOrder`, `Orderly` | `crash`, `release`, `restock` |
| `NeverOversold`, `SnapshotTrue`, `OpenOrderBacked`, `ImplementsStock` | no fault at all |

That an external order has one row is not among them: the orders route breaks
it with requests that come one at a time (see the known disagreements below).

So in all three parts what is promised to the outside needs requests that come
one at a time, and what survives crashes is what single rows say.

## Runs

Passing runs:

| run | what it asks | instance | states |
|---|---|---|---|
| `faults` | what holds of the whole runtime whatever goes wrong, and that it implements `JobLifecycle` | 1 job with 2 attempts, 2 workers, 3 tokens, 3 executions, 2 requests in flight, all faults | 280 000 |
| `disciplined` | what ties jobs, leases, runs and workers together without faults | 2 jobs in 2 queues and the replay of one, 2 workers, 3 tokens, no worker with a scope | 1 190 000 |
| `replay` | dead letters and replays with crashes | 1 job with 2 attempts and its replay, leases of up to 2 steps with renewal | 112 000 |
| `races` | what holds although anything may commit between the reads and the commit of a start, a completion, a failure or a recovery | 1 job with 2 attempts, 2 workers, 3 tokens, 2 executions, 2 requests in flight and one between its reads and its commit | 412 000 |
| `liveness` | that no reservation with a lease, no run and no occupied worker stays for good, although busy workers ask for more and are refused after the reservation | 2 jobs with 2 attempts and 1, 2 workers of two slots, 2 tokens, 2 executions, 2 requests in flight, `busy_acquire` | 169 000 |
| `scheduling` | that an activation is executed once, in order, not early and without gaps, when passes die and queues are paused | 3 triggers, a recurring, a one-time and an event-driven schedule, a workflow that queues a job and one that is blocked | 1 630 000 |
| `market` | that undisturbed requests oversell nothing, keep snapshots true and open orders backed, and implement `StockLedger` | 2 listings, 3 orders with 6 items of which two are one external order, direct reservations | 231 000 |
| `market_faults` | what is left with crashes, releases by hand, clients that name an order item, and restocking | 1 listing, 2 orders of one external id with 4 items, imported or posted, 1 direct reservation | 3 079 000 |

Runs that end in a counterexample, each a disagreement between the code and a
sentence of the repository's documents, comments or tests:

| run | what the code does | the sentence |
|---|---|---|
| `double_reservation` | two reservations that read the same head of the queue both commit; the second token overwrites the first | `docs/P41_AUTOMATION_QUEUE_ARCHITECTURE.md:33` |
| `stranded` | an acquire is refused after its reservation committed; the job stays RESERVED under no lease, and neither the sweep nor recovery can reach it | `docs/P41_WORKER_RUNTIME_ARCHITECTURE.md:10` |
| `oversell` | two requests check the same snapshot before either reservation commits, and both reservations stand | `marketplace_inventory_reservations.py:72`; `tests/test_marketplace_inventory_allocation.py:38` |
| `double_execution` | two passes over a due schedule look for an activation before either has committed its execution; it gets two executions and two jobs | `docs/P41_WORKFLOW_SCHEDULING_ARCHITECTURE.md:43` |

### Known disagreements without a run

These were met while modelling and follow from the actions as they stand; the
actions model what the code does, and no property claims otherwise. The first
three and the fifth were also seen as behaviours of TLC: the first two of
`RacesSpec`, the third of `FairSpec` with `overlap`, the fifth of
`MarketplaceInventory` with no fault.

| what the code does | the sentence |
|---|---|
| two starts under one lease look for an open execution before either commits one, and both commit; no lock and no constraint stops the second (`automation_workers.py:624`) | `automation_workers.py:637`: "A second execution attempt was blocked for the same job." |
| a recovery writes its rows by id from what it read, so one that read before the completion committed makes the COMPLETED job FAILED, charges an attempt and may retry it (`automation_recovery.py:651`) | `docs/P41_AUTOMATION_LIFECYCLE.md:81`, whose table has no transition out of COMPLETED |
| a worker that starts its job again between the two commits of a failure, or after a failure that died there, leaves an open run; once the retried job is RESERVED anew and that lease expires, the sweep skips the lease (`automation_workers.py:912`), recovery asks for RESERVED to FAILED and is refused (`automation_recovery.py:651`), and neither the run nor the reservation ever ends | `docs/P41_OPERATIONS_GUIDE.md:25`, the procedure for stuck jobs |
| a refused acquire strands its reservation in the same way (`automation_workers.py:518`; its run is `stranded`) | `docs/P41_OPERATIONS_GUIDE.md:25` |
| the orders route creates an order of an external id that has one (`marketplace_orders.py:176`, from `api/marketplace_sync.py:91`), and so do two imports that overlap (`shopify_order_import.py:76`) | `docs/MARKETPLACE_PLATFORM_RUNBOOK.md:59`: "Duplicate protection" |
| a lease a dead completion left ACTIVE starts another run of the completed job (`automation_workers.py:620`) | `docs/P41_WORKER_RUNTIME_ARCHITECTURE.md:10` |
| the concurrency limit adds leases and executions but is compared only at an acquire, and starting the leased job makes two of one (`automation_workers.py:473`) | `docs/P41_WORKER_RUNTIME_ARCHITECTURE.md:59` |
| the sweep makes a job AVAILABLE and writes no history row (`automation_workers.py:925`) | `docs/P41_AUTOMATION_LIFECYCLE.md:86` |
| a job the rules engine writes as QUEUED is never leased (`automation_rules.py:602`) | `docs/P41_AUTOMATION_LIFECYCLE.md:78` |
| a repeated heartbeat repeats a unique checksum and rolls back (`automation_workers.py:447`) | `docs/P41_WORKER_RUNTIME_ARCHITECTURE.md:26` |
| an EVENT_DRIVEN schedule with a `next_run_at` is executed like any other, and repeats its history row in every later pass, which ends that pass (`automation_scheduling.py:795`) | `docs/P41_WORKFLOW_SCHEDULING_ARCHITECTURE.md:23` |

### Bounds and abstractions

`Jobs`, `Tokens`, `Workers`, `MaxExecutions`, `MaxInFlight`, `MaxReaders` (of the
reservation race), `MaxReads` (of the races) and `LeaseTtl` bound the instances. Why these suffice for the questions asked:

- Properties about one job need two owners that succeed each other and a third
  to come late: two workers and three tokens. Two requests in flight give every
  overlap of two half-done requests. With two attempts a job fails, is retried,
  fails again and is buried; with three executions a job has a failed run, an
  abandoned one and one more.
- The invariants proved below for every instance need no argument.
- `LeaseTtl` 1 lets a lease expire at any time after it is granted; renewal
  changes something only with 2, which `replay` has. In `liveness` it is 1 on
  purpose: a worker may otherwise renew for ever, and the code lets it.
- `Interchangeable` permutes workers and tokens. No constant tells two workers
  or two tokens apart, and nothing orders them. Temporal properties are checked
  without symmetry in `MCLiveness`; `faults` and `races` check only
  step properties and a refinement to a specification without fairness with it.
- In `liveness` the tokens are few, but every obligation starts anew with each
  reservation, run and lease, so a longer supply repeats it. A job that is
  reserved again and again could starve a recovery that is refused meanwhile;
  without overlap no open run stands beside a reservation of its job
  (`RunHasOwnerHolds`), so there is none to starve. Each worker has two slots,
  since `max_concurrency` counts a lease and its execution as two. There are two
  jobs, so that a busy worker has another one to ask for, and one of them can be
  retried. A repeated token is refused at the same point as a busy worker and is
  left to `faults` and the theorems.
- `CHECK_DEADLOCK FALSE` everywhere: a bounded table fills up, and a runtime
  whose jobs are all done or buried has nothing left to do.
- `ReplayOf` is `NoJob` where the model stops creating replays of replays.
- In `AutomationRecovery` and the runs `faults`, `disciplined`, `replay`
  and `liveness`, the reads of an operation are taken together with
  its commit: their properties, and the theorems about them, are about the order
  of transactions that are served one after the other. The windows that decide
  what a document promises are opened in modules of their own: the reservation
  in `AutomationReservationRace`, start, complete, fail and recover in
  `AutomationRaces`, beside the single-step operations, which stand for requests
  nothing overtakes. The windows of the sweep, of a retry, of a transfer to the
  dead letters and of a replay are not opened. One reader (`MaxReads` 1) is
  enough for `races`, since it meets every single-step operation; the theorem
  `RacesRunningHasRun` has no such bound.
- A recovery that was overtaken by another recovery of the same execution may
  repeat the checksum of its failure event and be refused; `CommitRecover`
  leaves this refusal out and commits, which only adds behaviours.
- `CreateOrder` validates all listings and commits the order in one step,
  although the validation commits a snapshot per listing; each allocation checks
  again. `ReadAvailability` and the snapshot of a direct reservation's check are
  one step each.
- In `scheduling`, three triggers give a first, a middle and a last; the middle
  one is blocked, so an execution with and one without a job stand next to each
  other. `MaxTime` 1 lets a recurring schedule be due twice. One request thread
  is enough where passes do not overlap: after it ends or dies the next pass is
  the same thread's. `MaxExecutions` is above what the rows can ask for.
- In `market`, an order of two items of one listing has to fit as a sum, one
  with items of two listings recalculates both, one item has no listing, and the
  direct reservations take what is left. In `market_faults` the repeated import
  meets the order the first one left behind, and a client's own reservation may
  name an item of an order.
- `StockLedger` is implemented with no fault; it could not be otherwise, since
  it promises that nothing is oversold.

### Fairness

Nothing in the code runs by itself. `FairSpec` assumes that a request that is
not killed ends (weak fairness of the second halves, per worker), that leases run out
and available times come (per lease and per job) and that an operator does what
`docs/P41_OPERATIONS_GUIDE.md:25` and its stuck-jobs procedure say: expired
leases are released and stale executions recovered whenever there are any
(weak fairness of the sweep, and of the recovery of each execution). Workers
owe nothing: they may stop after any answer. Nothing is assumed of heartbeats
either, which need not grow old: a lease that ran out is enough for a recovery.

Under this fairness `liveness` lets acquires of busy workers be refused after
their reservation committed. What such an acquire has reserved stays reserved
for good; `ReservationsEnd` does not speak of it, since it asks for a lease, and
the two others hold regardless. With `overlap` all three fail, and with `crash`
the last two: between the two commits of a failure, or for good if it dies
there, the lease of the failed run can start another run of a job that others
may reserve by then, which is the stuck run of the known disagreements.

Scheduling and the marketplace are checked for safety only: nothing in the code
repeats a pass or an import that died, so there is no progress to promise.

## Proofs

### The P41 runtime

TLAPS proves these for all jobs, workers, tokens, policies, limits and every
set of faults, from the assumptions `JobsAssumption`, `WorkersAssumption` and
`RecoveryAssumption` (sets are finite where rows are counted, null values are
not members of the sets they extend, limits are positive naturals, replay rows
are not submitted and share their original's queue and limit):

| theorem | states |
|---|---|
| `TypeCorrect` | `TypeOK` |
| `TokenWhileOwnedHolds`, `AttemptBudgetHolds` | `TokenWhileOwned`, `AttemptBudget` |
| `RunningHasRunHolds`, `CompletedOnceHolds` | `RunningHasRun`, `CompletedOnce` |
| `DeadLetterMatches`, `ResolvedHasReplayHolds` | `DeadLetterMatchesJob`, `ResolvedHasReplay` |
| `IdleWorkerIsFree` | `IdleWorkerFree` |
| `AttemptsAccountedHolds` | `AttemptsAccounted` |
| `Implements` | `ImplementsLifecycle`, the refinement of `JobLifecycle` |
| `RacesRunningHasRun` | `RunningHasRun` of `AutomationRaces`, for any number of requests between their reads and their commit |

And these of the runtime, for all jobs, workers, tokens, policies and limits,
with fewer faults:

| theorem | states | faults allowed |
|---|---|---|
| `PendingIsReplayingHolds` | `PendingIsReplaying` | all but `crash` |
| `LeaseHoldsJobHolds`, `RunHasOwnerHolds` | `LeaseHoldsJob`, `RunHasOwner` | `token_reuse`, `busy_acquire` |
| `ReservationHasLeaseHolds` | `ReservationHasLease` | none |

The argument, in the order of the modules:

1. `TypeInv` adds to `TypeOK` that a finishing request has a lease row. Without
   it the release of a lease could write to a row that is not there, and types
   are not inductive.
2. `RowStep` lists what may become of one job's row, and `JobSteps` shows that
   every step of the runtime changes one job that way, or is a sweep, or leaves
   the table alone. The token, the attempt budget and the refinement follow from
   this list and not from the actions.
3. `ExecSteps` does the same for executions: a step starts a run of a job that
   has none, ends one together with its job, or concerns none. `RunningHasRun`
   and `CompletedOnce` are inductive only together with the fact that a job has
   one open run at a time (`RunInv`, with `OneRunPerJob`): a completed job needs
   its run to have been the only one. That fact is the guard of a start made in
   one step, and is not claimed as a result: starts that overlap break it.
4. The dead-letter table agrees with the job table only if a replay in flight
   that remembers a dead letter concerns a buried job (`ReplayingBuried`), since
   its second half writes RESOLVED without looking. For the same reason
   `ResolvedHasReplay` needs its like of the replays in flight (`ReplayInv`).
5. An idle worker names no job because a worker that is not registered names
   none and every request in flight is by a registered worker
   (`AbsentWorkerFree`, `RequesterKnown`).
6. For the refinement, a job that does not exist has no attempt charged
   (`AbsentUncharged`): the mapping takes `attempts` of rows that are not there
   yet. Each way `RowStep` allows is an action of `JobLifecycle` or a stutter,
   and a sweep is `TakeBack`.
7. Attempts: of one job, a step adds one failed run and one attempt, or one
   abandoned run and perhaps one attempt, or neither (`Accounted`). `ExecSteps`
   says which run ends and that it had not ended before, `RowStep` that an
   attempt is charged once, and a set that gains one member gains one in number.
8. `PendingIsReplaying` follows from the invariant of item 4 as long as no
   replay in flight is dropped, and the death of a replay is the one step that
   drops it.
9. With the windows open a job may have several open runs, and a recovery that
   was overtaken ends one of them. `RunningHasRun` is then inductive in the form
   that a RUNNING job has a run which no recovery in flight is about to end while
   leaving the job alone (`RunningHasSafeRun`); and `ReadsOK` says what a request
   between its reads and its commit still knows of the rows it has read.

The ties between jobs, leases, runs and workers are inductive only with what a
request in flight relies on. `OwnInv` says it of requests that end and workers
that wait:

- `OneRequest`: a worker has one request in flight. Without it the second half
  of one request undoes what another has just done.
- `AcquireSound`: an acquire between its commits still has its job RESERVED
  under its token, unless the token has a lease by now, in which case it will be
  refused. Its worker may have another job; but when the lease is written it has
  none, since an active lease would have to be one for the same job and under
  the same token (`AcquirerFree`).
- `FinishSound`: between its commits a finish has settled its job and its run
  but not its lease, which a sweep may have expired in the meantime; so
  `LeaseSound` speaks only of leases that no finish is about to release.
- `LeaseSound` puts a lease, its job and its worker at the same point, reserved
  with no run or running with one. The sweep, which writes job rows without the
  ledger, keeps it because it takes a job only under the token of a lease it
  ends, and `OneLease` leaves the worker no other lease.
- `LeaseOrder`: recovery takes a worker's newest lease by its id and not the
  active one. The two are the same because ids are given out in order and a
  worker with an active lease gets no other (`WorkerHeld` says that a worker
  that looks busy has a lease or a finish to wait for).

`ReservationHasLease` needs `TieInv` besides, for which nothing may go wrong at
all: an acquire in flight is never refused, since its worker has no job and its
token is nobody else's (`AcquireAlone`), and the release of a finished lease
takes it from under no other reservation (`TokenOfOneJob`, `FinishSettled`).

### Marketplace stock

For all listings, orders, items, rows, request threads and quantities, from
`MarketplaceAssumption` (items and rows are finite sets of numbers, every item
names an order and has a quantity within bounds, null values are not members of
the sets they extend):

| theorem | states | faults allowed |
|---|---|---|
| `TypeCorrect` | `TypeOK` | all |
| `ReservedOnceAlways` | `ReservedOnce` | all |
| `ItemsFollowOrderAlways`, `AnswerSettlesOrderAlways`, `OrderlyAlways` | the property of that name | all but `overlap` |
| `NeverOversoldUndisturbed`, `SnapshotTrueUndisturbed`, `OpenOrderBackedUndisturbed` | the property of that name | none |
| `ImplementsStockUndisturbed` | `ImplementsStock`, the refinement of `StockLedger` | none |

1. Types need to know that a request only makes the steps of its task, that what
   it recalculates names a listing, and that what it stages names an item
   (`TypeInv`).
2. `ReservedOnce` holds because the loop's remaining items have no reservation
   yet. That is so because an order is created once and the loop takes an item
   out of `todo` after it has reserved it (`ReservedInv`).
3. With no overlap, what a request checked is still so when it commits:
   `Alone` says for each step of each task which status its order and items are
   in.
4. With no fault, the snapshot that is checked is what is available, because
   some request is about to recalculate wherever it is not (`SnapshotsDue`); the
   loop leaves room for the items it has still to reach (`Working`); and
   fulfilment sells only items that are reserved (`Covered`). Without the last
   `NeverOversold` is not inductive, since `mark_items_sold` does not ask.
5. For the refinement, a claim of `StockLedger` is a sold item, or an item or a
   buyer with an active reservation. The units of the claims on a listing are an
   image of the units that are reserved and sold (`ClaimedUnits`), so the check
   of a reservation leaves the room the ledger asks for (`ReserveTakes`). A
   fulfilment turns claims into sales because it sells only items that are
   reserved (`SaleSells`, from `Covered`). Every other step only ends
   reservations or leaves them, and a step that ends several is one withdrawal
   of the ledger (`ClaimsWithdrawn`).

### Scheduling

For all triggers, schedules, workflows, queues, intervals and request threads,
from `SchedulingAssumption` (row ids are numbers, sets of ids are disjoint, a
recurring schedule has an interval):

| theorem | states | faults allowed |
|---|---|---|
| `TypeCorrect` | `TypeOK` | all |
| `ExecutedOnceAlways`, `NothingSkippedAlways`, `InOrderAlways`, `NotEarlyAlways` | the property of that name | all but `overlap` |
| `LeftRunningExplained` | `LeftRunningIsExplained` | all but `overlap` |

1. Types need to know that a pass works on rows it listed, and that only a
   one-time schedule loses its `next_run_at` (`TypeInv`).
2. `SerialInv` says what a session's unwritten work is worth: what it listed is
   still pending or due (`Waiting`), what it wrote had its execution (`Earned`),
   it goes through the triggers in their order and leaves none out (`Sorted`),
   at most one row is flushed (`Flushed`), and the key at hand is that of the row
   at hand (`AtHand`). A commit anywhere (`TablesCommitted`) then keeps what the
   tables say: executions are numbered and unique by key, statuses are
   explained, triggers are settled in order, and a schedule has no gaps.
3. `NothingSkipped` needs two facts about an interval: adding it to a multiple
   gives the next multiple, and there is none in between (`NextOccurrence`,
   `SameOccurrence`).

### Only model-checked

The liveness properties `ReservationsEnd`, `RunsEnd` and `WorkersAreFreed`: what
holds under fairness is out of the prover's reach and stays with TLC. Of the
run `races`, `ReservationHasLease` and `AbandonedIsFinal` are model-checked; of
`RunningHasRun` there is a theorem. Every other property of a passing run is
stated by a theorem above.

## Plan

1. **Rules engine**: evaluation, planned actions and their idempotency by
   activation key, composed with the ledger.
2. **Live sale claims**: claims that compete for one copy, composed with the
   marketplace's reservations.
3. **Batches**: the chunk partition as a function on sequences with a reference
   definition, and the batch run's state machine.
4. **Backoff**: the three strategies as functions, with the lemma that a delay
   never exceeds the policy's maximum.
5. **Job dependencies**: the cycle check against a reference definition on
   graphs.
