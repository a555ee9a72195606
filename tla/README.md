# Verification of the auto-scheduling system

The system schedules the production of machines.  It pulls order lines, drawing
release dates, production orders and bills of materials (BOMs) from three outside
systems (Guandata, Feishu, SAP), decides for each order line whether it can be
planned, counts the start of the machine and of its parts back from the delivery
date, and shows the result in lists, exports and dashboards.  `services/api` is a
FastAPI application, a scheduler process and one or more worker processes over one
PostgreSQL database; `apps/web` is the Vue front end.

This directory holds TLA+ models of its core, the TLC configurations that check
them, and proofs checked by TLAPS.  `A/` below stands for `services/api/app/`.

- [The system](#the-system): components, state, operations, interactions, hazards
- [The models](#the-models): what each module stands for and where it abstracts
- [The runs](#the-runs): what TLC checks, with which bounds
- [Fairness](#fairness)
- [The proofs](#the-proofs)
- [What is not modelled](#what-is-not-modelled) and [the plan](#the-plan)


## The system

### Components

| component | state | operations | correct when |
|---|---|---|---|
| Background task queue (`A/services/background_task_*`, `A/repository/background_task_repo.py`) | `background_task` rows: status, attempts, claim, worker, retry time, dedupe key | enqueue, claim, execute, heartbeat, report, recover stale claims | a task runs in one worker at a time, at most `max_attempts` times, always ends, and its sync job tells how |
| Sync jobs (`A/sync/manual_sync_job_service.py`, `sync_support_utils.py`) | `sync_job_log` | queued with the task, running, finished, requeued | agrees with the task |
| BOM backfill queue (`A/sync/bom_backfill_queue_service.py`) | `bom_backfill_queue`: status, fail count, retry time of a material and plant | enqueue candidates, claim, fetch in batches, back off, retry by an operator, resolve by a BOM sync | no row is lost, no BOM is asked for twice at a time, success means that the BOM is stored |
| Order schedule snapshots (`A/services/schedule_snapshot_refresh_*`) | `order_schedule_snapshot`, the one table every list reads | refresh of an order, of a window, of everything; seed; mark as stale | agrees with order, plan, issues and BOM, at once or after the next reconcile |
| Schedule runs (`A/scheduler/*`) | `machine_schedule_result`, `part_schedule_result`, `data_issue_record` | check, plan the machine, plan the parts, raise issues | plans are complete, feasible and belong to the order they are shown for |
| Syncs (`A/sync/*_sync_service.py`, `sync_workflow_service.py`) | the source tables | upsert what was fetched, detect changes, refresh what they touch | no change goes unnoticed |
| Baselines (`A/baseline/*`) | machine cycles, part cycles, assembly times | rebuild from history, edits by administrators, defaults | manual values survive rebuilds; one value per key; history values follow the orders |
| Sync scheduler (`A/sync_scheduler.py`) | one control row: switch, instance, state, heartbeat | cron jobs that enqueue tasks, pause, resume | one task per job at a time; the switch is obeyed and never turned by a process; the status tells the truth in the end |
| Integration clients (`A/integration/*`) | circuit breaker and access token, per process | requests with retries | a broken service is left alone and tried again later |
| Identity (`A/services/user_auth_service.py`, `A/routers/auth_router.py`, `admin_user_router.py`) | users, roles, permissions, sessions | sign in and out, user and role administration, seed of the first start | one current session per user; a reset or a deactivation ends sessions; someone can always administer |
| Queries, exports, dashboards | none | paging, filters, streams, sums over windows of days | pages turned to the end show every row once; the numbers agree with the lists |
| Web front end | table, console and session state in the browser | requests that overlap, are cancelled, retried, polled | the last request wins; a running job is followed to its end |

### How they interact

Everything that is slow runs as a background task.  An API request, a cron job of
the scheduler or another task inserts a `background_task` row and its
`sync_job_log` row in one transaction; a worker process claims it and calls a
handler; the handler commits its own work, usually ends by refreshing snapshots,
and sometimes enqueues the next task or BOM candidates.  The processes share
nothing but the database, under READ COMMITTED, and only two statements lock rows
(`SELECT ... FOR UPDATE SKIP LOCKED` in the two claims).  Everything else reads
rows, computes in Python and writes at the commit, and the ORM writes only the
columns that changed since they were read.

### What makes it hard

1. Reads without a lock: recovery of stale tasks, dedupe of enqueues, retries of
   queue rows, and every refresh of a snapshot overwrite what was committed since.
2. Processes die between two commits: the handler's and the task's, a claim and
   the batch it was for.
3. Time: claims expire under a live worker, retries race late answers.
4. One of several steps fails: a page of a sync, one item of a batch, one order
   of a schedule run.
5. Derived state: a snapshot follows five tables that change independently, and
   each of the changes has to know which snapshots it touches.
6. Dates: cycles, calendars and sequences loaded in different extents by
   different steps.

`PROJECT.json` lists each hazard at its line with the properties that cover it.


## The models

| module | models | extends |
|---|---|---|
| `TaskQueue` | the task queue, its workers, producers and sync jobs | |
| `TaskContract` | what the queue promises about a task (abstract specification) | |
| `TaskQueueRefinement` | `TaskQueue` implements `TaskContract` | `TaskQueue` |
| `TaskQueue_proofs` | theorems, and that the refinement holds | `TaskQueueRefinement` |
| `BomBackfillQueue`, `BomBackfillQueue_proofs` | the BOM backfill queue | |
| `OrderSchedule` | source rows, BOMs, plans, issues and snapshots of order lines | |
| `OrderSchedule_proofs` | theorems for any overlap of transactions, and for none | `OrderSchedule` |
| `Planning`, `Planning_proofs` | how an order becomes dates, and the assembly times | |
| `Identity`, `Identity_proofs` | users, roles, sessions and the requests that change them | |
| `Listings` | lists turned page by page, and exports | |
| `Dashboard` | the numbers of the dashboard and the calendar | `Listings` |
| `Queries_proofs` | theorems about both | `Dashboard` |
| `Baselines`, `Baselines_proofs` | part cycles: rebuilds, who asks for them, and edits | |
| `SyncScheduler`, `SyncScheduler_proofs` | the switch, the scheduler processes, the status, and the keys of their tasks | |
| `MC...` | instances for TLC | the module of that name |

`PROJECT.json` maps every definition to the lines it translates.  Definitions with
a suffix, such as `Requeued_KeepsJob`, are not part of a model: each is a plausible
mistake in the definition it precedes, and with it in place the property it is
listed with fails.

### TaskQueue

`task[t]` is a row of `background_task` together with the status of its sync job.
Timestamps are kept as far as the code compares them: `available` says whether
`available_at` has passed, `claim` whether `claimed_at` is unset, within
`sync_task_claim_timeout_seconds` or behind it.  `pc[w]` is where a worker is in
`run_forever` and `execute_task`, `cur[w]` the task it holds, `beating[w]` whether
its heartbeat loop runs, and `scan[w]` the stale rows an open recovery has read.
`ticket` is history: the attempt the worker claimed.

Each action is one database transaction.  `FindNoActive`/`Insert` and
`ScanStale`/`CommitRecovery` are two because the code reads without a lock and
writes at its commit.  `HandlerReturns` and `HandlerRaises` cover what a handler
may have committed for its job before it ends; `TransactionRaises` is the failure of
any bookkeeping transaction, which `execute_task` treats like a failing handler.
`Crash` rolls an open recovery back and forgets the worker's memory; `Stop` is
SIGTERM, which lets the task in hand finish.

`Timely` separates two families of properties.  With `Timely = FALSE` a claim may
expire at any moment, as after a long pause of the process or a database that
refuses heartbeats.  With `Timely = TRUE` a claim does not expire while a live
worker is about to start its heartbeat or renews it: the heartbeat comes every 30 seconds,
the time-out is two hours and the transactions in between are short, so this is what a
healthy deployment does.  Attempt counts, clean pending rows and dead letters do not
need it; exclusion and the agreement of job and task do.

Abstractions: the order in which pending tasks are claimed is any order; the delay of a
retry outlasts a recovery transaction that had read the row; every single-row
transaction is atomic; a commit either happens or fails, and the worker knows which.

### TaskContract and TaskQueueRefinement

`TaskContract` forgets claims, time-outs, heartbeats, scans and jobs.  A task is
unknown, waiting, being worked on by at most one holder, done or dead; it is taken at
most `MaxAttempts` times; only its holder can finish it; it dies only after its last
attempt.  `TaskQueueRefinement` maps a row to a phase and takes as its holder the
worker between the claim and the report.  A recovery that requeues and buries
several rows at once is one step of the contract for several tasks.

### BomBackfillQueue

`item[i]` is the row of a material and plant, `hasBom[i]` says whether
`bom_relation_src` has rows for it.  A party (worker or API request) has at
most one open transaction: `open[p]` are the items it has read and `read[p]` their
rows.  `Flush` writes only the columns that differ from what was read, which is how
stale reads do damage in this code.  `hand[w]` are items a consume run has claimed and
not yet put into a batch.  `RunBreaks` is an exception in a batch or the death of the
process; `faults` bounds and counts it.

`Prompt = TRUE` says that nothing commits between the read and the commit of an
enqueue or a retry.  Without it, and only then, a batch that read a row before a
retry and a second run of it can write a retry time without the status it belongs
to; `RetryWaitHasRoom` and `EveryItemEnds` are therefore stated under `Prompt`,
while `NoStrandWithoutFault` and `SuccessHasBom` hold for any overlap.

Abstractions: priorities and the claim order; the kinds of failure other than
transient and permanent, which differ in the delay only; row locks, so deadlocks
between a batch and a BOM sync that update the same rows in different orders are
outside the model.

### OrderSchedule

The state is that of five tables, reduced to what decides a snapshot.  An order has
the fields the check and `_SCHEDULE_AFFECTING_FIELDS` read; `rev` stands for the
values of delivery date, model and quantity.  `due` are the orders that would be past their
trigger date: `Planning` computes it, here the clock and every change of a baseline, the
calendar or the order moves it freely.  `machine[o].of` are the fields a plan was
built from; part rows carry the fields they were planned for.

A party begins a transaction by reading everything it will use (`seen[p]`), and one of
the handlers writes what follows from that; with `Serial = FALSE` any number of
others commit in between.  The real transactions read piecemeal, so the model has
them read everything at their beginning: what a later read would see differently
is covered only in so far as the transaction might also have begun later.  Row writes
go through `Write`, `Upserted` and `Planned`, which follow the ORM in setting only
columns that changed.  Handlers stand for whole tasks with every refresh inside them, in
the order of the code: a sales sync refreshes changed orders as stale, then new ones
and those with other changes (unless a page could not be fetched), then the orders
whose drawing has been released meanwhile (`Rewrite` applies the second refresh to what
the first has written).

Abstractions: the four issue types about default values are one; equal issues are
one element of a set; the research records that release drawings are a growing set of
orders; copies of order columns in the snapshot, payloads and reports are left out.

### Planning

One order, one planning transaction at a time.  `world` is what planning finds: BOM
rows, part cycles, calendar entries, the day, the ordered quantity and the machine
baselines; `times` is the assembly-time table, which planning completes and
administrators edit.  `CheckOrder`, `BuildMachine` and `BuildParts` are the three
stages of `schedule_one`.

- Days are integers, counted so that days 5 and 6 of each seven are the weekend.  Machine
  cycles and assembly times are counted in half-days, which is what makes the truncation
  `int(machine_cycle)` visible.  Nothing in the code rejects a negative production
  sequence or time, so both are any integers; part cycles and quantities are not negative.
- `SubtractWorkdays` is the loop of `calendar_utils`, with its cap as a constant.  It and
  the walk of the BOM are recursive functions of one argument each, and `ChildRows` is
  defined by what it is (the rows in ascending order) and not by how it is sorted, so that
  both can be reasoned about.
- The three copies of the baseline look-up (check, machine plan, export) are
  `MachineCycle`.
- `PartPaths` walks the BOM depth first with the set of materials on the path, as
  `_collect_recursive_self_made_parts_from_rows` does.  A path of rows stands for
  `bom_path_key`.  Siblings come in row order.
- Of several direct children that stand for the same assembly the query returns them in
  no order and the first is taken, so `Picks` chooses any.
- How a description becomes an assembly name and how a part's baseline is matched
  by type, model and plant are inputs (`NameOf`, `world.cycle`).
- The order has its delivery date and its drawing: those checks are in `OrderSchedule`.

### Identity

`user`, `role` and `session` are the tables; a role carries its permissions and a
user its roles, and rows that are revoked or expired are as good as none.  Passwords
are numbered by resets.  A party (an API request, or a process that seeds the tables at
its start) authenticates and reads when it opens (`Begin...`), and writes in `Commit`
from what it read: `loaded`, `password` and `wanted` are those reads.
Where the code runs an `UPDATE` or `DELETE` of its own before the commit (the
revocation of sessions, the links of a role), `Statement` takes it at that moment,
and what it hit is in `gone` and `links`.  A sign-in is `Begin`,
which compares the password and the status; `Statement`, which revokes the sessions
it can see; and `Commit`, which adds its own.

Two requests that overlap can leave two sessions, a session of a deactivated user, or a
user without a role: nothing in the database prevents it.  The model records which
users (`accountClash`), and whether two requests on roles (`adminClash`), were in
such an overlap, and the properties say that nothing else breaks them.

Abstractions: names, descriptions and sort orders; the cookie and the token, which are
the session; the rate limit of the login; the two permissions that guard the administration
stand for all.

### Listings and Dashboard

`table` is a list's table with the columns of `order_schedule_snapshot` (other lists are the
same over their own columns), `reader` the one user's list, the number of the page, the
total and the rows received so far.  A page is `CountRows` and then `ReadPage`, an xlsx
export `Probe` and then `Stream`, with `Write` of any other transaction in between;
`dirty` says whether there was one.  A statement whose `ORDER BY` leaves two rows equal
returns them in any order, page by page anew, so `Listing` is the set of orders a
statement may answer with.  Dates are half-days: a midnight and a noon for each day,
enough to tell the half-open windows of the code apart.

`Dashboard` has no steps of its own.  It computes the summaries, trends, risk list and
calendar days from `table`, each with the windows and groupings of its own code, to be
compared with each other and with the lists under the filters that the front end
links them to.

### Baselines

`rows[i]` is a row of `part_cycle_baseline` by its id, `history` the completed
production orders by key.  Since keys, medians and the promotion rule are all
that decide a row, a history is the ascending sequence of its cycles.  A worker's rebuild
goes through the reads of the code one by one: the orders, the rows of the keys to be
upserted, the active history rows; and writes at its commit (`Upserted`: an insert, or an
`ON CONFLICT` update whose `WHERE` spares manual rows, and then the deactivation of the ids that
are stale).  `sync` is a synchronisation of production orders: it fetches, it commits,
and it asks for a rebuild unless one is pending or running.  `admin` is an edit
that has read its row.  `overlap` is history: the rebuilds during which something else has
committed.

Abstractions: matching a cycle to a part by type, model and plant belongs to `Planning`; the
minimum of samples is one, a constant in the code (`_MIN_SAMPLE_COUNT`,
`part_cycle_baseline_service.py:24`; the three of `docs/零件周期基准改造计划.md:15` were given up
later, `docs/progress/自动排产系统-后端.md:181`); machine cycles are rebuilt
synchronously and without manual rows and are left out.

### SyncScheduler

`row` is the single row of `sync_scheduler_state` with the age of its heartbeat in polls.  The
migration inserts it; where it is missing (`stored` is false), whoever reads it first inserts
it (`get_singleton`), in the transaction of its other writes.  Another that finds none would
insert the same id: it waits until the first one ends and then reads the row, which is
`Singleton`, or fails, which is `Leave`, `Crash` or a request that did not happen.  A
process polls in two steps, `ReadSwitch` and `Heartbeat`, and leaves in
three, `Leave`, `ReadOwner` and `MarkStopped`; `writes[i]` are the columns an open
transaction will write, which are those that differ from what it read.  `mode[i]` is
the state of its timers, `Fire` one of them.  `tasks[j][k]` counts the active background
tasks of a synchronisation by dedupe key, since the timers and the endpoints form the key in
two places; `enqueue` are the enqueues between their look-up and their commit.  `Tick` lets
a poll's time pass, once every process that runs has polled.

Abstractions: when a timer is due is left open; the messages of the task; what a task
does is `TaskQueue`.


## The runs

Bounds are constants of the models, named in the `.cfg` files.  `MaxInterruptions`,
`MaxFaults`, `MaxEnqueues`, `MaxRetries`, `MaxChanges`, `MaxRuns`, `MaxFetchErrors`
and `MaxEdits` bound how often the environment acts; nothing the program itself does is
bounded by them.

| run | instance | checks |
|---|---|---|
| `tq_timely` | 2 workers, 2 tasks, 1 key, 2 producers, 2 attempts, 2 crashes or stops, `Timely` | `Exclusive`, `ClaimKept`, `JobAgrees`, `DuplicatesBounded`, `TerminalIsFinal`; the refinement `ImplementsContract` |
| `tq_live` | 2 workers, 1 task, 2 attempts, 2 crashes or stops, any timing | `DeadLetterNeverRequeued`; `EveryTaskEnds` under fairness |
| `bq_any` | 2 workers, 1 request, 2 items, fail count 2, any overlap, 1 fault | `NoStrandWithoutFault`, `SuccessHasBom` |
| `bq_live` | the same, fail count 3, `Prompt` | `HeldOnce`; `EveryItemEnds` under fairness |
| `os_serial` | 1 order, 1 material, 2 plants, 4 changes, 2 runs, 1 fetch error, no overlap | `LinkAgrees`, `NoUndetectedChange`, `WaitsTruly`, `NoSilentIssue`, `PartsFollowPlan` |
| `os_live` | 1 order, 2 parties overlapping, 2 changes, 1 run, upgrade from an older database | `ScheduledHasPlan`, `NoOrderLost`; `SnapshotsSettle` under fairness |
| `plan_dates` | every BOM over ten rows with two fixed assemblies, and 297 combinations of calendar, day, quantity and baselines, each with edits | `EveryPathPlanned`, `PartsFit`, `AssembliesInOrder`, `VerdictMatchesPlan`, `FinalComesLast` |
| `id_any` | 2 users, 2 roles, 3 sessions, 2 overlapping requests, 1 reset, from an empty database | `OneSession`, `SessionsAreCurrent`, `AdminRemains`, `EveryUserHasRole` |
| `qy_any` | every table of up to 3 rows of 6 kinds, pages of 2, xlsx limit 1, 8 filters | `PagesCoverTheList`, `XlsxFits`, `DashboardMatchesLists`, `CalendarMatchesTrends` |
| `bl_live` | 2 keys, 1 of them with orders, 3 histories, 1 rebuilding worker, 2 changes, 1 edit, 1 broken rebuild | `SerialRebuildAgrees`, `ManualUntouched`; `HistorySettles` under fairness |
| `bl_manual` | the same, without fairness | refutes `ManualKept`: a rebuild deactivates a row made manual after it was listed as stale |
| `sc_live` | 2 processes, 1 operator, 1 synchronisation with a timer and an endpoint, heartbeats stale after 2 polls, with and without a stored row | `OneTaskPerJob`, `SwitchKept`; `StatusSettles`, `QuietWhenOff` under fairness |

Why these bounds are enough to be worth something: two workers and one task already
give claim, loss, second claim and late report; the second task lets one recovery
handle a stale row and a dead one together.  Two producers are enough for two enqueues of a
key to overlap; keys meet only in the look-up, which is for one of them, so one is
enough.  Two attempts have a first, a retry and
an exhausted case, three failures of a queue row a middle as well.  Two items and a batch size
of one make a run go through several batches and break between them.  Orders do not
interact except through their material, which a BOM sync reaches for all plants, hence
one order and two plants; what depends on overlap is checked with two parties.
The ten BOM rows contain a shared part, a part below a part, a loop between parts, a loop
back to an assembly, and two assemblies with the same name; calendars have holidays
beside the weekend, a worked weekend and holidays outside what a step loads.

Sign-ins, resets and role edits disturb each other in pairs, and a pair of requests over two
accounts and one role beside the system role has every pair of kinds.  `CONSTRAINT
Unclashed` does not explore what follows a clash: every state up to and including the clash is
checked.  The properties exempt the users who clashed and still speak of the others; of
those, after a clash, the theorems `SessionsAreSingle` and `SessionsStayCurrent` are the evidence, not TLC.  `CONSTRAINT Undisturbed` does the same
for a reader whose table has changed.  Three rows fill a page and begin the next; the six
kinds of row have deliveries at the ends of each window and at noon of their last days,
and months are two to four days long, so that a turn of the year and of the month is near.
One rebuild with one edit between any two of its reads has every order of the two, and ids
are enough for each key to be deleted and inserted again.  Heartbeats count for 30 seconds and
polls come every 5; with `Stale` at 2 a missed poll still counts as running and a crash
does not, which is all the properties depend on.

In `Planning` the constants of the code are scaled down in proportion, so that a small
calendar reaches their boundaries: 30 days of slack in the check become 3, 60 in the
machine plan 6, 365 for parts 18, the cap of 1000 days 18.

The type invariants are proved and not run; each is the first conjunct of an inductive
invariant.

### Where code and documentation differ

`bl_manual` is run, and quoted under `findings` in `PROJECT.json`.  The
modules state six more claims of the documents, comments or tests, each refuted by TLC
when it is added as an invariant or property to the instance named; they are smaller, follow
from the same few causes, and have no run of their own.

| definition | refuted with | what the code does |
|---|---|---|
| `TaskQueue!OneActivePerKey` | `tq_timely` | two enqueues that overlap both find the key free |
| `TaskQueue!StartsUnderOwnClaim` | `tq_live` | the check of ownership comes after the write that makes it true |
| `OrderSchedule!NoPartsOfAnotherPlan` | 6 changes in `os_serial` | part rows of an earlier plan survive a plan without assemblies |
| `OrderSchedule!ClosedByBom` | `os_serial` | the BOM of one plant closes the missing-BOM issue of another |
| `Planning!FractionsRoundUp` | `plan_dates` | the fraction of a cycle is cut off, where a checklist says it is rounded up |
| `Listings!ExportFollowsTheList` | `qy_any` | the export of the schedules drops the filters on urgency and drawing release that the list applies |

Deadlock is checked in every run: workers poll for ever, orders can always be refreshed
and planned again.


## Fairness

- `TaskQueue!Fairness`: weak fairness of each live worker's own loop, of the restart of a
  dead one, and of the two clocks.  `run_forever` never blocks: it sleeps when there
  is nothing to claim, each handler's external calls have time-outs, and the containers
  are started with a restart policy.  Heartbeats, stops, crashes and enqueues are
  not fair.
- `BomBackfillQueue!Fairness`: the scheduler enqueues a consume task at an interval
  and a worker runs it, so `Claim`, `BeginBatch` and `CommitBatch` are taken in the end;
  an open enqueue or retry ends; a retry time passes.  Nothing says that a consume run
  succeeds: the outcome of each item is free.
- `OrderSchedule!FairSpec`: weak fairness that a party begins its next
  transaction and that one which can go no further is rolled back, and strong
  fairness of `Rebuild`, the reconcile task: the scheduler enqueues it at an interval for ever,
  and strong fairness says that it is not the loser of every race.
- `Baselines!Fairness`: weak fairness of a rebuild's next step, of the commit of what was
  fetched, and that an edit that has read its row ends in one way or another; strong
  fairness of a complete fetch, which the timers try again for ever.  Nothing says that a rebuild
  does not break, that anyone asks for one by hand, or that edits come.
- `SyncScheduler!FairSpec`: weak fairness of time, of both steps of a poll and of the steps of a
  process that leaves, of the commit of an enqueue, of the end of a task, and of the commit of an operator's
  request that has begun: an open one that inserts the row holds up everyone who reads it.
  Requests, timers, starts and crashes owe nothing; `StatusSettles` says what follows if they rest.


## The proofs

TLC checks the instances above.  The theorems hold for every number of workers, tasks,
keys, items, orders, materials, plants and parties and for every bound.  The only assumptions
are the named ones in the modules: limits are positive, bounds are numbers, producers are
finitely many, flags are Boolean, absent values are not members of the sets they stand beside.  Three say something
about the world: siblings in a BOM have an order (`RowsAreOrdered`, and there are finitely
many rows), the year of calendar that the part plan loads is shorter than the loop's
cap (`CalendarIsLoaded`: 365 and 1000 days), and months follow one another
(`CalendarAscends`, `CalendarReaches`).

**TaskQueue.**  `QueueInv` is inductive for any timing: `RowInv` (what the columns
of a row in each status are), `ScanInv` (a row an open recovery has read was not claimed
since, which is why the stale attempt count it decides on is still right) and
`HolderInv`.  `AttemptsBounded`, `PendingIsUnclaimed` and `DeadLetterNeverRequeued`
follow.  They are not inductive on their own: recovery writes a row according
to a count it read before, so the step needs `ScanInv`.  With `Timely`, `CustodyInv` is
inductive relative to `QueueInv`: a held row is running in its holder's name at the
holder's attempt under a fresh claim, and what an open recovery has read is not held.
`Exclusive`, `ClaimKept`, `JobAgrees` and `TerminalIsFinal` follow from it.

The code does not keep a dedupe key to one active task, since nothing holds the key
between the look-up and the insert.  What it does keep is proved for any number of
producers, with `Timely`.  `DuplicatesAreBounded`: a key never has more active tasks than there are
producers.  The count of active tasks and of enqueues under way is what is inductive: an
insert moves one from the second to the first, a look-up adds to the second only
where the first is zero, and recovery, retries and claims keep an active task active and make no
finished one active again, which is where `CustodyInv` is needed.
`OnlyOverlapDuplicates`: where no two enqueues of one key overlap (`KeysApart`), there is one
active task, whatever workers, recoveries and crashes do in between.

**The refinement.**  `QueueKeepsContract` proves `Spec => Contract!Spec` with `Timely`,
one lemma per action: each is a step of `TaskContract` or leaves its variable
unchanged.  `CustodyInv` makes the holder unique, so that the `CHOOSE` of the mapping is
determined.

**BomBackfillQueue.**  For any overlap: `TypeCorrect`, `SuccessMeansBom` and
`NothingStrandsWithoutFault`, from the fact that a row in processing is held by
a run and that no write but a claim sets that status.  Under `Prompt`, `BackfillInv` adds
that open reads still stand (`ReadsStand`), that held rows are in processing or resolved, and
that no two runs hold one item; `ItemsAreHeldOnce` and `WaitingRowsHaveRoom` follow.
With one worker as well, `QueueTellsTheTruth`: a row is successful exactly when its BOM
is stored.  (With two workers TLC shows a batch overwrite the success of a BOM sync.)

**OrderSchedule.**  `IInv` is `TypeOK`, `Lasting` (what a transaction has read as
existing, a machine plan, a snapshot, an order, still exists when it writes) and
`ScheduledHasPlan`.  `Lasting` is what makes `ScheduledHasPlan` inductive: a refresh
decides from its view that there is a plan, and writes after others have committed.
`SchedulesExist` and `OrdersStayVisible` hold for any overlap.

With `Serial` and without `Upgrade`, `SerialInv` adds `Mirror`, that what an open transaction
has read is still so (except that issues may have been closed and days passed), and
`Fit(o)`, that a snapshot's link, status, warning level and age agree with order, plan, issues
and check.  None of the four invariants is inductive without the others: a seed, for
instance, does not compare a plan with its order, which is harmless only because a
table without snapshots has no plans.  The proof says of each handler that an order is either
refreshed from a view with the handler's writes in it (`Follows`) or untouched with
nothing its snapshot shows changed (`Kept`), and of both that they keep `Fit`; the latter is where a
handler that forgot an order would fail.  `LinksAgree`, `ChangesDetected`,
`IssuesShow`, `WaitingIsTrue` and `PartsAreReplaced` follow.

**Identity.**  `TypeCorrect` is the types together with `RequestsSound`, what each open request
keeps of the checks at its beginning and may therefore still write.  For sessions: requests about one account do not overlap unless it is marked
(`Apart`), a request that has revoked sessions has met all there still are, and a sign-in has compared
the password there is (`Held`); so between the revocation and the commit of a sign-in no other
session appears, which gives `SessionsAreSingle` and `SessionsStayCurrent`.  For roles: the system
role is active and the others grant what may be delegated (`Rules`); while no two requests on
roles overlap, every user has a role, a role being deleted has no users, and each open change of
users leaves some active administrator in office (`Orderly`, `Backing`).  `UsersKeepRoles` and, where
user management is not delegated, `AdministratorRemains` follow.

**Baselines.**  `TableOK` and `WorkOK` give `TypeCorrect`: the types of the table and of what
rebuilds, the synchronisation and edits have read, that no key gets a second row however they
overlap, and that the next id is above every one in use.  `ManualRowsUntouched` holds for any overlap, from the
`WHERE` of the upsert.  `RebuildAgrees` needs that the reads of an undisturbed rebuild are
exactly what is there, and then that the upsert and the deactivation together make
`HistoryAgrees` true, whatever the table was before.

**SyncScheduler.**  `SwitchStaysAsked` from the type of what a heartbeat may write;
`JobsAreSingle` where enqueues do not overlap, from the one key each synchronisation has,
by timer and by hand.

**Listings and Dashboard.**  `ReadingInv` says what holds in the middle of a reading: while
nothing has been written, the count that was read is still right, the pages received are
the beginning of an answer an export could give, and a stream that follows an
accepted probe fits the limit.  `PagesHold` and `XlsxHolds` follow for every page size, limit and
number of rows; what they need of sequences is that a list without equal rows has one order,
so that pages asked for one by one are cuts of the same list.  `DashboardHolds` and
`CalendarHolds` have no steps to reason about: from `TypeOK` they follow for any table, by
showing of each number that it counts the rows of one set, and that the windows of days, weeks and
months are made of the days the calendar shows.

**Planning.**  `FinalLast`: a model has at most one final assembly and it comes last,
whatever is saved, deleted and completed.  `TimesInv` adds the type of the table; the
step needs that reconciling a table with at most one final assembly puts it after all others
whatever the sequences are, and that completing one does not add a second.

`VerdictAgrees`, `AssembliesHold` and `PartsHaveTime` rest on `SubtractReaches`, which says what the
loop of `subtract_workdays` returns: as long as the cap does not cut it, the day from which
exactly `n` workdays pass, and no later day has as many.  What a step loads agrees with
the whole calendar only on the stretch it loads, so each theorem says: as long as
the dates lie in that stretch (`MachineFitsCalendar`, `EndsFitCalendar`,
`StartsFitCalendar`).  The condition is needed: beyond the stretch the code takes every Monday
to Friday for a workday.  It holds in every state of `plan_dates`.  For the machine
`VerdictAgreesInTime` traces it to the input: the stretch must have as many workdays as the cycle
takes (`MachineHasDays`).  `AssembliesHold` adds the order of the groups of one production
sequence, where numbers that no assembly has, negative numbers and groups without any time are
the cases that need care; `PartsHaveTime` that the key part takes longest.

`PathsArePlanned` has no condition.  `WalkIs` says that the walk which has seen a set of
materials finds exactly the simple paths that avoid them (`WalkPaths`): a path is its first row,
or its first row before a path from that row's child that avoids this child as well.

**Recursive functions.**  The provers have no rule of induction that takes a predicate, so the
inductions of `Planning_proofs` and `Queries_proofs` are about sets: of a set of finite sets, one contains no
other (`MinimalMember`, from the library's theorem that strict inclusion of finite sets is well
founded), and a set that contains zero and with each number the next contains all
(`AllNumbers`).  A recursive function is a `CHOOSE` of a function that satisfies its equation, and
says nothing until there is shown to be one: `ChainExists` does it for the loop over the days,
`EndsExist` for the sequences, `FlattenExists` for the library's `FlattenSeq`, and `WalkExists` for the
walk, by induction over the materials not yet seen.

What is only model-checked: the liveness properties (`EveryTaskEnds`,
`EveryItemEnds`, `SnapshotsSettle`, `HistorySettles`, `StatusSettles`, `QuietWhenOff`),
since the prover handles neither `ENABLED` nor fairness.  Every other property of a passing run is
proved; for some the theorem has a hypothesis that the instance of the run fulfils (`Timely`, `Prompt`, `Serial`,
the dates of `Planning`).


## What is not modelled

| part | why |
|---|---|
| Integration clients: retries, circuit breaker, shared token | what comes of a request is a free choice (rows, one of two kinds of error) in the modules that make it; how often the client tried is left out |
| Web front end | requests that overlap, are cancelled and polled in the browser; the server side of each is modelled |
| Machine cycle baselines and the maintenance of the work calendar | saves of single rows under unique keys; `Planning` takes both as inputs, and `OrderSchedule!EditRules` has the refresh that follows an edit |
| Overlapping plans and saves of one model's assembly times | `Planning` has one transaction at a time; without a unique constraint two of them can insert two final assemblies (listed under hazards) |
| Split of single-row bookkeeping transactions of the task queue into read and write; commits with an unknown outcome | would square the state space of `tq_timely`; listed under hazards |
| Row locks and database deadlocks | no property of the code is about them; a deadlock is an exception, which the models have |
| Deletion of snapshots of vanished orders | source rows never vanish in this code except by hand |
| Parsing of fetched records, text repair, formatting, API schema, configuration, logging, metrics | no state, or no decision depends on it |
| Migrations, containers, start-up scripts, one-off repairs | run once, outside the program's own concurrency |


## The plan

Done, in this order because each rests on the one before: the task queue, on which
everything runs; the backfill queue, its largest client with state of its own; the
order, which is what users see; the algorithms behind its dates; then the parts around
them: accounts and sessions, lists and dashboards, part baselines, the scheduler.

What could follow, by what it would add:

1. Task queue: bookkeeping transactions as read and write and commits with an unknown
   outcome; the agreement of job and task after each.
2. Assembly times: plans and saves of one model that overlap, with the insert that has no
   unique constraint; `FinalComesLast` is then a property to be refuted.
3. The clients: circuit breaker and token with requests in flight, composed with the backfill
   queue, so that its errors come from the breaker and are no free choice.
4. The browser: server tables and the sync console over `Listings` and `SyncScheduler`, with
   cancelled and late answers; what is shown answers the last request.
5. Proofs: conditions on the inputs for `AssembliesHold` and `PartsHaveTime`, as `MachineHasDays` is
   one for the machine: that the workdays of the year before delivery suffice for the
   longest chain of groups and a part.
