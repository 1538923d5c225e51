# kube-shim: TLA+ models of the reconciler and the services around it

kube-shim answers the part of the Kubernetes API that `kubectl` needs for Jobs and
CronJobs and runs each Job on a worker VM of its own at UpCloud. It keeps all its state
in one SQLite database and moves every job along in a periodic *tick*. This directory
holds a TLA+ model of that core and of the services around it, the TLC runs that check
them and TLAPS proofs. Paths below are relative to the repository root, which is `src/`
in `PROJECT.json`.

## The system

| Component | Where | State | Operations | What can go wrong |
|---|---|---|---|---|
| Job reconciler | `src/reconcile/job.rs` | rows of `jobs`, `job_volumes`, `events` | one handler per state, `force_failed`, the UPDATE and the event | crash or lost response between a provider call and the write that records it; writes from a snapshot; cleanup that never ends |
| Job API | `src/api/job.rs` | the same rows | `create_job`, `delete_job`; list and get read | a status read before the write that relies on it; a row removed under a running tick |
| Orphan scan | `src/reconcile/orphan_scan.rs` | none | list, read the tracked ids, stop or delete the others | list, read and delete are three moments |
| Provider client | `src/providers/` | volumes, servers, firewall rules at UpCloud | create, attach, detach, stop, delete, list | calls done but not answered; asynchronous start, stop and rule propagation |
| Worker | `bootstrap/cloud-init-template.sh` | files under `/tmp` on the VM | wait for the config, run the container, write the exit code | runs on its own clock |
| Process, loops, shutdown, health | `src/main.rs`, `src/shutdown.rs`, `src/reconcile/mod.rs`, `src/db/` | the shutdown channel, `Notify`, the last run of each loop, migrations | startup steps, first sync, tick, scan, metrics and pricing loops, drain | shutdown or crash in the middle of anything; a lost wake-up; a loop that hangs |
| Scheduler, CronJob API | `src/reconcile/schedule.rs`, `src/api/cronjob.rs` | `cronjobs`, the runs in `jobs` | create, replace, patch, delete; due runs, concurrency policy, suspend, starting deadline | a run missed or started twice; a pass that works on rows read earlier |
| Secrets, container config | `src/api/secret.rs`, `src/container_env.rs`, `src/run_options.rs`, `src/cloud_init.rs` | `secrets`; the config files on the worker | create, patch, delete; resolve, upload; the worker reads | Secrets that change between two reads; an upload repeated under a worker that reads |
| Budget | `src/pricing/mod.rs`, `src/api/budget.rs` | `budget_state` | admission check, accrual, top-up, settings | read-then-write gaps between requests |
| Plans, prices, costs | `src/workload.rs`, `src/volumes.rs`, `src/pricing/mod.rs`, `src/reconcile/pricing.rs`, `src/api/cost_report.rs` | `provider_plans`, `provider_pricing`, costs in `jobs` | daily sync, plan choice, estimate, actual cost, report | each reads the caches at its own time; SQL and Rust compute one price in two ways |
| Logs | `src/api/logs.rs`, `src/api/log_filter.rs` | `cached_logs` | fetch, follow, filter, merge | chunks cut anywhere, two streams, a job that completes meanwhile |
| Metrics | `src/reconcile/metrics_collector.rs`, `src/api/metrics.rs`, `src/metrics_export.rs` | `worker_metrics` | poll over SSH, forget, serve | an answer written after its job is over; an address used again |
| Admission and parsing | `src/admission.rs` | none | pure checks | boundary values |
| Pods, nodes, events, status page, run counters | `src/api/*`, `src/status_page.rs` | none of their own | read | several queries that must tell one story |
| TLS, auth, config, protobuf | `src/*` | files, sockets | I/O and encoding | - |

The parts meet in the database and in the cloud. The tick loop, every API
request and the orphan scan are separate tokio tasks; each database query, each
provider call and each SSH command is an await, and between two of them the
others run. No query holds a transaction over a call, and no UPDATE of a job's
status is conditional on the status it replaces. Correctness therefore rests on
who else may write a row (hardly anyone) and on every handler being safe to
repeat. `PROJECT.json` lists the hazards line by line.

What makes the parts correct: a run's VM and volume are gone when it is
archived, a container starts only in the environment asked for, an outcome is
real and stays what it was, two jobs share a resource only if their names give the
same title, every job ends,
nothing billable is forgotten, and dry-run touches nothing. Of the services: an
instant of a CronJob runs once, a container starts with all it was promised or
not at all, a log is one log whichever way it is read, a measurement is of the
job it is shown for, an estimate bounds the cost, and the process exits when
asked to, but not in the middle of a change to the cloud. Where the code falls short of
one of these, the property says for which runs it holds, and "Behaviour worth knowing"
what happens to the others.

## The modules

* `JobStates` - the states of `jobs.status`, their successors (`next_state`),
  `is_pre_completion_state`, and `phase_for`, from which both the Pod phase and
  the Job's condition are derived.
* `Reconciler` - the tick, the API's create and delete, the orphan scan, the
  database, the cloud and the worker; faults; the properties; the inductive
  invariant.
* `JobLifecycle` - the abstract specification of a Job: submitted, started,
  succeeded or failed once and for all, archived in the end.
* `Views` - what clients are told about a Job, as queries over `Reconciler`'s
  tables: Job, Pod, events, status page, run counters, and the addresses the log
  endpoint and the metrics poll connect to; the refinement mapping under which
  `Reconciler` implements `JobLifecycle`.
* `MCReconciler` - the symmetry sets for TLC.
* `ReconcilerProofs`, `OwnershipProofs`, `ResultProofs`, `OutcomeProofs` - the
  theorems about them, each module building on the one before (the last two both
  on `OwnershipProofs`).
* `Budget` - the rolling budget: the row of `budget_state`, the requests that
  settle, top up or patch it, and the admission of jobs against it.
* `MCBudget`, `BudgetProofs` - its instances and its theorems.
* `Scheduler`, `MCScheduler`, `SchedulerProofs` - CronJobs, the requests that change
  them, the pass that creates their runs; its instance and its theorems.
* `Process` - the process from startup to exit, with its loops.
* `Delivery` - Secrets, the container's environment and run options, their
  delivery over SSH and the worker that reads them.
* `Logs` - the log endpoint.
* `Metrics` - the metrics poll and what is served from it.
* `Costing` - plans, prices, estimates, costs and the report.
* `Services` - the last five as one state machine: `kind` chooses one of them in the
  initial state, and the others stay as they are. It has the assumptions on their
  inputs and states their properties.
* `MCServices` - the inputs for TLC.
* `ProcessProofs`, `WorkloadProofs` - the theorems about `Services`: those about the
  process and the metrics, and those about plans, costs and the delivery.

`Reconciler` and `Budget` meet in a job's admission and in its completion only, and
neither reads the other's state otherwise, so they are separate modules:
`Reconciler.create_job` is an admission that has passed, `Budget.create_job` the
row that claims the money.

### State of the reconciler

`jobs`, `job_volumes` and `failedEvents` are the tables, reduced to the columns
decisions depend on. A row that was never inserted is `"absent"`, one that was
removed is `"deleted"`; the schema has no foreign keys, so `job_volumes` and
`events` outlive the row. A row's `volume` says whether the spec asks for an ephemeral
volume with a size (`sized`), without one that parses (`unsized`: the handlers then go
on without a volume) or for none (`no`). `volumes` and `servers` are the cloud, found by
their titles; `TitleOf` gives a name's title, and two names may give the same one. A server also
carries how far its firewall is (`none`, `some`, `posted`, `visible`), how far
its bootstrap script is (`worker`), and whose container config it was given
(`owner`). `snap` is the part of the tick's SELECT still to be handled and
`tick` the job at hand, `api` a DELETE in flight and the creates that are past their
existence check (`creating`), `scan` the orphan scan.

### Actions of the reconciler

A job's turn is at most four steps, because others may run between them:

    handler  (its reads and provider calls)    handle_*, advance, attempt_fails, ...
    record   (what the call returned)          insert_job_volume, set_worker_vm, ...
    update   (UPDATE jobs SET status)          update_status
    event    (INSERT INTO events)              record_event

`advance` is the `_` arm of the match and every handler's "nothing to do" return;
`attempt_fails` every "not yet" and every call that failed without effect; `missing_row`
a handler whose `fetch_one` finds the row gone, which ends the tick for all jobs;
`force_failed` the deadline, the stuck-state timeout and the container that never
started. The parameter `o` of a handler says whether the call was answered (`"ok"`) or
done but reported as an error (`"lost"`), `listed` whether the list before a create
worked, `detached` whether the detach before a delete worked. A create is `check_name`
and, any time later, `create_job`, the INSERT: two requests may both find a name free. A
DELETE is `delete_job` (read) and then `delete_forces` and `delete_records_event`, or
`delete_drops_row`. `crash` loses everything in flight and nothing else:
`startup::recover` only logs.

A handler's reads are merged with its provider call. That is sound because the
columns it reads are written by the tick alone; the API can only remove the row
in between, and removal commutes with a call that does not touch the database.

### The budget

`budget` is the row of `budget_state`, `req` the requests in flight with the row
each has fetched, `jobs` the estimates. A request is a sequence of queries with
an await between them: fetch the row, settle (`settle_accrual`, which writes
back a balance computed from the fetched row and a time read after it), then the
request's own UPDATE (`apply_topup`, `apply_patch`) or, for a job, the sum of the
estimates still running (`check_budget`) and the INSERT. At most `MaxRequests` are in
flight, admissions included, which is what `OvercommitBounded` counts. `abandon` ends a request
anywhere, keeping what it wrote. `record_completion` ends a job; it stores the
actual cost in the job's row and leaves `budget` alone, as the code does. The
estimates are summed row by row (`committed_budget`), a recursion that can be
proved about.

What holds depends on how requests overlap, so `clients` fixes that for an
instance: `"sequential"` (one request at a time), `"reading"` (any number, but
only `GET /settings` and admissions) or `"any"`. `credited`, `earned`, `topped`
and `spent` are history, converted along with the balance.

Money is counted in whole units and time in whole days; the amounts of the
instances are chosen so that every conversion is exact. A rate of 0 stands for
every rate that disables budgeting. What a job costs is an input: the price list,
the plan and the volume only determine a number, or that there is none yet.

### The scheduler

`cronjobs` and `runs` are the tables, `pass` the rows the pass selected and has
still to handle, `asked` the requests between their check and their write. A
CronJob in the pass goes through `check_due` (schedule, suspend, starting
deadline), `check_active` (`Forbid`) and `create_job_run`, each after its own
query. The pass has no memory but `MAX(jobs.created_at)`: that is
`last_scheduled_time`. A create and its existence check are two steps, so one
name may get two rows, as in the code. Cron syntax is an input: `Fires` gives the
instants of a schedule, in seconds. A mishap is a pass that fails or a budget that
runs short. `touched`, `lastRun` and `deleted` are history.

### The process

`main` says where `main()` is. Each startup step may be cut short by a shutdown
(`unless_shutdown`), fail, or end in a crash; the database keeps what was written
(columns added by migrations, caches filled by the first sync, changes made
through the API). A part of a sync fills its cache, fails, or is answered with nothing to
store (every plan filtered out, an empty list), which the code counts as a success;
`failed` has the caches this process last asked for in vain. Each loop is idle, in a pass,
hung, stopped or has panicked. A panic of the tick ends `reconcile::run` before it
waits for the other loops, and `main` returns at once (`join_fails`). `select!` is
biased towards shutdown: the tick and the scan are stopped between passes, the
poll and the sync also within one. `permit` is what `Notify` stores.

### The delivery of a container's config

One job with one container. `secrets` has rows, not names: the table has no unique
index. Resolving reads one Secret per step, in VMPending (`check_resolves`) and again in
ContainerConfiguring (`config_resolved`), then five uploads write the files, any of
which may be done and reported lost, whereupon the next tick resolves and uploads again.
The environment is built entry by entry (`AfterEntries`), so that a later entry sees,
and overrides, what came before it. The worker reads the same files one at a time once
`ready` is there, checks the user, and runs the container. Values are model values with
the reading they come from, so that a mixture shows.

### Logs

A log is a sequence of lines of two streams with times, some tied. A followed log
arrives in chunks that may end within a line, also within its timestamp, in which case
the piece counts as a line without one (a line is three pieces). `StreamMerger` holds a
line until the other stream has caught up or the window has elapsed. A fetch
(`exec_once`) merges what arrived before the channel closed, be it all or not; its exit
status is not looked at. The tick fetches the log to be cached in the same way
(`logs_fetched`), and caches an empty text when that fails (`logs_fetch_error`) or
the start error (`start_error`), both without timestamps, so that `since` does not
filter them. `job_over` may come first: `force_failed` caches nothing. A request reads
the row once (`find_job`) and uses it to its end, so the job need not move after that.
`tail`, `since` and `limit` are filters; timestamps in the output are left out.

### Metrics

The poll's rounds beside the life of the jobs: forget stale rows one by one, then
one task per job, each waiting for SSH or about to write. The command's output has six
sections and may be cut after any of them: without the first four there is no sample,
without all six no VM statistics. Addresses are handed out again as soon as a VM is gone.

### Costing

`plans`, `prices` and the exchange rate `rate` are the cached tables, changed by
separate syncs. The rates are replaced as a whole, so that the provider's currency may
drop out of them; prices are only added and updated. A run is checked against its
deadline with the time at which the pass began and may be found finished after it.
Prices are whole units. Quantities are tenths of millicores and KiB, so that every rounding
shows: to the nearest millicore, to the nearest MB, up to whole cores and GB.

### What is abstracted in the reconciler

* Time. A timeout may be found elapsed at any tick; a job's
  `activeDeadlineSeconds` elapses once and for good. Races that depend on two
  durations (the worker's five-minute wait for its volume against the shim's
  five-minute timeout) are out of reach.
* Requests. At most one DELETE is in flight at a time; creates overlap freely. Runs
  inserted by the scheduler, which checks no name, are the creates that checked at any
  time before.
* The detach and the delete of a volume are one step, either of which may fail or go
  unanswered; a crash between them is the outcome in which the volume is detached only.
* The rules of a worker become visible together. `handle_firewall_verified` goes on at a
  listing with some rule for outbound traffic and some for DNS replies, so a provider that
  showed its rules one at a time would let a container start before the others show.
* Configuration. The SSH keys are configured (without them a job is held in
  VMPending or ContainerConfiguring by `attempt_fails`); `dry_run` does not
  change over a restart.
* Costs, logs, messages, retry counts, plan sizes and resolved environments: the
  model has their failure, not their content.
* External: UpCloud refuses to delete an attached or missing volume, to attach
  an attached one and to delete a server that is not stopped; deleting a server
  with `storages=1` deletes what is attached to it.

In the delivery an upload that was not answered took effect or did not: a connection
that breaks within `cat`, so that `mv` installs a part of a file, or a command that runs
on after the shim gave up, are not modelled. `envFrom`'s prefix is a renaming and left
out.

## The runs

| Run | Instance | Checks |
|---|---|---|
| `core` | 1 job with a volume, one without a size or none, 2 volumes, 2 servers, 2 faults, 2 DELETEs | `TypeOK`, `SnapshotCoherent`, `CleanupComplete`, `RunsProvisioned`, `EarnedSuccess`, `DryRunTouchesNothing`, `NothingAttachedAtDelete` |
| `neighbours` | 2 jobs, the names `a/b-c`, `a-b/c` (one title) and `x/y`, 1 volume, 1 server, 1 fault | `NoSharing`, `SshReachesOwnWorker` |
| `progress` | 1 job, 2 volumes, 2 servers, no fault | `ViewsAgree`, `Implements` (the refinement), `EventuallyArchived`, `OutcomeStands` |
| `orphans` | 1 job, 1 volume, 1 server, scan, 1 fault, 1 DELETE | `OrphansReclaimed` |
| `stuck_cleanup` | 1 job, 1 fault | refutes `EventuallyArchived` |
| `recreated` | 2 jobs of one name, no volume, 1 DELETE | refutes `EarnedSuccess` |
| `delete_races` | 1 job, 1 DELETE | refutes `OutcomeStands` |
| `budget` | 2 requests, 3 jobs, 2 currencies, 2 days, 2 changes, sequential and reading clients | `TypeOK`, `AccrualExact`, `NoBackdatedAccrual`, `OvercommitBounded` |
| `schedule` | 1 name, 2 rows, 2 clients, 3 requests, instants 1 and 4 of 4 seconds, 1 deleted run, 1 mishap | `TypeOK`, `ForbidHolds`, `RunsOnce`, `RunsAreDue`, `InstantsRun` |
| `services`, process | 2 starts, 1 column to add, 1 pass of each other loop, 1 change, 1 cache that a fetch did not fill | `SafeExit`, `PricedBeforeServing`, `ShutdownCompletes`, `ChangesSeen` |
| `services`, environment | the containers of `MCServices`, 3 attempts | `StartsComplete`, `OneReading`, `NonRootHonoured` |
| `services`, logs | logs of up to 3 lines, with ties, cut anywhere | `OneLog` |
| `services`, metrics | 2 jobs, 1 address | `ServedIsOwn`, `SamplesForgotten` |
| `services`, costing | 5 catalogs, 3 price lists, 2 exchange rates, 11 specs, a deadline of 2 hours and 3 hours, 4 syncs | `CheapestCharged`, `EstimateBounds`, `StaysInReport` |
| `lost_topup` | 2 requests, 1 currency, any clients | refutes `TopUpAdds` |
| `never_charged` | 1 request, 2 jobs, budgeting always on | refutes `SpendingCovered` |

*Bounds.* A fault is a crash, a failed query, a lost response or a failed list. Two of
them are enough to lose a create and then fail the list that would have found it, which
gives a job two volumes or VMs of one title; a second volume and server let that happen.
Two DELETEs cover the one that fails a job and the one that then removes its row under a
tick. Calls that fail without effect are not bounded. Two jobs suffice for everything
that relates jobs, since the tick handles one at a time; in `neighbours` they compete
for the only volume and the only server there is room for, so any sharing would show on
these. There they have one name, two names of one title, or two titles. In `budget` two
days are one more than the rollover cap, two requests give every overlap of two settles
or two admissions, three jobs of the dearer currency's price would exceed the bound on
what two admissions at once can commit, and two changes let budgeting be switched off
and on again. Symmetry is used for safety only. In `schedule` four seconds hold an
instant, one that is missed, and both sides of the boundary of a starting deadline of
one second; three requests are a create, a change and another change or create that
overlaps it. In `services` one address makes every second worker take over a first
one's; two starts are a crash and the recovery from it; three attempts are the check in
VMPending and two deliveries that may overlap; four syncs fill both caches and change
both.

*Deadlock.* Checked but for `services`: the tick loop never stops, passes of the
scheduler go on, and settings can always be read. In `services` a process exits
for good, a log is served, a run is over.

*Fairness.* `FairSpec`: the tick loop and an accepted request keep running (tokio
schedules every ready task, the loop has a fallback interval), time passes
(`deadline_passes`; admission insists on `activeDeadlineSeconds`), servers settle, and a
cleanup call repeated for ever is not refused for ever. `FairScanSpec` asks the same of
the scan loop. Nothing is asked of users, of the container, or of the calls before
completion. In `Scheduler` passes go on, runs end (which `EventuallyArchived` shows of
jobs without faults) and the budget recovers (it accrues, which is enough only if its
cap covers the run). In `Process` main's own steps, its timers and the intervals of the
loops go on, `select!` sees a shutdown, and a tick that does not hang returns (it may
hang at any time); a request, a fetch, a certificate or another loop's pass need never
end. In `Metrics` the poll goes on and its timeouts elapse; no worker has to answer.

### What the refuting runs show

* **A cleanup can get stuck for good** (`stuck_cleanup`). If a volume or VM is
  deleted but the response is lost, or the process dies before recording it, the
  next attempt is answered NotFound. `handle_volume_detaching` and
  `handle_vm_terminating` count that as a failure and retry, and these states
  have no timeout. The doc of `force_failed` says the cleanup path "already
  tolerates cleaning up a partial/nonexistent set of resources".
* **A recreated Job can succeed without running** (`recreated`). `delete_job`
  removes the row of a job in Failed or in a cleanup state while its VM exists;
  a new Job of the same name adopts the VM by title and reads the old exit code.
* **A DELETE and a tick overwrite each other** (`delete_races`). Both UPDATEs of
  the status are unconditional: a deleted job runs on, or a Succeeded becomes a
  Failed.
* **A top-up can wipe out another write** (`lost_topup`). `apply_topup` adds to a
  balance read two queries earlier and writes the sum as an absolute value; its
  doc and that of `api::budget` say there is no read-then-write gap.
* **Finished jobs are never charged** (`never_charged`). No statement subtracts a
  job's actual cost from the balance, while its estimate stops counting when it
  completes; the plan and the doc of `committed_budget` say it is charged.

### Behaviour worth knowing

The models also have these, which a property has to exempt, or which no doc
contradicts. The first ones go against a line of the repository; the properties say what
holds all the same.

* Two jobs can have one name. "A standalone Job's name is whatever the caller gave it, so
  this needs an explicit check" (`api/job.rs:240`), which `naming.rs:7-10` relies on ("only
  guaranteed unique within its namespace"); but the check and the INSERT are two awaits
  and the table has no unique index. They then share a worker and a volume, as do two
  jobs whose names differ in where a dash falls, which `naming.rs:22-31` leaves unguarded.
  `NoSharing`, `RunsProvisioned` and `SshReachesOwnWorker` say what is left: jobs of
  different titles share nothing, jobs of one title share only what carries it.
* Overlapping admissions are each compared with the whole balance. The plan says the
  budget guard "already prevents more than one job's worth of concurrent spend in
  practice" (`IMPLEMENTATION_PLAN.md:1401`); `OvercommitBounded` says how far it can go.
* An estimate is called "a true upper bound" because a run is killed at its deadline
  (`pricing/mod.rs:218-221`). The pass compares the deadline with a time read when it
  began; a container found finished later in the pass is charged to that moment.
  `EstimateBounds` is about runs that are over by their deadline.
* `reconcile::run` "returns once every loop has stopped", so that "`main` knows nothing is
  mid-operation" (`reconcile/mod.rs:205`, `237`). A panic of the tick unwinds `run` before
  it waits, `main` takes it for the end and exits, and an orphan scan may be cut off.
  `SafeExit` excepts that.
* A starting deadline "drops a due instant once it's more than that many seconds old"
  (`schedule.rs:187`). `is_due` searches from one second more than the deadline, so an
  instant passes until its age, in whole seconds rounded down, exceeds the deadline: up
  to a second late. The clock of `Scheduler` is in whole seconds, and `RunsAreDue` speaks
  of whole seconds, which is what the code decides on.
* A log that could not be fetched at completion is cached as an empty text, one cut off
  by the connection as what had arrived, and a run forced to fail has none. A request that
  found its job running, and whose SSH command fails because the job has completed since,
  serves the row it read before: "no logs available" although they are cached by now
  (`logs.rs:176`). `OneLog` compares logs where no connection broke, and for the others
  says that no line is lost from the middle, doubled or out of order.
* The exchange rates are replaced daily. If the provider's currency drops out of them,
  its runs are left out of the cost report (`cost_report.rs:264`), hence the premise of
  `StaysInReport`.

And:

* `create_job` unwraps `activeDeadlineSeconds`, whose value admission does not look
  at: one that is not an integer makes the handler panic (`"panicked"` in
  `Costing`), though a comment says the check before "already guarantees this unwrap
  succeeds". A CronJob with such a value gets runs without estimate and deadline.
* Only limits are checked to parse; a malformed request counts as none. A second
  ephemeral volume is admitted and ignored. `parse_storage_quantity_mb` rounds to
  the nearest MB, so a plan may be half a MB short.
* An actual cost is computed at the prices of the day of completion and the report
  at those of the day it is asked for; runs that were forced to fail have no cost
  and are not in it. `EstimateBounds` therefore stops at the first sync.
  `sync_pricing` counts an answer without plans or prices as done; the server then
  starts with an empty cache (`PricedBeforeServing` says that it asked).
* A config delivered again after its `ready` got through may be read half old, half new
  (`rewritten` in `OneReading`). A variable can get lost that way: the worker has read
  the old `secret-env` when the second delivery replaces `env`; a Secret's value that
  had one line in the first delivery and has several in the second is in the new
  `secret-env`, which is not read any more, and not in the new `env`. `StartsComplete`
  excepts a worker that took its files from two deliveries (`Mixed`). The proof of
  `RunsWithAll` brought this to light; one of the patches of `MCServices` makes it
  happen.
* A PATCH of a Secret writes back what it read: one of two overlapping patches is
  lost. The table has no unique index on names.
* Deleting the last run of a CronJob makes its instant due again, and a CronJob
  created again under a name inherits the old one's last run.
* `sync_pricing_and_rates` returns Ok whatever fails; the loop's failure counter
  never moves. Prices no longer listed stay cached, which `StaysInReport` relies on.
* `EventuallyArchived` rests on the deadline, so it says nothing of the CronJob runs
  without one. `progress` has no faults: what a reader sees when the process dies between a
  status and its event is not in `ViewsAgree` (the theorem names that hypothesis).
* `NothingAttachedAtDelete` is checked without the orphan scan, which is always on in
  production and deletes servers with whatever is attached; `CleanupDeletesBare` is what
  is left with it.
* GET `/metrics` serves samples of jobs that are over until the next poll forgets
  them; `kubectl top` does not.

## The proofs

`ReconcilerProofs` proves for every set of jobs, names, volumes and servers, any
bounds, with and without the scan, from the assumptions of `Reconciler` (`None` is
none of the ids and no exit code, every name has a title, a volume is asked for in one of
the three ways, the bounds are numbers):

* `Invariance`: `Spec => []IndInv`
* `TypeCorrect`, `ArchivedIsClean`, `SnapshotStaysCoherent`, `DryRunIsDry`:
  the parts of it that matter by themselves.

`CleanupComplete` is not inductive: `update_status` writes `Archived` without
looking. `IndInv` adds what makes that right. `CleanupProgress` says that a job
in one of the states after the volume's deletion, or about to enter one, has no
`job_volumes` row, and one about to be archived has no server. To keep it, no
other step may put a volume back: `SnapshotCoherent` says that the job at hand
is still in the state it was selected in unless a DELETE intervened, so no
handler of an earlier state is still to run for it. `InFlightOK` types what a
turn carries from step to step, and `DryRunRecordsNothing` supports
`DryRunTouchesNothing`, since without a recorded id nothing can be changed.

Most actions leave the tables alone or are one handler's turn. The proof names
these two kinds of step (`CloudOK`, `TurnOK`), shows once that they preserve
`IndInv`, and then shows for each action that it is of that kind.

`OwnershipProofs` proves under the same conditions, so with any faults and DELETE
requests and with the scan:

* `Ownership`: `Spec => []OwnInv`, and from it
* `NothingShared`: `NoSharing`;
* `RunsAreProvisioned`: `RunsProvisioned`.

What a stage has provisioned is in the columns and in the cloud, how far a job has
come is in `jobs.status`, and the tick moves the status along from what it
remembers: from its snapshot, from the turn in progress, from the target about to
be written. `OwnInv` therefore says of every stage *seen* in one of these places
(`Seen`) what it has: from `FirewallApplying` on a worker VM, from `VMCreating` on
visible rules, from `VolumeAttached` on the volume attached (`Provisioned`). That
nobody else takes it away has two reasons. What is recorded for a job carries its
title (`RecordedTitled`, `FoundTitled`), so no job of another title has it; and the scan
deletes only servers that
were stopped when it listed them, which stay stopped (`StoppedStays`), while a job
past `VMCreating` has seen its worker started (`DoomedUnused`, `Alive`). Nothing is
assumed of names: two jobs may have one name or one title. What such a pair can do to
each other, take the volume off or delete the worker, is excepted by `OnlyTitled`, no
other job ever had this title, in just these two places (`Provisioned`, `Alive`).

`ResultProofs` is about whose container ran. With any faults and DELETE requests:

* `SshReachesOwn`: `SshReachesOwnWorker`, of all jobs, with the two halves of the
  property: the right title for every job, the own container for one whose title is its
  alone. The invariant `ResultInv` adds that a config is delivered only to a worker of the
  job's title and that the worker waits for one (`OwnerTitled`), and that from
  `ContainerRunning` on it is the job's if no other has had the title (`Configured`);
* `SuccessIsEarned`: `EarnedSuccess`, under the hypothesis `[]TitlesUsedOnce`: no two jobs
  have one title, not even after a row was deleted. It is needed: a worker is found by its
  title, and in run `recreated` a job created again adopts the old one's worker with the
  container on it;
* `CleanupDeletesBare`, under the same hypothesis: a server that is deleted with a
  volume attached is deleted by the orphan scan, never by the cleanup. An attached
  volume is on the books of a job with the server's title (`AttachedKnown`), and a job
  in `VMTerminating` has none.

`OutcomeProofs` proves the refinement. Its hypotheses are that nobody sends a DELETE
(`[]NoRequest`) and that every state change gets its event (`[][EventWritten]_vars`:
no crash and no failed query comes between the UPDATE and the INSERT). Both are
needed: a failure is remembered by its event alone once the job is in the cleanup
states, and the tick's unconditional UPDATE can overwrite what a DELETE wrote (run
`delete_races`). Crashes and failed queries elsewhere, lost responses and the scan
are all allowed:

* `LifecycleImplemented`: `Lifecycle!Safety`, that is, `Implements` without its
  liveness: each step submits, starts, finishes or archives one Job as `JobLifecycle`
  allows, or changes nothing a client sees;
* `OutcomesStand`: `OutcomeStands`, from the refinement alone;
* `ViewsTellTheSame`: `ViewsAgree`.

The invariant is `OutcomeInv`: the row is in the state the tick remembers and the
target is a successor of it (`Steady`); a `Failed` row has its event, a row with an
event or a nonzero exit code does not become Succeeded (`FailureTold`); and an exit
code is known only of a job with an address, so that the early return of
`handle_container_running` cannot call a failed run Succeeded (`ExitHasAddress`).
The proof shows for each kind of step at once that it keeps `OutcomeInv` and which
step of `JobLifecycle` it is (`OneKept`, `QuietKept`).

`SchedulerProofs` proves for any CronJobs, clients, schedules, policies and deadlines,
from the assumptions of `Scheduler` (schedules fire at natural numbers, `Unset` is no
value of a field and no row, a request sends a spec or a patch of fields):

* `Typing` and `TypeCorrect`: every row written through defaults and merge patches has
  the fields a pass reads;
* `ForbidRespected`: `ForbidHolds`;
* `RunsAreDueThen`: `RunsAreDue`;
* `InstantsRunOnce`: `RunsOnce`.

A pass acts on copies of rows in three queries. `SchedInv` says what stays true of
them: no run is later than the pass (`TimesOrdered`); a copy is the row unless a
request touched it, and keeps its name (`SelectedOnce`, `SelectedCurrent`); what
`is_due` and `has_active_run` found still holds at the INSERT, because runs of a name
are created by the one pass only (`DecisionStands`); and the runs remember when their
CronJob last ran (`RunsRemembered`, `RunsKnown`).

`BudgetProofs` proves for any number of requests and jobs and any prices, rates,
caps, currencies and exchange rates, from the assumptions of `Budget` (amounts are
integers, rates and prices not negative, exchange rates positive):

* `TypeCorrect`: the balance is never negative, for all clients;
* `AccrualIsExact`: `AccrualExact`, which needs that not only the stored row but
  every row a request still holds lies on the same accrual curve
  (`RowsOnCurve`); then a settle from any of them ends on the curve, at an earlier
  day perhaps (`AccruedOnCurve`);
* `NothingBackdated`: `NoBackdatedAccrual`, which needs that what is still to be
  accrued is allowed too, that the row held is the row stored, and that at the
  UPDATE of a patch everything up to today is settled (`OneAtATime`); a currency
  change keeps the order of two amounts (`ConvertMonotone`);
* `OvercommitIsBounded`: `OvercommitBounded`. Between its check and its INSERT an
  admission is on nobody's books, so the invariant (`Overcommit`) adds what the
  admissions in flight are about to claim (`Pledged`) to what the table says. A check
  passes only if the claims and its own pledge are within the balance, which the cap
  bounds, and every other admission in flight pledges at most that much again. It needs
  what a sum over a table becomes when one row changes and that a sum of small amounts is
  small (`Total`).

`ProcessProofs` and `WorkloadProofs` prove about `Services`, for all values of its
constants. Their assumptions are in that module: the bounds are numbers and there is at
least one start; `None` is nothing else; a catalog has one plan of a name, of whole
cores and whole GB (`workload.rs` says so of UpCloud); no price is negative; quantities
and deadlines are numbers where they are there; the lists are lists. Since the services
share no variable, `Spec` implies each one's own behaviour (`ProcessRuns`, `MetricsRun`,
`CostingRuns`, `EnvironmentRuns`), and each has an invariant of its own.

The process, for any configuration, migrations, starts, passes, failures and changes:

* `ExitIsSafe`: `SafeExit`. The invariant adds that the loops are off before startup
  is over and after the exit (`LoopsSpawned`), so that an exit during startup cuts
  nothing off, and that a process that got its second signal is gone
  (`SecondIsLast`), so that the excuse does not outlive it. The panic of the tick is
  among the causes excepted.
* `PricesComeFirst`: `PricedBeforeServing`. The invariant follows the first sync: the
  caches before the part at hand are filled, or this process has asked in vain or dry-run
  skips it (`SyncedSoFar`), and all three are when the budget is seeded (`PricedAtSeed`). A
  crash between two parts keeps some of them, and the next start checks all three
  again.

The metrics, for any jobs and addresses:

* `ServedOwn`: `ServedIsOwn`. A sample by itself does not say why it is right. The
  invariant adds that a job that runs has its own worker at its address
  (`OwnAddress`), and that a task asks the address of its job's row and holds an
  answer of the job's own worker unless the job is over (`TasksAsk`); then so does
  the row it writes (`RowsOwn`). Once a job is over nothing is said of its samples,
  and `real_worker_samples` does not serve them.

Plans and costs, for any catalogs, price lists and specs, through any syncs:

* `CheapestIsChosen`: `CheapestCharged`. The `ORDER BY` of five columns has a first row
  (`FirstExists`, column by column), its second column is the plan's own part of what
  `charge_breakdown_for_duration` charges per hour (`RankIsRate`), the volume costs the
  same on every plan, and a plan fits in whole cores and GB exactly when it is enough
  for what was asked for, to the rounding of the parsers (`FittingIsEnough`; here whole
  GB of memory matter). An unpriced plan ranks last and is chosen only if no plan that
  fits is priced.
* `EstimateIsBound`: `EstimateBounds`, of runs over by their deadline. Until a sync of
  plans, prices or rates comes, the estimate stored is what
  the tables say, and the plan recorded is the one it was made with (`EstimateHolds`);
  charges grow with the hours (`EstimateCovers`).
* `ReportKeeps`: `StaysInReport`, while the currency has a rate. The price of a plan
  that was charged stays cached (`StaysPriced`), since `sync_pricing` only adds and
  updates.

The delivery, for any container, any Secrets and patches, any number of attempts:

* `RunsWithAll`: `StartsComplete`. An environment that resolves has every entry that is
  not optional, and the fields of the last entry of a name as they are
  (`ResolvedHasEntries`); so has every config uploaded and every file, and pair of files,
  that the worker copied (`CopiesComplete`).
* `FilesFromOneReading`: `OneReading`. `ready` is the last file of a delivery, and while
  nothing was written again after it all files are of one delivery (`ReadyIsLast`,
  `UploadedSoFar`, `SameDelivery`). What the worker copied is of the deliveries so
  far, and of earlier ones only while the next one is being read (`CopiesOld`).
* `NeverRoot`: `NonRootHonoured`. What admission found about the user still holds of the
  config delivered, and the worker's script has looked at the image's user by the time it
  runs (`UserChecked`).
* `ServicesTyped`: `TypeOK` for all services but the logs.

What an algorithm computes over a list is proved here without an induction principle,
which the provers cannot apply: a set of numbers has a least element (`LeastExists`, from
the library's well-foundedness of `<`), so if a claim fails for some length it fails for
a least one, and it holds of one entry less. The existence of the recursive functions
themselves is proved in the same way (`SumsExist`, `EntriesFollow`).

Only model-checked:

* liveness, which is out of the prover's reach: `EventuallyArchived`,
  `OrphansReclaimed`, `GivenBack` in `Implements`, `InstantsRun`, `ShutdownCompletes`,
  `ChangesSeen` and `SamplesForgotten`;
* `NothingAttachedAtDelete`, which holds only where the orphan scan is off (see
  `CleanupDeletesBare`);
* `OneLog`, and `TypeOK` of `Logs`. They say that an incremental merge of two filtered
  streams is a stable sort of the whole: `SelectSeq`, `FoldLeft` and `SetToSortSeq`
  take operators as parameters, and none of the facts about them that would be needed
  can be stated for the provers. TLC compares the two on every log of the instance.

## Not modelled

* The text of things: protobuf and JSON encoding, routing, Kubernetes `Status`
  objects, the FOCUS columns, the Prometheus format, HTML, the script template.
* Cron syntax (`parse_schedule`): `Scheduler` takes the instants of a schedule as
  given.
* Authentication, TLS and the ACME protocol; the SSH protocol; the parsing of the
  configuration.
* Durations: races of two clocks, such as the worker's five minutes for its volume
  against the shim's.
* Floating-point rounding. `Costing` takes the main currency at completion and the one of
  the report to be the same.
* The composition of the services with the reconciler in one state space. They meet
  in a few columns of `jobs` (status, address, plan, costs, cached log), which each
  module changes the way the reconciler does; `SshReachesOwnWorker` checks on the
  full model what `Metrics` and `Logs` rely on.

## Plan

1. Done: `JobStates`, `Reconciler`, `JobLifecycle`, `Views`, `Budget`, `Scheduler`,
   `Process`, `Delivery`, `Logs`, `Metrics`, `Costing`, `Services`.
2. Done: the proofs above. Every safety property that a passing run checks is proved but
   `OneLog` and `NothingAttachedAtDelete`.
3. Worth doing next: `EachInOrder` of `Logs`, with the merge written over positions
   instead of sequences; several DELETEs at once in `Reconciler`.
