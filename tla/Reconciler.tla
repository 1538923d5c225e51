----------------------------- MODULE Reconciler -----------------------------
(***************************************************************************)
(* The core of kube-shim: the tick loop that walks every row of table      *)
(* "jobs" through the pipeline of JobStates (reconcile::job), the API's    *)
(* create and delete of a Job, the orphan scan that runs beside them, the  *)
(* database they share, and the cloud they all act on.                     *)
(*                                                                         *)
(* Every database query and every provider or SSH call is an await, so the *)
(* three processes interleave there.  One job's turn in a tick is          *)
(*                                                                         *)
(*    handler (own reads and provider calls)   pc = "next"                 *)
(*    -> write what the call returned          pc = "record"               *)
(*    -> UPDATE jobs SET status                pc = "update"               *)
(*    -> INSERT INTO events                    pc = "event"                *)
(*                                                                         *)
(* A handler's own reads are merged with the provider call that follows    *)
(* them: the row's columns are written by the tick alone and the API only  *)
(* removes the row, which commutes with a call that does not touch the     *)
(* database.  Time is abstracted: a state's timeout may be found elapsed   *)
(* at any tick, and a job's activeDeadlineSeconds elapses once for good.   *)
(***************************************************************************)
EXTENDS JobStates

CONSTANTS
    Jobs,        \* row ids of table jobs; every id is used once (a UUID)
    Names,       \* the "namespace/name" of a Job
    Titles,      \* titles of volumes and servers
    TitleOf,     \* the title built from a name: two names may give the same
    VolumeRequests, \* the kinds of ephemeral volume that Job specs ask for
    Volumes,     \* provider volume ids
    Servers,     \* provider server ids
    None,        \* SQL NULL
    MaxFaults,   \* bound on crashes, failed queries, lost responses, failed lists
    MaxDeletes,  \* bound on DELETE requests
    ScanEnabled  \* whether the orphan-scan loop runs

ASSUME NoneAssumption ==
    None \notin Jobs \union Names \union Titles \union Volumes \union Servers
ASSUME TitleAssumption == TitleOf \in [Names -> Titles]
\* unsized: without a size that parses.
ASSUME RequestAssumption == VolumeRequests \subseteq {"no", "unsized", "sized"}
ASSUME BoundsAssumption ==
    MaxFaults \in Nat /\ MaxDeletes \in Nat /\ ScanEnabled \in BOOLEAN

VARIABLES
    dryRun,      \* config.toml [upcloud] dry_run
    \* The database.
    jobs,        \* table jobs
    job_volumes, \* table job_volumes: per job, provider_volume_id in rowid order
    failedEvents,\* jobs with a row (job_id, 'Failed') in table events
    expired,     \* jobs whose deadline lies before the coming tick's `now`
    \* The cloud.
    volumes,
    servers,
    \* The tick loop: the rows still to handle, as selected, and the job at hand.
    snap,
    tick,
    \* The requests and the orphan scan in flight.
    api,
    scan,
    \* Bounded counters.
    faults,
    deletes

dbVars == <<jobs, job_volumes, failedEvents, expired>>
cloudVars == <<volumes, servers>>
tickVars == <<snap, tick>>
vars == <<dryRun, jobs, job_volumes, failedEvents, expired, volumes, servers,
          snap, tick, api, scan, faults, deletes>>

-----------------------------------------------------------------------------
(***************************************************************************)
(* Types.                                                                  *)
(***************************************************************************)

ExitCodes == {"zero", "nonzero"}
ASSUME ExitAssumption == None \notin ExitCodes

\* A row of jobs.  "absent": not inserted yet; "deleted": removed.  The name
\* and the spec outlive the row in the snapshot a tick works from.
Row == [status : Statuses \union {"absent", "deleted"},
        name : Names \union {None}, volume : VolumeRequests \union {None},
        vm : Servers \union {None}, ip : Servers \union {None},
        exit : ExitCodes \union {None}]

\* on: the server a volume is attached to.
Volume == [state : {"none", "live", "deleted"}, title : Titles \union {None},
           on : Servers \union {None}]

\* firewall: whether none, some or all of the worker's rules were posted, and
\* whether those that FirewallVerified looks for show in the list; worker: what
\* the cloud-init script has reached; owner: whose container config it was given.
Server == [state : {"none", "creating", "started", "stopping", "stopped", "deleted"},
           title : Titles \union {None},
           firewall : {"none", "some", "posted", "visible"},
           worker : {"boot", "ready", "run"} \union ExitCodes,
           owner : Jobs \union {None}]

Tick == [pc : {"idle", "next", "record", "update", "event"},
         job : Jobs \union {None}, at : Statuses \union {"none"},
         target : Statuses \union {"none"},
         res : Volumes \union Servers \union ExitCodes \union {None}]

\* pc, job: the DELETE request.  creating: for each Job about to be inserted,
\* the name that its request has found free.
Api == [pc : {"idle", "force", "event", "drop"}, job : Jobs \union {None},
        creating : [Jobs -> Names \union {None}]]

Scan == [pc : {"idle", "vols_listed", "vols_doomed", "srvs_listed", "srvs_doomed"},
         vols : SUBSET Volumes, started : SUBSET Servers, stopped : SUBSET Servers]

TypeOK ==
    /\ dryRun \in BOOLEAN
    /\ jobs \in [Jobs -> Row]
    /\ \A j \in Jobs : jobs[j].status # "absent" => jobs[j].name \in Names
    /\ job_volumes \in [Jobs -> Seq(Volumes)]
    /\ failedEvents \in SUBSET Jobs
    /\ expired \in SUBSET Jobs
    /\ volumes \in [Volumes -> Volume]
    /\ servers \in [Servers -> Server]
    /\ snap \in [Jobs -> Statuses \union {"none"}]
    /\ tick \in Tick
    /\ api \in Api
    /\ scan \in Scan
    /\ faults \in 0 .. MaxFaults
    /\ deletes \in 0 .. MaxDeletes

-----------------------------------------------------------------------------
(***************************************************************************)
(* Initial state: an empty database and no resource of this instance.      *)
(***************************************************************************)

IdleTick == [pc |-> "idle", job |-> None, at |-> "none", target |-> "none",
             res |-> None]
IdleApi == [pc |-> "idle", job |-> None, creating |-> [j \in Jobs |-> None]]
IdleScan == [pc |-> "idle", vols |-> {}, started |-> {}, stopped |-> {}]
NoSnapshot == [j \in Jobs |-> "none"]
NoRow == [status |-> "absent", name |-> None, volume |-> None,
          vm |-> None, ip |-> None, exit |-> None]

Init ==
    /\ dryRun \in BOOLEAN
    /\ jobs = [j \in Jobs |-> NoRow]
    /\ job_volumes = [j \in Jobs |-> << >>]
    /\ failedEvents = {}
    /\ expired = {}
    /\ volumes = [v \in Volumes |-> [state |-> "none", title |-> None, on |-> None]]
    /\ servers = [m \in Servers |-> [state |-> "none", title |-> None,
                                     firewall |-> "none", worker |-> "boot",
                                     owner |-> None]]
    /\ snap = NoSnapshot
    /\ tick = IdleTick
    /\ api = IdleApi
    /\ scan = IdleScan
    /\ faults = 0
    /\ deletes = 0

-----------------------------------------------------------------------------
(***************************************************************************)
(* Reading the database and the cloud.                                     *)
(***************************************************************************)

HasRow(j) == jobs[j].status \in Statuses

\* RUN_FAILED_SQL: a nonzero exit code, or a Failed event.
RunFailed(j) == jobs[j].exit = "nonzero" \/ j \in failedEvents

\* worker_title and volume_title: dashes join the namespace and the name, which
\* may hold dashes themselves.
title(j) == TitleOf[jobs[j].name]

\* Mutant of TitledVolumes: takes any volume of this instance (volume_prefix).
PrefixedVolumes(j) == {v \in Volumes : volumes[v].state = "live"}

\* The volumes and servers a list call finds under the job's title.
TitledVolumes(j) ==
    {v \in Volumes : volumes[v].state = "live" /\ volumes[v].title = title(j)}

TitledServers(j) ==
    {m \in Servers : /\ servers[m].state \notin {"none", "deleted"}
                     /\ servers[m].title = title(j)}

\* The orphan scan's two `tracked` sets.
TrackedVolumes == {v \in Volumes :
    \E j \in Jobs : \E i \in DOMAIN job_volumes[j] : job_volumes[j][i] = v}
TrackedServers == {m \in Servers : \E j \in Jobs : HasRow(j) /\ jobs[j].vm = m}

\* SSH to the recorded address works while that server runs.
Reachable(j) == jobs[j].ip # None /\ servers[jobs[j].ip].state = "started"

-----------------------------------------------------------------------------
(***************************************************************************)
(* Provider calls.  "ok": done and answered; "lost": done (or half done)   *)
(* but the caller sees an error, a timed-out request say.  A call that     *)
(* fails without effect is attempt_fails below.                            *)
(***************************************************************************)

Outcomes == {"ok", "lost"}

\* Spends n units of the fault budget.
Faulty(n) == faults + n <= MaxFaults /\ faults' = faults + n
Cost(o) == IF o = "lost" THEN 1 ELSE 0
ListCost(listed) == IF listed THEN 0 ELSE 1

VolumeCreated(v, j) ==
    [volumes EXCEPT ![v] = [state |-> "live", title |-> title(j), on |-> None]]
VolumeAttached(v, m) == [volumes EXCEPT ![v].on = m]
VolumeDeleted(v) == [volumes EXCEPT ![v].state = "deleted", ![v].on = None]

\* The provider refuses to delete a volume that is attached or gone.
Deletable(v, on) == volumes[v].state = "live" /\ on = None

ServerCreated(m, j) ==
    [servers EXCEPT ![m] = [state |-> "creating", title |-> title(j),
                            firewall |-> "none", worker |-> "boot", owner |-> None]]

\* DELETE /server/{id}?storages=1 takes the attached volumes along.
ServerDeleted(m) ==
    /\ servers' = [servers EXCEPT ![m].state = "deleted"]
    /\ volumes' = [v \in Volumes |->
                     IF volumes[v].on = m
                     THEN [volumes[v] EXCEPT !.state = "deleted", !.on = None]
                     ELSE volumes[v]]

-----------------------------------------------------------------------------
(***************************************************************************)
(* The tick: advance_all_until.                                            *)
(***************************************************************************)

\* SELECT ... FROM jobs WHERE status != 'Archived'; `now` is read right after.
start_tick ==
    /\ tick.pc = "idle"
    /\ tick' = [tick EXCEPT !.pc = "next"]
    /\ snap' = [j \in Jobs |-> IF HasRow(j) /\ jobs[j].status # TERMINAL_STATE
                               THEN jobs[j].status ELSE "none"]
    /\ UNCHANGED <<dryRun, dbVars, cloudVars, api, scan, faults, deletes>>

finish_tick ==
    /\ tick.pc = "next"
    /\ snap = NoSnapshot
    /\ tick' = IdleTick
    /\ UNCHANGED <<dryRun, dbVars, cloudVars, snap, api, scan, faults, deletes>>

\* Leave the tick: an error propagated with `?`, or a shutdown between jobs.
Abort == tick' = IdleTick /\ snap' = NoSnapshot

\* The reads with fetch_one: they fail when the row is gone.
ReadsRow(j, s) ==
    \/ s \in {"FirewallApplying", "FirewallVerified", "VMCreating", "VMTerminating"}
    \/ s \in {"ContainerConfiguring", "ContainerRunning"} /\ ~dryRun
    \/ /\ s \in {"VolumeAttaching", "VolumeDetaching"}
       /\ ~dryRun
       /\ job_volumes[j] # << >>

\* It is j's turn, selected in state s, with the deadline not passed.
Turn(j, s) ==
    /\ tick.pc = "next"
    /\ snap[j] = s
    /\ is_pre_completion_state(s) => j \notin expired

\* ... and its handler finds the row it reads.
Handling(j, s) == Turn(j, s) /\ (ReadsRow(j, s) => HasRow(j))

\* Mutant of Proceed: the job stays in the list and is handled again.
Proceed_again(j, pc, t, r) ==
    /\ tick' = [pc |-> pc, job |-> j, at |-> snap[j], target |-> t, res |-> r]
    /\ UNCHANGED snap

\* The handler's result: stay put, move on to t, or move on to t once r has
\* been written to the database.
Stay(j) == snap' = [snap EXCEPT ![j] = "none"] /\ UNCHANGED tick
Proceed(j, pc, t, r) ==
    /\ snap' = [snap EXCEPT ![j] = "none"]
    /\ tick' = [pc |-> pc, job |-> j, at |-> snap[j], target |-> t, res |-> r]
MoveOn(j, t) == Proceed(j, "update", t, None)
Keep(j, t, r) == Proceed(j, "record", t, r)

\* record_failed_attempt: retry_count and last_error are not modelled, its
\* fetch_one of retry_count is.
FailedAttempt(j) == IF HasRow(j) THEN Stay(j) ELSE Abort

\* The states with a handler, in which it returns at once that there is
\* nothing to do: no volume of a valid size requested, no VM recorded, dry-run.
NothingToDo(j, s) ==
    \/ s = "VolumePending" /\ (dryRun \/ jobs[j].volume # "sized")
    \/ s = "VMPending" /\ dryRun
    \/ /\ s \in {"FirewallApplying", "FirewallVerified", "VMCreating", "VMTerminating"}
       /\ dryRun \/ jobs[j].vm = None
    \/ /\ s = "VolumeAttaching"
       /\ dryRun \/ job_volumes[j] = << >> \/ jobs[j].vm = None
    \/ s = "ContainerConfiguring" /\ dryRun
    \/ s = "ContainerRunning" /\ (dryRun \/ jobs[j].ip = None)
    \/ s = "VolumeDetaching" /\ (dryRun \/ job_volumes[j] = << >>)

\* The unconditional transitions of the match's `_` arm and of the handlers'
\* early returns.
advance(j) ==
    /\ \E s \in Statuses :
          /\ Handling(j, s)
          /\ s \in UnhandledStates \/ NothingToDo(j, s)
          /\ MoveOn(j, next_state(s))
    /\ UNCHANGED <<dryRun, dbVars, cloudVars, api, scan, faults, deletes>>

\* The row was deleted after the SELECT: the handler's own read fails and the
\* error ends the tick for every job.
missing_row(j) ==
    /\ \E s \in Statuses : Turn(j, s) /\ ReadsRow(j, s) /\ ~HasRow(j)
    /\ Abort
    /\ UNCHANGED <<dryRun, dbVars, cloudVars, api, scan, faults, deletes>>

\* A handler whose call fails or whose resource is not ready yet.
attempt_fails(j) ==
    /\ \E s \in Statuses \ UnhandledStates :
          /\ Handling(j, s)
          /\ NothingToDo(j, s) => s \in {"VMPending", "ContainerConfiguring"}
    /\ FailedAttempt(j)
    /\ UNCHANGED <<dryRun, dbVars, cloudVars, api, scan, faults, deletes>>

\* In ContainerRunning, the worker answers but has started no container.
NeverStarted(j) ==
    /\ Handling(j, "ContainerRunning") /\ ~NothingToDo(j, "ContainerRunning")
    /\ Reachable(j)
    /\ servers[jobs[j].ip].worker \in {"boot", "ready"}

\* Past activeDeadlineSeconds (DeadlineExceeded), or too long in one state
\* (StateTimeout); in ContainerRunning, too long without a container
\* (ContainerNeverStarted).  force_failed: UPDATE now, the event next.
force_failed(j) ==
    /\ tick.pc = "next"
    /\ is_pre_completion_state(snap[j])
    /\ \/ j \in expired
       \/ snap[j] # "ContainerRunning"
       \/ NeverStarted(j)
    /\ jobs' = IF HasRow(j) THEN [jobs EXCEPT ![j].status = "Failed"] ELSE jobs
    /\ Proceed(j, "event", "Failed", None)
    /\ UNCHANGED <<dryRun, job_volumes, failedEvents, expired, cloudVars, api, scan,
                   faults, deletes>>

\* VolumePending: reuse a volume with this job's title, else create one.  A
\* failed list falls through to the create.
handle_volume_pending(j, o, listed) ==
    /\ Handling(j, "VolumePending") /\ ~NothingToDo(j, "VolumePending")
    /\ \/ /\ listed /\ o = "ok"
          /\ \E v \in TitledVolumes(j) : Keep(j, next_state("VolumePending"), v)
          /\ UNCHANGED volumes
       \/ /\ listed => TitledVolumes(j) = {}
          /\ \E v \in Volumes :
                /\ volumes[v].state = "none"
                /\ volumes' = VolumeCreated(v, j)
                /\ IF o = "ok" THEN Keep(j, next_state("VolumePending"), v)
                               ELSE FailedAttempt(j)
    /\ Faulty(Cost(o) + ListCost(listed))
    /\ UNCHANGED <<dryRun, dbVars, servers, api, scan, deletes>>

\* Mutant of handle_vm_pending: the dry-run return is missing.
handle_vm_pending_for_real(j, o, listed) ==
    /\ Handling(j, "VMPending")
    /\ listed /\ o = "ok"
    /\ \E m \in Servers : /\ servers[m].state = "none"
                          /\ servers' = ServerCreated(m, j)
                          /\ Keep(j, next_state("VMPending"), m)
    /\ Faulty(0)
    /\ UNCHANGED <<dryRun, dbVars, volumes, api, scan, deletes>>

\* VMPending: the same for the worker VM.
handle_vm_pending(j, o, listed) ==
    /\ Handling(j, "VMPending") /\ ~NothingToDo(j, "VMPending")
    /\ \/ /\ listed /\ o = "ok"
          /\ \E m \in TitledServers(j) : Keep(j, next_state("VMPending"), m)
          /\ UNCHANGED servers
       \/ /\ listed => TitledServers(j) = {}
          /\ \E m \in Servers :
                /\ servers[m].state = "none"
                /\ servers' = ServerCreated(m, j)
                /\ IF o = "ok" THEN Keep(j, next_state("VMPending"), m)
                               ELSE FailedAttempt(j)
    /\ Faulty(Cost(o) + ListCost(listed))
    /\ UNCHANGED <<dryRun, dbVars, volumes, api, scan, deletes>>

\* FirewallApplying: one POST per rule; an error in the middle leaves a prefix.
handle_firewall_applying(j, o) ==
    LET m == jobs[j].vm
    IN  /\ Handling(j, "FirewallApplying") /\ ~NothingToDo(j, "FirewallApplying")
        /\ servers[m].state # "deleted"
        /\ servers' = IF servers[m].firewall \in {"posted", "visible"} THEN servers
                      ELSE [servers EXCEPT ![m].firewall =
                                               IF o = "ok" THEN "posted" ELSE "some"]
        /\ IF o = "ok" THEN MoveOn(j, next_state("FirewallApplying"))
                       ELSE FailedAttempt(j)
        /\ Faulty(Cost(o))
        /\ UNCHANGED <<dryRun, dbVars, volumes, api, scan, deletes>>

\* Mutant of handle_firewall_verified: takes the accept-response at its word.
handle_firewall_unverified(j) ==
    /\ Handling(j, "FirewallVerified") /\ ~NothingToDo(j, "FirewallVerified")
    /\ servers[jobs[j].vm].state # "deleted"
    /\ MoveOn(j, next_state("FirewallVerified"))
    /\ UNCHANGED <<dryRun, dbVars, cloudVars, api, scan, faults, deletes>>

\* FirewallVerified: the outbound and the DNS-reply rules show in the list.
handle_firewall_verified(j) ==
    /\ Handling(j, "FirewallVerified") /\ ~NothingToDo(j, "FirewallVerified")
    /\ servers[jobs[j].vm].firewall = "visible"
    /\ servers[jobs[j].vm].state # "deleted"
    /\ MoveOn(j, next_state("FirewallVerified"))
    /\ UNCHANGED <<dryRun, dbVars, cloudVars, api, scan, faults, deletes>>

\* VMCreating: the server is started; its address may still be missing.
handle_vm_creating(j) ==
    /\ Handling(j, "VMCreating") /\ ~NothingToDo(j, "VMCreating")
    /\ servers[jobs[j].vm].state = "started"
    /\ \/ Keep(j, next_state("VMCreating"), jobs[j].vm)
       \/ MoveOn(j, next_state("VMCreating"))
    /\ UNCHANGED <<dryRun, dbVars, cloudVars, api, scan, faults, deletes>>

\* VolumeAttaching.
handle_volume_attaching(j, o) ==
    LET v == Head(job_volumes[j])
        m == jobs[j].vm
    IN  /\ Handling(j, "VolumeAttaching") /\ ~NothingToDo(j, "VolumeAttaching")
        /\ volumes[v].state = "live" /\ volumes[v].on = None
        /\ servers[m].state # "deleted"
        /\ volumes' = VolumeAttached(v, m)
        /\ IF o = "ok" THEN MoveOn(j, next_state("VolumeAttaching"))
                       ELSE FailedAttempt(j)
        /\ Faulty(Cost(o))
        /\ UNCHANGED <<dryRun, dbVars, servers, api, scan, deletes>>

\* Mutant of handle_container_configuring: goes on without having delivered.
handle_container_configuring_undelivered(j, o) ==
    /\ Handling(j, "ContainerConfiguring") /\ ~NothingToDo(j, "ContainerConfiguring")
    /\ o = "ok"
    /\ MoveOn(j, next_state("ContainerConfiguring"))
    /\ UNCHANGED <<dryRun, dbVars, cloudVars, api, scan, faults, deletes>>

\* ContainerConfiguring: upload the config, "ready" last.  A worker that has
\* already started its container does not read it again.
handle_container_configuring(j, o) ==
    LET m == jobs[j].ip
    IN  /\ Handling(j, "ContainerConfiguring") /\ ~NothingToDo(j, "ContainerConfiguring")
        /\ Reachable(j)
        /\ servers' = IF servers[m].worker \in {"boot", "ready"}
                      THEN [servers EXCEPT ![m].worker = "ready", ![m].owner = j]
                      ELSE servers
        /\ IF o = "ok" THEN MoveOn(j, next_state("ContainerConfiguring"))
                       ELSE FailedAttempt(j)
        /\ Faulty(Cost(o))
        /\ UNCHANGED <<dryRun, dbVars, volumes, api, scan, deletes>>

\* ContainerRunning, with an exit code on the worker: zero is Succeeded,
\* anything else Failed; the code is recorded first.
handle_container_running(j) ==
    LET code == servers[jobs[j].ip].worker
    IN  /\ Handling(j, "ContainerRunning") /\ ~NothingToDo(j, "ContainerRunning")
        /\ Reachable(j)
        /\ code \in ExitCodes
        /\ Keep(j, IF code = "zero" THEN "Succeeded" ELSE "Failed", code)
        /\ UNCHANGED <<dryRun, dbVars, cloudVars, api, scan, faults, deletes>>

\* VolumeDetaching: detach (detached: whether that worked; its error is only
\* logged), then delete.  A lost delete may also have come to nothing.
handle_volume_detaching(j, o, detached) ==
    LET v == Head(job_volumes[j])
        on == IF detached /\ jobs[j].vm # None /\ volumes[v].on = jobs[j].vm
              THEN None ELSE volumes[v].on
    IN  /\ Handling(j, "VolumeDetaching") /\ ~NothingToDo(j, "VolumeDetaching")
        /\ \/ /\ Deletable(v, on)
              /\ volumes' = VolumeDeleted(v)
              /\ IF o = "ok" THEN Keep(j, next_state("VolumeDetaching"), None)
                             ELSE FailedAttempt(j)
           \/ /\ Deletable(v, on) => o = "lost"
              /\ volumes' = VolumeAttached(v, on)
              /\ FailedAttempt(j)
        /\ Faulty(Cost(o))
        /\ UNCHANGED <<dryRun, dbVars, servers, api, scan, deletes>>

\* Mutant of stop_worker: never asks for the stop.
stop_worker_waits(j) ==
    /\ Handling(j, "VMTerminating") /\ ~NothingToDo(j, "VMTerminating")
    /\ servers[jobs[j].vm].state = "started"
    /\ Stay(j)
    /\ UNCHANGED <<dryRun, dbVars, cloudVars, api, scan, faults, deletes>>

\* Mutant of stop_worker: takes the accepted stop for the end of it.
stop_worker_archives(j) ==
    /\ Handling(j, "VMTerminating") /\ ~NothingToDo(j, "VMTerminating")
    /\ servers[jobs[j].vm].state = "started"
    /\ servers' = [servers EXCEPT ![jobs[j].vm].state = "stopping"]
    /\ MoveOn(j, next_state("VMTerminating"))
    /\ UNCHANGED <<dryRun, dbVars, volumes, api, scan, faults, deletes>>

\* VMTerminating: a started server is stopped first, a stopped one deleted.
\* A server that is gone fails the delete with NotFound: attempt_fails.
stop_worker(j) ==
    /\ Handling(j, "VMTerminating") /\ ~NothingToDo(j, "VMTerminating")
    /\ servers[jobs[j].vm].state = "started"
    /\ servers' = [servers EXCEPT ![jobs[j].vm].state = "stopping"]
    /\ Stay(j)
    /\ UNCHANGED <<dryRun, dbVars, volumes, api, scan, faults, deletes>>

delete_worker(j, o) ==
    /\ Handling(j, "VMTerminating") /\ ~NothingToDo(j, "VMTerminating")
    /\ servers[jobs[j].vm].state = "stopped"
    /\ ServerDeleted(jobs[j].vm)
    /\ IF o = "ok" THEN MoveOn(j, next_state("VMTerminating")) ELSE FailedAttempt(j)
    /\ Faulty(Cost(o))
    /\ UNCHANGED <<dryRun, dbVars, api, scan, deletes>>

-----------------------------------------------------------------------------
(***************************************************************************)
(* Writing the result of a turn.  An UPDATE whose row is gone changes      *)
(* nothing; an INSERT succeeds anyway, the schema has no foreign keys.     *)
(***************************************************************************)

Recording(s) == tick.pc = "record" /\ tick.at = s /\ tick' = [tick EXCEPT !.pc = "update"]

SetColumn(row) == jobs' = IF HasRow(tick.job) THEN [jobs EXCEPT ![tick.job] = row] ELSE jobs

insert_job_volume ==
    /\ Recording("VolumePending")
    /\ job_volumes' = [job_volumes EXCEPT ![tick.job] = Append(@, tick.res)]
    /\ UNCHANGED <<dryRun, jobs, failedEvents, expired, cloudVars, snap, api, scan,
                   faults, deletes>>

\* Mutant of set_worker_vm: the id and the title bound in the wrong order.
set_worker_vm_swaps_columns ==
    /\ Recording("VMPending")
    /\ SetColumn([jobs[tick.job] EXCEPT !.vm = jobs[tick.job].name])
    /\ UNCHANGED <<dryRun, job_volumes, failedEvents, expired, cloudVars, snap, api,
                   scan, faults, deletes>>

set_worker_vm ==
    /\ Recording("VMPending")
    /\ SetColumn([jobs[tick.job] EXCEPT !.vm = tick.res])
    /\ UNCHANGED <<dryRun, job_volumes, failedEvents, expired, cloudVars, snap, api,
                   scan, faults, deletes>>

set_worker_ssh_ip ==
    /\ Recording("VMCreating")
    /\ SetColumn([jobs[tick.job] EXCEPT !.ip = tick.res])
    /\ UNCHANGED <<dryRun, job_volumes, failedEvents, expired, cloudVars, snap, api,
                   scan, faults, deletes>>

record_completion ==
    /\ Recording("ContainerRunning")
    /\ SetColumn([jobs[tick.job] EXCEPT !.exit = tick.res])
    /\ UNCHANGED <<dryRun, job_volumes, failedEvents, expired, cloudVars, snap, api,
                   scan, faults, deletes>>

delete_job_volume ==
    /\ Recording("VolumeDetaching")
    /\ job_volumes' = [job_volumes EXCEPT ![tick.job] = << >>]
    /\ UNCHANGED <<dryRun, jobs, failedEvents, expired, cloudVars, snap, api, scan,
                   faults, deletes>>

\* UPDATE jobs SET status = target WHERE id: unconditional.
update_status ==
    /\ tick.pc = "update"
    /\ SetColumn([jobs[tick.job] EXCEPT !.status = tick.target])
    /\ tick' = [tick EXCEPT !.pc = "event"]
    /\ UNCHANGED <<dryRun, job_volumes, failedEvents, expired, cloudVars, snap, api,
                   scan, faults, deletes>>

\* Mutant of record_event: force_failed leaves no trace of the failure.
record_no_event ==
    /\ tick.pc = "event"
    /\ tick' = [IdleTick EXCEPT !.pc = "next"]
    /\ UNCHANGED <<dryRun, dbVars, cloudVars, snap, api, scan, faults, deletes>>

record_event ==
    /\ tick.pc = "event"
    /\ failedEvents' = IF tick.target = "Failed" THEN failedEvents \union {tick.job}
                       ELSE failedEvents
    /\ tick' = [IdleTick EXCEPT !.pc = "next"]
    /\ UNCHANGED <<dryRun, jobs, job_volumes, expired, cloudVars, snap, api, scan,
                   faults, deletes>>

-----------------------------------------------------------------------------
(***************************************************************************)
(* The API.  create_job looks for a row of the same name and, in a second  *)
(* statement, inserts; the schema has no UNIQUE constraint.  The rows the  *)
(* scheduler inserts without looking are among those of requests that      *)
(* looked long ago.  delete_job reads (id, status), then either force-fails*)
(* the job or deletes the row; one such request at a time.                 *)
(***************************************************************************)

\* SELECT 1 FROM jobs WHERE name = ? AND namespace = ?
check_name(j, n) ==
    /\ jobs[j].status = "absent" /\ api.creating[j] = None
    /\ \A k \in Jobs : HasRow(k) => jobs[k].name # n
    /\ api' = [api EXCEPT !.creating[j] = n]
    /\ UNCHANGED <<dryRun, dbVars, cloudVars, tickVars, scan, faults, deletes>>

\* INSERT INTO jobs
create_job(j, w) ==
    /\ jobs[j].status = "absent" /\ api.creating[j] # None
    /\ jobs' = [jobs EXCEPT ![j] = [NoRow EXCEPT !.status = "Created",
                                                 !.name = api.creating[j],
                                                 !.volume = w]]
    /\ api' = [api EXCEPT !.creating[j] = None]
    /\ UNCHANGED <<dryRun, job_volumes, failedEvents, expired, cloudVars, tickVars,
                   scan, faults, deletes>>

\* The request is answered.
Answered == api' = [api EXCEPT !.pc = "idle", !.job = None]

delete_job(j) ==
    /\ api.pc = "idle"
    /\ deletes < MaxDeletes
    /\ HasRow(j)
    /\ deletes' = deletes + 1
    /\ api' = [api EXCEPT !.pc = IF is_pre_completion_state(jobs[j].status)
                                 THEN "force" ELSE "drop",
                          !.job = j]
    /\ UNCHANGED <<dryRun, dbVars, cloudVars, tickVars, scan, faults>>

\* force_failed, called from delete_job: the UPDATE, then the event.
delete_forces ==
    /\ api.pc = "force"
    /\ jobs' = IF HasRow(api.job) THEN [jobs EXCEPT ![api.job].status = "Failed"] ELSE jobs
    /\ api' = [api EXCEPT !.pc = "event"]
    /\ UNCHANGED <<dryRun, job_volumes, failedEvents, expired, cloudVars, tickVars,
                   scan, faults, deletes>>

delete_records_event ==
    /\ api.pc = "event"
    /\ failedEvents' = failedEvents \union {api.job}
    /\ Answered
    /\ UNCHANGED <<dryRun, jobs, job_volumes, expired, cloudVars, tickVars, scan,
                   faults, deletes>>

\* DELETE FROM jobs WHERE id: job_volumes keeps its rows.
delete_drops_row ==
    /\ api.pc = "drop"
    /\ jobs' = IF HasRow(api.job)
               THEN [jobs EXCEPT ![api.job] = [@ EXCEPT !.status = "deleted", !.vm = None,
                                                        !.ip = None, !.exit = None]]
               ELSE jobs
    /\ Answered
    /\ UNCHANGED <<dryRun, job_volumes, failedEvents, expired, cloudVars, tickVars,
                   scan, faults, deletes>>

-----------------------------------------------------------------------------
(***************************************************************************)
(* The orphan scan: list the volumes, read the tracked ids, delete the     *)
(* others one by one; then the same for the servers, a running one being   *)
(* stopped and left for a later scan.  Its decisions about servers use the *)
(* state the list reported.                                                *)
(***************************************************************************)

scan_lists_volumes ==
    /\ ScanEnabled /\ ~dryRun
    /\ scan.pc = "idle"
    /\ scan' = [scan EXCEPT !.pc = "vols_listed",
                            !.vols = {v \in Volumes : volumes[v].state = "live"}]
    /\ UNCHANGED <<dryRun, dbVars, cloudVars, tickVars, api, faults, deletes>>

scan_reads_tracked_volumes ==
    /\ scan.pc = "vols_listed"
    /\ scan' = [scan EXCEPT !.pc = "vols_doomed", !.vols = @ \ TrackedVolumes]
    /\ UNCHANGED <<dryRun, dbVars, cloudVars, tickVars, api, faults, deletes>>

\* An error is logged and the loop goes on.
scan_deletes_volume(v, works) ==
    /\ scan.pc = "vols_doomed"
    /\ v \in scan.vols
    /\ scan' = [scan EXCEPT !.vols = @ \ {v}]
    /\ volumes' = IF works /\ Deletable(v, volumes[v].on) THEN VolumeDeleted(v) ELSE volumes
    /\ UNCHANGED <<dryRun, dbVars, servers, tickVars, api, faults, deletes>>

scan_lists_servers ==
    /\ scan.pc = "vols_doomed"
    /\ scan.vols = {}
    /\ scan' = [scan EXCEPT !.pc = "srvs_listed",
                            !.started = {m \in Servers : servers[m].state = "started"},
                            !.stopped = {m \in Servers : servers[m].state = "stopped"}]
    /\ UNCHANGED <<dryRun, dbVars, cloudVars, tickVars, api, faults, deletes>>

scan_reads_tracked_servers ==
    /\ scan.pc = "srvs_listed"
    /\ scan' = [scan EXCEPT !.pc = "srvs_doomed", !.started = @ \ TrackedServers,
                            !.stopped = @ \ TrackedServers]
    /\ UNCHANGED <<dryRun, dbVars, cloudVars, tickVars, api, faults, deletes>>

\* Mutant of scan_stops_server: passes over a running orphan.
scan_skips_server(m, works) ==
    /\ scan.pc = "srvs_doomed"
    /\ m \in scan.started
    /\ scan' = [scan EXCEPT !.started = @ \ {m}]
    /\ UNCHANGED <<dryRun, dbVars, cloudVars, tickVars, api, faults, deletes>>

scan_stops_server(m, works) ==
    /\ scan.pc = "srvs_doomed"
    /\ m \in scan.started
    /\ scan' = [scan EXCEPT !.started = @ \ {m}]
    /\ servers' = IF works /\ servers[m].state = "started"
                  THEN [servers EXCEPT ![m].state = "stopping"] ELSE servers
    /\ UNCHANGED <<dryRun, dbVars, volumes, tickVars, api, faults, deletes>>

scan_deletes_server(m, works) ==
    /\ scan.pc = "srvs_doomed"
    /\ m \in scan.stopped
    /\ scan' = [scan EXCEPT !.stopped = @ \ {m}]
    /\ IF works /\ servers[m].state = "stopped" THEN ServerDeleted(m) ELSE UNCHANGED cloudVars
    /\ UNCHANGED <<dryRun, dbVars, tickVars, api, faults, deletes>>

finish_scan ==
    /\ scan.pc = "srvs_doomed"
    /\ scan.started = {} /\ scan.stopped = {}
    /\ scan' = IdleScan
    /\ UNCHANGED <<dryRun, dbVars, cloudVars, tickVars, api, faults, deletes>>

-----------------------------------------------------------------------------
(***************************************************************************)
(* Time, the cloud and the worker, faults.                                 *)
(***************************************************************************)

\* activeDeadlineSeconds elapses.  Only the tick reads it, against the `now`
\* of its start, so it is enough to let it happen between ticks.
deadline_passes(j) ==
    /\ tick.pc = "idle"
    /\ HasRow(j) /\ is_pre_completion_state(jobs[j].status)
    /\ j \notin expired
    /\ expired' = expired \union {j}
    /\ UNCHANGED <<dryRun, jobs, job_volumes, failedEvents, cloudVars, tickVars, api,
                   scan, faults, deletes>>

\* create_server and stop_server are asynchronous.
server_settles(m) ==
    /\ servers[m].state \in {"creating", "stopping"}
    /\ servers' = [servers EXCEPT ![m].state = IF @ = "creating" THEN "started" ELSE "stopped"]
    /\ UNCHANGED <<dryRun, dbVars, volumes, tickVars, api, scan, faults, deletes>>

\* Accepted firewall rules take a minute or two to show.
firewall_propagates(m) ==
    /\ servers[m].state \notin {"none", "deleted"} /\ servers[m].firewall = "posted"
    /\ servers' = [servers EXCEPT ![m].firewall = "visible"]
    /\ UNCHANGED <<dryRun, dbVars, volumes, tickVars, api, scan, faults, deletes>>

\* bootstrap/cloud-init-template.sh: wait for "ready", start the container (or
\* refuse to, writing exit code 1), write its exit code.
worker_runs(m) ==
    /\ servers[m].state = "started"
    /\ \/ /\ servers[m].worker = "ready"
          /\ \E w \in {"run", "nonzero"} : servers' = [servers EXCEPT ![m].worker = w]
       \/ /\ servers[m].worker = "run"
          /\ \E w \in ExitCodes : servers' = [servers EXCEPT ![m].worker = w]
    /\ UNCHANGED <<dryRun, dbVars, volumes, tickVars, api, scan, faults, deletes>>

\* A query of the tick fails, or a shutdown is requested between two jobs.
tick_aborts ==
    /\ tick.pc # "idle"
    /\ Abort
    /\ Faulty(1)
    /\ UNCHANGED <<dryRun, dbVars, cloudVars, api, scan, deletes>>

\* A query of the DELETE request fails: the caller gets a 500.
api_aborts ==
    /\ api.pc # "idle"
    /\ Answered
    /\ Faulty(1)
    /\ UNCHANGED <<dryRun, dbVars, cloudVars, tickVars, scan, deletes>>

\* A list or a query of the scan fails: the rest waits for the next scan.
scan_aborts ==
    /\ scan.pc # "idle"
    /\ scan' = IdleScan
    /\ Faulty(1)
    /\ UNCHANGED <<dryRun, dbVars, cloudVars, tickVars, api, deletes>>

\* The process dies and restarts: the database and the cloud stay.  With
\* nothing in flight a restart changes nothing.
crash ==
    /\ tick.pc # "idle" \/ api # IdleApi \/ scan.pc # "idle"
    /\ Abort
    /\ api' = IdleApi
    /\ scan' = IdleScan
    /\ Faulty(1)
    /\ UNCHANGED <<dryRun, dbVars, cloudVars, deletes>>

-----------------------------------------------------------------------------

Handlers(j) ==
    \/ advance(j) \/ missing_row(j) \/ attempt_fails(j) \/ force_failed(j)
    \/ \E o \in Outcomes, listed \in BOOLEAN :
          handle_volume_pending(j, o, listed) \/ handle_vm_pending(j, o, listed)
    \/ \E o \in Outcomes : \/ handle_firewall_applying(j, o)
                           \/ handle_volume_attaching(j, o)
                           \/ handle_container_configuring(j, o)
                           \/ delete_worker(j, o)
    \/ handle_firewall_verified(j) \/ handle_vm_creating(j)
    \/ handle_container_running(j) \/ stop_worker(j)
    \/ \E o \in Outcomes, detached \in BOOLEAN : handle_volume_detaching(j, o, detached)

TickWrites ==
    \/ insert_job_volume \/ set_worker_vm \/ set_worker_ssh_ip \/ record_completion
    \/ delete_job_volume \/ update_status \/ record_event

TickStep == start_tick \/ finish_tick \/ TickWrites \/ \E j \in Jobs : Handlers(j)

ApiStep == delete_forces \/ delete_records_event \/ delete_drops_row

ScanStep ==
    \/ scan_lists_volumes \/ scan_reads_tracked_volumes
    \/ \E v \in Volumes, works \in BOOLEAN : scan_deletes_volume(v, works)
    \/ scan_lists_servers \/ scan_reads_tracked_servers
    \/ \E m \in Servers, works \in BOOLEAN :
          scan_stops_server(m, works) \/ scan_deletes_server(m, works)
    \/ finish_scan

Environment ==
    \/ \E j \in Jobs : deadline_passes(j)
    \/ \E m \in Servers : server_settles(m) \/ firewall_propagates(m) \/ worker_runs(m)

Next ==
    \/ TickStep
    \/ ApiStep
    \/ ScanStep
    \/ Environment
    \/ \E j \in Jobs, n \in Names : check_name(j, n)
    \/ \E j \in Jobs, w \in VolumeRequests : create_job(j, w)
    \/ \E j \in Jobs : delete_job(j)
    \/ tick_aborts \/ api_aborts \/ scan_aborts \/ crash

Spec == Init /\ [][Next]_vars

(***************************************************************************)
(* Fairness.  The processes keep running and time passes.  The provider    *)
(* may refuse any number of calls, but does not refuse the same cleanup    *)
(* call for ever.  Users and workers owe nothing: nobody has to create or  *)
(* delete a job, and a container may never exit.                           *)
(***************************************************************************)
TickFairness ==
    /\ WF_vars(TickStep) /\ WF_vars(ApiStep)
    /\ \A j \in Jobs : /\ SF_vars(deadline_passes(j))
                       /\ SF_vars(handle_volume_detaching(j, "ok", TRUE))
                       /\ SF_vars(stop_worker(j))
                       /\ SF_vars(delete_worker(j, "ok"))
    /\ \A m \in Servers : WF_vars(server_settles(m))

ScanFairness ==
    /\ WF_vars(ScanStep)
    /\ \A v \in Volumes : SF_vars(scan_deletes_volume(v, TRUE))
    /\ \A m \in Servers : /\ WF_vars(server_settles(m))
                          /\ SF_vars(scan_stops_server(m, TRUE))
                          /\ SF_vars(scan_deletes_server(m, TRUE))

FairSpec == Spec /\ TickFairness
FairScanSpec == Spec /\ ScanFairness

-----------------------------------------------------------------------------
(***************************************************************************)
(* Properties.                                                             *)
(***************************************************************************)

\* An archived run has left nothing behind: its job_volumes rows are gone and
\* its worker VM is deleted at the provider.  handle_volume_detaching and
\* handle_vm_terminating must both have done their work, whatever crashes,
\* lost responses and DELETE requests came in between.
CleanupComplete ==
    \A j \in Jobs : jobs[j].status = TERMINAL_STATE =>
        /\ job_volumes[j] = << >>
        /\ jobs[j].vm # None => servers[jobs[j].vm].state = "deleted"

\* No other Job that was ever created has the title of j: neither its name, as
\* after a DELETE or through the gap in create_job's check, nor one that gives
\* the same title.
OnlyTitled(j) ==
    \A k \in Jobs : k # j /\ jobs[k].status # "absent" => title(k) # title(j)

\* From ContainerConfiguring on, "containers run only after firewall rules are
\* verified applied" (docs/IMPLEMENTATION_PLAN.md:596), and with the volume
\* attached that the spec gives a size for, unless another job of the same
\* title may have taken it along: what VMPending .. VolumeAttaching set up still
\* holds when the config is delivered and the container runs.
RunsProvisioned ==
    \A j \in Jobs :
        ~dryRun /\ jobs[j].status \in {"ContainerConfiguring", "ContainerRunning"} =>
        /\ jobs[j].vm # None
        /\ servers[jobs[j].vm].firewall = "visible"
        /\ jobs[j].volume = "sized" => job_volumes[j] # << >>
        /\ jobs[j].volume = "sized" /\ OnlyTitled(j) =>
              volumes[Head(job_volumes[j])].on = jobs[j].vm

\* A run is Succeeded only if its own container ran on its worker and exited
\* with 0.  handle_container_running returns Succeeded without looking when no
\* address is recorded, and handle_vm_creating may not record one, so this
\* rests on handle_container_configuring in between.
EarnedSuccess ==
    \A j \in Jobs : ~dryRun /\ jobs[j].status = "Succeeded" =>
        /\ jobs[j].exit = "zero"
        /\ jobs[j].ip # None
        /\ servers[jobs[j].ip].owner = j

\* Two jobs have a worker VM or a volume in common only if their names give the
\* same title: handle_vm_pending and handle_volume_pending adopt what a list
\* call finds under the job's title, a crash or a lost answer may have left it
\* there, and the tick records it later, in a row that may be gone by then.
\* naming.rs:8-32 tells which names those are: the same name twice, which
\* create_job's check does not exclude, and dashes in different places.
NoSharing ==
    \A j, k \in Jobs : j # k /\ HasRow(j) /\ HasRow(k) /\ title(j) # title(k) =>
        /\ jobs[j].vm # None => jobs[j].vm # jobs[k].vm
        /\ \A i \in DOMAIN job_volumes[j], h \in DOMAIN job_volumes[k] :
              job_volumes[j][i] # job_volumes[k][h]

\* Dry-run creates nothing at the provider, in any state and after any crash.
DryRunTouchesNothing ==
    dryRun => /\ \A v \in Volumes : volumes[v].state = "none"
              /\ \A m \in Servers : servers[m].state = "none"

\* providers/upcloud/servers.rs:211: VolumeDetaching runs before VMTerminating,
\* so when delete_server is called "nothing but the boot disk is left attached
\* for storages=1 to catch".
NothingAttachedAtDelete ==
    [][\A m \in Servers :
          servers[m].state # "deleted" /\ servers'[m].state = "deleted" =>
          \A v \in Volumes : volumes[v].on # m]_vars

\* Once a run is over its outcome stands: the Pod phase (and with it the Job's
\* Complete or Failed condition) never changes from Succeeded or Failed to
\* anything else while the row exists, all through the cleanup states.
Outcome(j) == phase_for(jobs[j].status, RunFailed(j))
OutcomeStands ==
    [][\A j \in Jobs :
          HasRow(j) /\ HasRow(j)' /\ Outcome(j) \in {"Succeeded", "Failed"} =>
          Outcome(j)' = Outcome(j)]_vars

\* Every job admitted is eventually archived (or its row deleted): the deadline
\* and force_failed bound every state before completion, and each step of the
\* cleanup is retried until it works.
EventuallyArchived ==
    \A j \in Jobs : HasRow(j) ~> jobs[j].status \in {TERMINAL_STATE, "deleted"}

\* No volume or worker VM stays untracked for ever: a job adopts it
\* (handle_volume_pending, handle_vm_pending) or the orphan scan deletes it.
OrphansReclaimed ==
    /\ \A v \in Volumes : volumes[v].state = "live" /\ v \notin TrackedVolumes
                          ~> volumes[v].state = "deleted" \/ v \in TrackedVolumes
    /\ \A m \in Servers :
          servers[m].state \in {"creating", "started", "stopping", "stopped"}
            /\ m \notin TrackedServers
          ~> servers[m].state = "deleted" \/ m \in TrackedServers

-----------------------------------------------------------------------------
(***************************************************************************)
(* The inductive invariant behind TypeOK, CleanupComplete and              *)
(* DryRunTouchesNothing (proved in ReconcilerProofs).                      *)
(***************************************************************************)

\* What is in flight carries what its next write needs.
InFlightOK ==
    /\ api.pc # "idle" => api.job \in Jobs
    /\ tick.pc \in {"record", "update", "event"} =>
          tick.job \in Jobs /\ tick.target \in Statuses
    /\ tick.pc = "record" =>
          \/ tick.at = "VolumePending" /\ tick.res \in Volumes
          \/ tick.at \in {"VMPending", "VMCreating"} /\ tick.res \in Servers
          \/ tick.at = "ContainerRunning" /\ tick.res \in ExitCodes
          \/ tick.at = "VolumeDetaching"

\* The tick works from a snapshot but writes without looking.  That is sound
\* because no one else moves a job along meanwhile: a job not handled yet, and
\* the job at hand until its UPDATE, is still in the state selected, or a
\* DELETE request has failed it or removed its row.
SnapshotCoherent ==
    /\ \A j \in Jobs : snap[j] # "none" =>
          /\ snap[j] # TERMINAL_STATE
          /\ jobs[j].status \in {snap[j], "Failed", "deleted"}
    /\ tick.pc \in {"record", "update"} =>
          /\ snap[tick.job] = "none"
          /\ jobs[tick.job].status \in {tick.at, "Failed", "deleted"}
          /\ tick.at # TERMINAL_STATE

\* The states that follow the deletion of the volume.
VolumeGone == {"VolumeDeleted", "VMTerminating", "Archived"}

\* A job in one of them, or about to enter one, has no job_volumes row; one
\* about to be archived has no server.
CleanupProgress ==
    /\ \A j \in Jobs : jobs[j].status \in VolumeGone \/ snap[j] \in VolumeGone
                       => job_volumes[j] = << >>
    /\ tick.pc = "record" => /\ tick.at \notin VolumeGone
                             /\ tick.target \in VolumeGone =>
                                   tick.at = "VolumeDetaching" /\ tick.target = "VolumeDeleted"
    /\ tick.pc = "update" /\ tick.target \in VolumeGone => job_volumes[tick.job] = << >>
    /\ tick.pc = "update" /\ tick.target = TERMINAL_STATE /\ jobs[tick.job].vm # None
          => servers[jobs[tick.job].vm].state = "deleted"

\* In dry-run mode no handler has anything to record.
DryRunRecordsNothing ==
    dryRun => /\ \A j \in Jobs : job_volumes[j] = << >> /\ jobs[j].vm = None
              /\ tick.pc # "record"

\* All of it together.
IndInv ==
    /\ TypeOK
    /\ InFlightOK
    /\ SnapshotCoherent
    /\ CleanupProgress
    /\ CleanupComplete
    /\ DryRunRecordsNothing
    /\ DryRunTouchesNothing

=============================================================================
