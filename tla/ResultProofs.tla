---------------------------- MODULE ResultProofs ----------------------------
(***************************************************************************)
(* Proofs about the result of a run, for every set of jobs, names, volumes *)
(* and servers, any faults and DELETE requests, with the orphan scan: that *)
(* a Succeeded run ran, and that its logs and metrics come from its own    *)
(* worker.                                                                 *)
(*                                                                         *)
(* A worker is found by its title, which is built from the job's name.  A  *)
(* job created under the name of one whose row was deleted, or under one   *)
(* that gives the same title, can therefore adopt that job's worker with   *)
(* the container on it (run recreated).  What is said about whose          *)
(* container ran is said of a job that alone has its title.                *)
(***************************************************************************)
EXTENDS OwnershipProofs

-----------------------------------------------------------------------------
(***************************************************************************)
(* The invariant.                                                          *)
(***************************************************************************)

\* No two jobs have the same title, not even after a row was deleted.
TitlesUsedOnce == \A j \in Jobs : jobs[j].status # "absent" => OnlyTitled(j)

\* A config is delivered to a worker of the job's own title, and the worker
\* script waits for one.
OwnerTitled ==
    \A m \in Servers :
        /\ servers[m].owner # None =>
              /\ ServerTitled(m, servers[m].owner)
              /\ jobs[servers[m].owner].status # "absent"
        /\ servers[m].worker # "boot" => servers[m].owner # None

\* From ContainerRunning on the job has an address, the worker there has the
\* container of this job or of another with its title, and Succeeded is entered
\* with exit code 0 only.
Delivered == {"ContainerRunning", "Succeeded"}
Configured(j) ==
    ~dryRun /\ HasRow(j) =>
        /\ Seen(j, Delivered) =>
              jobs[j].ip # None /\ (OnlyTitled(j) => servers[jobs[j].ip].owner = j)
        /\ Seen(j, {"Succeeded"}) => jobs[j].exit = "zero"

ResultInv == OwnerTitled /\ \A j \in Jobs : Configured(j)

-----------------------------------------------------------------------------
(***************************************************************************)
(* The kinds of steps.                                                     *)
(***************************************************************************)

\* No config is delivered, no worker script starts by itself.
ServersKept ==
    \A m \in Servers :
        /\ servers'[m].owner = servers[m].owner
        /\ servers'[m].worker # "boot" => servers[m].worker # "boot"
        /\ servers[m].state # "none" =>
              servers'[m].state # "none" /\ servers'[m].title = servers[m].title

\* No row appears and names stay.
RowsStay ==
    \A j \in Jobs : /\ jobs'[j].name = jobs[j].name
                    /\ HasRow(j)' => HasRow(j)
                    /\ jobs'[j].status = "absent" => jobs[j].status = "absent"

\* A job that alone has its title then did so before.
LEMMA TitlesStaySole ==
    ASSUME RowsStay, NEW j \in Jobs, OnlyTitled(j)'
    PROVE  OnlyTitled(j)
  BY DEF RowsStay, OnlyTitled, title

\* The job comes no nearer to a result.
NoResult(j) ==
    HasRow(j)' => /\ jobs'[j].ip = jobs[j].ip /\ jobs'[j].exit = jobs[j].exit
                  /\ Seen(j, Delivered)' => Seen(j, Delivered)
                  /\ Seen(j, {"Succeeded"})' => Seen(j, {"Succeeded"})

\* Such steps preserve the parts of the invariant.
LEMMA ConfiguredKept ==
    ASSUME IndInv, ResultInv, UNCHANGED dryRun, ServersKept, RowsStay,
           NEW j \in Jobs, NoResult(j)
    PROVE  Configured(j)'
<1> SUFFICES ASSUME ~dryRun, HasRow(j)' PROVE Configured(j)'
  BY DEF Configured
<1>1. HasRow(j) /\ Configured(j)
  BY DEF RowsStay, ResultInv
<1> QED
  BY <1>1, RecordedServer, TitlesStaySole DEF Configured, NoResult, ServersKept

LEMMA OwnersKept ==
    ASSUME IndInv, ResultInv, ServersKept, RowsStay
    PROVE  OwnerTitled'
<1>1. ASSUME NEW m \in Servers
      PROVE  /\ servers'[m].owner # None => /\ ServerTitled(m, servers[m].owner)'
                                            /\ jobs'[servers[m].owner].status # "absent"
             /\ servers'[m].worker # "boot" => servers'[m].owner # None
  <2>1. servers[m].owner \in Jobs \union {None}
    BY DEF IndInv, TypeOK, Server
  <2> QED
    BY <2>1 DEF ResultInv, OwnerTitled, ServerTitled, ServersKept, RowsStay, title
<1> QED
  BY <1>1 DEF OwnerTitled, ServerTitled, ServersKept

LEMMA ResultKept ==
    ASSUME IndInv, ResultInv, UNCHANGED dryRun, ServersKept, RowsStay,
           \A j \in Jobs : NoResult(j)
    PROVE  ResultInv'
  BY ConfiguredKept, OwnersKept DEF ResultInv

\* Where the servers are left alone, or one of them changes otherwise.
LEMMA ServersUntouched ==
    ASSUME UNCHANGED servers
    PROVE  ServersKept
  BY DEF ServersKept
LEMMA ServerMoved ==
    ASSUME IndInv, NEW m \in Servers, NEW r, servers' = [servers EXCEPT ![m] = r],
           r.owner = servers[m].owner, r.title = servers[m].title, r.state # "none",
           r.worker # "boot" => servers[m].worker # "boot"
    PROVE  ServersKept
<1>1. \A n \in Servers : servers'[n] = IF n = m THEN r ELSE servers[n]
  BY DEF IndInv, TypeOK
<1> QED
  BY <1>1 DEF ServersKept

\* Rows that keep their columns, and a tick that goes no further.
LEMMA NoneNearer ==
    ASSUME IndInv, UNCHANGED jobs, NEW j \in Jobs,
           snap'[j] \in {snap[j], "none", jobs[j].status},
           tick' = tick \/ tick'.pc \notin {"record", "update"}
    PROVE  RowsStay /\ NoResult(j)
<1>1. RowsStay
  BY DEF RowsStay, HasRow
<1>2. ASSUME NEW S \in {Delivered, {"Succeeded"}}, Seen(j, S)' PROVE Seen(j, S)
  <2>1. "none" \notin S
    BY DEF Delivered
  <2> QED
    BY <1>2, <2>1 DEF Seen, InTurn, Entering
<1> QED
  BY <1>1, <1>2 DEF NoResult

\* A turn that does not enter a state of Delivered.
LEMMA TurnNoResult ==
    ASSUME IndInv, NEW j \in Jobs, tick.pc = "next", UNCHANGED jobs,
           \/ Stay(j) \/ Abort
           \/ \E t \in Statuses \ Delivered : MoveOn(j, t)
           \/ \E t \in Statuses : \E r : Keep(j, t, r)
    PROVE  RowsStay /\ \A k \in Jobs : NoResult(k)
<1>0. snap \in [Jobs -> Statuses \union {"none"}]
  BY DEF IndInv, TypeOK
<1>1. RowsStay
  BY DEF RowsStay, HasRow
<1>2. ASSUME NEW k \in Jobs, NEW S \in {Delivered, {"Succeeded"}}, Seen(k, S)' PROVE Seen(k, S)
  <2>1. "none" \notin S /\ \A t : t \in S => t \in Delivered
    BY DEF Delivered
  <2>2. snap'[k] \in {snap[k], "none"}
    BY <1>0 DEF Stay, Abort, MoveOn, Keep, Proceed, NoSnapshot
  <2>3. tick'.pc \in {"record", "update"} =>
           /\ tick'.job = j /\ tick'.at = snap[j]
           /\ tick'.pc = "update" => tick'.target \notin S
    BY <2>1 DEF Stay, Abort, MoveOn, Keep, Proceed, IdleTick
  <2> QED
    BY <1>2, <2>1, <2>2, <2>3 DEF Seen, InTurn, Entering
<1> QED
  BY <1>1, <1>2 DEF NoResult

-----------------------------------------------------------------------------
(***************************************************************************)
(* The steps.                                                              *)
(***************************************************************************)

\* The tick starts, ends, is cut short or records an event; requests and the
\* scan's reads; deadlines.
LEMMA QuietResult ==
    ASSUME IndInv, IndInv', OwnInv, ResultInv,
           \/ start_tick \/ finish_tick \/ tick_aborts \/ crash \/ record_event
           \/ delete_records_event \/ api_aborts \/ scan_aborts
           \/ \E j \in Jobs : delete_job(j) \/ deadline_passes(j)
           \/ \E j \in Jobs, n \in Names : check_name(j, n)
           \/ scan_lists_volumes \/ scan_reads_tracked_volumes \/ scan_lists_servers
           \/ scan_reads_tracked_servers \/ finish_scan
           \/ \E v \in Volumes, works \in BOOLEAN : scan_deletes_volume(v, works)
    PROVE  ResultInv'
<1> USE DEF start_tick, finish_tick, tick_aborts, crash, record_event, delete_records_event,
            api_aborts, scan_aborts, delete_job, deadline_passes, check_name,
            scan_lists_volumes, scan_reads_tracked_volumes, scan_lists_servers,
            scan_reads_tracked_servers, finish_scan, scan_deletes_volume
<1>1. UNCHANGED <<dryRun, jobs, servers>>
  BY DEF dbVars, cloudVars
<1> HIDE DEF start_tick, finish_tick, tick_aborts, crash, record_event, delete_records_event,
             api_aborts, scan_aborts, delete_job, deadline_passes, check_name,
             scan_lists_volumes, scan_reads_tracked_volumes, scan_lists_servers,
             scan_reads_tracked_servers, finish_scan, scan_deletes_volume
<1>2. ASSUME ~(start_tick \/ finish_tick \/ tick_aborts \/ crash \/ record_event)
      PROVE  UNCHANGED tickVars
  <2>1. ASSUME NEW j \in Jobs, delete_job(j) \/ deadline_passes(j)
        PROVE  UNCHANGED tickVars
    BY <2>1, RequestKeepsTick DEF deadline_passes
  <2>2. CASE \/ delete_records_event \/ api_aborts \/ scan_aborts
             \/ \E j \in Jobs, n \in Names : check_name(j, n)
    BY <2>2 DEF delete_records_event, api_aborts, scan_aborts, check_name
  <2>3. CASE \/ scan_lists_volumes \/ scan_reads_tracked_volumes \/ scan_lists_servers
             \/ scan_reads_tracked_servers \/ finish_scan
             \/ \E v \in Volumes, works \in BOOLEAN : scan_deletes_volume(v, works)
    BY <2>3 DEF scan_lists_volumes, scan_reads_tracked_volumes, scan_lists_servers,
                scan_reads_tracked_servers, finish_scan, scan_deletes_volume
  <2> QED
    BY <1>2, <2>1, <2>2, <2>3
<1>3. /\ tick' = tick \/ tick'.pc \notin {"record", "update"}
      /\ \A j \in Jobs : snap'[j] \in {snap[j], "none", jobs[j].status}
  <2>1. CASE start_tick
    BY <2>1 DEF start_tick, IndInv, TypeOK, Tick
  <2>2. CASE finish_tick \/ tick_aborts \/ crash \/ record_event
    BY <2>2 DEF finish_tick, tick_aborts, crash, record_event, Abort, IdleTick, NoSnapshot
  <2> QED
    BY <1>2, <2>1, <2>2 DEF tickVars
<1>4. ServersKept /\ RowsStay /\ \A j \in Jobs : NoResult(j)
  BY <1>1, <1>3, NoneNearer, ServersUntouched DEF RowsStay, HasRow
<1> QED
  BY <1>1, <1>4, ResultKept

\* The writes of jobs.status.
LEMMA StatusResult ==
    ASSUME IndInv, IndInv', OwnInv, ResultInv,
           \/ update_status \/ delete_forces \/ delete_drops_row
           \/ \E j \in Jobs : force_failed(j)
    PROVE  ResultInv'
<1>0. jobs \in [Jobs -> Row] /\ "deleted" \notin Statuses /\ "absent" \notin Statuses
  BY StatusSet DEF IndInv, TypeOK
<1>1. UNCHANGED <<dryRun, servers>>
  BY DEF update_status, delete_forces, delete_drops_row, force_failed, cloudVars
<1>2. /\ tick' = tick \/ tick'.pc \notin {"record", "update"}
      /\ \A j \in Jobs : snap'[j] \in {snap[j], "none"}
  BY DEF update_status, delete_forces, delete_drops_row, force_failed, tickVars, Proceed,
         IndInv, TypeOK, Tick
<1>3. ASSUME NEW j \in Jobs
      PROVE  \/ jobs'[j] = jobs[j]
             \/ jobs'[j].status = "deleted" /\ jobs'[j].name = jobs[j].name
             \/ /\ HasRow(j) /\ jobs'[j].name = jobs[j].name
                /\ jobs'[j].ip = jobs[j].ip /\ jobs'[j].exit = jobs[j].exit
                /\ \/ jobs'[j].status = "Failed"
                   \/ /\ tick.pc = "update" /\ tick.job = j /\ tick.target \in Statuses
                      /\ jobs'[j].status = tick.target
  <2>1. jobs[j] \in Row
    BY <1>0
  <2>2. CASE update_status
    BY <1>0, <2>1, <2>2 DEF update_status, SetColumn, Row, IndInv, InFlightOK
  <2>3. CASE delete_forces
    BY <1>0, <2>1, <2>3 DEF delete_forces, Row
  <2>4. CASE delete_drops_row
    BY <1>0, <2>1, <2>4 DEF delete_drops_row, Row
  <2>5. CASE \E i \in Jobs : force_failed(i)
    BY <1>0, <2>1, <2>5 DEF force_failed, Row
  <2> QED
    BY <2>2, <2>3, <2>4, <2>5
<1>4. RowsStay
  BY <1>0, <1>3 DEF RowsStay, HasRow
<1>5. ASSUME NEW j \in Jobs PROVE NoResult(j)
  <2>1. ASSUME NEW S \in {Delivered, {"Succeeded"}}, Seen(j, S)', HasRow(j)' PROVE Seen(j, S)
    <3>1. "none" \notin S /\ "Failed" \notin S
      BY DEF Delivered
    <3> QED
      BY <1>0, <1>2, <1>3, <2>1, <3>1 DEF Seen, InTurn, Entering, HasRow
  <2> QED
    BY <1>0, <1>3, <2>1 DEF NoResult, HasRow
<1> QED
  BY <1>1, <1>4, <1>5, ServersUntouched, ResultKept

\* create_job: nothing is known of the new job but its name.
LEMMA CreateResult ==
    ASSUME IndInv, IndInv', OwnInv, ResultInv, NEW j \in Jobs,
           NEW w \in VolumeRequests, create_job(j, w)
    PROVE  ResultInv'
<1> DEFINE r == [NoRow EXCEPT !.status = "Created", !.name = api.creating[j], !.volume = w]
<1>1. /\ jobs' = [jobs EXCEPT ![j] = r] /\ jobs[j].status = "absent"
      /\ UNCHANGED <<dryRun, servers, snap, tick>>
  BY DEF create_job, cloudVars, tickVars
<1>2. r.status = "Created"
  BY DEF NoRow
<1> HIDE DEF r
<1>3. /\ jobs'[j] = r
      /\ \A i \in Jobs : i # j => jobs'[i] = jobs[i]
  BY <1>1 DEF IndInv, TypeOK
<1>4. ASSUME NEW k \in Jobs, k # j, OnlyTitled(k)' PROVE OnlyTitled(k)
  BY <1>1, <1>3, <1>4 DEF OnlyTitled, title
<1>5. OwnerTitled'
  <2>1. ASSUME NEW m \in Servers, servers[m].owner # None
        PROVE  servers[m].owner \in Jobs /\ servers[m].owner # j
    BY <1>1, <2>1 DEF ResultInv, OwnerTitled, IndInv, TypeOK, Server
  <2> QED
    BY <1>1, <1>3, <2>1 DEF ResultInv, OwnerTitled, ServerTitled, title
<1>6. ASSUME NEW k \in Jobs PROVE Configured(k)'
  <2>1. CASE k # j
    BY <1>1, <1>3, <1>4, <2>1 DEF ResultInv, Configured, HasRow, Seen, InTurn, Entering
  <2>2. CASE k = j
    <3>1. snap[j] = "none" /\ (tick.pc \in {"record", "update"} => tick.job # j)
      <4>1. snap[j] \in Statuses \union {"none"} /\ tick.at \in Statuses \union {"none"}
        BY DEF IndInv, TypeOK, Tick
      <4> QED
        BY <1>1, <4>1, StatusSet DEF IndInv, SnapshotCoherent
    <3>2. ~Seen(j, Delivered)' /\ ~Seen(j, {"Succeeded"})'
      BY <1>1, <1>2, <1>3, <3>1 DEF Seen, InTurn, Entering, Delivered
    <3> QED
      BY <2>2, <3>2 DEF Configured
  <2> QED
    BY <2>1, <2>2
<1> QED
  BY <1>5, <1>6 DEF ResultInv


\* The writes of what a handler returned: only the exit code brings a job nearer
\* to its result, and an address is not written once there is one.
LEMMA RecordResult ==
    ASSUME IndInv, IndInv', OwnInv, ResultInv,
           \/ insert_job_volume \/ set_worker_vm \/ set_worker_ssh_ip \/ record_completion
           \/ delete_job_volume
    PROVE  ResultInv'
<1> USE DEF insert_job_volume, set_worker_vm, set_worker_ssh_ip, record_completion,
            delete_job_volume
<1>0. PICK k \in Jobs : k = tick.job
  BY DEF Recording, IndInv, InFlightOK
<1>1. /\ UNCHANGED <<dryRun, servers, snap>> /\ tick.pc = "record"
      /\ tick' = [tick EXCEPT !.pc = "update"]
  BY DEF cloudVars, Recording
<1>2. /\ tick'.pc = "update" /\ tick'.job = k /\ tick'.at = tick.at
      /\ tick'.target = tick.target
  BY <1>0, <1>1 DEF IndInv, TypeOK, Tick
<1>3. /\ \A j \in Jobs : j # k => jobs'[j] = jobs[j]
      /\ jobs'[k].name = jobs[k].name /\ jobs'[k].status = jobs[k].status
      /\ ~record_completion => jobs'[k].exit = jobs[k].exit
      /\ ~set_worker_ssh_ip => jobs'[k].ip = jobs[k].ip
      /\ record_completion /\ HasRow(k) => jobs'[k].exit = tick.res
  <2>0. jobs \in [Jobs -> Row] /\ jobs[k] \in Row
    BY DEF IndInv, TypeOK
  <2>1. CASE insert_job_volume \/ delete_job_volume
    BY <2>1 DEF Recording
  <2>2. CASE set_worker_vm
    BY <1>0, <2>0, <2>2 DEF SetColumn, Recording, Row
  <2>3. CASE set_worker_ssh_ip
    BY <1>0, <2>0, <2>3 DEF SetColumn, Recording, Row
  <2>4. CASE record_completion
    BY <1>0, <2>0, <2>4 DEF SetColumn, Recording, Row
  <2> QED
    BY <2>1, <2>2, <2>3, <2>4
<1>4. snap[k] = "none" /\ jobs[k].status \in {tick.at, "Failed", "deleted"}
  BY <1>0, <1>1 DEF IndInv, SnapshotCoherent
<1>5. ServersKept /\ RowsStay
  BY <1>1, <1>3, ServersUntouched DEF RowsStay, HasRow
<1>6. ASSUME NEW j \in Jobs, j # k PROVE Configured(j)'
  <2>1. ASSUME NEW S, Seen(j, S)' PROVE Seen(j, S)
    BY <1>0, <1>1, <1>2, <1>3, <1>6, <2>1 DEF Seen, InTurn, Entering
  <2>2. NoResult(j)
    BY <1>3, <1>6, <2>1 DEF NoResult
  <2> QED
    BY <1>1, <1>5, <2>2, ConfiguredKept
<1>7. ASSUME HasRow(k)', ~dryRun PROVE Configured(k)'
  <2>1. HasRow(k) /\ FoundTitled(k) /\ Configured(k)
    BY <1>5, <1>7 DEF RowsStay, OwnInv, JobOwn, ResultInv
  <2>2. CASE record_completion
    <3>1. tick.at = "ContainerRunning"
      BY <2>2 DEF Recording
    <3>2. /\ Seen(k, Delivered)
          /\ tick.target = IF tick.res = "zero" THEN "Succeeded" ELSE "Failed"
      BY <1>0, <1>1, <2>1, <3>1 DEF Seen, InTurn, Delivered, FoundTitled
    <3>3. Seen(k, {"Succeeded"})' => tick.res = "zero"
      BY <1>1, <1>2, <1>3, <1>4, <3>1, <3>2 DEF Seen, InTurn, Entering
    <3>4. jobs'[k].ip = jobs[k].ip
      BY <1>3, <3>1 DEF Recording
    <3>5. OnlyTitled(k)' => OnlyTitled(k)
      BY <1>5, TitlesStaySole
    <3> QED
      BY <1>1, <1>3, <1>7, <2>1, <2>2, <3>2, <3>3, <3>4, <3>5 DEF Configured
  <2>3. CASE ~record_completion
    <3>1. tick.at \notin Delivered /\ tick.target \notin Delivered
      BY <1>0, <1>1, <2>1, <2>3 DEF Recording, Delivered, FoundTitled
    <3>2. ~Seen(k, Delivered)' /\ ~Seen(k, {"Succeeded"})'
      BY <1>1, <1>2, <1>3, <1>4, <3>1 DEF Seen, InTurn, Entering, Delivered
    <3> QED
      BY <3>2 DEF Configured
  <2> QED
    BY <2>2, <2>3
<1>8. Configured(k)'
  BY <1>1, <1>7 DEF Configured
<1> QED
  BY <1>5, <1>6, <1>8, OwnersKept DEF ResultInv

\* The transitions that need no work.  ContainerRunning needs none without an
\* address, but there is one.
LEMMA AdvanceResult ==
    ASSUME IndInv, IndInv', OwnInv, ResultInv, NEW j \in Jobs,
           advance(j) \/ missing_row(j) \/ attempt_fails(j)
    PROVE  ResultInv'
<1>1. tick.pc = "next" /\ UNCHANGED <<dryRun, jobs, servers>>
  BY Selected DEF advance, missing_row, attempt_fails, Handling, dbVars, cloudVars
<1>2. CASE dryRun
  <2>1. ServersKept /\ RowsStay /\ \A k \in Jobs : Configured(k)'
    BY <1>1, <1>2, ServersUntouched DEF RowsStay, HasRow, Configured
  <2> QED
    BY <2>1, OwnersKept DEF ResultInv
<1>3. CASE ~dryRun
  <2>1. \/ Stay(j) \/ Abort
        \/ \E t \in Statuses \ Delivered : MoveOn(j, t)
    <3>1. CASE advance(j)
      <4>1. PICK s \in Statuses : /\ Handling(j, s)
                                  /\ s \in UnhandledStates \/ NothingToDo(j, s)
                                  /\ MoveOn(j, next_state(s))
        BY <3>1 DEF advance
      <4>2. snap[j] = s /\ s # "Archived"
        BY <4>1, Selected DEF Handling, IndInv, SnapshotCoherent, TERMINAL_STATE
      <4>3. s # "ContainerConfiguring"
        BY <1>3, <4>1 DEF UnhandledStates, NothingToDo
      <4>4. s # "ContainerRunning"
        <5> SUFFICES ASSUME s = "ContainerRunning" PROVE FALSE
          OBVIOUS
        <5>1. HasRow(j) /\ jobs[j].ip = None
          BY <1>3, <4>1 DEF Handling, ReadsRow, UnhandledStates, NothingToDo
        <5>2. Seen(j, Delivered)
          BY <4>2 DEF Seen, Delivered
        <5> QED
          BY <1>3, <5>1, <5>2 DEF ResultInv, Configured
      <4>5. next_state(s) \in Statuses \ Delivered
        BY <4>2, <4>3, <4>4, StatusSet, Successors, SMTT(30) DEF Delivered
      <4> QED
        BY <4>1, <4>5
    <3> QED
      BY <3>1 DEF missing_row, attempt_fails, FailedAttempt
  <2>2. RowsStay /\ \A k \in Jobs : NoResult(k)
    BY <1>1, <2>1, TurnNoResult
  <2> QED
    BY <1>1, <2>2, ServersUntouched, ResultKept
<1> QED
  BY <1>2, <1>3

\* The handlers that leave the servers alone.
LEMMA HandlerResult ==
    ASSUME IndInv, IndInv', OwnInv, ResultInv, NEW j \in Jobs,
           \/ \E o \in Outcomes, listed \in BOOLEAN : handle_volume_pending(j, o, listed)
           \/ handle_firewall_verified(j) \/ handle_vm_creating(j)
           \/ \E o \in Outcomes : handle_volume_attaching(j, o)
           \/ handle_container_running(j)
           \/ \E o \in Outcomes, detached \in BOOLEAN : handle_volume_detaching(j, o, detached)
    PROVE  ResultInv'
<1> USE DEF handle_volume_pending, handle_firewall_verified, handle_vm_creating,
            handle_volume_attaching, handle_container_running, handle_volume_detaching
<1>1. tick.pc = "next" /\ UNCHANGED <<dryRun, jobs, servers>>
  BY DEF Handling, Turn, dbVars, cloudVars
<1>2. \/ Stay(j) \/ Abort
      \/ \E t \in Statuses \ Delivered : MoveOn(j, t)
      \/ \E t \in Statuses : \E r : Keep(j, t, r)
  <2>1. "Succeeded" \in Statuses /\ "Failed" \in Statuses
    BY StatusSet
  <2>2. /\ {next_state("FirewallVerified"), next_state("VMCreating"),
            next_state("VolumeAttaching")} \subseteq Statuses \ Delivered
        /\ {next_state("VolumePending"), next_state("VMCreating"),
            next_state("VolumeDetaching")} \subseteq Statuses
    BY StatusSet, Successors DEF Delivered
  <2> QED
    BY <2>1, <2>2 DEF FailedAttempt
<1>3. RowsStay /\ \A k \in Jobs : NoResult(k)
  BY <1>1, <1>2, TurnNoResult
<1> QED
  BY <1>1, <1>3, ServersUntouched, ResultKept


\* VMPending: a new worker waits for a config.
LEMMA VMPendingResult ==
    ASSUME IndInv, IndInv', OwnInv, ResultInv, NEW j \in Jobs, NEW o \in Outcomes,
           NEW listed \in BOOLEAN, handle_vm_pending(j, o, listed)
    PROVE  ResultInv'
<1>1. tick.pc = "next" /\ UNCHANGED <<dryRun, jobs>>
  BY DEF handle_vm_pending, Handling, Turn, dbVars
<1>2. ServersKept
  <2>1. CASE UNCHANGED servers
    BY <2>1, ServersUntouched
  <2>2. ASSUME NEW m \in Servers, servers[m].state = "none", servers' = ServerCreated(m, j)
        PROVE  ServersKept
    <3>1. servers[m].owner = None
      BY <2>2 DEF ResultInv, OwnerTitled, ServerTitled
    <3>2. /\ \A n \in Servers : n # m => servers'[n] = servers[n]
          /\ servers'[m].owner = None /\ servers'[m].worker = "boot"
      BY <2>2 DEF ServerCreated, IndInv, TypeOK
    <3> QED
      BY <2>2, <3>1, <3>2 DEF ServersKept
  <2> QED
    BY <2>1, <2>2 DEF handle_vm_pending
<1>3. Stay(j) \/ Abort \/ \E t \in Statuses : \E r : Keep(j, t, r)
  BY Successors, StatusSet DEF handle_vm_pending, FailedAttempt
<1>4. RowsStay /\ \A k \in Jobs : NoResult(k)
  BY <1>1, <1>3, TurnNoResult
<1> QED
  BY <1>1, <1>2, <1>4, ResultKept

\* FirewallApplying and VMTerminating leave the worker's config alone.
LEMMA WorkerTurnResult ==
    ASSUME IndInv, IndInv', OwnInv, ResultInv, NEW j \in Jobs,
           \/ \E o \in Outcomes : handle_firewall_applying(j, o) \/ delete_worker(j, o)
           \/ stop_worker(j)
    PROVE  ResultInv'
<1> DEFINE m == jobs[j].vm
<1>1. tick.pc = "next" /\ UNCHANGED <<dryRun, jobs>>
  BY DEF handle_firewall_applying, delete_worker, stop_worker, Handling, Turn, dbVars
<1>2. /\ m \in Servers /\ servers \in [Servers -> Server] /\ servers[m] \in Server
      /\ servers[m].state # "none"
  <2>1. HasRow(j) /\ m \in Servers
    BY RecordedServer
       DEF handle_firewall_applying, delete_worker, stop_worker, NothingToDo, Handling, ReadsRow
  <2> QED
    BY <2>1, RecordedServer DEF OwnInv, JobOwn, RecordedTitled, ServerTitled, IndInv, TypeOK
<1>3. ServersKept
  <2>1. CASE UNCHANGED servers
    BY <2>1, ServersUntouched
  <2>2. ASSUME NEW f, servers' = [servers EXCEPT ![m].firewall = f] PROVE ServersKept
    <3> DEFINE r == [servers[m] EXCEPT !.firewall = f]
    <3>1. servers' = [servers EXCEPT ![m] = r]
      BY <1>2, <2>2
    <3>2. /\ r.owner = servers[m].owner /\ r.title = servers[m].title
          /\ r.state = servers[m].state /\ r.worker = servers[m].worker
      BY <1>2 DEF Server
    <3> HIDE DEF r, m
    <3> QED
      BY <1>2, <3>1, <3>2, ServerMoved
  <2>3. ASSUME NEW x, x # "none", servers' = [servers EXCEPT ![m].state = x] PROVE ServersKept
    <3> DEFINE r == [servers[m] EXCEPT !.state = x]
    <3>1. servers' = [servers EXCEPT ![m] = r]
      BY <1>2, <2>3
    <3>2. /\ r.owner = servers[m].owner /\ r.title = servers[m].title
          /\ r.state = x /\ r.worker = servers[m].worker
      BY <1>2 DEF Server
    <3> HIDE DEF r, m
    <3> QED
      BY <1>2, <2>3, <3>1, <3>2, ServerMoved
  <2> QED
    BY <2>1, <2>2, <2>3 DEF handle_firewall_applying, delete_worker, stop_worker, ServerDeleted
<1>4. Stay(j) \/ Abort \/ \E t \in Statuses \ Delivered : MoveOn(j, t)
  BY Successors, StatusSet
     DEF handle_firewall_applying, delete_worker, stop_worker, FailedAttempt, Delivered
<1>5. RowsStay /\ \A k \in Jobs : NoResult(k)
  BY <1>1, <1>4, TurnNoResult
<1> QED
  BY <1>1, <1>3, <1>5, ResultKept

\* ContainerConfiguring: the config goes to the worker of the job's title.  If
\* that has read one already, it was this job's, if no other has its title.
LEMMA ConfiguringResult ==
    ASSUME IndInv, IndInv', OwnInv, ResultInv, NEW j \in Jobs,
           NEW o \in Outcomes, handle_container_configuring(j, o)
    PROVE  ResultInv'
<1> DEFINE m == jobs[j].ip
<1>1. /\ tick.pc = "next" /\ snap[j] = "ContainerConfiguring" /\ UNCHANGED <<dryRun, jobs>>
      /\ ~dryRun /\ HasRow(j)
  BY RealWork DEF handle_container_configuring, Handling, Turn, ReadsRow, dbVars
<1>2. m \in Servers /\ servers[m].state = "started" /\ m = jobs[j].vm /\ ServerTitled(m, j)
  <2>1. m # None /\ servers[m].state = "started"
    BY DEF handle_container_configuring, Reachable
  <2> QED
    BY <1>1, <2>1, RecordedServer DEF OwnInv, JobOwn, AddressIsVm, RecordedTitled
<1>3. servers \in [Servers -> Server] /\ servers[m] \in Server
  BY <1>2 DEF IndInv, TypeOK
<1>4. /\ \A n \in Servers : n # m => servers'[n] = servers[n]
      /\ servers'[m].state = servers[m].state /\ servers'[m].title = servers[m].title
      /\ \/ servers'[m].owner = j
         \/ servers'[m] = servers[m] /\ servers[m].owner # None /\ servers[m].owner \in Jobs
  <2>1. CASE servers' = [servers EXCEPT ![m].worker = "ready", ![m].owner = j]
    BY <1>2, <1>3, <2>1 DEF Server
  <2>2. CASE UNCHANGED servers /\ servers[m].worker \notin {"boot", "ready"}
    BY <1>2, <1>3, <2>2 DEF ResultInv, OwnerTitled, Server
  <2> QED
    BY <2>1, <2>2 DEF handle_container_configuring
<1>5. ASSUME OnlyTitled(j) PROVE servers'[m].owner = j
  <2> SUFFICES ASSUME servers[m].owner # None, servers[m].owner \in Jobs
               PROVE  servers[m].owner = j
    BY <1>4
  <2>1. title(servers[m].owner) = title(j) /\ jobs[servers[m].owner].status # "absent"
    BY <1>2 DEF ResultInv, OwnerTitled, ServerTitled
  <2> QED
    BY <1>5, <2>1 DEF OnlyTitled
<1> HIDE DEF m
<1>6. OwnerTitled'
  <2>1. jobs[j].status # "absent" /\ j # None
    BY <1>1, NoneAssumption, StatusSet DEF HasRow
  <2>2. ASSUME NEW n \in Servers
        PROVE  /\ servers'[n].owner # None =>
                    /\ servers'[n].state # "none"
                    /\ servers'[n].title = title(servers'[n].owner)
                    /\ jobs[servers'[n].owner].status # "absent"
               /\ servers'[n].worker # "boot" => servers'[n].owner # None
    BY <1>2, <1>4, <2>1 DEF ResultInv, OwnerTitled, ServerTitled
  <2> QED
    BY <1>1, <2>2 DEF OwnerTitled, ServerTitled, title
<1>7. /\ Stay(j) \/ Abort \/ MoveOn(j, "ContainerRunning")
      /\ snap \in [Jobs -> Statuses \union {"none"}]
  BY Successors DEF handle_container_configuring, FailedAttempt, IndInv, TypeOK
<1>8. ASSUME NEW k \in Jobs, HasRow(k) PROVE Configured(k)'
  <2>1. CASE k = j
    <3>1. ~Seen(j, {"Succeeded"})'
      <4>1. jobs[j].status # "Succeeded"
        BY <1>1 DEF IndInv, SnapshotCoherent
      <4>2. snap'[j] # "Succeeded" /\ (InTurn(j)' => tick'.at # "Succeeded")
               /\ (Entering(j, {"Succeeded"})' => FALSE)
        BY <1>1, <1>7 DEF Stay, Abort, MoveOn, Proceed, NoSnapshot, IdleTick, InTurn, Entering
      <4> QED
        BY <1>1, <4>1, <4>2 DEF Seen
    <3>2. m # None
      BY <1>2, NoneAssumption
    <3> QED
      BY <1>1, <1>5, <2>1, <3>1, <3>2 DEF m, Configured, OnlyTitled, title
  <2>2. CASE k # j
    <3>1. ASSUME NEW S \in {Delivered, {"Succeeded"}}, Seen(k, S)' PROVE Seen(k, S)
      <4>1. "none" \notin S
        BY DEF Delivered
      <4>2. snap'[k] \in {snap[k], "none"}
        BY <1>7, <2>2 DEF Stay, Abort, MoveOn, Proceed, NoSnapshot
      <4>3. tick'.pc \in {"record", "update"} => tick'.job = j
        BY <1>1, <1>7 DEF Stay, Abort, MoveOn, Proceed, IdleTick
      <4> QED
        BY <1>1, <2>2, <3>1, <4>1, <4>2, <4>3 DEF Seen, InTurn, Entering
    <3>2. /\ jobs[k].ip # None => jobs[k].ip \in Servers
          /\ jobs[k].ip # None /\ OnlyTitled(k) => jobs[k].ip # m
      <4>1. OnlyTitled(k) => title(k) # title(j)
        BY <1>1, <2>2, StatusSet DEF OnlyTitled, HasRow
      <4> QED
        BY <1>1, <1>2, <1>8, <2>2, <4>1, OwnApart, RecordedServer DEF OwnInv, JobOwn, AddressIsVm
    <3>3. Configured(k)
      BY DEF ResultInv
    <3> QED
      BY <1>1, <1>4, <1>8, <3>1, <3>2, <3>3 DEF Configured, OnlyTitled, title
  <2> QED
    BY <2>1, <2>2
<1>9. \A k \in Jobs : Configured(k)'
  BY <1>1, <1>8 DEF Configured, HasRow
<1> QED
  BY <1>6, <1>9 DEF ResultInv

\* The scan and the environment: the worker script starts nothing without a
\* config.
LEMMA OutsideResult ==
    ASSUME IndInv, IndInv', OwnInv, ResultInv, NEW m \in Servers, NEW works \in BOOLEAN,
           \/ scan_stops_server(m, works) \/ scan_deletes_server(m, works)
           \/ server_settles(m) \/ firewall_propagates(m) \/ worker_runs(m)
    PROVE  ResultInv'
<1>1. UNCHANGED <<dryRun, jobs, snap, tick>>
  BY DEF scan_stops_server, scan_deletes_server, server_settles, firewall_propagates,
         worker_runs, dbVars, tickVars
<1>2. servers \in [Servers -> Server] /\ servers[m] \in Server
  BY DEF IndInv, TypeOK
<1>3. ServersKept
  <2>1. CASE UNCHANGED servers
    BY <2>1, ServersUntouched
  <2>2. ASSUME NEW x, x # "none", servers' = [servers EXCEPT ![m].state = x] PROVE ServersKept
    <3> DEFINE r == [servers[m] EXCEPT !.state = x]
    <3>1. servers' = [servers EXCEPT ![m] = r]
      BY <1>2, <2>2
    <3>2. /\ r.owner = servers[m].owner /\ r.title = servers[m].title
          /\ r.state = x /\ r.worker = servers[m].worker
      BY <1>2 DEF Server
    <3> HIDE DEF r
    <3> QED
      BY <2>2, <3>1, <3>2, ServerMoved
  <2>3. CASE firewall_propagates(m)
    <3> DEFINE r == [servers[m] EXCEPT !.firewall = "visible"]
    <3>1. servers' = [servers EXCEPT ![m] = r] /\ servers[m].state # "none"
      BY <1>2, <2>3 DEF firewall_propagates
    <3>2. /\ r.owner = servers[m].owner /\ r.title = servers[m].title
          /\ r.state = servers[m].state /\ r.worker = servers[m].worker
      BY <1>2 DEF Server
    <3> HIDE DEF r
    <3> QED
      BY <3>1, <3>2, ServerMoved
  <2>4. CASE worker_runs(m)
    <3>1. PICK w : servers' = [servers EXCEPT ![m].worker = w]
      BY <2>4 DEF worker_runs
    <3> DEFINE r == [servers[m] EXCEPT !.worker = w]
    <3>2. servers' = [servers EXCEPT ![m] = r]
      BY <1>2, <3>1
    <3>3. servers[m].state = "started" /\ servers[m].worker # "boot"
      BY <2>4 DEF worker_runs
    <3>4. /\ r.owner = servers[m].owner /\ r.title = servers[m].title
          /\ r.state = servers[m].state
      BY <1>2 DEF Server
    <3> HIDE DEF r
    <3> QED
      BY <3>2, <3>3, <3>4, ServerMoved
  <2>5. CASE server_settles(m)
    BY <2>2, <2>5 DEF server_settles
  <2> QED
    BY <2>1, <2>2, <2>3, <2>4, <2>5
       DEF scan_stops_server, scan_deletes_server, ServerDeleted, cloudVars
<1>4. RowsStay /\ \A j \in Jobs : NoResult(j)
  BY <1>1, NoneNearer DEF RowsStay, HasRow
<1> QED
  BY <1>1, <1>3, <1>4, ResultKept


-----------------------------------------------------------------------------
(***************************************************************************)
(* The theorems.                                                           *)
(***************************************************************************)

\* No worker has a config in the beginning.
LEMMA InitResult == Init => ResultInv
<1> SUFFICES ASSUME Init PROVE ResultInv
  OBVIOUS
<1>1. \A j \in Jobs : ~HasRow(j)
  BY StatusSet DEF Init, NoRow, HasRow
<1>2. \A m \in Servers : servers[m].owner = None /\ servers[m].worker = "boot"
  BY DEF Init
<1> QED
  BY <1>1, <1>2 DEF ResultInv, OwnerTitled, Configured

\* Every step preserves the invariant.
LEMMA NextResult ==
    IndInv /\ IndInv' /\ OwnInv /\ ResultInv /\ [Next]_vars => ResultInv'
<1> SUFFICES ASSUME IndInv, IndInv', OwnInv, ResultInv, [Next]_vars
             PROVE  ResultInv'
  OBVIOUS
<1>1. CASE start_tick \/ finish_tick \/ tick_aborts \/ crash \/ api_aborts \/ scan_aborts
  BY <1>1, QuietResult
<1>2. CASE TickWrites
  BY <1>2, RecordResult, StatusResult, QuietResult DEF TickWrites
<1>3. ASSUME NEW j \in Jobs, Handlers(j) PROVE ResultInv'
  BY <1>3, AdvanceResult, StatusResult, HandlerResult, VMPendingResult, WorkerTurnResult,
     ConfiguringResult DEF Handlers
<1>4. CASE ApiStep
  BY <1>4, StatusResult, QuietResult DEF ApiStep
<1>5. CASE ScanStep
  BY <1>5, QuietResult, OutsideResult DEF ScanStep
<1>6. CASE Environment
  BY <1>6, QuietResult, OutsideResult DEF Environment
<1>7. ASSUME NEW j \in Jobs, NEW w \in VolumeRequests, create_job(j, w)
      PROVE  ResultInv'
  BY <1>7, CreateResult
<1>8. CASE \/ \E j \in Jobs : delete_job(j)
           \/ \E j \in Jobs, n \in Names : check_name(j, n)
  BY <1>8, QuietResult
<1>9. CASE UNCHANGED vars
  <2>1. UNCHANGED <<dryRun, jobs, servers, snap, tick>>
    BY <1>9 DEF vars
  <2>2. ServersKept /\ RowsStay /\ \A j \in Jobs : NoResult(j)
    BY <2>1, NoneNearer, ServersUntouched DEF RowsStay, HasRow
  <2> QED
    BY <2>1, <2>2, ResultKept
<1> QED
  BY <1>1, <1>2, <1>3, <1>4, <1>5, <1>6, <1>7, <1>8, <1>9 DEF Next, TickStep

LEMMA ResultInvariance == Spec => []ResultInv
<1>1. Init => ResultInv
  BY InitResult
<1>2. IndInv /\ IndInv' /\ OwnInv /\ ResultInv /\ [Next]_vars => ResultInv'
  BY NextResult
<1> QED
  BY <1>1, <1>2, Invariance, Ownership, PTL DEF Spec

\* A run is Succeeded only if its own container ran on its worker and exited with
\* 0, whatever crashes, lost responses, DELETEs and orphan scans came in between,
\* as long as no two jobs have the same title.
THEOREM SuccessIsEarned == Spec /\ []TitlesUsedOnce => []EarnedSuccess
<1>1. ASSUME ResultInv, TitlesUsedOnce PROVE EarnedSuccess
  <2> SUFFICES ASSUME NEW j \in Jobs, ~dryRun, jobs[j].status = "Succeeded"
               PROVE  jobs[j].exit = "zero" /\ jobs[j].ip # None /\ servers[jobs[j].ip].owner = j
    BY DEF EarnedSuccess
  <2>1. HasRow(j) /\ OnlyTitled(j) /\ Seen(j, Delivered) /\ Seen(j, {"Succeeded"})
    BY <1>1, StatusSet DEF HasRow, Seen, Delivered, TitlesUsedOnce
  <2> QED
    BY <1>1, <2>1 DEF ResultInv, Configured
<1> QED
  BY <1>1, ResultInvariance, PTL

\* The stages of Pre are the states before completion.
LEMMA PreStates ==
    ASSUME NEW s \in Statuses, is_pre_completion_state(s)
    PROVE  s \in Pre
<1>1. /\ Position("Succeeded") = 14 /\ Position("VolumeDetaching") = 15
      /\ Position("VolumeDeleted") = 16 /\ Position("VMTerminating") = 17
      /\ Position("Archived") = 18
  BY SMTT(30) DEF Position, STATE_SEQUENCE
<1> QED
  BY <1>1, StatusSet, SMTT(30)
     DEF is_pre_completion_state, Pre, Stored, Hosted, Walled, Up

\* poll_once and get_pod_log connect to the recorded worker, created under the
\* job's title; that of a job which alone has its title exists and was given no
\* other job's container.
THEOREM SshReachesOwn == Spec => []SshReachesOwnWorker
<1>1. ASSUME IndInv, OwnInv, ResultInv PROVE SshReachesOwnWorker
  <2> SUFFICES ASSUME NEW j \in polled_jobs \union followed_jobs
               PROVE  /\ jobs[j].ip = jobs[j].vm
                      /\ servers[jobs[j].ip].title = title(j)
                      /\ OnlyTitled(j) => /\ servers[jobs[j].ip].state # "deleted"
                                         /\ servers[jobs[j].ip].owner \in {None, j}
    BY DEF SshReachesOwnWorker
  <2>1. j \in Jobs /\ HasRow(j) /\ jobs[j].ip # None /\ jobs[j].status \in Pre
    BY PreStates, StatusSet
       DEF polled_jobs, followed_jobs, HasRow, Pre, Stored, Hosted, Walled, Up
  <2>2. jobs[j].ip = jobs[j].vm /\ jobs[j].ip \in Servers
    BY <1>1, <2>1, RecordedServer DEF OwnInv, JobOwn, AddressIsVm
  <2>3. servers[jobs[j].ip].title = title(j)
    BY <1>1, <2>1, <2>2 DEF OwnInv, JobOwn, RecordedTitled, ServerTitled
  <2>4. OnlyTitled(j) => servers[jobs[j].ip].state # "deleted"
    BY <1>1, <2>1, <2>2 DEF OwnInv, JobOwn, Alive, Seen
  <2>5. ASSUME OnlyTitled(j), servers[jobs[j].ip].owner # None
        PROVE  servers[jobs[j].ip].owner = j
    <3>1. servers[jobs[j].ip].owner \in Jobs
      BY <1>1, <2>2, <2>5 DEF IndInv, TypeOK, Server
    <3>2. /\ title(servers[jobs[j].ip].owner) = title(j)
          /\ jobs[servers[jobs[j].ip].owner].status # "absent"
      BY <1>1, <2>2, <2>3, <2>5 DEF ResultInv, OwnerTitled, ServerTitled
    <3> QED
      BY <2>5, <3>1, <3>2 DEF OnlyTitled
  <2> QED
    BY <2>2, <2>3, <2>4, <2>5
<1> QED
  BY <1>1, Invariance, Ownership, ResultInvariance, PTL


-----------------------------------------------------------------------------
(***************************************************************************)
(* What is attached to a worker when it is deleted.                        *)
(***************************************************************************)

\* The volume is the first one of a job that has the title of the server, and
\* whose job_volumes row is not about to go.
Emptied(j) == tick.pc = "record" /\ tick.job = j /\ tick.at = "VolumeDetaching"
Holds(j, v) ==
    /\ job_volumes[j] # << >> /\ Head(job_volumes[j]) = v
    /\ ServerTitled(volumes[v].on, j)
    /\ ~Emptied(j)

\* An attached volume is still on the books of the job that attached it.
AttachedKnown ==
    \A v \in Volumes : volumes[v].on # None =>
        volumes[v].state # "none" /\ \E j \in Jobs : Holds(j, v)

\* No step renames a server.
TitlesStay ==
    \A m \in Servers : servers[m].state # "none" =>
        servers'[m].state # "none" /\ servers'[m].title = servers[m].title

LEMMA FieldChanged ==
    ASSUME IndInv, NEW m \in Servers, NEW x,
           \/ servers' = [servers EXCEPT ![m].firewall = x]
           \/ servers' = [servers EXCEPT ![m].worker = x]
           \/ servers' = [servers EXCEPT ![m].state = x] /\ x # "none"
           \/ \E j : servers' = [servers EXCEPT ![m].worker = x, ![m].owner = j]
    PROVE  TitlesStay
<1>1. servers \in [Servers -> Server] /\ servers[m] \in Server
  BY DEF IndInv, TypeOK
<1>2. CASE servers' = [servers EXCEPT ![m].firewall = x]
  BY <1>1, <1>2 DEF TitlesStay, Server
<1>3. CASE servers' = [servers EXCEPT ![m].worker = x]
  BY <1>1, <1>3 DEF TitlesStay, Server
<1>4. CASE servers' = [servers EXCEPT ![m].state = x] /\ x # "none"
  BY <1>1, <1>4 DEF TitlesStay, Server
<1>5. ASSUME NEW j, servers' = [servers EXCEPT ![m].worker = x, ![m].owner = j]
      PROVE  TitlesStay
  BY <1>1, <1>5 DEF TitlesStay, Server
<1> QED
  BY <1>2, <1>3, <1>4, <1>5

LEMMA NextTitles ==
    ASSUME IndInv, [Next]_vars
    PROVE  TitlesStay
<1>1. CASE UNCHANGED servers
  BY <1>1 DEF TitlesStay
<1>2. ASSUME NEW j \in Jobs, Handlers(j) PROVE UNCHANGED servers \/ TitlesStay
  <2>1. CASE advance(j) \/ missing_row(j) \/ attempt_fails(j) \/ force_failed(j)
    BY <2>1 DEF advance, missing_row, attempt_fails, force_failed, cloudVars
  <2>2. ASSUME NEW o \in Outcomes, NEW listed \in BOOLEAN, handle_volume_pending(j, o, listed)
        PROVE  UNCHANGED servers
    BY <2>2 DEF handle_volume_pending
  <2>3. ASSUME NEW o \in Outcomes, NEW listed \in BOOLEAN, handle_vm_pending(j, o, listed)
        PROVE  UNCHANGED servers \/ TitlesStay
    <3>1. ASSUME NEW m \in Servers, servers[m].state = "none", servers' = ServerCreated(m, j)
          PROVE  TitlesStay
      BY <3>1 DEF ServerCreated, TitlesStay, IndInv, TypeOK
    <3> QED
      BY <2>3, <3>1 DEF handle_vm_pending
  <2>4. ASSUME NEW o \in Outcomes,
               \/ handle_firewall_applying(j, o) \/ delete_worker(j, o) \/ stop_worker(j)
        PROVE  UNCHANGED servers \/ TitlesStay
    <3>1. jobs[j].vm \in Servers
      BY <2>4, RecordedServer DEF handle_firewall_applying, delete_worker, stop_worker, NothingToDo
    <3> QED
      BY <2>4, <3>1, FieldChanged
         DEF handle_firewall_applying, delete_worker, stop_worker, ServerDeleted
  <2>5. ASSUME NEW o \in Outcomes, handle_container_configuring(j, o)
        PROVE  UNCHANGED servers \/ TitlesStay
    <3>1. jobs[j].ip \in Servers
      BY <2>5, RecordedServer DEF handle_container_configuring, Reachable
    <3> QED
      BY <2>5, <3>1, FieldChanged DEF handle_container_configuring
  <2>6. ASSUME NEW o \in Outcomes, NEW detached \in BOOLEAN,
               \/ handle_volume_attaching(j, o) \/ handle_volume_detaching(j, o, detached)
               \/ handle_firewall_verified(j) \/ handle_vm_creating(j)
               \/ handle_container_running(j)
        PROVE  UNCHANGED servers
    BY <2>6 DEF handle_volume_attaching, handle_volume_detaching, handle_firewall_verified,
                handle_vm_creating, handle_container_running, cloudVars
  <2>7. "ok" \in Outcomes
    BY DEF Outcomes
  <2> QED
    BY <1>2, <2>1, <2>2, <2>3, <2>4, <2>5, <2>6, <2>7 DEF Handlers
<1>3. ASSUME TickWrites PROVE UNCHANGED servers
  BY <1>3 DEF TickWrites, insert_job_volume, set_worker_vm, set_worker_ssh_ip,
              record_completion, delete_job_volume, update_status, record_event, cloudVars
<1>4. ASSUME ApiStep PROVE UNCHANGED servers
  BY <1>4 DEF ApiStep, delete_forces, delete_records_event, delete_drops_row, cloudVars
<1>5. ASSUME ScanStep PROVE UNCHANGED servers \/ TitlesStay
  <2>1. ASSUME NEW m \in Servers, NEW works \in BOOLEAN,
               scan_stops_server(m, works) \/ scan_deletes_server(m, works)
        PROVE  UNCHANGED servers \/ TitlesStay
    BY <2>1, FieldChanged DEF scan_stops_server, scan_deletes_server, ServerDeleted, cloudVars
  <2> QED
    BY <1>5, <2>1 DEF ScanStep, scan_lists_volumes, scan_reads_tracked_volumes,
       scan_deletes_volume, scan_lists_servers, scan_reads_tracked_servers, finish_scan, cloudVars
<1>6. ASSUME Environment PROVE UNCHANGED servers \/ TitlesStay
  <2>1. ASSUME NEW m \in Servers, server_settles(m) PROVE TitlesStay
    <3>1. PICK x \in {"started", "stopped"} : servers' = [servers EXCEPT ![m].state = x]
      BY <2>1 DEF server_settles
    <3> QED
      BY <3>1, FieldChanged
  <2>2. ASSUME NEW m \in Servers, firewall_propagates(m) PROVE TitlesStay
    BY <2>2, FieldChanged DEF firewall_propagates
  <2>3. ASSUME NEW m \in Servers, worker_runs(m) PROVE TitlesStay
    BY <2>3, FieldChanged DEF worker_runs
  <2> QED
    BY <1>6, <2>1, <2>2, <2>3 DEF Environment, deadline_passes, cloudVars
<1>7. ASSUME \/ start_tick \/ finish_tick \/ tick_aborts \/ api_aborts \/ scan_aborts \/ crash
             \/ \E j \in Jobs : delete_job(j)
             \/ \E j \in Jobs, n \in Names : check_name(j, n)
             \/ \E j \in Jobs, w \in VolumeRequests : create_job(j, w)
      PROVE  UNCHANGED servers
  BY <1>7 DEF start_tick, finish_tick, tick_aborts, api_aborts, scan_aborts, crash, delete_job,
              create_job, check_name, cloudVars
<1> QED
  BY <1>1, <1>2, <1>3, <1>4, <1>5, <1>6, <1>7 DEF Next, TickStep, vars

\* Nor a job that exists.
LEMMA NextNames ==
    ASSUME IndInv, [Next]_vars, NEW j \in Jobs, jobs[j].status # "absent"
    PROVE  jobs'[j].name = jobs[j].name
<1>0. jobs \in [Jobs -> Row] /\ jobs[j] \in Row
  BY DEF IndInv, TypeOK
<1>1. ASSUME NEW k \in Jobs, Handlers(k) PROVE UNCHANGED jobs \/ force_failed(k)
  BY <1>1 DEF Handlers, advance, missing_row, attempt_fails, handle_volume_pending,
     handle_vm_pending, handle_firewall_applying, handle_volume_attaching,
     handle_container_configuring, delete_worker, handle_firewall_verified, handle_vm_creating,
     handle_container_running, stop_worker, handle_volume_detaching, dbVars
<1>2. ASSUME NEW k \in Jobs, force_failed(k) PROVE jobs'[j].name = jobs[j].name
  BY <1>0, <1>2 DEF force_failed, Row
<1>3. CASE TickWrites
  <2>1. CASE insert_job_volume \/ delete_job_volume \/ record_event
    BY <2>1 DEF insert_job_volume, delete_job_volume, record_event
  <2>2. CASE set_worker_vm
    BY <1>0, <2>2 DEF set_worker_vm, SetColumn, Row
  <2>3. CASE set_worker_ssh_ip
    BY <1>0, <2>3 DEF set_worker_ssh_ip, SetColumn, Row
  <2>4. CASE record_completion
    BY <1>0, <2>4 DEF record_completion, SetColumn, Row
  <2>5. CASE update_status
    BY <1>0, <2>5 DEF update_status, SetColumn, Row
  <2> QED
    BY <1>3, <2>1, <2>2, <2>3, <2>4, <2>5 DEF TickWrites
<1>4. CASE ApiStep
  <2>1. CASE delete_forces
    BY <1>0, <2>1 DEF delete_forces, Row
  <2>2. CASE delete_records_event
    BY <2>2 DEF delete_records_event
  <2>3. CASE delete_drops_row
    BY <1>0, <2>3 DEF delete_drops_row, Row
  <2> QED
    BY <1>4, <2>1, <2>2, <2>3 DEF ApiStep
<1>5. ASSUME ScanStep PROVE UNCHANGED jobs
  BY <1>5 DEF ScanStep, scan_lists_volumes, scan_reads_tracked_volumes, scan_deletes_volume,
     scan_lists_servers, scan_reads_tracked_servers, scan_stops_server, scan_deletes_server,
     finish_scan, dbVars
<1>6. ASSUME Environment PROVE UNCHANGED jobs
  BY <1>6 DEF Environment, deadline_passes, server_settles, firewall_propagates, worker_runs,
              dbVars
<1>7. ASSUME \/ start_tick \/ finish_tick \/ tick_aborts \/ api_aborts \/ scan_aborts \/ crash
             \/ \E k \in Jobs : delete_job(k)
             \/ \E k \in Jobs, n \in Names : check_name(k, n)
      PROVE  UNCHANGED jobs
  BY <1>7 DEF start_tick, finish_tick, tick_aborts, api_aborts, scan_aborts, crash, delete_job,
              check_name, dbVars
<1>8. ASSUME NEW k \in Jobs, NEW w \in VolumeRequests, create_job(k, w)
      PROVE  jobs'[j].name = jobs[j].name
  BY <1>0, <1>8 DEF create_job
<1> QED
  BY <1>1, <1>2, <1>3, <1>4, <1>5, <1>6, <1>7, <1>8 DEF Next, TickStep, vars

\* Only VolumeAttaching attaches a volume.
VolumeKept(v) ==
    volumes'[v].on # None => /\ volumes'[v].on = volumes[v].on
                             /\ volumes[v].state # "none" => volumes'[v].state # "none"

LEMMA VolumeFieldChanged ==
    ASSUME IndInv, NEW w \in Volumes, NEW v \in Volumes,
           \/ volumes' = VolumeDeleted(w)
           \/ volumes' = VolumeAttached(w, None)
           \/ volumes' = VolumeAttached(w, volumes[w].on)
           \/ \E m \in Servers : ServerDeleted(m)
           \/ \E j \in Jobs : volumes' = VolumeCreated(w, j)
    PROVE  VolumeKept(v)
<1>1. volumes \in [Volumes -> Volume] /\ volumes[v] \in Volume
  BY DEF IndInv, TypeOK
<1>2. CASE volumes' = VolumeDeleted(w)
  BY <1>1, <1>2 DEF VolumeKept, VolumeDeleted, Volume
<1>3. CASE volumes' = VolumeAttached(w, None)
  BY <1>1, <1>3 DEF VolumeKept, VolumeAttached, Volume
<1>4. CASE volumes' = VolumeAttached(w, volumes[w].on)
  BY <1>1, <1>4 DEF VolumeKept, VolumeAttached, Volume
<1>5. ASSUME NEW m \in Servers, ServerDeleted(m) PROVE VolumeKept(v)
  BY <1>1, <1>5 DEF VolumeKept, ServerDeleted, Volume
<1>6. ASSUME NEW j \in Jobs, volumes' = VolumeCreated(w, j) PROVE VolumeKept(v)
  BY <1>1, <1>6 DEF VolumeKept, VolumeCreated, Volume
<1> QED
  BY <1>2, <1>3, <1>4, <1>5, <1>6

LEMMA NextVolumes ==
    ASSUME IndInv, [Next]_vars, NEW v \in Volumes
    PROVE  VolumeKept(v) \/ \E j \in Jobs, o \in Outcomes : handle_volume_attaching(j, o)
<1>0. ASSUME UNCHANGED volumes PROVE VolumeKept(v)
  BY <1>0 DEF VolumeKept
<1>1. ASSUME NEW j \in Jobs, Handlers(j), \A o \in Outcomes : ~handle_volume_attaching(j, o)
      PROVE  UNCHANGED volumes \/ VolumeKept(v)
  <2>1. CASE advance(j) \/ missing_row(j) \/ attempt_fails(j) \/ force_failed(j)
    BY <2>1 DEF advance, missing_row, attempt_fails, force_failed, cloudVars
  <2>2. ASSUME NEW o \in Outcomes, NEW listed \in BOOLEAN, handle_volume_pending(j, o, listed)
        PROVE  UNCHANGED volumes \/ VolumeKept(v)
    BY <2>2, VolumeFieldChanged DEF handle_volume_pending
  <2>3. ASSUME NEW o \in Outcomes, delete_worker(j, o) PROVE VolumeKept(v)
    BY <2>3, RecordedServer, VolumeFieldChanged DEF delete_worker, NothingToDo
  <2>4. ASSUME NEW o \in Outcomes, NEW detached \in BOOLEAN,
               handle_volume_detaching(j, o, detached)
        PROVE  VolumeKept(v)
    <3>1. PICK w \in Volumes : w = Head(job_volumes[j])
      BY <2>4 DEF handle_volume_detaching, NothingToDo, IndInv, TypeOK
    <3>2. \/ volumes' = VolumeDeleted(w) \/ volumes' = VolumeAttached(w, None)
          \/ volumes' = VolumeAttached(w, volumes[w].on)
      BY <2>4, <3>1 DEF handle_volume_detaching
    <3> QED
      BY <3>2, VolumeFieldChanged
  <2>5. ASSUME NEW o \in Outcomes, NEW listed \in BOOLEAN,
               \/ handle_vm_pending(j, o, listed) \/ handle_firewall_applying(j, o)
               \/ handle_container_configuring(j, o) \/ handle_firewall_verified(j)
               \/ handle_vm_creating(j) \/ handle_container_running(j) \/ stop_worker(j)
        PROVE  UNCHANGED volumes
    BY <2>5 DEF handle_vm_pending, handle_firewall_applying, handle_container_configuring,
                handle_firewall_verified, handle_vm_creating, handle_container_running,
                stop_worker, cloudVars
  <2>6. "ok" \in Outcomes
    BY DEF Outcomes
  <2> QED
    BY <1>1, <2>1, <2>2, <2>3, <2>4, <2>5, <2>6 DEF Handlers
<1>2. ASSUME TickWrites PROVE UNCHANGED volumes
  BY <1>2 DEF TickWrites, insert_job_volume, set_worker_vm, set_worker_ssh_ip,
              record_completion, delete_job_volume, update_status, record_event, cloudVars
<1>3. ASSUME ApiStep PROVE UNCHANGED volumes
  BY <1>3 DEF ApiStep, delete_forces, delete_records_event, delete_drops_row, cloudVars
<1>4. ASSUME ScanStep PROVE UNCHANGED volumes \/ VolumeKept(v)
  <2>1. ASSUME NEW m \in Servers, NEW works \in BOOLEAN,
               scan_stops_server(m, works) \/ scan_deletes_server(m, works)
        PROVE  UNCHANGED volumes \/ VolumeKept(v)
    BY <2>1, VolumeFieldChanged DEF scan_stops_server, scan_deletes_server, cloudVars
  <2>2. ASSUME NEW w \in Volumes, NEW works \in BOOLEAN, scan_deletes_volume(w, works)
        PROVE  UNCHANGED volumes \/ VolumeKept(v)
    BY <2>2, VolumeFieldChanged DEF scan_deletes_volume
  <2> QED
    BY <1>4, <2>1, <2>2 DEF ScanStep, scan_lists_volumes, scan_reads_tracked_volumes,
       scan_lists_servers, scan_reads_tracked_servers, finish_scan, cloudVars
<1>5. ASSUME Environment PROVE UNCHANGED volumes
  BY <1>5 DEF Environment, deadline_passes, server_settles, firewall_propagates, worker_runs,
              cloudVars
<1>6. ASSUME \/ start_tick \/ finish_tick \/ tick_aborts \/ api_aborts \/ scan_aborts \/ crash
             \/ \E j \in Jobs : delete_job(j)
             \/ \E j \in Jobs, n \in Names : check_name(j, n)
             \/ \E j \in Jobs, w \in VolumeRequests : create_job(j, w)
      PROVE  UNCHANGED volumes
  BY <1>6 DEF start_tick, finish_tick, tick_aborts, api_aborts, scan_aborts, crash, delete_job,
              create_job, check_name, cloudVars
<1> QED
  BY <1>0, <1>1, <1>2, <1>3, <1>4, <1>5, <1>6 DEF Next, TickStep, vars


\* A job's first volume stays its first, until delete_job_volume.
LEMMA NextBooks ==
    ASSUME IndInv, [Next]_vars, NEW j \in Jobs, job_volumes[j] # << >>
    PROVE  \/ job_volumes'[j] # << >> /\ Head(job_volumes'[j]) = Head(job_volumes[j])
           \/ Emptied(j)
<1>0. /\ job_volumes \in [Jobs -> Seq(Volumes)] /\ job_volumes[j] \in Seq(Volumes)
      /\ Len(job_volumes[j]) > 0
  BY DEF IndInv, TypeOK
<1>1. ASSUME NEW k \in Jobs, Handlers(k) PROVE UNCHANGED job_volumes
  BY <1>1 DEF Handlers, advance, missing_row, attempt_fails, force_failed, handle_volume_pending,
     handle_vm_pending, handle_firewall_applying, handle_volume_attaching,
     handle_container_configuring, delete_worker, handle_firewall_verified, handle_vm_creating,
     handle_container_running, stop_worker, handle_volume_detaching, dbVars
<1>2. ASSUME \/ set_worker_vm \/ set_worker_ssh_ip \/ record_completion \/ update_status
             \/ record_event
      PROVE  UNCHANGED job_volumes
  BY <1>2 DEF set_worker_vm, set_worker_ssh_ip, record_completion, update_status, record_event
<1>3. CASE insert_job_volume
  <2>1. PICK r \in Volumes : r = tick.res
    BY <1>3 DEF insert_job_volume, Recording, IndInv, InFlightOK
  <2>2. job_volumes'[j] \in {job_volumes[j], Append(job_volumes[j], r)}
    BY <1>0, <1>3, <2>1 DEF insert_job_volume
  <2>3. /\ Append(job_volumes[j], r) # << >>
        /\ Head(Append(job_volumes[j], r)) = Head(job_volumes[j])
    BY <1>0, SMTT(30)
  <2> QED
    BY <2>2, <2>3
<1>4. CASE delete_job_volume
  BY <1>0, <1>4 DEF delete_job_volume, Recording, Emptied, IndInv, InFlightOK
<1>5. ASSUME ApiStep PROVE UNCHANGED job_volumes
  BY <1>5 DEF ApiStep, delete_forces, delete_records_event, delete_drops_row
<1>6. ASSUME ScanStep PROVE UNCHANGED job_volumes
  BY <1>6 DEF ScanStep, scan_lists_volumes, scan_reads_tracked_volumes, scan_deletes_volume,
     scan_lists_servers, scan_reads_tracked_servers, scan_stops_server, scan_deletes_server,
     finish_scan, dbVars
<1>7. ASSUME Environment PROVE UNCHANGED job_volumes
  BY <1>7 DEF Environment, deadline_passes, server_settles, firewall_propagates, worker_runs,
              dbVars
<1>8. ASSUME \/ start_tick \/ finish_tick \/ tick_aborts \/ api_aborts \/ scan_aborts \/ crash
             \/ \E k \in Jobs : delete_job(k)
             \/ \E k \in Jobs, n \in Names : check_name(k, n)
             \/ \E k \in Jobs, w \in VolumeRequests : create_job(k, w)
      PROVE  UNCHANGED job_volumes
  BY <1>8 DEF start_tick, finish_tick, tick_aborts, api_aborts, scan_aborts, crash, delete_job,
              create_job, check_name, dbVars
<1> QED
  BY <1>1, <1>2, <1>3, <1>4, <1>5, <1>6, <1>7, <1>8 DEF Next, TickStep, TickWrites, vars

\* A turn that does not keep something for VolumeDetaching.
LEMMA TurnKeepsBooks ==
    ASSUME IndInv, NEW k \in Jobs, tick.pc = "next", NEW j \in Jobs, Emptied(j)',
           \/ Stay(k) \/ Abort
           \/ \E t, r : MoveOn(k, t)
           \/ snap[k] # "VolumeDetaching" /\ \E t, r : Keep(k, t, r)
           \/ \E t, r : Proceed(k, "event", t, r)
    PROVE  FALSE
  BY DEF Stay, Abort, MoveOn, Keep, Proceed, Emptied, IdleTick

\* VolumeDetaching gives the row up once the volume is deleted, detached before.
LEMMA NextEmptied ==
    ASSUME IndInv, [Next]_vars, NEW j \in Jobs, Emptied(j)'
    PROVE  \/ Emptied(j)
           \/ job_volumes[j] # << >> /\ volumes'[Head(job_volumes[j])].on = None
<1>1. ASSUME NEW k \in Jobs, Handlers(k)
      PROVE  job_volumes[j] # << >> /\ volumes'[Head(job_volumes[j])].on = None
  <2>1. ASSUME NEW o \in Outcomes, NEW detached \in BOOLEAN,
               handle_volume_detaching(k, o, detached)
        PROVE  job_volumes[j] # << >> /\ volumes'[Head(job_volumes[j])].on = None
    <3>1. PICK w \in Volumes : w = Head(job_volumes[k])
      BY <2>1 DEF handle_volume_detaching, NothingToDo, IndInv, TypeOK
    <3>2. tick.pc = "next" /\ job_volumes[k] # << >>
      BY <2>1 DEF handle_volume_detaching, Handling, Turn, NothingToDo
    <3>3. ~FailedAttempt(k)
      BY <3>2, TurnKeepsBooks DEF FailedAttempt
    <3>4. volumes' = VolumeDeleted(w) /\ Keep(k, next_state("VolumeDetaching"), None)
      BY <2>1, <3>1, <3>3 DEF handle_volume_detaching
    <3>5. j = k
      BY <3>4 DEF Keep, Proceed, Emptied
    <3>6. volumes'[w].on = None
      BY <3>4 DEF VolumeDeleted, IndInv, TypeOK, Volume
    <3> QED
      BY <3>1, <3>2, <3>5, <3>6
  <2>2. CASE advance(k) \/ missing_row(k) \/ attempt_fails(k) \/ force_failed(k)
    BY <2>2, TurnKeepsBooks
       DEF advance, missing_row, attempt_fails, force_failed, Handling, Turn, FailedAttempt
  <2>3. ASSUME NEW o \in Outcomes, NEW listed \in BOOLEAN,
               handle_volume_pending(k, o, listed) \/ handle_vm_pending(k, o, listed)
        PROVE  FALSE
    BY <2>3, TurnKeepsBooks
       DEF handle_volume_pending, handle_vm_pending, Handling, Turn, FailedAttempt
  <2>4. ASSUME NEW o \in Outcomes,
               \/ handle_firewall_applying(k, o) \/ handle_volume_attaching(k, o)
               \/ handle_container_configuring(k, o) \/ delete_worker(k, o)
        PROVE  FALSE
    BY <2>4, TurnKeepsBooks
       DEF handle_firewall_applying, handle_volume_attaching, handle_container_configuring,
           delete_worker, Handling, Turn, FailedAttempt
  <2>5. ASSUME \/ handle_firewall_verified(k) \/ handle_vm_creating(k)
               \/ handle_container_running(k) \/ stop_worker(k)
        PROVE  FALSE
    BY <2>5, TurnKeepsBooks
       DEF handle_firewall_verified, handle_vm_creating, handle_container_running, stop_worker,
           Handling, Turn
  <2> QED
    BY <1>1, <2>1, <2>2, <2>3, <2>4, <2>5 DEF Handlers
<1>2. ASSUME TickWrites PROVE FALSE
  BY <1>2 DEF TickWrites, insert_job_volume, set_worker_vm, set_worker_ssh_ip,
              record_completion, delete_job_volume, update_status, record_event, Recording,
              Emptied, IndInv, TypeOK, Tick, IdleTick
<1>3. ASSUME start_tick \/ finish_tick \/ tick_aborts \/ crash PROVE FALSE
  BY <1>3 DEF start_tick, finish_tick, tick_aborts, crash, Abort, Emptied, IndInv, TypeOK, Tick,
              IdleTick
<1>4. ASSUME \/ ApiStep \/ Environment \/ api_aborts \/ scan_aborts
             \/ \E k \in Jobs : delete_job(k)
             \/ \E k \in Jobs, n \in Names : check_name(k, n)
             \/ \E k \in Jobs, w \in VolumeRequests : create_job(k, w)
      PROVE  UNCHANGED tick
  BY <1>4 DEF ApiStep, delete_forces, delete_records_event, delete_drops_row, Environment,
     deadline_passes, server_settles, firewall_propagates, worker_runs, api_aborts, scan_aborts,
     delete_job, create_job, check_name, tickVars
<1>5. ASSUME ScanStep PROVE UNCHANGED tick
  BY <1>5 DEF ScanStep, scan_lists_volumes, scan_reads_tracked_volumes, scan_deletes_volume,
     scan_lists_servers, scan_reads_tracked_servers, scan_stops_server, scan_deletes_server,
     finish_scan, tickVars
<1>6. UNCHANGED tick => Emptied(j)
  BY DEF Emptied
<1> QED
  BY <1>1, <1>2, <1>3, <1>4, <1>5, <1>6 DEF Next, TickStep, vars

\* An attached volume stays on the books.
LEMMA NextAttached ==
    ASSUME IndInv, OwnInv, AttachedKnown, [Next]_vars
    PROVE  AttachedKnown'
<1> SUFFICES ASSUME NEW v \in Volumes, volumes'[v].on # None
             PROVE  volumes'[v].state # "none" /\ \E j \in Jobs : Holds(j, v)'
  BY DEF AttachedKnown
<1>0. TitlesStay
  BY NextTitles
<1>1. CASE VolumeKept(v)
  <2>1. volumes'[v].on = volumes[v].on /\ volumes'[v].state # "none"
    BY <1>1 DEF VolumeKept, AttachedKnown
  <2>2. PICK j \in Jobs : Holds(j, v)
    BY <2>1 DEF AttachedKnown
  <2>3. job_volumes'[j] # << >> /\ Head(job_volumes'[j]) = v
    BY <2>2, NextBooks DEF Holds
  <2>4. jobs'[j].name = jobs[j].name
    BY <2>2, NextNames DEF Holds, OwnInv, AbsentEmpty
  <2>5. ~Emptied(j)'
    BY <2>2, NextEmptied DEF Holds
  <2>6. volumes[v].on \in Servers
    BY <2>1 DEF IndInv, TypeOK, Volume
  <2> QED
    BY <1>0, <2>1, <2>2, <2>3, <2>4, <2>5, <2>6 DEF Holds, ServerTitled, TitlesStay, title
<1>2. ASSUME NEW k \in Jobs, NEW o \in Outcomes, handle_volume_attaching(k, o), ~VolumeKept(v)
      PROVE  volumes'[v].state # "none" /\ Holds(k, v)'
  <2>1. PICK w \in Volumes, m \in Servers : w = Head(job_volumes[k]) /\ m = jobs[k].vm
    <3>1. job_volumes[k] # << >> /\ jobs[k].vm # None
      BY <1>2 DEF handle_volume_attaching, NothingToDo
    <3> QED
      BY <3>1, RecordedServer DEF IndInv, TypeOK
  <2>2. /\ volumes' = VolumeAttached(w, m) /\ volumes[w].state = "live"
        /\ job_volumes[k] # << >> /\ HasRow(k)
        /\ UNCHANGED <<jobs, job_volumes, servers>>
    BY <1>2, <2>1 DEF handle_volume_attaching, NothingToDo, Handling, ReadsRow, dbVars
  <2>3. /\ \A u \in Volumes : u # w => volumes'[u] = volumes[u]
        /\ volumes'[w].on = m /\ volumes'[w].state = "live"
    BY <2>2 DEF VolumeAttached, IndInv, TypeOK, Volume
  <2>4. v = w
    BY <1>2, <2>3 DEF VolumeKept
  <2>5. ~Emptied(k)'
    BY <1>2, TurnKeepsBooks DEF handle_volume_attaching, Handling, Turn, FailedAttempt
  <2>6. ServerTitled(m, k)
    BY <2>1, <2>2, NoneAssumption DEF OwnInv, JobOwn, RecordedTitled
  <2> QED
    BY <2>1, <2>2, <2>3, <2>4, <2>5, <2>6 DEF Holds, ServerTitled, title
<1> QED
  BY <1>1, <1>2, NextVolumes


\* A server is deleted by its job's cleanup or by the scan.
LEMMA NextDeleted ==
    ASSUME IndInv, [Next]_vars, NEW m \in Servers,
           servers[m].state # "deleted", servers'[m].state = "deleted"
    PROVE  \/ \E j \in Jobs, o \in Outcomes : delete_worker(j, o) /\ jobs[j].vm = m
           \/ \E works \in BOOLEAN : scan_deletes_server(m, works)
<1>0. servers \in [Servers -> Server] /\ servers[m] \in Server /\ servers' # servers
  BY DEF IndInv, TypeOK
<1>1. ASSUME NEW n \in Servers, servers' = [servers EXCEPT ![n].state = "deleted"]
      PROVE  n = m
  BY <1>0, <1>1
<1>2. ASSUME NEW j \in Jobs, Handlers(j)
      PROVE  \E o \in Outcomes : delete_worker(j, o) /\ jobs[j].vm = m
  <2>1. ASSUME NEW o \in Outcomes, delete_worker(j, o) PROVE jobs[j].vm = m
    BY <1>1, <2>1, RecordedServer DEF delete_worker, ServerDeleted, NothingToDo
  <2>2. ASSUME NEW o \in Outcomes, NEW listed \in BOOLEAN, handle_vm_pending(j, o, listed)
        PROVE  FALSE
    <3>1. PICK n \in Servers : servers' = ServerCreated(n, j)
      BY <1>0, <2>2 DEF handle_vm_pending
    <3> QED
      BY <1>0, <3>1 DEF ServerCreated
  <2>3. ASSUME NEW o \in Outcomes, handle_firewall_applying(j, o) PROVE FALSE
    <3>1. PICK x : servers' = [servers EXCEPT ![jobs[j].vm].firewall = x]
      BY <1>0, <2>3 DEF handle_firewall_applying
    <3> QED
      BY <1>0, <3>1 DEF Server
  <2>4. ASSUME NEW o \in Outcomes, handle_container_configuring(j, o) PROVE FALSE
    <3>1. servers' = [servers EXCEPT ![jobs[j].ip].worker = "ready", ![jobs[j].ip].owner = j]
      BY <1>0, <2>4 DEF handle_container_configuring
    <3> QED
      BY <1>0, <3>1 DEF Server
  <2>5. ASSUME stop_worker(j) PROVE FALSE
    <3>1. servers' = [servers EXCEPT ![jobs[j].vm].state = "stopping"]
      BY <2>5 DEF stop_worker
    <3> QED
      BY <1>0, <3>1 DEF Server
  <2>6. ASSUME NEW o \in Outcomes, NEW b \in BOOLEAN,
               \/ advance(j) \/ missing_row(j) \/ attempt_fails(j) \/ force_failed(j)
               \/ handle_volume_pending(j, o, b) \/ handle_volume_attaching(j, o)
               \/ handle_firewall_verified(j) \/ handle_vm_creating(j)
               \/ handle_container_running(j) \/ handle_volume_detaching(j, o, b)
        PROVE  UNCHANGED servers
    BY <2>6 DEF advance, missing_row, attempt_fails, force_failed, handle_volume_pending,
       handle_volume_attaching, handle_firewall_verified, handle_vm_creating,
       handle_container_running, handle_volume_detaching, cloudVars
  <2>7. "ok" \in Outcomes
    BY DEF Outcomes
  <2> QED
    BY <1>0, <1>2, <2>1, <2>2, <2>3, <2>4, <2>5, <2>6, <2>7 DEF Handlers
<1>3. ASSUME TickWrites PROVE UNCHANGED servers
  BY <1>3 DEF TickWrites, insert_job_volume, set_worker_vm, set_worker_ssh_ip,
              record_completion, delete_job_volume, update_status, record_event, cloudVars
<1>4. ASSUME ApiStep PROVE UNCHANGED servers
  BY <1>4 DEF ApiStep, delete_forces, delete_records_event, delete_drops_row, cloudVars
<1>5. ASSUME ScanStep PROVE \E works \in BOOLEAN : scan_deletes_server(m, works)
  <2>1. ASSUME NEW n \in Servers, NEW works \in BOOLEAN, scan_stops_server(n, works)
        PROVE  FALSE
    <3>1. servers' = [servers EXCEPT ![n].state = "stopping"]
      BY <1>0, <2>1 DEF scan_stops_server
    <3> QED
      BY <1>0, <3>1 DEF Server
  <2>2. ASSUME NEW n \in Servers, NEW works \in BOOLEAN, scan_deletes_server(n, works)
        PROVE  n = m
    BY <1>0, <1>1, <2>2 DEF scan_deletes_server, ServerDeleted, cloudVars
  <2>3. ASSUME NEW v \in Volumes, NEW works \in BOOLEAN,
               \/ scan_deletes_volume(v, works) \/ scan_lists_volumes
               \/ scan_reads_tracked_volumes \/ scan_lists_servers
               \/ scan_reads_tracked_servers \/ finish_scan
        PROVE  UNCHANGED servers
    BY <2>3 DEF scan_deletes_volume, scan_lists_volumes, scan_reads_tracked_volumes,
       scan_lists_servers, scan_reads_tracked_servers, finish_scan, cloudVars
  <2>4. ASSUME \/ scan_lists_volumes \/ scan_reads_tracked_volumes \/ scan_lists_servers
               \/ scan_reads_tracked_servers \/ finish_scan
        PROVE  UNCHANGED servers
    BY <2>4 DEF scan_lists_volumes, scan_reads_tracked_volumes,
       scan_lists_servers, scan_reads_tracked_servers, finish_scan, cloudVars
  <2> QED
    BY <1>0, <1>5, <2>1, <2>2, <2>3, <2>4 DEF ScanStep
<1>6. ASSUME Environment PROVE FALSE
  <2>1. ASSUME NEW n \in Servers, server_settles(n) PROVE FALSE
    <3>1. PICK x \in {"started", "stopped"} : servers' = [servers EXCEPT ![n].state = x]
      BY <2>1 DEF server_settles
    <3> QED
      BY <1>0, <3>1 DEF Server
  <2>2. ASSUME NEW n \in Servers, firewall_propagates(n) PROVE FALSE
    BY <1>0, <2>2 DEF firewall_propagates, Server
  <2>3. ASSUME NEW n \in Servers, worker_runs(n) PROVE FALSE
    <3>1. PICK x : servers' = [servers EXCEPT ![n].worker = x]
      BY <2>3 DEF worker_runs
    <3> QED
      BY <1>0, <3>1 DEF Server
  <2> QED
    BY <1>0, <1>6, <2>1, <2>2, <2>3 DEF Environment, deadline_passes, cloudVars
<1>7. ASSUME \/ start_tick \/ finish_tick \/ tick_aborts \/ api_aborts \/ scan_aborts \/ crash
             \/ \E j \in Jobs : delete_job(j)
             \/ \E j \in Jobs, n \in Names : check_name(j, n)
             \/ \E j \in Jobs, w \in VolumeRequests : create_job(j, w)
      PROVE  UNCHANGED servers
  BY <1>7 DEF start_tick, finish_tick, tick_aborts, api_aborts, scan_aborts, crash, delete_job,
              create_job, check_name, cloudVars
<1> QED
  BY <1>0, <1>2, <1>3, <1>4, <1>5, <1>6, <1>7 DEF Next, TickStep, vars

\* The worker a job's cleanup deletes has nothing attached: a volume on it would
\* be on the books of a job with this worker's title, which is this job, and its
\* books are empty.
LEMMA BareWorker ==
    ASSUME IndInv, OwnInv, TitlesUsedOnce, AttachedKnown,
           NEW j \in Jobs, NEW o \in Outcomes, delete_worker(j, o), NEW v \in Volumes
    PROVE  volumes[v].on # jobs[j].vm
<1>1. snap[j] = "VMTerminating" /\ HasRow(j) /\ jobs[j].vm # None
  BY DEF delete_worker, Handling, Turn, ReadsRow, NothingToDo
<1>2. job_volumes[j] = << >>
  BY <1>1 DEF IndInv, CleanupProgress, VolumeGone
<1> SUFFICES ASSUME volumes[v].on = jobs[j].vm PROVE FALSE
  OBVIOUS
<1>3. PICK k \in Jobs : Holds(k, v)
  BY <1>1 DEF AttachedKnown
<1>4. title(k) = title(j) /\ jobs[k].status # "absent" /\ jobs[j].status # "absent"
  BY <1>1, <1>3, StatusSet
     DEF Holds, ServerTitled, HasRow, OwnInv, AbsentEmpty, JobOwn, RecordedTitled
<1> QED
  BY <1>2, <1>3, <1>4 DEF TitlesUsedOnce, OnlyTitled, Holds

LEMMA AttachedInvariance == Spec => []AttachedKnown
<1>1. Init => AttachedKnown
  BY DEF Init, AttachedKnown
<1>2. IndInv /\ OwnInv /\ AttachedKnown /\ [Next]_vars => AttachedKnown'
  BY NextAttached
<1> QED
  BY <1>1, <1>2, Invariance, Ownership, PTL DEF Spec

\* handle_vm_terminating deletes a server with storages=1 only when nothing but its
\* boot disk is attached, and no other step of the tick deletes one: a volume that
\* goes along with its server was attached to one the orphan scan deletes.
DeletedBare ==
    [][\A m \in Servers :
          servers[m].state # "deleted" /\ servers'[m].state = "deleted" =>
          \/ \A v \in Volumes : volumes[v].on # m
          \/ \E works \in BOOLEAN : scan_deletes_server(m, works)]_vars

\* The deletes of the tick take no volume along, with the scan or without it, as
\* providers/upcloud/servers.rs:211 relies on, if no two jobs have the same title.
THEOREM CleanupDeletesBare == Spec /\ []TitlesUsedOnce => DeletedBare
<1>1. ASSUME IndInv, OwnInv, TitlesUsedOnce, AttachedKnown, [Next]_vars
      PROVE  \A m \in Servers :
                servers[m].state # "deleted" /\ servers'[m].state = "deleted" =>
                \/ \A v \in Volumes : volumes[v].on # m
                \/ \E works \in BOOLEAN : scan_deletes_server(m, works)
  BY <1>1, NextDeleted, BareWorker
<1> QED
  BY <1>1, Invariance, Ownership, AttachedInvariance, PTL DEF Spec, DeletedBare

=============================================================================
