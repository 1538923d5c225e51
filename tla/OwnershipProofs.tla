--------------------------- MODULE OwnershipProofs ---------------------------
(***************************************************************************)
(* Proofs about Reconciler for every set of jobs, names, volumes and       *)
(* servers, any faults and DELETE requests, with the orphan scan: which    *)
(* resources a job has at which stage, that they are its own, and that     *)
(* nobody takes them away while it uses them.                              *)
(*                                                                         *)
(* The columns of a row say what was provisioned, jobs.status how far the  *)
(* job has come, and the tick moves status on from what it remembers.  So  *)
(* every fact about a stage is stated for all places a stage is            *)
(* remembered at (Seen): the row, the snapshot, and the turn in progress.  *)
(***************************************************************************)
EXTENDS Views, ReconcilerProofs

-----------------------------------------------------------------------------
(***************************************************************************)
(* Stages, and where they are remembered.                                  *)
(***************************************************************************)

BeforeAddress == {"Created", "VolumePending", "VolumeCreating", "VolumeCreated", "VMPending",
                  "FirewallApplying", "FirewallVerified"}
Attached == {"VolumeAttached", "ContainerConfiguring", "ContainerRunning"}
Up == {"VMRunning", "VolumeAttaching", "VolumeAttached", "ContainerConfiguring",
       "ContainerRunning"}
Walled == {"VMCreating"} \union Up
Hosted == {"FirewallApplying", "FirewallVerified"} \union Walled
Stored == {"VolumeCreating", "VolumeCreated", "VMPending"} \union Hosted
Pre == {"Created", "VolumePending"} \union Stored

\* A stage of S is where the job is, where the tick remembers it to be, or where
\* the tick is about to put it.
InTurn(j) == tick.pc \in {"record", "update"} /\ tick.job = j
Entering(j, S) == tick.pc = "update" /\ tick.job = j /\ tick.target \in S
Seen(j, S) ==
    \/ jobs[j].status \in S
    \/ snap[j] \in S
    \/ InTurn(j) /\ tick.at \in S
    \/ Entering(j, S)

\* handle_vm_creating has found the address of the worker.
AddressFound(j) == tick.pc = "record" /\ tick.job = j /\ tick.at = "VMCreating"

-----------------------------------------------------------------------------
(***************************************************************************)
(* The invariant.                                                          *)
(***************************************************************************)

\* A job that was not created yet has no volumes.
AbsentEmpty ==
    \A j \in Jobs : jobs[j].status = "absent" => job_volumes[j] = << >>

\* What is recorded for a job, or about to be, was created or found under its title.
ServerTitled(m, j) == servers[m].state # "none" /\ servers[m].title = title(j)
VolumeTitled(v, j) == volumes[v].state # "none" /\ volumes[v].title = title(j)

RecordedTitled(j) ==
    /\ jobs[j].vm # None => ServerTitled(jobs[j].vm, j)
    /\ \A i \in DOMAIN job_volumes[j] : VolumeTitled(job_volumes[j][i], j)

FoundTitled(j) ==
    tick.pc = "record" /\ tick.job = j =>
        /\ tick.at = "VolumePending" =>
              tick.target = "VolumeCreating" /\ VolumeTitled(tick.res, j)
        /\ tick.at = "VMPending" =>
              tick.target = "FirewallApplying" /\ ServerTitled(tick.res, j)
        /\ tick.at = "VMCreating" => tick.target = "VMRunning" /\ tick.res = jobs[j].vm
        /\ tick.at = "ContainerRunning" =>
              tick.target = IF tick.res = "zero" THEN "Succeeded" ELSE "Failed"
        /\ tick.at = "VolumeDetaching" => tick.target = "VolumeDeleted"

\* The address is the worker's, and there is none before VMCreating.
AddressIsVm(j) ==
    /\ jobs[j].ip \in {None, jobs[j].vm}
    /\ Seen(j, BeforeAddress) => jobs[j].ip = None

\* What each stage has set up.
Provisioned(j) ==
    ~dryRun =>
        /\ Seen(j, Hosted) => jobs[j].vm # None
        /\ Seen(j, Walled) => servers[jobs[j].vm].firewall = "visible"
        /\ jobs[j].volume = "sized" /\ Seen(j, Stored) => job_volumes[j] # << >>
        /\ jobs[j].volume = "sized" /\ OnlyTitled(j) /\ Seen(j, Attached) =>
              volumes[Head(job_volumes[j])].on = jobs[j].vm

\* The scan deletes only servers that were stopped when listed, and such a server
\* never starts again; one that a job came to track since has not got past
\* VMCreating, which waits for it to be started.
StoppedStays ==
    scan.pc \in {"srvs_listed", "srvs_doomed"} =>
        \A m \in scan.stopped : servers[m].state \in {"stopped", "deleted"}
DoomedUnused(j) ==
    scan.pc = "srvs_doomed" /\ jobs[j].vm \in scan.stopped =>
        jobs[j].ip = None /\ ~AddressFound(j) /\ ~Seen(j, Up)

\* A worker with a known address exists until its job has completed, unless
\* another job of the same title may have given it back.
Alive(j) ==
    OnlyTitled(j) /\ Seen(j, Pre) /\ (jobs[j].ip # None \/ AddressFound(j)) =>
        servers[jobs[j].vm].state # "deleted"

JobOwn(j) ==
    HasRow(j) => /\ RecordedTitled(j) /\ FoundTitled(j) /\ AddressIsVm(j)
                 /\ Provisioned(j) /\ DoomedUnused(j) /\ Alive(j)

OwnInv ==
    /\ AbsentEmpty
    /\ StoppedStays
    /\ \A j \in Jobs : JobOwn(j)

-----------------------------------------------------------------------------
(***************************************************************************)
(* Facts about the stages.                                                 *)
(***************************************************************************)

\* The stages leave out Failed and what is no status, and each includes the
\* later ones.
LEMMA StageSets ==
    /\ \A S \in {BeforeAddress, Attached, Up, Walled, Hosted, Stored, Pre} :
          /\ "none" \notin S /\ "Failed" \notin S /\ "deleted" \notin S /\ "Archived" \notin S
          /\ "VMTerminating" \notin S /\ "VolumeDetaching" \notin S /\ "Succeeded" \notin S
          /\ S \subseteq Statuses
    /\ Attached \subseteq Up /\ Up \subseteq Walled /\ Walled \subseteq Hosted
    /\ Hosted \subseteq Stored /\ Stored \subseteq Pre
  BY StatusSet DEF BeforeAddress, Attached, Up, Walled, Hosted, Stored, Pre

\* The stages and the order of the states.
LEMMA StageSteps ==
    ASSUME NEW s \in Statuses, s # "Archived"
    PROVE  /\ next_state(s) \in BeforeAddress => s \in BeforeAddress
           /\ next_state(s) \in Pre => s \in Pre
           /\ next_state(s) \in Hosted => s \in Hosted \/ s = "VMPending"
           /\ next_state(s) \in Walled => s \in Walled \/ s = "FirewallVerified"
           /\ next_state(s) \in Stored => s \in Stored \/ s = "VolumePending"
           /\ next_state(s) \in Attached => s \in Attached \/ s = "VolumeAttaching"
           /\ next_state(s) \in Up => s \in Up \/ s = "VMCreating"
  BY StatusSet, Successors, SMTT(30)
     DEF BeforeAddress, Attached, Up, Walled, Hosted, Stored, Pre

\* A stage that is seen is seen in every larger set.
LEMMA SeenIncluded ==
    ASSUME NEW j \in Jobs
    PROVE  /\ Seen(j, Attached) => Seen(j, Up)
           /\ Seen(j, Up) => Seen(j, Walled)
           /\ Seen(j, Walled) => Seen(j, Hosted)
           /\ Seen(j, Hosted) => Seen(j, Stored)
           /\ Seen(j, Stored) => Seen(j, Pre)
  BY StageSets DEF Seen, Entering

\* No two rows of different titles share a worker or a volume.
LEMMA OwnApart ==
    ASSUME IndInv, OwnInv, NEW j \in Jobs, NEW k \in Jobs, HasRow(j), HasRow(k),
           title(j) # title(k)
    PROVE  /\ jobs[j].vm # None => jobs[j].vm # jobs[k].vm
           /\ \A i \in DOMAIN job_volumes[j], h \in DOMAIN job_volumes[k] :
                 job_volumes[j][i] # job_volumes[k][h]
           /\ job_volumes[j] # << >> /\ job_volumes[k] # << >> =>
                 Head(job_volumes[j]) # Head(job_volumes[k])
<1>1. RecordedTitled(j) /\ RecordedTitled(k)
  BY DEF OwnInv, JobOwn
<1>2. \A i \in DOMAIN job_volumes[j], h \in DOMAIN job_volumes[k] :
         job_volumes[j][i] # job_volumes[k][h]
  BY <1>1 DEF RecordedTitled, VolumeTitled
<1>3. ASSUME job_volumes[j] # << >>, job_volumes[k] # << >>
      PROVE  Head(job_volumes[j]) # Head(job_volumes[k])
  <2>1. job_volumes[j] \in Seq(Volumes) /\ job_volumes[k] \in Seq(Volumes)
    BY DEF IndInv, TypeOK
  <2>2. 1 \in DOMAIN job_volumes[j] /\ 1 \in DOMAIN job_volumes[k]
    BY <1>3, <2>1
  <2>. QED  BY <1>2, <1>3, <2>1, <2>2
<1>. QED  BY <1>1, <1>2, <1>3 DEF RecordedTitled, ServerTitled

-----------------------------------------------------------------------------
(***************************************************************************)
(* The kinds of steps: what a step leaves alone.                           *)
(***************************************************************************)

\* What exists keeps its title, rules that show stay, a stopped server does not
\* start.
CloudKeeps ==
    /\ \A m \in Servers : servers[m].state # "none" =>
          /\ servers'[m].state # "none" /\ servers'[m].title = servers[m].title
          /\ servers[m].firewall = "visible" => servers'[m].firewall = "visible"
          /\ servers[m].state \in {"stopped", "deleted"} =>
                servers'[m].state \in {"stopped", "deleted"}
    /\ \A v \in Volumes : volumes[v].state # "none" =>
          volumes'[v].state # "none" /\ volumes'[v].title = volumes[v].title

\* A job keeps its volume while it needs it, and its worker, if no other job has
\* its title.
CloudSpares(j) ==
    OnlyTitled(j) =>
    /\ /\ Seen(j, Attached) /\ job_volumes[j] # << >> /\ jobs[j].vm # None
       /\ volumes[Head(job_volumes[j])].on = jobs[j].vm
       => volumes'[Head(job_volumes[j])].on = jobs[j].vm
    /\ /\ Seen(j, Pre) /\ jobs[j].vm # None /\ (jobs[j].ip # None \/ AddressFound(j))
       /\ servers[jobs[j].vm].state # "deleted"
       => servers'[jobs[j].vm].state # "deleted"

\* The scan holds on to servers it has listed as stopped, and no row tracks the
\* ones it newly dooms.
ScanKeeps ==
    /\ scan'.pc \in {"srvs_listed", "srvs_doomed"} => \A m \in scan'.stopped :
          \/ scan.pc \in {"srvs_listed", "srvs_doomed"} /\ m \in scan.stopped
          \/ servers[m].state = "stopped"
    /\ scan'.pc = "srvs_doomed" => \A m \in scan'.stopped :
          \/ scan.pc = "srvs_doomed" /\ m \in scan.stopped
          \/ \A j \in Jobs : HasRow(j) => jobs[j].vm # m

\* Rows keep their names, also after they are deleted.
NamesKept ==
    \A j \in Jobs : jobs[j].status # "absent" =>
        jobs'[j].status # "absent" /\ jobs'[j].name = jobs[j].name

\* No row appears, and the columns of those that stay are kept.
RowsKept ==
    \A j \in Jobs :
        /\ HasRow(j)' => HasRow(j)
        /\ jobs'[j].status = "absent" =>
              jobs[j].status = "absent" /\ job_volumes'[j] = job_volumes[j]
RowKept(j) ==
    /\ jobs'[j].name = jobs[j].name
    /\ jobs'[j].volume = jobs[j].volume
    /\ jobs'[j].vm = jobs[j].vm
    /\ jobs'[j].ip = jobs[j].ip
    /\ job_volumes'[j] = job_volumes[j]

\* The stages the step enters were prepared.
StagesJustified(j) ==
    /\ Seen(j, BeforeAddress)' => Seen(j, BeforeAddress)
    /\ Seen(j, Pre)' => Seen(j, Pre)
    /\ ~dryRun =>
          /\ Seen(j, Hosted)' => Seen(j, Hosted) \/ jobs[j].vm # None
          /\ Seen(j, Walled)' => Seen(j, Walled) \/ servers[jobs[j].vm].firewall = "visible"
          /\ Seen(j, Up)' => Seen(j, Up) \/ servers[jobs[j].vm].state = "started"
          /\ jobs[j].volume = "sized" =>
                /\ Seen(j, Stored)' => Seen(j, Stored) \/ job_volumes[j] # << >>
                /\ Seen(j, Attached)' => Seen(j, Attached)
                      \/ volumes'[Head(job_volumes[j])].on = jobs[j].vm
    /\ AddressFound(j)' => \/ AddressFound(j)
                           \/ /\ servers[jobs[j].vm].state = "started"
                              /\ servers'[jobs[j].vm].state = "started"
    /\ tick' = tick \/ FoundTitled(j)'

\* A title that no other job has now, none had before.
LEMMA TitlesKept ==
    ASSUME NamesKept, NEW j \in Jobs, jobs[j].status # "absent", OnlyTitled(j)'
    PROVE  OnlyTitled(j)
  BY DEF NamesKept, OnlyTitled, title

\* Such a step preserves what is known of a job whose row it keeps.
LEMMA JobKept ==
    ASSUME IndInv, IndInv', OwnInv, UNCHANGED dryRun, CloudKeeps, ScanKeeps, NamesKept,
           NEW j \in Jobs, HasRow(j), RowKept(j), CloudSpares(j), StagesJustified(j)
    PROVE  JobOwn(j)'
<1>1. /\ RecordedTitled(j) /\ FoundTitled(j) /\ AddressIsVm(j)
      /\ Provisioned(j) /\ DoomedUnused(j) /\ Alive(j) /\ StoppedStays
  BY DEF OwnInv, JobOwn
<1>2. /\ jobs[j].vm \in Servers \union {None} /\ jobs[j].ip \in Servers \union {None}
      /\ None \notin Servers
      /\ job_volumes[j] \in Seq(Volumes)
  BY NoneAssumption DEF IndInv, TypeOK, Row
<1>3. \A m \in Servers : ServerTitled(m, j) => ServerTitled(m, j)'
  BY DEF RowKept, CloudKeeps, ServerTitled, title
<1>4. \A v \in Volumes : VolumeTitled(v, j) => VolumeTitled(v, j)'
  BY DEF RowKept, CloudKeeps, VolumeTitled, title
<1>t. OnlyTitled(j)' => OnlyTitled(j)
  BY TitlesKept, StatusSet DEF HasRow
<1>5. RecordedTitled(j)'
  <2>1. jobs'[j].vm # None => ServerTitled(jobs[j].vm, j)'
    BY <1>1, <1>2, <1>3 DEF RecordedTitled, RowKept
  <2>2. \A i \in DOMAIN job_volumes[j] : VolumeTitled(job_volumes[j][i], j)'
    BY <1>1, <1>2, <1>4 DEF RecordedTitled, RowKept, VolumeTitled
  <2> QED
    BY <2>1, <2>2 DEF RecordedTitled, RowKept
<1>6. FoundTitled(j)'
  <2>1. CASE tick' = tick
    <3>1. tick.pc = "record" => /\ tick.at = "VolumePending" => tick.res \in Volumes
                                /\ tick.at = "VMPending" => tick.res \in Servers
      BY DEF IndInv, InFlightOK
    <3> QED
      BY <1>1, <1>3, <1>4, <2>1, <3>1 DEF FoundTitled, RowKept, VolumeTitled, ServerTitled
  <2> QED
    BY <2>1 DEF StagesJustified
<1>7. AddressIsVm(j)'
  BY <1>1 DEF AddressIsVm, RowKept, StagesJustified
<1>8. Provisioned(j)'
  <2> SUFFICES ASSUME ~dryRun PROVE Provisioned(j)'
    BY DEF Provisioned
  <2>1. Seen(j, Hosted)' => jobs[j].vm # None
    BY <1>1 DEF Provisioned, StagesJustified
  <2>2. Seen(j, Walled)' => Seen(j, Hosted)'
    BY SeenIncluded, StageSets DEF Seen, Entering
  <2>3. Seen(j, Walled)' => servers'[jobs[j].vm].firewall = "visible"
    <3>1. jobs[j].vm # None => servers[jobs[j].vm].state # "none"
      BY <1>1 DEF RecordedTitled, ServerTitled
    <3> QED
      BY <1>1, <1>2, <2>1, <2>2, <3>1 DEF Provisioned, StagesJustified, CloudKeeps
  <2>4. jobs[j].volume = "sized" /\ Seen(j, Stored)' => job_volumes[j] # << >>
    BY <1>1 DEF Provisioned, StagesJustified
  <2>5. jobs[j].volume = "sized" /\ OnlyTitled(j)' /\ Seen(j, Attached)' =>
           volumes'[Head(job_volumes[j])].on = jobs[j].vm
    BY <1>1, <1>t, SeenIncluded DEF Provisioned, StagesJustified, CloudSpares
  <2> QED
    BY <2>1, <2>3, <2>4, <2>5 DEF Provisioned, RowKept
<1>9. DoomedUnused(j)'
  <2> SUFFICES ASSUME scan'.pc = "srvs_doomed", jobs[j].vm \in scan'.stopped
               PROVE  jobs[j].ip = None /\ ~AddressFound(j)' /\ ~Seen(j, Up)'
    BY DEF DoomedUnused, RowKept
  <2>1. scan.pc = "srvs_doomed" /\ jobs[j].vm \in scan.stopped /\ jobs[j].vm \in Servers
    BY <1>2 DEF ScanKeeps, IndInv, TypeOK, Scan
  <2>2. servers[jobs[j].vm].state # "started" /\ ~dryRun
    BY <1>1, <1>2, <2>1 DEF StoppedStays, IndInv, DryRunRecordsNothing
  <2> QED
    BY <1>1, <2>1, <2>2 DEF DoomedUnused, StagesJustified
<1>10. Alive(j)'
  <2> SUFFICES ASSUME OnlyTitled(j)', Seen(j, Pre)', jobs[j].ip # None \/ AddressFound(j)'
               PROVE  servers'[jobs[j].vm].state # "deleted"
    BY DEF Alive, RowKept
  <2>1. CASE jobs[j].ip = None /\ ~AddressFound(j)
    BY <2>1 DEF StagesJustified
  <2>2. CASE jobs[j].ip # None \/ AddressFound(j)
    <3>1. jobs[j].vm # None
      <4>1. AddressFound(j) => tick.res \in Servers /\ tick.res = jobs[j].vm
        BY <1>1 DEF AddressFound, FoundTitled, IndInv, InFlightOK
      <4> QED
        BY <1>1, <1>2, <2>2, <4>1 DEF AddressIsVm
    <3> QED
      BY <1>1, <1>t, <2>2, <3>1 DEF StagesJustified, Alive, CloudSpares
  <2> QED
    BY <2>1, <2>2
<1> QED
  BY <1>5, <1>6, <1>7, <1>8, <1>9, <1>10 DEF JobOwn

\* The rest of the invariant.
LEMMA OwnKept ==
    ASSUME IndInv', OwnInv, CloudKeeps, ScanKeeps, RowsKept,
           \A j \in Jobs : HasRow(j)' => JobOwn(j)'
    PROVE  OwnInv'
<1>1. AbsentEmpty'
  BY DEF OwnInv, AbsentEmpty, RowsKept
<1>2. StoppedStays'
  <2>1. ASSUME scan'.pc \in {"srvs_listed", "srvs_doomed"}, NEW m \in scan'.stopped,
               m \in Servers
        PROVE  servers'[m].state \in {"stopped", "deleted"}
    BY <2>1 DEF OwnInv, StoppedStays, ScanKeeps, CloudKeeps
  <2>2. scan'.stopped \subseteq Servers
    BY DEF IndInv, TypeOK, Scan
  <2> QED
    BY <2>1, <2>2 DEF StoppedStays
<1>3. \A j \in Jobs : JobOwn(j)'
  BY DEF JobOwn
<1> QED
  BY <1>1, <1>2, <1>3 DEF OwnInv

\* A tick that goes no further enters no stage.
LEMMA NoStageEntered ==
    ASSUME IndInv, NEW j \in Jobs, HasRow(j),
           \/ jobs'[j].status \in {jobs[j].status, "Failed"}
           \/ tick.pc = "update" /\ tick.job = j /\ jobs'[j].status = tick.target,
           snap'[j] \in {snap[j], "none", jobs[j].status},
           tick' = tick \/ tick'.pc \notin {"record", "update"}
    PROVE  StagesJustified(j)
<1>1. ASSUME NEW S \in {BeforeAddress, Attached, Up, Walled, Hosted, Stored, Pre}, Seen(j, S)'
      PROVE  Seen(j, S)
  BY <1>1, StageSets DEF Seen, InTurn, Entering
<1>2. AddressFound(j)' => AddressFound(j)
  BY DEF AddressFound
<1>3. tick' = tick \/ FoundTitled(j)'
  BY DEF FoundTitled
<1> QED
  BY <1>1, <1>2, <1>3 DEF StagesJustified

\* A step that changes rows only by moving them to a state the tick was about to
\* put them in, to Failed, or by deleting them.
LEMMA NarrowStep ==
    ASSUME IndInv, IndInv', OwnInv, CloudKeeps, ScanKeeps, UNCHANGED <<dryRun, job_volumes>>,
           tick' = tick \/ tick'.pc \notin {"record", "update"},
           \A j \in Jobs :
              /\ HasRow(j) => CloudSpares(j)
              /\ snap'[j] \in {snap[j], "none", jobs[j].status}
              /\ \/ jobs'[j] = jobs[j]
                 \/ jobs'[j].status = "deleted" /\ jobs'[j].name = jobs[j].name
                 \/ /\ HasRow(j) /\ RowKept(j)
                    /\ \/ jobs'[j].status = "Failed"
                       \/ tick.pc = "update" /\ tick.job = j /\ jobs'[j].status = tick.target
    PROVE  OwnInv'
<1>1. "deleted" \notin Statuses /\ "absent" \notin Statuses /\ "Failed" \in Statuses
  BY StatusSet
<1>2. tick.pc = "update" => tick.target \in Statuses
  BY DEF IndInv, InFlightOK
<1>3. RowsKept /\ NamesKept
  BY <1>1, <1>2 DEF RowsKept, NamesKept, HasRow, RowKept
<1>4. ASSUME NEW j \in Jobs, HasRow(j)' PROVE JobOwn(j)'
  <2>1. HasRow(j)
    BY <1>3, <1>4 DEF RowsKept
  <2>2. RowKept(j)
    BY <1>1, <1>4 DEF RowKept, HasRow
  <2>3. StagesJustified(j)
    BY <1>1, <1>4, <2>1, NoStageEntered DEF HasRow
  <2> QED
    BY <1>3, <2>1, <2>2, <2>3, JobKept
<1> QED
  BY <1>3, <1>4, OwnKept

\* Where the cloud and the scan are left alone.
LEMMA CloudUntouched ==
    ASSUME UNCHANGED <<volumes, servers>>
    PROVE  CloudKeeps /\ \A j \in Jobs : CloudSpares(j)
  BY DEF CloudKeeps, CloudSpares
LEMMA ScanUntouched ==
    ASSUME scan' = scan \/ scan' = IdleScan
    PROVE  ScanKeeps
  BY DEF ScanKeeps, IdleScan

-----------------------------------------------------------------------------
(***************************************************************************)
(* The steps of the tick that enter no stage, and those of the API.        *)
(***************************************************************************)

\* A DELETE request that reads the row leaves the tick alone.
LEMMA RequestKeepsTick ==
    ASSUME NEW j \in Jobs, delete_job(j)
    PROVE  UNCHANGED tickVars
  BY Zenon DEF delete_job

\* The tick starts, ends, is cut short, or records an event; a request is
\* read, answered or cut short; a deadline passes.
LEMMA QuietOwn ==
    ASSUME IndInv, IndInv', OwnInv,
           \/ start_tick \/ finish_tick \/ tick_aborts \/ crash \/ record_event
           \/ delete_records_event \/ api_aborts \/ scan_aborts
           \/ \E j \in Jobs : delete_job(j) \/ deadline_passes(j)
           \/ \E j \in Jobs, n \in Names : check_name(j, n)
    PROVE  OwnInv'
<1> USE DEF start_tick, finish_tick, tick_aborts, crash, record_event, delete_records_event,
            api_aborts, scan_aborts, delete_job, deadline_passes, check_name
<1>1. UNCHANGED <<dryRun, jobs, job_volumes, volumes, servers>>
  BY DEF dbVars, cloudVars
<1>2. scan' = scan \/ scan' = IdleScan
  OBVIOUS
<1> HIDE DEF start_tick, finish_tick, tick_aborts, crash, record_event, delete_records_event,
             api_aborts, scan_aborts, delete_job, deadline_passes, check_name
<1>3. tick' = tick \/ tick'.pc \notin {"record", "update"}
  <2>1. CASE start_tick
    BY <2>1 DEF start_tick, IndInv, TypeOK, Tick
  <2>2. ASSUME NEW j \in Jobs, delete_job(j) \/ deadline_passes(j)
        PROVE  tick' = tick
    BY <2>2, RequestKeepsTick DEF deadline_passes, tickVars
  <2>3. CASE finish_tick \/ tick_aborts \/ crash \/ record_event
    BY <2>3 DEF finish_tick, tick_aborts, crash, record_event, Abort, IdleTick
  <2>4. CASE \/ delete_records_event \/ api_aborts \/ scan_aborts
             \/ \E j \in Jobs, n \in Names : check_name(j, n)
    BY <2>4 DEF delete_records_event, api_aborts, scan_aborts, check_name, tickVars
  <2> QED
    BY <2>1, <2>2, <2>3, <2>4
<1>4. \A j \in Jobs : snap'[j] \in {snap[j], "none", jobs[j].status}
  BY DEF start_tick, finish_tick, tick_aborts, crash, record_event, delete_records_event,
         api_aborts, scan_aborts, delete_job, deadline_passes, check_name, tickVars, Abort,
         NoSnapshot
<1> QED
  BY <1>1, <1>2, <1>3, <1>4, CloudUntouched, ScanUntouched, NarrowStep

\* The writes of jobs.status, by the tick and by a DELETE request.
LEMMA StatusOwn ==
    ASSUME IndInv, IndInv', OwnInv,
           \/ update_status \/ delete_forces \/ delete_drops_row
           \/ \E j \in Jobs : force_failed(j)
    PROVE  OwnInv'
<1>0. jobs \in [Jobs -> Row]
  BY DEF IndInv, TypeOK
<1>1. UNCHANGED <<dryRun, job_volumes, volumes, servers, scan>>
  BY DEF update_status, delete_forces, delete_drops_row, force_failed, cloudVars
<1>2. /\ tick' = tick \/ tick'.pc \notin {"record", "update"}
      /\ \A j \in Jobs : snap'[j] \in {snap[j], "none"}
  BY DEF update_status, delete_forces, delete_drops_row, force_failed, tickVars, Proceed,
         IndInv, TypeOK, Tick
<1>3. ASSUME NEW j \in Jobs
      PROVE  \/ jobs'[j] = jobs[j]
             \/ jobs'[j].status = "deleted" /\ jobs'[j].name = jobs[j].name
             \/ /\ HasRow(j) /\ RowKept(j)
                /\ \/ jobs'[j].status = "Failed"
                   \/ tick.pc = "update" /\ tick.job = j /\ jobs'[j].status = tick.target
  <2>1. jobs[j] \in Row
    BY <1>0
  <2>2. CASE update_status
    BY <1>0, <1>1, <2>1, <2>2 DEF update_status, SetColumn, RowKept, Row
  <2>3. CASE delete_forces
    BY <1>0, <1>1, <2>1, <2>3 DEF delete_forces, RowKept, Row
  <2>4. CASE delete_drops_row
    BY <1>0, <1>1, <2>1, <2>4 DEF delete_drops_row, Row
  <2>5. CASE \E i \in Jobs : force_failed(i)
    BY <1>0, <1>1, <2>1, <2>5 DEF force_failed, RowKept, Row
  <2> QED
    BY <2>2, <2>3, <2>4, <2>5
<1> QED
  BY <1>1, <1>2, <1>3, CloudUntouched, ScanUntouched, NarrowStep


\* create_job: the new row has nothing yet, and no tick has selected it.
LEMMA CreateOwn ==
    ASSUME IndInv, IndInv', OwnInv, NEW j \in Jobs, NEW w \in VolumeRequests,
           create_job(j, w)
    PROVE  OwnInv'
<1> DEFINE r == [NoRow EXCEPT !.status = "Created", !.name = api.creating[j], !.volume = w]
<1>1. /\ jobs' = [jobs EXCEPT ![j] = r] /\ jobs[j].status = "absent"
      /\ UNCHANGED <<dryRun, job_volumes, volumes, servers, snap, tick, scan>>
  BY DEF create_job, cloudVars, tickVars
<1>2. r.status = "Created" /\ r.vm = None /\ r.ip = None
  BY DEF NoRow
<1> HIDE DEF r
<1>3. /\ jobs'[j] = r
      /\ \A i \in Jobs : i # j => jobs'[i] = jobs[i]
  BY <1>1 DEF IndInv, TypeOK
<1>4. /\ "absent" \notin Statuses /\ "none" \notin Statuses /\ "Created" \in Statuses
      /\ "Created" # "absent"
  BY StatusSet
<1>5. CloudKeeps /\ (\A k \in Jobs : CloudSpares(k)) /\ ScanKeeps
  BY <1>1, CloudUntouched, ScanUntouched
<1>6. NamesKept
  BY <1>1, <1>3 DEF NamesKept
<1>7. AbsentEmpty' /\ StoppedStays'
  BY <1>1, <1>2, <1>3, <1>4 DEF OwnInv, AbsentEmpty, StoppedStays
<1>8. snap[j] = "none" /\ (tick.pc \in {"record", "update"} => tick.job # j)
  <2>1. snap[j] \in Statuses \union {"none"} /\ tick.at \in Statuses \union {"none"}
    BY DEF IndInv, TypeOK, Tick
  <2>2. "absent" \notin {"Failed", "deleted", "none"}
    OBVIOUS
  <2> QED
    BY <1>1, <1>4, <2>1, <2>2 DEF IndInv, SnapshotCoherent
<1>9. JobOwn(j)'
  <2>1. job_volumes[j] = << >>
    BY <1>1 DEF OwnInv, AbsentEmpty
  <2>2. ASSUME NEW S \in {Attached, Up, Walled, Hosted, Stored} PROVE ~Seen(j, S)'
    <3>1. "Created" \notin S /\ "none" \notin S
      BY DEF Attached, Up, Walled, Hosted, Stored
    <3> QED
      BY <1>1, <1>2, <1>3, <1>8, <3>1 DEF Seen, InTurn, Entering
  <2>3. RecordedTitled(j)' /\ FoundTitled(j)' /\ AddressIsVm(j)'
    BY <1>1, <1>2, <1>3, <1>8, <2>1 DEF RecordedTitled, FoundTitled, AddressIsVm
  <2>4. ~AddressFound(j)'
    BY <1>1, <1>8 DEF AddressFound
  <2> QED
    BY <1>2, <1>3, <2>2, <2>3, <2>4 DEF JobOwn, Provisioned, DoomedUnused, Alive
<1>10. ASSUME NEW k \in Jobs, k # j, HasRow(k)' PROVE JobOwn(k)'
  <2>1. HasRow(k) /\ RowKept(k)
    BY <1>1, <1>3, <1>10 DEF HasRow, RowKept
  <2>2. StagesJustified(k)
    BY <1>1, <1>3, <1>10, <2>1, NoStageEntered
  <2> QED
    BY <1>1, <1>5, <1>6, <2>1, <2>2, JobKept
<1> QED
  BY <1>7, <1>9, <1>10 DEF OwnInv, JobOwn

-----------------------------------------------------------------------------
(***************************************************************************)
(* The writes of what a handler returned.                                  *)
(***************************************************************************)

\* They concern the job at hand alone, which is in the state recorded, or has
\* been failed or removed meanwhile.
LEMMA RecordOwn ==
    ASSUME IndInv, IndInv', OwnInv, NEW k \in Jobs, k = tick.job,
           UNCHANGED <<dryRun, volumes, servers, snap, scan>>,
           tick.pc = "record", tick' = [tick EXCEPT !.pc = "update"],
           \A j \in Jobs : /\ jobs'[j].status = jobs[j].status
                           /\ jobs'[j].name = jobs[j].name
                           /\ j # k => RowKept(j),
           JobOwn(k)'
    PROVE  OwnInv'
<1>1. tick.at \in Statuses \union {"none"} /\ "absent" \notin Statuses
  BY StatusSet DEF IndInv, TypeOK, Tick, InFlightOK
<1>2. RowsKept /\ NamesKept
  <2>1. jobs[k].status # "absent"
    BY <1>1, StatusSet DEF IndInv, SnapshotCoherent
  <2> QED
    BY <2>1 DEF RowsKept, NamesKept, HasRow, RowKept
<1>3. ASSUME NEW j \in Jobs, j # k, HasRow(j)' PROVE JobOwn(j)'
  <2>1. HasRow(j) /\ RowKept(j)
    BY <1>3 DEF HasRow
  <2>2. tick'.pc = "update" /\ tick'.job = k
    BY DEF IndInv, TypeOK, Tick
  <2>3. ASSUME NEW S, Seen(j, S)' PROVE Seen(j, S)
    BY <1>3, <2>2, <2>3 DEF Seen, InTurn, Entering
  <2>4. ~AddressFound(j)' /\ FoundTitled(j)'
    BY <2>2 DEF AddressFound, FoundTitled
  <2>5. StagesJustified(j)
    BY <2>3, <2>4 DEF StagesJustified
  <2> QED
    BY <1>2, <2>1, <2>5, CloudUntouched, ScanUntouched, JobKept
<1> QED
  BY <1>2, <1>3, CloudUntouched, ScanUntouched, OwnKept

\* What is known of the job at hand when its result is written.
LEMMA Recorded ==
    ASSUME IndInv, IndInv', OwnInv, NEW k \in Jobs, k = tick.job, NEW s \in Statuses, Recording(s),
           UNCHANGED snap, jobs'[k].status = jobs[k].status
    PROVE  /\ ~dryRun
           /\ tick.pc = "record" /\ tick.at = s /\ tick' = [tick EXCEPT !.pc = "update"]
           /\ tick'.pc = "update" /\ tick'.job = k /\ tick'.at = s
           /\ tick'.target = tick.target
           /\ \A S \in {BeforeAddress, Attached, Up, Walled, Hosted, Stored, Pre} :
                 /\ s \notin S => ~Seen(k, S)
                 /\ s \notin S /\ tick.target \notin S => ~Seen(k, S)'
                 /\ s \in S => Seen(k, S)
<1>1. ~dryRun /\ tick.pc = "record" /\ tick.at = s
  BY DEF Recording, IndInv, InFlightOK, DryRunRecordsNothing
<1>2. /\ tick' = [tick EXCEPT !.pc = "update"]
      /\ tick'.pc = "update" /\ tick'.job = k /\ tick'.at = s
      /\ tick'.target = tick.target
  BY <1>1 DEF Recording, IndInv, TypeOK, Tick
<1>3. snap[k] = "none" /\ jobs[k].status \in {s, "Failed", "deleted"}
  BY <1>1 DEF IndInv, SnapshotCoherent
<1>4. ASSUME NEW S \in {BeforeAddress, Attached, Up, Walled, Hosted, Stored, Pre}
      PROVE  /\ s \notin S => ~Seen(k, S)
             /\ s \notin S /\ tick.target \notin S => ~Seen(k, S)'
             /\ s \in S => Seen(k, S)
  <2>1. "none" \notin S /\ "Failed" \notin S /\ "deleted" \notin S
    BY StageSets
  <2> QED
    BY <1>1, <1>2, <1>3, <2>1 DEF Seen, InTurn, Entering
<1> QED
  BY <1>1, <1>2, <1>4


\* VolumePending: the volume becomes the job's last, its first if it had none.
LEMMA InsertVolumeOwn ==
    ASSUME IndInv, IndInv', OwnInv, insert_job_volume
    PROVE  OwnInv'
<1>0. PICK k \in Jobs : k = tick.job
  BY DEF insert_job_volume, delete_job_volume, Recording, IndInv, InFlightOK
<1>1. /\ Recording("VolumePending")
      /\ job_volumes' = [job_volumes EXCEPT ![k] = Append(@, tick.res)]
      /\ UNCHANGED <<dryRun, jobs, volumes, servers, snap, scan>>
  BY <1>0 DEF insert_job_volume, cloudVars
<1>2. /\ ~dryRun /\ tick.pc = "record" /\ tick.at = "VolumePending"
      /\ tick' = [tick EXCEPT !.pc = "update"]
      /\ tick'.pc = "update" /\ tick'.job = k /\ tick'.target = tick.target
      /\ \A S \in {BeforeAddress, Attached, Up, Walled, Hosted, Stored, Pre} :
            /\ "VolumePending" \notin S /\ tick.target \notin S => ~Seen(k, S)'
            /\ "VolumePending" \in S => Seen(k, S)
  BY <1>0, <1>1, Recorded, StatusSet
<1>3. tick.res \in Volumes /\ job_volumes \in [Jobs -> Seq(Volumes)]
  BY <1>2 DEF IndInv, TypeOK, InFlightOK
<1>4. \A j \in Jobs : j # k => RowKept(j)
  BY <1>1, <1>2, <1>3 DEF RowKept
<1>5. ASSUME HasRow(k) PROVE JobOwn(k)'
  <2>1. /\ RecordedTitled(k) /\ FoundTitled(k) /\ AddressIsVm(k)
        /\ Provisioned(k) /\ DoomedUnused(k) /\ Alive(k)
    BY <1>2, <1>5 DEF OwnInv, JobOwn
  <2>2. tick.target = "VolumeCreating" /\ VolumeTitled(tick.res, k)
    BY <1>0, <1>2, <2>1 DEF FoundTitled
  <2>3. job_volumes'[k] = Append(job_volumes[k], tick.res) /\ job_volumes[k] \in Seq(Volumes)
    BY <1>1, <1>2, <1>3
  <2>4. job_volumes'[k] # << >>
    BY <1>3, <2>3
  <2>5. ASSUME NEW i \in DOMAIN job_volumes'[k]
        PROVE  VolumeTitled(job_volumes'[k][i], k)
    <3>1. \/ job_volumes'[k][i] = tick.res
          \/ i \in DOMAIN job_volumes[k] /\ job_volumes'[k][i] = job_volumes[k][i]
      BY <1>3, <2>3, <2>5
    <3> QED
      BY <2>1, <2>2, <3>1 DEF RecordedTitled
  <2>6. RecordedTitled(k)'
    BY <1>1, <2>1, <2>5 DEF RecordedTitled, ServerTitled, VolumeTitled, title
  <2>7. ~Seen(k, Attached)' /\ ~Seen(k, Up)' /\ ~Seen(k, Walled)' /\ ~Seen(k, Hosted)'
    BY <1>2, <2>2 DEF Attached, Up, Walled, Hosted
  <2>8. Seen(k, BeforeAddress) /\ ~AddressFound(k)' /\ ~AddressFound(k)
    BY <1>2 DEF BeforeAddress, AddressFound
  <2>9. FoundTitled(k)' /\ AddressIsVm(k)' /\ Alive(k)'
    BY <1>1, <1>2, <2>1, <2>8 DEF FoundTitled, AddressIsVm, Alive
  <2>10. Provisioned(k)' /\ DoomedUnused(k)'
    BY <1>1, <2>1, <2>4, <2>7, <2>8 DEF Provisioned, DoomedUnused, AddressIsVm
  <2> QED
    BY <2>6, <2>9, <2>10 DEF JobOwn
<1>6. JobOwn(k)'
  BY <1>1, <1>5 DEF JobOwn, HasRow
<1> QED
  BY <1>0, <1>1, <1>2, <1>4, <1>6, RecordOwn

\* VolumeDetaching: the job is past needing its volume.
LEMMA DeleteVolumeOwn ==
    ASSUME IndInv, IndInv', OwnInv, delete_job_volume
    PROVE  OwnInv'
<1>0. PICK k \in Jobs : k = tick.job
  BY DEF insert_job_volume, delete_job_volume, Recording, IndInv, InFlightOK
<1>1. /\ Recording("VolumeDetaching")
      /\ job_volumes' = [job_volumes EXCEPT ![k] = << >>]
      /\ UNCHANGED <<dryRun, jobs, volumes, servers, snap, scan>>
  BY <1>0 DEF delete_job_volume, cloudVars
<1>2. /\ tick.pc = "record" /\ tick.at = "VolumeDetaching"
      /\ tick' = [tick EXCEPT !.pc = "update"]
      /\ tick'.pc = "update" /\ tick'.target = tick.target
      /\ \A S \in {BeforeAddress, Attached, Up, Walled, Hosted, Stored, Pre} :
            "VolumeDetaching" \notin S /\ tick.target \notin S => ~Seen(k, S)'
  BY <1>0, <1>1, Recorded, StatusSet
<1>3. job_volumes \in [Jobs -> Seq(Volumes)]
  BY DEF IndInv, TypeOK
<1>4. \A j \in Jobs : j # k => RowKept(j)
  BY <1>1, <1>2, <1>3 DEF RowKept
<1>5. ASSUME HasRow(k) PROVE JobOwn(k)'
  <2>1. RecordedTitled(k) /\ FoundTitled(k) /\ AddressIsVm(k) /\ DoomedUnused(k)
    BY <1>2, <1>5 DEF OwnInv, JobOwn
  <2>2. tick.target = "VolumeDeleted"
    BY <1>0, <1>2, <2>1 DEF FoundTitled
  <2>3. \A S \in {BeforeAddress, Attached, Up, Walled, Hosted, Stored, Pre} : ~Seen(k, S)'
    <3>1. \A S \in {BeforeAddress, Attached, Up, Walled, Hosted, Stored, Pre} :
             "VolumeDetaching" \notin S /\ "VolumeDeleted" \notin S
      BY DEF BeforeAddress, Attached, Up, Walled, Hosted, Stored, Pre
    <3> QED
      BY <1>2, <2>2, <3>1
  <2>4. job_volumes'[k] = << >>
    BY <1>1, <1>2, <1>3
  <2>5. RecordedTitled(k)'
    BY <1>1, <2>1, <2>4 DEF RecordedTitled, ServerTitled, title
  <2>6. ~AddressFound(k)' /\ FoundTitled(k)' /\ AddressIsVm(k)'
    BY <1>1, <1>2, <2>1, <2>3 DEF AddressFound, FoundTitled, AddressIsVm
  <2>7. Provisioned(k)' /\ DoomedUnused(k)' /\ Alive(k)'
    BY <1>1, <2>1, <2>3, <2>6 DEF Provisioned, DoomedUnused, Alive
  <2> QED
    BY <2>5, <2>6, <2>7 DEF JobOwn
<1>6. JobOwn(k)'
  BY <1>1, <1>5 DEF JobOwn, HasRow
<1> QED
  BY <1>0, <1>1, <1>2, <1>4, <1>6, RecordOwn

\* A column of the job at hand is written, if it still has a row.
LEMMA ColumnWritten ==
    ASSUME IndInv, NEW k \in Jobs, k = tick.job,
           NEW r, SetColumn(r), r.status = jobs[k].status, r.name = jobs[k].name,
           UNCHANGED job_volumes
    PROVE  /\ \A j \in Jobs : /\ jobs'[j].status = jobs[j].status
                              /\ jobs'[j].name = jobs[j].name
                              /\ j # k => RowKept(j)
           /\ HasRow(k)' => HasRow(k) /\ jobs'[k] = r
  BY DEF IndInv, TypeOK, SetColumn, HasRow, RowKept


\* VMPending: the worker is recorded; the job has no address yet, and nothing is
\* set up on the worker it may have had before.
LEMMA WorkerOwn ==
    ASSUME IndInv, IndInv', OwnInv, set_worker_vm
    PROVE  OwnInv'
<1>0. PICK k \in Jobs : k = tick.job
  BY DEF set_worker_vm, Recording, IndInv, InFlightOK
<1> DEFINE r == [jobs[k] EXCEPT !.vm = tick.res]
<1>1. /\ Recording("VMPending") /\ SetColumn(r)
      /\ UNCHANGED <<dryRun, job_volumes, volumes, servers, snap, scan>>
  BY <1>0 DEF set_worker_vm, cloudVars
<1>2. /\ r.status = jobs[k].status /\ r.name = jobs[k].name /\ r.ip = jobs[k].ip
      /\ r.vm = tick.res
  BY DEF IndInv, TypeOK, Row
<1> HIDE DEF r
<1>3. /\ \A j \in Jobs : /\ jobs'[j].status = jobs[j].status
                         /\ jobs'[j].name = jobs[j].name
                         /\ j # k => RowKept(j)
      /\ HasRow(k)' => HasRow(k) /\ jobs'[k] = r
  BY <1>0, <1>1, <1>2, ColumnWritten
<1>4. /\ tick.pc = "record" /\ tick.at = "VMPending" /\ tick' = [tick EXCEPT !.pc = "update"]
      /\ tick'.pc = "update" /\ tick'.job = k /\ tick'.target = tick.target
      /\ \A S \in {BeforeAddress, Attached, Up, Walled, Hosted, Stored, Pre} :
            /\ "VMPending" \notin S /\ tick.target \notin S => ~Seen(k, S)'
            /\ "VMPending" \in S => Seen(k, S)
  BY <1>0, <1>1, <1>3, Recorded, StatusSet
<1>5. ASSUME HasRow(k)' PROVE JobOwn(k)'
  <2>1. /\ RecordedTitled(k) /\ FoundTitled(k) /\ AddressIsVm(k) /\ Provisioned(k)
        /\ jobs'[k] = r
    BY <1>3, <1>5 DEF OwnInv, JobOwn
  <2>2. tick.target = "FirewallApplying" /\ ServerTitled(tick.res, k) /\ tick.res \in Servers
    BY <1>0, <1>4, <2>1 DEF FoundTitled, IndInv, InFlightOK
  <2>3. Seen(k, BeforeAddress) /\ Seen(k, Stored)
    BY <1>4 DEF BeforeAddress, Stored
  <2>4. ~Seen(k, Attached)' /\ ~Seen(k, Up)' /\ ~Seen(k, Walled)'
    BY <1>4, <2>2 DEF Attached, Up, Walled
  <2>5. jobs'[k].ip = None /\ ~AddressFound(k)'
    BY <1>2, <1>4, <2>1, <2>3 DEF AddressIsVm, AddressFound
  <2>6. RecordedTitled(k)' /\ FoundTitled(k)' /\ AddressIsVm(k)'
    BY <1>1, <1>2, <1>4, <2>1, <2>2, <2>5
       DEF RecordedTitled, ServerTitled, VolumeTitled, FoundTitled, AddressIsVm, title
  <2>7. Provisioned(k)'
    <3>1. jobs'[k].vm # None /\ jobs'[k].volume = jobs[k].volume
      BY <1>2, <2>1, <2>2, NoneAssumption DEF r, IndInv, TypeOK, Row
    <3> QED
      BY <1>1, <2>1, <2>3, <2>4, <3>1 DEF Provisioned
  <2>8. DoomedUnused(k)' /\ Alive(k)'
    BY <2>4, <2>5 DEF DoomedUnused, Alive
  <2> QED
    BY <2>6, <2>7, <2>8 DEF JobOwn
<1>6. JobOwn(k)'
  BY <1>5 DEF JobOwn
<1> QED
  BY <1>0, <1>1, <1>3, <1>4, <1>6, RecordOwn

\* VMCreating: the address found is that of the recorded worker, which was
\* started then and which the scan has not doomed since.
LEMMA AddressOwn ==
    ASSUME IndInv, IndInv', OwnInv, set_worker_ssh_ip
    PROVE  OwnInv'
<1>0. PICK k \in Jobs : k = tick.job
  BY DEF set_worker_ssh_ip, Recording, IndInv, InFlightOK
<1> DEFINE r == [jobs[k] EXCEPT !.ip = tick.res]
<1>1. /\ Recording("VMCreating") /\ SetColumn(r)
      /\ UNCHANGED <<dryRun, job_volumes, volumes, servers, snap, scan>>
  BY <1>0 DEF set_worker_ssh_ip, cloudVars
<1>2. /\ r.status = jobs[k].status /\ r.name = jobs[k].name /\ r.vm = jobs[k].vm
      /\ r.volume = jobs[k].volume /\ r.ip = tick.res
  BY DEF IndInv, TypeOK, Row
<1> HIDE DEF r
<1>3. /\ \A j \in Jobs : /\ jobs'[j].status = jobs[j].status
                         /\ jobs'[j].name = jobs[j].name
                         /\ j # k => RowKept(j)
      /\ HasRow(k)' => HasRow(k) /\ jobs'[k] = r
  BY <1>0, <1>1, <1>2, ColumnWritten
<1>4. /\ tick.pc = "record" /\ tick.at = "VMCreating" /\ tick' = [tick EXCEPT !.pc = "update"]
      /\ tick'.pc = "update" /\ tick'.job = k /\ tick'.target = tick.target
      /\ \A S \in {BeforeAddress, Attached, Up, Walled, Hosted, Stored, Pre} :
            /\ "VMCreating" \notin S /\ tick.target \notin S => ~Seen(k, S)'
            /\ "VMCreating" \in S => Seen(k, S)
  BY <1>0, <1>1, <1>3, Recorded, StatusSet
<1>5. ASSUME HasRow(k)' PROVE JobOwn(k)'
  <2>1. /\ RecordedTitled(k) /\ FoundTitled(k) /\ AddressIsVm(k) /\ Provisioned(k)
        /\ DoomedUnused(k) /\ Alive(k) /\ jobs'[k] = r
    BY <1>3, <1>5 DEF OwnInv, JobOwn
  <2>2. tick.target = "VMRunning" /\ tick.res = jobs[k].vm
    BY <1>0, <1>4, <2>1 DEF FoundTitled
  <2>3. Seen(k, Walled) /\ Seen(k, Hosted) /\ Seen(k, Stored) /\ Seen(k, Pre) /\ AddressFound(k)
    BY <1>0, <1>4 DEF Walled, Hosted, Stored, Pre, AddressFound
  <2>4. ~Seen(k, Attached)' /\ ~Seen(k, BeforeAddress)' /\ ~AddressFound(k)'
    BY <1>4, <2>2 DEF Attached, BeforeAddress, AddressFound
  <2>5. RecordedTitled(k)' /\ FoundTitled(k)' /\ AddressIsVm(k)'
    BY <1>1, <1>2, <1>4, <2>1, <2>2, <2>4
       DEF RecordedTitled, ServerTitled, VolumeTitled, FoundTitled, AddressIsVm, title
  <2>6. Provisioned(k)'
    BY <1>1, <1>2, <2>1, <2>3, <2>4 DEF Provisioned
  <2>7. DoomedUnused(k)' /\ Alive(k)'
    <3>1. OnlyTitled(k)' => OnlyTitled(k)
      BY <1>3 DEF OnlyTitled, title
    <3> QED
      BY <1>1, <1>2, <2>1, <2>3, <3>1 DEF DoomedUnused, Alive
  <2> QED
    BY <2>5, <2>6, <2>7 DEF JobOwn
<1>6. JobOwn(k)'
  BY <1>5 DEF JobOwn
<1> QED
  BY <1>0, <1>1, <1>3, <1>4, <1>6, RecordOwn

\* ContainerRunning: the exit code is none of the columns that matter here.
LEMMA CompletionOwn ==
    ASSUME IndInv, IndInv', OwnInv, record_completion
    PROVE  OwnInv'
<1>0. PICK k \in Jobs : k = tick.job
  BY DEF record_completion, Recording, IndInv, InFlightOK
<1> DEFINE r == [jobs[k] EXCEPT !.exit = tick.res]
<1>1. /\ Recording("ContainerRunning") /\ SetColumn(r)
      /\ UNCHANGED <<dryRun, job_volumes, volumes, servers, snap, scan>>
  BY <1>0 DEF record_completion, cloudVars
<1>2. /\ r.status = jobs[k].status /\ r.name = jobs[k].name /\ r.vm = jobs[k].vm
      /\ r.volume = jobs[k].volume /\ r.ip = jobs[k].ip
  BY DEF IndInv, TypeOK, Row
<1> HIDE DEF r
<1>3. /\ \A j \in Jobs : /\ jobs'[j].status = jobs[j].status
                         /\ jobs'[j].name = jobs[j].name
                         /\ j # k => RowKept(j)
      /\ HasRow(k)' => HasRow(k) /\ jobs'[k] = r
  BY <1>0, <1>1, <1>2, ColumnWritten
<1>4. /\ tick.pc = "record" /\ tick.at = "ContainerRunning"
      /\ tick' = [tick EXCEPT !.pc = "update"]
      /\ tick'.pc = "update" /\ tick'.job = k /\ tick'.target = tick.target
      /\ \A S \in {BeforeAddress, Attached, Up, Walled, Hosted, Stored, Pre} :
            /\ "ContainerRunning" \notin S /\ tick.target \notin S => ~Seen(k, S)'
            /\ "ContainerRunning" \in S => Seen(k, S)
  BY <1>0, <1>1, <1>3, Recorded, StatusSet
<1>5. ASSUME HasRow(k)' PROVE JobOwn(k)'
  <2>1. HasRow(k) /\ FoundTitled(k) /\ jobs'[k] = r
    BY <1>3, <1>5 DEF OwnInv, JobOwn
  <2>2. tick.target \in {"Succeeded", "Failed"}
    BY <1>0, <1>4, <2>1 DEF FoundTitled
  <2>3. RowKept(k)
    BY <1>1, <1>2, <2>1 DEF RowKept
  <2>4. ASSUME NEW S \in {BeforeAddress, Attached, Up, Walled, Hosted, Stored, Pre}, Seen(k, S)'
        PROVE  Seen(k, S)
    BY <1>4, <2>2, <2>4, StageSets
  <2>5. ~AddressFound(k)' /\ FoundTitled(k)'
    BY <1>4 DEF AddressFound, FoundTitled
  <2>6. StagesJustified(k)
    BY <2>4, <2>5 DEF StagesJustified
  <2> QED
    BY <1>1, <1>3, <2>1, <2>3, <2>6, CloudUntouched, ScanUntouched, JobKept DEF NamesKept
<1>6. JobOwn(k)'
  BY <1>5 DEF JobOwn
<1> QED
  BY <1>0, <1>1, <1>3, <1>4, <1>6, RecordOwn


-----------------------------------------------------------------------------
(***************************************************************************)
(* The turns.                                                              *)
(***************************************************************************)

\* Job j may be moved on to t.
Entry(j, t) ==
    /\ t \in BeforeAddress => snap[j] \in BeforeAddress
    /\ t \in Pre => snap[j] \in Pre
    /\ ~dryRun /\ HasRow(j) =>
          /\ t \in Hosted => snap[j] \in Hosted
          /\ t \in Walled => snap[j] \in Walled \/ servers[jobs[j].vm].firewall = "visible"
          /\ t \in Up => snap[j] \in Up \/ servers[jobs[j].vm].state = "started"
          /\ jobs[j].volume = "sized" =>
                /\ t \in Stored => snap[j] \in Stored
                /\ t \in Attached =>
                      snap[j] \in Attached \/ volumes'[Head(job_volumes[j])].on = jobs[j].vm

\* A turn: the job stays, the tick ends, the job moves on, or a result is kept.
TurnTaken(j) ==
    \/ Stay(j)
    \/ Abort
    \/ \E t \in Statuses : MoveOn(j, t) /\ Entry(j, t)
    \/ /\ snap' = [snap EXCEPT ![j] = "none"]
       /\ tick'.pc = "record" /\ tick'.job = j /\ tick'.at = snap[j]
       /\ HasRow(j) =>
             /\ FoundTitled(j)'
             /\ snap[j] = "VMCreating" =>
                   /\ servers[jobs[j].vm].state = "started"
                   /\ servers'[jobs[j].vm].state = "started"

\* A turn preserves the invariant.
LEMMA TurnOwn ==
    ASSUME IndInv, IndInv', OwnInv, NEW j \in Jobs, tick.pc = "next", snap[j] # "none",
           TurnTaken(j), CloudKeeps, \A k \in Jobs : HasRow(k) => CloudSpares(k),
           UNCHANGED <<dryRun, jobs, job_volumes, scan>>
    PROVE  OwnInv'
<1>0. snap \in [Jobs -> Statuses \union {"none"}]
  BY DEF IndInv, TypeOK
<1>1. RowsKept /\ NamesKept /\ \A k \in Jobs : RowKept(k) /\ HasRow(k)' = HasRow(k)
  BY DEF RowsKept, NamesKept, RowKept, HasRow
<1>2. ASSUME NEW k \in Jobs, HasRow(k), k # j PROVE StagesJustified(k)
  <2>1. snap'[k] \in {snap[k], "none"}
    BY <1>0, <1>2 DEF TurnTaken, Stay, Abort, MoveOn, Proceed, NoSnapshot
  <2>2. tick' = tick \/ tick'.job # k \/ tick'.pc = "idle"
    BY <1>2 DEF TurnTaken, Stay, Abort, MoveOn, Proceed, IdleTick
  <2>3. ASSUME NEW S \in {BeforeAddress, Attached, Up, Walled, Hosted, Stored, Pre}, Seen(k, S)'
        PROVE  Seen(k, S)
    BY <2>1, <2>2, <2>3, StageSets DEF Seen, InTurn, Entering
  <2>4. (AddressFound(k)' => AddressFound(k)) /\ (tick' = tick \/ FoundTitled(k)')
    BY <2>2 DEF AddressFound, FoundTitled
  <2> QED
    BY <2>3, <2>4 DEF StagesJustified
<1>3. ASSUME HasRow(j) PROVE StagesJustified(j)
  <2>1. CASE Stay(j) \/ Abort
    <3>1. snap'[j] \in {snap[j], "none"} /\ (tick' = tick \/ tick'.pc = "idle")
      BY <1>0, <2>1 DEF Stay, Abort, NoSnapshot, IdleTick
    <3> QED
      BY <1>3, <3>1, NoStageEntered
  <2>2. ASSUME NEW t \in Statuses, MoveOn(j, t), Entry(j, t) PROVE StagesJustified(j)
    <3>1. /\ snap'[j] = "none" /\ tick'.pc = "update" /\ tick'.job = j
          /\ tick'.at = snap[j] /\ tick'.target = t
      BY <1>0, <2>2 DEF MoveOn, Proceed
    <3>2. ASSUME NEW S \in {BeforeAddress, Attached, Up, Walled, Hosted, Stored, Pre},
                 Seen(j, S)'
          PROVE  Seen(j, S) \/ t \in S
      BY <3>1, <3>2, StageSets DEF Seen, InTurn, Entering
    <3>3. \A S : snap[j] \in S => Seen(j, S)
      BY DEF Seen
    <3>4. ~AddressFound(j)' /\ FoundTitled(j)'
      BY <3>1 DEF AddressFound, FoundTitled
    <3>5. Seen(j, Hosted) /\ ~dryRun => jobs[j].vm # None
      BY <1>3 DEF OwnInv, JobOwn, Provisioned
    <3> QED
      BY <1>3, <2>2, <3>2, <3>3, <3>4, <3>5 DEF Entry, StagesJustified
  <2>3. ASSUME snap' = [snap EXCEPT ![j] = "none"], tick'.pc = "record", tick'.job = j,
               tick'.at = snap[j], FoundTitled(j)',
               snap[j] = "VMCreating" => /\ servers[jobs[j].vm].state = "started"
                                         /\ servers'[jobs[j].vm].state = "started"
        PROVE  StagesJustified(j)
    <3>1. ASSUME NEW S \in {BeforeAddress, Attached, Up, Walled, Hosted, Stored, Pre},
                 Seen(j, S)'
          PROVE  Seen(j, S)
      BY <1>0, <2>3, <3>1, StageSets DEF Seen, InTurn, Entering
    <3>2. AddressFound(j)' => snap[j] = "VMCreating"
      BY <2>3 DEF AddressFound
    <3> QED
      BY <2>3, <3>1, <3>2 DEF StagesJustified
  <2> QED
    BY <1>3, <2>1, <2>2, <2>3 DEF TurnTaken
<1>4. ASSUME NEW k \in Jobs, HasRow(k)' PROVE JobOwn(k)'
  <2>1. HasRow(k) /\ RowKept(k) /\ CloudSpares(k) /\ StagesJustified(k)
    BY <1>1, <1>2, <1>3, <1>4
  <2> QED
    BY <1>1, <2>1, ScanUntouched, JobKept
<1> QED
  BY <1>1, <1>4, ScanUntouched, OwnKept

\* A failed attempt is a turn.
LEMMA FailedAttemptTaken ==
    ASSUME NEW j \in Jobs, FailedAttempt(j)
    PROVE  TurnTaken(j)
  BY DEF FailedAttempt, TurnTaken

\* What a job selected in a state of its own has.
LEMMA TurnFacts ==
    ASSUME IndInv, OwnInv, NEW j \in Jobs, HasRow(j), ~dryRun
    PROVE  /\ snap[j] \in Hosted => jobs[j].vm # None
           /\ snap[j] \in Walled => servers[jobs[j].vm].firewall = "visible"
           /\ jobs[j].volume = "sized" /\ snap[j] \in Stored => job_volumes[j] # << >>
  BY DEF OwnInv, JobOwn, Provisioned, Seen

\* The transitions that need no work, the reads that find no row, the attempts
\* that fail.
LEMMA AdvanceOwn ==
    ASSUME IndInv, IndInv', OwnInv, NEW j \in Jobs,
           advance(j) \/ missing_row(j) \/ attempt_fails(j)
    PROVE  OwnInv'
<1>1. /\ tick.pc = "next" /\ snap[j] # "none"
      /\ UNCHANGED <<dryRun, jobs, job_volumes, volumes, servers, scan>>
  BY Selected DEF advance, missing_row, attempt_fails, Handling, dbVars, cloudVars
<1>2. CASE advance(j)
  <2>1. PICK s \in Statuses : /\ Handling(j, s)
                              /\ s \in UnhandledStates \/ NothingToDo(j, s)
                              /\ MoveOn(j, next_state(s))
    BY <1>2 DEF advance
  <2>2. snap[j] = s /\ s # "Archived"
    BY <1>1, <2>1, Selected DEF Handling, IndInv, SnapshotCoherent, TERMINAL_STATE
  <2>3. Entry(j, next_state(s))
    <3>1. /\ next_state(s) \in BeforeAddress => s \in BeforeAddress
          /\ next_state(s) \in Pre => s \in Pre
          /\ next_state(s) \in Hosted => s \in Hosted \/ s = "VMPending"
          /\ next_state(s) \in Walled => s \in Walled \/ s = "FirewallVerified"
          /\ next_state(s) \in Stored => s \in Stored \/ s = "VolumePending"
          /\ next_state(s) \in Attached => s \in Attached \/ s = "VolumeAttaching"
          /\ next_state(s) \in Up => s \in Up \/ s = "VMCreating"
      BY <2>2, StageSteps
    <3>2. ASSUME ~dryRun, HasRow(j)
          PROVE  /\ s # "VMPending" /\ s # "FirewallVerified" /\ s # "VMCreating"
                 /\ jobs[j].volume = "sized" => s # "VolumePending" /\ s # "VolumeAttaching"
      <4>1. "FirewallVerified" \in Hosted /\ "VMCreating" \in Hosted
               /\ "VolumeAttaching" \in Hosted /\ "VolumeAttaching" \in Stored
        BY DEF Hosted, Walled, Stored, Up
      <4> QED
        BY <2>1, <2>2, <3>2, <4>1, TurnFacts DEF UnhandledStates, NothingToDo
    <3> QED
      BY <2>2, <3>1, <3>2 DEF Entry
  <2>4. TurnTaken(j)
    BY <2>1, <2>2, <2>3, SuccessorFacts DEF TurnTaken
  <2> QED
    BY <1>1, <2>4, CloudUntouched, TurnOwn
<1>3. CASE missing_row(j) \/ attempt_fails(j)
  <2>1. TurnTaken(j)
    BY <1>3, FailedAttemptTaken DEF missing_row, attempt_fails, TurnTaken
  <2> QED
    BY <1>1, <2>1, CloudUntouched, TurnOwn
<1> QED
  BY <1>2, <1>3


\* One server changes or is created, one volume is created or attached: nothing
\* is taken from anybody.
LEMMA ServerChanged ==
    ASSUME IndInv, UNCHANGED volumes, NEW m \in Servers, NEW r,
           servers' = [servers EXCEPT ![m] = r], r.state \notin {"none", "deleted"},
           servers[m].state # "none" =>
              /\ servers[m].state # "deleted" /\ r.title = servers[m].title
              /\ servers[m].firewall = "visible" => r.firewall = "visible"
              /\ servers[m].state = "stopped" => r.state = "stopped"
    PROVE  CloudKeeps /\ \A k \in Jobs : CloudSpares(k)
<1>1. \A n \in Servers : servers'[n] = IF n = m THEN r ELSE servers[n]
  BY DEF IndInv, TypeOK
<1>2. CloudKeeps
  BY <1>1 DEF CloudKeeps
<1>3. ASSUME NEW k \in Jobs PROVE CloudSpares(k)
  BY <1>1, RecordedServer DEF CloudSpares
<1> QED
  BY <1>2, <1>3

LEMMA VolumeChanged ==
    ASSUME IndInv, OwnInv, UNCHANGED servers, NEW v \in Volumes, NEW r,
           volumes' = [volumes EXCEPT ![v] = r], r.state # "none",
           volumes[v].state # "none" => volumes[v].on = None /\ r.title = volumes[v].title
    PROVE  CloudKeeps /\ \A k \in Jobs : HasRow(k) => CloudSpares(k)
<1>1. \A n \in Volumes : volumes'[n] = IF n = v THEN r ELSE volumes[n]
  BY DEF IndInv, TypeOK
<1>2. CloudKeeps
  BY <1>1 DEF CloudKeeps
<1>3. ASSUME NEW k \in Jobs, HasRow(k) PROVE CloudSpares(k)
  <2>1. job_volumes[k] # << >> => /\ Head(job_volumes[k]) \in Volumes
                                  /\ volumes[Head(job_volumes[k])].state # "none"
    <3>1. job_volumes[k] # << >> => 1 \in DOMAIN job_volumes[k]
                                    /\ Head(job_volumes[k]) = job_volumes[k][1]
      BY DEF IndInv, TypeOK
    <3> QED
      BY <1>3, <3>1, RecordedVolume DEF OwnInv, JobOwn, RecordedTitled, VolumeTitled
  <2> QED
    BY <1>1, <2>1 DEF CloudSpares
<1> QED
  BY <1>2, <1>3

\* VolumePending: the volume created or found carries the job's title.
LEMMA VolumePendingOwn ==
    ASSUME IndInv, IndInv', OwnInv, NEW j \in Jobs, NEW o \in Outcomes, NEW listed \in BOOLEAN,
           handle_volume_pending(j, o, listed)
    PROVE  OwnInv'
<1>1. /\ tick.pc = "next" /\ snap[j] = "VolumePending" /\ snap[j] # "none"
      /\ UNCHANGED <<dryRun, jobs, job_volumes, servers, scan>>
  BY Selected, StatusSet DEF handle_volume_pending, Handling, dbVars
<1>2. ASSUME NEW v \in Volumes, VolumeTitled(v, j)', Keep(j, next_state("VolumePending"), v)
      PROVE  TurnTaken(j)
  <2>1. /\ tick'.pc = "record" /\ tick'.job = j /\ tick'.at = "VolumePending"
        /\ tick'.target = "VolumeCreating" /\ tick'.res = v
    BY <1>1, <1>2, Successors DEF Keep, Proceed
  <2>2. FoundTitled(j)'
    BY <1>2, <2>1 DEF FoundTitled, VolumeTitled
  <2> QED
    BY <1>1, <1>2, <2>1, <2>2 DEF TurnTaken, Keep, Proceed
<1>3. CASE \E v \in TitledVolumes(j) : /\ Keep(j, next_state("VolumePending"), v)
                                       /\ UNCHANGED volumes
  <2>1. TurnTaken(j)
    BY <1>1, <1>2, <1>3 DEF TitledVolumes, VolumeTitled, title
  <2> QED
    BY <1>1, <1>3, <2>1, CloudUntouched, TurnOwn
<1>4. ASSUME NEW v \in Volumes, volumes[v].state = "none", volumes' = VolumeCreated(v, j),
             Keep(j, next_state("VolumePending"), v) \/ FailedAttempt(j)
      PROVE  OwnInv'
  <2> DEFINE r == [state |-> "live", title |-> title(j), on |-> None]
  <2>1. volumes' = [volumes EXCEPT ![v] = r] /\ r.state = "live" /\ r.title = title(j)
    BY <1>4 DEF VolumeCreated
  <2> HIDE DEF r
  <2>2. CloudKeeps /\ \A k \in Jobs : HasRow(k) => CloudSpares(k)
    BY <1>1, <1>4, <2>1, VolumeChanged
  <2>3. VolumeTitled(v, j)'
    BY <1>1, <2>1 DEF VolumeTitled, title, IndInv, TypeOK
  <2>4. TurnTaken(j)
    BY <1>2, <1>4, <2>3, FailedAttemptTaken
  <2> QED
    BY <1>1, <2>2, <2>4, TurnOwn
<1> QED
  BY <1>3, <1>4 DEF handle_volume_pending

\* VMPending: the same for the worker.
LEMMA VMPendingOwn ==
    ASSUME IndInv, IndInv', OwnInv, NEW j \in Jobs, NEW o \in Outcomes, NEW listed \in BOOLEAN,
           handle_vm_pending(j, o, listed)
    PROVE  OwnInv'
<1>1. /\ tick.pc = "next" /\ snap[j] = "VMPending" /\ snap[j] # "none"
      /\ UNCHANGED <<dryRun, jobs, job_volumes, volumes, scan>>
  BY Selected, StatusSet DEF handle_vm_pending, Handling, dbVars
<1>2. ASSUME NEW m \in Servers, ServerTitled(m, j)', Keep(j, next_state("VMPending"), m)
      PROVE  TurnTaken(j)
  <2>1. /\ tick'.pc = "record" /\ tick'.job = j /\ tick'.at = "VMPending"
        /\ tick'.target = "FirewallApplying" /\ tick'.res = m
    BY <1>1, <1>2, Successors DEF Keep, Proceed
  <2>2. FoundTitled(j)'
    BY <1>2, <2>1 DEF FoundTitled, ServerTitled
  <2> QED
    BY <1>1, <1>2, <2>1, <2>2 DEF TurnTaken, Keep, Proceed
<1>3. CASE \E m \in TitledServers(j) : /\ Keep(j, next_state("VMPending"), m)
                                       /\ UNCHANGED servers
  <2>1. TurnTaken(j)
    BY <1>1, <1>2, <1>3 DEF TitledServers, ServerTitled, title
  <2> QED
    BY <1>1, <1>3, <2>1, CloudUntouched, TurnOwn
<1>4. ASSUME NEW m \in Servers, servers[m].state = "none", servers' = ServerCreated(m, j),
             Keep(j, next_state("VMPending"), m) \/ FailedAttempt(j)
      PROVE  OwnInv'
  <2> DEFINE r == [state |-> "creating", title |-> title(j), firewall |-> "none",
                   worker |-> "boot", owner |-> None]
  <2>1. servers' = [servers EXCEPT ![m] = r] /\ r.state = "creating" /\ r.title = title(j)
    BY <1>4 DEF ServerCreated
  <2> HIDE DEF r
  <2>2. CloudKeeps /\ \A k \in Jobs : CloudSpares(k)
    BY <1>1, <1>4, <2>1, ServerChanged
  <2>3. ServerTitled(m, j)'
    BY <1>1, <2>1 DEF ServerTitled, title, IndInv, TypeOK
  <2>4. TurnTaken(j)
    BY <1>2, <1>4, <2>3, FailedAttemptTaken
  <2> QED
    BY <1>1, <2>2, <2>4, TurnOwn
<1> QED
  BY <1>3, <1>4 DEF handle_vm_pending

\* FirewallApplying and FirewallVerified: rules show before VMCreating is entered.
LEMMA FirewallOwn ==
    ASSUME IndInv, IndInv', OwnInv, NEW j \in Jobs,
           (\E o \in Outcomes : handle_firewall_applying(j, o)) \/ handle_firewall_verified(j)
    PROVE  OwnInv'
<1>1. tick.pc = "next" /\ snap[j] # "none" /\ UNCHANGED <<dryRun, jobs, job_volumes, volumes, scan>>
  BY Selected, StatusSet
     DEF handle_firewall_applying, handle_firewall_verified, Handling, dbVars, cloudVars
<1>2. ASSUME NEW o \in Outcomes, handle_firewall_applying(j, o) PROVE OwnInv'
  <2>1. jobs[j].vm \in Servers /\ snap[j] = "FirewallApplying"
    BY <1>2, RecordedServer, Selected, StatusSet
       DEF handle_firewall_applying, Handling, NothingToDo
  <2>2. servers[jobs[j].vm] \in Server
    BY <2>1 DEF IndInv, TypeOK
  <2>3. CloudKeeps /\ \A k \in Jobs : CloudSpares(k)
    <3>1. CASE UNCHANGED servers
      BY <1>1, <3>1, CloudUntouched
    <3>2. ASSUME servers[jobs[j].vm].firewall \notin {"posted", "visible"},
                 servers[jobs[j].vm].state # "deleted", NEW f,
                 servers' = [servers EXCEPT ![jobs[j].vm].firewall = f]
          PROVE  CloudKeeps /\ \A k \in Jobs : CloudSpares(k)
      <4> DEFINE r == [servers[jobs[j].vm] EXCEPT !.firewall = f]
      <4>1. r.state = servers[jobs[j].vm].state /\ r.title = servers[jobs[j].vm].title
        BY <2>2 DEF Server
      <4>2. servers' = [servers EXCEPT ![jobs[j].vm] = r]
        BY <2>1, <3>2 DEF IndInv, TypeOK
      <4>3. r.state # "none"
        BY <1>2, <2>1, <4>1, NoneAssumption
           DEF OwnInv, JobOwn, RecordedTitled, ServerTitled, handle_firewall_applying, Handling,
               ReadsRow
      <4> HIDE DEF r
      <4> QED
        BY <1>1, <2>1, <3>2, <4>1, <4>2, <4>3, ServerChanged
    <3> QED
      BY <1>2, <3>1, <3>2 DEF handle_firewall_applying
  <2>4. ASSUME MoveOn(j, next_state("FirewallApplying")) PROVE TurnTaken(j)
    <3>1. Entry(j, "FirewallVerified")
      BY <2>1 DEF Entry, BeforeAddress, Pre, Hosted, Walled, Up, Stored, Attached
    <3> QED
      BY <2>4, <3>1, Successors, StatusSet DEF TurnTaken
  <2>5. TurnTaken(j)
    BY <1>2, <2>4, FailedAttemptTaken DEF handle_firewall_applying
  <2> QED
    BY <1>1, <2>3, <2>5, TurnOwn
<1>3. CASE handle_firewall_verified(j)
  <2>1. /\ snap[j] = "FirewallVerified" /\ servers[jobs[j].vm].firewall = "visible"
        /\ MoveOn(j, next_state("FirewallVerified")) /\ UNCHANGED servers
    BY <1>3, Selected, StatusSet DEF handle_firewall_verified, Handling, cloudVars
  <2>2. Entry(j, "VMCreating")
    BY <2>1 DEF Entry, BeforeAddress, Pre, Hosted, Walled, Up, Stored, Attached
  <2>3. TurnTaken(j)
    BY <2>1, <2>2, Successors, StatusSet DEF TurnTaken
  <2> QED
    BY <1>1, <2>1, <2>3, CloudUntouched, TurnOwn
<1> QED
  BY <1>2, <1>3


\* VMCreating: the worker is started, with or without an address.
LEMMA VMCreatingOwn ==
    ASSUME IndInv, IndInv', OwnInv, NEW j \in Jobs, handle_vm_creating(j)
    PROVE  OwnInv'
<1>1. /\ tick.pc = "next" /\ snap[j] = "VMCreating" /\ snap[j] # "none"
      /\ servers[jobs[j].vm].state = "started"
      /\ UNCHANGED <<dryRun, jobs, job_volumes, volumes, servers, scan>>
  BY Selected, StatusSet DEF handle_vm_creating, Handling, dbVars, cloudVars
<1>2. CASE Keep(j, next_state("VMCreating"), jobs[j].vm)
  <2>1. /\ tick'.pc = "record" /\ tick'.job = j /\ tick'.at = "VMCreating"
        /\ tick'.target = "VMRunning" /\ tick'.res = jobs'[j].vm
    BY <1>1, <1>2, Successors DEF Keep, Proceed
  <2>2. FoundTitled(j)'
    BY <2>1 DEF FoundTitled
  <2>3. TurnTaken(j)
    BY <1>1, <1>2, <2>1, <2>2 DEF TurnTaken, Keep, Proceed
  <2> QED
    BY <1>1, <2>3, CloudUntouched, TurnOwn
<1>3. CASE MoveOn(j, next_state("VMCreating"))
  <2>1. Entry(j, "VMRunning")
    BY <1>1 DEF Entry, BeforeAddress, Pre, Hosted, Walled, Up, Stored, Attached
  <2>2. TurnTaken(j)
    BY <1>3, <2>1, Successors, StatusSet DEF TurnTaken
  <2> QED
    BY <1>1, <2>2, CloudUntouched, TurnOwn
<1> QED
  BY <1>2, <1>3 DEF handle_vm_creating

\* VolumeAttaching: the job's first volume, attached to nothing before, is
\* attached to its worker.
LEMMA VolumeAttachingOwn ==
    ASSUME IndInv, IndInv', OwnInv, NEW j \in Jobs, NEW o \in Outcomes,
           handle_volume_attaching(j, o)
    PROVE  OwnInv'
<1> DEFINE v == Head(job_volumes[j])
           r == [volumes[v] EXCEPT !.on = jobs[j].vm]
<1>1. /\ tick.pc = "next" /\ snap[j] = "VolumeAttaching" /\ snap[j] # "none"
      /\ volumes[v].state = "live" /\ volumes[v].on = None
      /\ volumes' = VolumeAttached(v, jobs[j].vm)
      /\ UNCHANGED <<dryRun, jobs, job_volumes, servers, scan>>
  BY Selected, StatusSet DEF handle_volume_attaching, Handling, dbVars
<1>2. v \in Volumes
  BY RecordedVolume DEF handle_volume_attaching, NothingToDo
<1>3. volumes \in [Volumes -> Volume] /\ volumes[v] \in Volume
  BY <1>2 DEF IndInv, TypeOK
<1>4. /\ volumes' = [volumes EXCEPT ![v] = r] /\ r.state = "live" /\ r.on = jobs[j].vm
      /\ r.title = volumes[v].title
  BY <1>1, <1>2, <1>3 DEF VolumeAttached, Volume
<1> HIDE DEF r, v
<1>5. CloudKeeps /\ \A k \in Jobs : HasRow(k) => CloudSpares(k)
  BY <1>1, <1>2, <1>4, VolumeChanged
<1>6. volumes'[v].on = jobs[j].vm
  BY <1>2, <1>3, <1>4
<1>7. ASSUME MoveOn(j, next_state("VolumeAttaching")) PROVE TurnTaken(j)
  <2>1. Entry(j, "VolumeAttached")
    BY <1>1, <1>6 DEF v, Entry, BeforeAddress, Pre, Hosted, Walled, Up, Stored, Attached
  <2> QED
    BY <1>7, <2>1, Successors, StatusSet DEF TurnTaken
<1>8. TurnTaken(j)
  BY <1>7, FailedAttemptTaken DEF handle_volume_attaching
<1> QED
  BY <1>1, <1>5, <1>8, TurnOwn

\* ContainerConfiguring: a delivery to a started worker.
LEMMA ConfiguringOwn ==
    ASSUME IndInv, IndInv', OwnInv, NEW j \in Jobs, NEW o \in Outcomes,
           handle_container_configuring(j, o)
    PROVE  OwnInv'
<1>1. /\ tick.pc = "next" /\ snap[j] = "ContainerConfiguring" /\ snap[j] # "none"
      /\ jobs[j].ip \in Servers /\ servers[jobs[j].ip].state = "started"
      /\ UNCHANGED <<dryRun, jobs, job_volumes, volumes, scan>>
  BY Selected, StatusSet, RecordedServer
     DEF handle_container_configuring, Handling, Reachable, dbVars
<1>2. servers \in [Servers -> Server] /\ servers[jobs[j].ip] \in Server
  BY <1>1 DEF IndInv, TypeOK
<1>3. CloudKeeps /\ \A k \in Jobs : CloudSpares(k)
  <2>1. CASE UNCHANGED servers
    BY <1>1, <2>1, CloudUntouched
  <2>2. CASE servers' = [servers EXCEPT ![jobs[j].ip].worker = "ready", ![jobs[j].ip].owner = j]
    <3> DEFINE r == [servers[jobs[j].ip] EXCEPT !.worker = "ready", !.owner = j]
    <3>1. /\ servers' = [servers EXCEPT ![jobs[j].ip] = r] /\ r.state = "started"
          /\ r.title = servers[jobs[j].ip].title /\ r.firewall = servers[jobs[j].ip].firewall
      BY <1>1, <1>2, <2>2 DEF Server
    <3> HIDE DEF r
    <3> QED
      BY <1>1, <3>1, ServerChanged
  <2> QED
    BY <2>1, <2>2 DEF handle_container_configuring
<1>4. ASSUME MoveOn(j, next_state("ContainerConfiguring")) PROVE TurnTaken(j)
  <2>1. Entry(j, "ContainerRunning")
    BY <1>1 DEF Entry, BeforeAddress, Pre, Hosted, Walled, Up, Stored, Attached
  <2> QED
    BY <1>4, <2>1, Successors, StatusSet DEF TurnTaken
<1>5. TurnTaken(j)
  BY <1>4, FailedAttemptTaken DEF handle_container_configuring
<1> QED
  BY <1>1, <1>3, <1>5, TurnOwn

\* ContainerRunning: the exit code decides the state to come.
LEMMA RunningOwn ==
    ASSUME IndInv, IndInv', OwnInv, NEW j \in Jobs, handle_container_running(j)
    PROVE  OwnInv'
<1> DEFINE code == servers[jobs[j].ip].worker
<1>1. /\ tick.pc = "next" /\ snap[j] = "ContainerRunning" /\ snap[j] # "none"
      /\ Keep(j, IF code = "zero" THEN "Succeeded" ELSE "Failed", code)
      /\ UNCHANGED <<dryRun, jobs, job_volumes, volumes, servers, scan>>
  BY Selected, StatusSet DEF handle_container_running, Handling, dbVars, cloudVars
<1>2. /\ tick'.pc = "record" /\ tick'.job = j /\ tick'.at = "ContainerRunning"
      /\ tick'.target = IF tick'.res = "zero" THEN "Succeeded" ELSE "Failed"
  BY <1>1 DEF Keep, Proceed
<1>3. FoundTitled(j)'
  BY <1>2 DEF FoundTitled
<1>4. TurnTaken(j)
  BY <1>1, <1>2, <1>3 DEF TurnTaken, Keep, Proceed
<1> QED
  BY <1>1, <1>4, CloudUntouched, TurnOwn

\* A job selected in its cleanup is seen at no stage that needs anything.
LEMMA CleaningUp ==
    ASSUME IndInv, NEW j \in Jobs, tick.pc = "next",
           snap[j] \in {"VolumeDetaching", "VMTerminating"}
    PROVE  ~Seen(j, Attached) /\ ~Seen(j, Pre)
<1>1. jobs[j].status \in {"VolumeDetaching", "VMTerminating", "Failed", "deleted"}
  BY DEF IndInv, SnapshotCoherent
<1> QED
  BY <1>1 DEF Seen, InTurn, Entering, Attached, Pre, Stored, Hosted, Walled, Up

\* VolumeDetaching: the volume detached and deleted is no other job's.
LEMMA VolumeDetachingOwn ==
    ASSUME IndInv, IndInv', OwnInv, NEW j \in Jobs, NEW o \in Outcomes, NEW detached \in BOOLEAN,
           handle_volume_detaching(j, o, detached)
    PROVE  OwnInv'
<1> DEFINE v == Head(job_volumes[j])
<1>1. /\ tick.pc = "next" /\ snap[j] = "VolumeDetaching" /\ snap[j] # "none"
      /\ UNCHANGED <<dryRun, jobs, job_volumes, servers, scan>>
  BY Selected, StatusSet DEF handle_volume_detaching, Handling, dbVars
<1>2. HasRow(j) /\ job_volumes[j] # << >> /\ v \in Volumes
  BY RecordedVolume DEF handle_volume_detaching, NothingToDo, Handling, ReadsRow
<1>3. volumes \in [Volumes -> Volume] /\ volumes[v] \in Volume
  BY <1>2 DEF IndInv, TypeOK
<1>4. /\ \A x \in Volumes : x # v => volumes'[x] = volumes[x]
      /\ volumes'[v].title = volumes[v].title
      /\ volumes[v].state # "none" => volumes'[v].state # "none"
  BY <1>2, <1>3 DEF handle_volume_detaching, VolumeDeleted, VolumeAttached, Volume
<1> HIDE DEF v
<1>5. CloudKeeps
  BY <1>1, <1>4 DEF CloudKeeps
<1>6. ASSUME NEW k \in Jobs, HasRow(k) PROVE CloudSpares(k)
  <2>1. CASE k = j
    BY <1>1, <2>1, CleaningUp DEF CloudSpares
  <2>2. CASE k # j
    <3>1. OnlyTitled(k) => title(k) # title(j)
      BY <1>2, <2>2, StatusSet DEF OnlyTitled, HasRow
    <3> QED
      BY <1>1, <1>2, <1>4, <1>6, <2>2, <3>1, OwnApart, RecordedVolume DEF v, CloudSpares
  <2> QED
    BY <2>1, <2>2
<1>7. ASSUME Keep(j, next_state("VolumeDetaching"), None) PROVE TurnTaken(j)
  <2>1. /\ tick'.pc = "record" /\ tick'.job = j /\ tick'.at = "VolumeDetaching"
        /\ tick'.target = "VolumeDeleted"
    BY <1>1, <1>7, Successors DEF Keep, Proceed
  <2>2. FoundTitled(j)'
    BY <2>1 DEF FoundTitled
  <2> QED
    BY <1>1, <1>7, <2>1, <2>2 DEF TurnTaken, Keep, Proceed
<1>8. TurnTaken(j)
  BY <1>7, FailedAttemptTaken DEF handle_volume_detaching
<1> QED
  BY <1>1, <1>5, <1>6, <1>8, TurnOwn


\* A server deleted with its volumes takes nothing from a job on another one.
LEMMA ServerGone ==
    ASSUME IndInv, NEW m \in Servers, servers[m].state = "stopped", ServerDeleted(m)
    PROVE  CloudKeeps /\ \A k \in Jobs : jobs[k].vm # m => CloudSpares(k)
<1>1. /\ \A n \in Servers : n # m => servers'[n] = servers[n]
      /\ servers'[m].state = "deleted" /\ servers'[m].title = servers[m].title
      /\ servers'[m].firewall = servers[m].firewall
  BY DEF ServerDeleted, IndInv, TypeOK, Server
<1>2. \A v \in Volumes : /\ volumes[v].on # m => volumes'[v] = volumes[v]
                         /\ volumes'[v].title = volumes[v].title
                         /\ volumes[v].state # "none" => volumes'[v].state # "none"
  BY DEF ServerDeleted, IndInv, TypeOK, Volume
<1>3. CloudKeeps
  BY <1>1, <1>2 DEF CloudKeeps
<1>4. ASSUME NEW k \in Jobs, jobs[k].vm # m PROVE CloudSpares(k)
  BY <1>1, <1>2, <1>4, RecordedServer, RecordedVolume DEF CloudSpares
<1> QED
  BY <1>3, <1>4

\* VMTerminating: the worker stopped is the job's, and so are the volumes that
\* go with it.
LEMMA TerminatingOwn ==
    ASSUME IndInv, IndInv', OwnInv, NEW j \in Jobs,
           stop_worker(j) \/ \E o \in Outcomes : delete_worker(j, o)
    PROVE  OwnInv'
<1> DEFINE m == jobs[j].vm
<1>1. /\ tick.pc = "next" /\ snap[j] = "VMTerminating" /\ snap[j] # "none"
      /\ UNCHANGED <<dryRun, jobs, job_volumes, scan>>
  BY Selected, StatusSet DEF stop_worker, delete_worker, Handling, dbVars
<1>2. HasRow(j) /\ m \in Servers
  BY RecordedServer DEF stop_worker, delete_worker, NothingToDo, Handling, ReadsRow
<1>3. servers \in [Servers -> Server] /\ servers[m] \in Server
  BY <1>2 DEF IndInv, TypeOK
<1>4. CASE stop_worker(j)
  <2> DEFINE r == [servers[m] EXCEPT !.state = "stopping"]
  <2>1. /\ servers' = [servers EXCEPT ![m] = r] /\ r.state = "stopping"
        /\ r.title = servers[m].title /\ r.firewall = servers[m].firewall
        /\ servers[m].state = "started" /\ UNCHANGED volumes
    BY <1>2, <1>3, <1>4 DEF stop_worker, Server
  <2> HIDE DEF r, m
  <2>2. CloudKeeps /\ \A k \in Jobs : CloudSpares(k)
    BY <1>2, <2>1, ServerChanged
  <2>3. TurnTaken(j)
    BY <1>4 DEF stop_worker, TurnTaken
  <2> QED
    BY <1>1, <2>2, <2>3, TurnOwn
<1>5. ASSUME NEW o \in Outcomes, delete_worker(j, o) PROVE OwnInv'
  <2>1. ServerDeleted(m) /\ servers[m].state = "stopped"
    BY <1>5 DEF delete_worker
  <2> HIDE DEF m
  <2>2. CloudKeeps /\ \A k \in Jobs : jobs[k].vm # m => CloudSpares(k)
    BY <1>2, <2>1, ServerGone
  <2>3. ASSUME NEW k \in Jobs, HasRow(k) PROVE CloudSpares(k)
    <3>1. CASE k = j
      BY <1>1, <3>1, CleaningUp DEF CloudSpares
    <3>2. CASE k # j
      <4>1. OnlyTitled(k) => title(k) # title(j)
        BY <1>2, <3>2, StatusSet DEF OnlyTitled, HasRow
      <4>2. OnlyTitled(k) => jobs[k].vm # m
        BY <1>2, <2>3, <4>1, OwnApart, RecordedServer DEF m
      <4> QED
        BY <2>2, <4>2 DEF CloudSpares
    <3> QED
      BY <3>1, <3>2
  <2>4. ASSUME MoveOn(j, next_state("VMTerminating")) PROVE TurnTaken(j)
    <3>1. Entry(j, "Archived")
      BY StageSets DEF Entry
    <3> QED
      BY <2>4, <3>1, Successors, StatusSet DEF TurnTaken
  <2>5. TurnTaken(j)
    BY <1>5, <2>4, FailedAttemptTaken DEF delete_worker
  <2> QED
    BY <1>1, <2>2, <2>3, <2>5, TurnOwn
<1> QED
  BY <1>4, <1>5

-----------------------------------------------------------------------------
(***************************************************************************)
(* The orphan scan and the environment.                                    *)
(***************************************************************************)

\* The cloud changes, or the scan goes on.
LEMMA OutsideOwn ==
    ASSUME IndInv, IndInv', OwnInv, CloudKeeps, ScanKeeps,
           \A j \in Jobs : HasRow(j) => CloudSpares(j),
           UNCHANGED <<dryRun, jobs, job_volumes, snap, tick>>
    PROVE  OwnInv'
  BY NarrowStep

\* The scan's lists and reads.
LEMMA ScanReadsOwn ==
    ASSUME IndInv, IndInv', OwnInv,
           \/ scan_lists_volumes \/ scan_reads_tracked_volumes \/ scan_lists_servers
           \/ scan_reads_tracked_servers \/ finish_scan
    PROVE  OwnInv'
<1> USE DEF scan_lists_volumes, scan_reads_tracked_volumes, scan_lists_servers,
            scan_reads_tracked_servers, finish_scan
<1>1. UNCHANGED <<dryRun, jobs, job_volumes, snap, tick, volumes, servers>>
  BY DEF dbVars, cloudVars, tickVars
<1>2. scan \in Scan /\ scan.stopped \subseteq Servers
  BY DEF IndInv, TypeOK, Scan
<1>3. ScanKeeps
  <2>1. CASE scan_lists_volumes
    BY <1>2, <2>1 DEF ScanKeeps, Scan
  <2>2. CASE scan_reads_tracked_volumes
    BY <1>2, <2>2 DEF ScanKeeps, Scan
  <2>3. CASE scan_lists_servers
    BY <1>2, <2>3 DEF ScanKeeps, Scan
  <2>4. CASE scan_reads_tracked_servers
    BY <1>2, <2>4 DEF ScanKeeps, Scan, TrackedServers
  <2>5. CASE finish_scan
    BY <2>5 DEF ScanKeeps, IdleScan
  <2> QED
    BY <2>1, <2>2, <2>3, <2>4, <2>5
<1> QED
  BY <1>1, <1>3, CloudUntouched, OutsideOwn

\* The scan's deletions take nothing a job still needs: a volume is deleted only
\* while detached, and a doomed server is of no use to the job that adopted it.
LEMMA ScanDeletesOwn ==
    ASSUME IndInv, IndInv', OwnInv, NEW works \in BOOLEAN,
           \/ \E v \in Volumes : scan_deletes_volume(v, works)
           \/ \E m \in Servers : scan_stops_server(m, works) \/ scan_deletes_server(m, works)
    PROVE  OwnInv'
<1>1. UNCHANGED <<dryRun, jobs, job_volumes, snap, tick>>
  BY DEF scan_deletes_volume, scan_stops_server, scan_deletes_server, dbVars, tickVars
<1>2. scan'.pc = scan.pc /\ scan'.stopped \subseteq scan.stopped
  <2>1. scan \in Scan
    BY DEF IndInv, TypeOK
  <2> QED
    BY <2>1 DEF scan_deletes_volume, scan_stops_server, scan_deletes_server, Scan
<1>3. ScanKeeps
  BY <1>2 DEF ScanKeeps
<1>4. CASE UNCHANGED <<volumes, servers>>
  BY <1>1, <1>3, <1>4, CloudUntouched, OutsideOwn
<1>5. ASSUME NEW v \in Volumes, Deletable(v, volumes[v].on), volumes' = VolumeDeleted(v),
             UNCHANGED servers
      PROVE  OwnInv'
  <2> DEFINE r == [volumes[v] EXCEPT !.state = "deleted", !.on = None]
  <2>1. /\ volumes' = [volumes EXCEPT ![v] = r] /\ r.state = "deleted"
        /\ r.title = volumes[v].title /\ volumes[v].on = None
    BY <1>5 DEF VolumeDeleted, Deletable, IndInv, TypeOK, Volume
  <2> HIDE DEF r
  <2> QED
    BY <1>1, <1>3, <1>5, <2>1, VolumeChanged, OutsideOwn
<1>6. ASSUME NEW m \in Servers, servers[m].state = "started", UNCHANGED volumes,
             servers' = [servers EXCEPT ![m].state = "stopping"]
      PROVE  OwnInv'
  <2> DEFINE r == [servers[m] EXCEPT !.state = "stopping"]
  <2>1. /\ servers' = [servers EXCEPT ![m] = r] /\ r.state = "stopping"
        /\ r.title = servers[m].title /\ r.firewall = servers[m].firewall
    BY <1>6 DEF IndInv, TypeOK, Server
  <2> HIDE DEF r
  <2> QED
    BY <1>1, <1>3, <1>6, <2>1, ServerChanged, OutsideOwn
<1>7. ASSUME NEW m \in Servers, scan.pc = "srvs_doomed", m \in scan.stopped,
             servers[m].state = "stopped", ServerDeleted(m)
      PROVE  OwnInv'
  <2>1. CloudKeeps /\ \A k \in Jobs : jobs[k].vm # m => CloudSpares(k)
    BY <1>7, ServerGone
  <2>2. ASSUME NEW k \in Jobs, HasRow(k), jobs[k].vm = m PROVE CloudSpares(k)
    BY <1>7, <2>2, SeenIncluded DEF CloudSpares, OwnInv, JobOwn, DoomedUnused
  <2> QED
    BY <1>1, <1>3, <2>1, <2>2, OutsideOwn
<1> QED
  BY <1>4, <1>5, <1>6, <1>7
     DEF scan_deletes_volume, scan_stops_server, scan_deletes_server, cloudVars

\* A server starts or stops, its rules show, its worker goes on.
LEMMA ServerMovesOwn ==
    ASSUME IndInv, IndInv', OwnInv, NEW m \in Servers,
           server_settles(m) \/ firewall_propagates(m) \/ worker_runs(m)
    PROVE  OwnInv'
<1>1. UNCHANGED <<dryRun, jobs, job_volumes, snap, tick, volumes, scan>>
  BY DEF server_settles, firewall_propagates, worker_runs, dbVars, tickVars
<1>2. servers \in [Servers -> Server] /\ servers[m] \in Server
  BY DEF IndInv, TypeOK
<1>3. PICK r : /\ servers' = [servers EXCEPT ![m] = r]
               /\ r.state \notin {"none", "deleted"} /\ r.title = servers[m].title
               /\ servers[m].state \notin {"none", "deleted"}
               /\ servers[m].firewall = "visible" => r.firewall = "visible"
               /\ servers[m].state = "stopped" => r.state = "stopped"
  <2>1. CASE server_settles(m)
    <3> DEFINE r == [servers[m] EXCEPT
                       !.state = IF servers[m].state = "creating" THEN "started" ELSE "stopped"]
    <3>1. servers' = [servers EXCEPT ![m] = r]
      BY <1>2, <2>1 DEF server_settles
    <3>2. r.state \notin {"none", "deleted"} /\ r.title = servers[m].title
             /\ r.firewall = servers[m].firewall
      BY <1>2 DEF Server
    <3> HIDE DEF r
    <3> QED
      BY <2>1, <3>1, <3>2 DEF server_settles
  <2>2. CASE firewall_propagates(m)
    <3> DEFINE r == [servers[m] EXCEPT !.firewall = "visible"]
    <3>1. servers' = [servers EXCEPT ![m] = r]
      BY <1>2, <2>2 DEF firewall_propagates
    <3>2. r.state = servers[m].state /\ r.title = servers[m].title /\ r.firewall = "visible"
      BY <1>2 DEF Server
    <3> HIDE DEF r
    <3> QED
      BY <2>2, <3>1, <3>2 DEF firewall_propagates
  <2>3. CASE worker_runs(m)
    <3>1. PICK w : servers' = [servers EXCEPT ![m].worker = w]
      BY <2>3 DEF worker_runs
    <3> DEFINE r == [servers[m] EXCEPT !.worker = w]
    <3>2. servers' = [servers EXCEPT ![m] = r]
      BY <1>2, <3>1
    <3>3. r.state = servers[m].state /\ r.title = servers[m].title
             /\ r.firewall = servers[m].firewall
      BY <1>2 DEF Server
    <3> HIDE DEF r
    <3> QED
      BY <2>3, <3>2, <3>3 DEF worker_runs
  <2> QED
    BY <2>1, <2>2, <2>3
<1>4. CloudKeeps /\ \A k \in Jobs : CloudSpares(k)
  BY <1>1, <1>3, ServerChanged
<1> QED
  BY <1>1, <1>4, ScanUntouched, OutsideOwn


-----------------------------------------------------------------------------
(***************************************************************************)
(* The theorems about provisioning.                                        *)
(***************************************************************************)

\* Nobody has anything in the beginning.
LEMMA InitOwn == Init => OwnInv
<1> SUFFICES ASSUME Init PROVE OwnInv
  OBVIOUS
<1>1. \A j \in Jobs : jobs[j].status = "absent" /\ ~HasRow(j) /\ job_volumes[j] = << >>
  BY StatusSet DEF Init, NoRow, HasRow
<1>2. scan.pc = "idle"
  BY DEF Init, IdleScan
<1> QED
  BY <1>1, <1>2 DEF OwnInv, AbsentEmpty, StoppedStays, JobOwn

\* Every step of every process preserves the invariant.
LEMMA NextOwn == IndInv /\ IndInv' /\ OwnInv /\ [Next]_vars => OwnInv'
<1> SUFFICES ASSUME IndInv, IndInv', OwnInv, [Next]_vars PROVE OwnInv'
  OBVIOUS
<1>1. CASE start_tick \/ finish_tick \/ tick_aborts \/ crash \/ api_aborts \/ scan_aborts
  BY <1>1, QuietOwn
<1>2. CASE TickWrites
  BY <1>2, InsertVolumeOwn, WorkerOwn, AddressOwn, CompletionOwn, DeleteVolumeOwn, StatusOwn,
     QuietOwn DEF TickWrites
<1>3. ASSUME NEW j \in Jobs, Handlers(j) PROVE OwnInv'
  BY <1>3, AdvanceOwn, StatusOwn, VolumePendingOwn, VMPendingOwn, FirewallOwn, VMCreatingOwn,
     VolumeAttachingOwn, ConfiguringOwn, RunningOwn, VolumeDetachingOwn, TerminatingOwn
     DEF Handlers
<1>4. CASE ApiStep
  BY <1>4, StatusOwn, QuietOwn DEF ApiStep
<1>5. CASE ScanStep
  BY <1>5, ScanReadsOwn, ScanDeletesOwn DEF ScanStep
<1>6. CASE Environment
  BY <1>6, QuietOwn, ServerMovesOwn DEF Environment
<1>7. CASE \/ \E j \in Jobs, n \in Names : check_name(j, n)
           \/ \E j \in Jobs, w \in VolumeRequests : create_job(j, w)
  BY <1>7, QuietOwn, CreateOwn
<1>8. CASE \E j \in Jobs : delete_job(j)
  BY <1>8, QuietOwn
<1>9. CASE UNCHANGED vars
  BY <1>9, CloudUntouched, ScanUntouched, OutsideOwn DEF vars
<1> QED
  BY <1>1, <1>2, <1>3, <1>4, <1>5, <1>6, <1>7, <1>8, <1>9 DEF Next, TickStep

\* What a stage needs has been provisioned under the job's own title, for any
\* number of jobs, faults and DELETE requests, and is not taken away from a job
\* that shares its title with no other.
THEOREM Ownership == Spec => []OwnInv
<1>1. Init => OwnInv
  BY InitOwn
<1>2. IndInv /\ IndInv' /\ OwnInv /\ [Next]_vars => OwnInv'
  BY NextOwn
<1> QED
  BY <1>1, <1>2, Invariance, PTL DEF Spec

\* Two jobs have a worker VM or a volume in common only if their names give the
\* same title: every recorded resource was found or created under the title of
\* the job it is recorded for.
THEOREM NothingShared == Spec => []NoSharing
<1>1. IndInv /\ OwnInv => NoSharing
  BY OwnApart DEF NoSharing
<1> QED
  BY <1>1, Invariance, Ownership, PTL

\* A container is configured and runs only behind verified firewall rules and,
\* unless another job has its title, with its volume attached, whatever the scan
\* and DELETE requests do meanwhile.
THEOREM RunsAreProvisioned == Spec => []RunsProvisioned
<1>1. ASSUME IndInv, OwnInv PROVE RunsProvisioned
  <2> SUFFICES ASSUME NEW j \in Jobs, ~dryRun,
                      jobs[j].status \in {"ContainerConfiguring", "ContainerRunning"}
               PROVE  /\ jobs[j].vm # None
                      /\ servers[jobs[j].vm].firewall = "visible"
                      /\ jobs[j].volume = "sized" => job_volumes[j] # << >>
                      /\ jobs[j].volume = "sized" /\ OnlyTitled(j) =>
                            volumes[Head(job_volumes[j])].on = jobs[j].vm
    BY DEF RunsProvisioned
  <2>1. HasRow(j)
    BY StatusSet DEF HasRow
  <2>2. Seen(j, Hosted) /\ Seen(j, Walled) /\ Seen(j, Stored) /\ Seen(j, Attached)
    BY DEF Seen, Hosted, Walled, Stored, Attached, Up
  <2> QED
    BY <1>1, <2>1, <2>2 DEF OwnInv, JobOwn, Provisioned
<1> QED
  BY <1>1, Invariance, Ownership, PTL


=============================================================================
