--------------------------- MODULE OutcomeProofs ---------------------------
(***************************************************************************)
(* Proofs about what clients are told of a run, for every set of jobs,     *)
(* names, volumes and servers, with lost responses, crashes and the orphan *)
(* scan: that the outcome stands, that the views agree, and that the       *)
(* reconciler implements JobLifecycle.                                     *)
(*                                                                         *)
(* A Failed run is told from a Succeeded one by its exit code or its event.*)
(* A DELETE request that races the tick (run delete_races) and a crash     *)
(* between the UPDATE and the INSERT of the event can therefore turn the   *)
(* outcome around.  The theorems assume that neither happens.              *)
(***************************************************************************)
EXTENDS OwnershipProofs

-----------------------------------------------------------------------------
(***************************************************************************)
(* The invariant.                                                          *)
(***************************************************************************)

\* The event of a state change is written: no crash and no failed query comes
\* between the UPDATE and it.
EventWritten == tick.pc = "event" => tick'.pc = "event" \/ record_event

\* Nobody sends a DELETE.
NoRequest == api.pc = "idle"

Cleanup == {"VolumeDetaching", "VolumeDeleted", "VMTerminating", "Archived"}

\* The tick alone moves a job: to the next state, or from ContainerRunning to
\* Failed.
Onward(s, t) == t = next_state(s) \/ (s = "ContainerRunning" /\ t = "Failed")
Steady(j) ==
    /\ snap[j] # "none" => jobs[j].status = snap[j]
    /\ InTurn(j) => jobs[j].status = tick.at /\ Onward(tick.at, tick.target)
    /\ BeingRecorded(j) => jobs[j].status = tick.target

\* The events say which runs failed; an exit code is known only of a run with an
\* address, and a nonzero one belongs to a run that fails.
FailureTold(j) ==
    /\ jobs[j].status = "Failed" /\ ~BeingRecorded(j) => j \in failedEvents
    /\ j \in failedEvents => jobs[j].status \in {"Failed"} \union Cleanup
    /\ jobs[j].exit = "nonzero" /\ jobs[j].status \in Cleanup => j \in failedEvents
    /\ jobs[j].status = "Succeeded" \/ Entering(j, {"Succeeded"}) => jobs[j].exit # "nonzero"
ExitFound(j) ==
    \/ jobs[j].exit # None
    \/ tick.pc = "record" /\ tick.job = j /\ tick.at = "ContainerRunning"
ExitHasAddress(j) == ExitFound(j) => jobs[j].ip # None

OutcomeOk(j) == Steady(j) /\ FailureTold(j) /\ ExitHasAddress(j)
OutcomeInv == NoRequest /\ \A j \in Jobs : OutcomeOk(j)

-----------------------------------------------------------------------------
(***************************************************************************)
(* The refinement mapping: how a step that touches one job at most appears *)
(* to a client.                                                            *)
(***************************************************************************)

\* The step tells the client nothing new about a job.
SameView(i) ==
    /\ (jobs'[i].status = "Archived") = (jobs[i].status = "Archived")
    /\ Phases'[i] = Phases[i]

\* The step moves a job the way JobLifecycle allows.
ViewMoves(k) ==
    \/ SameView(k)
    \/ /\ (jobs'[k].status = "Archived") = (jobs[k].status = "Archived")
       /\ \/ Phases[k] = "none" /\ Phases'[k] = "Pending"
          \/ Phases[k] = "Pending" /\ Phases'[k] = "Running"
          \/ Phases[k] = "Running" /\ Phases'[k] = "Succeeded"
          \/ Phases[k] \in {"Pending", "Running"} /\ Phases'[k] = "Failed"
    \/ /\ jobs[k].status # "Archived" /\ jobs'[k].status = "Archived"
       /\ Phases[k] \in {"Succeeded", "Failed"} /\ Phases'[k] = Phases[k]

\* One job moves and the others stay: that is a step of JobLifecycle, or none.
LEMMA OneJobMoves ==
    ASSUME NEW k \in Jobs, ViewMoves(k), \A i \in Jobs \ {k} : SameView(i)
    PROVE  [Lifecycle!Next]_(Lifecycle!vars)
<1>1. Phases' = [Phases EXCEPT ![k] = Phases'[k]]
  BY DEF Phases, SameView
<1>2. (jobs'[k].status = "Archived") = (jobs[k].status = "Archived")
      => ArchivedJobs' = ArchivedJobs
  BY DEF ArchivedJobs, SameView, TERMINAL_STATE
<1>3. jobs'[k].status = "Archived" => ArchivedJobs' = ArchivedJobs \union {k}
  BY DEF ArchivedJobs, SameView, TERMINAL_STATE
<1>4. jobs[k].status # "Archived" => k \notin ArchivedJobs
  BY DEF ArchivedJobs, TERMINAL_STATE
<1>5. Phases'[k] = Phases[k] => Phases' = Phases
  BY DEF Phases, SameView
<1>6. CASE Phases'[k] = Phases[k] /\ ArchivedJobs' = ArchivedJobs
  BY <1>5, <1>6 DEF Lifecycle!vars
<1>7. CASE /\ ArchivedJobs' = ArchivedJobs
           /\ \/ Phases[k] = "none" /\ Phases'[k] = "Pending"
              \/ Phases[k] = "Pending" /\ Phases'[k] = "Running"
              \/ Phases[k] = "Running" /\ Phases'[k] = "Succeeded"
              \/ Phases[k] \in {"Pending", "Running"} /\ Phases'[k] = "Failed"
  <2>1. Lifecycle!Submit(k) \/ Lifecycle!Start(k) \/ Lifecycle!Succeed(k) \/ Lifecycle!Fail(k)
    BY <1>1, <1>7 DEF Lifecycle!Submit, Lifecycle!Start, Lifecycle!Succeed, Lifecycle!Fail,
                      Lifecycle!Becomes
  <2> QED
    BY <2>1 DEF Lifecycle!Next
<1>8. CASE /\ jobs[k].status # "Archived" /\ jobs'[k].status = "Archived"
           /\ Phases[k] \in {"Succeeded", "Failed"} /\ Phases'[k] = Phases[k]
  <2>1. Lifecycle!Archive(k)
    BY <1>3, <1>4, <1>5, <1>8 DEF Lifecycle!Archive, Lifecycle!Finished
  <2> QED
    BY <2>1 DEF Lifecycle!Next
<1> QED
  BY <1>2, <1>6, <1>7, <1>8 DEF ViewMoves, SameView


\* What the views read of a job.
SameRow(i) ==
    /\ jobs'[i].status = jobs[i].status
    /\ jobs'[i].exit = jobs[i].exit
    /\ jobs'[i].ip = jobs[i].ip
    /\ (i \in failedEvents') = (i \in failedEvents)

\* A job left alone: its row, its place in the snapshot, and the turn in
\* progress if it is its own.
LeftAlone(i) ==
    /\ SameRow(i)
    /\ snap'[i] \in {snap[i], "none", jobs[i].status}
    /\ tick' = tick \/ (~InTurn(i)' /\ ~BeingRecorded(i) /\ ~BeingRecorded(i)')

\* Nothing known of such a job changes, nor what the client sees of it.
LEMMA LeftAloneKept ==
    ASSUME NEW i \in Jobs, OutcomeOk(i), LeftAlone(i)
    PROVE  OutcomeOk(i)' /\ SameView(i)
<1>1. Steady(i)'
  BY DEF OutcomeOk, Steady, LeftAlone, SameRow, InTurn, BeingRecorded
<1>2. FailureTold(i)'
  BY DEF OutcomeOk, FailureTold, LeftAlone, SameRow, InTurn, Entering, BeingRecorded
<1>3. ExitHasAddress(i)'
  BY DEF OutcomeOk, ExitHasAddress, ExitFound, LeftAlone, SameRow, InTurn
<1>4. SameView(i)
  BY DEF SameView, LeftAlone, SameRow, Phases, HasRow, Outcome, RunFailed
<1> QED
  BY <1>1, <1>2, <1>3, <1>4 DEF OutcomeOk

\* A step that leaves every job alone.
LEMMA QuietKept ==
    ASSUME OutcomeInv, NoRequest', \A i \in Jobs : LeftAlone(i)
    PROVE  OutcomeInv' /\ [Lifecycle!Next]_(Lifecycle!vars)
<1>1. \A i \in Jobs : OutcomeOk(i)' /\ SameView(i)
  BY LeftAloneKept DEF OutcomeInv
<1>2. Phases' = Phases /\ ArchivedJobs' = ArchivedJobs
  BY <1>1 DEF SameView, Phases, ArchivedJobs, TERMINAL_STATE
<1> QED
  BY <1>1, <1>2 DEF OutcomeInv, Lifecycle!vars

\* A step that touches one job.
LEMMA OneKept ==
    ASSUME OutcomeInv, NoRequest', NEW k \in Jobs, \A i \in Jobs \ {k} : LeftAlone(i),
           OutcomeOk(k)', ViewMoves(k)
    PROVE  OutcomeInv' /\ [Lifecycle!Next]_(Lifecycle!vars)
<1>1. \A i \in Jobs \ {k} : OutcomeOk(i)' /\ SameView(i)
  BY LeftAloneKept DEF OutcomeInv
<1> QED
  BY <1>1, OneJobMoves DEF OutcomeInv

-----------------------------------------------------------------------------
(***************************************************************************)
(* The steps of the tick before it writes.                                 *)
(***************************************************************************)

\* The handler's result: no progress, or the next state to move to; Succeeded is
\* not among them unless an exit code is to be recorded first, or there is no
\* address to ask.
Taken(k) ==
    \/ Stay(k)
    \/ Abort
    \/ /\ snap' = [snap EXCEPT ![k] = "none"]
       /\ tick'.pc \in {"record", "update"} /\ tick'.job = k /\ tick'.at = snap[k]
       /\ Onward(snap[k], tick'.target)
       /\ tick'.pc = "update" /\ tick'.target = "Succeeded" => jobs[k].ip = None
       /\ tick'.pc = "record" /\ tick'.at = "ContainerRunning" => jobs[k].ip # None

\* A turn that ends there keeps the invariant and shows the client nothing.
LEMMA TurnKept ==
    ASSUME IndInv, OutcomeInv, NoRequest', UNCHANGED <<jobs, failedEvents>>,
           NEW k \in Jobs, tick.pc = "next", snap[k] # "none", Taken(k)
    PROVE  OutcomeInv' /\ [Lifecycle!Next]_(Lifecycle!vars)
<1>0. snap \in [Jobs -> Statuses \union {"none"}]
  BY DEF IndInv, TypeOK
<1>1. CASE Stay(k)
  <2>1. \A i \in Jobs : LeftAlone(i)
    BY <1>0, <1>1 DEF Stay, LeftAlone, SameRow
  <2> QED
    BY <2>1, QuietKept
<1>2. CASE Abort
  <2>1. \A i \in Jobs : LeftAlone(i)
    BY <1>2 DEF Abort, LeftAlone, SameRow, NoSnapshot, IdleTick, InTurn, BeingRecorded
  <2> QED
    BY <2>1, QuietKept
<1>3. ASSUME ~Stay(k), ~Abort
      PROVE  OutcomeInv' /\ [Lifecycle!Next]_(Lifecycle!vars)
  <2>1. /\ snap' = [snap EXCEPT ![k] = "none"]
        /\ tick'.pc \in {"record", "update"} /\ tick'.job = k /\ tick'.at = snap[k]
        /\ Onward(snap[k], tick'.target)
        /\ tick'.pc = "update" /\ tick'.target = "Succeeded" => jobs[k].ip = None
        /\ tick'.pc = "record" /\ tick'.at = "ContainerRunning" => jobs[k].ip # None
    BY <1>3 DEF Taken
  <2>2. \A i \in Jobs \ {k} : LeftAlone(i)
    BY <1>0, <2>1 DEF LeftAlone, SameRow, InTurn, BeingRecorded
  <2>3. Steady(k) /\ FailureTold(k) /\ ExitHasAddress(k)
    BY DEF OutcomeInv, OutcomeOk
  <2>4. Steady(k)'
    BY <1>0, <2>1, <2>3 DEF Steady, InTurn, BeingRecorded
  <2>5. FailureTold(k)'
    BY <2>1, <2>3, ExitAssumption
       DEF ExitCodes, FailureTold, ExitHasAddress, ExitFound, Entering, BeingRecorded
  <2>6. ExitHasAddress(k)'
    BY <2>1, <2>3 DEF ExitHasAddress, ExitFound
  <2>7. ViewMoves(k)
    BY DEF ViewMoves, SameView, Phases, HasRow, Outcome, RunFailed
  <2> QED
    BY <2>2, <2>4, <2>5, <2>6, <2>7, OneKept DEF OutcomeOk
<1> QED
  BY <1>1, <1>2, <1>3


\* Only a run in ContainerRunning is followed by Succeeded.
LEMMA SucceededAfterRun ==
    ASSUME NEW s \in Statuses, s # "Archived", next_state(s) = "Succeeded"
    PROVE  s = "ContainerRunning"
  BY StatusSet, Successors

\* A handler that moves its job to the next state.
LEMMA MovesOn ==
    ASSUME IndInv, NEW k \in Jobs, snap[k] # "none", NEW pc \in {"record", "update"}, NEW r,
           Proceed(k, pc, next_state(snap[k]), r),
           snap[k] = "ContainerRunning" => pc = "update" /\ jobs[k].ip = None
    PROVE  Taken(k)
<1>1. snap[k] \in Statuses /\ snap[k] # "Archived"
  BY DEF IndInv, TypeOK, SnapshotCoherent, TERMINAL_STATE
<1>2. next_state(snap[k]) = "Succeeded" => snap[k] = "ContainerRunning"
  BY <1>1, SucceededAfterRun
<1> QED
  BY <1>1, <1>2 DEF Taken, Proceed, Onward

\* The transitions that need no work, the reads that find no row, the attempts
\* that fail.
LEMMA AdvanceTaken ==
    ASSUME IndInv, OwnInv, OutcomeInv, NEW k \in Jobs,
           advance(k) \/ missing_row(k) \/ attempt_fails(k)
    PROVE  Taken(k) /\ snap[k] # "none" /\ tick.pc = "next"
<1>1. tick.pc = "next" /\ snap[k] # "none"
  BY Selected DEF advance, missing_row, attempt_fails, Handling
<1>2. CASE advance(k)
  <2>1. PICK s \in Statuses : /\ Handling(k, s)
                              /\ s \in UnhandledStates \/ NothingToDo(k, s)
                              /\ MoveOn(k, next_state(s))
    BY <1>2 DEF advance
  <2>2. snap[k] = s
    BY <2>1, Selected DEF Handling
  <2>3. s = "ContainerRunning" => jobs[k].ip = None
    <3>1. HasRow(k)
      BY <1>1, <2>2 DEF OutcomeInv, OutcomeOk, Steady, HasRow
    <3>2. dryRun => jobs[k].ip = None
      BY <3>1 DEF OwnInv, JobOwn, AddressIsVm, IndInv, DryRunRecordsNothing
    <3> QED
      BY <2>1, <3>2 DEF UnhandledStates, NothingToDo
  <2> QED
    BY <1>1, <2>1, <2>2, <2>3, MovesOn DEF MoveOn
<1>3. CASE missing_row(k) \/ attempt_fails(k)
  BY <1>1, <1>3 DEF missing_row, attempt_fails, FailedAttempt, Taken
<1> QED
  BY <1>1, <1>2, <1>3

\* The handlers of the states before ContainerRunning.
LEMMA SetupTaken ==
    ASSUME IndInv, NEW k \in Jobs, NEW o \in Outcomes, NEW listed \in BOOLEAN,
           \/ handle_volume_pending(k, o, listed) \/ handle_vm_pending(k, o, listed)
           \/ handle_firewall_applying(k, o) \/ handle_volume_attaching(k, o)
           \/ handle_container_configuring(k, o)
           \/ handle_firewall_verified(k) \/ handle_vm_creating(k)
    PROVE  Taken(k) /\ snap[k] # "none" /\ tick.pc = "next"
<1>1. /\ tick.pc = "next" /\ snap[k] # "none" /\ snap[k] # "ContainerRunning"
      /\ \/ FailedAttempt(k)
         \/ \E pc \in {"record", "update"} : \E r : Proceed(k, pc, next_state(snap[k]), r)
  <2>1. CASE handle_volume_pending(k, o, listed)
    BY <2>1 DEF handle_volume_pending, Handling, Turn, Keep
  <2>2. CASE handle_vm_pending(k, o, listed)
    BY <2>2 DEF handle_vm_pending, Handling, Turn, Keep
  <2>3. CASE handle_firewall_applying(k, o)
    BY <2>3 DEF handle_firewall_applying, Handling, Turn, MoveOn
  <2>4. CASE handle_volume_attaching(k, o)
    BY <2>4 DEF handle_volume_attaching, Handling, Turn, MoveOn
  <2>5. CASE handle_container_configuring(k, o)
    BY <2>5 DEF handle_container_configuring, Handling, Turn, MoveOn
  <2>6. CASE handle_firewall_verified(k)
    BY <2>6 DEF handle_firewall_verified, Handling, Turn, MoveOn
  <2>7. CASE handle_vm_creating(k)
    BY <2>7 DEF handle_vm_creating, Handling, Turn, MoveOn, Keep
  <2> QED
    BY <2>1, <2>2, <2>3, <2>4, <2>5, <2>6, <2>7
<1>2. CASE FailedAttempt(k)
  BY <1>1, <1>2 DEF FailedAttempt, Taken
<1>3. ASSUME NEW pc \in {"record", "update"}, NEW r, Proceed(k, pc, next_state(snap[k]), r)
      PROVE  Taken(k)
  BY <1>1, <1>3, MovesOn
<1> QED
  BY <1>1, <1>2, <1>3

\* The handlers of ContainerRunning and of the cleanup.
LEMMA CleanupTaken ==
    ASSUME IndInv, NEW k \in Jobs, NEW o \in Outcomes, NEW detached \in BOOLEAN,
           \/ handle_container_running(k) \/ handle_volume_detaching(k, o, detached)
           \/ stop_worker(k) \/ delete_worker(k, o)
    PROVE  Taken(k) /\ snap[k] # "none" /\ tick.pc = "next"
<1>1. CASE handle_container_running(k)
  <2>1. /\ tick.pc = "next" /\ snap[k] = "ContainerRunning" /\ jobs[k].ip # None
        /\ \E t \in {"Succeeded", "Failed"} : \E r : Keep(k, t, r)
    BY <1>1 DEF handle_container_running, Handling, Turn, Reachable
  <2> QED
    BY <2>1, Successors DEF Taken, Keep, Proceed, Onward
<1>2. ASSUME \/ handle_volume_detaching(k, o, detached)
             \/ stop_worker(k) \/ delete_worker(k, o)
      PROVE  Taken(k) /\ snap[k] # "none" /\ tick.pc = "next"
  <2>1. /\ tick.pc = "next" /\ snap[k] # "none" /\ snap[k] # "ContainerRunning"
        /\ \/ FailedAttempt(k)
           \/ Stay(k)
           \/ \E pc \in {"record", "update"} : \E r : Proceed(k, pc, next_state(snap[k]), r)
    <3>1. CASE handle_volume_detaching(k, o, detached)
      BY <3>1 DEF handle_volume_detaching, Handling, Turn, Keep
    <3>2. CASE stop_worker(k)
      BY <3>2 DEF stop_worker, Handling, Turn
    <3>3. CASE delete_worker(k, o)
      BY <3>3 DEF delete_worker, Handling, Turn, MoveOn
    <3> QED
      BY <1>2, <3>1, <3>2, <3>3
  <2>2. CASE FailedAttempt(k) \/ Stay(k)
    BY <2>1, <2>2 DEF FailedAttempt, Taken
  <2>3. ASSUME NEW pc \in {"record", "update"}, NEW r, Proceed(k, pc, next_state(snap[k]), r)
        PROVE  Taken(k)
    BY <2>1, <2>3, MovesOn
  <2> QED
    BY <2>1, <2>2, <2>3
<1> QED
  BY <1>1, <1>2

\* Every handler but force_failed takes its turn that way and writes nothing.
LEMMA HandlerKept ==
    ASSUME IndInv, OwnInv, OutcomeInv, NoRequest', NEW k \in Jobs, Handlers(k), ~force_failed(k)
    PROVE  OutcomeInv' /\ [Lifecycle!Next]_(Lifecycle!vars)
<1>1. Taken(k) /\ snap[k] # "none" /\ tick.pc = "next"
  BY AdvanceTaken, SetupTaken, CleanupTaken DEF Handlers, Outcomes
<1>2. UNCHANGED <<jobs, failedEvents>>
  <2>1. CASE advance(k) \/ missing_row(k) \/ attempt_fails(k)
    BY <2>1 DEF advance, missing_row, attempt_fails, dbVars
  <2>2. CASE \E o \in Outcomes, listed \in BOOLEAN :
                handle_volume_pending(k, o, listed) \/ handle_vm_pending(k, o, listed)
    BY <2>2 DEF handle_volume_pending, handle_vm_pending, dbVars
  <2>3. CASE \E o \in Outcomes : handle_firewall_applying(k, o) \/ handle_volume_attaching(k, o)
    BY <2>3 DEF handle_firewall_applying, handle_volume_attaching, dbVars
  <2>4. CASE \E o \in Outcomes : handle_container_configuring(k, o) \/ delete_worker(k, o)
    BY <2>4 DEF handle_container_configuring, delete_worker, dbVars
  <2>5. CASE \/ handle_firewall_verified(k) \/ handle_vm_creating(k)
             \/ handle_container_running(k) \/ stop_worker(k)
    BY <2>5 DEF handle_firewall_verified, handle_vm_creating, handle_container_running,
                stop_worker, dbVars
  <2>6. CASE \E o \in Outcomes, detached \in BOOLEAN : handle_volume_detaching(k, o, detached)
    BY <2>6 DEF handle_volume_detaching, dbVars
  <2> QED
    BY <2>1, <2>2, <2>3, <2>4, <2>5, <2>6 DEF Handlers
<1> QED
  BY <1>1, <1>2, TurnKept


-----------------------------------------------------------------------------
(***************************************************************************)
(* The writes of the tick.                                                 *)
(***************************************************************************)

\* phase_for, spelled out.
LEMMA PhaseFor ==
    ASSUME NEW failed \in BOOLEAN
    PROVE  /\ \A s \in Pre \ {"ContainerRunning"} : phase_for(s, failed) = "Pending"
           /\ phase_for("ContainerRunning", failed) = "Running"
           /\ phase_for("Succeeded", failed) = "Succeeded"
           /\ phase_for("Failed", failed) = "Failed"
           /\ \A s \in Cleanup :
                 phase_for(s, failed) = IF failed THEN "Failed" ELSE "Succeeded"
  BY DEF phase_for, Cleanup, Pre, Stored, Hosted, Walled, Up

\* What a status makes of the phase.
LEMMA PhaseOf ==
    ASSUME NEW k \in Jobs
    PROVE  /\ jobs[k].status \in Pre \ {"ContainerRunning"} => Phases[k] = "Pending"
           /\ jobs[k].status = "ContainerRunning" => Phases[k] = "Running"
           /\ jobs[k].status = "Succeeded" => Phases[k] = "Succeeded"
           /\ jobs[k].status = "Failed" => Phases[k] = "Failed"
           /\ jobs[k].status \in Cleanup =>
                 Phases[k] = IF RunFailed(k) THEN "Failed" ELSE "Succeeded"
           /\ jobs[k].status = "absent" => Phases[k] = "none"
<1>1. RunFailed(k) \in BOOLEAN
  BY DEF RunFailed
<1>2. Phases[k] = IF HasRow(k) THEN phase_for(jobs[k].status, RunFailed(k)) ELSE "none"
  BY DEF Phases, Outcome
<1>3. /\ \A s \in Pre \union Cleanup : s \in Statuses
      /\ "Succeeded" \in Statuses /\ "Failed" \in Statuses /\ "ContainerRunning" \in Statuses
      /\ "absent" \notin Statuses
  BY StatusSet, StageSets DEF Cleanup
<1> QED
  BY <1>1, <1>2, <1>3, PhaseFor DEF HasRow

\* The job at hand is in the state the tick has it in.
LEMMA AtHand ==
    ASSUME IndInv, OutcomeInv, tick.pc \in {"record", "update"}
    PROVE  /\ tick.job \in Jobs /\ snap[tick.job] = "none" /\ HasRow(tick.job)
           /\ jobs[tick.job].status = tick.at /\ tick.at \in Statuses /\ tick.at # "Archived"
           /\ Onward(tick.at, tick.target) /\ tick.target \in Statuses
<1>1. /\ tick.job \in Jobs /\ snap[tick.job] = "none" /\ tick.at # "Archived"
      /\ tick.target \in Statuses /\ tick.at \in Statuses \union {"none"}
      /\ jobs[tick.job].status \in Statuses \union {"absent", "deleted"}
  BY DEF IndInv, TypeOK, Tick, Row, InFlightOK, SnapshotCoherent, TERMINAL_STATE
<1>2. jobs[tick.job].status = tick.at /\ Onward(tick.at, tick.target)
  BY <1>1 DEF OutcomeInv, OutcomeOk, Steady, InTurn
<1> QED
  BY <1>1, <1>2, StatusSet DEF HasRow

\* The tick writes a column of the row, or a row of job_volumes.
ColumnSet(k) ==
    /\ \A i \in Jobs \ {k} : jobs'[i] = jobs[i]
    /\ jobs'[k].status = jobs[k].status
    /\ \/ tick.at # "ContainerRunning" /\ jobs'[k].exit = jobs[k].exit
       \/ /\ tick.at = "ContainerRunning" /\ tick.res \in ExitCodes
          /\ jobs'[k].exit = tick.res /\ jobs'[k].ip = jobs[k].ip
    /\ jobs[k].ip # None => jobs'[k].ip # None

\* That keeps the invariant; the phase of a running job does not depend on its
\* exit code.
LEMMA ColumnKept ==
    ASSUME IndInv, OwnInv, OutcomeInv, NoRequest', UNCHANGED <<failedEvents, snap>>,
           tick.pc = "record", tick' = [tick EXCEPT !.pc = "update"],
           NEW k \in Jobs, tick.job = k, ColumnSet(k)
    PROVE  OutcomeInv' /\ [Lifecycle!Next]_(Lifecycle!vars)
<1>1. tick \in Tick
  BY DEF IndInv, TypeOK
<1>2. /\ tick'.pc = "update" /\ tick'.job = k /\ tick'.at = tick.at
      /\ tick'.target = tick.target
  BY <1>1 DEF Tick
<1>3. /\ snap[k] = "none" /\ HasRow(k) /\ jobs[k].status = tick.at /\ tick.at \in Statuses
      /\ tick.at # "Archived" /\ Onward(tick.at, tick.target)
  BY AtHand
<1>4. Steady(k) /\ FailureTold(k) /\ ExitHasAddress(k)
  BY DEF OutcomeInv, OutcomeOk
<1>5. tick.target = "Succeeded" => tick.at = "ContainerRunning" /\ tick.res = "zero"
  <2>1. FoundTitled(k)
    BY <1>3 DEF OwnInv, JobOwn
  <2>2. tick.target = "Succeeded" => tick.at = "ContainerRunning"
    BY <1>3, SucceededAfterRun DEF Onward
  <2> QED
    BY <2>1, <2>2 DEF FoundTitled
<1>6. \A i \in Jobs \ {k} : LeftAlone(i)
  BY <1>2 DEF LeftAlone, SameRow, ColumnSet, InTurn, BeingRecorded
<1>7. Steady(k)'
  BY <1>2, <1>3 DEF Steady, InTurn, BeingRecorded, ColumnSet
<1>8. FailureTold(k)'
  <2>1. /\ ~BeingRecorded(k)' /\ ~BeingRecorded(k)
        /\ Entering(k, {"Succeeded"})' => tick.target = "Succeeded"
    BY <1>2 DEF BeingRecorded, Entering
  <2>2. jobs[k].status \in Cleanup \/ jobs[k].status = "Succeeded" => tick.at # "ContainerRunning"
    BY <1>3 DEF Cleanup
  <2> QED
    BY <1>3, <1>4, <1>5, <2>1, <2>2 DEF FailureTold, ColumnSet
<1>9. ExitHasAddress(k)'
  BY <1>2, <1>4 DEF ExitHasAddress, ExitFound, ColumnSet
<1>10. ViewMoves(k)
  <2>1. CASE tick.at = "ContainerRunning"
    <3>1. Phases[k] = "Running"
      BY <1>3, <2>1, PhaseOf
    <3>2. Phases'[k] = "Running"
      BY <1>3, <2>1, StatusSet DEF ColumnSet, Phases, HasRow, Outcome, phase_for
    <3> QED
      BY <3>1, <3>2 DEF ViewMoves, SameView, ColumnSet
  <2>2. CASE tick.at # "ContainerRunning"
    BY <2>2 DEF ViewMoves, SameView, ColumnSet, Phases, HasRow, Outcome, RunFailed
  <2> QED
    BY <2>1, <2>2
<1> QED
  BY <1>6, <1>7, <1>8, <1>9, <1>10, OneKept DEF OutcomeOk

\* All writes but those of the status.
LEMMA RecordKept ==
    ASSUME IndInv, OwnInv, OutcomeInv, NoRequest',
           \/ insert_job_volume \/ set_worker_vm \/ set_worker_ssh_ip \/ record_completion
           \/ delete_job_volume
    PROVE  OutcomeInv' /\ [Lifecycle!Next]_(Lifecycle!vars)
<1>1. /\ tick.pc = "record" /\ tick' = [tick EXCEPT !.pc = "update"]
      /\ UNCHANGED <<failedEvents, snap>>
  BY DEF insert_job_volume, set_worker_vm, set_worker_ssh_ip, record_completion,
         delete_job_volume, Recording
<1>2. PICK k \in Jobs : k = tick.job
  BY <1>1, AtHand
<1>3. HasRow(k) /\ jobs \in [Jobs -> Row] /\ jobs[k] \in Row
  BY <1>1, <1>2, AtHand DEF IndInv, TypeOK
<1>4. CASE insert_job_volume \/ delete_job_volume
  <2>1. ColumnSet(k)
    BY <1>4 DEF insert_job_volume, delete_job_volume, ColumnSet, Recording
  <2> QED
    BY <1>1, <1>2, <2>1, ColumnKept
<1>5. CASE set_worker_vm
  <2>1. tick.at = "VMPending" /\ jobs' = [jobs EXCEPT ![k] = [jobs[k] EXCEPT !.vm = tick.res]]
    BY <1>2, <1>3, <1>5 DEF set_worker_vm, Recording, SetColumn
  <2>2. ColumnSet(k)
    BY <1>3, <2>1 DEF ColumnSet, Row
  <2> QED
    BY <1>1, <1>2, <2>2, ColumnKept
<1>6. CASE set_worker_ssh_ip
  <2>1. /\ tick.at = "VMCreating" /\ jobs' = [jobs EXCEPT ![k] = [jobs[k] EXCEPT !.ip = tick.res]]
        /\ tick.res \in Servers
    BY <1>1, <1>2, <1>3, <1>6 DEF set_worker_ssh_ip, Recording, SetColumn, IndInv, InFlightOK
  <2>2. ColumnSet(k)
    BY <1>3, <2>1, NoneAssumption DEF ColumnSet, Row
  <2> QED
    BY <1>1, <1>2, <2>2, ColumnKept
<1>7. CASE record_completion
  <2>1. /\ tick.at = "ContainerRunning"
        /\ jobs' = [jobs EXCEPT ![k] = [jobs[k] EXCEPT !.exit = tick.res]]
        /\ tick.res \in ExitCodes
    BY <1>1, <1>2, <1>3, <1>7 DEF record_completion, Recording, SetColumn, IndInv, InFlightOK
  <2>2. ColumnSet(k)
    BY <1>3, <2>1 DEF ColumnSet, Row
  <2> QED
    BY <1>1, <1>2, <2>2, ColumnKept
<1> QED
  BY <1>4, <1>5, <1>6, <1>7


\* Where a job can go from a state.
LEMMA OnwardCases ==
    ASSUME NEW s \in Statuses, s # "Archived", NEW t, Onward(s, t)
    PROVE  \/ s \in Pre \ {"ContainerRunning"} /\ t \in Pre
           \/ s = "ContainerRunning" /\ t \in {"Succeeded", "Failed"}
           \/ s \in {"Succeeded", "Failed"} /\ t = "VolumeDetaching"
           \/ s \in Cleanup /\ t \in Cleanup
  BY StatusSet, Successors, SMTT(30) DEF Onward, Pre, Stored, Hosted, Walled, Up, Cleanup

\* The stages before completion, Succeeded, Failed and Cleanup are apart.
LEMMA StatesApart ==
    /\ \A s \in Pre : s \notin Cleanup /\ s # "Succeeded" /\ s # "Failed" /\ s # "Archived"
    /\ \A s \in Cleanup : s # "Succeeded" /\ s # "Failed"
    /\ "ContainerRunning" \in Pre /\ "VolumeDetaching" \in Cleanup /\ "Archived" \in Cleanup
  BY DEF Pre, Stored, Hosted, Walled, Up, Cleanup

\* UPDATE jobs SET status: the phase moves on, or stays as it was told.
LEMMA UpdateKept ==
    ASSUME IndInv, OutcomeInv, NoRequest', update_status
    PROVE  OutcomeInv' /\ [Lifecycle!Next]_(Lifecycle!vars)
<1>1. tick.pc = "update" /\ UNCHANGED <<failedEvents, snap>> /\ tick \in Tick
  BY DEF update_status, IndInv, TypeOK
<1>2. PICK k \in Jobs : k = tick.job
  BY <1>1, AtHand
<1>3. /\ snap[k] = "none" /\ HasRow(k) /\ jobs[k].status = tick.at /\ tick.at \in Statuses
      /\ tick.at # "Archived" /\ Onward(tick.at, tick.target)
  BY <1>1, <1>2, AtHand
<1>4. jobs \in [Jobs -> Row] /\ jobs[k] \in Row
  BY DEF IndInv, TypeOK
<1>5. jobs' = [jobs EXCEPT ![k] = [jobs[k] EXCEPT !.status = tick.target]]
  BY <1>2, <1>3 DEF update_status, SetColumn
<1>6. /\ \A i \in Jobs \ {k} : jobs'[i] = jobs[i]
      /\ jobs'[k].status = tick.target /\ jobs'[k].exit = jobs[k].exit
      /\ jobs'[k].ip = jobs[k].ip
  BY <1>4, <1>5 DEF Row
<1>7. tick'.pc = "event" /\ tick'.job = k /\ tick'.target = tick.target
  BY <1>1, <1>2 DEF update_status, Tick
<1>8. Steady(k) /\ FailureTold(k) /\ ExitHasAddress(k)
  BY DEF OutcomeInv, OutcomeOk
<1>9. \/ tick.at \in Pre \ {"ContainerRunning"} /\ tick.target \in Pre
      \/ tick.at = "ContainerRunning" /\ tick.target \in {"Succeeded", "Failed"}
      \/ tick.at \in {"Succeeded", "Failed"} /\ tick.target = "VolumeDetaching"
      \/ tick.at \in Cleanup /\ tick.target \in Cleanup
  BY <1>3, OnwardCases
<1>10. \A i \in Jobs \ {k} : LeftAlone(i)
  BY <1>1, <1>2, <1>6, <1>7 DEF LeftAlone, SameRow, InTurn, BeingRecorded
<1>11. Steady(k)'
  BY <1>1, <1>3, <1>6, <1>7 DEF Steady, InTurn, BeingRecorded
<1>12. BeingRecorded(k)' /\ ~BeingRecorded(k) /\ ~Entering(k, {"Succeeded"})'
  BY <1>1, <1>7 DEF BeingRecorded, Entering
<1>13. tick.target = "Succeeded" => Entering(k, {"Succeeded"})
  BY <1>1, <1>2 DEF Entering
<1>14. FailureTold(k)'
  BY <1>1, <1>3, <1>6, <1>8, <1>9, <1>12, <1>13, StatesApart DEF FailureTold
<1>15. ExitHasAddress(k)'
  BY <1>6, <1>7, <1>8 DEF ExitHasAddress, ExitFound
<1>16. RunFailed(k)' = RunFailed(k)
  BY <1>1, <1>6 DEF RunFailed
<1>17. ViewMoves(k)
  <2>1. /\ tick.at \in Pre \ {"ContainerRunning"} => Phases[k] = "Pending"
        /\ tick.at = "ContainerRunning" => Phases[k] = "Running"
        /\ tick.at = "Succeeded" => Phases[k] = "Succeeded"
        /\ tick.at = "Failed" => Phases[k] = "Failed"
        /\ tick.at \in Cleanup => Phases[k] = IF RunFailed(k) THEN "Failed" ELSE "Succeeded"
    BY <1>3, PhaseOf
  <2>2. RunFailed(k) \in BOOLEAN /\ tick.target \in Statuses
    BY <1>1, AtHand DEF RunFailed
  <2>3. Phases'[k] = phase_for(tick.target, RunFailed(k))
    BY <1>6, <1>16, <2>2 DEF Phases, HasRow, Outcome
  <2>4. /\ tick.target \in Pre \ {"ContainerRunning"} => Phases'[k] = "Pending"
        /\ tick.target = "ContainerRunning" => Phases'[k] = "Running"
        /\ tick.target = "Succeeded" => Phases'[k] = "Succeeded"
        /\ tick.target = "Failed" => Phases'[k] = "Failed"
        /\ tick.target \in Cleanup => Phases'[k] = IF RunFailed(k) THEN "Failed" ELSE "Succeeded"
    BY <2>2, <2>3, PhaseFor
  <2>5. /\ tick.at = "Failed" => RunFailed(k)
        /\ tick.at = "Succeeded" => ~RunFailed(k)
    BY <1>3, <1>8, <1>12, StatesApart DEF FailureTold, RunFailed
  <2>6. CASE tick.at \in Pre
    BY <1>3, <1>6, <1>9, <2>1, <2>4, <2>6, StatesApart DEF ViewMoves, SameView
  <2>7. CASE tick.at \in {"Succeeded", "Failed"}
    BY <1>3, <1>6, <1>9, <2>1, <2>4, <2>5, <2>7, StatesApart DEF ViewMoves, SameView
  <2>8. CASE tick.at \in Cleanup
    BY <1>3, <1>6, <1>9, <2>1, <2>4, <2>8, StatesApart DEF ViewMoves, SameView
  <2> QED
    BY <1>9, <2>6, <2>7, <2>8, StatesApart
<1> QED
  BY <1>10, <1>11, <1>14, <1>15, <1>17, OneKept DEF OutcomeOk

\* The states a deadline or a timeout applies to are those of Pre.
LEMMA BeforeCompletion ==
    ASSUME NEW s \in Statuses
    PROVE  is_pre_completion_state(s) = (s \in Pre)
<1>1. /\ Position("Created") = 1 /\ Position("VolumePending") = 2
      /\ Position("VolumeCreating") = 3 /\ Position("VolumeCreated") = 4
      /\ Position("VMPending") = 5 /\ Position("FirewallApplying") = 6
  BY SMTT(30) DEF Position, STATE_SEQUENCE
<1>2. /\ Position("FirewallVerified") = 7 /\ Position("VMCreating") = 8
      /\ Position("VMRunning") = 9 /\ Position("VolumeAttaching") = 10
      /\ Position("VolumeAttached") = 11 /\ Position("ContainerConfiguring") = 12
  BY SMTT(30) DEF Position, STATE_SEQUENCE
<1>3. /\ Position("ContainerRunning") = 13 /\ Position("Succeeded") = 14
      /\ Position("VolumeDetaching") = 15 /\ Position("VolumeDeleted") = 16
      /\ Position("VMTerminating") = 17 /\ Position("Archived") = 18
  BY SMTT(30) DEF Position, STATE_SEQUENCE
<1>4. ASSUME s \in Pre PROVE is_pre_completion_state(s)
  BY <1>1, <1>2, <1>3, <1>4, StatusSet, SMTT(30)
     DEF is_pre_completion_state, Pre, Stored, Hosted, Walled, Up
<1>5. ASSUME is_pre_completion_state(s) PROVE s \in Pre
  BY <1>1, <1>2, <1>3, <1>5, StatusSet, SMTT(30)
     DEF is_pre_completion_state, Pre, Stored, Hosted, Walled, Up
<1> QED
  BY <1>4, <1>5 DEF is_pre_completion_state

\* The UPDATE of force_failed.
LEMMA ForceKept ==
    ASSUME IndInv, OutcomeInv, NoRequest', NEW k \in Jobs, force_failed(k)
    PROVE  OutcomeInv' /\ [Lifecycle!Next]_(Lifecycle!vars)
<1>1. /\ tick.pc = "next" /\ UNCHANGED failedEvents /\ is_pre_completion_state(snap[k])
      /\ snap \in [Jobs -> Statuses \union {"none"}]
      /\ jobs \in [Jobs -> Row] /\ jobs[k] \in Row
  BY DEF force_failed, IndInv, TypeOK
<1>2. snap[k] \in Statuses
  BY <1>1 DEF is_pre_completion_state
<1>3. snap[k] # "none" /\ jobs[k].status = snap[k] /\ HasRow(k) /\ jobs[k].status \in Pre
  BY <1>1, <1>2, StatusSet, BeforeCompletion DEF OutcomeInv, OutcomeOk, Steady, HasRow
<1>4. /\ jobs' = [jobs EXCEPT ![k].status = "Failed"]
      /\ snap' = [snap EXCEPT ![k] = "none"]
      /\ tick'.pc = "event" /\ tick'.job = k /\ tick'.target = "Failed"
  BY <1>3 DEF force_failed, Proceed
<1>5. /\ \A i \in Jobs \ {k} : jobs'[i] = jobs[i]
      /\ jobs'[k].status = "Failed" /\ jobs'[k].exit = jobs[k].exit
      /\ jobs'[k].ip = jobs[k].ip
  BY <1>1, <1>4 DEF Row
<1>6. Steady(k) /\ FailureTold(k) /\ ExitHasAddress(k)
  BY DEF OutcomeInv, OutcomeOk
<1>7. \A i \in Jobs \ {k} : LeftAlone(i)
  BY <1>1, <1>4, <1>5 DEF LeftAlone, SameRow, InTurn, BeingRecorded
<1>8. Steady(k)'
  BY <1>1, <1>4, <1>5 DEF Steady, InTurn, BeingRecorded
<1>9. FailureTold(k)'
  BY <1>1, <1>4, <1>5, StatesApart DEF FailureTold, BeingRecorded, Entering
<1>10. ExitHasAddress(k)'
  BY <1>4, <1>5, <1>6 DEF ExitHasAddress, ExitFound
<1>11. ViewMoves(k)
  <2>1. Phases[k] \in {"Pending", "Running"}
    BY <1>3, PhaseOf
  <2>2. Phases'[k] = "Failed"
    BY <1>5, StatusSet DEF Phases, HasRow, Outcome, phase_for
  <2> QED
    BY <1>3, <1>5, <2>1, <2>2, StatesApart DEF ViewMoves
<1> QED
  BY <1>7, <1>8, <1>9, <1>10, <1>11, OneKept DEF OutcomeOk

\* INSERT INTO events: by then the row says Failed.
LEMMA EventKept ==
    ASSUME IndInv, OutcomeInv, NoRequest', record_event
    PROVE  OutcomeInv' /\ [Lifecycle!Next]_(Lifecycle!vars)
<1>1. /\ tick.pc = "event" /\ UNCHANGED <<jobs, snap>> /\ tick'.pc = "next"
      /\ failedEvents' = IF tick.target = "Failed" THEN failedEvents \union {tick.job}
                         ELSE failedEvents
  BY DEF record_event, IdleTick
<1>2. PICK k \in Jobs : k = tick.job
  BY <1>1 DEF IndInv, InFlightOK
<1>3. Steady(k) /\ FailureTold(k) /\ ExitHasAddress(k)
  BY DEF OutcomeInv, OutcomeOk
<1>4. BeingRecorded(k) /\ jobs[k].status = tick.target
  BY <1>1, <1>2, <1>3 DEF Steady, BeingRecorded
<1>5. \A i \in Jobs \ {k} : LeftAlone(i)
  BY <1>1, <1>2 DEF LeftAlone, SameRow, InTurn, BeingRecorded
<1>6. Steady(k)' /\ ExitHasAddress(k)'
  BY <1>1, <1>3 DEF Steady, ExitHasAddress, ExitFound, InTurn, BeingRecorded
<1>7. FailureTold(k)'
  BY <1>1, <1>2, <1>3, <1>4 DEF FailureTold, Entering
<1>8. ViewMoves(k)
  <2>1. CASE tick.target = "Failed"
    BY <1>1, <1>4, <2>1, StatusSet
       DEF ViewMoves, SameView, Phases, HasRow, Outcome, phase_for
  <2>2. CASE tick.target # "Failed"
    BY <1>1, <2>2 DEF ViewMoves, SameView, Phases, HasRow, Outcome, RunFailed
  <2> QED
    BY <2>1, <2>2
<1> QED
  BY <1>5, <1>6, <1>7, <1>8, OneKept DEF OutcomeOk

\* The INSERT of create_job.
LEMMA CreateKept ==
    ASSUME IndInv, OutcomeInv, NoRequest', NEW k \in Jobs, NEW w \in VolumeRequests,
           create_job(k, w)
    PROVE  OutcomeInv' /\ [Lifecycle!Next]_(Lifecycle!vars)
<1>1. /\ jobs[k].status = "absent" /\ UNCHANGED <<failedEvents, snap, tick>>
      /\ jobs \in [Jobs -> Row]
  BY DEF create_job, tickVars, IndInv, TypeOK
<1>2. /\ \A i \in Jobs \ {k} : jobs'[i] = jobs[i]
      /\ jobs'[k].status = "Created" /\ jobs'[k].exit = None
  BY <1>1 DEF create_job, NoRow
<1>3. Steady(k) /\ FailureTold(k)
  BY DEF OutcomeInv, OutcomeOk
<1>4. snap[k] = "none" /\ ~InTurn(k) /\ ~BeingRecorded(k)
  <2>1. /\ snap[k] \in Statuses \union {"none"}
        /\ tick.pc = "event" => tick.target \in Statuses
        /\ InTurn(k) => HasRow(k)
    BY AtHand DEF IndInv, TypeOK, InFlightOK, InTurn
  <2> QED
    BY <1>1, <1>3, <2>1, StatusSet DEF Steady, BeingRecorded, HasRow
<1>5. \A i \in Jobs \ {k} : LeftAlone(i)
  BY <1>1, <1>2 DEF LeftAlone, SameRow
<1>6. Steady(k)'
  BY <1>1, <1>4 DEF Steady, InTurn, BeingRecorded
<1>7. FailureTold(k)'
  BY <1>1, <1>2, <1>3, ExitAssumption DEF FailureTold, Cleanup, ExitCodes
<1>8. ExitHasAddress(k)'
  BY <1>1, <1>2, <1>4 DEF ExitHasAddress, ExitFound, InTurn
<1>9. ViewMoves(k)
  <2>1. Phases[k] = "none"
    BY <1>1, PhaseOf
  <2>2. Phases'[k] = "Pending"
    BY <1>2, StatusSet DEF Phases, HasRow, Outcome, phase_for
  <2> QED
    BY <1>1, <1>2, <2>1, <2>2 DEF ViewMoves
<1> QED
  BY <1>5, <1>6, <1>7, <1>8, <1>9, OneKept DEF OutcomeOk


-----------------------------------------------------------------------------
(***************************************************************************)
(* All steps together.                                                     *)
(***************************************************************************)

\* The tick starts, ends or is cut short; the scan; time and the cloud.
LEMMA OthersKept ==
    ASSUME IndInv, OutcomeInv, NoRequest', [EventWritten]_vars,
           \/ start_tick \/ finish_tick \/ tick_aborts \/ crash \/ scan_aborts
           \/ ScanStep \/ Environment \/ UNCHANGED vars
           \/ \E j \in Jobs, n \in Names : check_name(j, n)
    PROVE  OutcomeInv' /\ [Lifecycle!Next]_(Lifecycle!vars)
<1>1. CASE start_tick
  <2>1. \A i \in Jobs : LeftAlone(i)
    BY <1>1 DEF start_tick, dbVars, IndInv, TypeOK, Tick, LeftAlone, SameRow, InTurn, BeingRecorded
  <2> QED
    BY <2>1, QuietKept
<1>2. ASSUME tick.pc # "event", tick' = IdleTick, snap' \in {snap, NoSnapshot},
             UNCHANGED <<jobs, failedEvents>>
      PROVE  OutcomeInv' /\ [Lifecycle!Next]_(Lifecycle!vars)
  <2>1. \A i \in Jobs : LeftAlone(i)
    BY <1>2 DEF IdleTick, NoSnapshot, LeftAlone, SameRow, InTurn, BeingRecorded
  <2> QED
    BY <2>1, QuietKept
<1>3. CASE finish_tick
  BY <1>2, <1>3 DEF finish_tick, dbVars
<1>4. CASE tick_aborts \/ crash
  <2>1. tick' = IdleTick /\ snap' = NoSnapshot /\ UNCHANGED <<jobs, failedEvents>>
    BY <1>4 DEF tick_aborts, crash, Abort, dbVars
  <2>2. tick.pc # "event"
    BY <2>1 DEF EventWritten, record_event, IdleTick, vars
  <2> QED
    BY <1>2, <2>1, <2>2
<1>5. ASSUME UNCHANGED <<jobs, failedEvents, snap, tick>>
      PROVE  OutcomeInv' /\ [Lifecycle!Next]_(Lifecycle!vars)
  <2>1. \A i \in Jobs : LeftAlone(i)
    BY <1>5 DEF LeftAlone, SameRow
  <2> QED
    BY <2>1, QuietKept
<1>6. CASE scan_aborts \/ UNCHANGED vars
  BY <1>5, <1>6 DEF scan_aborts, dbVars, tickVars, vars
<1>7. CASE ScanStep
  <2>1. CASE \/ scan_lists_volumes \/ scan_reads_tracked_volumes
             \/ scan_lists_servers \/ scan_reads_tracked_servers \/ finish_scan
    BY <1>5, <2>1 DEF scan_lists_volumes, scan_reads_tracked_volumes, scan_lists_servers,
                      scan_reads_tracked_servers, finish_scan, dbVars, tickVars
  <2>2. CASE \E v \in Volumes, works \in BOOLEAN : scan_deletes_volume(v, works)
    BY <1>5, <2>2 DEF scan_deletes_volume, dbVars, tickVars
  <2>3. CASE \E m \in Servers, works \in BOOLEAN :
                scan_stops_server(m, works) \/ scan_deletes_server(m, works)
    BY <1>5, <2>3 DEF scan_stops_server, scan_deletes_server, dbVars, tickVars
  <2> QED
    BY <1>7, <2>1, <2>2, <2>3 DEF ScanStep
<1>8. CASE Environment
  BY <1>5, <1>8 DEF Environment, deadline_passes, server_settles, firewall_propagates,
                    worker_runs, dbVars, tickVars
<1>9. CASE \E j \in Jobs, n \in Names : check_name(j, n)
  BY <1>5, <1>9 DEF check_name, dbVars, tickVars
<1> QED
  BY <1>1, <1>3, <1>4, <1>6, <1>7, <1>8, <1>9

\* Every step keeps the invariant and is one of JobLifecycle, or none.
LEMMA NextOutcome ==
    ASSUME IndInv, OwnInv, OutcomeInv, NoRequest', [Next]_vars, [EventWritten]_vars
    PROVE  OutcomeInv' /\ [Lifecycle!Next]_(Lifecycle!vars)
<1>1. CASE \/ start_tick \/ finish_tick \/ tick_aborts \/ crash \/ scan_aborts
           \/ ScanStep \/ Environment \/ UNCHANGED vars
           \/ \E j \in Jobs, n \in Names : check_name(j, n)
  BY <1>1, OthersKept
<1>2. CASE TickWrites
  BY <1>2, RecordKept, UpdateKept, EventKept DEF TickWrites
<1>3. ASSUME NEW k \in Jobs, Handlers(k)
      PROVE  OutcomeInv' /\ [Lifecycle!Next]_(Lifecycle!vars)
  BY <1>3, HandlerKept, ForceKept
<1>4. ASSUME NEW k \in Jobs, NEW w \in VolumeRequests, create_job(k, w)
      PROVE  OutcomeInv' /\ [Lifecycle!Next]_(Lifecycle!vars)
  BY <1>4, CreateKept
<1>5. ~ApiStep /\ ~api_aborts
  BY DEF OutcomeInv, NoRequest, ApiStep, delete_forces, delete_records_event, delete_drops_row,
         api_aborts
<1>6. ASSUME NEW k \in Jobs, delete_job(k) PROVE FALSE
  <2>1. api'.pc \in {"force", "drop"}
    <3>1. api \in Api
      BY DEF IndInv, TypeOK
    <3>2. \/ api' = [api EXCEPT !.pc = "force", !.job = k]
          \/ api' = [api EXCEPT !.pc = "drop", !.job = k]
      BY <1>6 DEF delete_job
    <3> QED
      BY <3>1, <3>2 DEF Api
  <2> QED
    BY <2>1 DEF NoRequest
<1> QED
  BY <1>1, <1>2, <1>3, <1>4, <1>5, <1>6 DEF Next, TickStep

\* Nothing has happened to any job at first.
LEMMA InitOutcome == Init => OutcomeInv /\ Lifecycle!Init
<1> SUFFICES ASSUME Init PROVE OutcomeInv /\ Lifecycle!Init
  OBVIOUS
<1>1. /\ \A j \in Jobs : jobs[j].status = "absent" /\ jobs[j].exit = None /\ snap[j] = "none"
      /\ failedEvents = {} /\ tick.pc = "idle" /\ api.pc = "idle"
  BY DEF Init, NoRow, NoSnapshot, IdleTick, IdleApi
<1>2. ASSUME NEW j \in Jobs PROVE OutcomeOk(j)
  BY <1>1 DEF OutcomeOk, Steady, FailureTold, ExitHasAddress, ExitFound, InTurn, BeingRecorded,
              Entering, Cleanup
<1>3. Phases = [j \in Jobs |-> "none"]
  BY <1>1, StatusSet DEF Phases, HasRow
<1>4. ArchivedJobs = {}
  BY <1>1 DEF ArchivedJobs, TERMINAL_STATE
<1> QED
  BY <1>1, <1>2, <1>3, <1>4 DEF OutcomeInv, NoRequest, Lifecycle!Init

\* The events and the exit codes agree with the pipeline, as long as nobody
\* sends a DELETE and every state change gets its event.
THEOREM OutcomeIsTold == Spec /\ []NoRequest /\ [][EventWritten]_vars => []OutcomeInv
<1>1. Init => OutcomeInv
  BY InitOutcome
<1>2. /\ IndInv /\ OwnInv /\ OutcomeInv /\ NoRequest' /\ [Next]_vars /\ [EventWritten]_vars
      => OutcomeInv'
  BY NextOutcome
<1> QED
  BY <1>1, <1>2, Invariance, Ownership, PTL DEF Spec

\* The reconciler implements the life of a Job as a client knows it: every step
\* submits, starts, finishes or archives one Job as JobLifecycle allows, or
\* changes nothing a client sees; crashes, lost responses and the orphan scan
\* included.
THEOREM LifecycleImplemented ==
    Spec /\ []NoRequest /\ [][EventWritten]_vars => Lifecycle!Safety
<1>1. Init => Lifecycle!Init
  BY InitOutcome
<1>2. /\ IndInv /\ OwnInv /\ OutcomeInv /\ NoRequest' /\ [Next]_vars /\ [EventWritten]_vars
      => [Lifecycle!Next]_(Lifecycle!vars)
  BY NextOutcome
<1> QED
  BY <1>1, <1>2, OutcomeIsTold, Invariance, Ownership, PTL DEF Spec, Lifecycle!Safety

\* Once a run is over its outcome stands, all through the cleanup states: that is
\* what JobLifecycle allows of a finished Job.
THEOREM OutcomesStand == Spec /\ []NoRequest /\ [][EventWritten]_vars => OutcomeStands
<1>1. ASSUME [Lifecycle!Next]_(Lifecycle!vars),
             NEW j \in Jobs, HasRow(j), HasRow(j)', Outcome(j) \in {"Succeeded", "Failed"}
      PROVE  Outcome(j)' = Outcome(j)
  <2>1. Phases[j] = Outcome(j) /\ Phases'[j] = Outcome(j)'
    BY <1>1 DEF Phases
  <2>2. DOMAIN Phases = Jobs
    BY DEF Phases
  <2>3. Phases'[j] = Phases[j]
    <3>1. CASE UNCHANGED Lifecycle!vars
      BY <3>1 DEF Lifecycle!vars
    <3>2. ASSUME NEW k \in Jobs, \/ Lifecycle!Submit(k) \/ Lifecycle!Start(k)
                                 \/ Lifecycle!Succeed(k) \/ Lifecycle!Fail(k)
          PROVE  Phases'[j] = Phases[j]
      <4>1. /\ Phases[k] \notin {"Succeeded", "Failed"}
            /\ \E p : Phases' = [Phases EXCEPT ![k] = p]
        BY <3>2 DEF Lifecycle!Submit, Lifecycle!Start, Lifecycle!Succeed, Lifecycle!Fail,
                    Lifecycle!Becomes
      <4> QED
        BY <1>1, <2>1, <2>2, <4>1
    <3>3. ASSUME NEW k \in Jobs, Lifecycle!Archive(k) PROVE Phases'[j] = Phases[j]
      BY <3>3 DEF Lifecycle!Archive
    <3> QED
      BY <1>1, <3>1, <3>2, <3>3 DEF Lifecycle!Next
  <2> QED
    BY <2>1, <2>3
<1>2. [Lifecycle!Next]_(Lifecycle!vars) =>
         [\A j \in Jobs :
             HasRow(j) /\ HasRow(j)' /\ Outcome(j) \in {"Succeeded", "Failed"} =>
             Outcome(j)' = Outcome(j)]_vars
  BY <1>1
<1> QED
  BY <1>2, LifecycleImplemented, PTL DEF OutcomeStands, Lifecycle!Safety


-----------------------------------------------------------------------------
(***************************************************************************)
(* The views.                                                              *)
(***************************************************************************)

\* The phase, the exit code, the event and the finished states of a run agree.
LEMMA RunTold ==
    ASSUME OutcomeInv, NEW j \in Jobs, HasRow(j), ~BeingRecorded(j)
    PROVE  /\ Outcome(j) = "Succeeded" <=> is_finished_state(jobs[j].status) /\ ~RunFailed(j)
           /\ Outcome(j) = "Failed" <=> is_finished_state(jobs[j].status) /\ RunFailed(j)
           /\ Outcome(j) = "Failed" <=> j \in failedEvents
           /\ jobs[j].status = "Archived" => Outcome(j) \in {"Succeeded", "Failed"}
<1>0. PICK s \in Statuses : s = jobs[j].status
  BY DEF HasRow
<1>1. /\ RunFailed(j) = (jobs[j].exit = "nonzero" \/ j \in failedEvents)
      /\ RunFailed(j) \in BOOLEAN
  BY DEF RunFailed
<1>2. s \in Pre \/ s \in {"Succeeded", "Failed"} \/ s \in Cleanup
  BY StatusSet DEF Pre, Stored, Hosted, Walled, Up, Cleanup
<1>3. is_finished_state(jobs[j].status) = (s \notin Pre)
  BY <1>0, BeforeCompletion, StatesApart DEF is_finished_state
<1>4. /\ s = "Failed" => j \in failedEvents
      /\ j \in failedEvents => s \in {"Failed"} \union Cleanup
      /\ jobs[j].exit = "nonzero" /\ s \in Cleanup => j \in failedEvents
      /\ s = "Succeeded" => jobs[j].exit # "nonzero"
  BY <1>0 DEF OutcomeInv, OutcomeOk, FailureTold
<1>5. /\ s \in Pre \ {"ContainerRunning"} => Outcome(j) = "Pending"
      /\ s = "ContainerRunning" => Outcome(j) = "Running"
      /\ s = "Succeeded" => Outcome(j) = "Succeeded"
      /\ s = "Failed" => Outcome(j) = "Failed"
      /\ s \in Cleanup => Outcome(j) = IF RunFailed(j) THEN "Failed" ELSE "Succeeded"
  BY <1>0, <1>1, PhaseFor DEF Outcome
<1>6. CASE s \in Pre
  <2>1. /\ Outcome(j) # "Succeeded" /\ Outcome(j) # "Failed"
        /\ j \notin failedEvents /\ jobs[j].status # "Archived"
    BY <1>0, <1>4, <1>5, <1>6, StatesApart
  <2>2. ~is_finished_state(jobs[j].status)
    BY <1>3, <1>6
  <2> QED
    BY <2>1, <2>2, Zenon
<1>7. CASE s = "Succeeded"
  <2>1. Outcome(j) = "Succeeded" /\ ~RunFailed(j) /\ j \notin failedEvents /\ s \notin Pre
    BY <1>1, <1>4, <1>5, <1>7, StatesApart
  <2>2. is_finished_state(jobs[j].status) /\ Outcome(j) # "Failed"
    BY <1>3, <2>1
  <2> QED
    BY <2>1, <2>2, Zenon
<1>8. CASE s = "Failed"
  <2>1. Outcome(j) = "Failed" /\ RunFailed(j) /\ j \in failedEvents /\ s \notin Pre
    BY <1>1, <1>4, <1>5, <1>8, StatesApart
  <2> QED
    BY <1>3, <2>1
<1>9. CASE s \in Cleanup
  <2>1. RunFailed(j) = (j \in failedEvents) /\ s \notin Pre
    BY <1>1, <1>4, <1>9, StatesApart
  <2>2. Outcome(j) = IF RunFailed(j) THEN "Failed" ELSE "Succeeded"
    BY <1>5, <1>9
  <2> QED
    BY <1>1, <1>3, <2>1, <2>2
<1> QED
  BY <1>2, <1>6, <1>7, <1>8, <1>9

\* The Job, the Pod, the events, the status page and the counters of
\* GET /metrics tell the same outcome of every run that alone has its name.
THEOREM ViewsTellTheSame == Spec /\ []NoRequest /\ [][EventWritten]_vars => []ViewsAgree
<1>1. ASSUME OwnInv, OutcomeInv PROVE ViewsAgree
  <2> SUFFICES ASSUME NEW j \in Jobs, HasRow(j), Named(jobs[j].name) = {j}, ~BeingRecorded(j)
               PROVE  LET n == jobs[j].name
                      IN  /\ (get_pod(n) = {"Succeeded"}) = (j \in write_job_runs("succeeded"))
                          /\ (get_pod(n) = {"Succeeded"}) =
                                (\A o \in get_job(n) : o.status.conditions = {"Complete"})
                          /\ (get_pod(n) = {"Failed"}) = (j \in write_job_runs("failed"))
                          /\ (get_pod(n) = {"Failed"}) =
                                (\A o \in get_job(n) : o.status.conditions = {"Failed"})
                          /\ get_job(n) \subseteq {o \in list_jobs : o.name = n}
                          /\ (get_pod(n) = {"Failed"}) = (list_events(n) # {})
                          /\ list_events(n) \subseteq render.events
                          /\ j \notin render.jobs => get_pod(n) \in {{"Succeeded"}, {"Failed"}}
    BY DEF ViewsAgree
  <2> DEFINE n == jobs[j].name
  <2>1. Named(n) = {j}
    OBVIOUS
  <2>2. get_pod(n) = {Outcome(j)}
    BY <2>1 DEF get_pod, Outcome
  <2>3. get_job(n) = {row_to_job(j)} /\ row_to_job(j).name = n
    BY <2>1 DEF get_job, row_to_job
  <2>4. /\ (Outcome(j) = "Succeeded") = (row_to_job(j).status.conditions = {"Complete"})
        /\ (Outcome(j) = "Failed") = (row_to_job(j).status.conditions = {"Failed"})
    BY DEF row_to_job, status_for, Outcome
  <2>5. (list_events(n) # {}) = (j \in failedEvents)
    <3>1. j \in failedEvents => [name |-> jobs[j].name, reason |-> "Failed"] \in list_events(n)
      BY <2>1 DEF list_events
    <3>2. j \notin failedEvents => list_events(n) = {}
      BY <2>1 DEF list_events
    <3> QED
      BY <3>1, <3>2
  <2>6. list_events(n) \subseteq render.events
    BY <2>1 DEF list_events, render, recent_events
  <2>7. /\ (Outcome(j) = "Succeeded") = (j \in write_job_runs("succeeded"))
        /\ (Outcome(j) = "Failed") = (j \in write_job_runs("failed"))
    BY <1>1, RunTold DEF write_job_runs, RunFailed
  <2>8. j \notin render.jobs => jobs[j].status = "Archived"
    BY DEF render, running_jobs, TERMINAL_STATE
  <2>9. get_job(n) \subseteq {o \in list_jobs : o.name = n}
    BY <2>3 DEF list_jobs
  <2> QED
    BY <1>1, <2>2, <2>3, <2>4, <2>5, <2>6, <2>7, <2>8, <2>9, RunTold
<1> QED
  BY <1>1, OutcomeIsTold, Ownership, PTL

=============================================================================
