-------------------------- MODULE ReconcilerProofs --------------------------
(***************************************************************************)
(* Proofs about Reconciler for every set of jobs, names, volumes and       *)
(* servers, any number of faults and DELETE requests, with and without the *)
(* orphan scan: IndInv is inductive, hence TypeOK, CleanupComplete,        *)
(* SnapshotCoherent and DryRunTouchesNothing are invariants.               *)
(*                                                                         *)
(* Most actions only touch the cloud, or are a handler's turn.  CloudOK    *)
(* says what the invariant needs to know of the cloud's part of a step and *)
(* TurnOK of the tick's part; a lemma shows that such steps preserve       *)
(* IndInv, and one step per action that the action is such a step.         *)
(***************************************************************************)
EXTENDS Reconciler, TLAPS

-----------------------------------------------------------------------------
(***************************************************************************)
(* The states.                                                             *)
(***************************************************************************)

\* The values of jobs.status, spelled out.
LEMMA StatusSet ==
    Statuses = {"Created", "VolumePending", "VolumeCreating", "VolumeCreated",
                "VMPending", "FirewallApplying", "FirewallVerified", "VMCreating",
                "VMRunning", "VolumeAttaching", "VolumeAttached",
                "ContainerConfiguring", "ContainerRunning", "Succeeded",
                "VolumeDetaching", "VolumeDeleted", "VMTerminating", "Archived",
                "Failed"}
  BY SMTT(30) DEF Statuses, STATE_SEQUENCE

\* next_state, spelled out: Position finds each state where it stands.
LEMMA Successors ==
    /\ next_state("Created") = "VolumePending"
    /\ next_state("VolumePending") = "VolumeCreating"
    /\ next_state("VolumeCreating") = "VolumeCreated"
    /\ next_state("VolumeCreated") = "VMPending"
    /\ next_state("VMPending") = "FirewallApplying"
    /\ next_state("FirewallApplying") = "FirewallVerified"
    /\ next_state("FirewallVerified") = "VMCreating"
    /\ next_state("VMCreating") = "VMRunning"
    /\ next_state("VMRunning") = "VolumeAttaching"
    /\ next_state("VolumeAttaching") = "VolumeAttached"
    /\ next_state("VolumeAttached") = "ContainerConfiguring"
    /\ next_state("ContainerConfiguring") = "ContainerRunning"
    /\ next_state("ContainerRunning") = "Succeeded"
    /\ next_state("Succeeded") = "VolumeDetaching"
    /\ next_state("Failed") = "VolumeDetaching"
    /\ next_state("VolumeDetaching") = "VolumeDeleted"
    /\ next_state("VolumeDeleted") = "VMTerminating"
    /\ next_state("VMTerminating") = "Archived"
<1>1. /\ Position("Created") = 1
      /\ Position("VolumePending") = 2
      /\ Position("VolumeCreating") = 3
      /\ Position("VolumeCreated") = 4
      /\ Position("VMPending") = 5
      /\ Position("FirewallApplying") = 6
  BY SMTT(30) DEF Position, STATE_SEQUENCE
<1>2. /\ Position("FirewallVerified") = 7
      /\ Position("VMCreating") = 8
      /\ Position("VMRunning") = 9
      /\ Position("VolumeAttaching") = 10
      /\ Position("VolumeAttached") = 11
      /\ Position("ContainerConfiguring") = 12
  BY SMTT(30) DEF Position, STATE_SEQUENCE
<1>3. /\ Position("ContainerRunning") = 13
      /\ Position("Succeeded") = 14
      /\ Position("VolumeDetaching") = 15
      /\ Position("VolumeDeleted") = 16
      /\ Position("VMTerminating") = 17
  BY SMTT(30) DEF Position, STATE_SEQUENCE
<1> QED
  BY <1>1, <1>2, <1>3, SMTT(30) DEF next_state, STATE_SEQUENCE

\* Every selected state has a successor, the volume is behind only from
\* VolumeDetaching on, and Archived is entered from VMTerminating alone.
LEMMA SuccessorFacts ==
    ASSUME NEW s \in Statuses, s # "Archived"
    PROVE  /\ next_state(s) \in Statuses
           /\ next_state(s) \in VolumeGone =>
                 s \in {"VolumeDetaching", "VolumeDeleted", "VMTerminating"}
           /\ next_state(s) = "Archived" => s = "VMTerminating"
  BY StatusSet, Successors, SMTT(30) DEF VolumeGone

-----------------------------------------------------------------------------
(***************************************************************************)
(* The kinds of steps.                                                     *)
(***************************************************************************)

\* The cloud's part: well typed, no server comes back, nothing in dry-run.
CloudOK ==
    /\ volumes' \in [Volumes -> Volume]
    /\ servers' \in [Servers -> Server]
    /\ \A m \in Servers : servers[m].state = "deleted" => servers'[m].state = "deleted"
    /\ DryRunTouchesNothing'

\* The part no invariant but TypeOK and InFlightOK looks at.
BooksOK ==
    /\ failedEvents' \in SUBSET Jobs
    /\ expired' \in SUBSET Jobs
    /\ api' \in Api /\ (api'.pc # "idle" => api'.job \in Jobs)
    /\ scan' \in Scan
    /\ faults' \in 0 .. MaxFaults
    /\ deletes' \in 0 .. MaxDeletes

\* A handler's turn that leaves the tables alone: the job stays, the tick
\* ends, or the job moves on to a state it is ready for.
TurnOK(j) ==
    \/ Stay(j)
    \/ Abort
    \/ \E t \in Statuses :
          /\ MoveOn(j, t)
          /\ snap[j] \in Statuses
          /\ t \in VolumeGone => job_volumes[j] = << >>
          /\ t = "Archived" /\ jobs[j].vm # None => servers'[jobs[j].vm].state = "deleted"
    \/ /\ ~dryRun
       /\ \/ \E v \in Volumes : snap[j] = "VolumePending" /\ Keep(j, next_state("VolumePending"), v)
          \/ \E m \in Servers : snap[j] = "VMPending" /\ Keep(j, next_state("VMPending"), m)
          \/ \E m \in Servers : snap[j] = "VMCreating" /\ Keep(j, next_state("VMCreating"), m)
          \/ \E t \in {"Succeeded", "Failed"}, c \in ExitCodes :
                snap[j] = "ContainerRunning" /\ Keep(j, t, c)
          \/ snap[j] = "VolumeDetaching" /\ Keep(j, next_state("VolumeDetaching"), None)

\* Steps that leave the tables' rows and the tick alone preserve IndInv.
LEMMA QuietStep ==
    ASSUME IndInv, CloudOK, BooksOK, UNCHANGED <<dryRun, jobs, job_volumes, snap, tick>>
    PROVE  IndInv'
<1> USE DEF IndInv
<1>1. TypeOK'
  BY DEF TypeOK, CloudOK, BooksOK
<1>2. InFlightOK'
  BY DEF InFlightOK, BooksOK
<1>3. SnapshotCoherent'
  BY DEF SnapshotCoherent
<1>4. CleanupProgress' /\ CleanupComplete'
  <2>1. \A j \in Jobs : jobs[j].vm \in Servers \union {None}
    BY DEF TypeOK, Row
  <2>2. tick.pc = "update" => tick.job \in Jobs
    BY DEF InFlightOK
  <2> QED
    BY <2>1, <2>2 DEF CleanupProgress, CleanupComplete, CloudOK
<1>5. DryRunRecordsNothing' /\ DryRunTouchesNothing'
  BY DEF DryRunRecordsNothing, CloudOK
<1> QED
  BY <1>1, <1>2, <1>3, <1>4, <1>5

\* A handler's turn preserves IndInv.
LEMMA TurnStep ==
    ASSUME IndInv, NEW j \in Jobs, tick.pc = "next", snap[j] # "none",
           CloudOK, BooksOK, TurnOK(j),
           UNCHANGED <<dryRun, jobs, job_volumes>>
    PROVE  IndInv'
<1> USE DEF IndInv
<1>0. /\ snap \in [Jobs -> Statuses \union {"none"}]
      /\ jobs[j].vm \in Servers \union {None}
      /\ "none" \notin Statuses
  BY StatusSet DEF TypeOK, Row
<1>1. TypeOK'
  <2>1. snap' \in [Jobs -> Statuses \union {"none"}]
    BY <1>0 DEF TurnOK, Stay, Abort, MoveOn, Keep, Proceed, NoSnapshot
  <2>2. tick' \in Tick
    <3>1. CASE Stay(j) \/ Abort
      BY <3>1 DEF TypeOK, Stay, Abort, Tick, IdleTick
    <3>2. CASE \E t \in Statuses, r \in Volumes \union Servers \union ExitCodes \union {None} :
                  MoveOn(j, t) \/ Keep(j, t, r)
      BY <1>0, <3>2 DEF MoveOn, Keep, Proceed, Tick
    <3> QED
      BY <3>1, <3>2, StatusSet, Successors DEF TurnOK
  <2> QED
    BY <2>1, <2>2 DEF TypeOK, CloudOK, BooksOK
<1>2. InFlightOK'
  BY <1>0, StatusSet, Successors DEF TypeOK, InFlightOK, BooksOK, TurnOK, Stay, Abort, MoveOn, Keep,
                         Proceed, Tick, IdleTick
<1>3. SnapshotCoherent'
  <2>1. snap'[j] = "none" /\ \A k \in Jobs : snap'[k] # "none" => snap'[k] = snap[k]
    BY <1>0 DEF TurnOK, Stay, Abort, MoveOn, Keep, Proceed, NoSnapshot
  <2>2. tick'.pc \in {"record", "update"} => tick'.job = j /\ tick'.at = snap[j]
    BY DEF TurnOK, Stay, Abort, MoveOn, Keep, Proceed, IdleTick
  <2> QED
    BY <2>1, <2>2 DEF SnapshotCoherent
<1>4. CleanupComplete'
  BY DEF CleanupComplete, CloudOK, TypeOK, Row
<1>5. CleanupProgress'
  BY <1>0, StatusSet, Successors DEF TypeOK, CleanupProgress, TurnOK, Stay, Abort, MoveOn, Keep,
                    Proceed, Tick, IdleTick, NoSnapshot, VolumeGone, TERMINAL_STATE
<1>6. DryRunRecordsNothing' /\ DryRunTouchesNothing'
  BY DEF DryRunRecordsNothing, CloudOK, TurnOK, Stay, Abort, MoveOn, Keep, Proceed, IdleTick
<1> QED
  BY <1>1, <1>2, <1>3, <1>4, <1>5, <1>6

-----------------------------------------------------------------------------
(***************************************************************************)
(* Facts the handlers share.                                               *)
(***************************************************************************)

\* Only the fault counter changes, within its bound.
LEMMA BooksKept ==
    ASSUME IndInv, faults' \in 0 .. MaxFaults,
           UNCHANGED <<failedEvents, expired, api, scan, deletes>>
    PROVE  BooksOK
  BY DEF IndInv, TypeOK, InFlightOK, BooksOK

\* The fault counter stays within its bound.
LEMMA FaultyBound ==
    ASSUME IndInv, NEW n \in Nat, Faulty(n)
    PROVE  faults' \in 0 .. MaxFaults
  BY BoundsAssumption DEF IndInv, TypeOK, Faulty

\* An untouched cloud is fine.
LEMMA CloudKept ==
    ASSUME IndInv, UNCHANGED <<dryRun, volumes, servers>>
    PROVE  CloudOK
  BY DEF IndInv, TypeOK, CloudOK, DryRunTouchesNothing

\* Outside dry-run any well typed change that brings no server back is fine.
LEMMA CloudChanged ==
    ASSUME ~dryRun, UNCHANGED dryRun,
           volumes' \in [Volumes -> Volume], servers' \in [Servers -> Server],
           \A m \in Servers : servers[m].state = "deleted" => servers'[m].state = "deleted"
    PROVE  CloudOK
  BY DEF CloudOK, DryRunTouchesNothing

\* A handler that has work to do is not in dry-run mode.
LEMMA RealWork ==
    ASSUME NEW j \in Jobs,
           NEW s \in {"VolumePending", "VMPending", "FirewallApplying", "FirewallVerified",
                      "VMCreating", "VolumeAttaching", "ContainerConfiguring",
                      "ContainerRunning", "VolumeDetaching", "VMTerminating"},
           ~NothingToDo(j, s)
    PROVE  ~dryRun
  BY DEF NothingToDo

\* A turn is only taken by a job that was selected.
LEMMA Selected ==
    ASSUME NEW j \in Jobs, NEW s \in Statuses, Turn(j, s)
    PROVE  tick.pc = "next" /\ snap[j] = s /\ snap[j] # "none"
  BY StatusSet DEF Turn

\* A failed attempt leaves the job where it is or ends the tick.
LEMMA FailedAttemptTurn ==
    ASSUME NEW j \in Jobs, FailedAttempt(j)
    PROVE  TurnOK(j)
  BY DEF FailedAttempt, TurnOK

\* What a server id recorded for a job is.
LEMMA RecordedServer ==
    ASSUME IndInv, NEW j \in Jobs
    PROVE  /\ jobs[j].vm \in Servers \union {None}
           /\ jobs[j].ip \in Servers \union {None}
           /\ None \notin Servers
  BY NoneAssumption DEF IndInv, TypeOK, Row

\* The first volume recorded for a job is a volume.
LEMMA RecordedVolume ==
    ASSUME IndInv, NEW j \in Jobs, job_volumes[j] # << >>
    PROVE  Head(job_volumes[j]) \in Volumes
  BY DEF IndInv, TypeOK

\* One server's record is replaced by another that is not a resurrection.
LEMMA ServerReplaced ==
    ASSUME IndInv, NEW m \in Servers, NEW r \in Server,
           servers[m].state = "deleted" => r.state = "deleted",
           servers' = [servers EXCEPT ![m] = r]
    PROVE  /\ servers' \in [Servers -> Server]
           /\ \A n \in Servers : servers[n].state = "deleted" => servers'[n].state = "deleted"
  BY DEF IndInv, TypeOK

\* What the provider's create calls leave is well typed.
LEMMA CreatedTypes ==
    ASSUME IndInv, NEW j \in Jobs, snap[j] # "none"
    PROVE  /\ \A v \in Volumes : VolumeCreated(v, j) \in [Volumes -> Volume]
           /\ \A m \in Servers : ServerCreated(m, j) \in [Servers -> Server]
<1>1. title(j) \in Titles \union {None}
  <2>1. jobs[j].status # "absent"
    BY StatusSet DEF IndInv, TypeOK, SnapshotCoherent
  <2> QED
    BY <2>1, TitleAssumption DEF title, IndInv, TypeOK
<1>2. ASSUME NEW v \in Volumes PROVE VolumeCreated(v, j) \in [Volumes -> Volume]
  BY <1>1 DEF IndInv, TypeOK, VolumeCreated, Volume
<1>3. ASSUME NEW m \in Servers PROVE ServerCreated(m, j) \in [Servers -> Server]
  BY <1>1 DEF IndInv, TypeOK, ServerCreated, Server
<1> QED
  BY <1>2, <1>3

-----------------------------------------------------------------------------
(***************************************************************************)
(* The handlers.                                                           *)
(***************************************************************************)

\* The transitions that need no work.
LEMMA AdvanceStep ==
    ASSUME IndInv, NEW j \in Jobs, advance(j)
    PROVE  IndInv'
<1>1. PICK s \in Statuses : /\ Handling(j, s)
                            /\ s \in UnhandledStates \/ NothingToDo(j, s)
                            /\ MoveOn(j, next_state(s))
  BY DEF advance
<1>2. tick.pc = "next" /\ snap[j] = s /\ snap[j] # "none" /\ s # "Archived"
  BY <1>1, Selected DEF Handling, IndInv, SnapshotCoherent, TERMINAL_STATE
<1>3. CloudOK /\ BooksOK
  BY CloudKept, BooksKept DEF advance, dbVars, cloudVars, IndInv, TypeOK
<1>4. next_state(s) \in VolumeGone => job_volumes[j] = << >>
  BY <1>1, <1>2, SuccessorFacts
     DEF NothingToDo, UnhandledStates, IndInv, CleanupProgress, DryRunRecordsNothing, VolumeGone
<1>5. next_state(s) = "Archived" => jobs[j].vm = None
  BY <1>1, <1>2, SuccessorFacts DEF NothingToDo, UnhandledStates, IndInv, DryRunRecordsNothing
<1>6. TurnOK(j)
  BY <1>1, <1>2, <1>4, <1>5, SuccessorFacts DEF TurnOK
<1> QED
  BY <1>2, <1>3, <1>6, TurnStep DEF advance, dbVars

\* The reads that find no row, and the attempts that fail.
LEMMA FailureStep ==
    ASSUME IndInv, NEW j \in Jobs, missing_row(j) \/ attempt_fails(j)
    PROVE  IndInv'
<1>1. tick.pc = "next" /\ snap[j] # "none"
  BY Selected DEF missing_row, attempt_fails, Handling
<1>2. CloudOK /\ BooksOK
  BY CloudKept, BooksKept DEF missing_row, attempt_fails, dbVars, cloudVars, IndInv, TypeOK
<1>3. TurnOK(j)
  BY FailedAttemptTurn DEF missing_row, attempt_fails, TurnOK
<1> QED
  BY <1>1, <1>2, <1>3, TurnStep DEF missing_row, attempt_fails, dbVars

\* VolumePending.
LEMMA VolumePendingStep ==
    ASSUME IndInv, NEW j \in Jobs, NEW o \in Outcomes, NEW listed \in BOOLEAN,
           handle_volume_pending(j, o, listed)
    PROVE  IndInv'
<1>1. tick.pc = "next" /\ snap[j] = "VolumePending" /\ snap[j] # "none"
  BY Selected, StatusSet DEF handle_volume_pending, Handling
<1>2. ~dryRun
  BY RealWork DEF handle_volume_pending
<1>3. volumes' \in [Volumes -> Volume]
  BY <1>1, CreatedTypes DEF handle_volume_pending, IndInv, TypeOK
<1>4. CloudOK
  BY <1>2, <1>3, CloudChanged DEF handle_volume_pending, IndInv, TypeOK
<1>5. BooksOK
  BY BooksKept, FaultyBound DEF handle_volume_pending, dbVars, Cost, ListCost
<1>6. TurnOK(j)
  <2>1. CASE FailedAttempt(j)
    BY <2>1, FailedAttemptTurn
  <2>2. CASE \E v \in Volumes : Keep(j, next_state("VolumePending"), v)
    BY <1>1, <1>2, <2>2 DEF TurnOK
  <2> QED
    BY <2>1, <2>2 DEF handle_volume_pending, TitledVolumes
<1> QED
  BY <1>1, <1>4, <1>5, <1>6, TurnStep DEF handle_volume_pending, dbVars

\* VMPending.
LEMMA VMPendingStep ==
    ASSUME IndInv, NEW j \in Jobs, NEW o \in Outcomes, NEW listed \in BOOLEAN,
           handle_vm_pending(j, o, listed)
    PROVE  IndInv'
<1>1. tick.pc = "next" /\ snap[j] = "VMPending" /\ snap[j] # "none"
  BY Selected, StatusSet DEF handle_vm_pending, Handling
<1>2. ~dryRun
  BY RealWork DEF handle_vm_pending
<1>3. /\ servers' \in [Servers -> Server]
      /\ \A m \in Servers : servers[m].state = "deleted" => servers'[m].state = "deleted"
  <2>1. CASE UNCHANGED servers
    BY <2>1 DEF IndInv, TypeOK
  <2>2. CASE \E m \in Servers : servers[m].state = "none" /\ servers' = ServerCreated(m, j)
    <3>1. PICK m \in Servers : servers[m].state = "none" /\ servers' = ServerCreated(m, j)
      BY <2>2
    <3>2. \A n \in Servers : n # m => servers'[n] = servers[n]
      BY <3>1 DEF ServerCreated, IndInv, TypeOK
    <3> QED
      BY <1>1, <3>1, <3>2, CreatedTypes
  <2> QED
    BY <2>1, <2>2 DEF handle_vm_pending, TitledServers
<1>4. CloudOK
  BY <1>2, <1>3, CloudChanged DEF handle_vm_pending, IndInv, TypeOK
<1>5. BooksOK
  BY BooksKept, FaultyBound DEF handle_vm_pending, dbVars, Cost, ListCost
<1>6. TurnOK(j)
  <2>1. CASE FailedAttempt(j)
    BY <2>1, FailedAttemptTurn
  <2>2. CASE \E m \in Servers : Keep(j, next_state("VMPending"), m)
    BY <1>1, <1>2, <2>2 DEF TurnOK
  <2> QED
    BY <2>1, <2>2 DEF handle_vm_pending, TitledServers
<1> QED
  BY <1>1, <1>4, <1>5, <1>6, TurnStep DEF handle_vm_pending, dbVars

\* FirewallApplying.
LEMMA FirewallApplyingStep ==
    ASSUME IndInv, NEW j \in Jobs, NEW o \in Outcomes, handle_firewall_applying(j, o)
    PROVE  IndInv'
<1>1. tick.pc = "next" /\ snap[j] = "FirewallApplying" /\ snap[j] # "none"
  BY Selected, StatusSet DEF handle_firewall_applying, Handling
<1>2. ~dryRun
  BY RealWork DEF handle_firewall_applying
<1>3. /\ servers' \in [Servers -> Server]
      /\ \A m \in Servers : servers[m].state = "deleted" => servers'[m].state = "deleted"
  <2>1. jobs[j].vm \in Servers
    BY RecordedServer DEF handle_firewall_applying, NothingToDo
  <2>2. servers \in [Servers -> Server] /\ servers[jobs[j].vm] \in Server
    BY <2>1 DEF IndInv, TypeOK
  <2>3. CASE UNCHANGED servers
    BY <2>2, <2>3
  <2>4. ASSUME NEW f \in {"some", "posted"},
               servers' = [servers EXCEPT ![jobs[j].vm].firewall = f]
        PROVE  /\ servers' \in [Servers -> Server]
               /\ \A m \in Servers : servers[m].state = "deleted" => servers'[m].state = "deleted"
    <3> DEFINE r == [servers[jobs[j].vm] EXCEPT !.firewall = f]
    <3>1. r \in Server /\ r.state = servers[jobs[j].vm].state
      BY <2>2 DEF Server
    <3>2. servers' = [servers EXCEPT ![jobs[j].vm] = r]
      BY <2>1, <2>2, <2>4
    <3> HIDE DEF r
    <3> QED
      BY <2>1, <3>1, <3>2, ServerReplaced
  <2> QED
    BY <2>3, <2>4 DEF handle_firewall_applying
<1>4. CloudOK
  BY <1>2, <1>3, CloudChanged DEF handle_firewall_applying, IndInv, TypeOK
<1>5. BooksOK
  BY BooksKept, FaultyBound DEF handle_firewall_applying, dbVars, Cost
<1>6. TurnOK(j)
  <2>1. CASE FailedAttempt(j)
    BY <2>1, FailedAttemptTurn
  <2>2. CASE MoveOn(j, next_state("FirewallApplying"))
    BY <1>1, <2>2, Successors, StatusSet DEF TurnOK, VolumeGone
  <2> QED
    BY <2>1, <2>2 DEF handle_firewall_applying
<1> QED
  BY <1>1, <1>4, <1>5, <1>6, TurnStep DEF handle_firewall_applying, dbVars

\* FirewallVerified.
LEMMA FirewallVerifiedStep ==
    ASSUME IndInv, NEW j \in Jobs, handle_firewall_verified(j)
    PROVE  IndInv'
<1>1. tick.pc = "next" /\ snap[j] = "FirewallVerified" /\ snap[j] # "none"
  BY Selected, StatusSet DEF handle_firewall_verified, Handling
<1>2. ~dryRun
  BY RealWork DEF handle_firewall_verified
<1>3. CloudOK /\ BooksOK
  BY CloudKept, BooksKept DEF handle_firewall_verified, dbVars, cloudVars, IndInv, TypeOK
<1>4. TurnOK(j)
  BY <1>1, Successors, StatusSet DEF handle_firewall_verified, TurnOK, VolumeGone
<1> QED
  BY <1>1, <1>3, <1>4, TurnStep DEF handle_firewall_verified, dbVars

\* VMCreating.
LEMMA VMCreatingStep ==
    ASSUME IndInv, NEW j \in Jobs, handle_vm_creating(j)
    PROVE  IndInv'
<1>1. tick.pc = "next" /\ snap[j] = "VMCreating" /\ snap[j] # "none"
  BY Selected, StatusSet DEF handle_vm_creating, Handling
<1>2. ~dryRun
  BY RealWork DEF handle_vm_creating
<1>3. CloudOK /\ BooksOK
  BY CloudKept, BooksKept DEF handle_vm_creating, dbVars, cloudVars, IndInv, TypeOK
<1>4. TurnOK(j)
  <2>1. jobs[j].vm \in Servers
    BY RecordedServer DEF handle_vm_creating, NothingToDo
  <2> QED
    BY <1>1, <1>2, <2>1, Successors, StatusSet DEF handle_vm_creating, TurnOK, VolumeGone
<1> QED
  BY <1>1, <1>3, <1>4, TurnStep DEF handle_vm_creating, dbVars

\* VolumeAttaching.
LEMMA VolumeAttachingStep ==
    ASSUME IndInv, NEW j \in Jobs, NEW o \in Outcomes, handle_volume_attaching(j, o)
    PROVE  IndInv'
<1>1. tick.pc = "next" /\ snap[j] = "VolumeAttaching" /\ snap[j] # "none"
  BY Selected, StatusSet DEF handle_volume_attaching, Handling
<1>2. ~dryRun
  BY RealWork DEF handle_volume_attaching
<1>3. volumes' \in [Volumes -> Volume]
  <2>1. jobs[j].vm \in Servers /\ Head(job_volumes[j]) \in Volumes
    BY RecordedServer, RecordedVolume DEF handle_volume_attaching, NothingToDo
  <2> QED
    BY <2>1 DEF handle_volume_attaching, VolumeAttached, IndInv, TypeOK, Volume
<1>4. CloudOK
  BY <1>2, <1>3, CloudChanged DEF handle_volume_attaching, IndInv, TypeOK
<1>5. BooksOK
  BY BooksKept, FaultyBound DEF handle_volume_attaching, dbVars, Cost
<1>6. TurnOK(j)
  <2>1. CASE FailedAttempt(j)
    BY <2>1, FailedAttemptTurn
  <2>2. CASE MoveOn(j, next_state("VolumeAttaching"))
    BY <1>1, <2>2, Successors, StatusSet DEF TurnOK, VolumeGone
  <2> QED
    BY <2>1, <2>2 DEF handle_volume_attaching
<1> QED
  BY <1>1, <1>4, <1>5, <1>6, TurnStep DEF handle_volume_attaching, dbVars

\* ContainerConfiguring.
LEMMA ContainerConfiguringStep ==
    ASSUME IndInv, NEW j \in Jobs, NEW o \in Outcomes, handle_container_configuring(j, o)
    PROVE  IndInv'
<1>1. tick.pc = "next" /\ snap[j] = "ContainerConfiguring" /\ snap[j] # "none"
  BY Selected, StatusSet DEF handle_container_configuring, Handling
<1>2. ~dryRun
  BY RealWork DEF handle_container_configuring
<1>3. /\ servers' \in [Servers -> Server]
      /\ \A m \in Servers : servers[m].state = "deleted" => servers'[m].state = "deleted"
  <2>1. jobs[j].ip \in Servers
    BY RecordedServer DEF handle_container_configuring, Reachable
  <2>2. servers \in [Servers -> Server] /\ servers[jobs[j].ip] \in Server
    BY <2>1 DEF IndInv, TypeOK
  <2>3. CASE UNCHANGED servers
    BY <2>2, <2>3
  <2>4. CASE servers' = [servers EXCEPT ![jobs[j].ip].worker = "ready", ![jobs[j].ip].owner = j]
    <3> DEFINE r == [servers[jobs[j].ip] EXCEPT !.worker = "ready", !.owner = j]
    <3>1. r \in Server /\ r.state = servers[jobs[j].ip].state
      BY <2>2 DEF Server
    <3>2. servers' = [servers EXCEPT ![jobs[j].ip] = r]
      BY <2>1, <2>2, <2>4
    <3> HIDE DEF r
    <3> QED
      BY <2>1, <3>1, <3>2, ServerReplaced
  <2> QED
    BY <2>3, <2>4 DEF handle_container_configuring
<1>4. CloudOK
  BY <1>2, <1>3, CloudChanged DEF handle_container_configuring, IndInv, TypeOK
<1>5. BooksOK
  BY BooksKept, FaultyBound DEF handle_container_configuring, dbVars, Cost
<1>6. TurnOK(j)
  <2>1. CASE FailedAttempt(j)
    BY <2>1, FailedAttemptTurn
  <2>2. CASE MoveOn(j, next_state("ContainerConfiguring"))
    BY <1>1, <2>2, Successors, StatusSet DEF TurnOK, VolumeGone
  <2> QED
    BY <2>1, <2>2 DEF handle_container_configuring
<1> QED
  BY <1>1, <1>4, <1>5, <1>6, TurnStep DEF handle_container_configuring, dbVars

\* ContainerRunning.
LEMMA ContainerRunningStep ==
    ASSUME IndInv, NEW j \in Jobs, handle_container_running(j)
    PROVE  IndInv'
<1>1. tick.pc = "next" /\ snap[j] = "ContainerRunning" /\ snap[j] # "none"
  BY Selected, StatusSet DEF handle_container_running, Handling
<1>2. ~dryRun
  BY RealWork DEF handle_container_running
<1>3. CloudOK /\ BooksOK
  BY CloudKept, BooksKept DEF handle_container_running, dbVars, cloudVars, IndInv, TypeOK
<1>4. TurnOK(j)
  BY <1>1, <1>2 DEF handle_container_running, TurnOK
<1> QED
  BY <1>1, <1>3, <1>4, TurnStep DEF handle_container_running, dbVars

\* VolumeDetaching.
LEMMA VolumeDetachingStep ==
    ASSUME IndInv, NEW j \in Jobs, NEW o \in Outcomes, NEW detached \in BOOLEAN,
           handle_volume_detaching(j, o, detached)
    PROVE  IndInv'
<1>1. tick.pc = "next" /\ snap[j] = "VolumeDetaching" /\ snap[j] # "none"
  BY Selected, StatusSet DEF handle_volume_detaching, Handling
<1>2. ~dryRun
  BY RealWork DEF handle_volume_detaching
<1>3. volumes' \in [Volumes -> Volume]
  <2>1. Head(job_volumes[j]) \in Volumes
    BY RecordedVolume DEF handle_volume_detaching, NothingToDo
  <2>2. volumes \in [Volumes -> Volume]
    BY DEF IndInv, TypeOK
  <2>3. VolumeDeleted(Head(job_volumes[j])) \in [Volumes -> Volume]
    BY <2>1, <2>2 DEF VolumeDeleted, Volume
  <2>4. \A on \in {None, volumes[Head(job_volumes[j])].on} :
           VolumeAttached(Head(job_volumes[j]), on) \in [Volumes -> Volume]
    BY <2>1, <2>2 DEF VolumeAttached, Volume
  <2> QED
    BY <2>3, <2>4 DEF handle_volume_detaching
<1>4. CloudOK
  BY <1>2, <1>3, CloudChanged DEF handle_volume_detaching, IndInv, TypeOK
<1>5. BooksOK
  BY BooksKept, FaultyBound DEF handle_volume_detaching, dbVars, Cost
<1>6. TurnOK(j)
  <2>1. CASE FailedAttempt(j)
    BY <2>1, FailedAttemptTurn
  <2>2. CASE Keep(j, next_state("VolumeDetaching"), None)
    BY <1>1, <1>2, <2>2 DEF TurnOK
  <2> QED
    BY <2>1, <2>2 DEF handle_volume_detaching
<1> QED
  BY <1>1, <1>4, <1>5, <1>6, TurnStep DEF handle_volume_detaching, dbVars

\* VMTerminating, a running server.
LEMMA StopWorkerStep ==
    ASSUME IndInv, NEW j \in Jobs, stop_worker(j)
    PROVE  IndInv'
<1>1. tick.pc = "next" /\ snap[j] # "none"
  BY Selected, StatusSet DEF stop_worker, Handling
<1>2. ~dryRun
  BY RealWork DEF stop_worker
<1>3. /\ servers' \in [Servers -> Server]
      /\ \A m \in Servers : servers[m].state = "deleted" => servers'[m].state = "deleted"
  <2>1. jobs[j].vm \in Servers
    BY RecordedServer DEF stop_worker, NothingToDo
  <2>2. servers \in [Servers -> Server] /\ servers[jobs[j].vm] \in Server
    BY <2>1 DEF IndInv, TypeOK
  <2> DEFINE r == [servers[jobs[j].vm] EXCEPT !.state = "stopping"]
  <2>3. r \in Server /\ servers[jobs[j].vm].state # "deleted"
    BY <2>2 DEF Server, stop_worker
  <2>4. servers' = [servers EXCEPT ![jobs[j].vm] = r]
    BY <2>1, <2>2 DEF stop_worker
  <2> HIDE DEF r
  <2> QED
    BY <2>1, <2>3, <2>4, ServerReplaced
<1>4. CloudOK
  BY <1>2, <1>3, CloudChanged DEF stop_worker, IndInv, TypeOK
<1>5. BooksOK
  BY BooksKept DEF stop_worker, dbVars, IndInv, TypeOK
<1>6. TurnOK(j)
  BY DEF stop_worker, TurnOK
<1> QED
  BY <1>1, <1>4, <1>5, <1>6, TurnStep DEF stop_worker, dbVars

\* Deleting a server keeps the cloud well typed and deletes that server.
LEMMA ServerDeletedType ==
    ASSUME IndInv, NEW m \in Servers, ServerDeleted(m)
    PROVE  /\ servers' \in [Servers -> Server]
           /\ servers'[m].state = "deleted"
           /\ \A n \in Servers : servers[n].state = "deleted" => servers'[n].state = "deleted"
           /\ volumes' \in [Volumes -> Volume]
<1>1. servers \in [Servers -> Server] /\ servers[m] \in Server /\ volumes \in [Volumes -> Volume]
  BY DEF IndInv, TypeOK
<1> DEFINE r == [servers[m] EXCEPT !.state = "deleted"]
<1>2. r \in Server /\ r.state = "deleted"
  BY <1>1 DEF Server
<1>3. servers' = [servers EXCEPT ![m] = r]
  BY <1>1 DEF ServerDeleted
<1>4. \A v \in Volumes : [volumes[v] EXCEPT !.state = "deleted", !.on = None] \in Volume
  BY <1>1 DEF Volume
<1>5. volumes' \in [Volumes -> Volume]
  BY <1>1, <1>4 DEF ServerDeleted
<1> HIDE DEF r
<1>6. servers'[m] = r
  BY <1>1, <1>3
<1> QED
  BY <1>2, <1>3, <1>5, <1>6, ServerReplaced

\* VMTerminating, a stopped server.
LEMMA DeleteWorkerStep ==
    ASSUME IndInv, NEW j \in Jobs, NEW o \in Outcomes, delete_worker(j, o)
    PROVE  IndInv'
<1>1. tick.pc = "next" /\ snap[j] = "VMTerminating" /\ snap[j] # "none"
  BY Selected, StatusSet DEF delete_worker, Handling
<1>2. ~dryRun
  BY RealWork DEF delete_worker
<1>3. jobs[j].vm \in Servers
  BY RecordedServer DEF delete_worker, NothingToDo
<1>4. CloudOK /\ servers'[jobs[j].vm].state = "deleted"
  BY <1>2, <1>3, ServerDeletedType, CloudChanged DEF delete_worker
<1>5. BooksOK
  BY BooksKept, FaultyBound DEF delete_worker, dbVars, Cost
<1>6. job_volumes[j] = << >>
  BY <1>1 DEF IndInv, CleanupProgress, VolumeGone
<1>7. TurnOK(j)
  <2>1. CASE FailedAttempt(j)
    BY <2>1, FailedAttemptTurn
  <2>2. CASE MoveOn(j, next_state("VMTerminating"))
    BY <1>1, <1>4, <1>6, <2>2, Successors, StatusSet DEF TurnOK
  <2> QED
    BY <2>1, <2>2 DEF delete_worker
<1> QED
  BY <1>1, <1>4, <1>5, <1>7, TurnStep DEF delete_worker, dbVars

-----------------------------------------------------------------------------
(***************************************************************************)
(* Selecting the jobs, and writing the result of a turn.                   *)
(***************************************************************************)

\* One row of jobs is replaced, or none.
LEMMA RowReplaced ==
    ASSUME IndInv, NEW k \in Jobs, NEW r \in Row,
           jobs' = [jobs EXCEPT ![k] = r] \/ UNCHANGED jobs
    PROVE  /\ jobs' \in [Jobs -> Row]
           /\ \A i \in Jobs : i # k => jobs'[i] = jobs[i]
           /\ jobs'[k] \in {r, jobs[k]}
  BY DEF IndInv, TypeOK

\* The SELECT that starts a tick.
LEMMA StartTickStep ==
    ASSUME IndInv, start_tick
    PROVE  IndInv'
<1> USE DEF IndInv
<1>0. CloudOK /\ BooksOK /\ UNCHANGED <<dryRun, jobs, job_volumes>>
  BY CloudKept, BooksKept DEF start_tick, dbVars, cloudVars, TypeOK
<1>1. TypeOK'
  <2>1. snap' \in [Jobs -> Statuses \union {"none"}]
    BY DEF start_tick, HasRow
  <2>2. tick' \in Tick
    BY DEF start_tick, TypeOK, Tick
  <2> QED
    BY <1>0, <2>1, <2>2 DEF TypeOK, CloudOK, BooksOK
<1>2. tick'.pc = "next"
  BY DEF start_tick, TypeOK, Tick
<1>3. \A j \in Jobs : snap'[j] # "none" => snap'[j] = jobs[j].status /\ snap'[j] # TERMINAL_STATE
  BY DEF start_tick
<1>4. InFlightOK'
  BY <1>0, <1>2 DEF InFlightOK, BooksOK
<1>5. SnapshotCoherent'
  BY <1>0, <1>2, <1>3 DEF SnapshotCoherent
<1>6. CleanupProgress'
  BY <1>0, <1>2, <1>3 DEF CleanupProgress, VolumeGone
<1>7. CleanupComplete'
  BY <1>0 DEF CleanupComplete, CloudOK, TypeOK, Row
<1>8. DryRunRecordsNothing' /\ DryRunTouchesNothing'
  BY <1>0, <1>2 DEF DryRunRecordsNothing, CloudOK
<1> QED
  BY <1>1, <1>4, <1>5, <1>6, <1>7, <1>8

\* The tick ends, at its end or on an error: nothing is selected any more.
LEMMA TickEnds ==
    ASSUME IndInv, CloudOK, BooksOK, UNCHANGED <<dryRun, jobs, job_volumes>>,
           tick' = IdleTick, snap' = NoSnapshot
    PROVE  IndInv'
<1> USE DEF IndInv
<1>1. TypeOK'
  BY StatusSet DEF TypeOK, CloudOK, BooksOK, IdleTick, Tick, NoSnapshot
<1>2. InFlightOK' /\ SnapshotCoherent' /\ CleanupProgress'
  BY DEF InFlightOK, BooksOK, SnapshotCoherent, CleanupProgress, IdleTick, NoSnapshot, VolumeGone
<1>3. CleanupComplete'
  BY DEF CleanupComplete, CloudOK, TypeOK, Row
<1>4. DryRunRecordsNothing' /\ DryRunTouchesNothing'
  BY DEF DryRunRecordsNothing, CloudOK, IdleTick
<1> QED
  BY <1>1, <1>2, <1>3, <1>4

\* force_failed, for a deadline or a timeout.
LEMMA ForceFailedStep ==
    ASSUME IndInv, NEW j \in Jobs, force_failed(j)
    PROVE  IndInv'
<1> USE DEF IndInv
<1>0. CloudOK /\ BooksOK /\ UNCHANGED <<dryRun, job_volumes>>
  BY CloudKept, BooksKept DEF force_failed, cloudVars, TypeOK
<1>1. /\ snap' = [snap EXCEPT ![j] = "none"]
      /\ tick' = [pc |-> "event", job |-> j, at |-> snap[j], target |-> "Failed", res |-> None]
  BY DEF force_failed, Proceed
<1> DEFINE r == [jobs[j] EXCEPT !.status = "Failed"]
<1>2. r \in Row /\ r.status = "Failed" /\ r.vm = jobs[j].vm /\ r.name = jobs[j].name
  BY StatusSet DEF TypeOK, Row
<1>3. \/ jobs' = [jobs EXCEPT ![j] = r] /\ jobs[j].status # "absent"
      \/ UNCHANGED jobs
  <2>1. \/ jobs' = [jobs EXCEPT ![j].status = "Failed"] /\ HasRow(j)
        \/ jobs' = jobs
    BY DEF force_failed
  <2> QED
    BY <2>1, StatusSet DEF HasRow
<1> HIDE DEF r
<1>4. /\ jobs' \in [Jobs -> Row]
      /\ \A i \in Jobs : i # j => jobs'[i] = jobs[i]
      /\ jobs'[j] \in {r, jobs[j]}
      /\ jobs'[j] # jobs[j] => jobs[j].status # "absent"
  BY <1>2, <1>3, RowReplaced
<1>5. snap \in [Jobs -> Statuses \union {"none"}]
  BY DEF TypeOK
<1>6. TypeOK'
  <2>1. \A i \in Jobs : jobs'[i].status # "absent" => jobs'[i].name \in Names
    BY <1>2, <1>4 DEF TypeOK
  <2> QED
    BY <1>0, <1>1, <1>4, <1>5, <2>1, StatusSet DEF TypeOK, CloudOK, BooksOK, Tick
<1>7. InFlightOK'
  BY <1>0, <1>1, StatusSet DEF InFlightOK, BooksOK
<1>8. SnapshotCoherent'
  BY <1>1, <1>4, <1>5 DEF SnapshotCoherent
<1>9. CleanupProgress'
  BY <1>0, <1>1, <1>2, <1>4, <1>5 DEF CleanupProgress, VolumeGone
<1>10. CleanupComplete'
  <2>1. \A i \in Jobs : jobs[i].vm \in Servers \union {None}
    BY DEF TypeOK, Row
  <2> QED
    BY <1>0, <1>2, <1>4, <2>1 DEF CleanupComplete, CloudOK, TERMINAL_STATE
<1>11. DryRunRecordsNothing' /\ DryRunTouchesNothing'
  BY <1>0, <1>1, <1>2, <1>4 DEF DryRunRecordsNothing, CloudOK
<1> QED
  BY <1>6, <1>7, <1>8, <1>9, <1>10, <1>11

\* The writes to job_volumes: the row of a new volume, and the removal of the
\* rows of a deleted one.
LEMMA JobVolumesStep ==
    ASSUME IndInv, insert_job_volume \/ delete_job_volume
    PROVE  IndInv'
<1> USE DEF IndInv
<1> DEFINE k == tick.job
<1>0. CloudOK /\ BooksOK /\ UNCHANGED <<dryRun, jobs, snap>>
  BY CloudKept, BooksKept DEF insert_job_volume, delete_job_volume, cloudVars, TypeOK
<1>1. /\ tick.pc = "record" /\ k \in Jobs /\ ~dryRun
      /\ tick' = [tick EXCEPT !.pc = "update"]
  BY DEF insert_job_volume, delete_job_volume, Recording, InFlightOK, DryRunRecordsNothing
<1>2. /\ tick'.pc = "update" /\ tick'.job = k /\ tick'.at = tick.at
      /\ tick'.target = tick.target /\ tick' \in Tick
  BY <1>1 DEF TypeOK, Tick
<1>3. /\ job_volumes' \in [Jobs -> Seq(Volumes)]
      /\ \A i \in Jobs : i # k => job_volumes'[i] = job_volumes[i]
      /\ tick.at = "VolumeDetaching" => job_volumes'[k] = << >>
  <2>1. CASE insert_job_volume
    <3>1. tick.at = "VolumePending" /\ tick.res \in Volumes
      BY <1>1, <2>1 DEF insert_job_volume, Recording, InFlightOK
    <3> QED
      BY <1>1, <2>1, <3>1 DEF insert_job_volume, TypeOK
  <2>2. CASE delete_job_volume
    BY <1>1, <2>2 DEF delete_job_volume, TypeOK
  <2> QED
    BY <2>1, <2>2
<1>4. TypeOK'
  BY <1>0, <1>2, <1>3 DEF TypeOK, CloudOK, BooksOK
<1>5. InFlightOK'
  BY <1>0, <1>1, <1>2 DEF InFlightOK, BooksOK
<1>6. SnapshotCoherent'
  BY <1>0, <1>1, <1>2 DEF SnapshotCoherent
<1>7. jobs[k].status \in VolumeGone => tick.at = "VolumeDetaching"
  BY <1>1 DEF SnapshotCoherent, CleanupProgress, VolumeGone
<1>8. CleanupProgress'
  BY <1>0, <1>1, <1>2, <1>3, <1>7 DEF CleanupProgress, SnapshotCoherent, VolumeGone, TERMINAL_STATE
<1>9. CleanupComplete'
  BY <1>0, <1>3, <1>7 DEF CleanupComplete, CloudOK, VolumeGone, TERMINAL_STATE, TypeOK, Row
<1>10. DryRunRecordsNothing' /\ DryRunTouchesNothing'
  BY <1>0, <1>1 DEF DryRunRecordsNothing, CloudOK
<1> QED
  BY <1>4, <1>5, <1>6, <1>8, <1>9, <1>10

\* The writes to the columns worker_vm_id, worker_ssh_ip and exit_code.
LEMMA ColumnStep ==
    ASSUME IndInv, set_worker_vm \/ set_worker_ssh_ip \/ record_completion
    PROVE  IndInv'
<1> USE DEF IndInv
<1> DEFINE k == tick.job
<1>0. CloudOK /\ BooksOK /\ UNCHANGED <<dryRun, job_volumes, snap, servers>>
  BY CloudKept, BooksKept
     DEF set_worker_vm, set_worker_ssh_ip, record_completion, cloudVars, TypeOK
<1>1. /\ tick.pc = "record" /\ k \in Jobs /\ ~dryRun
      /\ tick' = [tick EXCEPT !.pc = "update"]
      /\ tick.at \in {"VMPending", "VMCreating", "ContainerRunning"}
  BY DEF set_worker_vm, set_worker_ssh_ip, record_completion, Recording, InFlightOK,
         DryRunRecordsNothing
<1>2. /\ tick'.pc = "update" /\ tick'.job = k /\ tick'.at = tick.at
      /\ tick'.target = tick.target /\ tick' \in Tick
  BY <1>1 DEF TypeOK, Tick
<1>3. PICK r \in Row : /\ r.status = jobs[k].status /\ r.name = jobs[k].name
                       /\ jobs' = [jobs EXCEPT ![k] = r] \/ UNCHANGED jobs
  <2>1. jobs[k] \in Row
    BY <1>1 DEF TypeOK
  <2>2. CASE set_worker_vm
    <3>1. tick.res \in Servers
      BY <1>1, <2>2 DEF set_worker_vm, Recording, InFlightOK
    <3>2. [jobs[k] EXCEPT !.vm = tick.res] \in Row
      BY <2>1, <3>1 DEF Row
    <3>3. /\ [jobs[k] EXCEPT !.vm = tick.res].status = jobs[k].status
          /\ [jobs[k] EXCEPT !.vm = tick.res].name = jobs[k].name
      BY <2>1 DEF Row
    <3> QED
      BY <2>2, <3>2, <3>3 DEF set_worker_vm, SetColumn
  <2>3. CASE set_worker_ssh_ip
    <3>1. tick.res \in Servers
      BY <1>1, <2>3 DEF set_worker_ssh_ip, Recording, InFlightOK
    <3>2. [jobs[k] EXCEPT !.ip = tick.res] \in Row
      BY <2>1, <3>1 DEF Row
    <3>3. /\ [jobs[k] EXCEPT !.ip = tick.res].status = jobs[k].status
          /\ [jobs[k] EXCEPT !.ip = tick.res].name = jobs[k].name
      BY <2>1 DEF Row
    <3> QED
      BY <2>3, <3>2, <3>3 DEF set_worker_ssh_ip, SetColumn
  <2>4. CASE record_completion
    <3>1. tick.res \in ExitCodes
      BY <1>1, <2>4 DEF record_completion, Recording, InFlightOK
    <3>2. [jobs[k] EXCEPT !.exit = tick.res] \in Row
      BY <2>1, <3>1 DEF Row
    <3>3. /\ [jobs[k] EXCEPT !.exit = tick.res].status = jobs[k].status
          /\ [jobs[k] EXCEPT !.exit = tick.res].name = jobs[k].name
      BY <2>1 DEF Row
    <3> QED
      BY <2>4, <3>2, <3>3 DEF record_completion, SetColumn
  <2> QED
    BY <2>2, <2>3, <2>4
<1>4. /\ jobs' \in [Jobs -> Row]
      /\ \A i \in Jobs : i # k => jobs'[i] = jobs[i]
      /\ \A i \in Jobs : jobs'[i].status = jobs[i].status /\ jobs'[i].name = jobs[i].name
  BY <1>1, <1>3, RowReplaced
<1>5. TypeOK'
  BY <1>0, <1>2, <1>4 DEF TypeOK, CloudOK, BooksOK
<1>6. InFlightOK'
  BY <1>0, <1>1, <1>2 DEF InFlightOK, BooksOK
<1>7. SnapshotCoherent'
  BY <1>0, <1>1, <1>2, <1>4 DEF SnapshotCoherent
<1>8. CleanupProgress'
  BY <1>0, <1>1, <1>2, <1>4 DEF CleanupProgress, VolumeGone, TERMINAL_STATE
<1>9. jobs[k].status # TERMINAL_STATE
  BY <1>1 DEF SnapshotCoherent, TERMINAL_STATE
<1>10. CleanupComplete'
  BY <1>0, <1>4, <1>9 DEF CleanupComplete
<1>11. DryRunRecordsNothing' /\ DryRunTouchesNothing'
  BY <1>0, <1>1 DEF DryRunRecordsNothing, CloudOK
<1> QED
  BY <1>5, <1>6, <1>7, <1>8, <1>10, <1>11

\* The UPDATE of jobs.status.
LEMMA UpdateStatusStep ==
    ASSUME IndInv, update_status
    PROVE  IndInv'
<1> USE DEF IndInv
<1> DEFINE k == tick.job
<1>0. CloudOK /\ BooksOK /\ UNCHANGED <<dryRun, job_volumes, snap, servers>>
  BY CloudKept, BooksKept DEF update_status, cloudVars, TypeOK
<1>1. /\ tick.pc = "update" /\ k \in Jobs /\ tick.target \in Statuses
      /\ tick' = [tick EXCEPT !.pc = "event"]
  BY DEF update_status, InFlightOK
<1>2. tick'.pc = "event" /\ tick'.job = k /\ tick'.target = tick.target /\ tick' \in Tick
  BY <1>1 DEF TypeOK, Tick
<1> DEFINE r == [jobs[k] EXCEPT !.status = tick.target]
<1>3. /\ r \in Row /\ r.status = tick.target /\ r.vm = jobs[k].vm
      /\ r.name = jobs[k].name
  <2>1. jobs[k] \in Row
    BY <1>1 DEF TypeOK
  <2> QED
    BY <1>1, <2>1 DEF Row
<1>4. \/ jobs' = [jobs EXCEPT ![k] = r] /\ jobs[k].status # "absent"
      \/ UNCHANGED jobs
  BY StatusSet DEF update_status, SetColumn, HasRow
<1> HIDE DEF r
<1>5. /\ jobs' \in [Jobs -> Row]
      /\ \A i \in Jobs : i # k => jobs'[i] = jobs[i]
      /\ jobs'[k] \in {r, jobs[k]}
      /\ jobs'[k] # jobs[k] => jobs[k].status # "absent"
  BY <1>1, <1>3, <1>4, RowReplaced
<1>6. TypeOK'
  <2>1. \A i \in Jobs : jobs'[i].status # "absent" => jobs'[i].name \in Names
    BY <1>1, <1>3, <1>5 DEF TypeOK
  <2> QED
    BY <1>0, <1>2, <1>5, <2>1 DEF TypeOK, CloudOK, BooksOK
<1>7. InFlightOK'
  BY <1>0, <1>1, <1>2 DEF InFlightOK, BooksOK
<1>8. SnapshotCoherent'
  BY <1>0, <1>1, <1>2, <1>5 DEF SnapshotCoherent
<1>9. CleanupProgress'
  BY <1>0, <1>1, <1>2, <1>3, <1>5 DEF CleanupProgress
<1>10. CleanupComplete'
  BY <1>0, <1>1, <1>3, <1>5
     DEF CleanupComplete, CleanupProgress, VolumeGone, TERMINAL_STATE
<1>11. DryRunRecordsNothing' /\ DryRunTouchesNothing'
  BY <1>0, <1>2, <1>3, <1>5 DEF DryRunRecordsNothing, CloudOK
<1> QED
  BY <1>6, <1>7, <1>8, <1>9, <1>10, <1>11

\* The INSERT of the event, after which the next job has its turn.
LEMMA RecordEventStep ==
    ASSUME IndInv, record_event
    PROVE  IndInv'
<1> USE DEF IndInv
<1>0. CloudOK /\ BooksOK /\ UNCHANGED <<dryRun, jobs, job_volumes, snap>>
  <2>1. tick.job \in Jobs
    BY DEF record_event, InFlightOK
  <2> QED
    BY <2>1, CloudKept DEF record_event, cloudVars, TypeOK, InFlightOK, BooksOK
<1>1. tick'.pc = "next" /\ tick' \in Tick
  BY StatusSet DEF record_event, IdleTick, Tick
<1>2. TypeOK'
  BY <1>0, <1>1 DEF TypeOK, CloudOK, BooksOK
<1>3. InFlightOK' /\ SnapshotCoherent' /\ CleanupProgress'
  BY <1>0, <1>1 DEF InFlightOK, BooksOK, SnapshotCoherent, CleanupProgress
<1>4. CleanupComplete'
  BY <1>0 DEF CleanupComplete, CloudOK, TypeOK, Row
<1>5. DryRunRecordsNothing' /\ DryRunTouchesNothing'
  BY <1>0, <1>1 DEF DryRunRecordsNothing, CloudOK
<1> QED
  BY <1>2, <1>3, <1>4, <1>5

-----------------------------------------------------------------------------
(***************************************************************************)
(* The API.                                                                *)
(***************************************************************************)

\* The request that finds its name free.
LEMMA CheckNameStep ==
    ASSUME IndInv, NEW j \in Jobs, NEW n \in Names, check_name(j, n)
    PROVE  IndInv'
<1>1. CloudOK
  BY CloudKept DEF check_name, cloudVars
<1>2. BooksOK
  <2>1. api' \in Api /\ api'.pc = api.pc /\ api'.job = api.job
    BY DEF check_name, IndInv, TypeOK, Api
  <2> QED
    BY <2>1 DEF check_name, dbVars, IndInv, TypeOK, InFlightOK, BooksOK
<1> QED
  BY <1>1, <1>2, QuietStep DEF check_name, dbVars, tickVars

\* create_job inserts a row that no tick has selected.
LEMMA CreateJobStep ==
    ASSUME IndInv, NEW j \in Jobs, NEW w \in VolumeRequests, create_job(j, w)
    PROVE  IndInv'
<1> USE DEF IndInv
<1> DEFINE n == api.creating[j]
<1>a. api \in Api /\ n \in Names
  BY DEF create_job, TypeOK, Api
<1>0. CloudOK /\ BooksOK /\ UNCHANGED <<dryRun, job_volumes, snap, tick>>
  <2>1. api' \in Api /\ api'.pc = api.pc /\ api'.job = api.job
    BY <1>a DEF create_job, Api
  <2> QED
    BY <2>1, CloudKept DEF create_job, cloudVars, tickVars, TypeOK, InFlightOK, BooksOK
<1> DEFINE r == [NoRow EXCEPT !.status = "Created", !.name = n, !.volume = w]
<1>1. r \in Row /\ r.status = "Created" /\ r.vm = None /\ r.name \in Names
  BY <1>a, StatusSet DEF NoRow, Row
<1>2. jobs' = [jobs EXCEPT ![j] = r] /\ jobs[j].status = "absent"
  BY DEF create_job
<1> HIDE DEF r
<1>3. /\ jobs' \in [Jobs -> Row] /\ jobs'[j] = r
      /\ \A i \in Jobs : i # j => jobs'[i] = jobs[i]
  BY <1>1, <1>2 DEF TypeOK
<1>4. snap[j] = "none" /\ (tick.pc \in {"record", "update"} => tick.job # j)
  <2>1. snap[j] \in Statuses \union {"none"} /\ tick.at \in Statuses \union {"none"}
    BY DEF TypeOK, Tick
  <2> QED
    BY <1>2, <2>1, StatusSet DEF SnapshotCoherent
<1>5. TypeOK' /\ InFlightOK'
  BY <1>0, <1>1, <1>3 DEF TypeOK, InFlightOK, CloudOK, BooksOK
<1>6. SnapshotCoherent'
  <2>1. tick.pc \in {"record", "update"} => tick.job \in Jobs
    BY DEF InFlightOK
  <2> QED
    BY <1>0, <1>3, <1>4, <2>1 DEF SnapshotCoherent
<1>7. CleanupProgress' /\ CleanupComplete'
  <2>1. tick.pc = "update" => tick.job \in Jobs
    BY DEF InFlightOK
  <2>2. UNCHANGED servers
    BY DEF create_job, cloudVars
  <2> QED
    BY <1>0, <1>1, <1>3, <1>4, <2>1, <2>2
       DEF CleanupProgress, CleanupComplete, VolumeGone, TERMINAL_STATE
<1>8. DryRunRecordsNothing' /\ DryRunTouchesNothing'
  BY <1>0, <1>1, <1>3 DEF DryRunRecordsNothing, CloudOK
<1> QED
  BY <1>5, <1>6, <1>7, <1>8

\* A DELETE request that is answered, or fails.
LEMMA RequestEnds ==
    ASSUME IndInv, Answered
    PROVE  api' \in Api /\ api'.pc = "idle"
  BY DEF IndInv, TypeOK, Api, Answered

\* A DELETE request that reads the row, or records its event.
LEMMA DeleteBooksStep ==
    ASSUME IndInv, (\E j \in Jobs : delete_job(j)) \/ delete_records_event
    PROVE  IndInv'
<1>1. CloudOK
  BY CloudKept DEF delete_job, delete_records_event, cloudVars
<1>2. BooksOK
  <2>1. ASSUME NEW j \in Jobs, delete_job(j) PROVE BooksOK
    <3>1. /\ api' \in Api /\ api'.job = j
      <4>1. api \in Api
        BY DEF IndInv, TypeOK
      <4>2. \/ api' = [api EXCEPT !.pc = "force", !.job = j]
            \/ api' = [api EXCEPT !.pc = "drop", !.job = j]
        BY <2>1 DEF delete_job
      <4> QED
        BY <4>1, <4>2 DEF Api
    <3>2. /\ deletes < MaxDeletes /\ deletes' = deletes + 1
          /\ UNCHANGED <<dryRun, dbVars, faults, scan>>
      BY <2>1, Zenon DEF delete_job
    <3> QED
      BY <3>1, <3>2, BoundsAssumption DEF dbVars, IndInv, TypeOK, BooksOK
  <2>2. CASE delete_records_event
    <3>1. api' \in Api /\ api'.pc = "idle"
      BY <2>2, RequestEnds DEF delete_records_event
    <3> QED
      BY <2>2, <3>1 DEF delete_records_event, IndInv, TypeOK, InFlightOK, BooksOK
  <2> QED
    BY <2>1, <2>2
<1> QED
  BY <1>1, <1>2, QuietStep DEF delete_job, delete_records_event, dbVars, tickVars

\* A DELETE request that changes the row: Failed, or gone.
LEMMA DeleteWritesStep ==
    ASSUME IndInv, delete_forces \/ delete_drops_row
    PROVE  IndInv'
<1> USE DEF IndInv
<1> DEFINE k == api.job
<1>0. CloudOK /\ BooksOK /\ UNCHANGED <<dryRun, job_volumes, snap, tick, servers>> /\ k \in Jobs
  <2>1. k \in Jobs
    BY DEF delete_forces, delete_drops_row, InFlightOK
  <2>2. api' \in Api /\ (api'.pc # "idle" => api'.job \in Jobs)
    BY <2>1, RequestEnds DEF delete_forces, delete_drops_row, TypeOK, Api
  <2> QED
    BY <2>1, <2>2, CloudKept DEF delete_forces, delete_drops_row, cloudVars, tickVars, TypeOK,
                                 BooksOK
<1>1. PICK r \in Row : /\ r.status \in {"Failed", "deleted"} /\ r.vm \in {jobs[k].vm, None}
                       /\ r.name = jobs[k].name
                       /\ \/ jobs' = [jobs EXCEPT ![k] = r] /\ jobs[k].status # "absent"
                          \/ UNCHANGED jobs
  <2>1. jobs[k] \in Row /\ jobs \in [Jobs -> Row]
    BY <1>0 DEF TypeOK
  <2>2. CASE delete_forces
    <3> DEFINE r == [jobs[k] EXCEPT !.status = "Failed"]
    <3>1. r \in Row /\ r.status = "Failed" /\ r.vm = jobs[k].vm /\ r.name = jobs[k].name
      BY <2>1, StatusSet DEF Row
    <3>2. \/ jobs' = [jobs EXCEPT ![k] = r] /\ HasRow(k)
          \/ UNCHANGED jobs
      BY <1>0, <2>1, <2>2 DEF delete_forces
    <3>3. HasRow(k) => jobs[k].status # "absent"
      BY StatusSet DEF HasRow
    <3> QED
      BY <3>1, <3>2, <3>3
  <2>3. CASE delete_drops_row
    <3> DEFINE r == [jobs[k] EXCEPT !.status = "deleted", !.vm = None, !.ip = None, !.exit = None]
    <3>1. r \in Row /\ r.status = "deleted" /\ r.vm = None /\ r.name = jobs[k].name
      BY <2>1 DEF Row
    <3>2. \/ jobs' = [jobs EXCEPT ![k] = r] /\ HasRow(k)
          \/ UNCHANGED jobs
      BY <1>0, <2>1, <2>3 DEF delete_drops_row
    <3>3. HasRow(k) => jobs[k].status # "absent"
      BY StatusSet DEF HasRow
    <3> QED
      BY <3>1, <3>2, <3>3
  <2> QED
    BY <2>2, <2>3
<1>2. /\ jobs' \in [Jobs -> Row]
      /\ \A i \in Jobs : i # k => jobs'[i] = jobs[i]
      /\ jobs'[k] \in {r, jobs[k]}
      /\ jobs'[k] # jobs[k] => jobs[k].status # "absent"
  BY <1>0, <1>1, RowReplaced
<1>3. TypeOK' /\ InFlightOK'
  <2>1. \A i \in Jobs : jobs'[i].status # "absent" => jobs'[i].name \in Names
    BY <1>0, <1>1, <1>2 DEF TypeOK
  <2> QED
    BY <1>0, <1>2, <2>1 DEF TypeOK, InFlightOK, CloudOK, BooksOK
<1>4. tick.pc \in {"record", "update"} => tick.job \in Jobs
  BY DEF InFlightOK
<1>5. SnapshotCoherent'
  BY <1>0, <1>1, <1>2, <1>4 DEF SnapshotCoherent
<1>6. CleanupProgress' /\ CleanupComplete'
  BY <1>0, <1>1, <1>2, <1>4 DEF CleanupProgress, CleanupComplete, VolumeGone, TERMINAL_STATE
<1>7. DryRunRecordsNothing' /\ DryRunTouchesNothing'
  BY <1>0, <1>1, <1>2 DEF DryRunRecordsNothing, CloudOK
<1> QED
  BY <1>3, <1>5, <1>6, <1>7

-----------------------------------------------------------------------------
(***************************************************************************)
(* The orphan scan, the environment and the faults.                        *)
(***************************************************************************)

\* The scan's lists and reads.
LEMMA ScanReadsStep ==
    ASSUME IndInv,
           \/ scan_lists_volumes \/ scan_reads_tracked_volumes \/ scan_lists_servers
           \/ scan_reads_tracked_servers \/ finish_scan
    PROVE  IndInv'
<1> USE DEF scan_lists_volumes, scan_reads_tracked_volumes, scan_lists_servers,
            scan_reads_tracked_servers, finish_scan
<1>1. CloudOK
  BY CloudKept DEF cloudVars
<1>2. scan' \in Scan
  <2>1. /\ scan \in Scan /\ scan.vols \subseteq Volumes
        /\ scan.started \subseteq Servers /\ scan.stopped \subseteq Servers
    BY DEF IndInv, TypeOK, Scan
  <2>2. CASE scan_lists_volumes
    BY <2>1, <2>2 DEF Scan
  <2>3. CASE scan_reads_tracked_volumes
    BY <2>1, <2>3 DEF Scan
  <2>4. CASE scan_lists_servers
    BY <2>1, <2>4 DEF Scan
  <2>5. CASE scan_reads_tracked_servers
    BY <2>1, <2>5 DEF Scan
  <2>6. CASE finish_scan
    BY <2>6 DEF Scan, IdleScan
  <2> QED
    BY <2>2, <2>3, <2>4, <2>5, <2>6
<1>3. BooksOK
  BY <1>2 DEF dbVars, IndInv, TypeOK, InFlightOK, BooksOK
<1> QED
  BY <1>1, <1>3, QuietStep DEF dbVars, tickVars

\* In dry-run mode the cloud is empty, so a step that needs a volume or a
\* server is not a dry-run step.
LEMMA SomethingExists ==
    ASSUME IndInv,
           \/ \E v \in Volumes : volumes[v].state # "none"
           \/ \E m \in Servers : servers[m].state # "none"
    PROVE  ~dryRun
  BY DEF IndInv, DryRunTouchesNothing

\* The scan's deletions.
LEMMA ScanDeletesStep ==
    ASSUME IndInv, NEW works \in BOOLEAN,
           \/ \E v \in Volumes : scan_deletes_volume(v, works)
           \/ \E m \in Servers : scan_stops_server(m, works) \/ scan_deletes_server(m, works)
    PROVE  IndInv'
<1>1. BooksOK /\ UNCHANGED <<dryRun, jobs, job_volumes, snap, tick>>
  <2>1. scan' \in Scan
    <3>1. /\ scan \in Scan /\ scan.vols \subseteq Volumes
          /\ scan.started \subseteq Servers /\ scan.stopped \subseteq Servers
      BY DEF IndInv, TypeOK, Scan
    <3>2. CASE \E v \in Volumes : scan_deletes_volume(v, works)
      BY <3>1, <3>2 DEF scan_deletes_volume, Scan
    <3>3. CASE \E m \in Servers : scan_stops_server(m, works)
      BY <3>1, <3>3 DEF scan_stops_server, Scan
    <3>4. CASE \E m \in Servers : scan_deletes_server(m, works)
      BY <3>1, <3>4 DEF scan_deletes_server, Scan
    <3> QED
      BY <3>2, <3>3, <3>4
  <2> QED
    BY <2>1 DEF scan_deletes_volume, scan_stops_server, scan_deletes_server, dbVars,
                tickVars, IndInv, TypeOK, InFlightOK, BooksOK
<1>2. CloudOK
  <2>1. CASE UNCHANGED <<volumes, servers>>
    BY <1>1, <2>1, CloudKept
  <2>2. ASSUME NEW v \in Volumes, volumes[v].state = "live", volumes' = VolumeDeleted(v),
               UNCHANGED servers
        PROVE  CloudOK
    <3>1. volumes' \in [Volumes -> Volume]
      BY <2>2 DEF VolumeDeleted, IndInv, TypeOK, Volume
    <3> QED
      BY <1>1, <2>2, <3>1, SomethingExists, CloudChanged DEF IndInv, TypeOK
  <2>3. ASSUME NEW m \in Servers, servers[m].state = "started", UNCHANGED volumes,
               servers' = [servers EXCEPT ![m].state = "stopping"]
        PROVE  CloudOK
    <3> DEFINE r == [servers[m] EXCEPT !.state = "stopping"]
    <3>1. servers \in [Servers -> Server] /\ servers[m] \in Server
      BY DEF IndInv, TypeOK
    <3>2. r \in Server
      BY <3>1 DEF Server
    <3>3. servers' = [servers EXCEPT ![m] = r]
      BY <2>3, <3>1
    <3> HIDE DEF r
    <3> QED
      BY <1>1, <2>3, <3>2, <3>3, ServerReplaced, SomethingExists, CloudChanged DEF IndInv, TypeOK
  <2>4. ASSUME NEW m \in Servers, servers[m].state = "stopped", ServerDeleted(m)
        PROVE  CloudOK
    BY <1>1, <2>4, ServerDeletedType, SomethingExists, CloudChanged
  <2> QED
    BY <2>1, <2>2, <2>3, <2>4
       DEF scan_deletes_volume, scan_stops_server, scan_deletes_server, Deletable, cloudVars
<1> QED
  BY <1>1, <1>2, QuietStep

\* A deadline passes.
LEMMA DeadlineStep ==
    ASSUME IndInv, NEW j \in Jobs, deadline_passes(j)
    PROVE  IndInv'
<1>1. CloudOK /\ BooksOK
  BY CloudKept DEF deadline_passes, cloudVars, IndInv, TypeOK, InFlightOK, BooksOK
<1> QED
  BY <1>1, QuietStep DEF deadline_passes, tickVars

\* A server starts or stops, its rules show, its worker goes on.
LEMMA ServerMovesStep ==
    ASSUME IndInv, NEW m \in Servers,
           server_settles(m) \/ firewall_propagates(m) \/ worker_runs(m)
    PROVE  IndInv'
<1>1. servers \in [Servers -> Server] /\ servers[m] \in Server
  BY DEF IndInv, TypeOK
<1>2. /\ \A x \in {"started", "stopped"} : [servers[m] EXCEPT !.state = x] \in Server
      /\ [servers[m] EXCEPT !.firewall = "visible"] \in Server
      /\ \A w \in {"run", "zero", "nonzero"} : [servers[m] EXCEPT !.worker = w] \in Server
  BY <1>1 DEF Server, ExitCodes
<1>3. PICK r \in Server : servers' = [servers EXCEPT ![m] = r]
  BY <1>1, <1>2 DEF server_settles, firewall_propagates, worker_runs, ExitCodes
<1>4. servers[m].state # "deleted" /\ servers[m].state # "none"
  BY DEF server_settles, firewall_propagates, worker_runs
<1>5. BooksOK /\ UNCHANGED <<dryRun, jobs, job_volumes, snap, tick, volumes>>
  BY BooksKept DEF server_settles, firewall_propagates, worker_runs, dbVars, tickVars,
                   IndInv, TypeOK
<1>6. CloudOK
  BY <1>3, <1>4, <1>5, ServerReplaced, SomethingExists, CloudChanged DEF IndInv, TypeOK
<1> QED
  BY <1>5, <1>6, QuietStep

\* A tick that ends or is cut short, alone or with the whole process.
LEMMA TickEndsStep ==
    ASSUME IndInv, finish_tick \/ tick_aborts \/ crash
    PROVE  IndInv'
<1>1. tick' = IdleTick /\ snap' = NoSnapshot
  BY DEF finish_tick, tick_aborts, crash, Abort
<1>2. CloudOK /\ UNCHANGED <<dryRun, jobs, job_volumes>>
  BY CloudKept DEF finish_tick, tick_aborts, crash, dbVars, cloudVars
<1>3. faults' \in 0 .. MaxFaults
  BY FaultyBound DEF finish_tick, tick_aborts, crash, IndInv, TypeOK
<1>4. BooksOK
  <2>1. CASE UNCHANGED <<api, scan>>
    BY <1>3, <2>1, BooksKept DEF finish_tick, tick_aborts, crash, dbVars
  <2>2. CASE api' = IdleApi /\ scan' = IdleScan
    BY <1>3, <2>2 DEF finish_tick, tick_aborts, crash, dbVars, IdleApi, IdleScan, Api, Scan,
                      IndInv, TypeOK, BooksOK
  <2> QED
    BY <2>1, <2>2 DEF finish_tick, tick_aborts, crash
<1> QED
  BY <1>1, <1>2, <1>4, TickEnds

\* A request or a scan that is cut short.
LEMMA CutShortStep ==
    ASSUME IndInv, api_aborts \/ scan_aborts
    PROVE  IndInv'
<1>1. CloudOK /\ UNCHANGED <<dryRun, jobs, job_volumes, snap, tick>>
  BY CloudKept DEF api_aborts, scan_aborts, dbVars, cloudVars, tickVars
<1>2. faults' \in 0 .. MaxFaults
  BY FaultyBound DEF api_aborts, scan_aborts
<1>3. BooksOK
  <2>1. api' \in Api /\ (api'.pc # "idle" => api'.job \in Jobs)
    BY RequestEnds DEF api_aborts, scan_aborts, IndInv, TypeOK, InFlightOK
  <2> QED
    BY <1>2, <2>1 DEF api_aborts, scan_aborts, dbVars, IdleScan, Scan, IndInv, TypeOK, BooksOK
<1> QED
  BY <1>1, <1>3, QuietStep

-----------------------------------------------------------------------------
(***************************************************************************)
(* The theorems.                                                           *)
(***************************************************************************)

\* The empty database and the empty cloud satisfy the invariant.
LEMMA InitInv == Init => IndInv
<1> SUFFICES ASSUME Init PROVE IndInv
  OBVIOUS
<1> USE DEF Init
<1>1. jobs \in [Jobs -> Row] /\ \A j \in Jobs : jobs[j].status = "absent" /\ jobs[j].vm = None
  BY DEF NoRow, Row
<1>2. /\ volumes \in [Volumes -> Volume] /\ servers \in [Servers -> Server]
      /\ DryRunTouchesNothing
  BY DEF Volume, Server, DryRunTouchesNothing
<1>3. tick \in Tick /\ api \in Api /\ scan \in Scan
  BY DEF IdleTick, Tick, IdleApi, Api, IdleScan, Scan
<1>4. job_volumes \in [Jobs -> Seq(Volumes)] /\ \A j \in Jobs : job_volumes[j] = << >>
  OBVIOUS
<1>5. TypeOK
  BY <1>1, <1>2, <1>3, <1>4, BoundsAssumption DEF TypeOK, NoSnapshot
<1>6. InFlightOK /\ SnapshotCoherent /\ CleanupProgress /\ CleanupComplete /\ DryRunRecordsNothing
  BY <1>1, <1>4 DEF InFlightOK, SnapshotCoherent, CleanupProgress, CleanupComplete,
                    DryRunRecordsNothing, IdleTick, IdleApi, NoSnapshot, VolumeGone,
                    TERMINAL_STATE
<1> QED
  BY <1>2, <1>5, <1>6 DEF IndInv

\* Every step, of whichever process, preserves the invariant.
LEMMA NextInv == IndInv /\ [Next]_vars => IndInv'
<1> SUFFICES ASSUME IndInv, [Next]_vars PROVE IndInv'
  OBVIOUS
<1>1. CASE start_tick
  BY <1>1, StartTickStep
<1>2. CASE finish_tick \/ tick_aborts \/ crash
  BY <1>2, TickEndsStep
<1>3. CASE TickWrites
  BY <1>3, JobVolumesStep, ColumnStep, UpdateStatusStep, RecordEventStep DEF TickWrites
<1>4. ASSUME NEW j \in Jobs, Handlers(j) PROVE IndInv'
  BY <1>4, AdvanceStep, FailureStep, ForceFailedStep, VolumePendingStep, VMPendingStep,
     FirewallApplyingStep, FirewallVerifiedStep, VMCreatingStep, VolumeAttachingStep,
     ContainerConfiguringStep, ContainerRunningStep, VolumeDetachingStep, StopWorkerStep,
     DeleteWorkerStep DEF Handlers
<1>5. CASE ApiStep
  BY <1>5, DeleteWritesStep, DeleteBooksStep DEF ApiStep
<1>6. CASE ScanStep
  BY <1>6, ScanReadsStep, ScanDeletesStep DEF ScanStep
<1>7. CASE Environment
  BY <1>7, DeadlineStep, ServerMovesStep DEF Environment
<1>8. CASE \/ \E j \in Jobs, n \in Names : check_name(j, n)
           \/ \E j \in Jobs, w \in VolumeRequests : create_job(j, w)
  BY <1>8, CheckNameStep, CreateJobStep
<1>9. CASE \E j \in Jobs : delete_job(j)
  BY <1>9, DeleteBooksStep
<1>10. CASE api_aborts \/ scan_aborts
  BY <1>10, CutShortStep
<1>11. CASE UNCHANGED vars
  BY <1>11 DEF vars, IndInv, TypeOK, InFlightOK, SnapshotCoherent, CleanupProgress,
               CleanupComplete, DryRunRecordsNothing, DryRunTouchesNothing
<1> QED
  BY <1>1, <1>2, <1>3, <1>4, <1>5, <1>6, <1>7, <1>8, <1>9, <1>10, <1>11 DEF Next, TickStep

\* IndInv holds in every reachable state, however many jobs, volumes, servers,
\* faults and DELETE requests there are, with or without the orphan scan.
THEOREM Invariance == Spec => []IndInv
<1>1. Init => IndInv
  BY InitInv
<1>2. IndInv /\ [Next]_vars => IndInv'
  BY NextInv
<1> QED
  BY <1>1, <1>2, PTL DEF Spec

\* The tables, the cloud and every process in flight stay well typed.
THEOREM TypeCorrect == Spec => []TypeOK
<1>1. IndInv => TypeOK
  BY DEF IndInv
<1> QED
  BY <1>1, Invariance, PTL

\* An archived run has left no job_volumes row and no worker VM behind.
THEOREM ArchivedIsClean == Spec => []CleanupComplete
<1>1. IndInv => CleanupComplete
  BY DEF IndInv
<1> QED
  BY <1>1, Invariance, PTL

\* The tick's blind writes are sound: until a job's UPDATE its row is in the
\* state the tick selected, or a DELETE request has failed or removed it.
THEOREM SnapshotStaysCoherent == Spec => []SnapshotCoherent
<1>1. IndInv => SnapshotCoherent
  BY DEF IndInv
<1> QED
  BY <1>1, Invariance, PTL

\* Dry-run creates nothing at the provider.
THEOREM DryRunIsDry == Spec => []DryRunTouchesNothing
<1>1. IndInv => DryRunTouchesNothing
  BY DEF IndInv
<1> QED
  BY <1>1, Invariance, PTL

=============================================================================
