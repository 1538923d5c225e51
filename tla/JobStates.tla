------------------------------ MODULE JobStates ------------------------------
(***************************************************************************)
(* The vocabulary of the job pipeline: the states a row of table "jobs"    *)
(* walks through, the successor of each, and the Pod phase the API derives *)
(* from a row.  Pure definitions, shared by every module that looks at     *)
(* jobs.status.                                                            *)
(***************************************************************************)
EXTENDS Integers, Sequences

\* reconcile::job::STATE_SEQUENCE.
STATE_SEQUENCE ==
    << "Created", "VolumePending", "VolumeCreating", "VolumeCreated",
       "VMPending", "FirewallApplying", "FirewallVerified", "VMCreating",
       "VMRunning", "VolumeAttaching", "VolumeAttached",
       "ContainerConfiguring", "ContainerRunning", "Succeeded",
       "VolumeDetaching", "VolumeDeleted", "VMTerminating", "Archived" >>

\* The one state a run never leaves.
TERMINAL_STATE == "Archived"

Position(s) == CHOOSE i \in DOMAIN STATE_SEQUENCE : STATE_SEQUENCE[i] = s

\* Every value of jobs.status: the sequence and the lateral "Failed".
Statuses == {STATE_SEQUENCE[i] : i \in DOMAIN STATE_SEQUENCE} \union {"Failed"}

\* Mutant of next_state: a failed run skips the volume cleanup.
next_state_after_failure(s) ==
    IF s = "Failed" THEN "VMTerminating" ELSE STATE_SEQUENCE[Position(s) + 1]

\* Mutant of next_state: a configured container counts as finished.
next_state_skips_run(s) ==
    CASE s = "Failed" -> "VolumeDetaching"
      [] s = "ContainerConfiguring" -> "Succeeded"
      [] OTHER -> STATE_SEQUENCE[Position(s) + 1]

\* The state one tick after s; undefined for TERMINAL_STATE, which the tick's
\* SELECT leaves out.
next_state(s) ==
    IF s = "Failed" THEN "VolumeDetaching" ELSE STATE_SEQUENCE[Position(s) + 1]

\* The states before "Succeeded", the ones a deadline or a stuck-state timeout
\* applies to and the ones in which a DELETE force-fails the job.
is_pre_completion_state(s) ==
    s \in Statuses \ {"Failed"} /\ Position(s) < Position("Succeeded")

\* The states advance_all_until has no handler for: it just moves on.
UnhandledStates ==
    {"Created", "VolumeCreating", "VolumeCreated", "VMRunning",
     "VolumeAttached", "Succeeded", "Failed", "VolumeDeleted"}

\* api::pods::phase_for, also the source of a Job's Complete/Failed condition.
phase_for(s, failed) ==
    CASE s = "ContainerRunning" -> "Running"
      [] s = "Succeeded" -> "Succeeded"
      [] s = "Failed" -> "Failed"
      [] s \in {"VolumeDetaching", "VolumeDeleted", "VMTerminating", "Archived"}
            -> IF failed THEN "Failed" ELSE "Succeeded"
      [] OTHER -> "Pending"

=============================================================================
