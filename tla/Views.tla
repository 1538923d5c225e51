-------------------------------- MODULE Views --------------------------------
(***************************************************************************)
(* What clients are told about a Job.  Every view is one or two queries    *)
(* over the tables of Reconciler and keeps no state of its own: the Job    *)
(* and Pod objects, the events of a Pod, the status page, the counters of  *)
(* GET /metrics, and the machines that the log endpoint and the metrics    *)
(* poll would connect to.  The clauses below read the same rows in         *)
(* different ways; the properties say that what they tell agrees.          *)
(***************************************************************************)
EXTENDS Reconciler

\* The rows a query by namespace and name finds.
Named(n) == {j \in Jobs : HasRow(j) /\ jobs[j].name = n}

\* api::job::status_for: phase_for in the shape of a JobStatus.
status_for(s, failed) ==
    LET phase == phase_for(s, failed)
    IN  CASE phase = "Succeeded" ->
               [active |-> 0, succeeded |-> 1, failed |-> 0, conditions |-> {"Complete"}]
          [] phase = "Failed" ->
               [active |-> 0, succeeded |-> 0, failed |-> 1, conditions |-> {"Failed"}]
          [] OTHER ->
               [active |-> 1, succeeded |-> 0, failed |-> 0, conditions |-> {}]

row_to_job(j) ==
    [uid |-> j, name |-> jobs[j].name,
     status |-> status_for(jobs[j].status, RunFailed(j))]

\* kubectl get jobs; one Job is one of the rows of its name.
list_jobs == {row_to_job(j) : j \in {k \in Jobs : HasRow(k)}}
get_job(n) == {row_to_job(j) : j \in Named(n)}

\* kubectl get pod NAME: the phase alone, from the same two columns.
get_pod(n) == {phase_for(jobs[j].status, RunFailed(j)) : j \in Named(n)}

\* kubectl describe pod NAME: of the events the model keeps those with reason
\* "Failed", joined with the rows of jobs, so an event outlives its listing.
list_events(n) ==
    {[name |-> jobs[j].name, reason |-> "Failed"] : j \in Named(n) \intersect failedEvents}

\* The status page: rows not archived, and the events left-joined with jobs.
running_jobs == {j \in Jobs : HasRow(j) /\ jobs[j].status # TERMINAL_STATE}
recent_events ==
    {[name |-> IF HasRow(j) THEN jobs[j].name ELSE None, reason |-> "Failed"] :
     j \in failedEvents}

\* One page from two queries; an event whose job is gone is the system's.
render == [jobs |-> running_jobs, events |-> recent_events]

\* GET /metrics: kubeshim_job_runs_total.
is_finished_state(s) ==
    s = "Failed" \/ (s \in Statuses /\ ~is_pre_completion_state(s))

\* Mutant of write_job_runs: a run failed if its container did.
write_job_runs_by_exit(result) ==
    {j \in Jobs : /\ HasRow(j) /\ is_finished_state(jobs[j].status)
                  /\ (jobs[j].exit = "nonzero") = (result = "failed")}

\* The runs counted with a result; the metric is the size of the set.
write_job_runs(result) ==
    {j \in Jobs : /\ HasRow(j) /\ is_finished_state(jobs[j].status)
                  /\ RunFailed(j) = (result = "failed")}

\* Mutant of polled_jobs: every job with an address.
polled_jobs_any == {j \in Jobs : HasRow(j) /\ jobs[j].ip # None}

\* The jobs whose worker poll_once and get_pod_log would connect to.
polled_jobs ==
    {j \in Jobs : /\ HasRow(j) /\ jobs[j].ip # None
                  /\ is_pre_completion_state(jobs[j].status)}
followed_jobs ==
    {j \in Jobs : jobs[j].status = "ContainerRunning" /\ jobs[j].ip # None}

-----------------------------------------------------------------------------
(***************************************************************************)
(* Properties.                                                             *)
(***************************************************************************)

\* Logs and metrics reach the right machine: whenever poll_once or get_pod_log
\* would connect to a job's recorded address, it is the address of the job's
\* recorded worker, created under the job's title, through crashes, retries,
\* adoptions by title and DELETEs.  A job that shares its title with no other,
\* before or beside it, reaches a machine that exists and was never given
\* another job's container.
SshReachesOwnWorker ==
    \A j \in polled_jobs \union followed_jobs :
        LET m == jobs[j].ip
        IN  /\ m = jobs[j].vm
            /\ servers[m].title = title(j)
            /\ OnlyTitled(j) => /\ servers[m].state # "deleted"
                               /\ servers[m].owner \in {None, j}

\* The event of a state change follows its UPDATE in a second statement.
BeingRecorded(j) == tick.pc = "event" /\ tick.job = j

\* Every view tells the same story of a run: "This is the same test the Pod
\* phase and Job status use" (metrics_export.rs).  A run is Succeeded, or
\* Failed, in its Pod, its Job and the run counters together; it has a Failed
\* event exactly if it failed; and it leaves the status page only after its
\* outcome is told everywhere.  Most views are asked by name, so this is said of
\* a run whose name no other row has.
ViewsAgree ==
    \A j \in Jobs : HasRow(j) /\ Named(jobs[j].name) = {j} /\ ~BeingRecorded(j) =>
        LET n == jobs[j].name
            Told(phase, condition, result) ==
                /\ (get_pod(n) = {phase}) = (j \in write_job_runs(result))
                /\ (get_pod(n) = {phase}) =
                       (\A o \in get_job(n) : o.status.conditions = {condition})
                /\ get_job(n) \subseteq {o \in list_jobs : o.name = n}
        IN  /\ Told("Succeeded", "Complete", "succeeded")
            /\ Told("Failed", "Failed", "failed")
            /\ (get_pod(n) = {"Failed"}) = (list_events(n) # {})
            /\ list_events(n) \subseteq render.events
            /\ j \notin render.jobs => get_pod(n) \in {{"Succeeded"}, {"Failed"}}

-----------------------------------------------------------------------------
(***************************************************************************)
(* The abstract specification, JobLifecycle, and the refinement mapping.   *)
(***************************************************************************)

Phases == [j \in Jobs |-> IF HasRow(j) THEN Outcome(j) ELSE "none"]
ArchivedJobs == {j \in Jobs : jobs[j].status = TERMINAL_STATE}

Lifecycle == INSTANCE JobLifecycle WITH phase <- Phases, archived <- ArchivedJobs

\* The reconciler implements the life of a Job as a client knows it: with the
\* phase derived from jobs.status and the Failed event, each of its steps
\* submits, starts, finishes or archives one Job or changes nothing a client
\* sees, no phase is skipped backwards, none succeeds without having run, and
\* every Job is archived in the end.
Implements == Lifecycle!Spec

=============================================================================
