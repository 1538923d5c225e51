------------------------------- MODULE Metrics -------------------------------
(***************************************************************************)
(* Worker metrics: the poll that measures every reachable worker over SSH  *)
(* (reconcile::metrics_collector), table worker_metrics, and the views     *)
(* served from it (api::metrics, api::nodes, metrics_export).              *)
(*                                                                         *)
(* The poll's rounds interleave with the life of the jobs: a worker may be *)
(* gone, and its address another worker's, by the time an answer is        *)
(* written.  Of a sample the model keeps whose machine it was measured on, *)
(* whether a container ran there, and whether /proc could be read.         *)
(***************************************************************************)
EXTENDS JobStates

CONSTANTS
    Jobs,
    Addresses,   \* the provider hands out an address again once it is free
    None

VARIABLES
    jobs,            \* table jobs: status and worker_ssh_ip
    machines,        \* the cloud: whose worker answers at an address
    worker_metrics,  \* table worker_metrics, one row per job at most
    poll,            \* the poll: where it is, the rows found stale
    tasks            \* its tasks, one per job: waiting for SSH, or with a sample

vars == <<jobs, machines, worker_metrics, poll, tasks>>

Samples == [of : Jobs, container : BOOLEAN, vm : BOOLEAN]
NoTask == [at |-> "none", ip |-> None, sample |-> None]

\* The states in which jobs differ for this module.
Seen == {"VMPending", "VMRunning", "ContainerRunning", "Succeeded", "Archived"}

TypeOK ==
    /\ jobs \in [Jobs -> [status : Seen \union {"deleted"}, ip : Addresses \union {None}]]
    /\ machines \in [Addresses -> Jobs \union {None}]
    /\ worker_metrics \in [Jobs -> Samples \union {None}]
    /\ poll \in [pc : {"idle", "forgetting", "polling"}, stale : SUBSET Jobs]
    /\ tasks \in [Jobs -> [at : {"none", "ssh", "upsert"}, ip : Addresses \union {None},
                           sample : Samples \union {None}]]

Init ==
    /\ jobs = [j \in Jobs |-> [status |-> "VMPending", ip |-> None]]
    /\ machines = [a \in Addresses |-> None]
    /\ worker_metrics = [j \in Jobs |-> None]
    /\ poll = [pc |-> "idle", stale |-> {}]
    /\ tasks = [j \in Jobs |-> NoTask]

-----------------------------------------------------------------------------
(***************************************************************************)
(* The jobs, as far as the poll can tell.                                  *)
(***************************************************************************)

HasRow(j) == jobs[j].status # "deleted"
OnlyJobs == UNCHANGED <<worker_metrics, poll, tasks>>

\* A worker is up and its address recorded (handle_vm_creating).
worker_up(j, a) ==
    /\ jobs[j].status = "VMPending" /\ machines[a] = None
    /\ jobs' = [jobs EXCEPT ![j] = [status |-> "VMRunning", ip |-> a]]
    /\ machines' = [machines EXCEPT ![a] = j]
    /\ OnlyJobs

container_starts(j) ==
    /\ jobs[j].status = "VMRunning"
    /\ jobs' = [jobs EXCEPT ![j].status = "ContainerRunning"]
    /\ UNCHANGED machines
    /\ OnlyJobs

\* Done, or failed: the address stays in the row.
job_completes(j) ==
    /\ jobs[j].status \in {"VMPending", "VMRunning", "ContainerRunning"}
    /\ jobs' = [jobs EXCEPT ![j].status = "Succeeded"]
    /\ UNCHANGED machines
    /\ OnlyJobs

\* handle_vm_terminating: the address is free again.
worker_deleted(j) ==
    /\ jobs[j].status = "Succeeded"
    /\ jobs' = [jobs EXCEPT ![j].status = "Archived"]
    /\ machines' = [a \in Addresses |-> IF machines[a] = j THEN None ELSE machines[a]]
    /\ OnlyJobs

delete_row(j) ==
    /\ jobs[j].status \in {"Succeeded", "Archived"}
    /\ jobs' = [jobs EXCEPT ![j].status = "deleted"]
    /\ UNCHANGED machines
    /\ OnlyJobs

-----------------------------------------------------------------------------
(***************************************************************************)
(* The poll.                                                               *)
(***************************************************************************)

Current(j) == HasRow(j) /\ is_pre_completion_state(jobs[j].status)

\* forget_stale_samples, its SELECT: samples of jobs that are over or gone.
find_stale ==
    /\ poll.pc = "idle"
    /\ poll' = [pc |-> "forgetting",
                stale |-> {j \in Jobs : worker_metrics[j] # None /\ ~Current(j)}]
    /\ UNCHANGED <<jobs, machines, worker_metrics, tasks>>

\* ... and one DELETE per row.
forget_stale(j) ==
    /\ poll.pc = "forgetting" /\ j \in poll.stale
    /\ poll' = [poll EXCEPT !.stale = @ \ {j}]
    /\ worker_metrics' = [worker_metrics EXCEPT ![j] = None]
    /\ UNCHANGED <<jobs, machines, tasks>>

\* poll_once: every job with an address that is not over gets a task.
spawn_tasks ==
    /\ poll.pc = "forgetting" /\ poll.stale = {}
    /\ poll' = [poll EXCEPT !.pc = "polling"]
    /\ tasks' = [j \in Jobs |-> IF Current(j) /\ jobs[j].ip # None
                                THEN [NoTask EXCEPT !.at = "ssh", !.ip = jobs[j].ip] ELSE NoTask]
    /\ UNCHANGED <<jobs, machines, worker_metrics>>

\* The command prints six sections, and exec_once says Ok of what came before the
\* channel closed.  vmstat and meminfo, the last two, count only if every field is
\* there: "a half-filled reading would look like a real zero".
parse_vm_stats(sections) == sections = 6

\* podman stats has a line for the container, or none: no container is a valid reading.
parse_podman_stats(owner) == jobs[owner].status = "ContainerRunning"

\* Without the first four (podman stats, free, nproc, loadavg) there is no reading.
parse_sample(owner, sections) ==
    IF sections < 4 THEN None
    ELSE [of |-> owner, container |-> parse_podman_stats(owner),
          vm |-> parse_vm_stats(sections)]

\* Whoever is at the address answers: check_server_key accepts any key.
exec_once(ip) == machines[ip]

ssh_answers(j, sections) ==
    /\ tasks[j].at = "ssh" /\ exec_once(tasks[j].ip) # None
    /\ LET sample == parse_sample(exec_once(tasks[j].ip), sections)
       IN  /\ sample # None
           /\ tasks' = [tasks EXCEPT ![j].at = "upsert", ![j].sample = sample]
    /\ UNCHANGED <<jobs, machines, worker_metrics, poll>>

\* Mutant of ssh_fails: only a connection error ends the wait.
ssh_fails_no_timeout(j) ==
    /\ tasks[j].at = "ssh" /\ machines[tasks[j].ip] = None
    /\ tasks' = [tasks EXCEPT ![j] = NoTask]
    /\ UNCHANGED <<jobs, machines, worker_metrics, poll>>

\* No answer, one that does not parse, or SSH_EXEC_TIMEOUT: the last sample stays.
ssh_fails(j) ==
    /\ tasks[j].at = "ssh"
    /\ tasks' = [tasks EXCEPT ![j] = NoTask]
    /\ UNCHANGED <<jobs, machines, worker_metrics, poll>>

\* The row is written whatever has become of the job.
upsert_sample(j) ==
    /\ tasks[j].at = "upsert"
    /\ worker_metrics' = [worker_metrics EXCEPT ![j] = tasks[j].sample]
    /\ tasks' = [tasks EXCEPT ![j] = NoTask]
    /\ UNCHANGED <<jobs, machines, poll>>

finish_poll ==
    /\ poll.pc = "polling" /\ \A j \in Jobs : tasks[j] = NoTask
    /\ poll' = [poll EXCEPT !.pc = "idle"]
    /\ UNCHANGED <<jobs, machines, worker_metrics, tasks>>

-----------------------------------------------------------------------------
(***************************************************************************)
(* What is served.                                                         *)
(***************************************************************************)

\* Mutant of real_worker_samples: whatever the table has.
all_worker_samples == {j \in Jobs : worker_metrics[j] # None /\ HasRow(j)}

\* The jobs whose samples metrics.k8s.io serves.
real_worker_samples == {j \in Jobs : worker_metrics[j] # None /\ Current(j)}

\* A node needs a machine only, a pod a container on it.
list_node_metrics == {worker_metrics[j].of : j \in real_worker_samples}
list_nodes == list_node_metrics
to_pod_metrics(j) == worker_metrics[j].container
list_pod_metrics == {j \in real_worker_samples : to_pod_metrics(j)}

\* /metrics: complete readings, of any job that has a row.
worker_vm_samples == {j \in Jobs : worker_metrics[j] # None /\ HasRow(j) /\ worker_metrics[j].vm}

-----------------------------------------------------------------------------

PollStep ==
    \/ find_stale \/ spawn_tasks \/ finish_poll
    \/ \E j \in Jobs : forget_stale(j) \/ ssh_fails(j) \/ upsert_sample(j)

Next ==
    \/ PollStep
    \/ \E j \in Jobs : \/ \E a \in Addresses : worker_up(j, a)
                       \/ container_starts(j) \/ job_completes(j) \/ worker_deleted(j)
                       \/ delete_row(j)
                       \/ \E sections \in 0 .. 6 : ssh_answers(j, sections)

Spec == Init /\ [][Next]_vars

\* The poll loop runs and its timeouts go off; no worker has to answer.
Fairness == WF_vars(PollStep)

-----------------------------------------------------------------------------
(***************************************************************************)
(* Properties.                                                             *)
(***************************************************************************)

\* "must never serve a stale reading for a job whose worker VM may already be gone"
\* (metrics_collector.rs:398): what kubectl top shows of a job was measured on its
\* own worker, which still exists, though answers are written late, addresses are
\* used again and any host key is accepted.
ServedIsOwn ==
    \A j \in real_worker_samples :
        worker_metrics[j].of = j /\ machines[jobs[j].ip] = j

\* worker_metrics does not keep a row for every job ever run: a sample of a job that
\* is over or gone is forgotten, also one written after the job was over, and also
\* while a worker hangs.
SamplesForgotten ==
    \A j \in Jobs : worker_metrics[j] # None /\ ~Current(j) ~> worker_metrics[j] = None

=============================================================================
