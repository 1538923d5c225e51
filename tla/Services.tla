------------------------------- MODULE Services -------------------------------
(***************************************************************************)
(* The services beside the reconciler: the life of the process, the        *)
(* delivery of a container's environment, the logs of a pod, worker        *)
(* metrics, and plans and costs.  They share no state with each other (the *)
(* rows they read are the reconciler's), so each runs by itself: `kind`    *)
(* says which one does, the others stay at an initial state.               *)
(***************************************************************************)
EXTENDS Integers, Sequences

CONSTANTS
    None,
    Configs, Columns, MaxStarts, MaxFailures, MaxPasses,    \* Process
    Containers, InitSecrets, Patches, MaxAttempts,          \* Delivery
    ContainerLogs, Requests,                                \* Logs
    Jobs, Addresses,                                        \* Metrics
    Catalogs, PriceLists, ExchangeRates, Specs,             \* Costing
    MaxHours, MaxSyncs,
    MaxChanges                                              \* Process, Delivery

ASSUME BoundsAssumption ==
    /\ MaxStarts \in Nat \ {0} /\ MaxFailures \in Nat /\ MaxPasses \in Nat
    /\ MaxChanges \in Nat /\ MaxAttempts \in Nat /\ MaxHours \in Nat /\ MaxSyncs \in Nat

\* The columns added since the first release are a list.
ASSUME ColumnsAssumption == Len(Columns) \in Nat

\* No job, no address, no number and no set of charges is "none".
ASSUME NoneAssumption ==
    /\ None \notin Jobs /\ None \notin Addresses
    /\ None \notin Int
    /\ \A kinds \in SUBSET {"server", "disk", "ipv4", "volume"} : None \notin [kinds -> Nat]

\* A plan's name is the key of the catalog; "UpCloud has no fractional-core or
\* sub-GB-memory plans" (workload.rs:205).
ASSUME CatalogAssumption ==
    \A catalog \in Catalogs :
        /\ \A p \in catalog : /\ p # None
                              /\ p.name \in Nat \ {0} /\ p.cpu \in Nat /\ p.storage \in Nat
                              /\ p.memory \in Nat /\ p.memory % 1024 = 0
        /\ \A p, q \in catalog : p.name = q.name => p = q

\* No price is negative.
ASSUME PriceAssumption == \A list \in PriceLists : \A key \in DOMAIN list : list[key] \in Nat

\* Nor is an exchange rate.
ASSUME RateAssumption == ExchangeRates \subseteq Nat

\* Quantities and deadlines are numbers, if they are there.
ASSUME SpecAssumption ==
    \A spec \in Specs :
        /\ spec.cpu \in Int \union {None} /\ spec.memory \in Int \union {None}
        /\ spec.deadline \in Int \union {None} /\ spec.hasDeadline \in BOOLEAN
        /\ \/ spec.volumes = << >>
           \/ /\ Head(spec.volumes) # None
              /\ Head(spec.volumes).size \in Int \union {None}

\* A container's env is a list.
ASSUME ContainerAssumption ==
    \A c \in Containers : Len(c.env) \in Nat /\ DOMAIN c.env = 1 .. Len(c.env)

VARIABLES
    kind,
    config, columns, caches, change, main, signals, shutdown, loop, part, permit, health, starts,
    passes, changes, failed, cutOff, cause,
    container, secrets, patching, delivery, files, worker, edits, attempts, rewritten,
    log, row, request, pc, found, arrived, written, aged, ended, out, forced,
    jobs, machines, worker_metrics, poll, tasks,
    plans, prices, rate, job, vm, syncs

process == <<config, columns, caches, change, main, signals, shutdown, loop, part, permit, health,
             starts, passes, changes, failed, cutOff, cause>>
environment == <<container, secrets, patching, delivery, files, worker, edits, attempts, rewritten>>
logs == <<log, row, request, pc, found, arrived, written, aged, ended, out, forced>>
metrics == <<jobs, machines, worker_metrics, poll, tasks>>
costing == <<plans, prices, rate, job, vm, syncs>>
vars == <<kind, process, environment, logs, metrics, costing>>

-----------------------------------------------------------------------------

Proc == INSTANCE Process
Env == INSTANCE Delivery WITH job <- delivery, changes <- edits
Log == INSTANCE Logs WITH job <- row, row <- found
Met == INSTANCE Metrics
Cost == INSTANCE Costing

\* One initial state is enough for a service that does not run.
The(S) == CHOOSE x \in S : TRUE

Init ==
    /\ kind \in {"process", "environment", "logs", "metrics", "costing"}
    /\ Proc!Init
    /\ kind # "process" => config = The(Configs) /\ columns = 0
    /\ Env!Init
    /\ kind # "environment" => container = The(Containers)
                              /\ secrets = The(InitSecrets[container])
    /\ Log!Init
    /\ kind # "logs" => log = The(ContainerLogs) /\ request = The(Requests)
    /\ Met!Init
    /\ Cost!Init

Next ==
    \/ kind = "process" /\ Proc!Next /\ UNCHANGED <<kind, environment, logs, metrics, costing>>
    \/ kind = "environment" /\ Env!Next /\ UNCHANGED <<kind, process, logs, metrics, costing>>
    \/ kind = "logs" /\ Log!Next /\ UNCHANGED <<kind, process, environment, metrics, costing>>
    \/ kind = "metrics" /\ Met!Next /\ UNCHANGED <<kind, process, environment, logs, costing>>
    \/ kind = "costing" /\ Cost!Next /\ UNCHANGED <<kind, process, environment, logs, metrics>>

\* Fairness of Process and of Metrics, asked of them only when they run: the steps of
\* a component that stays at its initial state are not owed.
Fairness ==
    /\ WF_process(kind = "process" /\ Proc!Main)
    /\ WF_process(kind = "process" /\ Proc!tick_goes_stale)
    /\ \A l \in Proc!Loops : WF_process(kind = "process" /\ Proc!stop_loop(l))
    /\ WF_process(kind = "process" /\ (Proc!wake_tick(FALSE) \/ Proc!wake_tick(TRUE)))
    /\ WF_process(kind = "process" /\ Proc!pass_returns("tick"))
    /\ WF_metrics(kind = "metrics" /\ Met!PollStep)

Spec == Init /\ [][Next]_vars /\ Fairness

-----------------------------------------------------------------------------
(***************************************************************************)
(* The components' properties, under the names of their modules.           *)
(***************************************************************************)

\* Every component's state has its type: columns and phases of the process, files and
\* attempts of a delivery, lines of a log, samples and tasks of a poll, plans and costs.
TypeOK ==
    CASE kind = "process" -> Proc!TypeOK
      [] kind = "environment" -> Env!TypeOK
      [] kind = "logs" -> Log!TypeOK
      [] kind = "metrics" -> Met!TypeOK
      [] kind = "costing" -> Cost!TypeOK

\* main, reconcile::run: only a timeout, a second signal or a tick's panic cuts off a pass.
SafeExit == kind = "process" => Proc!SafeExit

\* main, shutdown: a process asked to shut down exits.
ShutdownCompletes == Proc!ShutdownCompletes

\* has_cached_pricing: no request before the three caches are filled, or tried in vain.
PricedBeforeServing == kind = "process" => Proc!PricedBeforeServing

\* run_with_interval, Notify, TickHealth: a change reaches a tick, or /readyz tells.
ChangesSeen == Proc!ChangesSeen

\* container_env, cloud_init: a container that runs has every variable required.
StartsComplete == kind = "environment" => Env!StartsComplete

\* handle_container_configuring: all files come from one reading of the Secrets.
OneReading == kind = "environment" => Env!OneReading

\* run_options, the worker's script: runAsNonRoot is never root.
NonRootHonoured == kind = "environment" => Env!NonRootHonoured

\* logs, log_filter: every unbroken path gives the same log.
OneLog == kind = "logs" => Log!OneLog

\* metrics_collector, api::metrics: samples served are of the job's own worker.
ServedIsOwn == kind = "metrics" => Met!ServedIsOwn

\* forget_stale_samples: samples of jobs that are over are forgotten.
SamplesForgotten == Met!SamplesForgotten

\* workload, pricing: the plan chosen in SQL is the cheapest as charged in Rust.
CheapestCharged == kind = "costing" => Cost!CheapestCharged

\* pricing: the estimate bounds the actual cost of a run within its deadline.
EstimateBounds == kind = "costing" => Cost!EstimateBounds

\* cost_report: a run with a cost stays in the report, but for missing rates.
StaysInReport == kind = "costing" => Cost!StaysInReport

===============================================================================
