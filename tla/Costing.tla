------------------------------- MODULE Costing -------------------------------
(***************************************************************************)
(* What a job's machine is and what it costs (workload, pricing,           *)
(* reconcile::pricing, admission, api::cost_report): the cached plan       *)
(* catalog, price list and exchange rates, which the daily sync replaces   *)
(* and updates in separate transactions; the choice of the cheapest plan that fits, made  *)
(* in SQL at admission and made again when the VM is created; the charges, *)
(* worked out in Rust for the estimate, for the actual cost and for the    *)
(* cost report, each with the prices and rates cached at that moment.      *)
(*                                                                         *)
(* One job.  Prices are whole units per hour (and per GB for storage), for *)
(* an amount of 1, in the provider's currency, which is not main_currency; *)
(* a change of main_currency is in Budget.  A plan's name is a number,     *)
(* which also stands for its place in the alphabet.  A quantity is a       *)
(* number of tenths of a millicore, or of KiB; a negative one stands for   *)
(* everything the parsers reject.                                          *)
(***************************************************************************)
EXTENDS Integers, Sequences

CONSTANTS
    Catalogs,    \* what GET /plan may answer
    PriceLists,  \* what GET /price may answer for the zone
    ExchangeRates, \* what the ECB's feed may make of the provider's currency
    Specs,       \* the jobs to look at
    None,
    MaxHours,    \* bound on the duration of a run
    MaxSyncs     \* bound on syncs that change something

VARIABLES
    plans,       \* table provider_plans
    prices,      \* table provider_pricing, by price_key
    rate,        \* table exchange_rates: a provider's unit in main_currency, None if not cached
    job,         \* the row of table jobs
    vm,          \* the plan of the worker VM at the provider, None without one
    syncs

vars == <<plans, prices, rate, job, vm, syncs>>

\* price_keys other than server_plan_<name>.
Ipv4 == 0
Storage == [standard |-> -1, fast |-> -2]

\* StorageTier::parse: no class is the standard one, and others are unknown.
StorageTier(class) ==
    IF class = None THEN "standard" ELSE IF class \in DOMAIN Storage THEN class ELSE None

\* since: whether a sync changed something since the row was created; hours: the
\* time from there to completion.
NoJob == [status |-> "none", spec |-> None, estimate |-> None, plan |-> None,
          cost |-> None, hours |-> 0, since |-> FALSE]

TypeOK ==
    /\ \A p \in plans : p \in UNION Catalogs
    /\ DOMAIN prices \subseteq UNION {DOMAIN l : l \in PriceLists}
    /\ rate \in ExchangeRates \union {None}
    /\ job.status \in {"none", "refused", "panicked", "VMPending", "VMCreating", "Succeeded"}
    /\ job.estimate \in Nat \union {None} /\ job.cost \in Nat \union {None}
    /\ vm = None \/ \E c \in Catalogs : \E p \in c : p.name = vm
    /\ syncs \in 0 .. MaxSyncs

Init ==
    /\ plans = {} /\ prices = << >> /\ rate = None
    /\ job = NoJob /\ vm = None /\ syncs = 0

-----------------------------------------------------------------------------
(***************************************************************************)
(* The plan.                                                               *)
(***************************************************************************)

WORKER_BOOT_DISK_GB == 10
plan_bundles_disk_and_ip(storage) == storage >= WORKER_BOOT_DISK_GB

\* PlanFilter: no GPU, still sold, not of a denied family.
is_eligible(p) == ~p.gpu /\ p.current /\ p.allowed

cached_price(key) == IF key \in DOMAIN prices THEN prices[key] ELSE None
Coalesce(price) == IF price = None THEN 0 ELSE price

div_ceil(n, d) == (n + d - 1) \div d

\* To the nearest millicore, to the nearest MB, and up to whole GB.
IsQuantity(q) == q # None /\ q >= 0
parse_cpu_millicores(q) == IF IsQuantity(q) THEN (q + 5) \div 10 ELSE None
parse_storage_quantity_mb(q) == IF IsQuantity(q) THEN (q + 512) \div 1024 ELSE None
parse_storage_quantity_gb(q) == IF IsQuantity(q) THEN div_ceil(q, 1024 * 1024) ELSE None

\* A request that does not parse is no request.
extract_resource_requests(spec) ==
    [cpu |-> parse_cpu_millicores(spec.cpu), memory |-> parse_storage_quantity_mb(spec.memory)]

whole_units_for_requests(spec) ==
    LET asked == extract_resource_requests(spec)
    IN  [cpu |-> div_ceil(IF asked.cpu = None THEN 1000 ELSE asked.cpu, 1000),
         memory |-> div_ceil(IF asked.memory = None THEN 1024 ELSE asked.memory, 1024)]

\* The first ephemeral volume is the job's; another one is ignored.
find_ephemeral_volume(spec) == IF spec.volumes = << >> THEN None ELSE Head(spec.volumes)

\* Mutant of Rank: the plan's own price alone.
Rank_bare(p) ==
    LET price == cached_price(p.name)
    IN  <<IF price = None THEN 1 ELSE 0, Coalesce(price), p.cpu, p.memory, p.name>>

\* ORDER BY: unpriced plans last, then the price with what the plan does not
\* bundle, then the size.
Rank(p) ==
    LET price == cached_price(p.name)
        extras == IF p.storage < WORKER_BOOT_DISK_GB
                  THEN Coalesce(cached_price(Storage.standard)) * WORKER_BOOT_DISK_GB
                       + Coalesce(cached_price(Ipv4))
                  ELSE 0
    IN  <<IF price = None THEN 1 ELSE 0, IF price = None THEN 0 ELSE price + extras,
          p.cpu, p.memory, p.name>>

Before(p, q) ==
    \E n \in 1 .. 5 : /\ Rank(p)[n] < Rank(q)[n]
                      /\ \A m \in 1 .. (n - 1) : Rank(p)[m] = Rank(q)[m]

cheapest_fitting_server_plan(units) ==
    LET fitting == {p \in plans : p.cpu >= units.cpu /\ p.memory >= units.memory * 1024}
    IN  IF fitting = {} THEN None
        ELSE CHOOSE p \in fitting : \A q \in fitting \ {p} : Before(p, q)

plan_for_resource_requests(spec) ==
    cheapest_fitting_server_plan(whole_units_for_requests(spec))

-----------------------------------------------------------------------------
(***************************************************************************)
(* The charges, by what they are for.                                      *)
(***************************************************************************)

\* Which price a charge is at and how many units of it.  volume is None or has a size.
PriceKey(kind, name, volume) ==
    CASE kind = "server" -> name
      [] kind = "disk" -> Storage.standard
      [] kind = "ipv4" -> Ipv4
      [] kind = "volume" -> Storage[StorageTier(volume.class)]
Units(kind, volume) ==
    CASE kind = "disk" -> WORKER_BOOT_DISK_GB
      [] kind = "volume" -> parse_storage_quantity_gb(volume.size)
      [] OTHER -> 1

\* The charges of a plan.  One whose price is not cached is left out.
Charged(name, storage, volume) ==
    LET due == {"server"}
               \union (IF plan_bundles_disk_and_ip(storage) THEN {} ELSE {"disk", "ipv4"})
               \union (IF volume = None THEN {} ELSE {"volume"})
    IN  {kind \in due : cached_price(PriceKey(kind, name, volume)) # None}

\* None: no plan fits, or its price is not cached.  A recorded plan that has left
\* the catalog counts as one that bundles its disk.
charge_breakdown_for_duration(spec, recorded, hours) ==
    LET chosen == plan_for_resource_requests(spec)
        name == IF recorded # None THEN recorded ELSE IF chosen # None THEN chosen.name ELSE None
        known == {p \in plans : p.name = name}
        storage == IF known = {} THEN WORKER_BOOT_DISK_GB ELSE (CHOOSE p \in known : TRUE).storage
        first == find_ephemeral_volume(spec)
        volume == IF first = None THEN None ELSE IF IsQuantity(first.size) THEN first ELSE None
    IN  IF name = None \/ cached_price(name) = None THEN None
        ELSE [kind \in Charged(name, storage, volume) |->
                 cached_price(PriceKey(kind, name, volume)) * Units(kind, volume) * hours]

\* Mutant of estimate_job_charges: without the max(0).
estimate_job_charges_signed(spec) == charge_breakdown_for_duration(spec, None, spec.deadline)

\* max(0): a negative deadline costs nothing.
estimate_job_charges(spec) ==
    charge_breakdown_for_duration(spec, None, IF spec.deadline < 0 THEN 0 ELSE spec.deadline)
actual_job_charges(spec, plan, hours) == charge_breakdown_for_duration(spec, plan, hours)

\* currency::convert: unknown without the rate.
convert(amount) == IF amount = None \/ rate = None THEN None ELSE amount * rate

\* Mutant of estimate_job_cost: the machine alone.
estimate_job_cost_vm(spec) ==
    LET charges == estimate_job_charges(spec)
    IN  IF charges = None THEN None ELSE convert(charges.server)

Total(charges) ==
    LET of(kind) == IF kind \in DOMAIN charges THEN charges[kind] ELSE 0
    IN  IF charges = None THEN None ELSE of("server") + of("disk") + of("ipv4") + of("volume")

estimate_job_cost(spec) == convert(Total(estimate_job_charges(spec)))
calculate_actual_cost(spec, plan, hours) ==
    convert(Total(actual_job_charges(spec, plan, hours)))

-----------------------------------------------------------------------------
(***************************************************************************)
(* The daily sync.                                                         *)
(***************************************************************************)

Synced == syncs < MaxSyncs /\ syncs' = syncs + 1
SinceAdmission == job' = [job EXCEPT !.since = job.status # "none"]

\* The eligible part replaces the table, in one transaction.
store_plans(catalog) == {p \in catalog : is_eligible(p)}

\* An empty answer is an error.
sync_plans(catalog) ==
    /\ Synced
    /\ catalog # {}
    /\ plans' = store_plans(catalog)
    /\ SinceAdmission
    /\ UNCHANGED <<prices, rate, vm>>

\* Mutant of sync_pricing: the answer replaces the table.
sync_pricing_replaces(list) ==
    /\ Synced
    /\ prices' = list
    /\ SinceAdmission
    /\ UNCHANGED <<plans, rate, vm>>

\* INSERT ... ON CONFLICT DO UPDATE: prices no longer listed stay.
sync_pricing(list) ==
    /\ Synced
    /\ prices' = [k \in DOMAIN list \union DOMAIN prices |->
                     IF k \in DOMAIN list THEN list[k] ELSE prices[k]]
    /\ SinceAdmission
    /\ UNCHANGED <<plans, rate, vm>>

\* The rates of the day replace the table; a currency that is not among them is gone.
sync_exchange_rates(r) ==
    /\ Synced
    /\ rate' = r
    /\ SinceAdmission
    /\ UNCHANGED <<plans, prices, vm>>

-----------------------------------------------------------------------------
(***************************************************************************)
(* The job.                                                                *)
(***************************************************************************)

\* The key has to be there; nothing looks at its value.
require_active_deadline_seconds(spec) == spec.hasDeadline
active_deadline_seconds(spec) == IF spec.hasDeadline THEN spec.deadline ELSE None

validate_ephemeral_volume_storage_classes(spec) ==
    \A i \in DOMAIN spec.volumes : StorageTier(spec.volumes[i].class) # None

\* Limits are checked, requests are not.
validate_resource_limits(spec) ==
    \A limit \in spec.limits : IsQuantity(limit)

\* Anything goes while no plan is cached.
validate_plan_fits(spec) == plans = {} \/ plan_for_resource_requests(spec) # None

Admitted(spec) ==
    /\ require_active_deadline_seconds(spec)
    /\ validate_ephemeral_volume_storage_classes(spec)
    /\ validate_resource_limits(spec)
    /\ validate_plan_fits(spec)

\* The handler unwraps the deadline: one that is not an integer makes it panic.
create_job(spec) ==
    /\ job.status = "none"
    /\ job' = IF ~Admitted(spec) THEN [NoJob EXCEPT !.status = "refused", !.spec = spec]
              ELSE IF active_deadline_seconds(spec) = None
              THEN [NoJob EXCEPT !.status = "panicked", !.spec = spec]
              ELSE [NoJob EXCEPT !.status = "VMPending", !.spec = spec,
                                 !.estimate = estimate_job_cost(spec)]
    /\ UNCHANGED <<plans, prices, rate, vm, syncs>>

\* handle_vm_pending: a VM with the job's title is taken over, otherwise one of the
\* cheapest plan is created; the plan of the moment is recorded with it, unless the
\* process dies first.
handle_vm_pending(crashes) ==
    /\ job.status = "VMPending"
    /\ plan_for_resource_requests(job.spec) # None
    /\ LET plan == plan_for_resource_requests(job.spec).name
       IN  /\ vm' = IF vm = None THEN plan ELSE vm
           /\ job' = IF crashes THEN job ELSE [job EXCEPT !.status = "VMCreating", !.plan = plan]
    /\ UNCHANGED <<plans, prices, rate, syncs>>

\* handle_container_running: the cost at today's prices.  The deadline was checked at
\* the start of the pass; how long the run was is looked at when its exit code is read.
handle_container_running(hours) ==
    /\ job.status = "VMCreating"
    /\ job' = [job EXCEPT !.status = "Succeeded", !.hours = hours,
                          !.cost = calculate_actual_cost(job.spec, job.plan, hours)]
    /\ UNCHANGED <<plans, prices, rate, vm, syncs>>

\* One FOCUS row per charge: what it came to over which period, billed and in
\* main_currency.
charge_row(charge) == [billed |-> charge, converted |-> convert(charge), hours |-> job.hours]

\* The rows of a run whose actual cost is known, at the prices cached now; a run
\* without charges is passed over, and so is a charge that cannot be converted.
get_cost_report ==
    LET charges == actual_job_charges(job.spec, job.plan, job.hours)
    IN  IF job.status # "Succeeded" \/ job.cost = None \/ charges = None
        THEN [kind \in {} |-> None]
        ELSE [kind \in {k \in DOMAIN charges : convert(charges[k]) # None} |->
                 charge_row(charges[kind])]

Next ==
    \/ \E catalog \in Catalogs : sync_plans(catalog)
    \/ \E list \in PriceLists : sync_pricing(list)
    \/ \E r \in ExchangeRates \union {None} : sync_exchange_rates(r)
    \/ \E spec \in Specs : create_job(spec)
    \/ \E crashes \in BOOLEAN : handle_vm_pending(crashes)
    \/ \E hours \in 0 .. MaxHours : handle_container_running(hours)

Spec == Init /\ [][Next]_vars

-----------------------------------------------------------------------------
(***************************************************************************)
(* Properties.                                                             *)
(***************************************************************************)

\* "The cheapest cached plan ... that meets or exceeds both requested amounts": the
\* plan that the ORDER BY of cheapest_fitting_server_plan puts first is big enough
\* for what was asked for, to half a millicore and half a MB, and no other plan that
\* is makes the job cheaper by charge_breakdown_for_duration, the separate code that
\* charges it, whatever plans and prices are cached and whichever are missing.
CheapestCharged ==
    \A spec \in {s \in Specs : Admitted(s)} :
        LET plan == plan_for_resource_requests(spec)
            Enough(p) == /\ IF IsQuantity(spec.cpu) THEN p.cpu * 10000 + 5 > spec.cpu
                            ELSE p.cpu >= 1
                         /\ IF IsQuantity(spec.memory) THEN p.memory * 1024 + 512 > spec.memory
                            ELSE p.memory >= 1024
            PerHour(p) == Total(actual_job_charges(spec, p.name, 1))
        IN  IF plan = None THEN \A p \in plans : ~Enough(p)
            ELSE /\ Enough(plan)
                 /\ \A p \in plans : Enough(p) /\ PerHour(p) # None =>
                       PerHour(plan) # None /\ PerHour(plan) <= PerHour(p)

\* "A true upper bound, not a hopeful guess" (pricing/mod.rs:218): a run that is over
\* by its deadline costs no more than was estimated when it was admitted, also when a
\* crash made the VM be taken over, unless a sync changed plans, prices or rates
\* meanwhile.  A run found finished after its deadline, within the pass that had just
\* checked it, costs what it costs.
EstimateBounds ==
    job.cost # None /\ ~job.since /\ job.hours <= job.spec.deadline =>
        job.estimate # None /\ job.cost <= job.estimate

\* A run with an actual cost is in the cost report whenever its currency has a rate, with
\* the charge for its worker at least: its plan's price stays cached through every sync,
\* also after the plan has left the catalog.  (Rates do not stay: see get_cost_report.)
StaysInReport ==
    job.status = "Succeeded" /\ job.cost # None /\ rate # None =>
        "server" \in DOMAIN get_cost_report

=============================================================================
