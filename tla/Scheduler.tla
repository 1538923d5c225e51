------------------------------ MODULE Scheduler ------------------------------
(***************************************************************************)
(* CronJobs: the API that creates, replaces, patches and deletes them      *)
(* (api::cronjob), and the first half of every tick, schedule_due_jobs,    *)
(* which turns their schedules into runs (reconcile::schedule).            *)
(*                                                                         *)
(* A pass SELECTs all CronJobs once and reads the clock once; then, row by *)
(* row, it asks the jobs table when the CronJob last ran and whether a run *)
(* is still active, and INSERTs the run.  Between these queries the API    *)
(* may change or delete the CronJob or its runs, so a pass decides on a    *)
(* copy of the row that may be stale.                                      *)
(*                                                                         *)
(* A schedule is the set of instants it fires at; the expression is read   *)
(* by the cron crate.  What becomes of a run is Reconciler's: here it is   *)
(* active or over.  The budget may or may not cover a run; Budget says     *)
(* when.                                                                   *)
(***************************************************************************)
EXTENDS Integers, FiniteSetsExt

CONSTANTS
    CronJobs,    \* row ids of table cronjobs; every id is used once (a UUID)
    CronNames,   \* "namespace/name"
    Clients,     \* API requests in flight
    Schedules,   \* what spec.schedule may be
    Fires,       \* the instants each schedule fires at
    Deadlines,   \* values of startingDeadlineSeconds
    Unset,       \* an absent or null field; no row, no time
    SpecsSent,   \* specs POSTed and PUT: SpecSent
    PatchesSent, \* merge patches sent: PatchSent
    MaxTime,     \* bound on the clock
    MaxRequests, \* bound on requests that write table cronjobs
    MaxRunDeletes, \* bound on DELETE of a CronJob's runs
    MaxMishaps   \* bound on failed passes and budget shortages

ASSUME ScheduleAssumption ==
    /\ Fires \in [Schedules -> SUBSET Nat]
    /\ Deadlines \subseteq Nat
    /\ Unset \notin Schedules \union Nat
    /\ Unset \notin BOOLEAN
ASSUME SchedulerBounds ==
    MaxTime \in Nat /\ MaxRequests \in Nat /\ MaxRunDeletes \in Nat /\ MaxMishaps \in Nat

VARIABLES
    now,         \* Utc::now(), in whole seconds; see is_due
    cronjobs,    \* table cronjobs
    runs,        \* rows of table jobs with a cronjob_name
    pass,        \* the scheduling pass in flight
    asked,       \* API requests in flight
    affordable,  \* whether the budget covers a run now
    requests,
    runDeletes,
    mishaps,     \* failed passes and budget shortages so far
    \* History: when each CronJob last had a run created, and which CronJobs
    \* were created, changed or deleted since the pass's SELECT; whether any
    \* CronJob was deleted.
    lastRun,
    touched,
    deleted

counters == <<requests, runDeletes, mishaps>>
history == <<lastRun, touched, deleted>>
vars == <<now, cronjobs, runs, pass, asked, affordable, counters, history>>

-----------------------------------------------------------------------------
(***************************************************************************)
(* Types and the initial state.                                            *)
(***************************************************************************)

Policies == {"Allow", "Forbid"}

\* The fields of CronJobSpec that scheduling looks at, as stored.
CronSpec == [schedule : Schedules, suspend : BOOLEAN,
             concurrencyPolicy : Policies,
             startingDeadlineSeconds : Deadlines \union {Unset}]

\* ... and as sent.  A merge patch has any subset of the fields, null to remove one.
Field == [schedule |-> Schedules, suspend |-> BOOLEAN,
          concurrencyPolicy |-> Policies, startingDeadlineSeconds |-> Deadlines]
Sent(p, fields) ==
    /\ p = [f \in fields |-> p[f]]
    /\ \A f \in fields : p[f] \in Field[f] \union {Unset}
SpecSent(p) == Sent(p, DOMAIN Field)
PatchSent(p) == Sent(p, DOMAIN p) /\ DOMAIN p \subseteq DOMAIN Field

ASSUME SentAssumption ==
    (\A p \in SpecsSent : SpecSent(p)) /\ (\A p \in PatchesSent : PatchSent(p))

CronRow == [name : CronNames, spec : CronSpec, created : Nat]
RunRow == [name : CronNames, at : Nat, active : BOOLEAN, policy : Policies]

\* No row looks like a missing one.
ASSUME RowAssumption == Unset \notin CronRow

IdlePass == [pc |-> "idle", at |-> 0, rows |-> {}, id |-> Unset]
IdleRequest == [pc |-> "idle", name |-> Unset, spec |-> Unset]

TypeOK ==
    /\ now \in 0 .. MaxTime
    /\ cronjobs \in [CronJobs -> CronRow \union {Unset}]
    /\ runs \subseteq RunRow
    /\ pass.pc \in {"idle", "next", "active", "create"}
    /\ \A p \in pass.rows : p.id \in CronJobs /\ p.row \in CronRow
    /\ pass.pc \in {"active", "create"} => \E p \in pass.rows : p.id = pass.id
    /\ \A q \in Clients :
          /\ asked[q].pc \in {"idle", "insert", "update"}
          /\ asked[q].pc # "idle" => asked[q].name \in CronNames /\ asked[q].spec \in CronSpec
    /\ affordable \in BOOLEAN
    /\ requests \in 0 .. MaxRequests /\ runDeletes \in 0 .. MaxRunDeletes
    /\ mishaps \in 0 .. MaxMishaps
    /\ lastRun \in [CronJobs -> Nat \union {Unset}]
    /\ touched \subseteq CronJobs /\ deleted \in BOOLEAN

Init ==
    /\ now = 0
    /\ cronjobs = [c \in CronJobs |-> Unset]
    /\ runs = {}
    /\ pass = IdlePass
    /\ asked = [q \in Clients |-> IdleRequest]
    /\ affordable = TRUE
    /\ requests = 0 /\ runDeletes = 0 /\ mishaps = 0
    /\ lastRun = [c \in CronJobs |-> Unset]
    /\ touched = {} /\ deleted = FALSE

-----------------------------------------------------------------------------
(***************************************************************************)
(* The CronJob API.                                                        *)
(***************************************************************************)

Rows(name) == {c \in CronJobs : cronjobs[c] # Unset /\ cronjobs[c].name = name}
cronjob_exists(name) == Rows(name) # {}

\* Mutant of apply_cronjob_defaults: suspend has none.
apply_cronjob_defaults_suspend(spec) ==
    [spec EXCEPT !.concurrencyPolicy = IF @ = Unset THEN "Allow" ELSE @]

\* The field stays as it is unless it is unset and has a default.
apply_cronjob_defaults(spec) ==
    LET Or(f, default) == IF spec[f] = Unset THEN default ELSE spec[f]
    IN  [spec EXCEPT !.concurrencyPolicy = Or("concurrencyPolicy", "Allow"),
                     !.suspend = Or("suspend", FALSE)]

\* validate_cronjob_schedule and validate_cronjob_schedule_fields, the checks
\* of admit_cronjob that concern scheduling: a schedule is required.
admit_cronjob(spec) == spec.schedule # Unset

\* RFC 7386: the patch's fields replace the object's; a null removes one.
merge_patch(spec, patch) ==
    [f \in DOMAIN spec \union DOMAIN patch |-> IF f \in DOMAIN patch THEN patch[f] ELSE spec[f]]

\* POST: defaults, admission, existence check.  The INSERT is a query of its own.
create_cronjob(q, n, sent) ==
    LET spec == apply_cronjob_defaults(sent)
    IN  /\ asked[q].pc = "idle"
        /\ requests < MaxRequests
        /\ admit_cronjob(spec)
        /\ ~cronjob_exists(n)
        /\ requests' = requests + 1
        /\ asked' = [asked EXCEPT ![q] = [pc |-> "insert", name |-> n, spec |-> spec]]
        /\ UNCHANGED <<now, cronjobs, runs, pass, affordable, runDeletes, mishaps, history>>

\* PUT: defaults and admission; the row is looked for by the UPDATE itself.
replace_cronjob(q, n, sent) ==
    LET spec == apply_cronjob_defaults(sent)
    IN  /\ asked[q].pc = "idle"
        /\ requests < MaxRequests
        /\ admit_cronjob(spec)
        /\ requests' = requests + 1
        /\ asked' = [asked EXCEPT ![q] = [pc |-> "update", name |-> n, spec |-> spec]]
        /\ UNCHANGED <<now, cronjobs, runs, pass, affordable, runDeletes, mishaps, history>>

\* PATCH: load_cronjob, merge, then as PUT.  The UPDATE is unconditional.
patch_cronjob(q, n, patch) ==
    /\ asked[q].pc = "idle"
    /\ requests < MaxRequests
    /\ \E c \in Rows(n) :
          LET spec == apply_cronjob_defaults(merge_patch(cronjobs[c].spec, patch))
          IN  /\ admit_cronjob(spec)
              /\ asked' = [asked EXCEPT ![q] = [pc |-> "update", name |-> n, spec |-> spec]]
    /\ requests' = requests + 1
    /\ UNCHANGED <<now, cronjobs, runs, pass, affordable, runDeletes, mishaps, history>>

\* An id nobody knows of; the id of a CronJob deleted long ago will do.
Fresh == {c \in CronJobs : cronjobs[c] = Unset /\ \A p \in pass.rows : p.id # c}
NewId == CHOOSE c \in Fresh : TRUE

\* INSERT INTO cronjobs, under a fresh id.
insert_cronjob(q) ==
    /\ asked[q].pc = "insert"
    /\ Fresh # {}
    /\ cronjobs' = [cronjobs EXCEPT ![NewId] =
                      [name |-> asked[q].name, spec |-> asked[q].spec, created |-> now]]
    /\ lastRun' = [lastRun EXCEPT ![NewId] = Unset]
    /\ touched' = touched \union {NewId}
    /\ asked' = [asked EXCEPT ![q] = IdleRequest]
    /\ UNCHANGED <<now, runs, pass, affordable, counters, deleted>>

\* UPDATE cronjobs ... WHERE name = ?: id and created_at stay; 404 without a row.
update_cronjob(q) ==
    /\ asked[q].pc = "update"
    /\ LET hit == Rows(asked[q].name)
       IN  /\ cronjobs' = [c \in CronJobs |-> IF c \in hit
                             THEN [cronjobs[c] EXCEPT !.spec = asked[q].spec] ELSE cronjobs[c]]
           /\ touched' = touched \union hit
    /\ asked' = [asked EXCEPT ![q] = IdleRequest]
    /\ UNCHANGED <<now, runs, pass, affordable, counters, lastRun, deleted>>

\* DELETE FROM cronjobs: the runs stay, and go on.
delete_cronjob(n) ==
    /\ requests < MaxRequests
    /\ cronjob_exists(n)
    /\ requests' = requests + 1
    /\ cronjobs' = [c \in CronJobs |-> IF c \in Rows(n) THEN Unset ELSE cronjobs[c]]
    /\ touched' = touched \union Rows(n) /\ deleted' = TRUE
    /\ UNCHANGED <<now, runs, pass, asked, affordable, runDeletes, mishaps, lastRun>>

\* api::job::delete_job on a run: an active one is failed, one that is over
\* loses its row.
delete_run(r) ==
    /\ runDeletes < MaxRunDeletes
    /\ runDeletes' = runDeletes + 1
    /\ runs' = (runs \ {r}) \union (IF r.active THEN {[r EXCEPT !.active = FALSE]} ELSE {})
    /\ UNCHANGED <<now, cronjobs, pass, asked, affordable, requests, mishaps, history>>

-----------------------------------------------------------------------------
(***************************************************************************)
(* The scheduling pass.                                                    *)
(***************************************************************************)

\* Mutant of last_scheduled_time: runs that are over are not counted.
last_scheduled_time_active(row) ==
    LET times == {r.at : r \in {x \in runs : x.name = row.name /\ x.active}}
    IN  IF times = {} THEN row.created ELSE Max(times)

\* MAX(created_at) of the runs recorded under the name, or the CronJob's own
\* created_at.
last_scheduled_time(row) ==
    LET times == {r.at : r \in {x \in runs : x.name = row.name}}
    IN  IF times = {} THEN row.created ELSE Max(times)

\* Mutant of is_due: the window of a deadline starts a second too early.
is_due_early(schedule, last, t, deadline) ==
    LET window_start == IF deadline = Unset THEN last ELSE Max({last, t - (deadline + 2)})
    IN  \E i \in Fires[schedule] : window_start < i /\ i <= t

\* Some instant falls after the last run and no later than t; with a deadline
\* it is also at most that old (next_after is exclusive, hence the + 1).  Here
\* t is the whole seconds of Utc::now().  Its fraction f changes nothing:
\* instants and created_at are whole seconds, so i > t + f - (deadline + 1) and
\* i <= t + f hold of the same i for every 0 <= f < 1.  The age the code admits
\* is thus in whole seconds, and up to f more than the deadline.
is_due(schedule, last, t, deadline) ==
    LET window_start == IF deadline = Unset THEN last ELSE Max({last, t - (deadline + 1)})
    IN  \E i \in Fires[schedule] : window_start < i /\ i <= t

\* Mutant of has_active_run: counts a run as active only from the second on.
has_active_run_lax(name) == Cardinality({r \in runs : r.name = name /\ r.active}) > 1

\* Mutant of has_active_run: a run that is over counts as well.
has_active_run_ever(name) == \E r \in runs : r.name = name

has_active_run(name) == \E r \in runs : r.name = name /\ r.active

\* SELECT ... FROM cronjobs; `now` is read right after.
start_pass ==
    /\ pass.pc = "idle"
    /\ pass' = [pc |-> "next", at |-> now, id |-> Unset,
                rows |-> {[id |-> c, row |-> cronjobs[c]] :
                             c \in {x \in CronJobs : cronjobs[x] # Unset}}]
    /\ touched' = {}
    /\ UNCHANGED <<now, cronjobs, runs, asked, affordable, counters, lastRun, deleted>>

Without(p) == [pass EXCEPT !.pc = "next", !.id = Unset, !.rows = @ \ {p}]

\* The row is passed over, or looked at further: suspend, last_scheduled_time,
\* is_due.
check_due(p) ==
    /\ pass.pc = "next" /\ p \in pass.rows
    /\ LET spec == p.row.spec
           due == is_due(spec.schedule, last_scheduled_time(p.row), pass.at,
                         spec.startingDeadlineSeconds)
       IN  pass' = IF spec.suspend \/ ~due THEN Without(p)
                   ELSE [pass EXCEPT !.id = p.id,
                           !.pc = IF spec.concurrencyPolicy = "Forbid" THEN "active"
                                                                      ELSE "create"]
    /\ UNCHANGED <<now, cronjobs, runs, asked, affordable, counters, history>>

\* concurrencyPolicy: Forbid.
check_active(p) ==
    /\ pass.pc = "active" /\ p \in pass.rows /\ p.id = pass.id
    /\ pass' = IF has_active_run(p.row.name) THEN Without(p) ELSE [pass EXCEPT !.pc = "create"]
    /\ UNCHANGED <<now, cronjobs, runs, asked, affordable, counters, history>>

\* The run named after the CronJob and the pass's time, unless the budget does
\* not cover it: then nothing but an event is recorded.
create_job_run(p) ==
    /\ pass.pc = "create" /\ p \in pass.rows /\ p.id = pass.id
    /\ pass' = Without(p)
    /\ IF affordable
       THEN /\ runs' = runs \union {[name |-> p.row.name, at |-> pass.at, active |-> TRUE,
                                     policy |-> p.row.spec.concurrencyPolicy]}
            /\ lastRun' = [lastRun EXCEPT ![p.id] = pass.at]
       ELSE UNCHANGED <<runs, lastRun>>
    /\ UNCHANGED <<now, cronjobs, asked, affordable, counters, touched, deleted>>

finish_pass ==
    /\ pass.pc = "next" /\ pass.rows = {}
    /\ pass' = IdlePass
    /\ UNCHANGED <<now, cronjobs, runs, asked, affordable, counters, history>>

Mishap == mishaps < MaxMishaps /\ mishaps' = mishaps + 1

\* A query fails, which ends the pass with an error, or the process dies.
pass_fails ==
    /\ pass.pc # "idle"
    /\ pass' = IdlePass
    /\ Mishap
    /\ UNCHANGED <<now, cronjobs, runs, asked, affordable, requests, runDeletes, history>>

PassStep ==
    \/ start_pass \/ finish_pass
    \/ \E p \in pass.rows : check_due(p) \/ check_active(p) \/ create_job_run(p)

-----------------------------------------------------------------------------
(***************************************************************************)
(* The rest of the world.                                                  *)
(***************************************************************************)

second_passes ==
    /\ now < MaxTime
    /\ now' = now + 1
    /\ UNCHANGED <<cronjobs, runs, pass, asked, affordable, counters, history>>

run_finishes(r) ==
    /\ r.active
    /\ runs' = (runs \ {r}) \union {[r EXCEPT !.active = FALSE]}
    /\ UNCHANGED <<now, cronjobs, pass, asked, affordable, counters, history>>

budget_runs_short ==
    /\ affordable
    /\ affordable' = FALSE
    /\ Mishap
    /\ UNCHANGED <<now, cronjobs, runs, pass, asked, requests, runDeletes, history>>

budget_recovers ==
    /\ ~affordable
    /\ affordable' = TRUE
    /\ UNCHANGED <<now, cronjobs, runs, pass, asked, counters, history>>

Next ==
    \/ PassStep
    \/ pass_fails
    \/ \E q \in Clients :
          \/ \E n \in CronNames, s \in SpecsSent : create_cronjob(q, n, s) \/ replace_cronjob(q, n, s)
          \/ \E n \in CronNames, s \in PatchesSent : patch_cronjob(q, n, s)
          \/ insert_cronjob(q) \/ update_cronjob(q)
    \/ \E n \in CronNames : delete_cronjob(n)
    \/ \E r \in runs : delete_run(r) \/ run_finishes(r)
    \/ second_passes
    \/ budget_runs_short \/ budget_recovers

Spec == Init /\ [][Next]_vars

(***************************************************************************)
(* Fairness.  Ticks keep coming, runs end (Reconciler's EventuallyArchived)*)
(* and the budget accrues.  Users and the clock owe nothing.               *)
(***************************************************************************)
Fairness ==
    /\ WF_vars(PassStep)
    /\ WF_vars(\E r \in runs : run_finishes(r))
    /\ WF_vars(budget_recovers)

-----------------------------------------------------------------------------
(***************************************************************************)
(* Properties.                                                             *)
(***************************************************************************)

\* The CronJob whose row is c gets a run from the pass's copy p of it.
Runs(p) == create_job_run(p) /\ affordable

\* No instant is run twice: last_scheduled_time has no memory of its own, but
\* while nobody deletes runs or CronJobs MAX(jobs.created_at) is as good, through
\* overlapping requests, two rows of one name, failed passes and restarts.
RunsOnce ==
    [][\A p \in pass.rows : Runs(p) /\ ~deleted /\ runDeletes = 0 =>
          LET times == {lastRun[c] : c \in Rows(p.row.name)} \ {Unset}
          IN  \E i \in Fires[p.row.spec.schedule] :
                 /\ i <= pass.at /\ \A t \in times : t < i
                 /\ times = {} => p.row.created < i]_vars

\* A pass decides on rows it selected earlier, with a clock read once and over
\* several queries, but is wrong by no more than what changed since its SELECT:
\* a run is created only for a CronJob that, unless a request touched it during
\* the pass, is not suspended and is still due by its present spec.  Some
\* instant of its present schedule is later than every run recorded under its
\* name and, with a starting deadline, at most that many whole seconds old at
\* the time of the pass; runs deleted by users in between do not matter.
RunsAreDue ==
    [][\A p \in pass.rows : Runs(p) /\ p.id \notin touched =>
          LET row == cronjobs[p.id]
              deadline == row.spec.startingDeadlineSeconds
          IN  /\ ~row.spec.suspend
              /\ \E i \in Fires[row.spec.schedule] :
                    /\ i <= pass.at
                    /\ \A r \in runs : r.name = row.name => r.at < i
                    /\ deadline # Unset => pass.at - i <= deadline]_vars

\* concurrencyPolicy Forbid: a run created under it is never active beside an
\* earlier run of the CronJob, whatever happens between has_active_run and the
\* INSERT.
ForbidHolds ==
    \A r, s \in runs : r.name = s.name /\ r.at < s.at /\ s.policy = "Forbid" =>
        ~(r.active /\ s.active)

\* Every instant that passes while its CronJob stays as it is gets a run in the
\* end (one run may stand for several instants), unless a starting deadline
\* drops it: neither Forbid, nor a budget skip, nor a failed pass loses it.
InstantsRun ==
    \A c \in CronJobs, s \in Schedules : \A i \in Fires[s] :
        /\ cronjobs[c] # Unset /\ i <= now
        /\ cronjobs[c].spec.schedule = s /\ cronjobs[c].created < i
        /\ ~cronjobs[c].spec.suspend /\ cronjobs[c].spec.startingDeadlineSeconds = Unset
        ~> \/ cronjobs[c] = Unset \/ c \in touched
           \/ \E r \in runs : r.name = cronjobs[c].name /\ r.at >= i
           \/ lastRun[c] # Unset /\ lastRun[c] >= i

=============================================================================
