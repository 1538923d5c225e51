-------------------------- MODULE SchedulerProofs --------------------------
(***************************************************************************)
(* Proofs about the scheduling of CronJobs, for every set of CronJobs,     *)
(* names, requests and schedules, and any number of requests, deletions,   *)
(* failed passes and budget shortages.                                     *)
(*                                                                         *)
(* A pass decides on a copy of the rows and over several queries.  The     *)
(* invariant says what of a decision stays true until the run's INSERT:    *)
(* only the pass adds runs, so an instant found due stays due and a name   *)
(* found without an active run stays without one.                          *)
(***************************************************************************)
EXTENDS Scheduler, WellFoundedInduction, TLAPS

-----------------------------------------------------------------------------
(***************************************************************************)
(* The invariant.                                                          *)
(***************************************************************************)

Selected == [id : CronJobs, row : CronRow]
Pass == [pc : {"idle", "next", "active", "create"}, at : Nat, rows : SUBSET Selected,
         id : CronJobs \union {Unset}]
Request == [pc : {"idle", "insert", "update"}, name : CronNames \union {Unset},
            spec : CronSpec \union {Unset}]

Typed == TypeOK /\ pass \in Pass /\ asked \in [Clients -> Request]

\* Time: a pass sees no run of a later pass.
TimesOrdered ==
    /\ \A r \in runs : r.at <= now
    /\ pass.pc # "idle" => pass.at <= now /\ \A r \in runs : r.at <= pass.at

\* A row is selected once, and is what the table holds unless a request came in
\* between; a row keeps its name for life.
SelectedOnce == \A p, q \in pass.rows : p.id = q.id => p = q
SelectedCurrent ==
    \A p \in pass.rows :
        /\ p.id \notin touched => cronjobs[p.id] = p.row
        /\ ~deleted => cronjobs[p.id] # Unset /\ cronjobs[p.id].name = p.row.name

\* What is_due and has_active_run have found of the row at hand.
DueSince(p) ==
    \E i \in Fires[p.row.spec.schedule] :
        /\ i <= pass.at
        /\ \A r \in runs : r.name = p.row.name => r.at < i
        /\ runDeletes = 0 /\ (\A r \in runs : r.name # p.row.name) => p.row.created < i
        /\ p.row.spec.startingDeadlineSeconds # Unset =>
              pass.at - i <= p.row.spec.startingDeadlineSeconds
Decided(p) ==
    /\ ~p.row.spec.suspend /\ DueSince(p)
    /\ pass.pc = "create" /\ p.row.spec.concurrencyPolicy = "Forbid" =>
          ~has_active_run(p.row.name)
DecisionStands ==
    pass.pc \in {"active", "create"} => \A p \in pass.rows : p.id = pass.id => Decided(p)

\* The table of runs remembers when a CronJob last ran, and a run its CronJob.
RunsRemembered ==
    runDeletes = 0 /\ ~deleted => \A c \in CronJobs : cronjobs[c] # Unset /\ lastRun[c] # Unset =>
        \E r \in runs : r.name = cronjobs[c].name /\ r.at = lastRun[c]
RunsKnown ==
    ~deleted => \A r \in runs : \E c \in Rows(r.name) : lastRun[c] # Unset

SchedInv ==
    /\ TimesOrdered /\ SelectedOnce /\ SelectedCurrent /\ DecisionStands
    /\ RunsRemembered /\ RunsKnown /\ ForbidHolds

-----------------------------------------------------------------------------
(***************************************************************************)
(* The largest of some times.                                              *)
(***************************************************************************)

LEMMA MinExists ==
    ASSUME NEW T, T \subseteq Nat, T # {}
    PROVE  \E x \in T : \A y \in T : x <= y
<1> DEFINE R == {ss \in Nat \X Nat : ss[1] < ss[2]}
<1>1. IsWellFoundedOn(R, Nat)
  BY NatLessThanWellFounded, Zenon DEF OpToRel
<1> HIDE DEF R
<1>2. PICK x \in T : \A y \in T : ~(<<y, x>> \in R)
  BY <1>1, WFMin
<1>3. ASSUME NEW y \in T PROVE x <= y
  <2>1. y < x => <<y, x>> \in R
    BY DEF R
  <2>2. ~(y < x)
    BY <1>2, <2>1
  <2> QED
    BY <2>2
<1> QED
  BY <1>3

LEMMA MaxExists ==
    ASSUME NEW T, T \subseteq Nat, T # {}, NEW b \in Nat, \A x \in T : x <= b
    PROVE  Max(T) \in T /\ \A x \in T : x <= Max(T)
<1> DEFINE D == {d \in Nat : \E x \in T : d = b - x}
<1>1. D # {}
  <2>1. PICK x \in T : TRUE
    OBVIOUS
  <2>2. b - x \in D
    OBVIOUS
  <2> QED
    BY <2>2
<1>2. PICK d \in D : \A y \in D : d <= y
  BY <1>1, MinExists
<1>3. PICK x \in T : d = b - x
  BY <1>2
<1>4. \A y \in T : x >= y
  <2> TAKE y \in T
  <2>1. b - y \in D
    OBVIOUS
  <2> QED
    BY <1>2, <1>3, <2>1
<1> QED
  BY <1>4 DEF Max

LEMMA MaxOfTwo ==
    ASSUME NEW a \in Int, NEW b \in Int
    PROVE  Max({a, b}) = IF a >= b THEN a ELSE b
  BY DEF Max

\* is_due, without Max.
LEMMA DueWindow ==
    ASSUME NEW s \in Schedules, NEW last \in Int, NEW t \in Int,
           NEW deadline \in Deadlines \union {Unset}
    PROVE  is_due(s, last, t, deadline) <=>
           \E i \in Fires[s] : /\ last < i /\ i <= t
                               /\ deadline # Unset => t - i <= deadline
<1>1. Fires[s] \subseteq Nat /\ (deadline # Unset => deadline \in Nat)
  BY ScheduleAssumption
<1>2. CASE deadline = Unset
  BY <1>2 DEF is_due
<1>3. CASE deadline # Unset
  <2>1. t - (deadline + 1) \in Int
    BY <1>1, <1>3
  <2>2. Max({last, t - (deadline + 1)}) =
           IF last >= t - (deadline + 1) THEN last ELSE t - (deadline + 1)
    BY <2>1, MaxOfTwo
  <2> DEFINE m == Max({last, t - (deadline + 1)})
  <2>3. is_due(s, last, t, deadline) <=> \E i \in Fires[s] : m < i /\ i <= t
    BY <1>3 DEF is_due
  <2>4. m = IF last >= t - (deadline + 1) THEN last ELSE t - (deadline + 1)
    BY <2>2
  <2> HIDE DEF m
  <2>5. ASSUME NEW i \in Fires[s]
        PROVE  m < i <=> last < i /\ t - i <= deadline
    BY <1>1, <1>3, <2>4, <2>5
  <2> QED
    BY <1>3, <2>3, <2>5
<1> QED
  BY <1>2, <1>3

\* last_scheduled_time is the time of the last run of the name.
LEMMA LastScheduled ==
    ASSUME Typed, NEW row \in CronRow, NEW b \in Nat, \A r \in runs : r.at <= b
    PROVE  /\ last_scheduled_time(row) \in Nat
           /\ \A r \in runs : r.name = row.name => r.at <= last_scheduled_time(row)
           /\ (\A r \in runs : r.name # row.name) => last_scheduled_time(row) = row.created
<1> DEFINE times == {r.at : r \in {x \in runs : x.name = row.name}}
<1>1. last_scheduled_time(row) = IF times = {} THEN row.created ELSE Max(times)
  BY DEF last_scheduled_time
<1>2. times \subseteq Nat /\ \A t \in times : t <= b
  BY DEF Typed, TypeOK, RunRow
<1>3. row.created \in Nat
  BY DEF CronRow
<1>4. \A r \in runs : r.name = row.name => r.at \in times
  OBVIOUS
<1>5. (\A r \in runs : r.name # row.name) => times = {}
  OBVIOUS
<1> HIDE DEF times
<1>6. times # {} => Max(times) \in times /\ \A t \in times : t <= Max(times)
  BY <1>2, MaxExists
<1> QED
  BY <1>1, <1>2, <1>3, <1>4, <1>5, <1>6

-----------------------------------------------------------------------------
(***************************************************************************)
(* Types.                                                                  *)
(***************************************************************************)

\* What merge_patch, apply_cronjob_defaults and admit_cronjob make of what is sent.
LEMMA Merged ==
    ASSUME NEW s \in CronSpec, NEW p, PatchSent(p)
    PROVE  SpecSent(merge_patch(s, p))
<1> DEFINE m == merge_patch(s, p)
<1> SUFFICES SpecSent(m)
  OBVIOUS
<1>1. DOMAIN Field = {"schedule", "suspend", "concurrencyPolicy", "startingDeadlineSeconds"}
  BY DEF Field
<1>2. DOMAIN s = DOMAIN Field
  BY <1>1 DEF CronSpec
<1>3. DOMAIN p \subseteq DOMAIN Field /\ \A f \in DOMAIN p : p[f] \in Field[f] \union {Unset}
  BY DEF PatchSent, Sent
<1>4. \A f \in DOMAIN Field : s[f] \in Field[f] \union {Unset}
  BY <1>1 DEF CronSpec, Field
<1>5. m = [f \in DOMAIN Field |-> m[f]]
  BY <1>2, <1>3 DEF merge_patch
<1>6. \A f \in DOMAIN Field : m[f] \in Field[f] \union {Unset}
  BY <1>2, <1>3, <1>4 DEF merge_patch
<1> HIDE DEF m
<1> QED
  BY <1>5, <1>6 DEF SpecSent, Sent

LEMMA Admitted ==
    ASSUME NEW s, SpecSent(s), admit_cronjob(apply_cronjob_defaults(s))
    PROVE  apply_cronjob_defaults(s) \in CronSpec
  BY ScheduleAssumption
     DEF SpecSent, Sent, Field, admit_cronjob, apply_cronjob_defaults, CronSpec, Policies

LEMMA InitTyped == Init => Typed
<1> SUFFICES ASSUME Init PROVE Typed
  OBVIOUS
<1>1. pass \in Pass /\ asked \in [Clients -> Request]
  BY DEF Init, Pass, Request, IdlePass, IdleRequest
<1>2. /\ now \in 0 .. MaxTime
      /\ requests \in 0 .. MaxRequests /\ runDeletes \in 0 .. MaxRunDeletes
      /\ mishaps \in 0 .. MaxMishaps
  BY SchedulerBounds DEF Init
<1>3. pass.pc = "idle" /\ pass.rows = {} /\ \A q \in Clients : asked[q].pc = "idle"
  BY DEF Init, IdlePass, IdleRequest
<1>4. /\ cronjobs \in [CronJobs -> CronRow \union {Unset}]
      /\ lastRun \in [CronJobs -> Nat \union {Unset}]
      /\ runs = {} /\ affordable = TRUE /\ touched = {} /\ deleted = FALSE
  BY DEF Init
<1>5. TypeOK
  BY <1>2, <1>3, <1>4 DEF TypeOK
<1> QED
  BY <1>1, <1>5 DEF Typed

\* A request is accepted: only asked and the count of requests change.
LEMMA AskedTyped ==
    ASSUME Typed, NEW q \in Clients, NEW x \in Request, x.pc # "idle" =>
              x.name \in CronNames /\ x.spec \in CronSpec,
           asked' = [asked EXCEPT ![q] = x]
    PROVE  /\ asked' \in [Clients -> Request]
           /\ \A i \in Clients :
                /\ asked'[i].pc \in {"idle", "insert", "update"}
                /\ asked'[i].pc # "idle" =>
                      asked'[i].name \in CronNames /\ asked'[i].spec \in CronSpec
  BY DEF Typed, TypeOK, Request

LEMMA RequestTyped ==
    ASSUME Typed, NEW q \in Clients, NEW n \in CronNames,
           \/ \E s \in SpecsSent : create_cronjob(q, n, s) \/ replace_cronjob(q, n, s)
           \/ \E p \in PatchesSent : patch_cronjob(q, n, p)
    PROVE  Typed'
<1>1. PICK pc \in {"insert", "update"}, spec \in CronSpec :
         asked' = [asked EXCEPT ![q] = [pc |-> pc, name |-> n, spec |-> spec]]
  <2>1. ASSUME NEW s \in SpecsSent, create_cronjob(q, n, s) \/ replace_cronjob(q, n, s)
        PROVE  \E pc \in {"insert", "update"}, spec \in CronSpec :
                  asked' = [asked EXCEPT ![q] = [pc |-> pc, name |-> n, spec |-> spec]]
    BY <2>1, SentAssumption, Admitted DEF create_cronjob, replace_cronjob
  <2>2. ASSUME NEW p \in PatchesSent, patch_cronjob(q, n, p)
        PROVE  \E pc \in {"insert", "update"}, spec \in CronSpec :
                  asked' = [asked EXCEPT ![q] = [pc |-> pc, name |-> n, spec |-> spec]]
    <3>1. PICK c \in Rows(n) :
             LET spec == apply_cronjob_defaults(merge_patch(cronjobs[c].spec, p))
             IN  /\ admit_cronjob(spec)
                 /\ asked' = [asked EXCEPT ![q] =
                                 [pc |-> "update", name |-> n, spec |-> spec]]
      BY <2>2 DEF patch_cronjob
    <3>2. cronjobs[c].spec \in CronSpec
      BY DEF Rows, Typed, TypeOK, CronRow
    <3>3. SpecSent(merge_patch(cronjobs[c].spec, p))
      BY <3>2, SentAssumption, Merged
    <3> QED
      BY <3>1, <3>3, Admitted
  <2> QED
    BY <2>1, <2>2
<1> DEFINE x == [pc |-> pc, name |-> n, spec |-> spec]
<1>2. x \in Request /\ x.name \in CronNames /\ x.spec \in CronSpec
  BY DEF Request
<1> HIDE DEF x
<1>3. asked' = [asked EXCEPT ![q] = x]
  BY <1>1 DEF x
<1>4. /\ requests < MaxRequests /\ requests' = requests + 1
      /\ UNCHANGED <<now, cronjobs, runs, pass, affordable, runDeletes, mishaps, history>>
  BY DEF create_cronjob, replace_cronjob, patch_cronjob
<1>5. requests' \in 0 .. MaxRequests
  BY <1>4, SchedulerBounds DEF Typed, TypeOK
<1> QED
  BY <1>2, <1>3, <1>4, <1>5, AskedTyped DEF Typed, TypeOK, history

\* The writes of table cronjobs.
LEMMA TableTyped ==
    ASSUME Typed,
           \/ \E q \in Clients : insert_cronjob(q) \/ update_cronjob(q)
           \/ \E n \in CronNames : delete_cronjob(n)
    PROVE  Typed'
<1>0. IdleRequest \in Request /\ IdleRequest.pc = "idle"
  BY DEF IdleRequest, Request
<1>1. ASSUME NEW q \in Clients, insert_cronjob(q) PROVE Typed'
  <2>1. PICK c \in CronJobs : c = NewId
    BY <1>1 DEF insert_cronjob, NewId, Fresh
  <2>2. /\ cronjobs' = [cronjobs EXCEPT ![c] =
                           [name |-> asked[q].name, spec |-> asked[q].spec, created |-> now]]
        /\ lastRun' = [lastRun EXCEPT ![c] = Unset]
        /\ touched' = touched \union {c}
        /\ asked' = [asked EXCEPT ![q] = IdleRequest] /\ asked[q].pc # "idle"
        /\ UNCHANGED <<now, runs, pass, affordable, requests, runDeletes, mishaps, deleted>>
    BY <1>1, <2>1 DEF insert_cronjob, counters
  <2>3. [name |-> asked[q].name, spec |-> asked[q].spec, created |-> now] \in CronRow
    BY <2>2 DEF Typed, TypeOK, CronRow
  <2>4. cronjobs' \in [CronJobs -> CronRow \union {Unset}]
    BY <2>2, <2>3 DEF Typed, TypeOK
  <2>5. lastRun' \in [CronJobs -> Nat \union {Unset}] /\ touched' \subseteq CronJobs
    BY <2>2 DEF Typed, TypeOK
  <2> QED
    BY <1>0, <2>2, <2>4, <2>5, AskedTyped DEF Typed, TypeOK
<1>2. ASSUME NEW q \in Clients, update_cronjob(q) PROVE Typed'
  <2>1. /\ asked' = [asked EXCEPT ![q] = IdleRequest] /\ asked[q].pc # "idle"
        /\ touched' \subseteq CronJobs
        /\ UNCHANGED <<now, runs, pass, affordable, requests, runDeletes, mishaps, lastRun,
                       deleted>>
    BY <1>2 DEF update_cronjob, counters, Rows, Typed, TypeOK
  <2>2. asked[q].spec \in CronSpec
    BY <2>1 DEF Typed, TypeOK
  <2>3. \A c \in Rows(asked[q].name) : [cronjobs[c] EXCEPT !.spec = asked[q].spec] \in CronRow
    BY <2>2 DEF Rows, Typed, TypeOK, CronRow
  <2>4. cronjobs' \in [CronJobs -> CronRow \union {Unset}]
    BY <1>2, <2>3 DEF update_cronjob, Typed, TypeOK
  <2> QED
    BY <1>0, <2>1, <2>4, AskedTyped DEF Typed, TypeOK
<1>3. ASSUME NEW n \in CronNames, delete_cronjob(n) PROVE Typed'
  <2>1. /\ cronjobs' \in [CronJobs -> CronRow \union {Unset}] /\ touched' \subseteq CronJobs
        /\ deleted' \in BOOLEAN
    BY <1>3 DEF delete_cronjob, Rows, Typed, TypeOK
  <2>2. requests' \in 0 .. MaxRequests
    BY <1>3, SchedulerBounds DEF delete_cronjob, Typed, TypeOK
  <2>3. UNCHANGED <<now, runs, pass, asked, affordable, runDeletes, mishaps, lastRun>>
    BY <1>3 DEF delete_cronjob
  <2> QED
    BY <2>1, <2>2, <2>3 DEF Typed, TypeOK
<1> QED
  BY <1>1, <1>2, <1>3

\* Runs that end or are deleted, the clock, the budget.
LEMMA WorldTyped ==
    ASSUME Typed,
           \/ \E r \in runs : delete_run(r) \/ run_finishes(r)
           \/ second_passes \/ budget_runs_short \/ budget_recovers
    PROVE  Typed'
<1>1. ASSUME NEW r \in runs, delete_run(r) \/ run_finishes(r) PROVE Typed'
  <2>1. [r EXCEPT !.active = FALSE] \in RunRow /\ runs \subseteq RunRow
    BY DEF Typed, TypeOK, RunRow
  <2>2. runs' \subseteq RunRow
    BY <1>1, <2>1 DEF delete_run, run_finishes
  <2>3. runDeletes' \in 0 .. MaxRunDeletes
    BY <1>1, SchedulerBounds DEF delete_run, run_finishes, Typed, TypeOK, counters
  <2>4. UNCHANGED <<now, cronjobs, pass, asked, affordable, requests, mishaps, history>>
    BY <1>1 DEF delete_run, run_finishes, counters
  <2> QED
    BY <2>2, <2>3, <2>4 DEF Typed, TypeOK, history
<1>2. CASE second_passes
  BY <1>2, SchedulerBounds DEF second_passes, Typed, TypeOK, counters, history
<1>3. CASE budget_runs_short \/ budget_recovers
  <2>1. mishaps' \in 0 .. MaxMishaps
    BY <1>3, SchedulerBounds
       DEF budget_runs_short, budget_recovers, Mishap, Typed, TypeOK, counters
  <2>2. /\ affordable' \in BOOLEAN
        /\ UNCHANGED <<now, cronjobs, runs, pass, asked, requests, runDeletes, history>>
    BY <1>3 DEF budget_runs_short, budget_recovers, counters
  <2> QED
    BY <2>1, <2>2 DEF Typed, TypeOK, history
<1> QED
  BY <1>1, <1>2, <1>3

\* The pass.
LEMMA PassTyped ==
    ASSUME Typed, PassStep \/ pass_fails
    PROVE  Typed'
<1>0. IdlePass \in Pass /\ IdlePass.pc = "idle" /\ IdlePass.rows = {}
  BY DEF IdlePass, Pass
<1>1. ASSUME pass' \in Pass,
             pass'.pc \in {"active", "create"} => \E p \in pass'.rows : p.id = pass'.id,
             runs' \subseteq RunRow, lastRun' \in [CronJobs -> Nat \union {Unset}],
             touched' \subseteq CronJobs, mishaps' \in 0 .. MaxMishaps,
             UNCHANGED <<now, cronjobs, asked, affordable, requests, runDeletes, deleted>>
      PROVE  Typed'
  BY <1>1 DEF Typed, TypeOK, Pass, Selected
<1>2. pass \in Pass /\ pass.rows \subseteq Selected
  BY DEF Typed, Pass
<1>3. CASE start_pass
  <2> DEFINE rows == {[id |-> c, row |-> cronjobs[c]] :
                         c \in {x \in CronJobs : cronjobs[x] # Unset}}
  <2>1. rows \subseteq Selected
    BY DEF Selected, Typed, TypeOK
  <2>2. pass' = [pc |-> "next", at |-> now, id |-> Unset, rows |-> rows]
    BY <1>3 DEF start_pass
  <2> HIDE DEF rows
  <2>3. pass' \in Pass /\ pass'.pc = "next"
    BY <2>1, <2>2 DEF Pass, Typed, TypeOK
  <2> QED
    BY <1>1, <1>3, <2>3 DEF start_pass, Typed, TypeOK, counters
<1>4. CASE finish_pass \/ pass_fails
  <2>1. mishaps' \in 0 .. MaxMishaps
    BY <1>4, SchedulerBounds DEF finish_pass, pass_fails, Mishap, Typed, TypeOK, counters
  <2>2. pass' = IdlePass
        /\ UNCHANGED <<now, cronjobs, runs, asked, affordable, requests, runDeletes, history>>
    BY <1>4 DEF finish_pass, pass_fails, counters
  <2> QED
    BY <1>0, <1>1, <2>1, <2>2 DEF Typed, TypeOK, history
<1>5. ASSUME NEW p \in pass.rows PROVE Without(p) \in Pass /\ Without(p).pc = "next"
  BY <1>2 DEF Without, Pass
<1>6. ASSUME NEW p \in pass.rows, check_due(p) \/ check_active(p) PROVE Typed'
  <2>1. \/ pass' = Without(p)
        \/ \E pc \in {"active", "create"} : pass' = [pass EXCEPT !.id = p.id, !.pc = pc]
        \/ pass' = [pass EXCEPT !.pc = "create"] /\ p.id = pass.id
    BY <1>6 DEF check_due, check_active
  <2>2. p.id \in CronJobs
    BY <1>2 DEF Selected
  <2>3. /\ pass' \in Pass
        /\ pass'.pc \in {"active", "create"} => \E x \in pass'.rows : x.id = pass'.id
    <3>1. CASE pass' = Without(p)
      BY <1>5, <3>1
    <3>2. ASSUME NEW pc \in {"active", "create"}, pass' = [pass EXCEPT !.id = p.id, !.pc = pc]
          PROVE  pass' \in Pass /\ p \in pass'.rows /\ p.id = pass'.id
      BY <1>2, <2>2, <3>2 DEF Pass
    <3>3. CASE pass' = [pass EXCEPT !.pc = "create"] /\ p.id = pass.id
      <4>1. pass' \in Pass /\ p \in pass'.rows /\ p.id = pass'.id
        BY <1>2, <3>3 DEF Pass
      <4> QED
        BY <4>1
    <3> QED
      BY <2>1, <3>1, <3>2, <3>3
  <2>4. UNCHANGED <<now, cronjobs, runs, asked, affordable, counters, history>>
    BY <1>6 DEF check_due, check_active
  <2> QED
    BY <1>1, <2>3, <2>4 DEF Typed, TypeOK, counters, history
<1>7. ASSUME NEW p \in pass.rows, create_job_run(p) PROVE Typed'
  <2>1. p \in Selected /\ pass.at \in Nat
    BY <1>2 DEF Pass
  <2>2. [name |-> p.row.name, at |-> pass.at, active |-> TRUE,
         policy |-> p.row.spec.concurrencyPolicy] \in RunRow
    BY <2>1 DEF Selected, CronRow, CronSpec, RunRow
  <2>3. runs' \subseteq RunRow /\ lastRun' \in [CronJobs -> Nat \union {Unset}]
    BY <1>7, <2>1, <2>2 DEF create_job_run, Typed, TypeOK
  <2>4. /\ pass' = Without(p)
        /\ UNCHANGED <<now, cronjobs, asked, affordable, counters, touched, deleted>>
    BY <1>7 DEF create_job_run
  <2> QED
    BY <1>1, <1>5, <2>3, <2>4 DEF Typed, TypeOK, counters
<1> QED
  BY <1>3, <1>4, <1>6, <1>7 DEF PassStep

LEMMA NextTyped == Typed /\ [Next]_vars => Typed'
<1> SUFFICES ASSUME Typed, [Next]_vars PROVE Typed'
  OBVIOUS
<1>1. CASE UNCHANGED vars
  BY <1>1 DEF Typed, TypeOK, vars, counters, history
<1> QED
  BY <1>1, RequestTyped, TableTyped, WorldTyped, PassTyped DEF Next

\* The types of the scheduler's state: every CronJob row written by the API, through
\* the defaults and merge patches, has the fields a pass reads.
THEOREM Typing == Spec => []Typed
  BY InitTyped, NextTyped, PTL DEF Spec

\* In particular the tables and the clock keep their types.
THEOREM TypeCorrect == Spec => []TypeOK
<1>1. Typed => TypeOK
  BY DEF Typed
<1> QED
  BY <1>1, Typing, PTL


-----------------------------------------------------------------------------
(***************************************************************************)
(* The invariant is preserved.                                             *)
(***************************************************************************)

LEMMA InitSched == Init => SchedInv
  BY DEF Init, IdlePass, SchedInv, TimesOrdered, SelectedOnce, SelectedCurrent, DecisionStands,
         RunsRemembered, RunsKnown, ForbidHolds

\* Requests are accepted, time passes, the budget changes.
LEMMA QuietSched ==
    ASSUME Typed, Typed', SchedInv, now' >= now,
           UNCHANGED <<cronjobs, runs, pass, runDeletes, lastRun, touched, deleted>>
    PROVE  SchedInv'
<1>1. TimesOrdered'
  <2>1. now \in Nat /\ now' \in Nat /\ pass.at \in Nat /\ \A r \in runs : r.at \in Nat
    BY DEF Typed, TypeOK, Pass, RunRow
  <2> QED
    BY <2>1 DEF SchedInv, TimesOrdered
<1>2. SelectedOnce' /\ SelectedCurrent' /\ RunsRemembered' /\ RunsKnown' /\ ForbidHolds'
  BY DEF SchedInv, SelectedOnce, SelectedCurrent, RunsRemembered, RunsKnown, ForbidHolds, Rows
<1>3. DecisionStands'
  BY DEF SchedInv, DecisionStands, Decided, DueSince, has_active_run
<1> QED
  BY <1>1, <1>2, <1>3 DEF SchedInv

\* The writes of table cronjobs leave the runs and the pass alone.
LEMMA TableSched ==
    ASSUME Typed, Typed', SchedInv,
           \/ \E q \in Clients : insert_cronjob(q) \/ update_cronjob(q)
           \/ \E n \in CronNames : delete_cronjob(n)
    PROVE  SchedInv'
<1>0. cronjobs \in [CronJobs -> CronRow \union {Unset}] /\ pass.rows \subseteq Selected
  BY DEF Typed, TypeOK, Pass
<1>1. UNCHANGED <<now, runs, pass, runDeletes>>
  BY DEF insert_cronjob, update_cronjob, delete_cronjob, counters
<1>2. TimesOrdered' /\ SelectedOnce' /\ DecisionStands' /\ ForbidHolds'
  BY <1>1 DEF SchedInv, TimesOrdered, SelectedOnce, ForbidHolds, DecisionStands, Decided,
              DueSince, has_active_run
<1>3. ASSUME NEW q \in Clients, insert_cronjob(q)
      PROVE  SelectedCurrent' /\ RunsRemembered' /\ RunsKnown'
  <2>1. PICK c \in Fresh : c = NewId
    BY <1>3 DEF insert_cronjob, NewId
  <2>2. c \in CronJobs /\ cronjobs[c] = Unset /\ \A p \in pass.rows : p.id # c
    BY <2>1 DEF Fresh
  <2>3. /\ \A d \in CronJobs : d # c => cronjobs'[d] = cronjobs[d] /\ lastRun'[d] = lastRun[d]
        /\ lastRun'[c] = Unset /\ touched' = touched \union {c} /\ UNCHANGED deleted
    BY <1>3, <2>1, <2>2 DEF insert_cronjob, Typed, TypeOK
  <2>4. SelectedCurrent'
    BY <1>0, <1>1, <2>2, <2>3 DEF SchedInv, SelectedCurrent, Selected
  <2>5. RunsRemembered' /\ RunsKnown'
    BY <1>1, <2>2, <2>3 DEF SchedInv, RunsRemembered, RunsKnown, Rows
  <2> QED
    BY <2>4, <2>5
<1>4. ASSUME NEW q \in Clients, update_cronjob(q)
      PROVE  SelectedCurrent' /\ RunsRemembered' /\ RunsKnown'
  <2>1. UNCHANGED <<lastRun, deleted>>
    BY <1>4 DEF update_cronjob
  <2>2. ASSUME NEW c \in CronJobs
        PROVE  /\ cronjobs'[c] = cronjobs[c] \/ c \in touched'
               /\ cronjobs'[c] = Unset <=> cronjobs[c] = Unset
               /\ cronjobs[c] # Unset => cronjobs'[c].name = cronjobs[c].name
    <3>1. CASE c \in Rows(asked[q].name)
      <4>1. cronjobs[c] \in CronRow /\ cronjobs[c] # Unset
        BY <1>0, <3>1 DEF Rows
      <4>2. cronjobs'[c] = [cronjobs[c] EXCEPT !.spec = asked[q].spec] /\ c \in touched'
        BY <1>4, <3>1 DEF update_cronjob
      <4>3. cronjobs'[c].name = cronjobs[c].name
        BY <4>1, <4>2 DEF CronRow
      <4>4. cronjobs'[c] # Unset
        <5>1. asked[q].spec \in CronSpec
          BY <1>4 DEF update_cronjob, Typed, TypeOK
        <5>2. cronjobs'[c] \in CronRow
          BY <4>1, <4>2, <5>1 DEF CronRow
        <5> QED
          BY <5>2, RowAssumption
      <4> QED
        BY <4>1, <4>2, <4>3, <4>4
    <3>2. CASE c \notin Rows(asked[q].name)
      BY <1>4, <3>2 DEF update_cronjob
    <3> QED
      BY <3>1, <3>2
  <2>3. touched \subseteq touched'
    BY <1>4 DEF update_cronjob
  <2>4. SelectedCurrent'
    BY <1>0, <1>1, <2>1, <2>2, <2>3 DEF SchedInv, SelectedCurrent, Selected
  <2>5. RunsRemembered'
    BY <1>1, <2>1, <2>2 DEF SchedInv, RunsRemembered
  <2>6. RunsKnown'
    <3>1. \A n : Rows(n)' = Rows(n)
      BY <2>2 DEF Rows
    <3> QED
      BY <1>1, <2>1, <3>1 DEF SchedInv, RunsKnown
  <2> QED
    BY <2>4, <2>5, <2>6
<1>5. ASSUME NEW n \in CronNames, delete_cronjob(n)
      PROVE  SelectedCurrent' /\ RunsRemembered' /\ RunsKnown'
  <2>1. /\ deleted' = TRUE /\ touched' = touched \union Rows(n)
        /\ \A c \in CronJobs : c \notin Rows(n) => cronjobs'[c] = cronjobs[c]
    BY <1>5 DEF delete_cronjob
  <2> QED
    BY <1>0, <1>1, <2>1
       DEF SchedInv, SelectedCurrent, Selected, RunsRemembered, RunsKnown
<1> QED
  BY <1>2, <1>3, <1>4, <1>5 DEF SchedInv

\* Runs end, or are deleted, which counts.
LEMMA RunsSched ==
    ASSUME Typed, Typed', SchedInv, \E r \in runs : delete_run(r) \/ run_finishes(r)
    PROVE  SchedInv'
<1>0. PICK r \in runs : delete_run(r) \/ run_finishes(r)
  OBVIOUS
<1>1. UNCHANGED <<now, cronjobs, pass, lastRun, touched, deleted>>
  BY <1>0 DEF delete_run, run_finishes, history
<1> DEFINE x == [r EXCEPT !.active = FALSE]
<1>2. x.name = r.name /\ x.at = r.at /\ x.policy = r.policy /\ x.active = FALSE
  BY DEF Typed, TypeOK, RunRow
<1>3. \A y \in runs' : y \in runs \/ y = x
  BY <1>0 DEF delete_run, run_finishes
<1>4. runDeletes' = 0 => runDeletes = 0 /\ x \in runs' /\ \A y \in runs : y = r \/ y \in runs'
  BY <1>0 DEF delete_run, run_finishes, counters, Typed, TypeOK
<1> HIDE DEF x
<1>5. TimesOrdered' /\ SelectedOnce' /\ SelectedCurrent'
  BY <1>1, <1>2, <1>3 DEF SchedInv, TimesOrdered, SelectedOnce, SelectedCurrent
<1>6. ForbidHolds'
  BY <1>2, <1>3 DEF SchedInv, ForbidHolds
<1>7. RunsRemembered'
  BY <1>1, <1>2, <1>4 DEF SchedInv, RunsRemembered
<1>8. RunsKnown'
  BY <1>1, <1>2, <1>3 DEF SchedInv, RunsKnown, Rows
<1>9. DecisionStands'
  <2> SUFFICES ASSUME pass.pc \in {"active", "create"}, NEW p \in pass.rows, p.id = pass.id
               PROVE  Decided(p)'
    BY <1>1 DEF DecisionStands
  <2>1. Decided(p)
    BY DEF SchedInv, DecisionStands
  <2>2. PICK i \in Fires[p.row.spec.schedule] :
           /\ i <= pass.at
           /\ \A y \in runs : y.name = p.row.name => y.at < i
           /\ runDeletes = 0 /\ (\A y \in runs : y.name # p.row.name) => p.row.created < i
           /\ p.row.spec.startingDeadlineSeconds # Unset =>
                 pass.at - i <= p.row.spec.startingDeadlineSeconds
    BY <2>1 DEF Decided, DueSince
  <2>3. \A y \in runs' : y.name = p.row.name => y.at < i
    BY <1>2, <1>3, <2>2
  <2>4. runDeletes' = 0 /\ (\A y \in runs' : y.name # p.row.name) => p.row.created < i
    BY <1>2, <1>4, <2>2
  <2>5. DueSince(p)'
    BY <1>1, <2>2, <2>3, <2>4 DEF DueSince
  <2>6. has_active_run(p.row.name)' => has_active_run(p.row.name)
    BY <1>2, <1>3 DEF has_active_run
  <2> QED
    BY <1>1, <2>1, <2>5, <2>6 DEF Decided
<1> QED
  BY <1>5, <1>6, <1>7, <1>8, <1>9 DEF SchedInv

\* A pass starts, ends or fails.
LEMMA EdgesSched ==
    ASSUME Typed, Typed', SchedInv, start_pass \/ finish_pass \/ pass_fails
    PROVE  SchedInv'
<1>1. UNCHANGED <<now, cronjobs, runs, lastRun, deleted, runDeletes>>
  BY DEF start_pass, finish_pass, pass_fails, history, counters
<1>2. RunsRemembered' /\ RunsKnown' /\ ForbidHolds'
  BY <1>1 DEF SchedInv, RunsRemembered, RunsKnown, ForbidHolds, Rows
<1>3. CASE start_pass
  <2>1. /\ pass'.pc = "next" /\ pass'.at = now /\ touched' = {}
        /\ \A p \in pass'.rows : /\ p.id \in CronJobs /\ p.row = cronjobs[p.id]
                                 /\ cronjobs[p.id] # Unset
                                 /\ p = [id |-> p.id, row |-> p.row]
    BY <1>3 DEF start_pass
  <2>2. SelectedOnce'
    BY <2>1 DEF SelectedOnce
  <2>3. now \in Nat
    BY DEF Typed, TypeOK
  <2> QED
    BY <1>1, <1>2, <2>1, <2>2, <2>3
       DEF SchedInv, TimesOrdered, SelectedCurrent, DecisionStands
<1>4. CASE finish_pass \/ pass_fails
  <2>1. pass'.pc = "idle" /\ pass'.rows = {}
    BY <1>4 DEF finish_pass, pass_fails, IdlePass
  <2> QED
    BY <1>1, <1>2, <2>1
       DEF SchedInv, TimesOrdered, SelectedOnce, SelectedCurrent, DecisionStands
<1> QED
  BY <1>3, <1>4

\* The pass goes on with fewer rows, or with a decision about one of them.
LEMMA PassSched ==
    ASSUME Typed, Typed', SchedInv, pass.pc # "idle", pass'.pc # "idle",
           pass'.rows \subseteq pass.rows, pass'.at = pass.at,
           DecisionStands',
           UNCHANGED <<now, cronjobs, runs, runDeletes, lastRun, touched, deleted>>
    PROVE  SchedInv'
  BY DEF SchedInv, TimesOrdered, SelectedOnce, SelectedCurrent, RunsRemembered, RunsKnown,
         ForbidHolds, Rows

LEMMA CheckSched ==
    ASSUME Typed, Typed', SchedInv, NEW p \in pass.rows, check_due(p) \/ check_active(p)
    PROVE  SchedInv'
<1>0. pass \in Pass /\ p \in Selected /\ p.row \in CronRow /\ p.row.spec \in CronSpec
  BY DEF Typed, Pass, Selected, CronRow
<1>1. /\ pass.pc # "idle"
      /\ UNCHANGED <<now, cronjobs, runs, runDeletes, lastRun, touched, deleted>>
  BY DEF check_due, check_active, counters, history
<1>2. CASE pass' = Without(p)
  <2>1. pass'.pc = "next" /\ pass'.rows \subseteq pass.rows /\ pass'.at = pass.at
    BY <1>0, <1>2 DEF Without, Pass
  <2>2. DecisionStands'
    BY <2>1 DEF DecisionStands
  <2> QED
    BY <1>1, <2>1, <2>2, PassSched
<1>3. CASE check_due(p) /\ pass' # Without(p)
  <2> DEFINE spec == p.row.spec
             last == last_scheduled_time(p.row)
  <2>1. ~spec.suspend /\ is_due(spec.schedule, last, pass.at, spec.startingDeadlineSeconds)
    BY <1>3 DEF check_due
  <2>2. /\ pass'.rows = pass.rows /\ pass'.at = pass.at /\ pass'.id = p.id
        /\ pass'.pc = IF spec.concurrencyPolicy = "Forbid" THEN "active" ELSE "create"
    BY <1>0, <1>3 DEF check_due, Pass
  <2>3. pass.at \in Nat /\ \A r \in runs : r.at <= pass.at
    BY <1>0, <1>1 DEF Pass, SchedInv, TimesOrdered
  <2>4. /\ last \in Nat /\ \A r \in runs : r.name = p.row.name => r.at <= last
        /\ (\A r \in runs : r.name # p.row.name) => last = p.row.created
    BY <1>0, <2>3, LastScheduled
  <2> HIDE DEF last
  <2>5. spec.schedule \in Schedules /\ spec.startingDeadlineSeconds \in Deadlines \union {Unset}
    BY <1>0 DEF CronSpec
  <2>6. PICK i \in Fires[spec.schedule] :
           /\ last < i /\ i <= pass.at
           /\ spec.startingDeadlineSeconds # Unset => pass.at - i <= spec.startingDeadlineSeconds
    BY <2>1, <2>3, <2>4, <2>5, DueWindow
  <2>7. i \in Nat /\ \A r \in runs : r.at \in Nat
    BY <2>5, ScheduleAssumption DEF Typed, TypeOK, RunRow
  <2>8. \A r \in runs : r.name = p.row.name => r.at < i
    BY <2>4, <2>6, <2>7
  <2>9. (\A r \in runs : r.name # p.row.name) => p.row.created < i
    BY <2>4, <2>6
  <2>10. DueSince(p)'
    BY <1>1, <2>2, <2>6, <2>8, <2>9 DEF DueSince
  <2>11. Decided(p)'
    BY <2>1, <2>2, <2>10 DEF Decided
  <2>12. DecisionStands'
    BY <2>2, <2>11 DEF DecisionStands, SchedInv, SelectedOnce
  <2> QED
    BY <1>1, <2>2, <2>12, PassSched
<1>4. CASE check_active(p) /\ pass' # Without(p)
  <2>1. pass.pc = "active" /\ p.id = pass.id /\ ~has_active_run(p.row.name)
        /\ pass' = [pass EXCEPT !.pc = "create"]
    BY <1>4 DEF check_active
  <2>2. pass'.rows = pass.rows /\ pass'.at = pass.at /\ pass'.id = p.id /\ pass'.pc = "create"
    BY <1>0, <2>1 DEF Pass
  <2>3. Decided(p)
    BY <2>1 DEF SchedInv, DecisionStands
  <2>4. Decided(p)'
    BY <1>1, <2>1, <2>2, <2>3 DEF Decided, DueSince, has_active_run
  <2>5. DecisionStands'
    BY <2>2, <2>4 DEF DecisionStands, SchedInv, SelectedOnce
  <2> QED
    BY <1>1, <2>2, <2>5, PassSched
<1> QED
  BY <1>2, <1>3, <1>4

\* The run's INSERT.
LEMMA CreateSched ==
    ASSUME Typed, Typed', SchedInv, NEW p \in pass.rows, create_job_run(p)
    PROVE  SchedInv'
<1>0. /\ pass \in Pass /\ p.id \in CronJobs /\ pass.at \in Nat
      /\ lastRun \in [CronJobs -> Nat \union {Unset}] /\ Unset \notin Nat
  BY ScheduleAssumption DEF Typed, TypeOK, Pass, Selected
<1>1. /\ pass.pc = "create" /\ p.id = pass.id
      /\ UNCHANGED <<now, cronjobs, runDeletes, touched, deleted>>
  BY DEF create_job_run, counters
<1>2. pass'.pc = "next" /\ pass'.rows \subseteq pass.rows /\ pass'.at = pass.at
  BY <1>0 DEF create_job_run, Without, Pass
<1>3. DecisionStands'
  BY <1>2 DEF DecisionStands
<1>4. CASE ~affordable
  BY <1>1, <1>2, <1>3, <1>4, PassSched DEF create_job_run
<1>5. CASE affordable
  <2> DEFINE x == [name |-> p.row.name, at |-> pass.at, active |-> TRUE,
                   policy |-> p.row.spec.concurrencyPolicy]
  <2>1. runs' = runs \union {x} /\ lastRun' = [lastRun EXCEPT ![p.id] = pass.at]
    BY <1>5 DEF create_job_run
  <2>2. /\ x.name = p.row.name /\ x.at = pass.at /\ x.active = TRUE
        /\ x.policy = p.row.spec.concurrencyPolicy
    OBVIOUS
  <2> HIDE DEF x
  <2>3. pass.at <= now /\ \A r \in runs : r.at <= pass.at
    BY <1>1 DEF SchedInv, TimesOrdered
  <2>4. TimesOrdered'
    BY <1>0, <1>1, <1>2, <2>1, <2>2, <2>3 DEF SchedInv, TimesOrdered
  <2>5. SelectedOnce' /\ SelectedCurrent'
    BY <1>1, <1>2 DEF SchedInv, SelectedOnce, SelectedCurrent
  <2>6. ~deleted => p.id \in Rows(p.row.name)
    BY <1>0 DEF SchedInv, SelectedCurrent, Rows
  <2>7. \A c \in CronJobs : lastRun'[c] = IF c = p.id THEN pass.at ELSE lastRun[c]
    BY <1>0, <2>1
  <2>8. RunsRemembered'
    <3> SUFFICES ASSUME runDeletes = 0, ~deleted, NEW c \in CronJobs, cronjobs[c] # Unset,
                        lastRun'[c] # Unset
                 PROVE  \E r \in runs' : r.name = cronjobs[c].name /\ r.at = lastRun'[c]
      BY <1>1 DEF RunsRemembered
    <3>1. CASE c = p.id
      BY <2>1, <2>2, <2>6, <2>7, <3>1 DEF Rows
    <3>2. CASE c # p.id
      BY <2>1, <2>7, <3>2 DEF SchedInv, RunsRemembered
    <3> QED
      BY <3>1, <3>2
  <2>9. RunsKnown'
    <3> SUFFICES ASSUME ~deleted, NEW r \in runs'
                 PROVE  \E c \in Rows(r.name) : lastRun'[c] # Unset
      BY <1>1 DEF RunsKnown, Rows
    <3>1. CASE r = x
      BY <1>0, <2>2, <2>6, <2>7, <3>1
    <3>2. CASE r \in runs
      BY <1>0, <2>7, <3>2 DEF SchedInv, RunsKnown, Rows
    <3> QED
      BY <2>1, <3>1, <3>2
  <2>10. ForbidHolds'
    <3> SUFFICES ASSUME NEW r \in runs', NEW s \in runs', r.name = s.name, r.at < s.at,
                        s.policy = "Forbid", r.active, s.active
                 PROVE  FALSE
      BY DEF ForbidHolds
    <3>0. r.at \in Nat /\ s.at \in Nat
      BY DEF Typed, TypeOK, RunRow
    <3>1. s.at <= pass.at
      BY <1>0, <2>1, <2>2, <2>3
    <3>2. r # x
      BY <1>0, <2>2, <3>0, <3>1
    <3>3. CASE s = x
      <4>1. ~has_active_run(p.row.name)
        BY <1>1, <2>2, <3>3 DEF SchedInv, DecisionStands, Decided
      <4> QED
        BY <2>1, <2>2, <3>2, <3>3, <4>1 DEF has_active_run
    <3>4. CASE s # x
      BY <2>1, <3>2, <3>4 DEF SchedInv, ForbidHolds
    <3> QED
      BY <3>3, <3>4
  <2> QED
    BY <1>3, <2>4, <2>5, <2>8, <2>9, <2>10 DEF SchedInv
<1> QED
  BY <1>4, <1>5

LEMMA NextSched == Typed /\ Typed' /\ SchedInv /\ [Next]_vars => SchedInv'
<1> SUFFICES ASSUME Typed, Typed', SchedInv, [Next]_vars PROVE SchedInv'
  OBVIOUS
<1>0. now \in Nat
  BY DEF Typed, TypeOK
<1>1. CASE \/ UNCHANGED vars \/ second_passes \/ budget_runs_short \/ budget_recovers
           \/ \E q \in Clients, n \in CronNames :
                 \/ \E s \in SpecsSent : create_cronjob(q, n, s) \/ replace_cronjob(q, n, s)
                 \/ \E s \in PatchesSent : patch_cronjob(q, n, s)
  <2>1. /\ now' = now \/ now' = now + 1
        /\ UNCHANGED <<cronjobs, runs, pass, runDeletes, lastRun, touched, deleted>>
    BY <1>1 DEF vars, second_passes, budget_runs_short, budget_recovers, create_cronjob,
                replace_cronjob, patch_cronjob, counters, history
  <2>2. now' >= now
    BY <1>0, <2>1
  <2> QED
    BY <2>1, <2>2, QuietSched
<1> QED
  BY <1>1, TableSched, RunsSched, EdgesSched, CheckSched, CreateSched DEF Next, PassStep

LEMMA Scheduled == Spec => []SchedInv
  BY InitSched, NextSched, Typing, PTL DEF Spec

-----------------------------------------------------------------------------
(***************************************************************************)
(* The theorems.                                                           *)
(***************************************************************************)

\* concurrencyPolicy Forbid: a run created under it is never active beside an
\* earlier run of the CronJob, although has_active_run and the INSERT are two
\* queries with requests in between.
THEOREM ForbidRespected == Spec => []ForbidHolds
<1>1. SchedInv => ForbidHolds
  BY DEF SchedInv
<1> QED
  BY <1>1, Scheduled, PTL

\* A pass is wrong by no more than what changed since its SELECT: unless a request
\* touched the CronJob during the pass, its run is due by the spec the table holds
\* when the run is inserted, starting deadline included.
THEOREM RunsAreDueThen == Spec => RunsAreDue
<1> DEFINE Due(p) ==
        LET row == cronjobs[p.id]
            deadline == row.spec.startingDeadlineSeconds
        IN  /\ ~row.spec.suspend
            /\ \E i \in Fires[row.spec.schedule] :
                  /\ i <= pass.at
                  /\ \A r \in runs : r.name = row.name => r.at < i
                  /\ deadline # Unset => pass.at - i <= deadline
<1>1. ASSUME Typed, SchedInv, NEW p \in pass.rows, Runs(p), p.id \notin touched
      PROVE  Due(p)
  <2>1. Decided(p)
    BY <1>1 DEF Runs, create_job_run, SchedInv, DecisionStands
  <2>2. cronjobs[p.id] = p.row
    BY <1>1 DEF SchedInv, SelectedCurrent
  <2> QED
    BY <2>1, <2>2 DEF Decided, DueSince
<1>2. Typed /\ SchedInv =>
        \A p \in pass.rows : Runs(p) /\ p.id \notin touched => Due(p)
  BY <1>1
<1> QED
  BY <1>2, Typing, Scheduled, PTL DEF Spec, RunsAreDue

\* No instant is run twice: while nobody deletes runs or CronJobs, a run is created
\* only for an instant after every run the CronJobs of its name have had, and
\* after the CronJob's creation if they had none.
THEOREM InstantsRunOnce == Spec => RunsOnce
<1>1. ASSUME Typed, SchedInv
      PROVE  \A p \in pass.rows : Runs(p) /\ ~deleted /\ runDeletes = 0 =>
                LET times == {lastRun[c] : c \in Rows(p.row.name)} \ {Unset}
                IN  \E i \in Fires[p.row.spec.schedule] :
                       /\ i <= pass.at /\ \A t \in times : t < i
                       /\ times = {} => p.row.created < i
  <2> SUFFICES ASSUME NEW p \in pass.rows, Runs(p), ~deleted, runDeletes = 0
               PROVE  LET times == {lastRun[c] : c \in Rows(p.row.name)} \ {Unset}
                      IN  \E i \in Fires[p.row.spec.schedule] :
                             /\ i <= pass.at /\ \A t \in times : t < i
                             /\ times = {} => p.row.created < i
    OBVIOUS
  <2> DEFINE times == {lastRun[c] : c \in Rows(p.row.name)} \ {Unset}
  <2>1. Decided(p)
    BY <1>1 DEF Runs, create_job_run, SchedInv, DecisionStands
  <2>2. PICK i \in Fires[p.row.spec.schedule] :
           /\ i <= pass.at
           /\ \A r \in runs : r.name = p.row.name => r.at < i
           /\ (\A r \in runs : r.name # p.row.name) => p.row.created < i
    BY <2>1 DEF Decided, DueSince
  <2>3. ASSUME NEW t \in times PROVE t < i
    <3>1. PICK c \in Rows(p.row.name) : t = lastRun[c] /\ t # Unset
      OBVIOUS
    <3>2. PICK r \in runs : r.name = p.row.name /\ r.at = t
      BY <1>1, <3>1 DEF SchedInv, RunsRemembered, Rows
    <3> QED
      BY <2>2, <3>2
  <2>4. times = {} => p.row.created < i
    <3>1. ASSUME NEW r \in runs, r.name = p.row.name PROVE times # {}
      BY <1>1, <3>1 DEF SchedInv, RunsKnown
    <3> QED
      BY <2>2, <3>1
  <2> HIDE DEF times
  <2>5. \E j \in Fires[p.row.spec.schedule] :
           /\ j <= pass.at /\ \A t \in times : t < j
           /\ times = {} => p.row.created < j
    BY <2>2, <2>3, <2>4
  <2> QED
    BY <2>5 DEF times
<1> QED
  BY <1>1, Typing, Scheduled, PTL DEF Spec, RunsOnce

=============================================================================
