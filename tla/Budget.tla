------------------------------- MODULE Budget -------------------------------
(***************************************************************************)
(* The rolling budget guard (pricing, api::budget, and the admission of a  *)
(* Job): one row of table budget_state, read and written by concurrent     *)
(* requests with an await between any two queries.                         *)
(*                                                                         *)
(*    GET settings     fetch row -> settle                                 *)
(*    POST topup       fetch row -> settle -> UPDATE balance               *)
(*    PATCH settings   fetch row -> settle -> UPDATE balance and settings  *)
(*    admit a Job      read the currency, estimate -> fetch row -> settle  *)
(*                     -> read the committed estimates -> INSERT           *)
(*                                                                         *)
(* Money is counted in whole units and time in whole days: what the row    *)
(* loses or gains when requests overlap does not depend on the grain.      *)
(* Names of jobs, and the existence check on them, are Reconciler's; the   *)
(* event recorded and the reconciler woken after a change carry no state   *)
(* that is read here.                                                      *)
(***************************************************************************)
EXTENDS Integers

CONSTANTS
    MaxRequests, \* bound on requests in flight, the scheduler's admissions among them
    MaxJobs,     \* bound on jobs
    None,        \* an absent value: SQL NULL, a field not patched
    Currencies,
    Factor,      \* units of a currency per unit of the provider's currency
    Prices,      \* what a job may cost, in the provider's currency
    Amounts,     \* amounts of a top-up
    Rates,       \* values of budget_daily_rate; 0 is "budgeting disabled"
    Caps,        \* values of budget_rollover_cap_days
    Clients,     \* how requests may overlap, see Begin
    MaxDays,     \* bound on the clock
    MaxChanges   \* bound on top-ups and patches

ASSUME MoneyAssumption ==
    /\ Currencies # {} /\ Factor \in [Currencies -> Nat \ {0}]
    /\ Prices \subseteq Nat /\ Amounts \subseteq Int
    /\ Rates \subseteq Nat /\ Caps \subseteq Nat
ASSUME RequestAssumption ==
    /\ Clients \subseteq {"sequential", "reading", "any"}
    /\ MaxRequests \in Nat /\ MaxJobs \in Nat
    /\ MaxDays \in Nat /\ MaxChanges \in Nat
    /\ None \notin Currencies \union Nat

VARIABLES
    clients,     \* how this instance's clients behave
    now,         \* Utc::now(), in days
    budget,      \* the row of budget_state
    jobs,        \* table jobs: estimated_cost, and whether the job is still running
    req,         \* the requests in flight
    changes,     \* top-ups and patches so far
    \* History, in main_currency: what accrual credited, what the settings in
    \* force each day allowed, what top-ups added; in the provider's currency,
    \* what the finished jobs cost.
    credited,
    earned,
    topped,
    spent

history == <<credited, earned, topped, spent>>
vars == <<clients, now, budget, jobs, req, changes, history>>

-----------------------------------------------------------------------------
(***************************************************************************)
(* Types and the initial state.                                            *)
(***************************************************************************)

Jobs == 1 .. MaxJobs           \* the ids of table jobs
Requests == 1 .. MaxRequests

BudgetRow == [balance : Nat, last : Nat, currency : Currencies, rate : Nat, cap : Nat]

Patch == [currency : Currencies \union {None}, rate : Rates \union {None},
          cap : Caps \union {None}]
NoPatch == [currency |-> None, rate |-> None, cap |-> None]

Request == [pc : {"idle", "fetch", "settle", "decide", "insert", "write"},
            kind : {"none", "get", "topup", "patch", "admit"},
            row : BudgetRow \union {None}, at : Nat,
            amount : Amounts \union {0}, patch : Patch,
            price : Nat, cost : Nat \union {None}]

Job == [status : {"absent", "active", "over"}, price : Nat, cost : Nat \union {None}]

IdleRequest == [pc |-> "idle", kind |-> "none", row |-> None, at |-> 0, amount |-> 0,
                patch |-> NoPatch, price |-> 0, cost |-> None]

TypeOK ==
    /\ clients \in Clients
    /\ now \in Nat
    /\ budget \in BudgetRow
    /\ jobs \in [Jobs -> Job]
    /\ req \in [Requests -> Request]
    /\ changes \in 0 .. MaxChanges
    /\ credited \in Nat /\ earned \in Nat /\ topped \in Int /\ spent \in Nat

\* ensure_budget_seeded, from the settings in config.toml.
Init ==
    /\ clients \in Clients
    /\ now = 0
    /\ \E c \in Currencies, r \in Rates, d \in Caps :
          budget = [balance |-> 0, last |-> 0, currency |-> c, rate |-> r, cap |-> d]
    /\ jobs = [j \in Jobs |-> [status |-> "absent", price |-> 0, cost |-> None]]
    /\ req = [r \in Requests |-> IdleRequest]
    /\ changes = 0
    /\ credited = 0 /\ earned = 0 /\ topped = 0 /\ spent = 0

-----------------------------------------------------------------------------
(***************************************************************************)
(* Arithmetic.                                                             *)
(***************************************************************************)

Pos(x) == IF x > 0 THEN x ELSE 0
Least(x, y) == IF x <= y THEN x ELSE y

convert(amount, from, to) == (amount * Factor[to]) \div Factor[from]

Budgeting(row) == row.rate > 0

\* What accrual adds by day t: the elapsed time at the daily rate, as far as
\* there is room below the cap.
Accrued(row, t) ==
    IF Budgeting(row)
    THEN Least(row.rate * Pos(t - row.last), Pos(row.rate * row.cap - row.balance))
    ELSE 0

\* committed_budget: the estimates of the jobs that are still running, each in
\* the currency it was computed in, summed over the table.
Claim(row) == IF row.status = "active" /\ row.cost # None THEN row.cost ELSE 0
Total(amounts, m) ==
    LET upto[n \in 0 .. m] == IF n = 0 THEN 0 ELSE upto[n - 1] + amounts[n]
    IN  upto[m]
committed_budget(table) == Total([j \in Jobs |-> Claim(table[j])], MaxJobs)
Committed == committed_budget(jobs)

-----------------------------------------------------------------------------
(***************************************************************************)
(* Requests.                                                               *)
(***************************************************************************)

Idle == \A r \in Requests : req[r].pc = "idle"

\* A client sends a request.  "sequential": one client, whose requests are each
\* answered before the next is sent and before the day is over; "reading": any
\* number at a time, but only ones that settle and do not change the budget;
\* "any": no restriction.
Begin(r, kind) ==
    /\ req[r].pc = "idle"
    /\ clients = "sequential" => r = 1 /\ Idle
    /\ clients = "reading" => kind \in {"get", "admit"}

Fetched(q, kind) == [q EXCEPT !.pc = "settle", !.kind = kind, !.row = budget, !.at = now]

get_settings(r) ==
    /\ Begin(r, "get")
    /\ req' = [req EXCEPT ![r] = Fetched(IdleRequest, "get")]
    /\ UNCHANGED <<clients, now, budget, jobs, changes, history>>

topup(r, x) ==
    /\ Begin(r, "topup")
    /\ x # 0
    /\ changes < MaxChanges
    /\ changes' = changes + 1
    /\ req' = [req EXCEPT ![r] = [Fetched(IdleRequest, "topup") EXCEPT !.amount = x]]
    /\ UNCHANGED <<clients, now, budget, jobs, history>>

patch_settings(r, p) ==
    /\ Begin(r, "patch")
    /\ changes < MaxChanges
    /\ changes' = changes + 1
    /\ req' = [req EXCEPT ![r] = [Fetched(IdleRequest, "patch") EXCEPT !.patch = p]]
    /\ UNCHANGED <<clients, now, budget, jobs, history>>

\* effective_main_currency and estimate_job_cost: an unpriced job has no
\* estimate and is always admitted.
estimate_job_cost(r, price, priced) ==
    /\ Begin(r, "admit")
    /\ req' = [req EXCEPT ![r] =
                 [IdleRequest EXCEPT !.pc = "fetch", !.kind = "admit", !.price = price,
                    !.cost = IF priced THEN price * Factor[budget.currency] ELSE None]]
    /\ UNCHANGED <<clients, now, budget, jobs, changes, history>>

fetch_budget_row(r) ==
    /\ req[r].pc = "fetch"
    /\ req' = [req EXCEPT ![r] = Fetched(req[r], req[r].kind)]
    /\ UNCHANGED <<clients, now, budget, jobs, changes, history>>

AfterSettle == [get |-> "idle", topup |-> "write", patch |-> "write", admit |-> "decide"]
Settled(q, gain) ==
    IF q.kind = "get" THEN IdleRequest
    ELSE [q EXCEPT !.pc = AfterSettle[q.kind], !.row.balance = @ + gain]

\* Mutant of settle_accrual: while budgeting is disabled the clock stands still.
settle_accrual_stops_clock(r, t) ==
    /\ req[r].pc = "settle" /\ t >= req[r].at /\ t <= now
    /\ LET row == req[r].row
           gain == Accrued(row, t)
       IN  /\ budget' = IF Budgeting(row)
                        THEN [budget EXCEPT !.balance = row.balance + gain, !.last = t]
                        ELSE budget
           /\ credited' = credited + gain
           /\ req' = [req EXCEPT ![r] = Settled(req[r], gain)]
    /\ UNCHANGED <<clients, now, jobs, changes, earned, topped, spent>>

\* Mutant of settle_accrual: last_accrual_at is not moved along.
settle_accrual_again(r, t) ==
    /\ req[r].pc = "settle" /\ t >= req[r].at /\ t <= now
    /\ LET row == req[r].row
           gain == Accrued(row, t)
       IN  /\ budget' = [budget EXCEPT !.balance = row.balance + gain]
           /\ credited' = credited + gain
           /\ req' = [req EXCEPT ![r] = Settled(req[r], gain)]
    /\ UNCHANGED <<clients, now, jobs, changes, earned, topped, spent>>

\* UPDATE budget_state from the row fetched and the time t read after that; a
\* disabled budget only has its last_accrual_at moved along.
settle_accrual(r, t) ==
    /\ req[r].pc = "settle" /\ t >= req[r].at /\ t <= now
    /\ LET row == req[r].row
           gain == Accrued(row, t)
       IN  /\ budget' = IF Budgeting(row)
                        THEN [budget EXCEPT !.balance = row.balance + gain, !.last = t]
                        ELSE [budget EXCEPT !.last = t]
           /\ credited' = credited + gain
           /\ req' = [req EXCEPT ![r] = Settled(req[r], gain)]
    /\ UNCHANGED <<clients, now, jobs, changes, earned, topped, spent>>

\* Mutant of apply_topup: without the clamp at zero.
apply_topup_unclamped(r) ==
    /\ req[r].pc = "write" /\ req[r].kind = "topup"
    /\ budget' = [budget EXCEPT !.balance = req[r].row.balance + req[r].amount]
    /\ topped' = topped + req[r].amount
    /\ req' = [req EXCEPT ![r] = IdleRequest]
    /\ UNCHANGED <<clients, now, jobs, changes, credited, earned, spent>>

\* The top-up's own UPDATE: the settled balance plus the amount, not below zero.
apply_topup(r) ==
    /\ req[r].pc = "write" /\ req[r].kind = "topup"
    /\ LET balance == req[r].row.balance
           new_balance == Pos(balance + req[r].amount)
       IN  /\ budget' = [budget EXCEPT !.balance = new_balance]
           /\ topped' = topped + (new_balance - balance)
    /\ req' = [req EXCEPT ![r] = IdleRequest]
    /\ UNCHANGED <<clients, now, jobs, changes, credited, earned, spent>>

\* The settings as patched.  A new currency converts the balance and, unless
\* the patch overrides it, the daily rate.
Patched(row, p) ==
    LET to == IF p.currency = None THEN row.currency ELSE p.currency
        Or(value, default) == IF value = None THEN default ELSE value
    IN  [balance |-> convert(row.balance, row.currency, to), currency |-> to,
         rate |-> Or(p.rate, convert(row.rate, row.currency, to)),
         cap |-> Or(p.cap, row.cap)]

\* The UPDATE of PATCH /settings: everything but last_accrual_at.
apply_patch(r) ==
    /\ req[r].pc = "write" /\ req[r].kind = "patch"
    /\ LET new == Patched(req[r].row, req[r].patch)
           In(amount) == convert(amount, req[r].row.currency, new.currency)
       IN  /\ budget' = [budget EXCEPT !.balance = new.balance, !.currency = new.currency,
                                       !.rate = new.rate, !.cap = new.cap]
           /\ credited' = In(credited)
           /\ earned' = In(earned)
           /\ topped' = In(topped)
    /\ req' = [req EXCEPT ![r] = IdleRequest]
    /\ UNCHANGED <<clients, now, jobs, changes, spent>>

\* No exchange rate cached for a new currency: 409, with the accrual settled.
conversion_unavailable(r) ==
    /\ req[r].pc = "write" /\ req[r].kind = "patch"
    /\ req[r].patch.currency \notin {None, req[r].row.currency}
    /\ req' = [req EXCEPT ![r] = IdleRequest]
    /\ UNCHANGED <<clients, now, budget, jobs, changes, history>>

\* Mutant of check_budget: compares with the whole balance.
check_budget_ignores_committed(r) ==
    /\ req[r].pc = "decide"
    /\ LET q == req[r]
           sufficient == \/ ~Budgeting(q.row) \/ q.cost = None
                         \/ q.row.balance >= q.cost
       IN  req' = [req EXCEPT ![r] = IF sufficient THEN [q EXCEPT !.pc = "insert"]
                                                   ELSE IdleRequest]
    /\ UNCHANGED <<clients, now, budget, jobs, changes, history>>

\* available_budget's second half and the comparison: without a budget or
\* without an estimate every job passes.
check_budget(r) ==
    /\ req[r].pc = "decide"
    /\ LET q == req[r]
           sufficient == \/ ~Budgeting(q.row) \/ q.cost = None
                         \/ q.row.balance - Committed >= q.cost
       IN  req' = [req EXCEPT ![r] = IF sufficient THEN [q EXCEPT !.pc = "insert"]
                                                   ELSE IdleRequest]
    /\ UNCHANGED <<clients, now, budget, jobs, changes, history>>

\* INSERT INTO jobs, with the estimate, as the next row of the table.
create_job(r, j) ==
    /\ req[r].pc = "insert"
    /\ jobs[j].status = "absent" /\ \A i \in Jobs : i < j => jobs[i].status # "absent"
    /\ jobs' = [jobs EXCEPT ![j] =
                   [status |-> "active", price |-> req[r].price, cost |-> req[r].cost]]
    /\ req' = [req EXCEPT ![r] = IdleRequest]
    /\ UNCHANGED <<clients, now, budget, changes, history>>

\* A query fails, the client goes away or the process dies: what was written
\* stays.
abandon(r) ==
    /\ req[r].pc # "idle"
    /\ req' = [req EXCEPT ![r] = IdleRequest]
    /\ UNCHANGED <<clients, now, budget, jobs, changes, history>>

\* handle_container_running or force_failed: the job is over, having cost at
\* most its price.  actual_cost goes into the job's row; budget_state is not
\* touched.
record_completion(j, actual) ==
    /\ jobs[j].status = "active"
    /\ actual <= jobs[j].price
    /\ jobs' = [jobs EXCEPT ![j].status = "over"]
    /\ spent' = IF jobs[j].cost = None THEN spent ELSE spent + actual
    /\ UNCHANGED <<clients, now, budget, req, changes, credited, earned, topped>>

day_passes ==
    /\ now < MaxDays
    /\ clients = "sequential" => Idle
    /\ now' = now + 1
    /\ earned' = earned + budget.rate
    /\ UNCHANGED <<clients, budget, jobs, req, changes, credited, topped, spent>>

-----------------------------------------------------------------------------

Next ==
    \/ \E r \in Requests :
          \/ get_settings(r)
          \/ \E x \in Amounts : topup(r, x)
          \/ \E p \in Patch : patch_settings(r, p)
          \/ \E price \in Prices, priced \in BOOLEAN : estimate_job_cost(r, price, priced)
          \/ fetch_budget_row(r)
          \/ \E t \in 0 .. now : settle_accrual(r, t)
          \/ apply_topup(r) \/ apply_patch(r) \/ conversion_unavailable(r)
          \/ check_budget(r) \/ (\E j \in Jobs : create_job(r, j)) \/ abandon(r)
    \/ \E j \in Jobs, actual \in Prices \union {0} : record_completion(j, actual)
    \/ day_passes

Spec == Init /\ [][Next]_vars

-----------------------------------------------------------------------------
(***************************************************************************)
(* Properties.                                                             *)
(***************************************************************************)

\* Overlapping settle_accrual calls neither lose nor double accrual: while
\* nobody tops up or patches, the balance is exactly what the daily rate gives
\* by last_accrual_at, up to the rollover cap, although every request writes
\* back a row it read earlier and may set last_accrual_at back.
AccrualExact ==
    clients = "reading" =>
        /\ budget.last <= now
        /\ budget.balance = Least(budget.rate * budget.last, budget.rate * budget.cap)

\* settle_accrual never credits a day more than the settings in force on that
\* day allowed: days that passed while budgeting was disabled stay unpaid when
\* it is enabled ("Disabled" must mean "no accrual happens going forward," not
\* "stop the clock").
NoBackdatedAccrual == clients = "sequential" => credited <= earned

\* check_budget and the INSERT are two steps, and nothing holds the balance in
\* between: admissions that overlap may each be covered alone and not
\* together.  How far that goes: with MaxRequests admissions in flight at a
\* time, the estimates of the jobs running never exceed MaxRequests times what
\* the rollover cap lets the balance reach (once, when admissions come one at a
\* time).  While nobody tops up or patches, so that the settings, and the
\* currency of every estimate, are the seeded ones.
OvercommitBounded ==
    clients = "reading" /\ Budgeting(budget) =>
        Committed <= MaxRequests * (budget.rate * budget.cap)

\* A top-up adds its amount to the balance as it is then (or takes what there
\* is, when negative): nothing another request has written is lost.
TopUpAdds ==
    [][\A r \in Requests : apply_topup(r) =>
          budget'.balance = Pos(budget.balance + req[r].amount)]_vars

\* "The balance decrements by the job's actual cost once it completes"
\* (docs/IMPLEMENTATION_PLAN.md:889): all that priced jobs have cost is covered
\* by what accrual and top-ups have put into the budget.  Meant for instances
\* where budgeting is never disabled and no top-up is negative.
SpendingCovered == spent * Factor[budget.currency] <= credited + topped

=============================================================================
