---------------------------- MODULE BudgetProofs ----------------------------
(***************************************************************************)
(* Proofs about Budget for any number of requests and jobs, any prices,    *)
(* rates, caps and currencies: the stored balance is never negative        *)
(* (TypeOK), settling from a row read earlier is harmless among requests   *)
(* that only settle (AccrualExact), no day is paid that the settings did   *)
(* not allow (NoBackdatedAccrual), and admissions that overlap commit at   *)
(* most the ceiling of the balance once each (OvercommitBounded).          *)
(***************************************************************************)
EXTENDS Budget, WellFoundedInduction, TLAPS

-----------------------------------------------------------------------------
(***************************************************************************)
(* Arithmetic.                                                             *)
(***************************************************************************)

\* currency::convert keeps an amount an amount, and one that is not negative so.
LEMMA ConvertType ==
    ASSUME NEW a \in Int, NEW from \in Currencies, NEW to \in Currencies
    PROVE  /\ convert(a, from, to) \in Int
           /\ a >= 0 => convert(a, from, to) \in Nat
  <1>1. Factor[from] \in Nat \ {0} /\ Factor[to] \in Nat \ {0}
    BY MoneyAssumption
  <1>2. a * Factor[to] \in Int
    BY <1>1
  <1>3. ASSUME a >= 0  PROVE a * Factor[to] >= 0
    BY <1>1, <1>3
  <1>4. ASSUME NEW x \in Int, NEW d \in Nat \ {0}
        PROVE  x \div d \in Int /\ (x >= 0 => x \div d >= 0)
    OBVIOUS
  <1> QED BY <1>1, <1>2, <1>3, <1>4 DEF convert

\* currency::convert keeps the order of two amounts.
LEMMA ConvertMonotone ==
    ASSUME NEW a \in Nat, NEW b \in Nat, a <= b,
           NEW from \in Currencies, NEW to \in Currencies
    PROVE  convert(a, from, to) <= convert(b, from, to)
  <1>1. Factor[from] \in Nat \ {0} /\ Factor[to] \in Nat \ {0}
    BY MoneyAssumption
  <1>2. a * Factor[to] \in Nat /\ b * Factor[to] \in Nat
    BY <1>1
  <1>3. a * Factor[to] <= b * Factor[to]
    <2>1. (b - a) * Factor[to] >= 0
      BY <1>1
    <2>2. (b - a) * Factor[to] = b * Factor[to] - a * Factor[to]
      BY <1>1
    <2> QED BY <2>1, <2>2, <1>2
  <1>4. ASSUME NEW x \in Nat, NEW y \in Nat, x <= y, NEW d \in Nat \ {0}
        PROVE  x \div d <= y \div d
    <2> DEFINE q == x \div d
               p == y \div d
    <2>1. q \in Int /\ p \in Int
      BY <1>4
    <2>2. d * q <= x /\ y < d * (p + 1)
      BY <1>4
    <2>3. d * (p + 1 - q) = d * (p + 1) - d * q
      BY <2>1, <1>4
    <2>4. d * (p + 1 - q) > 0
      BY <2>1, <2>2, <2>3, <1>4
    <2>5. ASSUME p + 1 - q <= 0  PROVE d * (p + 1 - q) <= 0
      BY <2>1, <2>5, <1>4
    <2> QED BY <2>1, <2>4, <2>5
  <1> QED BY <1>1, <1>2, <1>3, <1>4 DEF convert

\* The accrual curve: what the daily rate gives by the day the row was last
\* settled, up to the rollover cap.
OnCurve(row) == row.balance = Least(row.rate * row.last, row.rate * row.cap)

\* What accrual adds is never negative.
LEMMA AccruedType ==
    ASSUME NEW row \in BudgetRow, NEW t \in Nat
    PROVE  Accrued(row, t) \in Nat
  <1>1. row.rate \in Nat /\ row.cap \in Nat /\ row.last \in Nat /\ row.balance \in Nat
    BY DEF BudgetRow
  <1>2. Pos(t - row.last) \in Nat
    BY <1>1 DEF Pos
  <1>3. row.rate * Pos(t - row.last) \in Nat
    BY <1>1, <1>2
  <1>4. Pos(row.rate * row.cap - row.balance) \in Nat
    BY <1>1 DEF Pos
  <1> QED BY <1>3, <1>4 DEF Accrued, Least

\* settle_accrual moves a row along the curve, whatever row it started from.
LEMMA AccruedOnCurve ==
    ASSUME NEW row \in BudgetRow, OnCurve(row), NEW t \in Nat, row.last <= t
    PROVE  row.balance + Accrued(row, t) = Least(row.rate * t, row.rate * row.cap)
  <1>1. row.rate \in Nat /\ row.cap \in Nat /\ row.last \in Nat /\ row.balance \in Nat
    BY DEF BudgetRow
  <1> DEFINE R == row.rate
             A == R * row.last
             B == R * t
             C == R * row.cap
  <1>2. A \in Nat /\ B \in Nat /\ C \in Nat
    BY <1>1
  <1>3. R * (t - row.last) = B - A
    BY <1>1
  <1>4. t - row.last \in Nat /\ R * (t - row.last) \in Nat
    BY <1>1
  <1>5. Pos(t - row.last) = t - row.last
    BY <1>4 DEF Pos
  <1>6. row.balance = Least(A, C)
    BY DEF OnCurve
  <1>7. CASE R > 0
    <2>1. Accrued(row, t) = Least(B - A, Pos(C - row.balance))
      BY <1>3, <1>5, <1>7 DEF Accrued, Budgeting
    <2>2. A <= B
      BY <1>2, <1>3, <1>4
    <2> HIDE DEF R, A, B, C
    <2>3. row.balance + Least(B - A, Pos(C - row.balance)) = Least(B, C)
      BY <2>2, <1>1, <1>2, <1>6 DEF Least, Pos
    <2> QED BY <2>1, <2>3 DEF R, B, C
  <1>8. CASE R = 0
    <2>1. A = 0 /\ B = 0 /\ C = 0
      BY <1>1, <1>8
    <2>2. row.balance = 0 /\ Accrued(row, t) = 0
      BY <2>1, <1>6, <1>8 DEF Least, Accrued, Budgeting
    <2> QED BY <2>1, <2>2 DEF Least
  <1> QED BY <1>1, <1>7, <1>8

-----------------------------------------------------------------------------
(***************************************************************************)
(* The inductive invariant.                                                *)
(***************************************************************************)

\* A request in flight is of some kind, and past its fetch it holds a row of
\* the table.
RowsFetched ==
    \A r \in Requests : req[r].pc # "idle" =>
       /\ req[r].kind # "none"
       /\ req[r].pc # "fetch" => req[r].row \in BudgetRow

\* Among requests that only settle, the table and every row held lie on one
\* accrual curve; a row is not from the future.
RowsOnCurve ==
    clients = "reading" =>
        /\ budget.last <= now /\ OnCurve(budget)
        /\ \A r \in Requests :
              /\ req[r].kind \notin {"topup", "patch"}
              /\ req[r].pc = "settle" =>
                    /\ OnCurve(req[r].row)
                    /\ req[r].row.last <= req[r].at
                    /\ req[r].row.rate = budget.rate /\ req[r].row.cap = budget.cap

\* With one request at a time, a row held is the one stored, read today, and
\* once settled it is settled up to today; what is still to be accrued was
\* allowed on the days it is for.
OneAtATime ==
    clients = "sequential" =>
        /\ budget.last <= now
        /\ credited + budget.rate * (now - budget.last) <= earned
        /\ \A r, q \in Requests : req[r].pc # "idle" /\ req[q].pc # "idle" => r = q
        /\ \A r \in Requests :
              /\ req[r].pc = "settle" => req[r].row = budget /\ req[r].at = now
              /\ req[r].pc = "write" =>
                    /\ budget.last = now
                    /\ req[r].row.currency = budget.currency
                    /\ req[r].row.balance = budget.balance

IndInv == TypeOK /\ RowsFetched /\ RowsOnCurve /\ OneAtATime

\* A request that has just fetched the row holds the row stored and today's date.
LEMMA FetchedType ==
    ASSUME TypeOK, NEW q \in Request, NEW kind \in {"get", "topup", "patch", "admit"}
    PROVE  /\ Fetched(q, kind) \in Request
           /\ Fetched(q, kind).pc = "settle" /\ Fetched(q, kind).kind = kind
           /\ Fetched(q, kind).row = budget /\ Fetched(q, kind).at = now
  BY DEF TypeOK, Fetched, Request

\* A request that is not in flight.
LEMMA IdleType ==
    IdleRequest \in Request /\ IdleRequest.pc = "idle" /\ IdleRequest.kind = "none"
  BY DEF IdleRequest, Request, NoPatch, Patch

\* A request that has settled keeps its kind and a row in the same currency; a
\* GET /settings is answered.
LEMMA SettledType ==
    ASSUME NEW q \in Request, q.row \in BudgetRow, NEW gain \in Nat,
           q.kind \in {"get", "topup", "patch", "admit"}
    PROVE  /\ Settled(q, gain) \in Request
           /\ Settled(q, gain).pc # "idle" =>
                 Settled(q, gain).row \in BudgetRow /\ Settled(q, gain).kind = q.kind
           /\ Settled(q, gain).pc # "settle"
           /\ Settled(q, gain).kind \in {"none", q.kind}
           /\ Settled(q, gain).pc = "write" =>
                 /\ Settled(q, gain).row.currency = q.row.currency
                 /\ Settled(q, gain).row.balance = q.row.balance + gain
  <1>1. CASE q.kind = "get"
    BY <1>1, IdleType DEF Settled
  <1>2. CASE q.kind # "get"
    <2> DEFINE row == [q.row EXCEPT !.balance = @ + gain]
               pc == AfterSettle[q.kind]
    <2>1. /\ row \in BudgetRow /\ row.currency = q.row.currency
          /\ row.balance = q.row.balance + gain
      BY DEF BudgetRow
    <2>2. pc \in {"write", "decide"}
      BY <1>2 DEF AfterSettle
    <2>3. Settled(q, gain) = [q EXCEPT !.pc = pc, !.row = row]
      BY <1>2 DEF Settled, Request
    <2> HIDE DEF row, pc
    <2> QED BY <2>1, <2>2, <2>3 DEF Request
  <1> QED BY <1>1, <1>2

\* Only one request moves in a step of a request.
Moves(r, q) == req' = [req EXCEPT ![r] = q]

\* The parts of the invariant about requests, for the one that moves.
LEMMA MoveType ==
    ASSUME TypeOK, RowsFetched, NEW r \in Requests, NEW q \in Request, Moves(r, q),
           q.pc # "idle" => q.kind # "none" /\ (q.pc # "fetch" => q.row \in BudgetRow)
    PROVE  req' \in [Requests -> Request] /\ RowsFetched'
  BY DEF TypeOK, RowsFetched, Moves

\* The seeded row starts at zero on every curve, with nothing in flight.
LEMMA InitInd == Init => IndInv
  <1> SUFFICES ASSUME Init PROVE IndInv
    OBVIOUS
  <1>1. TypeOK
    BY IdleType, MoneyAssumption, RequestAssumption DEF Init, TypeOK, BudgetRow, Job
  <1>2. RowsFetched
    BY IdleType DEF Init, RowsFetched
  <1>3. RowsOnCurve
    BY IdleType, MoneyAssumption DEF Init, RowsOnCurve, OnCurve, Least
  <1>4. OneAtATime
    BY IdleType, MoneyAssumption DEF Init, OneAtATime
  <1> QED BY <1>1, <1>2, <1>3, <1>4 DEF IndInv

\* Every step keeps the types and leaves requests with the rows they need.
LEMMA TypeStep ==
    ASSUME TypeOK, RowsFetched, [Next]_vars
    PROVE  TypeOK' /\ RowsFetched'
  <1> USE DEF history
  <1>1. ASSUME NEW r \in Requests, get_settings(r)  PROVE TypeOK' /\ RowsFetched'
    <2>1. Moves(r, Fetched(IdleRequest, "get"))
      BY <1>1 DEF get_settings, Moves
    <2>2. req' \in [Requests -> Request] /\ RowsFetched'
      BY <2>1, MoveType, FetchedType, IdleType DEF TypeOK
    <2> QED BY <1>1, <2>2 DEF get_settings, TypeOK
  <1>2. ASSUME NEW r \in Requests, NEW x \in Amounts, topup(r, x)
        PROVE  TypeOK' /\ RowsFetched'
    <2> DEFINE q == [Fetched(IdleRequest, "topup") EXCEPT !.amount = x]
    <2>1. Moves(r, q)
      BY <1>2 DEF topup, Moves
    <2>2. Fetched(IdleRequest, "topup") \in Request
      BY FetchedType, IdleType
    <2>3. q \in Request /\ q.pc = "settle" /\ q.kind = "topup" /\ q.row = budget
      BY <2>2, FetchedType, IdleType DEF Request
    <2> HIDE DEF q
    <2>4. req' \in [Requests -> Request] /\ RowsFetched'
      BY <2>1, <2>3, MoveType DEF TypeOK
    <2> QED BY <1>2, <2>4, RequestAssumption DEF topup, TypeOK
  <1>3. ASSUME NEW r \in Requests, NEW p \in Patch, patch_settings(r, p)
        PROVE  TypeOK' /\ RowsFetched'
    <2> DEFINE q == [Fetched(IdleRequest, "patch") EXCEPT !.patch = p]
    <2>1. Moves(r, q)
      BY <1>3 DEF patch_settings, Moves
    <2>2. Fetched(IdleRequest, "patch") \in Request
      BY FetchedType, IdleType
    <2>3. q \in Request /\ q.pc = "settle" /\ q.kind = "patch" /\ q.row = budget
      BY <2>2, FetchedType, IdleType DEF Request
    <2> HIDE DEF q
    <2>4. req' \in [Requests -> Request] /\ RowsFetched'
      BY <2>1, <2>3, MoveType DEF TypeOK
    <2> QED BY <1>3, <2>4, RequestAssumption DEF patch_settings, TypeOK
  <1>4. ASSUME NEW r \in Requests, NEW price \in Prices,
               NEW priced \in BOOLEAN, estimate_job_cost(r, price, priced)
        PROVE  TypeOK' /\ RowsFetched'
    <2> DEFINE cost == IF priced THEN price * Factor[budget.currency] ELSE None
               q == [IdleRequest EXCEPT !.pc = "fetch", !.kind = "admit",
                       !.price = price, !.cost = cost]
    <2>1. Moves(r, q)
      BY <1>4 DEF estimate_job_cost, Moves
    <2>2. price \in Nat /\ Factor[budget.currency] \in Nat
      BY MoneyAssumption DEF TypeOK, BudgetRow
    <2>3. cost \in Nat \union {None}
      BY <2>2
    <2> HIDE DEF cost
    <2>4. q \in Request /\ q.pc = "fetch" /\ q.kind = "admit"
      BY <2>2, <2>3, IdleType DEF Request
    <2> HIDE DEF q
    <2>5. req' \in [Requests -> Request] /\ RowsFetched'
      BY <2>1, <2>4, MoveType
    <2> QED BY <1>4, <2>5 DEF estimate_job_cost, TypeOK
  <1>5. ASSUME NEW r \in Requests, fetch_budget_row(r)  PROVE TypeOK' /\ RowsFetched'
    <2>1. Moves(r, Fetched(req[r], req[r].kind))
      BY <1>5 DEF fetch_budget_row, Moves
    <2>2. req[r] \in Request /\ req[r].kind \in {"get", "topup", "patch", "admit"}
      BY <1>5 DEF fetch_budget_row, TypeOK, RowsFetched, Request
    <2>3. req' \in [Requests -> Request] /\ RowsFetched'
      BY <2>1, <2>2, MoveType, FetchedType DEF TypeOK
    <2> QED BY <1>5, <2>3 DEF fetch_budget_row, TypeOK
  <1>6. ASSUME NEW r \in Requests, NEW t \in 0 .. now, settle_accrual(r, t)
        PROVE  TypeOK' /\ RowsFetched'
    <2> DEFINE row == req[r].row
               gain == Accrued(row, t)
    <2>1. req[r] \in Request /\ row \in BudgetRow
          /\ req[r].kind \in {"get", "topup", "patch", "admit"}
      BY <1>6 DEF settle_accrual, TypeOK, RowsFetched, Request
    <2>2. t \in Nat /\ gain \in Nat
      BY <2>1, AccruedType DEF TypeOK
    <2>3. Moves(r, Settled(req[r], gain))
      BY <1>6 DEF settle_accrual, Moves
    <2> DEFINE q == Settled(req[r], gain)
    <2>4. req' \in [Requests -> Request] /\ RowsFetched'
      <3>1. /\ q \in Request
            /\ q.pc # "idle" => q.row \in BudgetRow /\ q.kind # "none"
        BY <2>1, <2>2, SettledType
      <3> HIDE DEF q
      <3> QED BY <3>1, <2>3, MoveType DEF q
    <2>5. budget' \in BudgetRow
      <3>1. \/ budget' = [budget EXCEPT !.balance = row.balance + gain, !.last = t]
            \/ budget' = [budget EXCEPT !.last = t]
        BY <1>6 DEF settle_accrual
      <3>2. row.balance + gain \in Nat
        BY <2>1, <2>2 DEF BudgetRow
      <3> DEFINE sum == row.balance + gain
      <3> HIDE DEF sum
      <3> QED BY <3>1, <3>2, <2>2 DEF TypeOK, BudgetRow, sum
    <2>6. credited' \in Nat
      BY <1>6, <2>2 DEF settle_accrual, TypeOK
    <2> QED BY <1>6, <2>4, <2>5, <2>6 DEF settle_accrual, TypeOK
  <1>7. ASSUME NEW r \in Requests, apply_topup(r)  PROVE TypeOK' /\ RowsFetched'
    <2>1. req' \in [Requests -> Request] /\ RowsFetched'
      BY <1>7, MoveType, IdleType DEF apply_topup, Moves
    <2>2. req[r].row.balance \in Nat /\ req[r].amount \in Int
      BY <1>7, MoneyAssumption
         DEF apply_topup, TypeOK, RowsFetched, Request, BudgetRow
    <2>3. Pos(req[r].row.balance + req[r].amount) \in Nat
      BY <2>2 DEF Pos
    <2> QED BY <1>7, <2>1, <2>2, <2>3 DEF apply_topup, TypeOK, BudgetRow
  <1>8. ASSUME NEW r \in Requests, apply_patch(r)  PROVE TypeOK' /\ RowsFetched'
    <2>1. req' \in [Requests -> Request] /\ RowsFetched'
      BY <1>8, MoveType, IdleType DEF apply_patch, Moves
    <2> DEFINE row == req[r].row
               p == req[r].patch
               to == IF p.currency = None THEN row.currency ELSE p.currency
               new == Patched(row, p)
    <2>2. row \in BudgetRow /\ p \in Patch
      BY <1>8 DEF apply_patch, TypeOK, RowsFetched, Request
    <2>3. row.currency \in Currencies /\ to \in Currencies
      BY <2>2 DEF BudgetRow, Patch
    <2>4. convert(row.balance, row.currency, to) \in Nat
          /\ convert(row.rate, row.currency, to) \in Nat
      BY <2>2, <2>3, ConvertType DEF BudgetRow
    <2>5. /\ new.balance \in Nat /\ new.currency = to
          /\ new.rate \in Nat /\ new.cap \in Nat
      BY <2>2, <2>4, MoneyAssumption DEF Patched, BudgetRow, Patch
    <2> HIDE DEF new, to
    <2>6. budget' \in BudgetRow
      <3>1. budget' = [budget EXCEPT !.balance = new.balance, !.currency = new.currency,
                                     !.rate = new.rate, !.cap = new.cap]
        BY <1>8 DEF apply_patch, new
      <3> QED BY <3>1, <2>3, <2>5 DEF TypeOK, BudgetRow
    <2>7. /\ credited' = convert(credited, row.currency, to)
          /\ earned' = convert(earned, row.currency, to)
          /\ topped' = convert(topped, row.currency, to)
      BY <1>8, <2>5 DEF apply_patch, new
    <2>8. credited' \in Nat /\ earned' \in Nat /\ topped' \in Int
      BY <2>3, <2>7, ConvertType DEF TypeOK
    <2> QED BY <1>8, <2>1, <2>6, <2>8 DEF apply_patch, TypeOK
  <1>9. ASSUME NEW r \in Requests, conversion_unavailable(r)  PROVE TypeOK' /\ RowsFetched'
    <2>1. req' \in [Requests -> Request] /\ RowsFetched'
      BY <1>9, MoveType, IdleType DEF conversion_unavailable, Moves
    <2> QED BY <1>9, <2>1 DEF conversion_unavailable, TypeOK
  <1>10. ASSUME NEW r \in Requests, check_budget(r)  PROVE TypeOK' /\ RowsFetched'
    <2>1. \/ Moves(r, IdleRequest)
          \/ Moves(r, [req[r] EXCEPT !.pc = "insert"])
      BY <1>10 DEF check_budget, Moves
    <2>2. req[r] \in Request /\ req[r].row \in BudgetRow /\ req[r].kind # "none"
      BY <1>10 DEF check_budget, TypeOK, RowsFetched
    <2> DEFINE q == [req[r] EXCEPT !.pc = "insert"]
    <2>3. q \in Request /\ q.row \in BudgetRow /\ q.kind # "none"
      BY <2>2 DEF Request
    <2> HIDE DEF q
    <2>4. req' \in [Requests -> Request] /\ RowsFetched'
      BY <2>1, <2>3, MoveType, IdleType DEF q
    <2> QED BY <1>10, <2>4 DEF check_budget, TypeOK
  <1>11. ASSUME NEW r \in Requests, NEW j \in Jobs, create_job(r, j)
         PROVE  TypeOK' /\ RowsFetched'
    <2>1. req' \in [Requests -> Request] /\ RowsFetched'
      BY <1>11, MoveType, IdleType DEF create_job, Moves
    <2>2. [status |-> "active", price |-> req[r].price, cost |-> req[r].cost] \in Job
      BY DEF TypeOK, Request, Job
    <2>3. jobs' \in [Jobs -> Job]
      BY <1>11, <2>2 DEF create_job, TypeOK
    <2> QED BY <1>11, <2>1, <2>3 DEF create_job, TypeOK
  <1>12. ASSUME NEW r \in Requests, abandon(r)  PROVE TypeOK' /\ RowsFetched'
    <2>1. req' \in [Requests -> Request] /\ RowsFetched'
      BY <1>12, MoveType, IdleType DEF abandon, Moves
    <2> QED BY <1>12, <2>1 DEF abandon, TypeOK
  <1>13. ASSUME NEW j \in Jobs, NEW actual \in Prices \union {0},
                record_completion(j, actual)
         PROVE  TypeOK' /\ RowsFetched'
    <2>1. jobs' \in [Jobs -> Job]
      BY <1>13 DEF record_completion, TypeOK, Job
    <2>2. spent' \in Nat
      BY <1>13, MoneyAssumption DEF record_completion, TypeOK
    <2> QED BY <1>13, <2>1, <2>2 DEF record_completion, TypeOK, RowsFetched
  <1>14. ASSUME day_passes  PROVE TypeOK' /\ RowsFetched'
    <2>1. budget.rate \in Nat
      BY DEF TypeOK, BudgetRow
    <2> QED BY <1>14, <2>1 DEF day_passes, TypeOK, RowsFetched
  <1>15. ASSUME UNCHANGED vars  PROVE TypeOK' /\ RowsFetched'
    BY <1>15 DEF vars, TypeOK, RowsFetched
  <1> QED
    BY <1>1, <1>2, <1>3, <1>4, <1>5, <1>6, <1>7, <1>8, <1>9, <1>10, <1>11, <1>12,
       <1>13, <1>14, <1>15 DEF Next

\* RowsOnCurve after a step of one request, from what it holds then.
LEMMA MoveOnCurve ==
    ASSUME TypeOK, RowsOnCurve, clients = "reading",
           budget'.last <= now', OnCurve(budget'),
           budget'.rate = budget.rate, budget'.cap = budget.cap,
           NEW r \in Requests, NEW q \in Request, Moves(r, q),
           q.kind \notin {"topup", "patch"},
           q.pc = "settle" => /\ OnCurve(q.row) /\ q.row.last <= q.at
                              /\ q.row.rate = budget.rate /\ q.row.cap = budget.cap
    PROVE  RowsOnCurve'
  <1>1. \A s \in Requests : req'[s] = IF s = r THEN q ELSE req[s]
    BY DEF TypeOK, Moves
  <1> QED BY <1>1 DEF RowsOnCurve, OnCurve

\* Settling from a row read earlier moves the stored row along the curve,
\* backwards perhaps.
LEMMA CurveStep ==
    ASSUME TypeOK, RowsFetched, RowsOnCurve, [Next]_vars
    PROVE  RowsOnCurve'
  <1>0. clients' = clients
    BY DEF Next, vars, get_settings, topup, patch_settings, estimate_job_cost,
           fetch_budget_row, settle_accrual, apply_topup, apply_patch,
           conversion_unavailable, check_budget, create_job, abandon,
           record_completion, day_passes
  <1> SUFFICES ASSUME clients = "reading" PROVE RowsOnCurve'
    BY <1>0 DEF RowsOnCurve
  <1> USE DEF history
  <1>1. budget.last <= now /\ OnCurve(budget)
    BY DEF RowsOnCurve
  <1>2. ASSUME NEW r \in Requests, NEW q \in Request, Moves(r, q),
               budget' = budget, now' = now,
               q.kind \notin {"topup", "patch"},
               q.pc = "settle" => q.row = budget /\ q.at = now
        PROVE  RowsOnCurve'
    BY <1>1, <1>2, MoveOnCurve DEF OnCurve
  <1>3. ASSUME NEW r \in Requests, get_settings(r)  PROVE RowsOnCurve'
    <2>1. Moves(r, Fetched(IdleRequest, "get")) /\ budget' = budget /\ now' = now
      BY <1>3 DEF get_settings, Moves
    <2> QED BY <2>1, <1>2, FetchedType, IdleType
  <1>4. ASSUME NEW r \in Requests,
               \/ \E x \in Amounts : topup(r, x)
               \/ \E p \in Patch : patch_settings(r, p)
               \/ apply_topup(r) \/ apply_patch(r) \/ conversion_unavailable(r)
        PROVE  FALSE
    BY <1>4 DEF topup, patch_settings, Begin, apply_topup, apply_patch,
                conversion_unavailable, RowsOnCurve
  <1>5. ASSUME NEW r \in Requests, NEW price \in Prices,
               NEW priced \in BOOLEAN, estimate_job_cost(r, price, priced)
        PROVE  RowsOnCurve'
    <2>1. req'[r].pc = "fetch" /\ req'[r].kind = "admit"
      BY <1>5 DEF estimate_job_cost, TypeOK, IdleRequest
    <2>2. Moves(r, req'[r]) /\ budget' = budget /\ now' = now
      BY <1>5 DEF estimate_job_cost, Moves, TypeOK
    <2>3. req'[r] \in Request
      BY <1>5, TypeStep DEF TypeOK
    <2> QED BY <2>1, <2>2, <2>3, <1>2
  <1>6. ASSUME NEW r \in Requests, fetch_budget_row(r)  PROVE RowsOnCurve'
    <2>1. /\ Moves(r, Fetched(req[r], req[r].kind)) /\ budget' = budget /\ now' = now
          /\ req[r].pc = "fetch"
      BY <1>6 DEF fetch_budget_row, Moves
    <2>2. req[r] \in Request /\ req[r].kind \in {"get", "admit"}
      BY <2>1 DEF TypeOK, RowsFetched, RowsOnCurve, Request
    <2> QED BY <2>1, <2>2, <1>2, FetchedType
  <1>7. ASSUME NEW r \in Requests, NEW t \in 0 .. now, settle_accrual(r, t)
        PROVE  RowsOnCurve'
    <2> DEFINE row == req[r].row
               gain == Accrued(row, t)
               q == Settled(req[r], gain)
    <2>1. /\ req[r] \in Request /\ row \in BudgetRow /\ req[r].kind \in {"get", "admit"}
          /\ OnCurve(row) /\ row.last <= t /\ t \in Nat /\ now \in Nat
          /\ row.rate = budget.rate /\ row.cap = budget.cap
      BY <1>7 DEF settle_accrual, TypeOK, RowsFetched, RowsOnCurve, Request, BudgetRow
    <2>2. gain \in Nat
      BY <2>1, AccruedType
    <2>3. Moves(r, q) /\ now' = now
      BY <1>7 DEF settle_accrual, Moves
    <2>4. q \in Request /\ q.pc # "settle" /\ q.kind \notin {"topup", "patch"}
      BY <2>1, <2>2, SettledType
    <2>5. row.balance + gain = Least(row.rate * t, row.rate * row.cap)
      BY <2>1, AccruedOnCurve
    <2>6. budget \in BudgetRow
      BY DEF TypeOK
    <2>7. /\ budget'.last = t /\ budget'.rate = budget.rate /\ budget'.cap = budget.cap
          /\ Budgeting(row) => budget'.balance = row.balance + gain
          /\ ~Budgeting(row) => budget'.balance = budget.balance
      BY <1>7, <2>6 DEF settle_accrual, BudgetRow
    <2> HIDE DEF gain, q, row
    <2>8. OnCurve(budget')
      <3>1. CASE Budgeting(row)
        BY <3>1, <2>1, <2>5, <2>7 DEF OnCurve
      <3>2. CASE ~Budgeting(row)
        <4>1. budget.rate = 0
          BY <3>2, <2>1 DEF Budgeting, BudgetRow
        <4> QED BY <3>2, <4>1, <2>1, <2>6, <2>7, <1>1 DEF OnCurve, Least, BudgetRow
      <3> QED BY <3>1, <3>2
    <2>9. budget'.last <= now'
      BY <2>3, <2>7
    <2> QED BY <2>3, <2>4, <2>7, <2>8, <2>9, MoveOnCurve
  <1>8. ASSUME NEW r \in Requests, check_budget(r)  PROVE RowsOnCurve'
    <2>1. req'[r].pc # "settle" /\ req'[r].kind \notin {"topup", "patch"}
      BY <1>8, IdleType DEF check_budget, TypeOK, RowsOnCurve, Request
    <2>2. Moves(r, req'[r]) /\ budget' = budget /\ now' = now
      BY <1>8 DEF check_budget, Moves, TypeOK
    <2>3. req'[r] \in Request
      BY <1>8, TypeStep DEF TypeOK
    <2> QED BY <2>1, <2>2, <2>3, <1>2
  <1>9. ASSUME NEW r \in Requests, (\E j \in Jobs : create_job(r, j)) \/ abandon(r)
        PROVE  RowsOnCurve'
    <2>1. Moves(r, IdleRequest) /\ budget' = budget /\ now' = now
      BY <1>9 DEF create_job, abandon, Moves
    <2> QED BY <2>1, <1>2, IdleType
  <1>10. ASSUME NEW j \in Jobs, NEW actual \in Prices \union {0},
                record_completion(j, actual)
         PROVE  RowsOnCurve'
    BY <1>10 DEF record_completion, RowsOnCurve, OnCurve
  <1>11. ASSUME day_passes  PROVE RowsOnCurve'
    BY <1>11 DEF day_passes, RowsOnCurve, OnCurve, TypeOK, BudgetRow
  <1>12. ASSUME UNCHANGED vars  PROVE RowsOnCurve'
    BY <1>12 DEF vars, RowsOnCurve, OnCurve
  <1> QED
    BY <1>3, <1>4, <1>5, <1>6, <1>7, <1>8, <1>9, <1>10, <1>11, <1>12 DEF Next

\* OneAtATime after a step of the one request in flight, from what it holds
\* then.
LEMMA MoveAlone ==
    ASSUME TypeOK, OneAtATime, clients = "sequential",
           NEW r \in Requests, NEW q \in Request, Moves(r, q),
           Idle \/ req[r].pc # "idle",
           budget'.last <= now', credited' + budget'.rate * (now' - budget'.last) <= earned',
           q.pc = "settle" => q.row = budget' /\ q.at = now',
           q.pc = "write" => /\ budget'.last = now'
                             /\ q.row.currency = budget'.currency
                             /\ q.row.balance = budget'.balance
    PROVE  OneAtATime'
  <1>1. \A s \in Requests : req'[s] = IF s = r THEN q ELSE req[s]
    BY DEF TypeOK, Moves
  <1>2. \A s \in Requests : s # r => req[s].pc = "idle"
    BY DEF OneAtATime, Idle
  <1>3. \A s \in Requests : s # r => req'[s].pc = "idle"
    BY <1>1, <1>2
  <1>4. req'[r] = q
    BY <1>1
  <1> QED BY <1>3, <1>4 DEF OneAtATime

\* With one request at a time no step credits a day twice, or a day on which
\* budgeting was off.
LEMMA AloneStep ==
    ASSUME TypeOK, RowsFetched, OneAtATime, [Next]_vars
    PROVE  OneAtATime'
  <1>0. clients' = clients
    BY DEF Next, vars, get_settings, topup, patch_settings, estimate_job_cost,
           fetch_budget_row, settle_accrual, apply_topup, apply_patch,
           conversion_unavailable, check_budget, create_job, abandon,
           record_completion, day_passes
  <1> SUFFICES ASSUME clients = "sequential" PROVE OneAtATime'
    BY <1>0 DEF OneAtATime
  <1> USE DEF history
  <1>1. budget.last <= now /\ credited + budget.rate * (now - budget.last) <= earned
    BY DEF OneAtATime
  <1>2. ASSUME NEW r \in Requests, NEW q \in Request, Moves(r, q),
               Idle \/ req[r].pc # "idle",
               UNCHANGED <<budget, now, credited, earned>>,
               q.pc = "settle" => q.row = budget /\ q.at = now,
               q.pc # "write"
        PROVE  OneAtATime'
    BY <1>1, <1>2, MoveAlone
  <1>3. ASSUME NEW r \in Requests, get_settings(r)  PROVE OneAtATime'
    <2>1. /\ Moves(r, Fetched(IdleRequest, "get"))
          /\ Idle /\ UNCHANGED <<budget, now, credited, earned>>
      BY <1>3 DEF get_settings, Moves, Begin
    <2> QED BY <2>1, <1>2, FetchedType, IdleType
  <1>4. ASSUME NEW r \in Requests, NEW x \in Amounts, topup(r, x)  PROVE OneAtATime'
    <2> DEFINE q == [Fetched(IdleRequest, "topup") EXCEPT !.amount = x]
    <2>1. Moves(r, q) /\ Idle /\ UNCHANGED <<budget, now, credited, earned>>
      BY <1>4 DEF topup, Moves, Begin
    <2>2. q \in Request /\ q.pc = "settle" /\ q.row = budget /\ q.at = now
      BY FetchedType, IdleType DEF Request
    <2> HIDE DEF q
    <2> QED BY <2>1, <2>2, <1>2
  <1>5. ASSUME NEW r \in Requests, NEW p \in Patch, patch_settings(r, p)
        PROVE  OneAtATime'
    <2> DEFINE q == [Fetched(IdleRequest, "patch") EXCEPT !.patch = p]
    <2>1. Moves(r, q) /\ Idle /\ UNCHANGED <<budget, now, credited, earned>>
      BY <1>5 DEF patch_settings, Moves, Begin
    <2>2. q \in Request /\ q.pc = "settle" /\ q.row = budget /\ q.at = now
      BY FetchedType, IdleType DEF Request
    <2> HIDE DEF q
    <2> QED BY <2>1, <2>2, <1>2
  <1>6. ASSUME NEW r \in Requests, NEW price \in Prices,
               NEW priced \in BOOLEAN, estimate_job_cost(r, price, priced)
        PROVE  OneAtATime'
    <2>1. req'[r].pc = "fetch"
      BY <1>6 DEF estimate_job_cost, TypeOK, IdleRequest
    <2>2. Moves(r, req'[r]) /\ Idle /\ UNCHANGED <<budget, now, credited, earned>>
      BY <1>6 DEF estimate_job_cost, Moves, TypeOK, Begin
    <2>3. req'[r] \in Request
      BY <1>6, TypeStep DEF TypeOK
    <2> QED BY <2>1, <2>2, <2>3, <1>2
  <1>7. ASSUME NEW r \in Requests, fetch_budget_row(r)  PROVE OneAtATime'
    <2>1. /\ Moves(r, Fetched(req[r], req[r].kind)) /\ req[r].pc = "fetch"
          /\ UNCHANGED <<budget, now, credited, earned>>
      BY <1>7 DEF fetch_budget_row, Moves
    <2>2. req[r] \in Request /\ req[r].kind \in {"get", "topup", "patch", "admit"}
      BY <2>1 DEF TypeOK, RowsFetched, Request
    <2> QED BY <2>1, <2>2, <1>2, FetchedType
  <1>8. ASSUME NEW r \in Requests, NEW t \in 0 .. now, settle_accrual(r, t)
        PROVE  OneAtATime'
    <2> DEFINE gain == Accrued(budget, now)
               q == Settled(req[r], gain)
    <2>1. /\ req[r] \in Request /\ budget \in BudgetRow /\ now \in Nat
          /\ req[r].kind \in {"get", "topup", "patch", "admit"}
          /\ req[r].row = budget /\ t = now /\ req[r].pc # "idle"
      BY <1>8 DEF settle_accrual, TypeOK, RowsFetched, OneAtATime, Request
    <2>2. gain \in Nat
      BY <2>1, AccruedType
    <2>3. Moves(r, q) /\ UNCHANGED <<now, earned>> /\ credited' = credited + gain
      BY <1>8, <2>1 DEF settle_accrual, Moves
    <2>4. /\ q \in Request /\ q.pc # "settle"
          /\ q.pc = "write" =>
                q.row.currency = budget.currency /\ q.row.balance = budget.balance + gain
      BY <2>1, <2>2, SettledType
    <2>5. /\ budget'.last = now /\ budget'.currency = budget.currency
          /\ budget'.rate = budget.rate
      BY <1>8, <2>1 DEF settle_accrual, BudgetRow
    <2>9. budget'.balance = budget.balance + gain
      <3>1. ~Budgeting(budget) => gain = 0
        BY DEF Accrued
      <3>2. budget.balance \in Nat
        BY <2>1 DEF BudgetRow
      <3> HIDE DEF gain, q
      <3>3. budget' = IF Budgeting(budget)
                      THEN [budget EXCEPT !.balance = budget.balance + gain, !.last = now]
                      ELSE [budget EXCEPT !.last = now]
        BY <1>8, <2>1 DEF settle_accrual, gain
      <3> QED BY <2>1, <2>2, <3>1, <3>2, <3>3 DEF BudgetRow
    <2>6. gain <= budget.rate * (now - budget.last)
      <3>1. now - budget.last \in Nat /\ budget.rate \in Nat
        BY <2>1, <1>1 DEF BudgetRow
      <3>2. budget.rate * (now - budget.last) \in Nat
        BY <3>1
      <3>3. Pos(now - budget.last) = now - budget.last
        BY <3>1 DEF Pos
      <3>4. Pos(budget.rate * budget.cap - budget.balance) \in Nat
        BY <2>1 DEF Pos, BudgetRow
      <3> QED BY <3>2, <3>3, <3>4 DEF Accrued, Least
    <2>7. budget.rate * (now - budget.last) \in Nat /\ budget.rate * (now - now) = 0
      BY <2>1, <1>1 DEF BudgetRow
    <2>8. credited' + budget'.rate * (now' - budget'.last) <= earned'
      <3> HIDE DEF gain
      <3> QED BY <2>2, <2>3, <2>5, <2>6, <2>7, <1>1 DEF TypeOK
    <2> HIDE DEF gain, q
    <2> QED BY <2>1, <2>3, <2>4, <2>5, <2>8, <2>9, MoveAlone
  <1>9. ASSUME NEW r \in Requests, apply_topup(r)  PROVE OneAtATime'
    <2>1. /\ Moves(r, IdleRequest) /\ req[r].pc # "idle"
          /\ UNCHANGED <<now, credited, earned>>
          /\ budget'.last = budget.last /\ budget'.rate = budget.rate
      BY <1>9 DEF apply_topup, Moves, TypeOK, BudgetRow
    <2> QED BY <2>1, <1>1, MoveAlone, IdleType
  <1>10. ASSUME NEW r \in Requests, apply_patch(r)  PROVE OneAtATime'
    <2> DEFINE from == budget.currency
               new == Patched(req[r].row, req[r].patch)
    <2>1. Moves(r, IdleRequest) /\ req[r].pc # "idle" /\ now' = now
      BY <1>10 DEF apply_patch, Moves
    <2>2. /\ req[r].row \in BudgetRow /\ req[r].patch \in Patch
          /\ req[r].row.currency = from /\ budget.last = now
      BY <1>10 DEF apply_patch, TypeOK, RowsFetched, OneAtATime, Request
    <2>3. new.currency \in Currencies /\ from \in Currencies
      BY <2>2 DEF Patched, BudgetRow, Patch
    <2>4. /\ budget'.last = now
          /\ credited' = convert(credited, from, new.currency)
          /\ earned' = convert(earned, from, new.currency)
      BY <1>10, <2>2 DEF apply_patch, TypeOK, BudgetRow
    <2>5. TypeOK'
      BY <1>10, TypeStep
    <2>6. credited <= earned
      <3>1. budget.rate * (now - budget.last) = 0
        BY <2>2 DEF TypeOK, BudgetRow
      <3> QED BY <3>1, <1>1 DEF TypeOK
    <2> HIDE DEF from, new
    <2>7. credited' <= earned'
      BY <2>3, <2>4, <2>6, ConvertMonotone DEF TypeOK
    <2>8. budget'.rate * (now' - budget'.last) = 0
      BY <2>1, <2>4, <2>5 DEF TypeOK, BudgetRow
    <2>9. /\ budget'.last <= now'
          /\ credited' + budget'.rate * (now' - budget'.last) <= earned'
      BY <2>1, <2>4, <2>5, <2>7, <2>8 DEF TypeOK
    <2> QED BY <2>1, <2>9, MoveAlone, IdleType
  <1>11. ASSUME NEW r \in Requests,
                conversion_unavailable(r) \/ (\E j \in Jobs : create_job(r, j)) \/ abandon(r)
         PROVE  OneAtATime'
    <2>1. /\ Moves(r, IdleRequest) /\ req[r].pc # "idle"
          /\ UNCHANGED <<budget, now, credited, earned>>
      BY <1>11 DEF conversion_unavailable, create_job, abandon, Moves
    <2> QED BY <2>1, <1>2, IdleType
  <1>12. ASSUME NEW r \in Requests, check_budget(r)  PROVE OneAtATime'
    <2>1. req'[r].pc \notin {"settle", "write"}
      BY <1>12, IdleType DEF check_budget, TypeOK, Request
    <2>2. /\ Moves(r, req'[r]) /\ req[r].pc # "idle"
          /\ UNCHANGED <<budget, now, credited, earned>>
      BY <1>12 DEF check_budget, Moves, TypeOK
    <2>3. req'[r] \in Request
      BY <1>12, TypeStep DEF TypeOK
    <2> QED BY <2>1, <2>2, <2>3, <1>2
  <1>13. ASSUME NEW j \in Jobs, NEW actual \in Prices \union {0},
                record_completion(j, actual)
         PROVE  OneAtATime'
    BY <1>13 DEF record_completion, OneAtATime
  <1>14. ASSUME day_passes  PROVE OneAtATime'
    <2>1. /\ now' = now + 1 /\ earned' = earned + budget.rate /\ Idle
          /\ UNCHANGED <<budget, req, credited>>
      BY <1>14 DEF day_passes
    <2>2. budget.rate \in Nat /\ budget.last \in Nat /\ now \in Nat
          /\ credited \in Nat /\ earned \in Nat
      BY DEF TypeOK, BudgetRow
    <2>3. budget.rate * (now + 1 - budget.last)
             = budget.rate * (now - budget.last) + budget.rate
      BY <2>2
    <2>4. budget.rate * (now - budget.last) \in Int
      BY <2>2
    <2>5. credited' + budget'.rate * (now' - budget'.last) <= earned'
      BY <2>1, <2>2, <2>3, <2>4, <1>1
    <2>6. budget'.last <= now' /\ \A r \in Requests : req'[r].pc = "idle"
      BY <2>1, <2>2, <1>1 DEF Idle
    <2> QED BY <2>5, <2>6 DEF OneAtATime
  <1>15. ASSUME UNCHANGED vars  PROVE OneAtATime'
    BY <1>15 DEF vars, OneAtATime
  <1> QED
    BY <1>3, <1>4, <1>5, <1>6, <1>7, <1>8, <1>9, <1>10, <1>11, <1>12, <1>13, <1>14,
       <1>15 DEF Next

-----------------------------------------------------------------------------
(***************************************************************************)
(* The theorems.                                                           *)
(***************************************************************************)

\* IndInv is an invariant.
LEMMA SpecInd == Spec => []IndInv
  <1>1. IndInv /\ [Next]_vars => IndInv'
    BY TypeStep, CurveStep, AloneStep DEF IndInv
  <1> QED BY <1>1, InitInd, PTL DEF Spec

\* Every variable keeps its type, however requests overlap: in particular no
\* top-up, patch or settle leaves a negative balance in budget_state.
THEOREM TypeCorrect == Spec => []TypeOK
  <1>1. IndInv => TypeOK
    BY DEF IndInv
  <1> QED BY <1>1, SpecInd, PTL

\* Among any number of overlapping requests that only settle, each writing
\* back what it computed from a row read earlier, accrual is exact.
THEOREM AccrualIsExact == Spec => []AccrualExact
  <1>1. IndInv => AccrualExact
    BY DEF IndInv, RowsOnCurve, OnCurve, AccrualExact
  <1> QED BY <1>1, SpecInd, PTL

\* With one request at a time, accrual never credits more than the settings in
\* force day by day allowed, through any patches of rate, cap and currency.
THEOREM NothingBackdated == Spec => []NoBackdatedAccrual
  <1>1. ASSUME IndInv, clients = "sequential"  PROVE credited <= earned
    <2>1. budget.rate \in Nat /\ now - budget.last \in Nat
      BY <1>1 DEF IndInv, TypeOK, BudgetRow, OneAtATime
    <2>2. budget.rate * (now - budget.last) \in Nat
      BY <2>1
    <2> QED BY <1>1, <2>2 DEF IndInv, TypeOK, OneAtATime
  <1>2. IndInv => NoBackdatedAccrual
    BY <1>1 DEF NoBackdatedAccrual
  <1> QED BY <1>2, SpecInd, PTL

-----------------------------------------------------------------------------
(***************************************************************************)
(* Sums: of the claims in table jobs, and of what requests are about to    *)
(* add to them.                                                            *)
(***************************************************************************)

\* Some set of numbers that is not empty has a least one.
LEMMA LeastExists ==
    ASSUME NEW T, T \subseteq Nat, T # {}
    PROVE  \E x \in T : \A y \in T : x <= y
  <1> DEFINE R == {pair \in Nat \X Nat : pair[1] < pair[2]}
  <1>1. IsWellFoundedOn(R, Nat)
    BY NatLessThanWellFounded, Zenon DEF OpToRel
  <1> HIDE DEF R
  <1>2. PICK x \in T : \A y \in T : ~(<<y, x>> \in R)
    BY <1>1, WFMin
  <1>3. ASSUME NEW y \in T PROVE x <= y
    <2>1. y < x => <<y, x>> \in R
      BY DEF R
    <2> QED BY <1>2, <2>1
  <1> QED BY <1>3

\* f gives the sums of the first 0 .. m amounts.
Sums(f, amounts, m) ==
    f = [n \in 0 .. m |-> IF n = 0 THEN 0 ELSE f[n - 1] + amounts[n]]

\* A recursion over the amounts is well defined.
LEMMA SumsExist ==
    ASSUME NEW amounts, NEW m \in Nat
    PROVE  \E f : Sums(f, amounts, m)
  <1> DEFINE T == {k \in Nat : ~\E f : Sums(f, amounts, k)}
  <1>1. SUFFICES ASSUME T # {} PROVE FALSE
    OBVIOUS
  <1>2. PICK k \in T : \A h \in T : k <= h
    BY <1>1, LeastExists
  <1>3. k \in Nat /\ ~\E f : Sums(f, amounts, k)
    BY <1>2
  <1>4. CASE k = 0
    <2> DEFINE f == [n \in 0 .. 0 |-> 0]
    <2>1. f = [n \in 0 .. 0 |-> IF n = 0 THEN 0 ELSE f[n - 1] + amounts[n]]
      OBVIOUS
    <2> HIDE DEF f
    <2> QED BY <1>3, <1>4, <2>1 DEF Sums
  <1>5. CASE k # 0
    <2>1. k - 1 \in Nat /\ k - 1 \notin T
      BY <1>2, <1>3, <1>5
    <2>2. PICK f : Sums(f, amounts, k - 1)
      BY <2>1
    <2> DEFINE g == [n \in 0 .. k |-> IF n = k THEN f[k - 1] + amounts[k] ELSE f[n]]
    <2>3. ASSUME NEW n \in 0 .. k
          PROVE  g[n] = IF n = 0 THEN 0 ELSE g[n - 1] + amounts[n]
      <3>1. CASE n = k
        <4>1. k - 1 \in 0 .. k /\ k - 1 # k
          BY <1>3, <1>5
        <4> QED BY <1>5, <3>1, <4>1
      <3>2. CASE n # k
        <4>1. n \in 0 .. k - 1 /\ (n # 0 => n - 1 \in 0 .. k /\ n - 1 # k)
          BY <1>3, <3>2
        <4>2. f[n] = IF n = 0 THEN 0 ELSE f[n - 1] + amounts[n]
          BY <2>2, <4>1 DEF Sums
        <4> QED BY <3>2, <4>1, <4>2
      <3> QED BY <3>1, <3>2
    <2>4. g = [n \in 0 .. k |-> IF n = 0 THEN 0 ELSE g[n - 1] + amounts[n]]
      <3>1. g = [n \in 0 .. k |-> g[n]]
        OBVIOUS
      <3> HIDE DEF g
      <3> QED BY <2>3, <3>1
    <2> HIDE DEF g
    <2> QED BY <1>3, <2>4 DEF Sums
  <1> QED BY <1>4, <1>5

\* Total adds the amounts up one by one.
LEMMA TotalIs ==
    ASSUME NEW amounts, NEW m \in Nat
    PROVE  \E f : /\ Total(amounts, m) = f[m] /\ f[0] = 0
                  /\ \A n \in 1 .. m : f[n] = f[n - 1] + amounts[n]
  <1> DEFINE upto == CHOOSE f : f = [n \in 0 .. m |->
                                       IF n = 0 THEN 0 ELSE f[n - 1] + amounts[n]]
  <1>1. Total(amounts, m) = upto[m]
    BY DEF Total
  <1>2. \E f : f = [n \in 0 .. m |-> IF n = 0 THEN 0 ELSE f[n - 1] + amounts[n]]
    BY SumsExist DEF Sums
  <1>3. upto = [n \in 0 .. m |-> IF n = 0 THEN 0 ELSE upto[n - 1] + amounts[n]]
    BY <1>2
  <1> HIDE DEF upto
  <1>4. upto[0] = 0 /\ \A n \in 1 .. m : upto[n] = upto[n - 1] + amounts[n]
    BY <1>3
  <1> QED BY <1>1, <1>4

\* A total is a number; totals of amounts that differ in one place differ by
\* as much.
LEMMA TotalChanges ==
    ASSUME NEW m \in Nat, NEW old \in [1 .. m -> Nat], NEW new \in [1 .. m -> Nat],
           NEW j \in 1 .. m, \A n \in 1 .. m : n # j => new[n] = old[n]
    PROVE  /\ Total(old, m) \in Nat
           /\ Total(new, m) = Total(old, m) - old[j] + new[j]
  <1>1. PICK f : /\ Total(old, m) = f[m] /\ f[0] = 0
                 /\ \A n \in 1 .. m : f[n] = f[n - 1] + old[n]
    BY TotalIs
  <1>2. PICK g : /\ Total(new, m) = g[m] /\ g[0] = 0
                 /\ \A n \in 1 .. m : g[n] = g[n - 1] + new[n]
    BY TotalIs
  <1> DEFINE change == new[j] - old[j]
             Right(n) == f[n] \in Nat /\ g[n] = f[n] + IF j <= n THEN change ELSE 0
             T == {n \in 0 .. m : ~Right(n)}
  <1>3. change \in Int
    OBVIOUS
  <1>4. ASSUME NEW n \in 1 .. m
        PROVE  old[n] \in Nat /\ new[n] = old[n] + IF n = j THEN change ELSE 0
    OBVIOUS
  <1> HIDE DEF change
  <1>6. T = {}
    <2> SUFFICES ASSUME T # {} PROVE FALSE
      OBVIOUS
    <2>0. T \subseteq Nat
      OBVIOUS
    <2>1. PICK n \in T : \A h \in T : n <= h
      <3> HIDE DEF T
      <3> QED BY <2>0, LeastExists
    <2>2. n \in 0 .. m /\ ~Right(n)
      BY <2>1
    <2>3. n # 0
      BY <1>1, <1>2, <2>2
    <2>4. n - 1 \in 0 .. m /\ n - 1 \notin T /\ n \in 1 .. m
      BY <2>1, <2>2, <2>3
    <2>5. Right(n - 1)
      BY <2>4
    <2>6. /\ f[n] = f[n - 1] + old[n] /\ g[n] = g[n - 1] + new[n]
          /\ old[n] \in Nat /\ new[n] = old[n] + IF n = j THEN change ELSE 0
      BY <1>1, <1>2, <1>4, <2>4
    <2>7. n \in Nat /\ j \in Nat /\ f[n - 1] \in Nat
          /\ g[n - 1] = f[n - 1] + IF j <= n - 1 THEN change ELSE 0
      BY <2>4, <2>5
    <2>8. CASE n = j
      BY <1>3, <2>6, <2>7, <2>8
    <2>9. CASE n # j
      BY <1>3, <2>6, <2>7, <2>9
    <2>10. Right(n)
      BY <2>8, <2>9
    <2> QED BY <2>2, <2>10
  <1>7. Right(m) /\ j <= m
    BY <1>6
  <1> QED BY <1>1, <1>2, <1>7 DEF change

\* Amounts up to c each add up to at most c for each of them.
LEMMA TotalBound ==
    ASSUME NEW m \in Nat, NEW amounts \in [1 .. m -> Nat], NEW c \in Nat,
           \A n \in 1 .. m : amounts[n] <= c
    PROVE  Total(amounts, m) \in Nat /\ Total(amounts, m) <= m * c
  <1>1. PICK f : /\ Total(amounts, m) = f[m] /\ f[0] = 0
                 /\ \A n \in 1 .. m : f[n] = f[n - 1] + amounts[n]
    BY TotalIs
  <1> DEFINE Right(n) == f[n] \in Nat /\ f[n] <= n * c
             T == {n \in 0 .. m : ~Right(n)}
  <1>2. T = {}
    <2> SUFFICES ASSUME T # {} PROVE FALSE
      OBVIOUS
    <2>0. T \subseteq Nat
      OBVIOUS
    <2>1. PICK n \in T : \A h \in T : n <= h
      <3> HIDE DEF T
      <3> QED BY <2>0, LeastExists
    <2>2. n \in 0 .. m /\ ~Right(n)
      BY <2>1
    <2>3. n # 0
      BY <1>1, <2>2
    <2>4. n - 1 \in 0 .. m /\ n - 1 \notin T /\ n \in 1 .. m
      BY <2>1, <2>2, <2>3
    <2>5. f[n - 1] \in Nat /\ f[n - 1] <= (n - 1) * c
      BY <2>4
    <2>6. f[n] = f[n - 1] + amounts[n] /\ amounts[n] \in Nat /\ amounts[n] <= c
      BY <1>1, <2>4
    <2>7. (n - 1) * c = n * c - c /\ n * c \in Nat
      BY <2>4
    <2> QED BY <2>2, <2>5, <2>6, <2>7
  <1>3. Right(m)
    BY <1>2
  <1> QED BY <1>1, <1>3

\* A total is a number, that of no amounts too.
LEMMA TotalType ==
    ASSUME NEW m \in Nat, NEW amounts \in [1 .. m -> Nat]
    PROVE  Total(amounts, m) \in Nat
  <1>1. CASE m = 0
    <2>1. \A n \in 1 .. m : amounts[n] <= 0
      BY <1>1
    <2> QED BY <2>1, TotalBound
  <1>2. CASE m # 0
    <2>1. 1 \in 1 .. m
      BY <1>2
    <2> QED BY <2>1, TotalChanges
  <1> QED BY <1>1, <1>2

\* A claim is an amount.
LEMMA ClaimType == \A row \in Job : Claim(row) \in Nat
  BY DEF Claim, Job

\* Two tables that differ in one row differ in that row's claim.
LEMMA CommittedChanges ==
    ASSUME NEW old \in [Jobs -> Job], NEW j \in Jobs, NEW row \in Job,
           NEW new, new = [old EXCEPT ![j] = row]
    PROVE  /\ committed_budget(old) \in Nat
           /\ committed_budget(new) = committed_budget(old) - Claim(old[j]) + Claim(row)
  <1> DEFINE claims(table) == [n \in Jobs |-> Claim(table[n])]
  <1>1. MaxJobs \in Nat /\ Jobs = 1 .. MaxJobs
    BY RequestAssumption DEF Jobs
  <1>2. claims(old) \in [Jobs -> Nat] /\ Claim(row) \in Nat
    BY ClaimType
  <1>3. claims(new) = [claims(old) EXCEPT ![j] = Claim(row)]
    OBVIOUS
  <1>4. claims(old)[j] = Claim(old[j])
    OBVIOUS
  <1>5. committed_budget(old) = Total(claims(old), MaxJobs)
        /\ committed_budget(new) = Total(claims(new), MaxJobs)
    BY DEF committed_budget
  <1> HIDE DEF claims
  <1>6. /\ claims(old) \in [1 .. MaxJobs -> Nat] /\ j \in 1 .. MaxJobs
        /\ claims(new) \in [1 .. MaxJobs -> Nat] /\ claims(new)[j] = Claim(row)
        /\ \A n \in 1 .. MaxJobs : n # j => claims(new)[n] = claims(old)[n]
    BY <1>1, <1>2, <1>3
  <1>7. /\ Total(claims(old), MaxJobs) \in Nat
        /\ Total(claims(new), MaxJobs)
              = Total(claims(old), MaxJobs) - claims(old)[j] + claims(new)[j]
    BY <1>1, <1>6, TotalChanges
  <1> QED BY <1>4, <1>5, <1>6, <1>7

\* The sum of the claims is an amount.
LEMMA CommittedType == ASSUME TypeOK PROVE Committed \in Nat
  <1> DEFINE claims == [n \in Jobs |-> Claim(jobs[n])]
  <1>1. MaxJobs \in Nat /\ claims \in [1 .. MaxJobs -> Nat]
    BY ClaimType, RequestAssumption DEF TypeOK, Jobs
  <1>2. Committed = Total(claims, MaxJobs)
    BY DEF Committed, committed_budget
  <1> HIDE DEF claims
  <1> QED BY <1>1, <1>2, TotalType

-----------------------------------------------------------------------------
(***************************************************************************)
(* Admission.                                                              *)
(***************************************************************************)

\* What a request that has passed check_budget is about to add to the claims.
Pledge(q) == IF q.pc = "insert" /\ q.cost # None THEN q.cost ELSE 0
Pledged == Total([r \in Requests |-> Pledge(req[r])], MaxRequests)

\* What the rollover cap lets the balance reach.
Ceiling(row) == row.rate * row.cap

\* Among requests that only settle, an admission decides on a balance that is
\* not above the ceiling, so that what it pledges is not either; claims and
\* pledges together stay within the bound.
Overcommit ==
    clients = "reading" /\ Budgeting(budget) =>
        /\ \A r \in Requests :
              /\ Pledge(req[r]) <= Ceiling(budget)
              /\ req[r].pc = "decide" =>
                    /\ req[r].row.rate = budget.rate
                    /\ req[r].row.balance <= Ceiling(budget)
        /\ Committed + Pledged <= MaxRequests * Ceiling(budget)

\* A pledge is an amount.
LEMMA PledgeType == \A q \in Request : Pledge(q) \in Nat
  BY DEF Pledge, Request

\* The sum of the pledges is an amount.
LEMMA PledgedType == ASSUME TypeOK PROVE Pledged \in Nat
  <1> DEFINE pledges == [n \in Requests |-> Pledge(req[n])]
  <1>1. MaxRequests \in Nat /\ pledges \in [1 .. MaxRequests -> Nat]
    BY PledgeType, RequestAssumption DEF TypeOK, Requests
  <1>2. Pledged = Total(pledges, MaxRequests)
    BY DEF Pledged
  <1> HIDE DEF pledges
  <1> QED BY <1>1, <1>2, TotalType

\* Only the request that moves changes its pledge.
LEMMA PledgedChanges ==
    ASSUME TypeOK, NEW r \in Requests, NEW q \in Request, Moves(r, q)
    PROVE  Pledged \in Nat /\ Pledged' = Pledged - Pledge(req[r]) + Pledge(q)
  <1> DEFINE old == [n \in Requests |-> Pledge(req[n])]
             new == [n \in Requests |-> Pledge(req'[n])]
  <1>1. MaxRequests \in Nat /\ Requests = 1 .. MaxRequests
    BY RequestAssumption DEF Requests
  <1>2. old \in [Requests -> Nat] /\ Pledge(q) \in Nat
    BY PledgeType DEF TypeOK
  <1>3. \A n \in Requests : req'[n] = IF n = r THEN q ELSE req[n]
    BY DEF Moves, TypeOK
  <1>4. new = [old EXCEPT ![r] = Pledge(q)]
    BY <1>3
  <1>5. old[r] = Pledge(req[r])
    OBVIOUS
  <1>6. Pledged = Total(old, MaxRequests)
    BY DEF Pledged
  <1>7. Pledged' = Total(new, MaxRequests)
    <2>1. \A n \in Requests : Pledge(req[n])' = Pledge(req'[n])
      BY DEF Pledge
    <2> QED BY <2>1 DEF Pledged, Total
  <1> HIDE DEF old, new
  <1>8. /\ old \in [1 .. MaxRequests -> Nat] /\ r \in 1 .. MaxRequests
        /\ new \in [1 .. MaxRequests -> Nat] /\ new[r] = Pledge(q)
        /\ \A n \in 1 .. MaxRequests : n # r => new[n] = old[n]
    BY <1>1, <1>2, <1>4
  <1>9. /\ Total(old, MaxRequests) \in Nat
        /\ Total(new, MaxRequests) = Total(old, MaxRequests) - old[r] + new[r]
    BY <1>1, <1>8, TotalChanges
  <1> QED BY <1>5, <1>6, <1>7, <1>8, <1>9

\* Overcommit after a step of one request that pledges nothing.
LEMMA MoveOvercommit ==
    ASSUME TypeOK, Overcommit, clients = "reading", Budgeting(budget),
           budget'.rate = budget.rate, budget'.cap = budget.cap, jobs' = jobs,
           NEW r \in Requests, NEW q \in Request, Moves(r, q), q.pc # "insert",
           q.pc = "decide" => /\ q.row.rate = budget.rate
                              /\ q.row.balance <= Ceiling(budget)
    PROVE  Overcommit'
  <1>1. \A s \in Requests : req'[s] = IF s = r THEN q ELSE req[s]
    BY DEF TypeOK, Moves
  <1>2. Pledge(q) = 0
    BY DEF Pledge
  <1>3. Ceiling(budget)' = Ceiling(budget) /\ Ceiling(budget) \in Nat
    BY DEF Ceiling, TypeOK, BudgetRow
  <1>4. ASSUME NEW s \in Requests
        PROVE  /\ Pledge(req[s])' <= Ceiling(budget)'
               /\ (req[s].pc = "decide")' =>
                     /\ (req[s].row.rate = budget.rate)'
                     /\ (req[s].row.balance <= Ceiling(budget))'
    <2>1. Pledge(req[s])' = Pledge(req'[s])
      BY DEF Pledge
    <2>2. Pledge(req[s]) <= Ceiling(budget)
      BY DEF Overcommit
    <2>3. CASE s = r
      BY <2>1, <2>3, <1>1, <1>2, <1>3
    <2>4. CASE s # r
      BY <2>1, <2>2, <2>4, <1>1, <1>3 DEF Overcommit
    <2> QED BY <2>3, <2>4
  <1>5. (Committed + Pledged <= MaxRequests * Ceiling(budget))'
    <2>1. Pledged \in Nat /\ Pledged' = Pledged - Pledge(req[r]) + 0
      BY <1>2, PledgedChanges
    <2>2. Pledge(req[r]) \in Nat
      BY PledgeType DEF TypeOK
    <2>3. Committed' = Committed /\ Committed \in Nat
      BY CommittedType DEF Committed
    <2>4. MaxRequests * Ceiling(budget) \in Nat
      BY <1>3, RequestAssumption
    <2>5. Committed + Pledged <= MaxRequests * Ceiling(budget)
      BY DEF Overcommit
    <2> QED BY <2>1, <2>2, <2>3, <2>4, <2>5, <1>3
  <1> QED BY <1>4, <1>5 DEF Overcommit

\* check_budget leaves room for its own pledge below the ceiling; the others
\* that may be on their way to their INSERTs have theirs.
LEMMA CheckOvercommit ==
    ASSUME IndInv, Overcommit, clients = "reading", Budgeting(budget),
           NEW r \in Requests, check_budget(r)
    PROVE  Overcommit'
  <1> DEFINE q == [req[r] EXCEPT !.pc = "insert"]
             C == Ceiling(budget)
  <1>1. /\ req[r].pc = "decide" /\ budget' = budget /\ jobs' = jobs
        /\ clients' = clients /\ TypeOK /\ req[r] \in Request
    BY DEF check_budget, IndInv, TypeOK
  <1>2. req[r].row.rate = budget.rate /\ req[r].row.balance <= C
    BY <1>1 DEF Overcommit
  <1>3. req[r].row \in BudgetRow
    BY <1>1 DEF IndInv, RowsFetched
  <1>4. CASE Moves(r, IdleRequest)
    BY <1>1, <1>4, IdleType, MoveOvercommit
  <1>5. CASE /\ Moves(r, q)
             /\ \/ ~Budgeting(req[r].row) \/ req[r].cost = None
                \/ req[r].row.balance - Committed >= req[r].cost
    <2>1. q \in Request /\ q.pc = "insert" /\ q.cost = req[r].cost
      BY <1>1 DEF Request
    <2> HIDE DEF q
    <2>2. Pledge(req[r]) = 0 /\ Pledge(q) \in Nat
      BY <1>1, <2>1, PledgeType DEF Pledge
    <2>3. Committed \in Nat /\ Committed' = Committed
      BY <1>1, CommittedType DEF Committed
    <2>4. C \in Nat /\ C' = C
      BY <1>1 DEF Ceiling, TypeOK, BudgetRow
    <2> HIDE DEF C
    <2>5. Pledge(q) # 0 => Committed + Pledge(q) <= C
      <3>1. Pledge(q) # 0 => q.cost \in Nat /\ q.cost # None /\ Pledge(q) = q.cost
        BY <1>1, <2>1 DEF Pledge, Request
      <3>2. Budgeting(req[r].row)
        BY <1>2 DEF Budgeting
      <3> QED BY <1>2, <1>3, <1>5, <2>1, <2>3, <2>4, <3>1, <3>2 DEF BudgetRow
    <2>6. Pledge(q) <= C
      BY <2>2, <2>3, <2>4, <2>5
    <2>7. Pledged \in Nat /\ Pledged' = Pledged + Pledge(q)
      BY <1>1, <1>5, <2>1, <2>2, PledgedChanges
    <2>8. Pledged + C <= MaxRequests * C
      <3> DEFINE old == [n \in Requests |-> Pledge(req[n])]
                 new == [old EXCEPT ![r] = C]
      <3>1. MaxRequests \in Nat /\ Requests = 1 .. MaxRequests
        BY RequestAssumption DEF Requests
      <3>2. old \in [1 .. MaxRequests -> Nat] /\ r \in 1 .. MaxRequests
        BY <1>1, <3>1, PledgeType DEF TypeOK
      <3>3. old[r] = 0 /\ \A n \in 1 .. MaxRequests : old[n] <= C
        BY <2>2, <3>1 DEF Overcommit, C
      <3>4. Pledged = Total(old, MaxRequests)
        BY DEF Pledged
      <3> HIDE DEF old
      <3>5. new \in [1 .. MaxRequests -> Nat] /\ \A n \in 1 .. MaxRequests : new[n] <= C
        BY <2>4, <3>2, <3>3
      <3>6. new[r] = C /\ \A n \in 1 .. MaxRequests : n # r => new[n] = old[n]
        BY <3>2
      <3> HIDE DEF new
      <3>7. Total(new, MaxRequests) = Total(old, MaxRequests) - old[r] + new[r]
        BY <3>1, <3>2, <3>5, <3>6, TotalChanges
      <3>8. Total(new, MaxRequests) <= MaxRequests * C
        BY <2>4, <3>1, <3>5, TotalBound, Zenon
      <3> QED BY <2>4, <2>7, <3>3, <3>4, <3>6, <3>7, <3>8
    <2>9. (Committed + Pledged <= MaxRequests * C)'
      <3>1. MaxRequests * C \in Nat
        BY <2>4, RequestAssumption
      <3>2. Committed + Pledged <= MaxRequests * C
        BY DEF Overcommit, C
      <3>3. CASE Pledge(q) = 0
        BY <2>3, <2>4, <2>7, <3>1, <3>2, <3>3
      <3>4. CASE Pledge(q) # 0
        BY <2>2, <2>3, <2>4, <2>5, <2>7, <2>8, <3>1, <3>4
      <3> QED BY <3>3, <3>4
    <2>10. ASSUME NEW s \in Requests
           PROVE  /\ Pledge(req[s])' <= C'
                  /\ (req[s].pc = "decide")' =>
                        /\ (req[s].row.rate = budget.rate)'
                        /\ (req[s].row.balance)' <= C'
      <3>1. Pledge(req[s])' = Pledge(req'[s])
        BY DEF Pledge
      <3>2. req'[s] = IF s = r THEN q ELSE req[s]
        BY <1>1, <1>5 DEF TypeOK, Moves
      <3>3. CASE s = r
        BY <2>1, <2>4, <2>6, <3>1, <3>2, <3>3
      <3>4. CASE s # r
        BY <1>1, <2>4, <3>1, <3>2, <3>4 DEF Overcommit, C
      <3> QED BY <3>3, <3>4
    <2> QED BY <2>9, <2>10 DEF Overcommit, C
  <1> QED BY <1>4, <1>5 DEF check_budget, Moves

\* The INSERT turns a pledge into a claim.
LEMMA InsertOvercommit ==
    ASSUME TypeOK, Overcommit, clients = "reading", Budgeting(budget),
           NEW r \in Requests, NEW j \in Jobs, create_job(r, j)
    PROVE  Overcommit'
  <1> DEFINE row == [status |-> "active", price |-> req[r].price, cost |-> req[r].cost]
             C == Ceiling(budget)
  <1>1. /\ req[r].pc = "insert" /\ budget' = budget /\ Moves(r, IdleRequest)
        /\ jobs' = [jobs EXCEPT ![j] = row]
    BY DEF create_job, Moves
  <1>2. req[r] \in Request /\ jobs \in [Jobs -> Job] /\ row \in Job
    BY DEF TypeOK, Request, Job
  <1>3. Claim(row) = Pledge(req[r]) /\ Claim(row) \in Nat /\ Claim(jobs[j]) \in Nat
    BY <1>1, <1>2, ClaimType DEF Claim, Pledge
  <1> HIDE DEF row
  <1>4. Committed \in Nat /\ Committed' = Committed - Claim(jobs[j]) + Claim(row)
    <2>1. PICK new : new = jobs'
      OBVIOUS
    <2>2. new = [jobs EXCEPT ![j] = row]
      BY <1>1, <2>1
    <2>3. /\ committed_budget(jobs) \in Nat
          /\ committed_budget(new) = committed_budget(jobs) - Claim(jobs[j]) + Claim(row)
      BY <1>2, <2>2, CommittedChanges
    <2>4. committed_budget(jobs)' = committed_budget(new)
      BY <2>1 DEF committed_budget, Total, Claim
    <2> QED BY <2>3, <2>4 DEF Committed
  <1>5. Pledged \in Nat /\ Pledged' = Pledged - Pledge(req[r])
    <2>1. Pledge(IdleRequest) = 0
      BY IdleType DEF Pledge
    <2>2. Pledged \in Nat /\ Pledged' = Pledged - Pledge(req[r]) + Pledge(IdleRequest)
      BY <1>1, IdleType, PledgedChanges
    <2> QED BY <1>3, <2>1, <2>2
  <1>6. C \in Nat /\ C' = C /\ MaxRequests * C \in Nat
    BY <1>1, RequestAssumption DEF Ceiling, TypeOK, BudgetRow
  <1>7. Committed + Pledged <= MaxRequests * C
    BY DEF Overcommit
  <1> HIDE DEF C
  <1>8. (Committed + Pledged <= MaxRequests * C)'
    BY <1>3, <1>4, <1>5, <1>6, <1>7
  <1>9. ASSUME NEW s \in Requests
        PROVE  /\ Pledge(req[s])' <= C'
               /\ (req[s].pc = "decide")' =>
                     /\ (req[s].row.rate = budget.rate)'
                     /\ (req[s].row.balance)' <= C'
    <2>1. Pledge(req[s])' = Pledge(req'[s])
      BY DEF Pledge
    <2>2. req'[s] = IF s = r THEN IdleRequest ELSE req[s]
      BY <1>1 DEF TypeOK, Moves
    <2>3. CASE s = r
      BY <1>6, <2>1, <2>2, <2>3, IdleType DEF Pledge
    <2>4. CASE s # r
      BY <1>1, <1>6, <2>1, <2>2, <2>4 DEF Overcommit, C
    <2> QED BY <2>3, <2>4
  <1> QED BY <1>8, <1>9 DEF Overcommit, C

\* Every step keeps claims and pledges within the bound.
LEMMA OvercommitStep ==
    ASSUME IndInv, Overcommit, [Next]_vars
    PROVE  Overcommit'
  <1> USE DEF IndInv, history
  <1>0. clients' = clients
    BY DEF Next, vars, get_settings, topup, patch_settings, estimate_job_cost,
           fetch_budget_row, settle_accrual, apply_topup, apply_patch,
           conversion_unavailable, check_budget, create_job, abandon,
           record_completion, day_passes
  <1>1. TypeOK'
    BY TypeStep
  <1>2. ASSUME NEW r \in Requests,
               \/ \E x \in Amounts : topup(r, x)
               \/ \E p \in Patch : patch_settings(r, p)
               \/ apply_topup(r) \/ apply_patch(r) \/ conversion_unavailable(r),
               clients = "reading"
        PROVE  FALSE
    BY <1>2 DEF topup, patch_settings, Begin, apply_topup, apply_patch,
                conversion_unavailable, RowsOnCurve
  <1>3. clients = "reading" => budget'.rate = budget.rate /\ budget'.cap = budget.cap
    <2>1. ASSUME NEW r \in Requests, NEW t \in 0 .. now, settle_accrual(r, t)
          PROVE  budget'.rate = budget.rate /\ budget'.cap = budget.cap
      BY <2>1 DEF settle_accrual, TypeOK, BudgetRow
    <2> QED BY <1>2, <2>1 DEF Next, vars, get_settings, estimate_job_cost,
           fetch_budget_row, check_budget, create_job, abandon,
           record_completion, day_passes
  <1> SUFFICES ASSUME clients = "reading", Budgeting(budget) PROVE Overcommit'
    BY <1>0, <1>3 DEF Overcommit, Budgeting
  <1>4. ASSUME NEW r \in Requests, Moves(r, req'[r]), jobs' = jobs,
               req'[r].pc \notin {"insert", "decide"}
        PROVE  Overcommit'
    <2>1. req'[r] \in Request
      BY <1>1 DEF TypeOK
    <2> QED BY <1>3, <1>4, <2>1, MoveOvercommit
  <1>5. ASSUME NEW r \in Requests,
               \/ get_settings(r) \/ fetch_budget_row(r) \/ abandon(r)
               \/ \E price \in Prices, priced \in BOOLEAN : estimate_job_cost(r, price, priced)
        PROVE  Overcommit'
    <2>1. Moves(r, req'[r]) /\ jobs' = jobs
      <3>1. \E q : req' = [req EXCEPT ![r] = q]
        BY <1>5, Zenon DEF get_settings, fetch_budget_row, abandon, estimate_job_cost
      <3>2. jobs' = jobs
        BY <1>5 DEF get_settings, fetch_budget_row, abandon, estimate_job_cost
      <3> QED BY <3>1, <3>2 DEF Moves, TypeOK
    <2>2. ASSUME get_settings(r) \/ abandon(r)  PROVE req'[r].pc \in {"settle", "idle"}
      <3>1. req'[r] \in {Fetched(IdleRequest, "get"), IdleRequest}
        BY <2>2 DEF get_settings, abandon, TypeOK
      <3>2. Fetched(IdleRequest, "get").pc = "settle" /\ IdleRequest.pc = "idle"
        BY FetchedType, IdleType
      <3> QED BY <3>1, <3>2
    <2>3. ASSUME fetch_budget_row(r)  PROVE req'[r].pc = "settle"
      BY <2>3 DEF fetch_budget_row, Fetched, TypeOK, Request
    <2>4. ASSUME NEW price, NEW priced, estimate_job_cost(r, price, priced)
          PROVE  req'[r].pc = "fetch"
      BY <2>4 DEF estimate_job_cost, TypeOK, IdleRequest
    <2> QED BY <1>4, <1>5, <2>1, <2>2, <2>3, <2>4
  <1>6. ASSUME NEW r \in Requests, NEW t \in 0 .. now, settle_accrual(r, t)
        PROVE  Overcommit'
    <2> DEFINE row == req[r].row
               gain == Accrued(row, t)
               q == Settled(req[r], gain)
    <2>1. /\ req[r] \in Request /\ row \in BudgetRow /\ req[r].kind \in {"get", "admit"}
          /\ OnCurve(row) /\ row.last <= t /\ t \in Nat
          /\ row.rate = budget.rate /\ row.cap = budget.cap
      BY <1>6 DEF settle_accrual, TypeOK, RowsFetched, RowsOnCurve, Request, BudgetRow
    <2>2. gain \in Nat
      BY <2>1, AccruedType
    <2>3. Moves(r, q) /\ jobs' = jobs
      BY <1>6 DEF settle_accrual, Moves
    <2>4. row.balance + gain <= Ceiling(budget)
      <3>1. row.balance + gain = Least(row.rate * t, row.rate * row.cap)
        BY <2>1, AccruedOnCurve
      <3>2. row.rate * t \in Nat /\ row.rate * row.cap \in Nat
        BY <2>1 DEF BudgetRow
      <3> QED BY <2>1, <3>1, <3>2 DEF Least, Ceiling
    <2>5. q \in Request
      BY <2>1, <2>2, SettledType
    <2>6. /\ q.pc # "insert"
          /\ q.pc = "decide" => q.row.rate = budget.rate /\ q.row.balance = row.balance + gain
      <3>1. CASE req[r].kind = "get"
        BY <3>1 DEF Settled, IdleRequest
      <3>2. CASE req[r].kind = "admit"
        <4> DEFINE new == [row EXCEPT !.balance = @ + gain]
        <4>1. q = [req[r] EXCEPT !.pc = "decide", !.row = new]
          BY <2>1, <3>2 DEF Settled, AfterSettle, Request
        <4>2. new.rate = row.rate /\ new.balance = row.balance + gain
          BY <2>1 DEF BudgetRow
        <4> HIDE DEF new, q, gain
        <4> QED BY <2>1, <4>1, <4>2 DEF Request
      <3> QED BY <2>1, <3>1, <3>2
    <2> HIDE DEF q, gain, row
    <2> QED BY <1>3, <2>3, <2>4, <2>5, <2>6, MoveOvercommit
  <1>7. ASSUME NEW r \in Requests, check_budget(r)  PROVE Overcommit'
    BY <1>7, CheckOvercommit
  <1>8. ASSUME NEW r \in Requests, NEW j \in Jobs, create_job(r, j)  PROVE Overcommit'
    BY <1>8, InsertOvercommit
  <1>9. ASSUME NEW j \in Jobs, NEW actual \in Prices \union {0}, record_completion(j, actual)
        PROVE  Overcommit'
    <2> DEFINE row == [jobs[j] EXCEPT !.status = "over"]
    <2>1. req' = req /\ budget' = budget /\ jobs' = [jobs EXCEPT ![j] = row]
      BY <1>9 DEF record_completion
    <2>2. jobs \in [Jobs -> Job] /\ row \in Job
      BY DEF TypeOK, Job
    <2>3. Claim(row) = 0 /\ Claim(jobs[j]) \in Nat
      BY <2>2, ClaimType DEF Claim, Job
    <2> HIDE DEF row
    <2>4. Committed \in Nat /\ Committed' = Committed - Claim(jobs[j]) + 0
      <3>1. PICK new : new = jobs'
        OBVIOUS
      <3>2. new = [jobs EXCEPT ![j] = row]
        BY <2>1, <3>1
      <3>3. /\ committed_budget(jobs) \in Nat
            /\ committed_budget(new) = committed_budget(jobs) - Claim(jobs[j]) + Claim(row)
        BY <2>2, <3>2, CommittedChanges
      <3>4. committed_budget(jobs)' = committed_budget(new)
        BY <3>1 DEF committed_budget, Total, Claim
      <3> QED BY <2>3, <3>3, <3>4 DEF Committed
    <2>5. Pledged' = Pledged
      BY <2>1 DEF Pledged, Pledge, Total
    <2>6. Pledged \in Nat /\ MaxRequests * Ceiling(budget) \in Nat
      BY PledgedType, RequestAssumption DEF Ceiling, TypeOK, BudgetRow
    <2>7. Committed + Pledged <= MaxRequests * Ceiling(budget)
      BY DEF Overcommit
    <2>8. Committed' + Pledged' <= MaxRequests * Ceiling(budget)
      BY <2>3, <2>4, <2>5, <2>6, <2>7
    <2> QED BY <2>1, <2>8 DEF Overcommit, Ceiling, Budgeting, Pledge
  <1>10. ASSUME day_passes  PROVE Overcommit'
    BY <1>10 DEF day_passes, Overcommit, Ceiling, Budgeting, Committed, Pledged, Pledge
  <1>11. ASSUME UNCHANGED vars  PROVE Overcommit'
    BY <1>11 DEF vars, Overcommit, Ceiling, Budgeting, Committed, Pledged, Pledge
  <1> QED
    BY <1>2, <1>5, <1>6, <1>7, <1>8, <1>9, <1>10, <1>11 DEF Next

\* However admissions overlap, and whatever jobs end in between, the estimates of
\* the jobs running never exceed the balance's ceiling times the number of
\* admissions that can be in flight; the balance covers each alone.
THEOREM OvercommitIsBounded == Spec => []OvercommitBounded
  <1>1. ASSUME Init, IndInv  PROVE Overcommit
    <2>1. \A r \in Requests : req[r].pc = "idle" /\ Pledge(req[r]) = 0
      BY <1>1, IdleType DEF Init, Pledge
    <2>2. \A j \in Jobs : Claim(jobs[j]) = 0
      BY <1>1 DEF Init, Claim
    <2>3. MaxRequests \in Nat /\ MaxJobs \in Nat /\ Ceiling(budget) \in Nat
          /\ MaxRequests * Ceiling(budget) \in Nat
      BY <1>1, RequestAssumption DEF IndInv, TypeOK, BudgetRow, Ceiling
    <2>4. ASSUME NEW m \in Nat, NEW f, f = [n \in 1 .. m |-> 0]  PROVE Total(f, m) = 0
      <3>1. f \in [1 .. m -> Nat] /\ \A n \in 1 .. m : f[n] <= 0
        BY <2>4
      <3>2. Total(f, m) \in Nat /\ Total(f, m) <= m * 0
        BY <2>4, <3>1, TotalBound, Zenon
      <3> QED BY <2>4, <3>2
    <2>5. Committed = 0
      <3>1. [j \in Jobs |-> Claim(jobs[j])] = [j \in 1 .. MaxJobs |-> 0]
        BY <2>2 DEF Jobs
      <3> QED BY <2>3, <2>4, <3>1 DEF Committed, committed_budget
    <2>6. Pledged = 0
      <3>1. [r \in Requests |-> Pledge(req[r])] = [r \in 1 .. MaxRequests |-> 0]
        BY <2>1 DEF Requests
      <3> QED BY <2>3, <2>4, <3>1 DEF Pledged
    <2> QED BY <2>1, <2>3, <2>5, <2>6 DEF Overcommit
  <1>2. IndInv /\ Overcommit /\ [Next]_vars => Overcommit'
    BY OvercommitStep
  <1>3. ASSUME IndInv, Overcommit  PROVE OvercommitBounded
    <2>1. Committed \in Nat /\ Pledged \in Nat
      BY <1>3, CommittedType, PledgedType DEF IndInv
    <2>2. MaxRequests * (budget.rate * budget.cap) \in Nat
      BY <1>3, RequestAssumption DEF IndInv, TypeOK, BudgetRow
    <2> QED BY <1>3, <2>1, <2>2 DEF Overcommit, OvercommitBounded, Ceiling
  <1> QED BY <1>1, <1>2, <1>3, SpecInd, PTL DEF Spec

=============================================================================
