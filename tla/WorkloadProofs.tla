---------------------------- MODULE WorkloadProofs ----------------------------
(***************************************************************************)
(* Proofs about what becomes of a job's spec, as parts of Services, for    *)
(* every catalog, price list and spec, every container, any Secrets and    *)
(* patches, and any bounds.  Costing: the plan chosen is the cheapest as   *)
(* charged, the estimate bounds the cost of a run within its deadline, and *)
(* a run that was charged stays in the cost report.  Delivery: a container that runs has all its        *)
(* required variables, from one reading of the Secrets, and is not root    *)
(* when its spec says so.                                                  *)
(***************************************************************************)
EXTENDS ProcessProofs, WellFoundedInduction

-----------------------------------------------------------------------------
(***************************************************************************)
(* Costing: the tables.                                                    *)
(***************************************************************************)

\* The cached plans are of one catalog; no cached price or rate is negative.
TablesTyped ==
    /\ plans = {} \/ \E catalog \in Catalogs : plans \subseteq catalog
    /\ \A key \in DOMAIN prices : prices[key] \in Nat
    /\ rate \in Nat \union {None}

\* The plans have their types, and a name is the name of one plan.
LEMMA PlansTyped ==
    ASSUME TablesTyped
    PROVE  /\ \A p \in plans : /\ p # None /\ p.name \in Nat \ {0} /\ p.cpu \in Nat
                               /\ p.storage \in Nat /\ p.memory \in Nat /\ p.memory % 1024 = 0
           /\ \A p, q \in plans : p.name = q.name => p = q
  BY CatalogAssumption DEF TablesTyped

\* A price is a number or missing.
LEMMA PriceTyped ==
    ASSUME TablesTyped, NEW key
    PROVE  /\ Cost!cached_price(key) \in Nat \union {None}
           /\ Cost!Coalesce(Cost!cached_price(key)) \in Nat
  BY NoneAssumption DEF TablesTyped, Cost!cached_price, Cost!Coalesce

-----------------------------------------------------------------------------
(***************************************************************************)
(* The ORDER BY has a first row.                                           *)
(***************************************************************************)

\* Some set of numbers that is not empty has a least one.
LEMMA LeastExists ==
    ASSUME NEW T, T \subseteq Nat, T # {}
    PROVE  \E x \in T : \A y \in T : x <= y
PROOF
  <1> DEFINE R == {pair \in Nat \X Nat : pair[1] < pair[2]}
  <1>1. IsWellFoundedOn(R, Nat)
    BY NatLessThanWellFounded, Zenon DEF OpToRel
  <1> HIDE DEF R
  <1>2. PICK x \in T : \A y \in T : ~(<<y, x>> \in R)
    BY <1>1, WFMin
  <1>3. ASSUME NEW y \in T PROVE x <= y
    <2>1. y < x => <<y, x>> \in R
      BY DEF R
    <2>. QED  BY <1>2, <2>1
  <1>. QED  BY <1>3

\* The elements of S with the least value of f.
Least(f, S) == {p \in S : \A q \in S : f[p] <= f[q]}

LEMMA LeastNonempty ==
    ASSUME NEW S, NEW f \in [S -> Nat], NEW T, T \subseteq S, T # {}
    PROVE  Least(f, T) \subseteq T /\ Least(f, T) # {}
PROOF
  <1> DEFINE V == {f[p] : p \in T}
  <1>1. V \subseteq Nat /\ V # {}
    OBVIOUS
  <1>2. PICK x \in V : \A y \in V : x <= y
    BY <1>1, LeastExists
  <1>3. PICK p \in T : x = f[p]
    BY <1>2
  <1>4. p \in Least(f, T)
    BY <1>2, <1>3 DEF Least
  <1>. QED  BY <1>4 DEF Least

LEMMA RankTyped ==
    ASSUME TablesTyped, NEW p \in plans
    PROVE  Cost!Rank(p) \in [1 .. 5 -> Nat]
PROOF
  <1>1. /\ p.name \in Nat /\ p.cpu \in Nat /\ p.memory \in Nat
    BY PlansTyped
  <1>2. ASSUME NEW key PROVE Cost!Coalesce(Cost!cached_price(key)) \in Nat
    BY PriceTyped
  <1>3. Cost!cached_price(p.name) \in Nat \union {None}
    BY PriceTyped
  <1> DEFINE extras == IF p.storage < Cost!WORKER_BOOT_DISK_GB
                       THEN Cost!Coalesce(Cost!cached_price(Cost!Storage.standard))
                            * Cost!WORKER_BOOT_DISK_GB
                            + Cost!Coalesce(Cost!cached_price(Cost!Ipv4))
                       ELSE 0
  <1>4. extras \in Nat
    BY <1>2 DEF Cost!WORKER_BOOT_DISK_GB
  <1> DEFINE price == Cost!cached_price(p.name)
             cost == IF price = None THEN 0 ELSE price + extras
             missing == IF price = None THEN 1 ELSE 0
  <1>5. cost \in Nat /\ missing \in Nat
    BY <1>3, <1>4
  <1>6. Cost!Rank(p) = <<missing, cost, p.cpu, p.memory, p.name>>
    BY DEF Cost!Rank
  <1> HIDE DEF cost, missing
  <1>. QED  BY <1>1, <1>5, <1>6

\* An element is worse than a least one, or as good and itself a least one.
LEMMA LeastSplit ==
    ASSUME NEW S, NEW f \in [S -> Nat], NEW T, T \subseteq S, NEW p \in Least(f, T), NEW q \in T
    PROVE  f[p] < f[q] \/ (f[p] = f[q] /\ q \in Least(f, T))
PROOF
  <1>1. f[p] \in Nat /\ f[q] \in Nat /\ \A r \in T : f[r] \in Nat
    BY DEF Least
  <1>2. f[p] <= f[q]
    BY DEF Least
  <1>. QED  BY <1>1, <1>2 DEF Least

\* One row comes before all others: rows that tie on everything have the same name.
LEMMA FirstExists ==
    ASSUME TablesTyped, NEW S, S \subseteq plans, S # {}
    PROVE  \E p \in S : \A q \in S \ {p} : Cost!Before(p, q)
PROOF
  <1> DEFINE f(n) == [p \in S |-> Cost!Rank(p)[n]]
             S1 == Least(f(1), S)
             S2 == Least(f(2), S1)
             S3 == Least(f(3), S2)
             S4 == Least(f(4), S3)
             S5 == Least(f(5), S4)
  <1>1. ASSUME NEW n \in 1 .. 5
        PROVE f(n) \in [S -> Nat] /\ \A p \in S : f(n)[p] = Cost!Rank(p)[n]
    BY RankTyped
  <1>2. ASSUME NEW p \in S PROVE Cost!Rank(p)[5] = p.name
    BY DEF Cost!Rank
  <1> HIDE DEF f
  <1>. HIDE DEF S1, S2, S3, S4, S5
  <1>0. ASSUME NEW n \in 1 .. 5, NEW T, T \subseteq S, T # {}
         PROVE Least(f(n), T) \subseteq T /\ Least(f(n), T) # {}
    <2>1. f(n) \in [S -> Nat]
      BY <1>1
    <2>. QED  BY <1>0, <2>1, LeastNonempty
  <1>3. S1 \subseteq S /\ S1 # {}
    BY <1>0 DEF S1
  <1>4. S2 \subseteq S1 /\ S2 # {}
    BY <1>0, <1>3 DEF S2
  <1>5. S3 \subseteq S2 /\ S3 # {}
    BY <1>0, <1>3, <1>4 DEF S3
  <1>6. S4 \subseteq S3 /\ S4 # {}
    BY <1>0, <1>3, <1>4, <1>5 DEF S4
  <1>7. S5 \subseteq S4 /\ S5 # {}
    BY <1>0, <1>3, <1>4, <1>5, <1>6 DEF S5
  <1>8. PICK p \in S5 : TRUE
    BY <1>7
  <1>9. ASSUME NEW q \in S \ {p} PROVE Cost!Before(p, q)
    <2>1. p \in S /\ q \in S
      BY <1>3, <1>4, <1>5, <1>6, <1>7, <1>8, <1>9
    <2>2. \A n \in 1 .. 5 : Cost!Rank(p)[n] \in Nat /\ Cost!Rank(q)[n] \in Nat
      BY <2>1, RankTyped
    <2>0. ASSUME NEW n \in 1 .. 5, NEW T, T \subseteq S, p \in Least(f(n), T), q \in T
          PROVE f(n)[p] < f(n)[q] \/ (f(n)[p] = f(n)[q] /\ q \in Least(f(n), T))
      <3>1. f(n) \in [S -> Nat]
        BY <1>1
      <3>. QED  BY <2>0, <3>1, LeastSplit
    <2>3. f(1)[p] < f(1)[q] \/ (f(1)[p] = f(1)[q] /\ q \in S1)
      BY <1>4, <1>5, <1>6, <1>7, <2>0, <2>1 DEF S1
    <2>4. q \in S1 => f(2)[p] < f(2)[q] \/ (f(2)[p] = f(2)[q] /\ q \in S2)
      BY <1>3, <1>5, <1>6, <1>7, <2>0 DEF S2
    <2>5. q \in S2 => f(3)[p] < f(3)[q] \/ (f(3)[p] = f(3)[q] /\ q \in S3)
      BY <1>3, <1>4, <1>6, <1>7, <2>0 DEF S3
    <2>6. q \in S3 => f(4)[p] < f(4)[q] \/ (f(4)[p] = f(4)[q] /\ q \in S4)
      BY <1>3, <1>4, <1>5, <1>7, <2>0 DEF S4
    <2>7. q \in S4 => f(5)[p] < f(5)[q] \/ f(5)[p] = f(5)[q]
      BY <1>3, <1>4, <1>5, <1>6, <2>0 DEF S5
    <2>8. f(5)[p] # f(5)[q]
      BY <1>1, <1>2, <1>9, <2>1, PlansTyped
    <2>9. \E n \in 1 .. 5 : f(n)[p] < f(n)[q] /\ \A m \in 1 .. (n - 1) : f(m)[p] = f(m)[q]
      <3>1. CASE f(1)[p] < f(1)[q]
        BY <3>1
      <3>2. CASE f(1)[p] = f(1)[q] /\ f(2)[p] < f(2)[q]
        <4>1. \A m \in 1 .. (2 - 1) : m = 1
          OBVIOUS
        <4>. QED  BY <3>2, <4>1
      <3>3. CASE f(1)[p] = f(1)[q] /\ f(2)[p] = f(2)[q] /\ f(3)[p] < f(3)[q]
        <4>1. \A m \in 1 .. (3 - 1) : m \in {1, 2}
          OBVIOUS
        <4>. QED  BY <3>3, <4>1
      <3>4. CASE /\ f(1)[p] = f(1)[q] /\ f(2)[p] = f(2)[q] /\ f(3)[p] = f(3)[q]
                 /\ f(4)[p] < f(4)[q]
        <4>1. \A m \in 1 .. (4 - 1) : m \in {1, 2, 3}
          OBVIOUS
        <4>. QED  BY <3>4, <4>1
      <3>5. CASE /\ f(1)[p] = f(1)[q] /\ f(2)[p] = f(2)[q] /\ f(3)[p] = f(3)[q]
                 /\ f(4)[p] = f(4)[q] /\ f(5)[p] < f(5)[q]
        <4>1. \A m \in 1 .. (5 - 1) : m \in {1, 2, 3, 4}
          OBVIOUS
        <4>. QED  BY <3>5, <4>1
      <3>. QED
        BY <2>3, <2>4, <2>5, <2>6, <2>7, <2>8, <3>1, <3>2, <3>3, <3>4, <3>5
    <2>10. PICK n \in 1 .. 5 :
              f(n)[p] < f(n)[q] /\ \A m \in 1 .. (n - 1) : f(m)[p] = f(m)[q]
      BY <2>9
    <2>11. /\ \A m \in 1 .. 5 : f(m)[p] = Cost!Rank(p)[m] /\ f(m)[q] = Cost!Rank(q)[m]
           /\ \A m \in 1 .. (n - 1) : m \in 1 .. 5
      BY <1>1, <2>1
    <2>12. /\ Cost!Rank(p)[n] < Cost!Rank(q)[n]
           /\ \A m \in 1 .. (n - 1) : Cost!Rank(p)[m] = Cost!Rank(q)[m]
      BY <2>10, <2>11
    <2>. QED  BY <2>12 DEF Cost!Before
  <1>10. p \in S
    BY <1>3, <1>4, <1>5, <1>6, <1>7, <1>8
  <1>. QED  BY <1>9, <1>10

\* The plans a query for so many units looks at, and the one it finds.
Fitting(units) == {p \in plans : p.cpu >= units.cpu /\ p.memory >= units.memory * 1024}

LEMMA FirstChosen ==
    ASSUME TablesTyped, NEW spec
    PROVE  LET units == Cost!whole_units_for_requests(spec)
               plan == Cost!plan_for_resource_requests(spec)
           IN  \/ Fitting(units) = {} /\ plan = None
               \/ /\ plan \in Fitting(units) /\ plan # None
                  /\ \A q \in Fitting(units) \ {plan} : Cost!Before(plan, q)
PROOF
  <1> DEFINE units == Cost!whole_units_for_requests(spec)
             plan == Cost!plan_for_resource_requests(spec)
             First(p) == \A q \in Fitting(units) \ {p} : Cost!Before(p, q)
  <1>1. plan = IF Fitting(units) = {} THEN None ELSE CHOOSE p \in Fitting(units) : First(p)
    BY Zenon DEF Cost!plan_for_resource_requests, Cost!cheapest_fitting_server_plan, Fitting
  <1>2. Fitting(units) \subseteq plans
    BY DEF Fitting
  <1> HIDE DEF units, plan
  <1>3. ASSUME Fitting(units) # {}
        PROVE plan \in Fitting(units) /\ plan # None /\ First(plan)
    <2>1. \E p \in Fitting(units) : First(p)
      BY <1>2, <1>3, FirstExists
    <2> HIDE DEF First
    <2>2. plan \in Fitting(units) /\ First(plan)
      BY <1>1, <1>3, <2>1, Zenon
    <2>. QED  BY <1>2, <2>2, PlansTyped
  <1>4. \/ Fitting(units) = {} /\ plan = None
        \/ plan \in Fitting(units) /\ plan # None /\ First(plan)
    BY <1>1, <1>3
  <1>. QED  BY <1>4 DEF units, plan

-----------------------------------------------------------------------------
(***************************************************************************)
(* What a plan comes to.                                                   *)
(***************************************************************************)

LEMMA MulNat == \A a, b \in Nat : a * b \in Nat
  OBVIOUS

LEMMA MulMono == \A a, b, c \in Nat : b <= c => a * b <= a * c
  OBVIOUS

\* The first volume of a spec, if it has a size.
SizedVolume(spec) ==
    LET first == Cost!find_ephemeral_volume(spec)
    IN  IF first = None THEN None ELSE IF Cost!IsQuantity(first.size) THEN first ELSE None

\* Whether a plan is charged for this, and how much for an hour.
Due(what, storage, volume) ==
    \/ what = "server"
    \/ what \in {"disk", "ipv4"} /\ ~Cost!plan_bundles_disk_and_ip(storage)
    \/ what = "volume" /\ volume # None

Rate(what, name, storage, volume) ==
    IF Due(what, storage, volume)
    THEN Cost!Coalesce(Cost!cached_price(Cost!PriceKey(what, name, volume)))
         * Cost!Units(what, volume)
    ELSE 0

Rates(name, storage, volume) ==
    Rate("server", name, storage, volume) + Rate("disk", name, storage, volume)
    + Rate("ipv4", name, storage, volume) + Rate("volume", name, storage, volume)

Charges(name, storage, volume, hours) ==
    [what \in Cost!Charged(name, storage, volume) |->
        Cost!cached_price(Cost!PriceKey(what, name, volume)) * Cost!Units(what, volume) * hours]

AllKinds == {"server", "disk", "ipv4", "volume"}

LEMMA VolumeSized ==
    ASSUME NEW spec \in Specs
    PROVE  \/ SizedVolume(spec) = None
           \/ SizedVolume(spec).size \in Nat
  BY SpecAssumption, NoneAssumption DEF SizedVolume, Cost!find_ephemeral_volume, Cost!IsQuantity

LEMMA UnitsTyped ==
    ASSUME NEW volume, volume = None \/ volume.size \in Nat, NEW what \in AllKinds,
           what = "volume" => volume # None
    PROVE  Cost!Units(what, volume) \in Nat
PROOF
  <1>1. CASE what = "volume"
    <2>1. volume.size \in Nat
      BY <1>1
    <2>2. Cost!IsQuantity(volume.size)
      BY <2>1, NoneAssumption DEF Cost!IsQuantity
    <2>3. Cost!Units(what, volume) = (volume.size + 1024 * 1024 - 1) \div (1024 * 1024)
      BY <1>1, <2>2 DEF Cost!Units, Cost!parse_storage_quantity_gb, Cost!div_ceil
    <2>. QED  BY <2>1, <2>3
  <1>2. CASE what # "volume"
    BY <1>2 DEF Cost!Units, Cost!WORKER_BOOT_DISK_GB, AllKinds
  <1>. QED  BY <1>1, <1>2

LEMMA RateTyped ==
    ASSUME TablesTyped, NEW volume, volume = None \/ volume.size \in Nat, NEW what \in AllKinds,
           NEW name, NEW storage
    PROVE  Rate(what, name, storage, volume) \in Nat
PROOF
  <1>1. Cost!Coalesce(Cost!cached_price(Cost!PriceKey(what, name, volume))) \in Nat
    BY PriceTyped
  <1>2. Due(what, storage, volume) => Cost!Units(what, volume) \in Nat
    BY UnitsTyped DEF Due
  <1>. QED  BY <1>1, <1>2, MulNat DEF Rate

\* The sum of a plan's charges is its rates' times the hours.
LEMMA TotalOfCharges ==
    ASSUME TablesTyped, NEW volume, volume = None \/ volume.size \in Nat,
           NEW name, NEW storage, NEW hours \in Nat
    PROVE  /\ Charges(name, storage, volume, hours) # None
           /\ Rates(name, storage, volume) \in Nat
           /\ Cost!Total(Charges(name, storage, volume, hours))
                = Rates(name, storage, volume) * hours
PROOF
  <1> DEFINE ch == Charges(name, storage, volume, hours)
             of(what) == IF what \in DOMAIN ch THEN ch[what] ELSE 0
             R(what) == Rate(what, name, storage, volume)
             D == Cost!Charged(name, storage, volume)
             price(what) == Cost!cached_price(Cost!PriceKey(what, name, volume))
  <1>1. D \subseteq AllKinds
    BY DEF Cost!Charged, AllKinds
  <1>2. ASSUME NEW what \in AllKinds
        PROVE what \in D <=> Due(what, storage, volume) /\ price(what) # None
    BY DEF Cost!Charged, AllKinds, Due
  <1>3. ASSUME NEW what \in AllKinds
        PROVE R(what) \in Nat
    BY RateTyped
  <1>4. ASSUME NEW what \in AllKinds
        PROVE of(what) = R(what) * hours
    <2>1. CASE what \in D
      <3>1. Due(what, storage, volume) /\ price(what) # None
        BY <1>2, <2>1
      <3>2. R(what) = price(what) * Cost!Units(what, volume)
        BY <3>1 DEF Rate, Cost!Coalesce
      <3>. QED  BY <2>1, <3>2 DEF Charges
    <2>2. CASE what \notin D
      <3>1. ~Due(what, storage, volume) \/ price(what) = None
        BY <1>2, <2>2
      <3>2. R(what) = 0
        <4>1. CASE ~Due(what, storage, volume)
          BY <4>1 DEF Rate
        <4>2. CASE Due(what, storage, volume) /\ price(what) = None
          <5>1. Cost!Units(what, volume) \in Nat
            BY <4>2, UnitsTyped DEF Due
          <5>. QED  BY <4>2, <5>1 DEF Rate, Cost!Coalesce
        <4>. QED  BY <3>1, <4>1, <4>2
      <3>. QED  BY <2>2, <3>2 DEF Charges
    <2>. QED  BY <2>1, <2>2
  <1>5. ch \in [D -> Nat]
    <2>1. ASSUME NEW what \in D PROVE ch[what] \in Nat
      <3>1. what \in AllKinds /\ what \in DOMAIN ch
        BY <1>1 DEF Charges
      <3>2. ch[what] = R(what) * hours
        BY <1>4, <3>1
      <3>. QED  BY <1>3, <3>1, <3>2, MulNat
    <2>. QED  BY <2>1 DEF Charges
  <1>6. ch # None
    BY <1>1, <1>5, NoneAssumption DEF AllKinds
  <1> HIDE DEF ch, R
  <1>7. Cost!Total(ch) = of("server") + of("disk") + of("ipv4") + of("volume")
    BY <1>6 DEF Cost!Total
  <1>8. /\ of("server") = R("server") * hours /\ of("disk") = R("disk") * hours
        /\ of("ipv4") = R("ipv4") * hours /\ of("volume") = R("volume") * hours
    BY <1>4 DEF AllKinds
  <1>9. R("server") \in Nat /\ R("disk") \in Nat /\ R("ipv4") \in Nat /\ R("volume") \in Nat
    BY <1>3 DEF AllKinds
  <1> HIDE DEF of
  <1>10. Rates(name, storage, volume) = R("server") + R("disk") + R("ipv4") + R("volume")
    BY DEF Rates, R
  <1>11. ASSUME NEW a \in Nat, NEW b \in Nat, NEW c \in Nat, NEW d \in Nat
         PROVE a * hours + b * hours + c * hours + d * hours = (a + b + c + d) * hours
    OBVIOUS
  <1>12. Cost!Total(ch) = Rates(name, storage, volume) * hours
    BY <1>7, <1>8, <1>9, <1>10, <1>11
  <1>. QED  BY <1>6, <1>9, <1>10, <1>12 DEF ch

\* What charge_breakdown_for_duration gives for a plan of the catalog.
LEMMA BreakdownOfPlan ==
    ASSUME TablesTyped, NEW spec, NEW p \in plans, NEW hours
    PROVE  Cost!charge_breakdown_for_duration(spec, p.name, hours)
             = IF Cost!cached_price(p.name) = None THEN None
               ELSE Charges(p.name, p.storage, SizedVolume(spec), hours)
PROOF
  <1>1. p.name # None
    BY PlansTyped, NoneAssumption
  <1>2. {q \in plans : q.name = p.name} = {p}
    BY PlansTyped
  <1>3. (CHOOSE q \in {p} : TRUE) = p
    OBVIOUS
  <1>. QED
    BY <1>1, <1>2, <1>3
       DEF Cost!charge_breakdown_for_duration, Charges, SizedVolume

\* What an hour on it comes to.
LEMMA HourOnPlan ==
    ASSUME TablesTyped, NEW spec \in Specs, NEW p \in plans
    PROVE  Cost!Total(Cost!actual_job_charges(spec, p.name, 1))
             = IF Cost!cached_price(p.name) = None THEN None
               ELSE Rates(p.name, p.storage, SizedVolume(spec))
PROOF
  <1> DEFINE volume == SizedVolume(spec)
  <1>1. volume = None \/ volume.size \in Nat
    BY VolumeSized
  <1> HIDE DEF volume
  <1>2. /\ Charges(p.name, p.storage, volume, 1) # None
        /\ Rates(p.name, p.storage, volume) \in Nat
        /\ Cost!Total(Charges(p.name, p.storage, volume, 1)) = Rates(p.name, p.storage, volume) * 1
    BY <1>1, TotalOfCharges
  <1>3. Cost!actual_job_charges(spec, p.name, 1)
          = IF Cost!cached_price(p.name) = None THEN None
            ELSE Charges(p.name, p.storage, volume, 1)
    BY BreakdownOfPlan DEF Cost!actual_job_charges, volume
  <1>4. Cost!Total(None) = None
    BY DEF Cost!Total
  <1>5. Rates(p.name, p.storage, volume) * 1 = Rates(p.name, p.storage, volume)
    BY <1>2
  <1>. QED  BY <1>2, <1>3, <1>4, <1>5 DEF volume

\* What the volume adds, which is the same on every plan.
Extra(volume) == Rate("volume", None, 0, volume)

\* The ORDER BY's price is the rates' sum without the volume.
LEMMA RankIsRate ==
    ASSUME TablesTyped, NEW volume, volume = None \/ volume.size \in Nat, NEW p \in plans
    PROVE  /\ Extra(volume) \in Nat
           /\ Cost!Rank(p)[1] = IF Cost!cached_price(p.name) = None THEN 1 ELSE 0
           /\ Cost!cached_price(p.name) # None =>
                 Rates(p.name, p.storage, volume) = Cost!Rank(p)[2] + Extra(volume)
PROOF
  <1> DEFINE price == Cost!cached_price(p.name)
             disk == Cost!Coalesce(Cost!cached_price(Cost!Storage.standard)) * 10
             ip == Cost!Coalesce(Cost!cached_price(Cost!Ipv4))
  <1>1. Extra(volume) \in Nat
    BY RateTyped DEF Extra, AllKinds
  <1>2. Cost!Rank(p)[1] = IF price = None THEN 1 ELSE 0
    BY DEF Cost!Rank
  <1>3. price # None =>
          Cost!Rank(p)[2] = price + (IF p.storage < 10 THEN disk + ip ELSE 0)
    BY DEF Cost!Rank, Cost!WORKER_BOOT_DISK_GB
  <1>4. Rate("volume", p.name, p.storage, volume) = Extra(volume)
    BY DEF Rate, Extra, Due, Cost!PriceKey, Cost!Units
  <1>5. price # None => Rate("server", p.name, p.storage, volume) = price * 1
    BY DEF Rate, Due, Cost!PriceKey, Cost!Units, Cost!Coalesce
  <1>6. Rate("disk", p.name, p.storage, volume) = IF p.storage < 10 THEN disk ELSE 0
    BY PlansTyped DEF Rate, Due, Cost!PriceKey, Cost!Units, Cost!plan_bundles_disk_and_ip,
                      Cost!WORKER_BOOT_DISK_GB
  <1>7. Rate("ipv4", p.name, p.storage, volume) = IF p.storage < 10 THEN ip * 1 ELSE 0
    BY PlansTyped DEF Rate, Due, Cost!PriceKey, Cost!Units, Cost!plan_bundles_disk_and_ip,
                      Cost!WORKER_BOOT_DISK_GB
  <1>8. price \in Nat \union {None} /\ disk \in Nat /\ ip \in Nat
    BY PriceTyped
  <1> HIDE DEF price, disk, ip
  <1>9. price # None => Rates(p.name, p.storage, volume) = Cost!Rank(p)[2] + Extra(volume)
    BY <1>1, <1>3, <1>4, <1>5, <1>6, <1>7, <1>8 DEF Rates
  <1>. QED  BY <1>1, <1>2, <1>9 DEF price

\* Rounding to units and comparing them is comparing with what was asked for, to half
\* a millicore and half a MB, because plans have whole cores and whole GB.
LEMMA CoresEnough ==
    ASSUME NEW cpu \in Nat, NEW q \in Nat
    PROVE  cpu >= ((q + 5) \div 10 + 1000 - 1) \div 1000 <=> cpu * 10000 + 5 > q
  OBVIOUS

LEMMA MemoryEnough ==
    ASSUME NEW memory \in Nat, memory % 1024 = 0, NEW q \in Nat
    PROVE  memory >= (((q + 512) \div 1024 + 1024 - 1) \div 1024) * 1024
             <=> memory * 1024 + 512 > q
  OBVIOUS

\* Large enough for what a spec asks for, as CheapestCharged says it.
Enough(spec, p) ==
    /\ IF Cost!IsQuantity(spec.cpu) THEN p.cpu * 10000 + 5 > spec.cpu ELSE p.cpu >= 1
    /\ IF Cost!IsQuantity(spec.memory) THEN p.memory * 1024 + 512 > spec.memory
       ELSE p.memory >= 1024

LEMMA FittingIsEnough ==
    ASSUME TablesTyped, NEW spec \in Specs, NEW p \in plans
    PROVE  p \in Fitting(Cost!whole_units_for_requests(spec)) <=> Enough(spec, p)
PROOF
  <1> DEFINE units == Cost!whole_units_for_requests(spec)
  <1>1. p.cpu \in Nat /\ p.memory \in Nat /\ p.memory % 1024 = 0
    BY PlansTyped
  <1>2. spec.cpu \in Int \union {None} /\ spec.memory \in Int \union {None}
    BY SpecAssumption
  <1>3. p.cpu >= units.cpu
          <=> IF Cost!IsQuantity(spec.cpu) THEN p.cpu * 10000 + 5 > spec.cpu ELSE p.cpu >= 1
    <2>1. CASE Cost!IsQuantity(spec.cpu)
      <3>1. spec.cpu \in Nat /\ (spec.cpu + 5) \div 10 # None
        BY <1>2, <2>1, NoneAssumption DEF Cost!IsQuantity
      <3>2. units.cpu = ((spec.cpu + 5) \div 10 + 1000 - 1) \div 1000
        BY <2>1, <3>1 DEF Cost!whole_units_for_requests, Cost!extract_resource_requests,
                          Cost!parse_cpu_millicores, Cost!div_ceil
      <3>. QED  BY <1>1, <2>1, <3>1, <3>2, CoresEnough
    <2>2. CASE ~Cost!IsQuantity(spec.cpu)
      <3>1. units.cpu = 1
        BY <2>2 DEF Cost!whole_units_for_requests, Cost!extract_resource_requests,
                    Cost!parse_cpu_millicores, Cost!div_ceil
      <3>. QED  BY <1>1, <2>2, <3>1
    <2>. QED  BY <2>1, <2>2
  <1>4. p.memory >= units.memory * 1024
          <=> IF Cost!IsQuantity(spec.memory) THEN p.memory * 1024 + 512 > spec.memory
              ELSE p.memory >= 1024
    <2>1. CASE Cost!IsQuantity(spec.memory)
      <3>1. spec.memory \in Nat /\ (spec.memory + 512) \div 1024 # None
        BY <1>2, <2>1, NoneAssumption DEF Cost!IsQuantity
      <3>2. units.memory = ((spec.memory + 512) \div 1024 + 1024 - 1) \div 1024
        BY <2>1, <3>1 DEF Cost!whole_units_for_requests, Cost!extract_resource_requests,
                          Cost!parse_storage_quantity_mb, Cost!div_ceil
      <3>. QED  BY <1>1, <2>1, <3>1, <3>2, MemoryEnough
    <2>2. CASE ~Cost!IsQuantity(spec.memory)
      <3>1. units.memory = 1
        BY <2>2 DEF Cost!whole_units_for_requests, Cost!extract_resource_requests,
                    Cost!parse_storage_quantity_mb, Cost!div_ceil
      <3>. QED  BY <1>1, <2>2, <3>1
    <2>. QED  BY <2>1, <2>2
  <1> HIDE DEF units
  <1>5. p \in Fitting(units) <=> p.cpu >= units.cpu /\ p.memory >= units.memory * 1024
    BY DEF Fitting
  <1>. QED  BY <1>3, <1>4, <1>5 DEF Enough, units

\* Whatever comes after a plan that is priced is priced no lower.
LEMMA BeforeIsCheaper ==
    ASSUME TablesTyped, NEW volume, volume = None \/ volume.size \in Nat,
           NEW p \in plans, NEW q \in plans, Cost!Before(p, q) \/ p = q,
           Cost!cached_price(q.name) # None
    PROVE  /\ Cost!cached_price(p.name) # None
           /\ Rates(p.name, p.storage, volume) <= Rates(q.name, q.storage, volume)
PROOF
  <1>1. \A n \in 1 .. 5 : Cost!Rank(p)[n] \in Nat /\ Cost!Rank(q)[n] \in Nat
    BY RankTyped
  <1>2. Cost!Rank(q)[1] = 0
    BY RankIsRate
  <1>3. Cost!Rank(p)[1] = 0 /\ Cost!Rank(p)[2] <= Cost!Rank(q)[2]
    <2>1. CASE p = q
      BY <1>1, <1>2, <2>1
    <2>2. CASE Cost!Before(p, q)
      <3>1. PICK n \in 1 .. 5 : /\ Cost!Rank(p)[n] < Cost!Rank(q)[n]
                                /\ \A m \in 1 .. (n - 1) : Cost!Rank(p)[m] = Cost!Rank(q)[m]
        BY <2>2 DEF Cost!Before
      <3>2. n # 1
        BY <1>1, <1>2, <3>1
      <3>3. 1 \in 1 .. (n - 1) /\ (n = 2 \/ 2 \in 1 .. (n - 1))
        BY <3>2
      <3>4. Cost!Rank(p)[1] = Cost!Rank(q)[1]
        BY <3>1, <3>3
      <3>5. n = 2 \/ Cost!Rank(p)[2] = Cost!Rank(q)[2]
        BY <3>1, <3>3
      <3>. QED  BY <1>1, <1>2, <3>1, <3>4, <3>5
    <2>. QED  BY <2>1, <2>2
  <1>4. Cost!cached_price(p.name) # None
    BY <1>3, RankIsRate
  <1>5. /\ Extra(volume) \in Nat
        /\ Rates(p.name, p.storage, volume) = Cost!Rank(p)[2] + Extra(volume)
        /\ Rates(q.name, q.storage, volume) = Cost!Rank(q)[2] + Extra(volume)
    BY <1>4, RankIsRate
  <1>. QED  BY <1>1, <1>3, <1>4, <1>5

\* For any cached plans and prices.
LEMMA CheapestIsCharged == ASSUME TablesTyped PROVE Cost!CheapestCharged
PROOF
  <1>1. SUFFICES
          ASSUME NEW spec \in {s \in Specs : Cost!Admitted(s)}
          PROVE LET plan == Cost!plan_for_resource_requests(spec)
                    PerHour(p) == Cost!Total(Cost!actual_job_charges(spec, p.name, 1))
                IN  IF plan = None THEN \A p \in plans : ~Enough(spec, p)
                    ELSE /\ Enough(spec, plan)
                         /\ \A p \in plans : Enough(spec, p) /\ PerHour(p) # None =>
                               PerHour(plan) # None /\ PerHour(plan) <= PerHour(p)
    BY SMTT(30) DEF Cost!CheapestCharged, Enough
  <1>0. spec \in Specs
    BY <1>1
  <1> DEFINE plan == Cost!plan_for_resource_requests(spec)
             PerHour(p) == Cost!Total(Cost!actual_job_charges(spec, p.name, 1))
             volume == SizedVolume(spec)
             fitting == Fitting(Cost!whole_units_for_requests(spec))
  <1>2. volume = None \/ volume.size \in Nat
    BY <1>0, VolumeSized
  <1>3. \/ fitting = {} /\ plan = None
        \/ /\ plan \in fitting /\ plan # None
           /\ \A q \in fitting \ {plan} : Cost!Before(plan, q)
    BY FirstChosen
  <1>4. fitting \subseteq plans
    BY DEF Fitting
  <1>5. ASSUME NEW p \in plans
        PROVE /\ p \in fitting <=> Enough(spec, p)
              /\ PerHour(p) = IF Cost!cached_price(p.name) = None THEN None
                              ELSE Rates(p.name, p.storage, volume)
              /\ Rates(p.name, p.storage, volume) # None
    <2>1. Rates(p.name, p.storage, volume) \in Nat
      BY <1>2, TotalOfCharges
    <2>. QED  BY <1>0, <2>1, FittingIsEnough, HourOnPlan, NoneAssumption
  <1> HIDE DEF plan, PerHour, volume, fitting
  <1>6. CASE plan = None
    <2>1. \A p \in plans : ~Enough(spec, p)
      BY <1>3, <1>5, <1>6
    <2>. QED  BY <1>6, <2>1 DEF plan
  <1>7. CASE plan # None
    <2>1. plan \in plans /\ Enough(spec, plan)
      BY <1>3, <1>4, <1>5, <1>7
    <2>2. ASSUME NEW p \in plans, Enough(spec, p), PerHour(p) # None
          PROVE PerHour(plan) # None /\ PerHour(plan) <= PerHour(p)
      <3>1. p \in fitting /\ Cost!cached_price(p.name) # None
        BY <1>5, <2>2
      <3>2. Cost!Before(plan, p) \/ plan = p
        BY <1>3, <1>7, <3>1
      <3>3. /\ Cost!cached_price(plan.name) # None
            /\ Rates(plan.name, plan.storage, volume) <= Rates(p.name, p.storage, volume)
        BY <1>2, <2>1, <3>1, <3>2, BeforeIsCheaper
      <3>. QED  BY <1>5, <2>1, <3>1, <3>3
    <2>. QED  BY <1>7, <2>1, <2>2 DEF plan, PerHour
  <1>. QED  BY <1>6, <1>7

-----------------------------------------------------------------------------
(***************************************************************************)
(* What a job comes to.                                                    *)
(***************************************************************************)

\* The storage of a plan by its name; one that has left the catalog bundles its disk.
StorageOf(name) ==
    LET known == {p \in plans : p.name = name}
    IN  IF known = {} THEN Cost!WORKER_BOOT_DISK_GB ELSE (CHOOSE p \in known : TRUE).storage

LEMMA BreakdownOfName ==
    ASSUME NEW spec, NEW name, name # None, NEW hours
    PROVE  Cost!charge_breakdown_for_duration(spec, name, hours)
             = IF Cost!cached_price(name) = None THEN None
               ELSE Charges(name, StorageOf(name), SizedVolume(spec), hours)
  BY DEF Cost!charge_breakdown_for_duration, Charges, SizedVolume, StorageOf

\* Without a recorded plan, the chosen one is charged.
LEMMA BreakdownOfChoice ==
    ASSUME TablesTyped, NEW spec, NEW hours
    PROVE  LET plan == Cost!plan_for_resource_requests(spec)
           IN  Cost!charge_breakdown_for_duration(spec, None, hours)
                 = IF plan = None THEN None
                   ELSE Cost!charge_breakdown_for_duration(spec, plan.name, hours)
PROOF
  <1> DEFINE plan == Cost!plan_for_resource_requests(spec)
  <1>1. plan # None => plan.name # None
    BY FirstChosen, PlansTyped, NoneAssumption DEF Fitting
  <1> HIDE DEF plan
  <1>2. CASE plan = None
    BY <1>2 DEF Cost!charge_breakdown_for_duration, plan
  <1>3. CASE plan # None
    <2>1. Cost!charge_breakdown_for_duration(spec, plan.name, hours)
            = IF Cost!cached_price(plan.name) = None THEN None
              ELSE Charges(plan.name, StorageOf(plan.name), SizedVolume(spec), hours)
      BY <1>1, <1>3, BreakdownOfName
    <2>2. Cost!charge_breakdown_for_duration(spec, None, hours)
            = IF Cost!cached_price(plan.name) = None THEN None
              ELSE Charges(plan.name, StorageOf(plan.name), SizedVolume(spec), hours)
      BY <1>1, <1>3 DEF Cost!charge_breakdown_for_duration, Charges, SizedVolume, StorageOf, plan
    <2>. QED  BY <1>3, <2>1, <2>2 DEF plan
  <1>. QED  BY <1>2, <1>3 DEF plan

\* What so many hours on a plan come to.
LEMMA HoursOnPlan ==
    ASSUME TablesTyped, NEW spec \in Specs, NEW name, name # None, NEW hours \in Nat
    PROVE  LET rates == Rates(name, StorageOf(name), SizedVolume(spec))
           IN  /\ rates \in Nat
               /\ Cost!Total(Cost!charge_breakdown_for_duration(spec, name, hours))
                    = IF Cost!cached_price(name) = None THEN None ELSE rates * hours
PROOF
  <1> DEFINE volume == SizedVolume(spec)
             storage == StorageOf(name)
  <1>1. volume = None \/ volume.size \in Nat
    BY VolumeSized
  <1>2. Cost!charge_breakdown_for_duration(spec, name, hours)
          = IF Cost!cached_price(name) = None THEN None ELSE Charges(name, storage, volume, hours)
    BY BreakdownOfName
  <1>3. Cost!Total(None) = None
    BY DEF Cost!Total
  <1> HIDE DEF volume, storage
  <1>4. /\ Rates(name, storage, volume) \in Nat
        /\ Cost!Total(Charges(name, storage, volume, hours)) = Rates(name, storage, volume) * hours
    BY <1>1, TotalOfCharges
  <1>. QED  BY <1>2, <1>3, <1>4 DEF volume, storage

-----------------------------------------------------------------------------
(***************************************************************************)
(* The job, through every sync.                                            *)
(***************************************************************************)

JobStatuses == {"none", "refused", "panicked", "VMPending", "VMCreating", "Succeeded"}
JobTyped ==
    /\ job \in [status : JobStatuses, spec : Specs \union {None}, estimate : Nat \union {None},
                plan : Nat \union {None}, cost : Nat \union {None}, hours : 0 .. MaxHours, since : BOOLEAN]
    /\ job.status # "none" => job.spec \in Specs
    /\ job.status \in {"VMPending", "VMCreating", "Succeeded"} => job.spec.deadline \in Int
    /\ job.cost # None => job.status = "Succeeded"
    /\ job.status \in {"VMCreating", "Succeeded"} => job.plan # None

\* Before the job is over, what admission estimated is what the tables say, unless a
\* sync changed them; and then the plan recorded is the one it was estimated with.
EstimateHolds ==
    \A spec \in Specs :
        spec = job.spec /\ ~job.since =>
            /\ job.status \in {"VMPending", "VMCreating"} =>
                  job.estimate = Cost!estimate_job_cost(spec)
            /\ job.status = "VMCreating" =>
                  /\ Cost!plan_for_resource_requests(spec) # None
                  /\ job.plan = Cost!plan_for_resource_requests(spec).name

\* The price of a plan that was charged stays.
StaysPriced == job.cost # None => job.plan \in DOMAIN prices

CostingInv == TablesTyped /\ JobTyped /\ EstimateHolds /\ Cost!EstimateBounds /\ StaysPriced

LEMMA CostingRuns == Spec => Cost!Init /\ [][Cost!Next]_costing
PROOF
  <1>1. Init => Cost!Init
    BY DEF Init
  <1>2. [Next]_vars => [Cost!Next]_costing
    BY DEF Next, vars
  <1>. QED  BY <1>1, <1>2, PTL DEF Spec

LEMMA InitCosting == Cost!Init => CostingInv
PROOF
  <1> SUFFICES ASSUME Cost!Init PROVE CostingInv
    OBVIOUS
  <1>1. TablesTyped
    BY DEF Cost!Init, TablesTyped
  <1>2. JobTyped
    BY NoneAssumption, BoundsAssumption DEF Cost!Init, Cost!NoJob, JobTyped, JobStatuses
  <1>3. EstimateHolds /\ Cost!EstimateBounds /\ StaysPriced
    BY DEF Cost!Init, Cost!NoJob, EstimateHolds, Cost!EstimateBounds, StaysPriced
  <1>. QED  BY <1>1, <1>2, <1>3 DEF CostingInv

\* What the tables say is the same while they are.
LEMMA SameTables ==
    ASSUME plans' = plans, prices' = prices, rate' = rate
    PROVE  /\ TablesTyped' <=> TablesTyped
           /\ \A spec : Cost!estimate_job_cost(spec)' = Cost!estimate_job_cost(spec)
           /\ \A spec : Cost!plan_for_resource_requests(spec)'
                          = Cost!plan_for_resource_requests(spec)
PROOF
  <1>1. TablesTyped' <=> TablesTyped
    BY DEF TablesTyped
  <1>2. \A spec : Cost!plan_for_resource_requests(spec)' = Cost!plan_for_resource_requests(spec)
    BY DEF Cost!plan_for_resource_requests, Cost!cheapest_fitting_server_plan, Cost!Before,
           Cost!Rank, Cost!cached_price
  <1>3. \A spec : Cost!estimate_job_cost(spec)' = Cost!estimate_job_cost(spec)
    BY DEF Cost!estimate_job_cost, Cost!estimate_job_charges, Cost!charge_breakdown_for_duration,
           Cost!plan_for_resource_requests, Cost!cheapest_fitting_server_plan, Cost!Before,
           Cost!Rank, Cost!cached_price, Cost!Charged, Cost!convert
  <1>. QED  BY <1>1, <1>2, <1>3

\* Tables that changed say nothing of the estimate: the job knows.
LEMMA StepSync ==
    ASSUME CostingInv, Cost!SinceAdmission, TablesTyped', DOMAIN prices \subseteq DOMAIN prices'
    PROVE  CostingInv'
PROOF
  <1>1. job' = [job EXCEPT !.since = job.status # "none"]
    BY DEF Cost!SinceAdmission
  <1>2. JobTyped'
    BY <1>1 DEF CostingInv, JobTyped
  <1>3. /\ job'.since = (job.status # "none") /\ job'.status = job.status
        /\ job'.cost = job.cost /\ job'.plan = job.plan
    BY <1>1 DEF CostingInv, JobTyped
  <1>4. EstimateHolds'
    BY <1>3 DEF EstimateHolds
  <1>5. Cost!EstimateBounds'
    BY <1>3 DEF CostingInv, JobTyped, Cost!EstimateBounds
  <1>6. StaysPriced'
    BY <1>3 DEF CostingInv, StaysPriced
  <1>. QED  BY <1>2, <1>4, <1>5, <1>6 DEF CostingInv

\* Conversion keeps numbers numbers and the larger of two the larger.
LEMMA Converted ==
    ASSUME TablesTyped
    PROVE  /\ \A a \in Nat \union {None} : Cost!convert(a) \in Nat \union {None}
           /\ \A a : Cost!convert(a) # None => a # None /\ rate # None
           /\ \A a, b \in Nat : a <= b /\ rate # None =>
                 /\ Cost!convert(a) \in Nat /\ Cost!convert(b) \in Nat
                 /\ Cost!convert(a) <= Cost!convert(b)
PROOF
  <1>1. rate # None => rate \in Nat
    BY DEF TablesTyped
  <1>2. \A a, b \in Nat : a <= b /\ rate # None => a * rate \in Nat /\ a * rate <= b * rate
    <2>. SUFFICES ASSUME NEW a \in Nat, NEW b \in Nat, a <= b, rate # None
                  PROVE a * rate \in Nat /\ a * rate <= b * rate
      OBVIOUS
    <2>1. a * rate = rate * a /\ b * rate = rate * b
      BY <1>1
    <2>. QED  BY <1>1, <2>1, MulMono, MulNat
  <1>3. \A a \in Nat : rate # None => a * rate \in Nat
    BY <1>1, MulNat
  <1>4. \A a \in Nat : a # None
    BY NoneAssumption
  <1>. QED  BY <1>2, <1>3, <1>4 DEF Cost!convert

\* What a job comes to is a number, or unknown.
LEMMA CostTyped ==
    ASSUME TablesTyped, NEW spec \in Specs
    PROVE  /\ spec.deadline \in Int => Cost!estimate_job_cost(spec) \in Nat \union {None}
           /\ \A name \in Nat, hours \in Nat :
                 Cost!calculate_actual_cost(spec, name, hours) \in Nat \union {None}
PROOF
  <1>0. \A name \in Nat, hours \in Nat :
          Cost!Total(Cost!charge_breakdown_for_duration(spec, name, hours)) \in Nat \union {None}
    <2>. SUFFICES ASSUME NEW name \in Nat, NEW hours \in Nat
                  PROVE Cost!Total(Cost!charge_breakdown_for_duration(spec, name, hours))
                          \in Nat \union {None}
      OBVIOUS
    <2> DEFINE rates == Rates(name, StorageOf(name), SizedVolume(spec))
    <2>1. /\ rates \in Nat
          /\ Cost!Total(Cost!charge_breakdown_for_duration(spec, name, hours))
               = IF Cost!cached_price(name) = None THEN None ELSE rates * hours
      BY HoursOnPlan, NoneAssumption
    <2> HIDE DEF rates
    <2>. QED  BY <2>1, MulNat
  <1>1. ASSUME spec.deadline \in Int PROVE Cost!estimate_job_cost(spec) \in Nat \union {None}
    <2> DEFINE hours == IF spec.deadline < 0 THEN 0 ELSE spec.deadline
               plan == Cost!plan_for_resource_requests(spec)
    <2>1. hours \in Nat
      BY <1>1
    <2>2. Cost!estimate_job_cost(spec)
            = Cost!convert(Cost!Total(Cost!charge_breakdown_for_duration(spec, None, hours)))
      BY DEF Cost!estimate_job_cost, Cost!estimate_job_charges
    <2> HIDE DEF hours
    <2>3. Cost!charge_breakdown_for_duration(spec, None, hours)
            = IF plan = None THEN None
              ELSE Cost!charge_breakdown_for_duration(spec, plan.name, hours)
      BY BreakdownOfChoice
    <2>4. plan # None => plan.name \in Nat
      BY FirstChosen, PlansTyped DEF Fitting
    <2>5. Cost!Total(None) = None
      BY DEF Cost!Total
    <2> HIDE DEF plan
    <2>6. CASE plan = None
      BY <2>2, <2>3, <2>5, <2>6, Converted
    <2>7. CASE plan # None
      BY <1>0, <2>1, <2>2, <2>3, <2>4, <2>7, Converted
    <2>. QED  BY <2>6, <2>7
  <1>2. \A name \in Nat, hours \in Nat :
           Cost!calculate_actual_cost(spec, name, hours) \in Nat \union {None}
    BY <1>0, Converted DEF Cost!calculate_actual_cost, Cost!actual_job_charges
  <1>. QED  BY <1>1, <1>2

\* The estimate is what the chosen plan costs until the deadline, and less time costs
\* no more.
LEMMA EstimateCovers ==
    ASSUME TablesTyped, NEW spec \in Specs, spec.deadline \in Nat,
           NEW hours \in 0 .. spec.deadline, Cost!plan_for_resource_requests(spec) # None,
           NEW cost,
           cost = Cost!calculate_actual_cost(
                      spec, Cost!plan_for_resource_requests(spec).name, hours),
           cost # None
    PROVE  /\ Cost!estimate_job_cost(spec) # None
           /\ cost <= Cost!estimate_job_cost(spec)
           /\ Cost!plan_for_resource_requests(spec).name \in DOMAIN prices
PROOF
  <1> DEFINE plan == Cost!plan_for_resource_requests(spec)
             rates == Rates(plan.name, StorageOf(plan.name), SizedVolume(spec))
  <1>1. plan.name \in Nat /\ plan.name # None
    BY FirstChosen, PlansTyped, NoneAssumption DEF Fitting
  <1>2. Cost!estimate_job_cost(spec)
          = Cost!convert(
                Cost!Total(Cost!charge_breakdown_for_duration(spec, None, spec.deadline)))
    BY DEF Cost!estimate_job_cost, Cost!estimate_job_charges
  <1>3. cost = Cost!convert(Cost!Total(Cost!charge_breakdown_for_duration(spec, plan.name, hours)))
    BY DEF Cost!calculate_actual_cost, Cost!actual_job_charges
  <1>4. Cost!charge_breakdown_for_duration(spec, None, spec.deadline)
          = Cost!charge_breakdown_for_duration(spec, plan.name, spec.deadline)
    BY BreakdownOfChoice
  <1> HIDE DEF plan
  <1>5. /\ rates \in Nat
        /\ Cost!Total(Cost!charge_breakdown_for_duration(spec, plan.name, hours))
             = IF Cost!cached_price(plan.name) = None THEN None ELSE rates * hours
    BY <1>1, HoursOnPlan
  <1>6. Cost!Total(Cost!charge_breakdown_for_duration(spec, plan.name, spec.deadline))
          = IF Cost!cached_price(plan.name) = None THEN None ELSE rates * spec.deadline
    BY <1>1, HoursOnPlan
  <1> HIDE DEF rates
  <1>7. Cost!cached_price(plan.name) # None /\ rate # None
    BY <1>3, <1>5, Converted
  <1>8. /\ rates * hours <= rates * spec.deadline
        /\ rates * hours \in Nat /\ rates * spec.deadline \in Nat
    BY <1>5, MulMono, MulNat
  <1>9. plan.name \in DOMAIN prices
    BY <1>7 DEF Cost!cached_price
  <1>10. /\ cost = Cost!convert(rates * hours)
         /\ Cost!estimate_job_cost(spec) = Cost!convert(rates * spec.deadline)
    BY <1>2, <1>3, <1>4, <1>5, <1>6, <1>7
  <1>11. /\ Cost!estimate_job_cost(spec) \in Nat
         /\ cost <= Cost!estimate_job_cost(spec)
    BY <1>7, <1>8, <1>10, Converted
  <1>. QED  BY <1>9, <1>11, NoneAssumption DEF plan

\* Whatever was charged, the price of its plan is cached.
LEMMA ChargedIsPriced ==
    ASSUME NEW spec, NEW name, name # None, NEW hours,
           Cost!calculate_actual_cost(spec, name, hours) # None
    PROVE  name \in DOMAIN prices
PROOF
  <1>1. Cost!charge_breakdown_for_duration(spec, name, hours) # None
    BY DEF Cost!calculate_actual_cost, Cost!actual_job_charges, Cost!Total, Cost!convert
  <1>. QED  BY <1>1, BreakdownOfName DEF Cost!cached_price

LEMMA StepCosting == ASSUME CostingInv, [Cost!Next]_costing PROVE CostingInv'
PROOF
  <1>1. CASE UNCHANGED costing
    <2>1. TablesTyped'
      BY <1>1, SameTables DEF costing, CostingInv
    <2>2. EstimateHolds'
      BY <1>1, SameTables DEF costing, CostingInv, EstimateHolds
    <2>. QED
      BY <1>1, <2>1, <2>2 DEF costing, CostingInv, JobTyped, Cost!EstimateBounds, StaysPriced
  <1>2. ASSUME NEW catalog \in Catalogs, Cost!sync_plans(catalog) PROVE CostingInv'
    <2>1. TablesTyped'
      BY <1>2 DEF Cost!sync_plans, Cost!store_plans, CostingInv, TablesTyped
    <2>. QED  BY <1>2, <2>1, StepSync DEF Cost!sync_plans
  <1>3. ASSUME NEW list \in PriceLists, Cost!sync_pricing(list) PROVE CostingInv'
    <2>1. TablesTyped' /\ DOMAIN prices \subseteq DOMAIN prices'
      BY <1>3, PriceAssumption DEF Cost!sync_pricing, CostingInv, TablesTyped
    <2>. QED  BY <1>3, <2>1, StepSync DEF Cost!sync_pricing
  <1>7. ASSUME NEW r \in ExchangeRates \union {None}, Cost!sync_exchange_rates(r)
        PROVE CostingInv'
    <2>1. TablesTyped' /\ DOMAIN prices \subseteq DOMAIN prices'
      BY <1>7, RateAssumption DEF Cost!sync_exchange_rates, CostingInv, TablesTyped
    <2>. QED  BY <1>7, <2>1, StepSync DEF Cost!sync_exchange_rates
  <1>4. ASSUME NEW spec \in Specs, Cost!create_job(spec) PROVE CostingInv'
    <2>1. plans' = plans /\ prices' = prices /\ rate' = rate
      BY <1>4 DEF Cost!create_job
    <2>2. \/ job' = [Cost!NoJob EXCEPT !.status = "refused", !.spec = spec]
          \/ job' = [Cost!NoJob EXCEPT !.status = "panicked", !.spec = spec]
          \/ /\ job' = [Cost!NoJob EXCEPT !.status = "VMPending", !.spec = spec,
                                          !.estimate = Cost!estimate_job_cost(spec)]
             /\ spec.deadline # None
      BY <1>4 DEF Cost!create_job, Cost!active_deadline_seconds
    <2>3. spec.deadline # None =>
            spec.deadline \in Int /\ Cost!estimate_job_cost(spec) \in Nat \union {None}
      BY SpecAssumption, CostTyped DEF CostingInv
    <2>4. /\ job'.spec = spec /\ job'.cost = None /\ job'.plan = None
          /\ job'.status \in {"refused", "panicked", "VMPending"}
          /\ job'.status = "VMPending" =>
                job'.estimate = Cost!estimate_job_cost(spec) /\ spec.deadline # None
      BY <2>2 DEF Cost!NoJob
    <2>5. JobTyped'
      <3> DEFINE status == job'.status
                 estimate == job'.estimate
      <3>1. job' = [status |-> status, spec |-> spec, estimate |-> estimate, plan |-> None,
                    cost |-> None, hours |-> 0, since |-> FALSE]
        BY <2>2 DEF Cost!NoJob
      <3>2. estimate \in Nat \union {None}
        BY <2>2, <2>3 DEF Cost!NoJob
      <3>3. status \in {"refused", "panicked", "VMPending"}
            /\ (status = "VMPending" => spec.deadline \in Int)
        BY <2>3, <2>4
      <3> HIDE DEF status, estimate
      <3>. QED  BY <3>1, <3>2, <3>3, BoundsAssumption DEF JobTyped, JobStatuses
    <2>6. TablesTyped'
      BY <2>1, SameTables DEF CostingInv
    <2>7. EstimateHolds'
      BY <2>1, <2>4, SameTables DEF EstimateHolds
    <2>. QED  BY <2>4, <2>5, <2>6, <2>7 DEF CostingInv, Cost!EstimateBounds, StaysPriced
  <1>5. ASSUME NEW crashes \in BOOLEAN, Cost!handle_vm_pending(crashes) PROVE CostingInv'
    <2> DEFINE plan == Cost!plan_for_resource_requests(job.spec)
    <2>1. /\ plans' = plans /\ prices' = prices /\ rate' = rate /\ job.status = "VMPending" /\ plan # None
          /\ job' = job \/ job' = [job EXCEPT !.status = "VMCreating", !.plan = plan.name]
      BY <1>5 DEF Cost!handle_vm_pending
    <2>2. TablesTyped'
      BY <2>1, SameTables DEF CostingInv
    <2>3. job.spec \in Specs /\ job.cost = None
      BY <2>1 DEF CostingInv, JobTyped
    <2>4. plan.name \in Nat /\ plan.name # None
      BY <2>1, FirstChosen, PlansTyped, NoneAssumption DEF Fitting, CostingInv
    <2>5. \A s \in Specs : s = job.spec => plan = Cost!plan_for_resource_requests(s)
      OBVIOUS
    <2> HIDE DEF plan
    <2>6. CASE job' = job
      <3>1. JobTyped' /\ EstimateHolds'
        BY <2>1, <2>6, SameTables DEF CostingInv, JobTyped, EstimateHolds
      <3>. QED  BY <2>1, <2>2, <2>6, <3>1 DEF CostingInv, Cost!EstimateBounds, StaysPriced
    <2>7. CASE job' = [job EXCEPT !.status = "VMCreating", !.plan = plan.name]
      <3>1. JobTyped'
        BY <2>1, <2>4, <2>7 DEF CostingInv, JobTyped, JobStatuses
      <3>2. /\ job'.status = "VMCreating" /\ job'.plan = plan.name /\ job'.cost = None
            /\ job'.spec = job.spec /\ job'.since = job.since /\ job'.estimate = job.estimate
        BY <2>3, <2>7 DEF CostingInv, JobTyped
      <3>3. EstimateHolds'
        BY <2>1, <2>5, <3>2, SameTables DEF CostingInv, EstimateHolds
      <3>. QED  BY <2>2, <3>1, <3>2, <3>3 DEF CostingInv, Cost!EstimateBounds, StaysPriced
    <2>. QED  BY <2>1, <2>6, <2>7
  <1>6. ASSUME NEW hours \in 0 .. MaxHours, Cost!handle_container_running(hours) PROVE CostingInv'
    <2> DEFINE cost == Cost!calculate_actual_cost(job.spec, job.plan, hours)
    <2>1. /\ plans' = plans /\ prices' = prices /\ rate' = rate /\ job.status = "VMCreating"
          /\ job' = [job EXCEPT !.status = "Succeeded", !.hours = hours, !.cost = cost]
      BY <1>6 DEF Cost!handle_container_running
    <2>2. TablesTyped'
      BY <2>1, SameTables DEF CostingInv
    <2>3. /\ job.spec \in Specs /\ job.plan \in Nat /\ job.plan # None
          /\ job.spec.deadline \in Int
      BY <2>1 DEF CostingInv, JobTyped
    <2>4. cost \in Nat \union {None}
      BY <2>3, CostTyped DEF CostingInv
    <2>5. cost # None => job.plan \in DOMAIN prices
      BY <2>3, ChargedIsPriced
    <2>6. ASSUME ~job.since, cost # None, hours <= job.spec.deadline
          PROVE job.estimate # None /\ cost <= job.estimate
      <3>1. \E spec \in Specs : spec = job.spec
        BY <2>3
      <3>2. PICK spec \in Specs : spec = job.spec
        BY <3>1
      <3>3. /\ job.estimate = Cost!estimate_job_cost(spec)
            /\ Cost!plan_for_resource_requests(spec) # None
            /\ job.plan = Cost!plan_for_resource_requests(spec).name
        BY <2>1, <2>6, <3>2 DEF CostingInv, EstimateHolds
      <3>4. spec.deadline \in Nat /\ hours \in 0 .. spec.deadline
        BY <2>3, <2>6, <3>2, BoundsAssumption
      <3>5. cost = Cost!calculate_actual_cost(
                       spec, Cost!plan_for_resource_requests(spec).name, hours)
        BY <3>2, <3>3
      <3> HIDE DEF cost
      <3>. QED  BY <2>6, <3>3, <3>4, <3>5, EstimateCovers DEF CostingInv
    <2> HIDE DEF cost
    <2>7. JobTyped'
      BY <2>1, <2>3, <2>4 DEF CostingInv, JobTyped, JobStatuses
    <2>8. /\ job'.status = "Succeeded" /\ job'.cost = cost /\ job'.since = job.since
          /\ job'.estimate = job.estimate /\ job'.plan = job.plan
          /\ job'.hours = hours /\ job'.spec = job.spec
      BY <2>1 DEF CostingInv, JobTyped
    <2>9. EstimateHolds'
      BY <2>8 DEF EstimateHolds
    <2>. QED
      BY <2>1, <2>2, <2>5, <2>6, <2>7, <2>8, <2>9
         DEF CostingInv, Cost!EstimateBounds, StaysPriced
  <1>. QED  BY <1>1, <1>2, <1>3, <1>4, <1>5, <1>6, <1>7 DEF Cost!Next

LEMMA CostingHolds == Spec => []CostingInv
  BY InitCosting, StepCosting, CostingRuns, PTL

\* Plans, prices and the VM's plan come from what the provider answered.
Provided ==
    /\ plans \subseteq UNION Catalogs
    /\ DOMAIN prices \subseteq UNION {DOMAIN l : l \in PriceLists}
    /\ rate \in ExchangeRates \union {None}
    /\ vm = None \/ \E c \in Catalogs : \E p \in c : p.name = vm
    /\ syncs \in 0 .. MaxSyncs

LEMMA StepProvided == ASSUME CostingInv, Provided, [Cost!Next]_costing PROVE Provided'
PROOF
  <1> USE BoundsAssumption DEF Provided
  <1>1. CASE UNCHANGED costing
    BY <1>1 DEF costing
  <1>2. ASSUME NEW catalog \in Catalogs, Cost!sync_plans(catalog) PROVE Provided'
    BY <1>2 DEF Cost!sync_plans, Cost!store_plans, Cost!Synced
  <1>3. ASSUME NEW list \in PriceLists, Cost!sync_pricing(list) PROVE Provided'
    <2>1. DOMAIN prices' = DOMAIN list \union DOMAIN prices
      BY <1>3 DEF Cost!sync_pricing
    <2>. QED  BY <1>3, <2>1 DEF Cost!sync_pricing, Cost!Synced
  <1>7. ASSUME NEW r \in ExchangeRates \union {None}, Cost!sync_exchange_rates(r)
        PROVE Provided'
    BY <1>7 DEF Cost!sync_exchange_rates, Cost!Synced
  <1>4. ASSUME NEW spec \in Specs, Cost!create_job(spec) PROVE Provided'
    BY <1>4 DEF Cost!create_job
  <1>5. ASSUME NEW crashes \in BOOLEAN, Cost!handle_vm_pending(crashes) PROVE Provided'
    <2> DEFINE plan == Cost!plan_for_resource_requests(job.spec)
    <2>1. /\ plans' = plans /\ prices' = prices /\ rate' = rate /\ syncs' = syncs /\ plan # None
          /\ vm' = vm \/ vm' = plan.name
      BY <1>5 DEF Cost!handle_vm_pending
    <2>2. plan \in plans
      BY <2>1, FirstChosen DEF Fitting, CostingInv
    <2> HIDE DEF plan
    <2>. QED  BY <2>1, <2>2
  <1>6. ASSUME NEW hours \in 0 .. MaxHours, Cost!handle_container_running(hours) PROVE Provided'
    BY <1>6 DEF Cost!handle_container_running
  <1>. QED  BY <1>1, <1>2, <1>3, <1>4, <1>5, <1>6, <1>7 DEF Cost!Next

\* Plans, prices and the job stay well typed.
LEMMA CostingTyped == Spec => []Cost!TypeOK
PROOF
  <1>1. Cost!Init => Provided
    BY BoundsAssumption DEF Cost!Init, Provided
  <1>2. CostingInv /\ Provided => Cost!TypeOK
    BY DEF CostingInv, JobTyped, JobStatuses, Provided, Cost!TypeOK
  <1>3. CostingInv /\ Provided /\ [Cost!Next]_costing => Provided'
    BY StepProvided
  <1>. QED  BY <1>1, <1>2, <1>3, CostingHolds, CostingRuns, PTL

\* Whatever plans and prices the syncs have cached, and whichever are missing, the plan
\* that cheapest_fitting_server_plan's ORDER BY puts first is large enough and the
\* cheapest as charge_breakdown_for_duration charges it.
THEOREM CheapestIsChosen == Spec => []CheapestCharged
PROOF
  <1>1. CostingInv => CheapestCharged
    BY CheapestIsCharged DEF CostingInv, CheapestCharged
  <1>. QED  BY <1>1, CostingHolds, PTL

\* However VMs are created, taken over after a crash and charged, a run that ends by its
\* deadline costs no more than estimate_job_cost said at admission, unless a sync came
\* between.
THEOREM EstimateIsBound == Spec => []EstimateBounds
PROOF
  <1>1. CostingInv => EstimateBounds
    BY DEF CostingInv, EstimateBounds
  <1>. QED  BY <1>1, CostingHolds, PTL

\* A run with a cost is in every later get_cost_report made while its currency has a
\* rate: sync_pricing keeps the price of its plan, though sync_exchange_rates may drop
\* the rate.
THEOREM ReportKeeps == Spec => []StaysInReport
PROOF
  <1>1. ASSUME CostingInv PROVE StaysInReport
    <2>. SUFFICES ASSUME job.status = "Succeeded", job.cost # None, rate # None
                  PROVE "server" \in DOMAIN Cost!get_cost_report
      BY DEF StaysInReport, Cost!StaysInReport
    <2> DEFINE charges == Cost!actual_job_charges(job.spec, job.plan, job.hours)
               storage == StorageOf(job.plan)
               volume == SizedVolume(job.spec)
    <2>1. job.plan # None /\ job.plan \in DOMAIN prices /\ prices[job.plan] \in Nat
      BY <1>1 DEF CostingInv, JobTyped, StaysPriced, TablesTyped
    <2>2. Cost!cached_price(job.plan) # None
      BY <2>1, NoneAssumption DEF Cost!cached_price
    <2>3. charges = Charges(job.plan, storage, volume, job.hours)
      BY <2>1, <2>2, BreakdownOfName DEF Cost!actual_job_charges
    <2>4. job.spec \in Specs /\ job.hours \in Nat
      BY <1>1 DEF CostingInv, JobTyped
    <2>5. volume = None \/ volume.size \in Nat
      BY <2>4, VolumeSized
    <2> HIDE DEF storage, volume
    <2>6. charges # None
      BY <1>1, <2>3, <2>4, <2>5, TotalOfCharges DEF CostingInv
    <2>7. "server" \in Cost!Charged(job.plan, storage, volume)
      BY <2>2 DEF Cost!Charged, Cost!PriceKey
    <2>8. DOMAIN charges = Cost!Charged(job.plan, storage, volume)
      BY <2>3 DEF Charges
    <2>9. Cost!convert(charges["server"]) # None
      <3>1. charges["server"] \in Nat
        <4>1. charges["server"] = prices[job.plan] * 1 * job.hours
          BY <2>1, <2>3, <2>7 DEF Charges, Cost!cached_price, Cost!PriceKey, Cost!Units
        <4>2. prices[job.plan] * 1 * job.hours \in Nat
          BY <2>1, <2>4, MulNat
        <4>. QED  BY <4>1, <4>2
      <3>2. \A n \in Nat : n <= n
        OBVIOUS
      <3>3. Cost!convert(charges["server"]) \in Nat
        BY <1>1, <3>1, <3>2, Converted DEF CostingInv
      <3>. QED  BY <3>3, NoneAssumption
    <2> HIDE DEF charges
    <2>. QED  BY <2>6, <2>7, <2>8, <2>9 DEF Cost!get_cost_report, charges
  <1>. QED  BY <1>1, CostingHolds, PTL

-----------------------------------------------------------------------------
(***************************************************************************)
(* Delivery: what an environment that resolves has in it.                  *)
(***************************************************************************)

\* A variable that may not be missing, and the last entry of a name.
Required(e) == e.from \in {"value", "fieldRef"} \/ ~e.optional
LastOf(c, i, n) == \A h \in 1 .. n : h > i => c.env[h].name # c.env[i].name

\* The first n entries of c are in env: those required, and the fields as they are.
HasEntries(c, env, n) ==
    \A i \in 1 .. n :
        /\ Required(c.env[i]) => c.env[i].name \in DOMAIN env
        /\ c.env[i].from = "fieldRef" /\ LastOf(c, i, n) =>
              c.env[i].name \in DOMAIN env /\ env[c.env[i].name] = c.env[i].field

\* f gives the environments after 0 .. n entries.
Follows(f, c, read, n) ==
    f = [i \in 0 .. n |-> IF i = 0 THEN Env!FromSources(c, read)
                          ELSE Env!FromEntry(f[i - 1], c.env[i], read)]

\* A recursion over the entries is well defined.
LEMMA EntriesFollow ==
    ASSUME NEW c, NEW read, NEW n \in Nat
    PROVE  \E f : Follows(f, c, read, n)
PROOF
  <1> DEFINE T == {m \in Nat : ~\E f : Follows(f, c, read, m)}
  <1>1. SUFFICES ASSUME T # {} PROVE FALSE
    OBVIOUS
  <1>2. PICK m \in T : \A k \in T : m <= k
    BY <1>1, LeastExists
  <1>3. m \in Nat /\ ~\E f : Follows(f, c, read, m)
    BY <1>2
  <1>4. CASE m = 0
    <2> DEFINE f == [i \in 0 .. 0 |-> Env!FromSources(c, read)]
    <2>1. f = [i \in 0 .. 0 |-> IF i = 0 THEN Env!FromSources(c, read)
                                ELSE Env!FromEntry(f[i - 1], c.env[i], read)]
      OBVIOUS
    <2> HIDE DEF f
    <2>. QED  BY <1>3, <1>4, <2>1 DEF Follows
  <1>5. CASE m # 0
    <2>1. m - 1 \in Nat /\ m - 1 \notin T
      BY <1>2, <1>3, <1>5
    <2>2. PICK f : Follows(f, c, read, m - 1)
      BY <2>1
    <2> DEFINE g == [i \in 0 .. m |-> IF i = m THEN Env!FromEntry(f[m - 1], c.env[m], read)
                                      ELSE f[i]]
    <2>3. ASSUME NEW i \in 0 .. m
          PROVE g[i] = IF i = 0 THEN Env!FromSources(c, read)
                       ELSE Env!FromEntry(g[i - 1], c.env[i], read)
      <3>1. CASE i = m
        <4>1. g[i] = Env!FromEntry(f[m - 1], c.env[m], read) /\ g[m - 1] = f[m - 1]
          BY <1>3, <1>5, <3>1
        <4>. QED  BY <1>5, <3>1, <4>1
      <3>2. CASE i # m
        <4>1. i \in 0 .. (m - 1) /\ g[i] = f[i]
          BY <1>3, <3>2
        <4>2. i # 0 => i - 1 \in 0 .. (m - 1) /\ g[i - 1] = f[i - 1]
          BY <1>3, <3>2
        <4>3. f[i] = IF i = 0 THEN Env!FromSources(c, read)
                     ELSE Env!FromEntry(f[i - 1], c.env[i], read)
          BY <2>2, <4>1 DEF Follows
        <4>. QED  BY <4>1, <4>2, <4>3
      <3>. QED  BY <3>1, <3>2
    <2>4. DOMAIN g = 0 .. m /\ g = [i \in 0 .. m |-> g[i]]
      OBVIOUS
    <2> HIDE DEF g
    <2>5. Follows(g, c, read, m)
      BY <2>3, <2>4 DEF Follows
    <2>. QED  BY <1>3, <2>5
  <1>. QED  BY <1>4, <1>5

LEMMA EntriesAre ==
    ASSUME NEW c, NEW read, Len(c.env) \in Nat
    PROVE  Follows(Env!AfterEntries(c, read), c, read, Len(c.env))
PROOF
  <1> DEFINE P(f) == f = [i \in 0 .. Len(c.env) |-> IF i = 0 THEN Env!FromSources(c, read)
                                     ELSE Env!FromEntry(f[i - 1], c.env[i], read)]
  <1>1. \E f : P(f)
    BY EntriesFollow DEF Follows
  <1>2. Env!AfterEntries(c, read) = CHOOSE f : P(f)
    BY Zenon DEF Env!AfterEntries
  <1> HIDE DEF P
  <1>3. P(Env!AfterEntries(c, read))
    BY <1>1, <1>2, Zenon
  <1>. QED  BY <1>3 DEF P, Follows

\* One entry more.
LEMMA OneEntryMore ==
    ASSUME NEW c, NEW read, NEW n \in Nat, NEW acc, Env!validate_env_entry(c.env[n + 1]),
           acc.ok => HasEntries(c, acc.env, n)
    PROVE  LET next == Env!FromEntry(acc, c.env[n + 1], read)
           IN  next.ok => HasEntries(c, next.env, n + 1)
PROOF
  <1> DEFINE e == c.env[n + 1]
             next == Env!FromEntry(acc, e, read)
  <1>1. e.from \in {"value", "secretKeyRef", "fieldRef"}
    BY DEF Env!validate_env_entry, Env!SupportedSources
  <1> SUFFICES ASSUME next.ok PROVE HasEntries(c, next.env, n + 1)
    OBVIOUS
  <1>2. acc.ok
    BY DEF Env!FromEntry
  <1>3. HasEntries(c, acc.env, n)
    BY <1>2
  <1>4. \/ /\ e.from = "secretKeyRef" /\ e.optional
           /\ next = acc
        \/ \E value : /\ next.env = Env!set_var(acc.env, e.name, value)
                      /\ e.from = "fieldRef" => value = e.field
    <2>1. CASE e.from = "value"
      BY <1>2, <2>1 DEF Env!FromEntry, Env!Ok
    <2>2. CASE e.from = "fieldRef"
      BY <1>2, <2>2 DEF Env!FromEntry, Env!Ok
    <2>3. CASE e.from = "secretKeyRef"
      BY <1>2, <2>3 DEF Env!FromEntry, Env!Ok, Env!Err
    <2>. QED  BY <1>1, <2>1, <2>2, <2>3
  <1> HIDE DEF next
  <1>5. \A i \in 1 .. (n + 1) : i = n + 1 \/ i \in 1 .. n
    OBVIOUS
  <1>6. \A i \in 1 .. n : LastOf(c, i, n + 1) => LastOf(c, i, n) /\ e.name # c.env[i].name
    BY DEF LastOf
  <1>7. CASE e.from = "secretKeyRef" /\ e.optional /\ next = acc
    BY <1>3, <1>5, <1>6, <1>7 DEF HasEntries, Required
  <1>8. ASSUME NEW value, next.env = Env!set_var(acc.env, e.name, value),
               e.from = "fieldRef" => value = e.field
        PROVE HasEntries(c, next.env, n + 1)
    <2>1. /\ DOMAIN next.env = DOMAIN acc.env \union {e.name}
          /\ next.env[e.name] = value
          /\ \A m \in DOMAIN acc.env : m # e.name => next.env[m] = acc.env[m]
      BY <1>8 DEF Env!set_var
    <2>. QED  BY <1>3, <1>5, <1>6, <1>8, <2>1 DEF HasEntries, Required
  <1>. QED  BY <1>4, <1>7, <1>8

\* No entry is dropped and none is overridden by an earlier one.
LEMMA ResolvedHasEntries ==
    ASSUME NEW c \in Containers, NEW read, Env!resolve_with_secrets(c, read).ok
    PROVE  HasEntries(c, Env!resolve_with_secrets(c, read).env, Len(c.env))
PROOF
  <1> DEFINE n == Len(c.env)
             after == Env!AfterEntries(c, read)
             T == {i \in 0 .. n : after[i].ok /\ ~HasEntries(c, after[i].env, i)}
  <1>1. n \in Nat /\ DOMAIN c.env = 1 .. n
    BY ContainerAssumption
  <1>2. /\ Env!validate(c) /\ after[n].ok
        /\ Env!resolve_with_secrets(c, read) = after[n]
    BY DEF Env!resolve_with_secrets, Env!Err
  <1>3. \A i \in 1 .. n : Env!validate_env_entry(c.env[i])
    BY <1>1, <1>2 DEF Env!validate
  <1>4. Follows(after, c, read, n)
    BY <1>1, EntriesAre
  <1> HIDE DEF after, n
  <1>5. T = {}
    <2>1. SUFFICES ASSUME T # {} PROVE FALSE
      OBVIOUS
    <2>2. PICK i \in T : \A k \in T : i <= k
      <3>1. T \subseteq Nat
        BY <1>1
      <3> HIDE DEF T
      <3>. QED  BY <2>1, <3>1, LeastExists
    <2>3. i \in 0 .. n /\ after[i].ok /\ ~HasEntries(c, after[i].env, i)
      BY <2>2
    <2>4. i # 0
      BY <2>3 DEF HasEntries
    <2>5. /\ i - 1 \in 0 .. n /\ i - 1 \in Nat /\ (i - 1) + 1 = i /\ i \in 1 .. n
          /\ i - 1 \notin T
      BY <1>1, <2>2, <2>3, <2>4
    <2>6. after[i] = Env!FromEntry(after[i - 1], c.env[i], read)
      BY <1>4, <2>3, <2>4 DEF Follows
    <2>7. after[i - 1].ok => HasEntries(c, after[i - 1].env, i - 1)
      BY <2>5
    <2>8. after[i].ok => HasEntries(c, after[i].env, i)
      <3> DEFINE k == i - 1
                 acc == after[k]
      <3>1. k \in Nat /\ k + 1 = i /\ Env!validate_env_entry(c.env[k + 1])
        BY <1>3, <2>5
      <3>2. acc.ok => HasEntries(c, acc.env, k)
        BY <2>7
      <3> HIDE DEF k, acc
      <3>3. Env!FromEntry(acc, c.env[k + 1], read).ok =>
              HasEntries(c, Env!FromEntry(acc, c.env[k + 1], read).env, k + 1)
        BY <3>1, <3>2, OneEntryMore
      <3>4. after[i] = Env!FromEntry(acc, c.env[k + 1], read)
        BY <2>6, <3>1 DEF k, acc
      <3>. QED  BY <3>1, <3>3, <3>4
    <2>. QED  BY <2>3, <2>8
  <1>6. HasEntries(c, after[n].env, n)
    BY <1>1, <1>2, <1>5
  <1>. QED  BY <1>2, <1>6 DEF n

-----------------------------------------------------------------------------
(***************************************************************************)
(* Delivery: the state.                                                    *)
(***************************************************************************)

Shape ==
    /\ DOMAIN delivery = {"status", "at", "todo", "read", "config", "next", "attached"}
    /\ DOMAIN worker = {"pc", "scratch", "got"}
    /\ DOMAIN worker.got \subseteq {"env", "secretEnv", "command", "args"}
    /\ delivery.at = "uploading" => delivery.status = "ContainerConfiguring"
    /\ delivery.at = "reading" => delivery.status \in {"VMPending", "ContainerConfiguring"}
    /\ delivery.at # "uploading" => delivery.next = 1

Before == {"Submitted", "Refused", "VMPending"}

\* A worker runs only for a job that was admitted, and goes on to run its container
\* only after the look at the image's USER.
UserChecked ==
    /\ delivery.status \notin {"Submitted", "Refused"} => Env!validate_options(container)
    /\ worker.pc # "off" => delivery.status \notin Before
    /\ worker.pc \in {"run", "running"}
         /\ Env!parse(container).nonRoot /\ Env!parse(container).user = None =>
            container.imageUser = "uid"

Waiting == {"off", "volume", "config"}
Over == {"running", "refused"}

\* What the worker has read by where it is.
GotBy(pc1) ==
    CASE pc1 \in Waiting -> {}
      [] pc1 = "args" -> {"command"}
      [] pc1 = "secretEnv" -> {"command", "args"}
      [] pc1 \in {"user", "run"} -> {"command", "args", "secretEnv"}
      [] pc1 = "running" -> {"env", "secretEnv", "command", "args"}
      [] OTHER -> DOMAIN worker.got

\* "ready" is the last file: the worker goes on when it is there, and then all are
\* there, until the worker removes the two with values at the end.
ReadyIsLast ==
    /\ worker.pc \notin Waiting => "ready" \in DOMAIN files
    /\ "ready" \in DOMAIN files =>
          /\ {"command", "args"} \subseteq DOMAIN files
          /\ worker.pc \notin Over => {"env", "secretEnv"} \subseteq DOMAIN files
    /\ DOMAIN worker.got = GotBy(worker.pc)

\* The files before the next one are of this delivery, while there is no "ready".
UploadedSoFar ==
    delivery.at = "uploading" /\ "ready" \notin DOMAIN files =>
        \A i \in 1 .. (delivery.next - 1) :
            Env!Uploads[i] \in DOMAIN files /\ files[Env!Uploads[i]].by = attempts

\* A "ready" that is not followed by another delivery is of the same one as all files,
\* on the worker or read by it.
SameDelivery ==
    "ready" \in DOMAIN files /\ ~rewritten =>
        /\ \A f \in DOMAIN files : files[f].by = files["ready"].by
        /\ \A f \in DOMAIN worker.got : worker.got[f].by = files["ready"].by

\* The copies there are of a file: on the worker, read by it, about to be uploaded.
Copies(file) ==
    {files[f] : f \in DOMAIN files \cap {file}}
    \union {worker.got[f] : f \in DOMAIN worker.got \cap {file}}
    \union {[by |-> attempts, is |-> delivery.config[f]] :
               f \in {f \in {file} : delivery.at = "uploading"}}

\* Copies of one delivery have all that is required between them, and each has the
\* fields that belong into it.
Covers(x, y) ==
    \A i \in DOMAIN container.env :
        Required(container.env[i]) => container.env[i].name \in DOMAIN x \union DOMAIN y

HasFields(x, multiline) ==
    \A i \in DOMAIN container.env :
        LET e == container.env[i]
        IN  e.from = "fieldRef" /\ LastOf(container, i, Len(container.env))
              /\ (Env!Multiline(e.field) <=> multiline) =>
                 e.name \in DOMAIN x /\ x[e.name] = e.field

CopiesComplete ==
    /\ \A x \in Copies("env"), y \in Copies("secretEnv") : x.by = y.by => Covers(x.is, y.is)
    /\ \A x \in Copies("env") : HasFields(x.is, FALSE)
    /\ \A y \in Copies("secretEnv") : HasFields(y.is, TRUE)

\* Copies are of deliveries so far, and of earlier ones while the next one is read.
CopiesOld ==
    /\ \A x \in Copies("env") \union Copies("secretEnv") : x.by \in Nat /\ x.by <= attempts
    /\ delivery.at = "reading" =>
          \A x \in Copies("env") \union Copies("secretEnv") : x.by < attempts

DeliveryInv ==
    /\ Env!TypeOK /\ Shape /\ UserChecked /\ ReadyIsLast /\ UploadedSoFar /\ SameDelivery
    /\ CopiesComplete /\ CopiesOld

LEMMA EnvironmentRuns == Spec => Env!Init /\ [][Env!Next]_environment
PROOF
  <1>1. Init => Env!Init
    BY DEF Init
  <1>2. [Next]_vars => [Env!Next]_environment
    BY DEF Next, vars
  <1>. QED  BY <1>1, <1>2, PTL DEF Spec

LEMMA UploadNames ==
    /\ Env!Uploads[1] = "env" /\ Env!Uploads[2] = "secretEnv" /\ Env!Uploads[3] = "command"
    /\ Env!Uploads[4] = "args" /\ Env!Uploads[5] = "ready"
    /\ Env!Range(Env!Uploads) = {"env", "secretEnv", "command", "args", "ready"}
PROOF
  <1>1. /\ Env!Uploads[1] = "env" /\ Env!Uploads[2] = "secretEnv" /\ Env!Uploads[3] = "command"
        /\ Env!Uploads[4] = "args" /\ Env!Uploads[5] = "ready" /\ DOMAIN Env!Uploads = 1 .. 5
    BY DEF Env!Uploads
  <1>2. 1 .. 5 = {1, 2, 3, 4, 5}
    OBVIOUS
  <1>. QED  BY <1>1, <1>2 DEF Env!Range

LEMMA InitDelivery == Env!Init => DeliveryInv
PROOF
  <1> SUFFICES ASSUME Env!Init PROVE DeliveryInv
    OBVIOUS
  <1>1. /\ DOMAIN files = {} /\ DOMAIN worker.got = {} /\ worker.pc = "off"
        /\ delivery.at = "idle" /\ delivery.status = "Submitted" /\ attempts = 0
    BY DEF Env!Init, Env!Nothing
  <1>2. Env!TypeOK
    <2>1. 0 \in 0 .. MaxChanges /\ 0 \in 0 .. MaxAttempts
      BY BoundsAssumption
    <2>2. /\ container \in Containers /\ delivery.next = 1 /\ worker.scratch = "none"
          /\ edits = 0 /\ rewritten = FALSE
      BY DEF Env!Init
    <2>3. DOMAIN files \subseteq Env!Range(Env!Uploads)
      BY <1>1
    <2>4. rewritten \in BOOLEAN
      BY <2>2
    <2>5. /\ delivery.status \in Env!Statuses /\ worker.pc \in Env!WorkerSteps
          /\ delivery.next \in 1 .. 5 /\ attempts \in 0 .. MaxAttempts
          /\ edits \in 0 .. MaxChanges
      BY <1>1, <2>1, <2>2 DEF Env!Statuses, Env!WorkerSteps
    <2>. QED  BY <1>1, <2>2, <2>3, <2>4, <2>5 DEF Env!TypeOK
  <1>3. Shape
    BY <1>1 DEF Env!Init, Shape
  <1>4. UserChecked /\ ReadyIsLast /\ UploadedSoFar /\ SameDelivery
    BY <1>1 DEF Before, UserChecked, ReadyIsLast, UploadedSoFar, SameDelivery, Waiting, GotBy
  <1>5. Copies("env") = {} /\ Copies("secretEnv") = {}
    BY <1>1 DEF Copies
  <1>6. CopiesComplete /\ CopiesOld
    BY <1>1, <1>5 DEF CopiesComplete, CopiesOld
  <1>. QED  BY <1>2, <1>3, <1>4, <1>6 DEF DeliveryInv

LEMMA AttemptsTyped == ASSUME DeliveryInv PROVE attempts \in Nat
PROOF
  <1>1. MaxAttempts \in Nat
    BY BoundsAssumption
  <1>2. attempts \in 0 .. MaxAttempts
    BY DEF DeliveryInv, Env!TypeOK
  <1>. QED  BY <1>1, <1>2

\* What is read off the container is the same while it is.
LEMMA SameContainer ==
    ASSUME container' = container
    PROVE  /\ \A x, y : Covers(x, y)' <=> Covers(x, y)
           /\ \A x : HasFields(x, FALSE)' <=> HasFields(x, FALSE)
           /\ \A x : HasFields(x, TRUE)' <=> HasFields(x, TRUE)
           /\ Env!validate_options(container)' <=> Env!validate_options(container)
           /\ Env!parse(container)' = Env!parse(container)
  BY DEF Covers, Required, HasFields, LastOf, Env!Multiline, Env!validate_options, Env!parse,
         Env!reject_unknown_fields, Env!scratch_mount, Env!Or

\* Copies that were there before are as complete as before.
LEMMA CopiesKept ==
    ASSUME CopiesComplete, CopiesOld, container' = container,
           attempts \in Nat,
           Copies("env")' \subseteq Copies("env"),
           Copies("secretEnv")' \subseteq Copies("secretEnv"),
           \/ attempts' = attempts /\ (delivery'.at = "reading" => delivery.at = "reading")
           \/ attempts' = attempts + 1
    PROVE  CopiesComplete' /\ CopiesOld'
PROOF
  <1>1. CopiesComplete'
    BY SameContainer DEF CopiesComplete
  <1>2. CopiesOld'
    BY DEF CopiesOld
  <1>. QED  BY <1>1, <1>2

\* While only the Secrets change.
LEMMA StepSecrets ==
    ASSUME DeliveryInv, edits' \in 0 .. MaxChanges,
           UNCHANGED <<container, delivery, files, worker, attempts, rewritten>>
    PROVE  DeliveryInv'
PROOF
  <1>1. Env!TypeOK' /\ Shape'
    BY DEF DeliveryInv, Env!TypeOK, Shape
  <1>2. UserChecked'
    BY SameContainer DEF DeliveryInv, UserChecked
  <1>3. ReadyIsLast' /\ UploadedSoFar' /\ SameDelivery'
    BY DEF DeliveryInv, ReadyIsLast, UploadedSoFar, SameDelivery, GotBy, Waiting, Over, Env!Uploads
  <1>4. Copies("env")' = Copies("env") /\ Copies("secretEnv")' = Copies("secretEnv")
    BY DEF Copies
  <1>5. attempts \in Nat
    BY AttemptsTyped
  <1>6. CopiesComplete' /\ CopiesOld'
    BY <1>4, <1>5, CopiesKept DEF DeliveryInv
  <1>. QED  BY <1>1, <1>2, <1>3, <1>6 DEF DeliveryInv

\* While the job does anything but upload.
LEMMA StepRow ==
    ASSUME DeliveryInv, UNCHANGED <<container, files, edits, rewritten, worker>>,
           DOMAIN delivery' = DOMAIN delivery,
           delivery'.status \in Env!Statuses, delivery'.next = 1,
           delivery'.at \in {"idle", "reading"},
           delivery'.at = "reading" => delivery'.status \in {"VMPending", "ContainerConfiguring"},
           delivery'.status \notin {"Submitted", "Refused"} => Env!validate_options(container),
           delivery.status \notin Before => delivery'.status \notin Before,
           attempts' \in 0 .. MaxAttempts,
           \/ attempts' = attempts /\ (delivery'.at = "reading" => delivery.at = "reading")
           \/ attempts' = attempts + 1
    PROVE  DeliveryInv'
PROOF
  <1>0. delivery'.next \in 1 .. 5
    OBVIOUS
  <1>1. Env!TypeOK' /\ Shape'
    <2>1. Env!TypeOK'
      BY <1>0 DEF DeliveryInv, Env!TypeOK
    <2>2. Shape'
      BY DEF DeliveryInv, Shape
    <2>. QED  BY <2>1, <2>2
  <1>2. UserChecked'
    BY SameContainer DEF DeliveryInv, UserChecked
  <1>3. ReadyIsLast' /\ UploadedSoFar' /\ SameDelivery'
    BY DEF DeliveryInv, ReadyIsLast, UploadedSoFar, SameDelivery, GotBy, Waiting, Over
  <1>4. Copies("env")' \subseteq Copies("env") /\ Copies("secretEnv")' \subseteq Copies("secretEnv")
    BY DEF Copies
  <1>5. attempts \in Nat
    BY AttemptsTyped
  <1>6. CopiesComplete' /\ CopiesOld'
    BY <1>4, <1>5, CopiesKept DEF DeliveryInv
  <1>. QED  BY <1>1, <1>2, <1>3, <1>6 DEF DeliveryInv

\* A config that resolves is complete, whichever file a value belongs into.
LEMMA ConfigComplete ==
    ASSUME container \in Containers, Env!Resolved.ok
    PROVE  /\ Covers(Env!Resolved.env, Env!Resolved.secretEnv)
           /\ HasFields(Env!Resolved.env, FALSE) /\ HasFields(Env!Resolved.secretEnv, TRUE)
PROOF
  <1> DEFINE env == Env!resolve_with_secrets(container, delivery.read)
             all == env.env
             one == Env!Resolved.env
             several == Env!Resolved.secretEnv
             n == Len(container.env)
  <1>1. env.ok /\ Env!Resolved = Env!container_config(container, all)
    BY DEF Env!Resolved, Env!NoConfig
  <1>2. HasEntries(container, all, n)
    BY <1>1, ResolvedHasEntries
  <1>3. DOMAIN container.env = 1 .. n
    BY ContainerAssumption
  <1> HIDE DEF all
  <1>4. /\ one = [m \in {m \in DOMAIN all : ~Env!Multiline(all[m])} |-> all[m]]
        /\ several = [m \in {m \in DOMAIN all : Env!Multiline(all[m])} |-> all[m]]
    BY <1>1 DEF Env!container_config
  <1> HIDE DEF one, several, n
  <1>5. DOMAIN all \subseteq DOMAIN one \union DOMAIN several
    BY <1>4
  <1>6. Covers(one, several)
    BY <1>2, <1>3, <1>5 DEF Covers, HasEntries
  <1>7. ASSUME NEW i \in DOMAIN container.env, container.env[i].from = "fieldRef",
               LastOf(container, i, n)
        PROVE LET e == container.env[i]
              IN  /\ ~Env!Multiline(e.field) => e.name \in DOMAIN one /\ one[e.name] = e.field
                  /\ Env!Multiline(e.field) =>
                        e.name \in DOMAIN several /\ several[e.name] = e.field
    <2>1. /\ container.env[i].name \in DOMAIN all
          /\ all[container.env[i].name] = container.env[i].field
      BY <1>2, <1>3, <1>7 DEF HasEntries
    <2>. QED  BY <1>4, <2>1
  <1>8. HasFields(one, FALSE) /\ HasFields(several, TRUE)
    BY <1>7 DEF HasFields, n
  <1>. QED  BY <1>6, <1>8 DEF one, several

\* The config that will be uploaded is a new delivery's.
LEMMA StepResolved ==
    ASSUME DeliveryInv, Env!config_resolved, Env!Resolved.ok
    PROVE  DeliveryInv'
PROOF
  <1> DEFINE env == [by |-> attempts, is |-> Env!Resolved.env]
             secretEnv == [by |-> attempts, is |-> Env!Resolved.secretEnv]
  <1>1. /\ delivery.status = "ContainerConfiguring" /\ delivery.at = "reading"
        /\ delivery' = [delivery EXCEPT !.at = "uploading", !.config = Env!Resolved]
        /\ UNCHANGED <<container, files, edits, rewritten, worker, attempts>>
    BY DEF Env!config_resolved, Env!OnlyJob
  <1>2. /\ DOMAIN delivery' = DOMAIN delivery /\ delivery'.at = "uploading"
        /\ delivery'.status = delivery.status /\ delivery'.next = delivery.next
        /\ delivery'.config = Env!Resolved /\ delivery.next = 1
    BY <1>1 DEF DeliveryInv, Shape
  <1>3. Env!TypeOK'
    BY <1>1, <1>2 DEF DeliveryInv, Env!TypeOK
  <1>4. Shape'
    BY <1>1, <1>2 DEF DeliveryInv, Shape
  <1>5. UserChecked'
    BY <1>1, <1>2, SameContainer DEF DeliveryInv, UserChecked
  <1>6. ReadyIsLast' /\ SameDelivery'
    BY <1>1, <1>2 DEF DeliveryInv, ReadyIsLast, SameDelivery, GotBy, Waiting, Over
  <1>7. UploadedSoFar'
    BY <1>2 DEF UploadedSoFar
  <1>8. /\ Copies("env")' \subseteq Copies("env") \union {env}
        /\ Copies("secretEnv")' \subseteq Copies("secretEnv") \union {secretEnv}
    BY <1>1, <1>2 DEF Copies
  <1>9. /\ Covers(env.is, secretEnv.is) /\ HasFields(env.is, FALSE)
        /\ HasFields(secretEnv.is, TRUE)
    BY ConfigComplete DEF DeliveryInv, Env!TypeOK
  <1>10. env.by = attempts /\ secretEnv.by = attempts
    OBVIOUS
  <1>11. /\ attempts \in Nat
         /\ \A x \in Copies("env") \union Copies("secretEnv") : x.by \in Nat /\ x.by < attempts
    BY <1>1, AttemptsTyped DEF DeliveryInv, CopiesOld
  <1> HIDE DEF env, secretEnv
  <1>12. CopiesOld'
    BY <1>1, <1>2, <1>8, <1>10, <1>11 DEF CopiesOld
  <1>13. CopiesComplete'
    <2>1. ASSUME NEW x \in Copies("env")', NEW y \in Copies("secretEnv")', x.by = y.by
          PROVE Covers(x.is, y.is)
      <3>1. CASE x = env
        <4>1. y = secretEnv
          BY <1>8, <1>10, <1>11, <2>1, <3>1
        <4>. QED  BY <1>9, <3>1, <4>1
      <3>2. CASE x # env
        <4>1. x \in Copies("env") /\ y \in Copies("secretEnv")
          BY <1>8, <1>10, <1>11, <2>1, <3>2
        <4>. QED  BY <2>1, <4>1 DEF DeliveryInv, CopiesComplete
      <3>. QED  BY <3>1, <3>2
    <2>2. \A x \in Copies("env")' : HasFields(x.is, FALSE)
      BY <1>8, <1>9 DEF DeliveryInv, CopiesComplete
    <2>3. \A y \in Copies("secretEnv")' : HasFields(y.is, TRUE)
      BY <1>8, <1>9 DEF DeliveryInv, CopiesComplete
    <2>. QED  BY <1>1, <2>1, <2>2, <2>3, SameContainer DEF CopiesComplete
  <1>. QED  BY <1>3, <1>4, <1>5, <1>6, <1>7, <1>12, <1>13 DEF DeliveryInv

\* An upload, whether it got through or not.
LEMMA StepUpload ==
    ASSUME DeliveryInv, NEW o \in {"ok", "lost", "failed"}, Env!upload(o)
    PROVE  DeliveryInv'
PROOF
  <1> DEFINE file == Env!Uploads[delivery.next]
             contents == Env!Contents(file)
  <1>1. /\ delivery.at = "uploading"
        /\ files' = IF o = "failed" THEN files ELSE Env!set_var(files, file, contents)
        /\ rewritten' = (rewritten \/ (o # "failed" /\ "ready" \in DOMAIN files))
        /\ delivery' = IF o # "ok" THEN Env!GiveUp
                       ELSE IF file = "ready"
                       THEN [Env!GiveUp EXCEPT !.status = "ContainerRunning"]
                       ELSE [delivery EXCEPT !.next = delivery.next + 1]
        /\ UNCHANGED <<worker, attempts, container, edits>>
    BY DEF Env!upload, Env!OnlyJob
  <1>2. /\ delivery.next \in 1 .. 5 /\ delivery.status = "ContainerConfiguring"
        /\ rewritten \in BOOLEAN
    BY <1>1 DEF DeliveryInv, Env!TypeOK, Shape
  <1>3. /\ file \in {"env", "secretEnv", "command", "args", "ready"}
        /\ file = "ready" <=> delivery.next = 5
        /\ \A i \in 1 .. 5 : Env!Uploads[i] = file <=> i = delivery.next
    BY <1>2, UploadNames
  <1>4. /\ contents.by = attempts
        /\ file # "ready" => contents = [by |-> attempts, is |-> delivery.config[file]]
    BY DEF Env!Contents
  <1> HIDE DEF file, contents
  <1>5. /\ DOMAIN delivery' = DOMAIN delivery
        /\ \/ /\ delivery'.at = "idle" /\ delivery'.next = 1
              /\ delivery'.status \in {"ContainerConfiguring", "ContainerRunning"}
           \/ /\ o = "ok" /\ file # "ready" /\ delivery'.at = "uploading"
              /\ delivery'.next = delivery.next + 1 /\ delivery'.config = delivery.config
              /\ delivery'.status = delivery.status
    BY <1>1, <1>2 DEF Env!GiveUp, DeliveryInv, Shape
  <1>6. /\ DOMAIN files \subseteq DOMAIN files'
        /\ DOMAIN files' \subseteq DOMAIN files \union {file}
        /\ o # "failed" => DOMAIN files' = DOMAIN files \union {file}
        /\ o = "failed" => files' = files
        /\ \A f \in DOMAIN files : f # file => files'[f] = files[f]
        /\ o # "failed" => files'[file] = contents
    <2>1. CASE o = "failed"
      BY <1>1, <2>1
    <2>2. CASE o # "failed"
      <3>1. files' = Env!set_var(files, file, contents)
        BY <1>1, <2>2
      <3>2. /\ DOMAIN files' = DOMAIN files \union {file} /\ files'[file] = contents
            /\ \A f \in DOMAIN files : f # file => files'[f] = files[f]
        BY <3>1 DEF Env!set_var
      <3>. QED  BY <2>2, <3>2
    <2>. QED  BY <2>1, <2>2
  <1>7. Env!TypeOK'
    <2>1. delivery'.next \in 1 .. 5
      BY <1>2, <1>3, <1>5
    <2>2. DOMAIN files' \subseteq Env!Range(Env!Uploads)
      BY <1>3, <1>6, UploadNames DEF DeliveryInv, Env!TypeOK
    <2>3. rewritten' \in BOOLEAN
      BY <1>1
    <2>4. delivery'.status \in Env!Statuses
      BY <1>2, <1>5 DEF Env!Statuses
    <2>. QED  BY <1>1, <1>5, <2>1, <2>2, <2>3, <2>4 DEF DeliveryInv, Env!TypeOK
  <1>8. Shape'
    <2>1. delivery'.at # "reading" /\ (delivery'.at = "uploading" \/ delivery'.next = 1)
      BY <1>5
    <2>. QED  BY <1>1, <1>2, <1>5, <2>1 DEF DeliveryInv, Shape
  <1>9. UserChecked'
    BY <1>1, <1>2, <1>5, SameContainer DEF DeliveryInv, UserChecked, Before
  <1>10. \/ "ready" \in DOMAIN files
         \/ \A i \in 1 .. (delivery.next - 1) :
               Env!Uploads[i] \in DOMAIN files /\ files[Env!Uploads[i]].by = attempts
    BY <1>1 DEF DeliveryInv, UploadedSoFar
  <1>11. ASSUME file = "ready", "ready" \notin DOMAIN files
         PROVE \A f \in {"env", "secretEnv", "command", "args"} :
                  f \in DOMAIN files /\ files[f].by = attempts
    <2>1. 1 \in 1 .. (delivery.next - 1) /\ 2 \in 1 .. (delivery.next - 1)
          /\ 3 \in 1 .. (delivery.next - 1) /\ 4 \in 1 .. (delivery.next - 1)
      BY <1>3, <1>11
    <2>. QED  BY <1>10, <1>11, <2>1, UploadNames
  <1>12. ReadyIsLast'
    <2>1. "ready" \in DOMAIN files' =>
             /\ {"command", "args"} \subseteq DOMAIN files'
             /\ worker.pc \notin Over => {"env", "secretEnv"} \subseteq DOMAIN files'
      <3>1. CASE "ready" \in DOMAIN files
        BY <1>6, <3>1 DEF DeliveryInv, ReadyIsLast
      <3>2. CASE "ready" \notin DOMAIN files
        BY <1>6, <1>11, <3>2
      <3>. QED  BY <3>1, <3>2
    <2>2. worker' = worker /\ (worker.pc \notin Waiting => "ready" \in DOMAIN files')
      BY <1>1, <1>6 DEF DeliveryInv, ReadyIsLast
    <2>3. DOMAIN worker'.got = GotBy(worker.pc)'
      BY <1>1 DEF DeliveryInv, ReadyIsLast, GotBy, Waiting
    <2>. QED  BY <2>1, <2>2, <2>3 DEF ReadyIsLast, Waiting, Over
  <1>13. UploadedSoFar'
    <2>. SUFFICES ASSUME delivery'.at = "uploading", "ready" \notin DOMAIN files',
                         NEW i \in 1 .. (delivery'.next - 1)
                  PROVE Env!Uploads[i] \in DOMAIN files' /\ files'[Env!Uploads[i]].by = attempts
      BY <1>1 DEF UploadedSoFar, Env!Uploads
    <2>1. o = "ok" /\ delivery'.next = delivery.next + 1 /\ "ready" \notin DOMAIN files
      BY <1>5, <1>6
    <2>2. CASE i = delivery.next
      BY <1>2, <1>4, <1>6, <2>1, <2>2 DEF file
    <2>3. CASE i # delivery.next
      <3>1. i \in 1 .. (delivery.next - 1) /\ i \in 1 .. 5
        BY <1>2, <2>1, <2>3
      <3>2. Env!Uploads[i] # file
        BY <1>3, <2>3, <3>1
      <3>. QED  BY <1>6, <1>10, <2>1, <3>1, <3>2
    <2>. QED  BY <2>2, <2>3
  <1>14. SameDelivery'
    <2>. SUFFICES ASSUME "ready" \in DOMAIN files', ~rewritten'
                  PROVE /\ \A f \in DOMAIN files' : files'[f].by = files'["ready"].by
                        /\ \A f \in DOMAIN worker.got : worker.got[f].by = files'["ready"].by
      BY <1>1 DEF SameDelivery
    <2>1. ~rewritten /\ (o = "failed" \/ "ready" \notin DOMAIN files)
      BY <1>1
    <2>2. CASE o = "failed"
      BY <1>6, <2>1, <2>2 DEF DeliveryInv, SameDelivery
    <2>3. CASE o # "failed"
      <3>1. "ready" \notin DOMAIN files /\ file = "ready"
        BY <1>6, <2>1, <2>3
      <3>2. files'["ready"].by = attempts
        BY <1>4, <1>6, <2>3, <3>1
      <3>3. DOMAIN files \subseteq {"env", "secretEnv", "command", "args"}
        BY <3>1, UploadNames DEF DeliveryInv, Env!TypeOK
      <3>4. DOMAIN worker.got = {}
        BY <3>1 DEF DeliveryInv, ReadyIsLast, GotBy, Waiting
      <3>5. \A f \in DOMAIN files' : f # "ready" => files'[f].by = attempts
        BY <1>6, <1>11, <3>1, <3>3
      <3>. QED  BY <3>2, <3>4, <3>5
    <2>. QED  BY <2>2, <2>3
  <1>15. /\ Copies("env")' \subseteq Copies("env")
         /\ Copies("secretEnv")' \subseteq Copies("secretEnv")
    <2>1. ASSUME NEW f \in {"env", "secretEnv"} PROVE Copies(f)' \subseteq Copies(f)
      <3>1. f # "ready"
        OBVIOUS
      <3>2. f \in DOMAIN files' => files'[f] \in Copies(f)
        <4>1. CASE o # "failed" /\ file = f
          <5>1. files'[f] = [by |-> attempts, is |-> delivery.config[f]]
            BY <1>4, <1>6, <3>1, <4>1
          <5>2. f \in {g \in {f} : delivery.at = "uploading"}
            BY <1>1
          <5>3. files'[f] \in {[by |-> attempts, is |-> delivery.config[g]] :
                                 g \in {g \in {f} : delivery.at = "uploading"}}
            BY <5>1, <5>2
          <5>. QED  BY <5>3 DEF Copies
        <4>2. CASE o = "failed" \/ file # f
          BY <1>6, <4>2 DEF Copies
        <4>. QED  BY <4>1, <4>2
      <3>3. delivery'.at = "uploading" => delivery'.config = delivery.config
        BY <1>5
      <3>. QED  BY <1>1, <3>2, <3>3 DEF Copies
    <2>. QED  BY <2>1
  <1>16. CopiesComplete' /\ CopiesOld'
    <2>1. delivery'.at # "reading"
      BY <1>5
    <2>. QED  BY <1>1, <1>15, <2>1, AttemptsTyped, CopiesKept DEF DeliveryInv
  <1>. QED  BY <1>7, <1>8, <1>9, <1>12, <1>13, <1>14, <1>16 DEF DeliveryInv

\* What all steps of the worker's script have in common.
LEMMA StepWorker ==
    ASSUME DeliveryInv, Env!OnlyWorker, worker.pc # "off", worker'.pc # "off",
           DOMAIN worker' = DOMAIN worker, worker'.pc \in Env!WorkerSteps,
           worker'.scratch \in {"none", "volume", "boot disk"},
           NEW file \in {"env", "secretEnv", "command", "args"},
           worker'.got \in {worker.got, Env!Take(file)},
           \/ files' = files
           \/ files' = Env!WithoutEnv /\ worker.pc \notin Waiting
    PROVE  /\ Env!TypeOK' /\ Shape' /\ UploadedSoFar' /\ CopiesComplete' /\ CopiesOld'
           /\ DOMAIN files' \subseteq DOMAIN files
           /\ "ready" \in DOMAIN files <=> "ready" \in DOMAIN files'
           /\ \A f \in DOMAIN files' : files'[f] = files[f]
           /\ \A f \in DOMAIN worker'.got :
                 \/ f \in DOMAIN worker.got /\ worker'.got[f] = worker.got[f]
                 \/ f = file /\ f \in DOMAIN files /\ worker'.got[f] = files[f]
PROOF
  <1>1. UNCHANGED <<container, delivery, edits, attempts, rewritten>>
    BY DEF Env!OnlyWorker
  <1>2. /\ DOMAIN files' \subseteq DOMAIN files
        /\ "ready" \in DOMAIN files <=> "ready" \in DOMAIN files'
        /\ \A f \in DOMAIN files' : files'[f] = files[f]
    BY DEF Env!WithoutEnv
  <1>3. \A f \in DOMAIN worker'.got :
           \/ f \in DOMAIN worker.got /\ worker'.got[f] = worker.got[f]
           \/ f = file /\ f \in DOMAIN files /\ worker'.got[f] = files[f]
    <2>1. CASE worker'.got = worker.got
      BY <2>1
    <2>2. CASE worker'.got = Env!Take(file)
      BY <2>2 DEF Env!Take, Env!set_var
    <2>. QED  BY <2>1, <2>2
  <1>4. Env!TypeOK'
    BY <1>1, <1>2 DEF DeliveryInv, Env!TypeOK
  <1>5. Shape'
    BY <1>1, <1>3 DEF DeliveryInv, Shape
  <1>6. UploadedSoFar'
    <2>1. CASE files' = files
      BY <1>1, <2>1 DEF DeliveryInv, UploadedSoFar, Env!Uploads
    <2>2. CASE worker.pc \notin Waiting
      BY <1>2, <2>2 DEF DeliveryInv, ReadyIsLast, UploadedSoFar
    <2>. QED  BY <2>1, <2>2
  <1>7. ASSUME NEW f PROVE Copies(f)' \subseteq Copies(f)
    <2>1. f \in DOMAIN files' => files'[f] \in Copies(f)
      BY <1>2 DEF Copies
    <2>2. f \in DOMAIN worker'.got => worker'.got[f] \in Copies(f)
      BY <1>3 DEF Copies
    <2>. QED  BY <1>1, <2>1, <2>2 DEF Copies
  <1>8. CopiesComplete' /\ CopiesOld'
    <2>1. /\ Copies("env")' \subseteq Copies("env")
          /\ Copies("secretEnv")' \subseteq Copies("secretEnv")
      BY <1>7
    <2>. QED  BY <1>1, <2>1, AttemptsTyped, CopiesKept DEF DeliveryInv
  <1>. QED  BY <1>2, <1>3, <1>4, <1>5, <1>6, <1>8

\* What it read is of the "ready" it waited for, unless there was another delivery.
LEMMA StepSame ==
    ASSUME DeliveryInv, rewritten' = rewritten, NEW file,
           "ready" \in DOMAIN files <=> "ready" \in DOMAIN files',
           \A f \in DOMAIN files' : f \in DOMAIN files /\ files'[f] = files[f],
           \A f \in DOMAIN worker'.got :
              \/ f \in DOMAIN worker.got /\ worker'.got[f] = worker.got[f]
              \/ f = file /\ f \in DOMAIN files /\ worker'.got[f] = files[f]
    PROVE  SameDelivery'
  BY DEF DeliveryInv, SameDelivery

\* A script that does not get to run the container.
LEMMA StepUser ==
    ASSUME DeliveryInv, Env!OnlyWorker, worker.pc # "off", worker'.pc \notin {"run", "running"}
    PROVE  UserChecked'
  BY SameContainer DEF DeliveryInv, UserChecked, Env!OnlyWorker

LEMMA StepRead ==
    ASSUME DeliveryInv, NEW file, NEW from, NEW to, Env!Read(from, file, to),
           "ready" \in DOMAIN files,
           <<from, file, to>> \in {<<"config", "command", "args">>, <<"args", "args", "secretEnv">>,
                                   <<"secretEnv", "secretEnv", "user">>}
    PROVE  DeliveryInv'
PROOF
  <1>0. \/ from = "config" /\ file = "command" /\ to = "args"
        \/ from = "args" /\ file = "args" /\ to = "secretEnv"
        \/ from = "secretEnv" /\ file = "secretEnv" /\ to = "user"
    OBVIOUS
  <1>1. /\ worker.pc = from /\ files' = files /\ Env!OnlyWorker
        /\ worker' = [worker EXCEPT !.pc = to, !.got = Env!Take(file)]
    BY DEF Env!Read
  <1>2. /\ DOMAIN worker' = DOMAIN worker /\ worker'.pc = to /\ worker'.scratch = worker.scratch
        /\ worker'.got = Env!Take(file)
    BY <1>1 DEF DeliveryInv, Shape
  <1>3. worker.scratch \in {"none", "volume", "boot disk"} /\ to \in Env!WorkerSteps
    BY <1>0 DEF DeliveryInv, Env!TypeOK, Env!WorkerSteps
  <1>4. /\ Env!TypeOK' /\ Shape' /\ UploadedSoFar' /\ CopiesComplete' /\ CopiesOld'
        /\ \A f \in DOMAIN worker'.got :
              \/ f \in DOMAIN worker.got /\ worker'.got[f] = worker.got[f]
              \/ f = file /\ f \in DOMAIN files /\ worker'.got[f] = files[f]
    <2>1. /\ file \in {"env", "secretEnv", "command", "args"}
          /\ worker.pc # "off" /\ worker'.pc # "off"
      BY <1>0, <1>1, <1>2
    <2>. QED  BY <1>1, <1>2, <1>3, <2>1, StepWorker
  <1>5. UserChecked'
    BY <1>0, <1>1, <1>2, StepUser
  <1>6. SameDelivery'
    BY <1>1, <1>4, StepSame DEF Env!OnlyWorker
  <1>7. ReadyIsLast'
    <2>1. file \in DOMAIN files /\ worker.pc \notin Over
      BY <1>0, <1>1 DEF DeliveryInv, ReadyIsLast, Over
    <2>2. DOMAIN worker'.got = DOMAIN worker.got \union {file}
      BY <1>2, <2>1 DEF Env!Take, Env!set_var
    <2>3. DOMAIN worker'.got = GotBy(worker.pc)'
      BY <1>0, <1>1, <1>2, <2>2 DEF DeliveryInv, ReadyIsLast, GotBy, Waiting
    <2>. QED  BY <1>1, <1>2, <2>1, <2>3 DEF DeliveryInv, ReadyIsLast
  <1>. QED  BY <1>4, <1>5, <1>6, <1>7 DEF DeliveryInv

LEMMA StepMount ==
    ASSUME DeliveryInv, NEW timeout \in BOOLEAN, Env!mount_scratch(timeout)
    PROVE  DeliveryInv'
PROOF
  <1>1. /\ worker.pc = "volume" /\ files' = files /\ Env!OnlyWorker
        /\ DOMAIN worker' = DOMAIN worker /\ worker'.pc = "config" /\ worker'.got = worker.got
        /\ worker'.scratch \in {"volume", "boot disk"}
    BY DEF Env!mount_scratch, DeliveryInv, Shape
  <1>2. /\ Env!TypeOK' /\ Shape' /\ UploadedSoFar' /\ CopiesComplete' /\ CopiesOld'
    <2>1. worker'.pc \in Env!WorkerSteps
      BY <1>1 DEF Env!WorkerSteps
    <2>2. worker'.got \in {worker.got, Env!Take("env")}
      BY <1>1
    <2>. QED  BY <1>1, <2>1, <2>2, StepWorker
  <1>3. UserChecked'
    BY <1>1, StepUser
  <1>4. SameDelivery'
    BY <1>1 DEF DeliveryInv, SameDelivery, Env!OnlyWorker
  <1>5. ReadyIsLast'
    BY <1>1 DEF DeliveryInv, ReadyIsLast, GotBy, Waiting, Over
  <1>. QED  BY <1>2, <1>3, <1>4, <1>5 DEF DeliveryInv

LEMMA StepCheckUser ==
    ASSUME DeliveryInv, NEW pulled \in BOOLEAN, Env!check_user(pulled)
    PROVE  DeliveryInv'
PROOF
  <1> DEFINE options == Env!parse(container)
  <1>1. /\ worker.pc = "user" /\ Env!OnlyWorker
        /\ \/ worker' = [worker EXCEPT !.pc = "refused"] /\ files' = Env!WithoutEnv
           \/ /\ worker' = [worker EXCEPT !.pc = "run"] /\ files' = files
              /\ options.nonRoot /\ options.user = None => container.imageUser = "uid"
    BY DEF Env!check_user
  <1>2. /\ DOMAIN worker' = DOMAIN worker /\ worker'.got = worker.got
        /\ worker'.scratch = worker.scratch
        /\ \/ worker'.pc = "refused" /\ files' = Env!WithoutEnv
           \/ /\ worker'.pc = "run" /\ files' = files
              /\ options.nonRoot /\ options.user = None => container.imageUser = "uid"
    BY <1>1 DEF DeliveryInv, Shape
  <1> HIDE DEF options
  <1>3. /\ Env!TypeOK' /\ Shape' /\ UploadedSoFar' /\ CopiesComplete' /\ CopiesOld'
        /\ DOMAIN files' \subseteq DOMAIN files
        /\ "ready" \in DOMAIN files <=> "ready" \in DOMAIN files'
        /\ \A f \in DOMAIN files' : files'[f] = files[f]
    <2>1. worker'.pc \in Env!WorkerSteps /\ worker.pc \notin Waiting /\ worker'.pc # "off"
      BY <1>1, <1>2 DEF Env!WorkerSteps, Waiting
    <2>2. worker'.got \in {worker.got, Env!Take("env")}
      BY <1>2
    <2>3. worker'.scratch \in {"none", "volume", "boot disk"}
      BY <1>2 DEF DeliveryInv, Env!TypeOK
    <2>4. files' = files \/ (files' = Env!WithoutEnv /\ worker.pc \notin Waiting)
      BY <1>2, <2>1
    <2>. QED  BY <1>1, <1>2, <2>1, <2>2, <2>3, <2>4, StepWorker
  <1>4. UserChecked'
    <2>1. /\ container' = container /\ delivery' = delivery /\ worker.pc # "off"
          /\ worker'.pc \in {"run", "running"} /\ options.nonRoot /\ options.user = None =>
                container.imageUser = "uid"
      BY <1>1, <1>2 DEF Env!OnlyWorker
    <2>. QED  BY <2>1, SameContainer DEF DeliveryInv, UserChecked, options
  <1>5. SameDelivery'
    <2>1. rewritten' = rewritten
      BY <1>1 DEF Env!OnlyWorker
    <2>. QED  BY <1>2, <1>3, <2>1 DEF DeliveryInv, SameDelivery
  <1>6. ReadyIsLast'
    <2>1. /\ "ready" \in DOMAIN files' /\ {"command", "args"} \subseteq DOMAIN files'
          /\ files' = files => {"env", "secretEnv"} \subseteq DOMAIN files'
      BY <1>1, <1>2 DEF DeliveryInv, ReadyIsLast, Waiting, Over, Env!WithoutEnv
    <2>2. DOMAIN worker'.got = GotBy(worker.pc)'
      BY <1>1, <1>2 DEF DeliveryInv, ReadyIsLast, GotBy, Waiting
    <2>. QED  BY <1>2, <2>1, <2>2 DEF ReadyIsLast, Over
  <1>. QED  BY <1>3, <1>4, <1>5, <1>6 DEF DeliveryInv

LEMMA StepRun == ASSUME DeliveryInv, Env!podman_run PROVE DeliveryInv'
PROOF
  <1>1. /\ worker.pc = "run" /\ Env!OnlyWorker /\ files' = Env!WithoutEnv
        /\ "ready" \in DOMAIN files
        /\ {"env", "secretEnv", "command", "args"} \subseteq DOMAIN files
    BY DEF Env!podman_run, DeliveryInv, ReadyIsLast, Waiting, Over
  <1>2. /\ DOMAIN worker' = DOMAIN worker /\ worker'.got = Env!Take("env")
        /\ worker'.scratch = worker.scratch /\ worker'.pc = "running"
    BY <1>1 DEF Env!podman_run, DeliveryInv, Shape
  <1>3. /\ Env!TypeOK' /\ Shape' /\ UploadedSoFar' /\ CopiesComplete' /\ CopiesOld'
        /\ DOMAIN files' \subseteq DOMAIN files
        /\ "ready" \in DOMAIN files <=> "ready" \in DOMAIN files'
        /\ \A f \in DOMAIN files' : files'[f] = files[f]
        /\ \A f \in DOMAIN worker'.got :
              \/ f \in DOMAIN worker.got /\ worker'.got[f] = worker.got[f]
              \/ f = "env" /\ f \in DOMAIN files /\ worker'.got[f] = files[f]
    <2>1. worker'.pc \in Env!WorkerSteps /\ worker.pc \notin Waiting /\ worker'.pc # "off"
      BY <1>1, <1>2 DEF Env!WorkerSteps, Waiting
    <2>2. worker'.got \in {worker.got, Env!Take("env")}
      BY <1>2
    <2>3. worker'.scratch \in {"none", "volume", "boot disk"}
      BY <1>2 DEF DeliveryInv, Env!TypeOK
    <2>. QED  BY <1>1, <1>2, <2>1, <2>2, <2>3, StepWorker
  <1>4. UserChecked'
    BY <1>1, <1>2, SameContainer DEF DeliveryInv, UserChecked, Env!OnlyWorker
  <1>5. SameDelivery'
    BY <1>1, <1>3, StepSame DEF Env!OnlyWorker
  <1>6. ReadyIsLast'
    <2>1. "ready" \in DOMAIN files' /\ {"command", "args"} \subseteq DOMAIN files'
      BY <1>1 DEF Env!WithoutEnv
    <2>2. DOMAIN worker'.got = DOMAIN worker.got \union {"env"}
      BY <1>1, <1>2 DEF Env!Take, Env!set_var
    <2>3. DOMAIN worker.got = {"command", "args", "secretEnv"}
      BY <1>1 DEF DeliveryInv, ReadyIsLast, GotBy, Waiting
    <2>4. DOMAIN worker'.got = GotBy(worker.pc)'
      BY <1>2, <2>2, <2>3 DEF GotBy, Waiting
    <2>. QED  BY <1>2, <2>1, <2>4 DEF ReadyIsLast, Over
  <1>. QED  BY <1>3, <1>4, <1>5, <1>6 DEF DeliveryInv

LEMMA StepDelivery == ASSUME DeliveryInv, [Env!Next]_environment PROVE DeliveryInv'
PROOF
  <1>0. /\ edits \in 0 .. MaxChanges /\ attempts \in 0 .. MaxAttempts
        /\ delivery.status \in Env!Statuses /\ delivery.at \in {"idle", "reading", "uploading"}
        /\ delivery.at # "uploading" => delivery.next = 1
        /\ delivery.status \notin {"Submitted", "Refused"} => Env!validate_options(container)
        /\ DOMAIN delivery = {"status", "at", "todo", "read", "config", "next", "attached"}
    BY DEF DeliveryInv, Env!TypeOK, Shape, UserChecked
  <1>00. \A n \in 0 .. MaxChanges : n < MaxChanges => n + 1 \in 0 .. MaxChanges
    BY BoundsAssumption
  <1>1. CASE UNCHANGED environment
    BY <1>0, <1>1, StepSecrets DEF environment
  <1>2. ASSUME Env!OnlySecrets, Env!Change \/ UNCHANGED edits PROVE DeliveryInv'
    <2>1. edits' \in 0 .. MaxChanges
      BY <1>0, <1>00, <1>2 DEF Env!Change
    <2>. QED  BY <1>2, <2>1, StepSecrets DEF Env!OnlySecrets
  <1>3. ASSUME NEW n, NEW data, Env!create_secret(n, data) PROVE DeliveryInv'
    BY <1>2, <1>3 DEF Env!create_secret
  <1>4. ASSUME NEW n, NEW p, Env!patch_reads(n, p) PROVE DeliveryInv'
    BY <1>2, <1>4 DEF Env!patch_reads
  <1>5. ASSUME NEW n, Env!delete_secret(n) PROVE DeliveryInv'
    BY <1>2, <1>5 DEF Env!delete_secret
  <1>6. CASE Env!patch_writes
    BY <1>2, <1>6 DEF Env!patch_writes
  <1>7. CASE Env!admit
    <2>1. /\ UNCHANGED <<container, files, edits, rewritten, worker, attempts>>
          /\ DOMAIN delivery' = DOMAIN delivery
          /\ delivery'.at = delivery.at /\ delivery'.next = delivery.next
          /\ delivery'.status \in {"VMPending", "Refused"}
          /\ delivery'.status = "VMPending" => Env!validate_options(container)
      BY <1>0, <1>7 DEF Env!admit, Env!OnlyJob
    <2>2. delivery.at = "idle" /\ delivery.status = "Submitted"
      BY <1>0, <1>7 DEF Env!admit, DeliveryInv, Shape
    <2>3. delivery'.status \in Env!Statuses
      BY <2>1 DEF Env!Statuses
    <2>. QED  BY <1>0, <2>1, <2>2, <2>3, StepRow DEF Before
  <1>8. CASE Env!start_resolve
    <2>1. /\ UNCHANGED <<container, files, edits, rewritten, worker>>
          /\ DOMAIN delivery' = DOMAIN delivery /\ delivery.at = "idle"
          /\ delivery'.at = "reading" /\ delivery'.next = delivery.next
          /\ delivery'.status = delivery.status
          /\ delivery.status \in {"VMPending", "ContainerConfiguring"}
          /\ attempts' = attempts + 1 /\ attempts < MaxAttempts
      BY <1>0, <1>8 DEF Env!start_resolve, Env!OnlyJob
    <2>2. attempts' \in 0 .. MaxAttempts
      BY <1>0, <2>1, BoundsAssumption
    <2>. QED  BY <1>0, <2>1, <2>2, StepRow
  <1>9. CASE Env!read_secret
    <2>1. /\ UNCHANGED <<container, files, edits, rewritten, worker, attempts>>
          /\ DOMAIN delivery' = DOMAIN delivery /\ delivery.at = "reading"
          /\ delivery'.at = "reading" /\ delivery'.next = delivery.next
          /\ delivery'.status = delivery.status
      BY <1>0, <1>9 DEF Env!read_secret, Env!OnlyJob
    <2>2. delivery.status \in {"VMPending", "ContainerConfiguring"}
      BY <2>1 DEF DeliveryInv, Shape
    <2>. QED  BY <1>0, <2>1, <2>2, StepRow
  <1>10. ASSUME UNCHANGED <<container, files, edits, rewritten, worker, attempts>>,
                delivery' = Env!GiveUp
         PROVE DeliveryInv'
    <2>1. /\ DOMAIN delivery' = DOMAIN delivery /\ delivery'.at = "idle" /\ delivery'.next = 1
          /\ delivery'.status = delivery.status
      BY <1>0, <1>10 DEF Env!GiveUp
    <2>. QED  BY <1>0, <1>10, <2>1, StepRow
  <1>11. CASE Env!check_resolves
    <2>1. /\ delivery.status = "VMPending"
          /\ UNCHANGED <<container, files, edits, rewritten, attempts>>
      BY <1>11 DEF Env!check_resolves, Env!OnlyJob
    <2>2. CASE delivery' = Env!GiveUp /\ UNCHANGED worker
      BY <1>10, <2>1, <2>2
    <2>3. CASE /\ delivery' = [Env!GiveUp EXCEPT !.status = "VolumeAttaching"]
               /\ worker' = [worker EXCEPT !.pc = "volume"]
      <3>1. /\ DOMAIN delivery' = DOMAIN delivery /\ delivery'.at = "idle" /\ delivery'.next = 1
            /\ delivery'.status = "VolumeAttaching"
        BY <1>0, <2>3 DEF Env!GiveUp
      <3>2. worker.pc = "off"
        BY <2>1 DEF DeliveryInv, UserChecked, Before
      <3>3. /\ DOMAIN worker' = DOMAIN worker /\ worker'.pc = "volume" /\ worker'.got = worker.got
            /\ worker'.scratch = worker.scratch
        BY <2>3 DEF DeliveryInv, Shape
      <3>4. Env!TypeOK'
        <4>1. /\ delivery'.status \in Env!Statuses /\ worker'.pc \in Env!WorkerSteps
              /\ delivery'.next \in 1 .. 5
          BY <3>1, <3>3 DEF Env!Statuses, Env!WorkerSteps
        <4>. QED  BY <2>1, <3>1, <3>3, <4>1 DEF DeliveryInv, Env!TypeOK
      <3>5. Shape'
        BY <3>1, <3>3 DEF DeliveryInv, Shape
      <3>6. UserChecked'
        BY <1>0, <2>1, <3>1, <3>3, SameContainer DEF DeliveryInv, UserChecked, Before
      <3>7. ReadyIsLast' /\ UploadedSoFar' /\ SameDelivery'
        BY <2>1, <3>1, <3>2, <3>3
           DEF DeliveryInv, ReadyIsLast, UploadedSoFar, SameDelivery, GotBy, Waiting, Over
      <3>8. /\ Copies("env")' \subseteq Copies("env")
            /\ Copies("secretEnv")' \subseteq Copies("secretEnv")
        BY <2>1, <3>1, <3>3 DEF Copies
      <3>9. CopiesComplete' /\ CopiesOld'
        BY <2>1, <3>1, <3>8, AttemptsTyped, CopiesKept DEF DeliveryInv
      <3>. QED  BY <3>4, <3>5, <3>6, <3>7, <3>9 DEF DeliveryInv
    <2>. QED  BY <1>11, <2>2, <2>3 DEF Env!check_resolves
  <1>12. CASE Env!attach_volume
    <2>1. /\ UNCHANGED <<container, files, edits, rewritten, worker, attempts>>
          /\ DOMAIN delivery' = DOMAIN delivery /\ delivery.status = "VolumeAttaching"
          /\ delivery'.at = delivery.at /\ delivery'.next = delivery.next
          /\ delivery'.status = "ContainerConfiguring"
      BY <1>0, <1>12 DEF Env!attach_volume, Env!OnlyJob
    <2>2. delivery.at = "idle"
      BY <1>0, <2>1 DEF DeliveryInv, Shape
    <2>3. delivery'.status \in Env!Statuses
      BY <2>1 DEF Env!Statuses
    <2>. QED  BY <1>0, <2>1, <2>2, <2>3, StepRow DEF Before
  <1>13. CASE Env!config_resolved
    <2>1. CASE Env!Resolved.ok
      BY <1>13, <2>1, StepResolved
    <2>2. CASE ~Env!Resolved.ok
      BY <1>10, <1>13, <2>2 DEF Env!config_resolved, Env!OnlyJob
    <2>. QED  BY <2>1, <2>2
  <1>14. CASE Env!force_failed
    <2>1. /\ UNCHANGED <<container, files, edits, rewritten, worker, attempts>>
          /\ DOMAIN delivery' = DOMAIN delivery /\ delivery.at = "idle"
          /\ delivery.status \in {"VMPending", "VolumeAttaching", "ContainerConfiguring"}
          /\ delivery'.at = delivery.at /\ delivery'.next = delivery.next
          /\ delivery'.status = "Failed"
      BY <1>0, <1>14 DEF Env!force_failed, Env!OnlyJob
    <2>2. delivery'.status \in Env!Statuses
      BY <2>1 DEF Env!Statuses
    <2>. QED  BY <1>0, <2>1, <2>2, StepRow DEF Before
  <1>15. ASSUME NEW o \in {"ok", "lost", "failed"}, Env!upload(o) PROVE DeliveryInv'
    BY <1>15, StepUpload
  <1>16. ASSUME NEW timeout \in BOOLEAN, Env!mount_scratch(timeout) PROVE DeliveryInv'
    BY <1>16, StepMount
  <1>17. CASE Env!read_command
    BY <1>17, StepRead DEF Env!read_command
  <1>18. CASE Env!read_args
    <2>1. "ready" \in DOMAIN files
      BY <1>18 DEF Env!read_args, Env!Read, DeliveryInv, ReadyIsLast, Waiting
    <2>. QED  BY <1>18, <2>1, StepRead DEF Env!read_args
  <1>19. CASE Env!read_secret_env
    <2>1. "ready" \in DOMAIN files
      BY <1>19 DEF Env!read_secret_env, Env!Read, DeliveryInv, ReadyIsLast, Waiting
    <2>. QED  BY <1>19, <2>1, StepRead DEF Env!read_secret_env
  <1>20. ASSUME NEW pulled \in BOOLEAN, Env!check_user(pulled) PROVE DeliveryInv'
    BY <1>20, StepCheckUser
  <1>21. CASE Env!podman_run
    BY <1>21, StepRun
  <1>. QED
    BY <1>1, <1>3, <1>4, <1>5, <1>6, <1>7, <1>8, <1>9, <1>11, <1>12, <1>13, <1>14, <1>15, <1>16,
       <1>17, <1>18, <1>19, <1>20, <1>21 DEF Env!Next

LEMMA DeliveryHolds == Spec => []DeliveryInv
  BY InitDelivery, StepDelivery, EnvironmentRuns, PTL

\* Whichever Secrets change, uploads are lost and configs are delivered again, a worker
\* that runs its container has given it every variable that is not optional, and its
\* last entries as they are.
THEOREM RunsWithAll == Spec => []StartsComplete
PROOF
  <1>1. ASSUME DeliveryInv PROVE StartsComplete
    <2>. SUFFICES ASSUME Env!Running, NEW i \in DOMAIN container.env
                  PROVE LET e == container.env[i]
                            last == \A h \in DOMAIN container.env :
                                       h > i => container.env[h].name # e.name
                            file == IF Env!Multiline(e.field) THEN "secretEnv" ELSE "env"
                        IN  /\ e.from \in {"value", "fieldRef"} \/ ~e.optional =>
                                  e.name \in Env!Defined \/ Env!Mixed
                            /\ e.from = "fieldRef" /\ last =>
                                  /\ e.name \in DOMAIN Env!Seen(file)
                                  /\ Env!Seen(file)[e.name] = e.field
      BY DEF StartsComplete, Env!StartsComplete
    <2> DEFINE x == worker.got["env"]
               y == worker.got["secretEnv"]
               e == container.env[i]
    <2>1. {"env", "secretEnv"} \subseteq DOMAIN worker.got
      BY <1>1 DEF DeliveryInv, ReadyIsLast, GotBy, Waiting, Env!Running
    <2>2. x \in Copies("env") /\ y \in Copies("secretEnv")
      BY <2>1 DEF Copies
    <2>3. Env!Seen("env") = x.is /\ Env!Seen("secretEnv") = y.is
      BY <2>1 DEF Env!Seen
    <2>4. DOMAIN container.env = 1 .. Len(container.env)
      BY <1>1, ContainerAssumption DEF DeliveryInv, Env!TypeOK
    <2> HIDE DEF x, y
    <2>5. x.by = y.by => Covers(x.is, y.is)
      BY <1>1, <2>2 DEF DeliveryInv, CopiesComplete
    <2>6. HasFields(x.is, FALSE) /\ HasFields(y.is, TRUE)
      BY <1>1, <2>2 DEF DeliveryInv, CopiesComplete
    <2>7. Required(e) => e.name \in Env!Defined \/ Env!Mixed
      BY <2>3, <2>5 DEF Covers, Env!Defined, Env!Mixed, x, y
    <2>8. ASSUME e.from = "fieldRef",
                 \A h \in DOMAIN container.env : h > i => container.env[h].name # e.name
          PROVE LET file == IF Env!Multiline(e.field) THEN "secretEnv" ELSE "env"
                IN  e.name \in DOMAIN Env!Seen(file) /\ Env!Seen(file)[e.name] = e.field
      <3>1. LastOf(container, i, Len(container.env))
        BY <2>4, <2>8 DEF LastOf
      <3>. QED  BY <2>3, <2>6, <2>8, <3>1 DEF HasFields
    <2>. QED  BY <2>7, <2>8 DEF Required
  <1>. QED  BY <1>1, DeliveryHolds, PTL

\* The files of a container that runs come from one resolve, unless its config was
\* uploaded again after "ready".
THEOREM FilesFromOneReading == Spec => []OneReading
PROOF
  <1>1. ASSUME DeliveryInv PROVE OneReading
    <2>. SUFFICES ASSUME Env!Running, ~rewritten
                  PROVE /\ DOMAIN worker.got = {"env", "secretEnv", "command", "args"}
                        /\ \A f, g \in DOMAIN worker.got : worker.got[f].by = worker.got[g].by
      BY DEF OneReading, Env!OneReading
    <2>1. /\ DOMAIN worker.got = {"env", "secretEnv", "command", "args"}
          /\ "ready" \in DOMAIN files
      BY <1>1 DEF DeliveryInv, ReadyIsLast, GotBy, Waiting, Env!Running
    <2>2. \A f \in DOMAIN worker.got : worker.got[f].by = files["ready"].by
      BY <1>1, <2>1 DEF DeliveryInv, SameDelivery
    <2>. QED  BY <2>1, <2>2
  <1>. QED  BY <1>1, DeliveryHolds, PTL

\* With runAsNonRoot in force, at whichever level it and runAsUser are set, no container
\* runs as root.
THEOREM NeverRoot == Spec => []NonRootHonoured
PROOF
  <1>1. ASSUME DeliveryInv PROVE NonRootHonoured
    <2> DEFINE nonRoot == Env!Or(container.sc.nonRoot, Env!Or(container.pod.nonRoot, FALSE))
               user == Env!Or(container.sc.user, container.pod.user)
    <2>. SUFFICES ASSUME Env!Running, nonRoot
                  PROVE IF user = None THEN container.imageUser = "uid" ELSE user # 0
      BY DEF NonRootHonoured, Env!NonRootHonoured
    <2>1. /\ Env!validate_options(container)
          /\ Env!parse(container).nonRoot /\ Env!parse(container).user = None =>
                container.imageUser = "uid"
      BY <1>1 DEF DeliveryInv, UserChecked, Env!Running, Before
    <2>. QED  BY <2>1 DEF Env!validate_options, Env!parse
  <1>. QED  BY <1>1, DeliveryHolds, PTL

-----------------------------------------------------------------------------

\* The rows, the process, the files and the workers of the services stay well typed, for
\* any inputs and bounds.  The log endpoint's body is left to the model checker: how long
\* it gets is a matter of sorts and filters over lists.
THEOREM ServicesTyped == Spec => [](kind # "logs" => TypeOK)
PROOF
  <1> DEFINE Kinds == kind \in {"process", "environment", "logs", "metrics", "costing"}
  <1>1. Init => Kinds
    BY DEF Init
  <1>2. Kinds /\ [Next]_vars => Kinds'
    BY DEF Next, vars
  <1>3. Spec => []Met!TypeOK
    <2>1. MetricsInv => Met!TypeOK
      BY DEF MetricsInv
    <2>. QED  BY <2>1, InitMetrics, StepMetrics, MetricsRun, PTL
  <1>4. DeliveryInv => Env!TypeOK
    BY DEF DeliveryInv
  <1>5. Kinds /\ Proc!TypeOK /\ Env!TypeOK /\ Met!TypeOK /\ Cost!TypeOK
          => (kind # "logs" => TypeOK)
    BY DEF TypeOK
  <1>. QED
    BY <1>1, <1>2, <1>3, <1>4, <1>5, ProcessTyped, DeliveryHolds, CostingTyped, PTL DEF Spec

=============================================================================
