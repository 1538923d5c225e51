------------------------------ MODULE MCServices ------------------------------
(***************************************************************************)
(* Services for TLC.                                                       *)
(***************************************************************************)
EXTENDS Services, TLC

-----------------------------------------------------------------------------
(***************************************************************************)
(* Process: with a certificate to get, and in dry-run mode without one.    *)
(***************************************************************************)

MCConfigs == {[dryRun |-> FALSE, hostname |-> TRUE], [dryRun |-> TRUE, hostname |-> FALSE]}
MCColumns == <<"scheduled_time">>

-----------------------------------------------------------------------------
(***************************************************************************)
(* Delivery: containers with required and optional sources, several lines  *)
(* and references; ones that are refused; and securityContexts at both     *)
(* levels in all combinations.                                             *)
(***************************************************************************)

Context(user, group, nonRoot) == [user |-> user, group |-> group, nonRoot |-> nonRoot]

Plain ==
    [env |-> << >>, envFrom |-> << >>, command |-> << >>, args |-> << >>,
     pod |-> Context(None, None, None), sc |-> Context(None, None, None),
     unknownField |-> FALSE, mount |-> "none", image |-> TRUE, imageUser |-> "uid",
     volume |-> FALSE]

FromKey(name, secret, key, optional) ==
    [name |-> name, from |-> "secretKeyRef", secret |-> secret, key |-> key, optional |-> optional]

AllOf(secret, optional) == [from |-> "secretRef", secret |-> secret, optional |-> optional]

MCContainers ==
    { [Plain EXCEPT !.envFrom = <<AllOf("s", FALSE)>>,
                    !.env = <<FromKey("A", "t", "A", FALSE),
                              [name |-> "B", from |-> "value", value |-> "$(A)"]>>,
                    !.command = <<"$(A)">>, !.volume = TRUE],
      [Plain EXCEPT !.envFrom = <<AllOf("s", TRUE)>>,
                    !.env = <<FromKey("B", "s", "B", TRUE),
                              [name |-> "A", from |-> "fieldRef", field |-> "metadata.name"]>>,
                    !.args = <<"$(B)">>],
      [Plain EXCEPT !.env = <<[name |-> "A", from |-> "configMapKeyRef", optional |-> FALSE]>>],
      [Plain EXCEPT !.env = <<FromKey("A,B", "s", "A", FALSE)>>],
      [Plain EXCEPT !.env = <<FromKey("#A", "s", "A", FALSE)>>],
      [Plain EXCEPT !.args = <<"nul">>],
      [Plain EXCEPT !.image = FALSE],
      [Plain EXCEPT !.unknownField = TRUE],
      [Plain EXCEPT !.mount = "invalid"] }
    \union
    { [Plain EXCEPT !.pod = Context(podUser, None, podNonRoot),
                    !.sc = Context(ids[1], ids[2], nonRoot), !.imageUser = image] :
        podUser \in {None, 0}, podNonRoot \in {None, TRUE},
        ids \in {<<None, None>>, <<0, None>>, <<1000, 1000>>, <<None, 1000>>},
        nonRoot \in {None, FALSE, TRUE}, image \in {"root", "uid"} }

Secret(name, data) == [name |-> name, data |-> data]

MCSecrets ==
    { << >>,
      <<Secret("s", "A" :> "v1"), Secret("t", "A" :> "v1")>>,
      <<Secret("s", "A" :> "pem" @@ "B" :> "v1")>>,
      <<Secret("s", "A=B" :> "v1")>>,
      <<Secret("s", "A" :> "huge")>> }

MCInitSecrets == [c \in MCContainers |-> IF c.env = << >> THEN {<< >>} ELSE MCSecrets]

MCPatches ==
    { [op |-> "add", key |-> "A", value |-> "pem"],
      [op |-> "replace", key |-> "B", value |-> "bytes"],
      [op |-> "remove", key |-> "A", value |-> "v1"] }

-----------------------------------------------------------------------------
(***************************************************************************)
(* Logs: ties, lines out of order across streams, lines without a time.    *)
(***************************************************************************)

Line(stream, time, no) == [stream |-> stream, time |-> time, no |-> no]

MCContainerLogs ==
    { << >>,
      <<Line(1, 1, 1), Line(2, 1, 2), Line(1, 2, 3)>>,
      <<Line(2, 1, 1), Line(1, 1, 2), Line(2, 2, 3)>>,
      <<Line(1, 0, 1), Line(2, 1, 2), Line(2, 0, 3)>>,
      <<Line(2, 1, 1), Line(2, 2, 2), Line(1, 3, 3)>> }

Query(follow, since, limit, tail) ==
    [follow |-> follow, since |-> since, limit |-> limit, tail |-> tail,
     previous |-> FALSE, stream |-> None, sinceSeconds |-> None]

MCRequests ==
    {Query(follow, since, limit, None) :
        follow \in BOOLEAN, since \in {None, 2}, limit \in {None, 2}}
    \union {Query(FALSE, None, None, 1), Query(FALSE, None, None, -1),
            [Query(TRUE, None, None, None) EXCEPT !.previous = TRUE]}

-----------------------------------------------------------------------------
(***************************************************************************)
(* Costing: a plan that bundles its disk, one that does not, a large one;  *)
(* catalogs without some of them, price lists without some of the prices.  *)
(***************************************************************************)

Plan(name, cpu, memory, storage) ==
    [name |-> name, cpu |-> cpu, memory |-> memory, storage |-> storage,
     gpu |-> FALSE, current |-> TRUE, allowed |-> TRUE]

Small == Plan(1, 1, 1024, 10)
Native == Plan(2, 1, 2048, 0)
Large == Plan(3, 2, 2048, 20)

MCCatalogs ==
    { {}, {Small, Native, Large}, {Native, Large},
      {Small, [Native EXCEPT !.current = FALSE], [Large EXCEPT !.gpu = TRUE]},
      {Small, Native, [Large EXCEPT !.allowed = FALSE]} }

MCPriceLists ==
    { 1 :> 20 @@ 2 :> 15 @@ 3 :> 30 @@ 0 :> 2 @@ -1 :> 1 @@ -2 :> 3,
      2 :> 26 @@ 3 :> 27 @@ 0 :> 1,
      1 :> 25 @@ 3 :> 27 @@ -1 :> 2 }

MCExchangeRates == {1, 2}

Resources(cpu, memory, volumes) ==
    [cpu |-> cpu, memory |-> memory, volumes |-> volumes, limits |-> {},
     hasDeadline |-> TRUE, deadline |-> 2]
GiB == 1024 * 1024

\* Quantities just above and just below a whole core and a whole GB, and malformed
\* ones; a volume of 4.2 GiB, one without a class, one without a size, two volumes;
\* specs that each admission check refuses.
MCSpecs ==
    { Resources(None, None, << >>),
      Resources(5000, 1500 * 1024, <<[class |-> "fast", size |-> 4 * GiB + 200]>>),
      Resources(10004, GiB + 511, <<[class |-> None, size |-> 1], [class |-> "fast", size |-> GiB]>>),
      Resources(10005, GiB, << >>),
      Resources(-1, GiB + 512, <<[class |-> "standard", size |-> -1]>>),
      [Resources(None, None, << >>) EXCEPT !.deadline = -1],
      [Resources(None, None, << >>) EXCEPT !.deadline = None],
      [Resources(None, None, << >>) EXCEPT !.hasDeadline = FALSE],
      [Resources(None, None, << >>) EXCEPT !.limits = {1, -1}],
      Resources(None, None, <<[class |-> "other", size |-> GiB]>>),
      Resources(30000, None, << >>) }

===============================================================================
