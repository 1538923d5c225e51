------------------------------- MODULE Process -------------------------------
(***************************************************************************)
(* The life of the process (main, shutdown, db, acme): startup in steps,   *)
(* each of which a shutdown may cut short; the four background loops of    *)
(* reconcile (tick, orphan scan, metrics poll, pricing sync) beside the    *)
(* HTTP server; the Notify that wakes the tick after a change made through *)
(* the API; SIGTERM, the drain and its timeouts, a second signal, crashes  *)
(* and restarts.  What the loops do in a pass is other modules' business,  *)
(* except that the pricing sync fills the caches the first boot waits for. *)
(*                                                                         *)
(* The database outlives the process: columns added by the migrations,     *)
(* cached catalogs, changes a tick has not seen yet.                       *)
(***************************************************************************)
EXTENDS Integers, Sequences, FiniteSets

CONSTANTS
    Configs,     \* the configurations to look at
    Columns,     \* ADDED_COLUMNS, in order
    MaxStarts,   \* bound on starts of the process
    MaxFailures, \* bound on caches that could not be filled at a time
    MaxPasses,   \* bound on passes of the loops other than the tick
    MaxChanges   \* bound on changes made through the API

VARIABLES
    config,      \* config.toml: dry_run, and whether there is a host to get a certificate for
    \* The database.
    columns,     \* how many of Columns the tables have
    caches,      \* which of provider_plans, provider_pricing, exchange_rates have rows
    change,      \* a change through the API: being made, or made and not yet seen by a tick
    \* The process.
    main,        \* where main() is
    signals,     \* signals received
    shutdown,    \* the watch channel
    loop,        \* the background loops
    part,        \* the part of a pricing sync at hand
    permit,      \* the permit Notify stores
    health,      \* TickHealth: whether a tick was recorded lately
    \* Bounded counters, and history: the caches whose last fetch by this process
    \* failed or brought nothing, whether an exit cut off a pass that changes cloud
    \* resources, and what made it not wait for the loops.
    starts,
    passes,
    changes,
    failed,
    cutOff,
    cause

dbVars == <<config, columns, caches, change, changes>>
procVars == <<main, signals, shutdown, loop, part, permit, health, failed>>
history == <<cutOff, cause>>
vars == <<dbVars, procVars, starts, passes, history>>

Loops == {"tick", "scan", "poll", "sync"}
Caches == <<"plans", "pricing", "rates">>
Startup == {"migrate", "recover", "connectivity", "metadata", "check_cache", "first_sync", "seed"}
UpAndServing == {"certificate", "serving", "draining"}

TypeOK ==
    /\ config \in Configs
    /\ columns \in 0 .. Len(Columns)
    /\ caches \subseteq {"plans", "pricing", "rates"}
    /\ change \in {"none", "writing", "announced", "unannounced"}
    /\ main \in Startup \union UpAndServing \union {"finishing", "exited"}
    /\ signals \in 0 .. 2 /\ shutdown \in BOOLEAN
    /\ loop \in [Loops -> {"off", "waiting", "running", "hung", "panicked", "stopped"}]
    /\ part \in 0 .. 3
    /\ permit \in BOOLEAN
    /\ health \in {"fresh", "stale"}
    /\ starts \in 1 .. MaxStarts /\ passes \in 0 .. MaxPasses /\ changes \in 0 .. MaxChanges
    /\ failed \subseteq {"plans", "pricing", "rates"}
    /\ cutOff \in BOOLEAN /\ cause \in {"none", "timeout", "panic"}

AllOff == [l \in Loops |-> "off"]

Init ==
    /\ config \in Configs
    /\ columns \in 0 .. Len(Columns)   \* a database created by an earlier release
    /\ caches = {} /\ change = "none"
    /\ main = "migrate" /\ signals = 0 /\ shutdown = FALSE
    /\ loop = AllOff /\ part = 0 /\ permit = FALSE /\ health = "stale"
    /\ starts = 1 /\ passes = 0 /\ changes = 0
    /\ failed = {} /\ cutOff = FALSE /\ cause = "none"

-----------------------------------------------------------------------------
(***************************************************************************)
(* Startup.                                                                *)
(***************************************************************************)

Goto(pc) == main' = pc /\ UNCHANGED <<dbVars, signals, shutdown, loop, part, permit, health,
                                      failed, starts, passes, history>>

\* What becomes of a change when its handler or the process is gone.
Orphaned == IF change = "none" THEN "none" ELSE "unannounced"

\* The process is gone, for whatever reason: its tasks are dropped where they are.
Gone ==
    /\ main' = "exited"
    /\ loop' = AllOff /\ part' = 0 /\ permit' = FALSE /\ health' = "stale"
    /\ change' = Orphaned
    /\ UNCHANGED <<config, columns, caches, changes, shutdown, failed, starts, passes>>

\* A pass of the loop that changes cloud resources is under way.
MidOperation(l) == l \in {"tick", "scan"} /\ loop[l] \in {"running", "hung"}

\* main() returns.
Exit ==
    /\ Gone
    /\ cutOff' = (cutOff \/ \E l \in Loops : MidOperation(l))
    /\ UNCHANGED signals

\* apply_added_columns: each ALTER TABLE is a statement of its own, and a column
\* that is there already is passed over.
apply_added_columns ==
    /\ main = "migrate"
    /\ columns < Len(Columns)
    /\ columns' = columns + 1
    /\ UNCHANGED <<config, caches, change, changes, procVars, starts, passes, history>>

init_pool == main = "migrate" /\ columns = Len(Columns) /\ Goto("recover")

recover == main = "recover" /\ Goto("connectivity")

\* unless_shutdown: a slow step, given up once a shutdown is requested.
unless_shutdown(from, to) == main = from /\ ~shutdown /\ Goto(to)

check_connectivity == unless_shutdown("connectivity", "metadata")
own_public_ipv4 == unless_shutdown("metadata", "check_cache")

\* Mutant of has_cached_pricing: the first of the three will do.
has_cached_pricing_plans == "plans" \in caches

\* All three caches have rows.
has_cached_pricing == caches = {"plans", "pricing", "rates"}

\* The first boot syncs before it serves.
check_cache ==
    /\ main = "check_cache"
    /\ IF has_cached_pricing
       THEN main' = "seed" /\ UNCHANGED part
       ELSE main' = "first_sync" /\ part' = 1
    /\ UNCHANGED <<dbVars, signals, shutdown, loop, permit, health, failed, starts, passes,
                   history>>

\* unless_shutdown around a startup step, and the certificate's.
startup_cut_short ==
    /\ main \in {"connectivity", "metadata", "first_sync"}
    /\ shutdown
    /\ Exit
    /\ UNCHANGED cause

\* Anything else that fails before the loops are spawned ends the process.
startup_fails ==
    /\ main \in {"migrate", "recover", "check_cache", "seed"}
    /\ Exit
    /\ UNCHANGED cause

\* ensure_budget_seeded, and then the loops are spawned and serve() begins.
ensure_budget_seeded ==
    /\ main = "seed"
    /\ main' = IF config.hostname THEN "certificate" ELSE "serving"
    /\ loop' = [l \in Loops |-> "waiting"]
    /\ UNCHANGED <<dbVars, signals, shutdown, part, permit, health, failed, starts, passes,
                   history>>

\* acme::setup returns the acceptor, before or after a shutdown request is seen.
certificate_obtained == unless_shutdown("certificate", "serving")

\* Cold-start timeout, a port in use, unreadable key files; or a shutdown while
\* waiting for the certificate.  The loops are stopped all the same.
serve_ends ==
    /\ main \in {"certificate", "serving"}
    /\ Goto("finishing")

-----------------------------------------------------------------------------
(***************************************************************************)
(* The pricing sync: three independent parts, each tolerating the failure  *)
(* of the others, in first_sync and in the sync loop.                      *)
(***************************************************************************)

Syncing == (main = "first_sync" \/ loop["sync"] = "running") /\ ~shutdown

\* The first two parts do nothing in dry-run mode.
Skipped(c) == config.dryRun /\ c # "rates"

\* sync_plans, sync_pricing, sync_exchange_rates, each in one transaction.  A fetch
\* may fail (an empty catalog counts as such), or be fine and bring nothing to store:
\* a plan_filter that excludes every plan, no price for the zone, a feed without
\* rates.  store_plans and store_rates replace their table, prices are upserted.
sync_part(outcome) ==
    /\ Syncing /\ part \in 1 .. 3
    /\ outcome # "fills" => Cardinality(failed \union {Caches[part]}) <= MaxFailures
    /\ LET c == Caches[part]
       IN  \/ /\ outcome = "fills"
              /\ caches' = IF Skipped(c) THEN caches ELSE caches \union {c}
              /\ failed' = failed \ {c}
           \/ /\ outcome = "nothing" /\ ~Skipped(c)
              /\ caches' = IF c = "pricing" THEN caches ELSE caches \ {c}
              /\ failed' = failed \union {c}
           \/ /\ outcome = "fails" /\ ~Skipped(c)
              /\ caches' = caches
              /\ failed' = failed \union {c}
    /\ part' = (part + 1) % 4
    /\ UNCHANGED <<config, columns, change, changes, main, signals, shutdown, loop,
                   permit, health, starts, passes, history>>

first_sync_done == part = 0 /\ unless_shutdown("first_sync", "seed")

-----------------------------------------------------------------------------
(***************************************************************************)
(* The loops of reconcile::run.                                            *)
(***************************************************************************)

\* run_with_interval: the interval elapses, or Notify's permit is taken.  The pass
\* begins with its SELECTs.
wake_tick(notified) ==
    /\ loop["tick"] = "waiting" /\ ~shutdown
    /\ notified => permit
    /\ permit' = (permit /\ ~notified)
    /\ loop' = [loop EXCEPT !["tick"] = "running"]
    /\ change' = IF change = "writing" THEN change ELSE "none"
    /\ UNCHANGED <<config, columns, caches, changes, main, signals, shutdown, part,
                   health, failed, starts, passes, history>>

\* The other loops have their interval only.
wake(l) ==
    /\ l # "tick" /\ loop[l] = "waiting" /\ ~shutdown
    /\ passes < MaxPasses
    /\ passes' = passes + 1
    /\ loop' = [loop EXCEPT ![l] = "running"]
    /\ part' = IF l = "sync" THEN 1 ELSE part
    /\ UNCHANGED <<dbVars, main, signals, shutdown, permit, health, failed, starts, history>>

\* The pass returns, Ok or Err, and LoopStats.record notes it.  A tick asked to
\* shut down returns after the job at hand.
pass_returns(l) ==
    /\ loop[l] = "running"
    /\ l = "sync" => part = 0
    /\ loop' = [loop EXCEPT ![l] = "waiting"]
    /\ health' = IF l = "tick" THEN "fresh" ELSE health
    /\ UNCHANGED <<dbVars, main, signals, shutdown, part, permit, failed, starts, passes,
                   history>>

\* A call without a timeout does not return.  (The other two loops are dropped in
\* the middle of a pass just as if they hung.)
pass_hangs(l) ==
    /\ loop[l] = "running" /\ l \in {"tick", "scan"}
    /\ loop' = [loop EXCEPT ![l] = "hung"]
    /\ UNCHANGED <<dbVars, main, signals, shutdown, part, permit, health, failed, starts,
                   passes, history>>

\* The pass panics.  The loops beside the tick are tasks of their own, which end;
\* the tick is run()'s own, and takes run() with it, which waits for no one then.
pass_panics(l) ==
    /\ loop[l] = "running"
    /\ loop' = [loop EXCEPT ![l] = IF l = "tick" THEN "panicked" ELSE "stopped"]
    /\ part' = IF l = "sync" THEN 0 ELSE part
    /\ UNCHANGED <<dbVars, main, signals, shutdown, permit, health, failed, starts, passes,
                   history>>

\* Mutant of stop_loop: every loop may be dropped in the middle of a pass.
stop_loop_anywhere(l) ==
    /\ shutdown
    /\ loop[l] \in {"waiting", "running", "hung"}
    /\ loop' = [loop EXCEPT ![l] = "stopped"]
    /\ part' = IF l = "sync" THEN 0 ELSE part
    /\ cutOff' = (cutOff \/ MidOperation(l))
    /\ UNCHANGED <<dbVars, main, signals, shutdown, permit, health, failed, starts, passes,
                   cause>>

\* select! takes the shutdown branch first: between passes, and for the metrics
\* poll and the pricing sync, which only read from outside, also within one.
stop_loop(l) ==
    /\ shutdown
    /\ \/ loop[l] = "waiting"
       \/ loop[l] = "running" /\ l \in {"poll", "sync"}
    /\ loop' = [loop EXCEPT ![l] = "stopped"]
    /\ part' = IF l = "sync" THEN 0 ELSE part
    /\ cutOff' = (cutOff \/ MidOperation(l))
    /\ UNCHANGED <<dbVars, main, signals, shutdown, permit, health, failed, starts, passes,
                   cause>>

\* Mutant of is_healthy: a tick at any time will do.
is_healthy_ageless == TRUE

\* TickHealth.is_healthy, behind /readyz.
is_healthy == health = "fresh"

\* TICK_STALE_THRESHOLD_SECS pass without a tick.
tick_goes_stale ==
    /\ health = "fresh" /\ loop["tick"] # "waiting"
    /\ health' = "stale"
    /\ UNCHANGED <<dbVars, main, signals, shutdown, loop, part, permit, failed, starts,
                   passes, history>>

-----------------------------------------------------------------------------
(***************************************************************************)
(* API requests that change what a tick looks at, and notify_one.          *)
(***************************************************************************)

change_begins ==
    /\ main = "serving" /\ ~shutdown
    /\ change = "none" /\ changes < MaxChanges
    /\ change' = "writing" /\ changes' = changes + 1
    /\ UNCHANGED <<config, columns, caches, procVars, starts, passes, history>>

\* The query is done and notify_one called in the same breath.
change_notifies ==
    /\ change = "writing" /\ main \in {"serving", "draining"}
    /\ change' = "announced" /\ permit' = TRUE
    /\ UNCHANGED <<config, columns, caches, changes, main, signals, shutdown, loop, part,
                   health, failed, starts, passes, history>>

\* The client goes away: the handler is dropped while the query runs, which the
\* database completes all the same.
change_dropped ==
    /\ change = "writing" /\ main \in {"serving", "draining"}
    /\ change' = "unannounced"
    /\ UNCHANGED <<config, columns, caches, changes, procVars, starts, passes, history>>

-----------------------------------------------------------------------------
(***************************************************************************)
(* Shutdown.                                                               *)
(***************************************************************************)

\* The first signal asks for a shutdown, the second ends the process at once.
signal ==
    /\ main # "exited" /\ signals < 2
    /\ signals' = signals + 1
    /\ IF signals = 0
       THEN /\ shutdown' = TRUE
            /\ UNCHANGED <<dbVars, main, loop, part, permit, health, failed, history>>
       ELSE /\ Gone
            /\ cutOff' = (cutOff \/ \E l \in Loops : MidOperation(l))
            /\ UNCHANGED cause
    /\ UNCHANGED <<starts, passes>>

\* graceful_on_shutdown: no new requests.
graceful_shutdown == main = "serving" /\ shutdown /\ Goto("draining")

\* The requests are done, or HTTP_DRAIN_TIMEOUT is over and they are dropped.
http_drained ==
    /\ main = "draining"
    /\ main' = "finishing"
    /\ change' = Orphaned
    /\ UNCHANGED <<config, columns, caches, changes, signals, shutdown, loop, part,
                   permit, health, failed, starts, passes, history>>

\* finish: the trigger is pulled even if the server stopped by itself.
finish_triggers ==
    /\ main = "finishing" /\ ~shutdown
    /\ shutdown' = TRUE
    /\ UNCHANGED <<dbVars, main, signals, loop, part, permit, health, failed, starts, passes,
                   history>>

\* ... and the loops are waited for,
loops_joined ==
    /\ main = "finishing" /\ shutdown
    /\ \A l \in Loops : loop[l] = "stopped"
    /\ Exit
    /\ UNCHANGED cause

\* Mutant of drain_times_out: waits for as long as it takes.
drain_never_times_out == FALSE /\ UNCHANGED vars

\* ... but no longer than RECONCILE_DRAIN_TIMEOUT.
drain_times_out ==
    /\ main = "finishing" /\ shutdown
    /\ loop["tick"] # "panicked"
    /\ \E l \in Loops : loop[l] # "stopped"
    /\ Exit
    /\ cause' = "timeout"

\* ... and not at all once run() has panicked: the other loops go on without anyone
\* to join them.
join_fails ==
    /\ main = "finishing" /\ shutdown
    /\ loop["tick"] = "panicked"
    /\ Exit
    /\ cause' = "panic"

\* SIGKILL, a power failure.
crash ==
    /\ main # "exited" /\ starts < MaxStarts
    /\ Gone
    /\ UNCHANGED <<signals, history>>

restart ==
    /\ main = "exited" /\ starts < MaxStarts
    /\ starts' = starts + 1
    /\ main' = "migrate"
    /\ signals' = 0 /\ shutdown' = FALSE /\ failed' = {}
    /\ cutOff' = FALSE /\ cause' = "none"
    /\ UNCHANGED <<dbVars, loop, part, permit, health, passes>>

Main ==
    \/ apply_added_columns \/ init_pool \/ recover \/ check_connectivity \/ own_public_ipv4
    \/ check_cache \/ first_sync_done \/ ensure_budget_seeded
    \/ startup_cut_short \/ graceful_shutdown \/ http_drained \/ finish_triggers
    \/ loops_joined \/ drain_times_out \/ join_fails
    \/ main = "certificate" /\ shutdown /\ serve_ends

Next ==
    \/ Main
    \/ startup_fails \/ certificate_obtained \/ serve_ends
    \/ \E outcome \in {"fills", "nothing", "fails"} : sync_part(outcome)
    \/ \E notified \in BOOLEAN : wake_tick(notified)
    \/ \E l \in Loops : \/ wake(l) \/ pass_returns(l) \/ pass_hangs(l) \/ pass_panics(l)
                       \/ stop_loop(l)
    \/ tick_goes_stale
    \/ change_begins \/ change_notifies \/ change_dropped
    \/ signal \/ crash \/ restart

Spec == Init /\ [][Next]_vars

\* main's own steps and its timers go on, whatever the loops do; select! sees a
\* shutdown; the interval elapses; a minute passes.  A request, a fetch, a
\* certificate, or a pass that hangs may never come to its end.
Fairness ==
    /\ WF_vars(Main)
    /\ WF_vars(tick_goes_stale)
    /\ \A l \in Loops : WF_vars(stop_loop(l))
    /\ WF_vars(wake_tick(FALSE) \/ wake_tick(TRUE))
    /\ WF_vars(pass_returns("tick"))

-----------------------------------------------------------------------------
(***************************************************************************)
(* Properties.                                                             *)
(***************************************************************************)

\* "No loop is cut off in the middle of a pass that changes cloud resources"
\* (reconcile::run): a process that is not killed exits between passes of the
\* tick and the orphan scan, unless RECONCILE_DRAIN_TIMEOUT is over or a second
\* signal came; or the tick panicked, after which `main` does not "know nothing is
\* mid-operation": run() never gets to wait for the orphan scan.
SafeExit == cutOff => cause # "none" \/ signals = 2

\* Once a shutdown is requested the process exits, be it starting, waiting for a
\* certificate, or with a request or any of its loops hanging.
ShutdownCompletes == shutdown ~> main = "exited"

\* has_cached_pricing and the first sync: the server takes no request before the
\* plan catalog, the prices and the exchange rates are cached, through crashes
\* and shutdowns between the three: each one that is missing was asked for by this
\* very process, in vain (or dry-run skips it).
PricedBeforeServing ==
    main \in UpAndServing =>
        \A c \in {"plans", "pricing", "rates"} : c \in caches \/ c \in failed \/ Skipped(c)

\* Every change made through the API reaches a tick.  One announced with notify_one
\* while a pass runs is not lost with that pass: the permit stays until a later one
\* takes it.  One whose client went away before notify_one is found by the fallback
\* interval; and if the tick hangs instead, /readyz says so ("still catching a
\* genuinely hung/panicked loop within a minute", TICK_STALE_THRESHOLD_SECS).
ChangesSeen ==
    /\ [](change = "announced" => permit)
    /\ change = "unannounced" /\ main = "serving"
       ~> change # "unannounced" \/ shutdown \/ main # "serving" \/ ~is_healthy

=============================================================================
