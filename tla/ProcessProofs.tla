---------------------------- MODULE ProcessProofs ----------------------------
(***************************************************************************)
(* Proofs about the process and its metrics loop, as parts of Services,    *)
(* for every configuration, any migrations, starts, passes, failures and   *)
(* changes, any jobs and addresses: a process that is not killed exits     *)
(* between passes that change cloud resources, and serves no request       *)
(* before prices are cached; what kubectl top shows of a job was measured  *)
(* on its own worker.                                                      *)
(***************************************************************************)
EXTENDS Services, TLAPS

-----------------------------------------------------------------------------
(***************************************************************************)
(* The process.                                                            *)
(***************************************************************************)

\* What the proofs need of the types.
Typed ==
    /\ main \in Proc!Startup \union Proc!UpAndServing \union {"finishing", "exited"}
    /\ caches \subseteq {"plans", "pricing", "rates"}
    /\ signals \in 0 .. 2
    /\ loop \in [Proc!Loops -> {"off", "waiting", "running", "hung", "panicked", "stopped"}]
    /\ part \in 0 .. 3
    /\ failed \subseteq {"plans", "pricing", "rates"}

\* The loops are spawned when startup is over and gone with the process.
LoopsSpawned == main \in Proc!Startup \union {"exited"} => loop = Proc!AllOff

\* The second signal is the last thing the process sees.
SecondIsLast == signals = 2 => main = "exited"

ExitInv == Typed /\ LoopsSpawned /\ SecondIsLast /\ Proc!SafeExit

\* A first sync has filled the caches before the part at hand, or tried to.
Known(c) == c \in caches \/ c \in failed \/ Proc!Skipped(c)

SyncedSoFar ==
    main = "first_sync" =>
        /\ part \in {0, 2, 3} => Known("plans")
        /\ part \in {0, 3} => Known("pricing")
        /\ part = 0 => Known("rates")

PricedAtSeed == main = "seed" => \A c \in {"plans", "pricing", "rates"} : Known(c)

PriceInv == Typed /\ LoopsSpawned /\ SyncedSoFar /\ PricedAtSeed /\ Proc!PricedBeforeServing

-----------------------------------------------------------------------------

\* Whichever service runs, the process takes its own steps or none.
LEMMA ProcessRuns == Spec => Proc!Init /\ [][Proc!Next]_process
PROOF
  <1>1. Init => Proc!Init
    BY DEF Init
  <1>2. [Next]_vars => [Proc!Next]_process
    BY DEF Next, vars
  <1>. QED  BY <1>1, <1>2, PTL DEF Spec

LEMMA InitTyped == Proc!Init => Typed /\ LoopsSpawned
  BY DEF Proc!Init, Typed, LoopsSpawned, Proc!AllOff, Proc!Startup, Proc!Loops

\* The parts of Next, by what they do to main and the loops.
LEMMA StepTyped == ASSUME Typed, LoopsSpawned, [Proc!Next]_process PROVE Typed' /\ LoopsSpawned'
PROOF
  <1> USE DEF Typed, LoopsSpawned, Proc!Startup, Proc!UpAndServing
  <1> USE DEF Proc!dbVars, Proc!procVars, Proc!history
  <1>1. CASE Proc!apply_added_columns \/ Proc!http_drained \/ Proc!finish_triggers
    BY <1>1 DEF Proc!apply_added_columns, Proc!http_drained, Proc!finish_triggers
  <1>2. ASSUME NEW step \in Proc!Startup \union Proc!UpAndServing \union {"finishing"},
               Proc!Goto(step),
               step \in Proc!Startup => loop = Proc!AllOff
        PROVE Typed' /\ LoopsSpawned'
    BY <1>2 DEF Proc!Goto
  <1>3. CASE \/ Proc!init_pool \/ Proc!recover \/ Proc!check_connectivity \/ Proc!own_public_ipv4
             \/ Proc!first_sync_done \/ Proc!certificate_obtained \/ Proc!graceful_shutdown
             \/ Proc!serve_ends
    BY <1>2, <1>3 DEF Proc!init_pool, Proc!recover, Proc!check_connectivity,
                      Proc!own_public_ipv4, Proc!first_sync_done,
                      Proc!certificate_obtained, Proc!graceful_shutdown, Proc!serve_ends,
                      Proc!unless_shutdown
  <1>4. CASE Proc!check_cache
    BY <1>4 DEF Proc!check_cache
  <1>5. CASE Proc!ensure_budget_seeded
    BY <1>5 DEF Proc!ensure_budget_seeded, Proc!Loops
  <1>6. ASSUME Proc!Gone, signals' \in 0 .. 2 PROVE Typed' /\ LoopsSpawned'
    BY <1>6 DEF Proc!Gone, Proc!AllOff
  <1>7. CASE Proc!startup_cut_short \/ Proc!startup_fails \/ Proc!loops_joined
             \/ Proc!drain_times_out \/ Proc!join_fails \/ Proc!crash
    BY <1>6, <1>7 DEF Proc!startup_cut_short, Proc!startup_fails, Proc!loops_joined,
                      Proc!drain_times_out, Proc!join_fails, Proc!crash, Proc!Exit
  <1>8. ASSUME NEW outcome \in {"fills", "nothing", "fails"}, Proc!sync_part(outcome)
        PROVE Typed' /\ LoopsSpawned'
    <2>1. Proc!Caches[part] \in {"plans", "pricing", "rates"}
      BY <1>8 DEF Proc!sync_part, Proc!Caches
    <2>2. /\ caches' \subseteq caches \union {Proc!Caches[part]}
          /\ failed' \subseteq failed \union {Proc!Caches[part]}
      BY <1>8, Zenon DEF Proc!sync_part
    <2>3. part' \in 0 .. 3
      BY <1>8 DEF Proc!sync_part
    <2>. QED
      BY <1>8, <2>1, <2>2, <2>3 DEF Proc!sync_part
  <1>9. ASSUME NEW notified \in BOOLEAN, Proc!wake_tick(notified) PROVE Typed' /\ LoopsSpawned'
    BY <1>9 DEF Proc!wake_tick, Proc!Loops, Proc!AllOff
  <1>10. ASSUME NEW l \in Proc!Loops, Proc!wake(l) PROVE Typed' /\ LoopsSpawned'
    BY <1>10 DEF Proc!wake, Proc!AllOff
  <1>11. ASSUME NEW l \in Proc!Loops, Proc!pass_returns(l) \/ Proc!pass_hangs(l)
         PROVE Typed' /\ LoopsSpawned'
    BY <1>11 DEF Proc!pass_returns, Proc!pass_hangs, Proc!AllOff
  <1>11b. ASSUME NEW l \in Proc!Loops, Proc!pass_panics(l) PROVE Typed' /\ LoopsSpawned'
    <2>1. part' \in 0 .. 3 /\ loop[l] = "running"
      BY <1>11b DEF Proc!pass_panics
    <2>2. loop' \in [Proc!Loops -> {"off", "waiting", "running", "hung", "panicked", "stopped"}]
      BY <1>11b, Zenon DEF Proc!pass_panics
    <2>3. main \notin Proc!Startup \union {"exited"}
      BY <2>1 DEF Proc!AllOff
    <2>. QED  BY <1>11b, <2>1, <2>2, <2>3 DEF Proc!pass_panics
  <1>12. ASSUME NEW l \in Proc!Loops, Proc!stop_loop(l) PROVE Typed' /\ LoopsSpawned'
    BY <1>12 DEF Proc!stop_loop, Proc!AllOff
  <1>13. CASE Proc!tick_goes_stale \/ Proc!change_begins \/ Proc!change_notifies
              \/ Proc!change_dropped
    BY <1>13 DEF Proc!tick_goes_stale, Proc!change_begins, Proc!change_notifies,
                 Proc!change_dropped
  <1>14. CASE Proc!signal
    <2>1. CASE signals = 0
      <3>1. signals' = signals + 1 /\ UNCHANGED <<Proc!dbVars, main, loop, part, failed>>
        BY <1>14, <2>1, Zenon DEF Proc!signal
      <3>. QED  BY <2>1, <3>1
    <2>2. CASE signals # 0
      BY <1>6, <1>14, <2>2 DEF Proc!signal
    <2>. QED  BY <2>1, <2>2
  <1>15. CASE Proc!restart
    BY <1>15 DEF Proc!restart
  <1>16. CASE UNCHANGED process
    BY <1>16 DEF process
  <1>. QED
    BY <1>1, <1>3, <1>4, <1>5, <1>7, <1>8, <1>9, <1>10, <1>11, <1>12, <1>13, <1>14, <1>15, <1>16,
       <1>11b
    DEF Proc!Next, Proc!Main

-----------------------------------------------------------------------------

\* Steps that leave the histories and the signals as they are.
LEMMA Quiet ==
    ASSUME ExitInv, UNCHANGED <<signals, cutOff, cause>>, main = "exited" => main' = "exited"
    PROVE SecondIsLast' /\ Proc!SafeExit'
  BY DEF ExitInv, SecondIsLast, Proc!SafeExit

\* main returns only when no loop is in the middle of a pass, or after the timeout or a panic.
LEMMA StepExit == ASSUME ExitInv, [Proc!Next]_process PROVE ExitInv'
PROOF
  <1>0. Typed' /\ LoopsSpawned'
    BY StepTyped DEF ExitInv
  <1> USE DEF Proc!dbVars, Proc!procVars, Proc!history
  <1>1. CASE \/ Proc!apply_added_columns \/ Proc!http_drained \/ Proc!finish_triggers
             \/ Proc!init_pool \/ Proc!recover
             \/ Proc!check_connectivity \/ Proc!own_public_ipv4 \/ Proc!first_sync_done
             \/ Proc!check_cache
             \/ Proc!certificate_obtained \/ Proc!graceful_shutdown \/ Proc!serve_ends
             \/ Proc!ensure_budget_seeded
    <2>1. UNCHANGED <<signals, cutOff, cause>> /\ main # "exited"
      BY <1>1 DEF Proc!apply_added_columns, Proc!http_drained, Proc!finish_triggers,
                  Proc!init_pool, Proc!recover,
                  Proc!check_connectivity, Proc!own_public_ipv4, Proc!first_sync_done,
                  Proc!check_cache,
                  Proc!certificate_obtained, Proc!graceful_shutdown, Proc!serve_ends,
                  Proc!ensure_budget_seeded,
                  Proc!unless_shutdown, Proc!Goto
    <2>. QED  BY <1>0, <2>1, Quiet DEF ExitInv
  <1>2. CASE \/ Proc!tick_goes_stale \/ Proc!change_begins \/ Proc!change_notifies
             \/ Proc!change_dropped
             \/ (\E outcome \in {"fills", "nothing", "fails"} : Proc!sync_part(outcome))
             \/ (\E notified \in BOOLEAN : Proc!wake_tick(notified))
             \/ (\E l \in Proc!Loops : \/ Proc!wake(l) \/ Proc!pass_returns(l) \/ Proc!pass_hangs(l)
                                     \/ Proc!pass_panics(l))
             \/ UNCHANGED process
    <2>1. UNCHANGED <<main, signals, cutOff, cause>>
      BY <1>2 DEF Proc!tick_goes_stale, Proc!change_begins, Proc!change_notifies,
                  Proc!change_dropped, Proc!sync_part,
                  Proc!wake_tick, Proc!wake, Proc!pass_returns, Proc!pass_hangs,
                  Proc!pass_panics, process
    <2>. QED  BY <1>0, <2>1, Quiet DEF ExitInv
  <1>3. CASE Proc!startup_cut_short \/ Proc!startup_fails
    <2>1. \A l \in Proc!Loops : ~Proc!MidOperation(l)
      BY <1>3 DEF Proc!startup_cut_short, Proc!startup_fails, ExitInv, LoopsSpawned,
                  Proc!Startup, Proc!AllOff,
                  Proc!MidOperation
    <2>2. cutOff' => cutOff
      BY <1>3, <2>1, Zenon DEF Proc!startup_cut_short, Proc!startup_fails, Proc!Exit
    <2>3. UNCHANGED <<signals, cause>> /\ main' = "exited"
      BY <1>3 DEF Proc!startup_cut_short, Proc!startup_fails, Proc!Exit, Proc!Gone
    <2>. QED  BY <1>0, <2>2, <2>3, Zenon DEF ExitInv, SecondIsLast, Proc!SafeExit
  <1>4. CASE Proc!loops_joined
    <2>1. \A l \in Proc!Loops : ~Proc!MidOperation(l)
      BY <1>4 DEF Proc!loops_joined, Proc!MidOperation
    <2>2. cutOff' => cutOff
      BY <1>4, <2>1, Zenon DEF Proc!loops_joined, Proc!Exit
    <2>3. UNCHANGED <<signals, cause>> /\ main' = "exited"
      BY <1>4 DEF Proc!loops_joined, Proc!Exit, Proc!Gone
    <2>. QED  BY <1>0, <2>2, <2>3, Zenon DEF ExitInv, SecondIsLast, Proc!SafeExit
  <1>5. CASE Proc!drain_times_out \/ Proc!join_fails
    BY <1>0, <1>5 DEF Proc!drain_times_out, Proc!join_fails, Proc!Exit, Proc!Gone, ExitInv, SecondIsLast,
                      Proc!SafeExit
  <1>6. CASE Proc!crash
    <2>1. UNCHANGED <<signals, cutOff, cause>> /\ main' = "exited"
      BY <1>6 DEF Proc!crash, Proc!Gone
    <2>. QED  BY <1>0, <2>1, Quiet DEF ExitInv
  <1>7. ASSUME NEW l \in Proc!Loops, Proc!stop_loop(l) PROVE ExitInv'
    <2>1. ~Proc!MidOperation(l)
      BY <1>7 DEF Proc!stop_loop, Proc!MidOperation
    <2>2. cutOff' => cutOff
      BY <1>7, <2>1, Zenon DEF Proc!stop_loop
    <2>3. UNCHANGED <<main, signals, cause>>
      BY <1>7 DEF Proc!stop_loop
    <2>. QED  BY <1>0, <2>2, <2>3, Zenon DEF ExitInv, SecondIsLast, Proc!SafeExit
  <1>8. CASE Proc!signal
    <2>1. signals' = signals + 1 /\ main # "exited" /\ signals < 2
      BY <1>8 DEF Proc!signal
    <2>2. CASE signals = 0
      <3>1. UNCHANGED <<main, cutOff, cause>>
        BY <1>8, <2>2, Zenon DEF Proc!signal
      <3>. QED  BY <1>0, <2>1, <2>2, <3>1 DEF ExitInv, SecondIsLast, Proc!SafeExit
    <2>3. CASE signals # 0
      <3>1. signals' = 2
        BY <2>1, <2>3 DEF ExitInv, Typed
      <3>2. main' = "exited"
        BY <1>8, <2>3 DEF Proc!signal, Proc!Gone
      <3>. QED  BY <1>0, <3>1, <3>2 DEF ExitInv, SecondIsLast, Proc!SafeExit
    <2>. QED  BY <2>2, <2>3
  <1>9. CASE Proc!restart
    BY <1>0, <1>9 DEF Proc!restart, ExitInv, SecondIsLast, Proc!SafeExit
  <1>. QED
    BY <1>1, <1>2, <1>3, <1>4, <1>5, <1>6, <1>7, <1>8, <1>9 DEF Proc!Next, Proc!Main

\* SafeExit for any configuration, migrations, starts, passes and changes: the exits of
\* main never cut off a tick or an orphan scan, but for the timeout, a second signal, and a
\* tick that panicked, whose run() no longer waits for the scan.
THEOREM ExitIsSafe == Spec => []SafeExit
PROOF
  <1>1. Proc!Init => ExitInv
    BY InitTyped DEF Proc!Init, ExitInv, SecondIsLast, Proc!SafeExit
  <1>2. ExitInv /\ [Proc!Next]_process => ExitInv'
    BY StepExit
  <1>3. ExitInv => SafeExit
    BY DEF ExitInv, SafeExit
  <1>. QED  BY <1>1, <1>2, <1>3, ProcessRuns, PTL

-----------------------------------------------------------------------------

\* Where main goes in a step that neither checks nor first fills the caches.
Onward ==
    \/ main' = main /\ (main = "first_sync" => part' = part)
    \/ main' \notin {"first_sync", "seed"} \union Proc!UpAndServing
    \/ main' \in Proc!UpAndServing /\ main \in Proc!UpAndServing \union {"seed"}

\* A cache that is filled, or was asked for in vain, stays so until a restart.
LEMMA Elsewhere ==
    ASSUME PriceInv, Onward,
           \A c \in {"plans", "pricing", "rates"} : Known(c) => Known(c)'
    PROVE SyncedSoFar' /\ PricedAtSeed' /\ Proc!PricedBeforeServing'
PROOF
  <1>2. SyncedSoFar'
    <2>. SUFFICES ASSUME main' = "first_sync" PROVE SyncedSoFar'
      BY Zenon DEF SyncedSoFar
    <2>1. main = "first_sync" /\ part' = part
      BY DEF Onward, Proc!UpAndServing
    <2>2. /\ part \in {0, 2, 3} => Known("plans")'
          /\ part \in {0, 3} => Known("pricing")'
          /\ part = 0 => Known("rates")'
      BY <2>1, Zenon DEF PriceInv, SyncedSoFar
    <2>. QED  BY <2>1, <2>2, Zenon DEF SyncedSoFar
  <1>3. PricedAtSeed'
    <2>. SUFFICES ASSUME main' = "seed"
                  PROVE \A c \in {"plans", "pricing", "rates"} : Known(c)'
      BY Zenon DEF PricedAtSeed
    <2>1. main = "seed"
      BY DEF Onward, Proc!UpAndServing
    <2>. QED  BY <2>1, Zenon DEF PriceInv, PricedAtSeed
  <1>4. Proc!PricedBeforeServing'
    <2>. SUFFICES ASSUME main' \in Proc!UpAndServing
                  PROVE \A c \in {"plans", "pricing", "rates"} : Known(c)'
      BY Zenon DEF Proc!PricedBeforeServing, Known
    <2>1. main \in Proc!UpAndServing \/ main = "seed"
      BY DEF Onward, Proc!UpAndServing
    <2>2. \A c \in {"plans", "pricing", "rates"} : Known(c)
      BY <2>1, Zenon DEF PriceInv, PricedAtSeed, Proc!PricedBeforeServing, Known
    <2>. QED  BY <2>2, Zenon
  <1>. QED  BY <1>2, <1>3, <1>4, Zenon

\* The caches and what was asked for are as they were.
LEMMA SameCaches ==
    ASSUME PriceInv, UNCHANGED <<config, caches, failed>>, Onward
    PROVE SyncedSoFar' /\ PricedAtSeed' /\ Proc!PricedBeforeServing'
PROOF
  <1>1. caches' = caches /\ failed' = failed /\ config' = config
    OBVIOUS
  <1>2. \A c \in {"plans", "pricing", "rates"} : Known(c) => Known(c)'
    BY <1>1, Zenon DEF Known, Proc!Skipped
  <1>. QED  BY <1>2, Elsewhere, Zenon

\* One part of the pricing sync, in first_sync or in the loop: what it asks for is
\* known afterwards, even if a table is emptied, and the rest stays known.
LEMMA PartPrice ==
    ASSUME PriceInv, NEW outcome \in {"fills", "nothing", "fails"}, Proc!sync_part(outcome)
    PROVE SyncedSoFar' /\ PricedAtSeed' /\ Proc!PricedBeforeServing'
PROOF
  <1>1. main' = main /\ config' = config /\ part' = (part + 1) % 4 /\ part \in 1 .. 3
    BY DEF Proc!sync_part
  <1>. PICK asked : asked = Proc!Caches[part]
    OBVIOUS
  <1>2. asked \in caches' \/ asked \in failed' \/ Proc!Skipped(asked)
    BY Zenon DEF Proc!sync_part
  <1>3. \A c : /\ c \in caches /\ c # asked => c \in caches'
               /\ c \in failed /\ c # asked => c \in failed'
    BY Zenon DEF Proc!sync_part
  <1>4. \A c : Proc!Skipped(c)' <=> Proc!Skipped(c)
    BY <1>1, Zenon DEF Proc!Skipped
  <1>5. Known(asked)' /\ \A c \in {"plans", "pricing", "rates"} : Known(c) => Known(c)'
    BY <1>2, <1>3, <1>4, Zenon DEF Known
  <1>6. CASE main # "first_sync"
    <2>1. Onward
      BY <1>1, <1>6, Zenon DEF Onward
    <2>. QED  BY <1>5, <2>1, Elsewhere, Zenon
  <1>7. CASE main = "first_sync"
    <2>3. CASE part = 1
      <3>1. part' = 2 /\ asked = "plans"
        BY <1>1, <2>3 DEF Proc!Caches
      <3>2. Known("plans")'
        BY <1>5, <3>1, Zenon
      <3>. QED  BY <1>1, <1>7, <3>1, <3>2 DEF SyncedSoFar, PricedAtSeed, Proc!PricedBeforeServing,
                Proc!UpAndServing
    <2>4. CASE part = 2
      <3>1. part' = 3 /\ asked = "pricing"
        BY <1>1, <2>4 DEF Proc!Caches
      <3>2. Known("plans")
        BY <1>7, <2>4, Zenon DEF PriceInv, SyncedSoFar
      <3>3. Known("plans")' /\ Known("pricing")'
        BY <1>5, <3>1, <3>2, Zenon
      <3>. QED  BY <1>1, <1>7, <3>1, <3>3 DEF SyncedSoFar, PricedAtSeed, Proc!PricedBeforeServing,
                Proc!UpAndServing
    <2>5. CASE part = 3
      <3>1. part' = 0 /\ asked = "rates"
        BY <1>1, <2>5 DEF Proc!Caches
      <3>2. Known("plans") /\ Known("pricing")
        BY <1>7, <2>5, Zenon DEF PriceInv, SyncedSoFar
      <3>3. Known("plans")' /\ Known("pricing")' /\ Known("rates")'
        BY <1>5, <3>1, <3>2, Zenon
      <3>. QED  BY <1>1, <1>7, <3>1, <3>3 DEF SyncedSoFar, PricedAtSeed, Proc!PricedBeforeServing,
                Proc!UpAndServing
    <2>. QED  BY <1>1, <2>3, <2>4, <2>5
  <1>. QED  BY <1>6, <1>7

LEMMA StepPrice == ASSUME PriceInv, [Proc!Next]_process PROVE PriceInv'
PROOF
  <1>0. Typed' /\ LoopsSpawned'
    BY StepTyped DEF PriceInv
  <1>. SUFFICES SyncedSoFar' /\ PricedAtSeed' /\ Proc!PricedBeforeServing'
    BY <1>0, Zenon DEF PriceInv
  <1> USE DEF Proc!dbVars, Proc!procVars, Proc!history
  <1>1. CASE \/ Proc!apply_added_columns \/ Proc!http_drained \/ Proc!finish_triggers
             \/ Proc!init_pool \/ Proc!recover
             \/ Proc!check_connectivity \/ Proc!own_public_ipv4
             \/ Proc!certificate_obtained \/ Proc!graceful_shutdown \/ Proc!serve_ends
             \/ Proc!ensure_budget_seeded
    <2>1. /\ UNCHANGED <<config, caches, failed>>
          /\ \/ main' = main /\ part' = part
             \/ main' \notin {"first_sync", "seed", "certificate", "serving", "draining"}
             \/ /\ main' \in {"certificate", "serving", "draining"}
                /\ main \in {"certificate", "serving", "draining", "seed"}
      BY <1>1 DEF Proc!apply_added_columns, Proc!http_drained, Proc!finish_triggers,
                  Proc!init_pool, Proc!recover,
                  Proc!check_connectivity, Proc!own_public_ipv4,
                  Proc!certificate_obtained, Proc!graceful_shutdown, Proc!serve_ends,
                  Proc!ensure_budget_seeded,
                  Proc!unless_shutdown, Proc!Goto
    <2>2. Onward
      BY <2>1 DEF Onward, Proc!UpAndServing
    <2>. QED  BY <1>0, <2>1, <2>2, SameCaches, Zenon
  <1>2. CASE Proc!check_cache
    <2>1. CASE Proc!has_cached_pricing
      <3>1. main' = "seed" /\ caches' = {"plans", "pricing", "rates"}
        BY <1>2, <2>1 DEF Proc!check_cache, Proc!has_cached_pricing
      <3>2. \A c \in {"plans", "pricing", "rates"} : Known(c)'
        BY <3>1, Zenon DEF Known
      <3>. QED
        BY <3>1, <3>2 DEF SyncedSoFar, PricedAtSeed, Proc!PricedBeforeServing,
                Proc!UpAndServing
    <2>2. CASE ~Proc!has_cached_pricing
      <3>1. main' = "first_sync" /\ part' = 1
        BY <1>2, <2>2 DEF Proc!check_cache
      <3>. QED
        BY <3>1 DEF SyncedSoFar, PricedAtSeed, Proc!PricedBeforeServing,
                Proc!UpAndServing
    <2>. QED  BY <2>1, <2>2
  <1>3. CASE Proc!first_sync_done
    <2>1. main = "first_sync" /\ part = 0 /\ main' = "seed" /\ UNCHANGED <<config, caches, failed>>
      BY <1>3 DEF Proc!first_sync_done, Proc!unless_shutdown, Proc!Goto
    <2>2. \A c \in {"plans", "pricing", "rates"} : Known(c)
      BY <2>1 DEF PriceInv, SyncedSoFar
    <2>3. caches' = caches /\ failed' = failed /\ config' = config
      BY <2>1
    <2>4. \A c \in {"plans", "pricing", "rates"} : Known(c)'
      BY <2>2, <2>3, Zenon DEF Known, Proc!Skipped
    <2>. QED  BY <2>1, <2>4 DEF SyncedSoFar, PricedAtSeed, Proc!PricedBeforeServing,
                                Proc!UpAndServing
  <1>4. ASSUME NEW outcome \in {"fills", "nothing", "fails"}, Proc!sync_part(outcome)
        PROVE SyncedSoFar' /\ PricedAtSeed' /\ Proc!PricedBeforeServing'
    BY <1>0, <1>4, PartPrice
  <1>5. CASE Proc!startup_cut_short \/ Proc!startup_fails \/ Proc!loops_joined
             \/ Proc!drain_times_out \/ Proc!join_fails \/ Proc!crash
    <2>1. main' = "exited"
      BY <1>5 DEF Proc!startup_cut_short, Proc!startup_fails, Proc!loops_joined,
                  Proc!drain_times_out, Proc!join_fails, Proc!crash, Proc!Exit, Proc!Gone
    <2>. QED
      BY <2>1 DEF SyncedSoFar, PricedAtSeed, Proc!PricedBeforeServing, Proc!UpAndServing
  <1>6. CASE \/ Proc!tick_goes_stale \/ Proc!change_begins \/ Proc!change_notifies
             \/ Proc!change_dropped
             \/ (\E notified \in BOOLEAN : Proc!wake_tick(notified))
             \/ (\E l \in Proc!Loops : Proc!pass_returns(l) \/ Proc!pass_hangs(l))
             \/ UNCHANGED process
    <2>1. main' = main /\ part' = part /\ UNCHANGED <<config, caches, failed>>
      BY <1>6 DEF Proc!tick_goes_stale, Proc!change_begins, Proc!change_notifies,
                  Proc!change_dropped,
                  Proc!wake_tick, Proc!pass_returns, Proc!pass_hangs, process
    <2>2. Onward
      BY <2>1, Zenon DEF Onward
    <2>. QED  BY <1>0, <2>1, <2>2, SameCaches, Zenon
  <1>7. ASSUME NEW l \in Proc!Loops, Proc!wake(l) \/ Proc!pass_panics(l) \/ Proc!stop_loop(l)
        PROVE SyncedSoFar' /\ PricedAtSeed' /\ Proc!PricedBeforeServing'
    <2>1. main' = main /\ UNCHANGED <<config, caches, failed>> /\ loop[l] # "off"
      BY <1>7 DEF Proc!wake, Proc!pass_panics, Proc!stop_loop
    <2>2. main # "first_sync"
      BY <2>1 DEF PriceInv, LoopsSpawned, Proc!AllOff, Proc!Startup
    <2>3. Onward
      BY <2>1, <2>2, Zenon DEF Onward
    <2>. QED  BY <1>0, <2>1, <2>3, SameCaches, Zenon
  <1>8. CASE Proc!signal
    <2>1. UNCHANGED <<config, caches, failed>>
      BY <1>8 DEF Proc!signal, Proc!Gone
    <2>2. (main' = main /\ part' = part) \/ main' = "exited"
      BY <1>8, Zenon DEF Proc!signal, Proc!Gone
    <2>3. Onward
      BY <2>2 DEF Onward, Proc!UpAndServing
    <2>. QED  BY <1>0, <2>1, <2>3, SameCaches, Zenon
  <1>9. CASE Proc!restart
    <2>1. main' = "migrate"
      BY <1>9 DEF Proc!restart
    <2>. QED  BY <2>1 DEF SyncedSoFar, PricedAtSeed, Proc!PricedBeforeServing, Proc!UpAndServing
  <1>. QED
    BY <1>1, <1>2, <1>3, <1>4, <1>5, <1>6, <1>7, <1>8, <1>9 DEF Proc!Next, Proc!Main

\* PricedBeforeServing for any configuration and any number of crashes, shutdowns and
\* failures: a first sync cut short is seen by has_cached_pricing and done again.
THEOREM PricesComeFirst == Spec => []PricedBeforeServing
PROOF
  <1>1. Proc!Init => PriceInv
    BY InitTyped DEF Proc!Init, PriceInv, SyncedSoFar, PricedAtSeed, Proc!PricedBeforeServing,
                     Proc!UpAndServing
  <1>2. PriceInv /\ [Proc!Next]_process => PriceInv'
    BY StepPrice
  <1>3. PriceInv => PricedBeforeServing
    BY DEF PriceInv, PricedBeforeServing
  <1>. QED  BY <1>1, <1>2, <1>3, ProcessRuns, PTL

-----------------------------------------------------------------------------

\* The rest of the types: what the database and the bounded counters hold, and the flags.
Counted ==
    /\ config \in Configs /\ columns \in 0 .. Len(Columns)
    /\ change \in {"none", "writing", "announced", "unannounced"}
    /\ health \in {"fresh", "stale"}
    /\ starts \in 1 .. MaxStarts /\ passes \in 0 .. MaxPasses /\ changes \in 0 .. MaxChanges
Flagged ==
    /\ shutdown \in BOOLEAN /\ permit \in BOOLEAN
    /\ cutOff \in BOOLEAN /\ cause \in {"none", "timeout", "panic"}

LEMMA StepCounted == ASSUME Counted, Typed, [Proc!Next]_process PROVE Counted'
PROOF
  <1> USE BoundsAssumption, ColumnsAssumption DEF Counted
  <1> USE DEF Proc!dbVars, Proc!procVars, Proc!history
  <1>1. CASE Proc!apply_added_columns \/ Proc!http_drained \/ Proc!finish_triggers
    BY <1>1 DEF Proc!apply_added_columns, Proc!http_drained, Proc!finish_triggers, Proc!Orphaned
  <1>2. CASE \/ Proc!init_pool \/ Proc!recover \/ Proc!check_connectivity \/ Proc!own_public_ipv4
             \/ Proc!first_sync_done \/ Proc!certificate_obtained \/ Proc!graceful_shutdown
             \/ Proc!serve_ends
    BY <1>2 DEF Proc!init_pool, Proc!recover, Proc!check_connectivity,
                Proc!own_public_ipv4, Proc!first_sync_done,
                Proc!certificate_obtained, Proc!graceful_shutdown, Proc!serve_ends,
                Proc!unless_shutdown, Proc!Goto
  <1>3. CASE Proc!check_cache \/ Proc!ensure_budget_seeded
    BY <1>3 DEF Proc!check_cache, Proc!ensure_budget_seeded
  <1>4. ASSUME Proc!Gone PROVE Counted'
    BY <1>4 DEF Proc!Gone, Proc!Orphaned
  <1>5. CASE Proc!startup_cut_short \/ Proc!startup_fails \/ Proc!loops_joined
             \/ Proc!drain_times_out \/ Proc!join_fails \/ Proc!crash
    BY <1>4, <1>5 DEF Proc!startup_cut_short, Proc!startup_fails, Proc!loops_joined,
                      Proc!drain_times_out, Proc!join_fails, Proc!crash, Proc!Exit
  <1>6. ASSUME NEW outcome \in {"fills", "nothing", "fails"}, Proc!sync_part(outcome) PROVE Counted'
    BY <1>6 DEF Proc!sync_part
  <1>7. ASSUME NEW notified \in BOOLEAN, Proc!wake_tick(notified) PROVE Counted'
    BY <1>7 DEF Proc!wake_tick
  <1>8. ASSUME NEW l \in Proc!Loops,
               \/ Proc!wake(l) \/ Proc!pass_returns(l) \/ Proc!pass_hangs(l)
               \/ Proc!pass_panics(l) \/ Proc!stop_loop(l)
        PROVE Counted'
    BY <1>8 DEF Proc!wake, Proc!pass_returns, Proc!pass_hangs, Proc!pass_panics, Proc!stop_loop
  <1>9. CASE Proc!tick_goes_stale \/ Proc!change_begins \/ Proc!change_notifies
             \/ Proc!change_dropped
    BY <1>9 DEF Proc!tick_goes_stale, Proc!change_begins, Proc!change_notifies,
                Proc!change_dropped
  <1>10. CASE Proc!signal
    <2>1. starts' = starts /\ passes' = passes
      BY <1>10 DEF Proc!signal
    <2>2. CASE signals = 0
      <3>1. UNCHANGED <<Proc!dbVars, health, failed>>
        BY <1>10, <2>2, Zenon DEF Proc!signal
      <3>. QED  BY <2>1, <3>1
    <2>3. CASE signals # 0
      BY <1>4, <1>10, <2>3 DEF Proc!signal
    <2>. QED  BY <2>2, <2>3
  <1>11. CASE Proc!restart
    BY <1>11 DEF Proc!restart
  <1>12. CASE UNCHANGED process
    BY <1>12 DEF process
  <1>. QED
    BY <1>1, <1>2, <1>3, <1>5, <1>6, <1>7, <1>8, <1>9, <1>10, <1>11, <1>12
    DEF Proc!Next, Proc!Main

LEMMA StepFlagged == ASSUME Flagged, [Proc!Next]_process PROVE Flagged'
PROOF
  <1> USE DEF Flagged, Proc!procVars, Proc!history
  <1>1. CASE Proc!apply_added_columns \/ Proc!http_drained \/ Proc!finish_triggers
    BY <1>1, Zenon DEF Proc!apply_added_columns, Proc!http_drained, Proc!finish_triggers
  <1>2. ASSUME NEW step, Proc!Goto(step) PROVE Flagged'
    BY <1>2, Zenon DEF Proc!Goto
  <1>3. CASE \/ Proc!init_pool \/ Proc!recover \/ Proc!check_connectivity \/ Proc!own_public_ipv4
             \/ Proc!first_sync_done \/ Proc!certificate_obtained \/ Proc!graceful_shutdown
             \/ Proc!serve_ends
    BY <1>2, <1>3, Zenon DEF Proc!init_pool, Proc!recover, Proc!check_connectivity,
                Proc!own_public_ipv4, Proc!first_sync_done,
                Proc!certificate_obtained, Proc!graceful_shutdown, Proc!serve_ends,
                Proc!unless_shutdown
  <1>4. CASE Proc!check_cache \/ Proc!ensure_budget_seeded
    BY <1>4, Zenon DEF Proc!check_cache, Proc!ensure_budget_seeded
  <1>5. ASSUME Proc!Exit, cause' \in {"none", "timeout", "panic"} PROVE Flagged'
    BY <1>5, Zenon DEF Proc!Exit, Proc!Gone
  <1>6. CASE Proc!startup_cut_short \/ Proc!startup_fails \/ Proc!loops_joined
             \/ Proc!drain_times_out \/ Proc!join_fails
    BY <1>5, <1>6, Zenon DEF Proc!startup_cut_short, Proc!startup_fails, Proc!loops_joined,
                             Proc!drain_times_out, Proc!join_fails
  <1>7. CASE Proc!crash
    BY <1>7, Zenon DEF Proc!crash, Proc!Gone
  <1>8. ASSUME NEW outcome \in {"fills", "nothing", "fails"}, Proc!sync_part(outcome) PROVE Flagged'
    BY <1>8, Zenon DEF Proc!sync_part
  <1>9. ASSUME NEW notified \in BOOLEAN, Proc!wake_tick(notified) PROVE Flagged'
    BY <1>9, Zenon DEF Proc!wake_tick
  <1>10. ASSUME NEW l \in Proc!Loops,
                \/ Proc!wake(l) \/ Proc!pass_returns(l) \/ Proc!pass_hangs(l)
                \/ Proc!pass_panics(l) \/ Proc!stop_loop(l)
         PROVE Flagged'
    BY <1>10, Zenon DEF Proc!wake, Proc!pass_returns, Proc!pass_hangs, Proc!pass_panics,
                        Proc!stop_loop
  <1>11. CASE Proc!tick_goes_stale \/ Proc!change_begins \/ Proc!change_notifies
              \/ Proc!change_dropped
    BY <1>11, Zenon DEF Proc!tick_goes_stale, Proc!change_begins, Proc!change_notifies,
                        Proc!change_dropped
  <1>12. CASE Proc!signal
    <2>1. CASE signals = 0
      <3>1. shutdown' = TRUE /\ UNCHANGED <<permit, Proc!history>>
        BY <1>12, <2>1, Zenon DEF Proc!signal
      <3>. QED  BY <3>1, Zenon
    <2>2. CASE signals # 0
      BY <1>12, <2>2, Zenon DEF Proc!signal, Proc!Gone
    <2>. QED  BY <2>1, <2>2
  <1>13. CASE Proc!restart
    BY <1>13, Zenon DEF Proc!restart
  <1>14. CASE UNCHANGED process
    BY <1>14, Zenon DEF process
  <1>. QED
    BY <1>1, <1>3, <1>4, <1>6, <1>7, <1>8, <1>9, <1>10, <1>11, <1>12, <1>13, <1>14
    DEF Proc!Next, Proc!Main

\* The state of the process is well typed: in particular the part of a sync at hand stays
\* one of the three, whichever of first_sync and the loop is at it.
LEMMA ProcessTyped == Spec => []Proc!TypeOK
PROOF
  <1> DEFINE Inv == Typed /\ LoopsSpawned /\ Counted /\ Flagged
  <1>1. Proc!Init => Inv
    <2>1. Proc!Init => Counted
      BY BoundsAssumption, ColumnsAssumption DEF Proc!Init, Counted
    <2>2. Proc!Init => Flagged
      BY Zenon DEF Proc!Init, Flagged
    <2>. QED  BY <2>1, <2>2, InitTyped
  <1>2. Inv /\ [Proc!Next]_process => Inv'
    BY StepTyped, StepCounted, StepFlagged
  <1>3. Inv => Proc!TypeOK
    BY DEF Typed, Counted, Flagged, Proc!TypeOK
  <1>. QED  BY <1>1, <1>2, <1>3, ProcessRuns, PTL

-----------------------------------------------------------------------------
(***************************************************************************)
(* Worker metrics.  The samples alone do not say why they are the job's    *)
(* own: a sample is right because the task that wrote it asked the address *)
(* of its job's row, and as long as the job is not over that address is    *)
(* the job's own.  OwnAddress and TasksAsk say so.                         *)
(***************************************************************************)

Up == {"VMRunning", "ContainerRunning"}

\* A job that runs has its own worker at its address; one that has none yet, none.
OwnAddress ==
    \A j \in Jobs : /\ jobs[j].status \in Up =>
                          jobs[j].ip \in Addresses /\ machines[jobs[j].ip] = j
                    /\ jobs[j].status = "VMPending" => jobs[j].ip = None

\* A task asks the address of its job's row, and has an answer from the job's own
\* worker unless the job is over.
TasksAsk ==
    \A j \in Jobs : tasks[j] # Met!NoTask =>
        /\ jobs[j].status # "VMPending"
        /\ tasks[j].at = "ssh" => tasks[j].ip \in Addresses /\ tasks[j].ip = jobs[j].ip
        /\ tasks[j].at = "upsert" => tasks[j].sample \in Met!Samples
        /\ tasks[j].at = "upsert" /\ jobs[j].status \in Up => tasks[j].sample.of = j

\* The same of a row of worker_metrics.
RowsOwn ==
    \A j \in Jobs : worker_metrics[j] # None =>
        /\ jobs[j].status # "VMPending"
        /\ jobs[j].status \in Up => worker_metrics[j].of = j

MetricsInv == Met!TypeOK /\ OwnAddress /\ TasksAsk /\ RowsOwn

-----------------------------------------------------------------------------

\* Whichever service runs, the poll and the jobs take their own steps or none.
LEMMA MetricsRun == Spec => Met!Init /\ [][Met!Next]_metrics
PROOF
  <1>1. Init => Met!Init
    BY DEF Init
  <1>2. [Next]_vars => [Met!Next]_metrics
    BY DEF Next, vars
  <1>. QED  BY <1>1, <1>2, PTL DEF Spec

\* The states in which a job is not over, of those the module tells apart.
LEMMA NotOver ==
    \A s \in Met!Seen \union {"deleted"} :
        s # "deleted" /\ Met!is_pre_completion_state(s) <=> s \in Up \union {"VMPending"}
PROOF
  <1>1. DOMAIN Met!STATE_SEQUENCE = 1 .. 18
    BY DEF Met!STATE_SEQUENCE
  <1>2. /\ \A i \in 1 .. 18 : Met!STATE_SEQUENCE[i] = "VMPending" <=> i = 5
        /\ \A i \in 1 .. 18 : Met!STATE_SEQUENCE[i] = "VMRunning" <=> i = 9
        /\ \A i \in 1 .. 18 : Met!STATE_SEQUENCE[i] = "ContainerRunning" <=> i = 13
        /\ \A i \in 1 .. 18 : Met!STATE_SEQUENCE[i] = "Succeeded" <=> i = 14
        /\ \A i \in 1 .. 18 : Met!STATE_SEQUENCE[i] = "Archived" <=> i = 18
    BY SMTT(30) DEF Met!STATE_SEQUENCE
  <1>3. /\ Met!Position("VMPending") = 5 /\ Met!Position("VMRunning") = 9
        /\ Met!Position("ContainerRunning") = 13 /\ Met!Position("Succeeded") = 14
        /\ Met!Position("Archived") = 18
    BY <1>1, <1>2, SMTT(30) DEF Met!Position
  <1>4. Met!Seen \subseteq Met!Statuses \ {"Failed"}
    BY <1>1, <1>2, SMTT(30) DEF Met!Seen, Met!Statuses
  <1>. QED
    BY <1>3, <1>4 DEF Met!is_pre_completion_state, Met!Seen, Up

LEMMA InitMetrics == Met!Init => MetricsInv
  BY NoneAssumption DEF Met!Init, MetricsInv, Met!TypeOK, OwnAddress, TasksAsk, RowsOwn, Up, Met!Seen,
         Met!NoTask, Met!Samples

\* Every step of a job or of the poll keeps MetricsInv: what a task asked stays its job's
\* address, and a machine leaves its address only when its job is over.
LEMMA StepMetrics ==
    ASSUME MetricsInv, [Met!Next]_metrics
    PROVE MetricsInv'
PROOF
  <1> USE DEF MetricsInv
  <1>0. /\ \A j \in Jobs : Met!Current(j) <=> jobs[j].status \in Up \union {"VMPending"}
    BY NotOver DEF Met!Current, Met!HasRow, Met!TypeOK
  <1>1. ASSUME NEW j \in Jobs, NEW a \in Addresses, Met!worker_up(j, a) PROVE MetricsInv'
    <2>1. Met!TypeOK'
      BY <1>1 DEF Met!worker_up, Met!OnlyJobs, Met!TypeOK, Met!Seen
    <2>2. OwnAddress'
      BY NoneAssumption, <1>1 DEF Met!worker_up, Met!OnlyJobs, Met!TypeOK, OwnAddress, Up, Met!Seen
    <2>3. TasksAsk' /\ RowsOwn'
      BY <1>1 DEF Met!worker_up, Met!OnlyJobs, Met!TypeOK, TasksAsk, RowsOwn, Up
    <2>. QED  BY <2>1, <2>2, <2>3
  <1>2. ASSUME NEW j \in Jobs, Met!container_starts(j) PROVE MetricsInv'
    BY <1>2 DEF Met!container_starts, Met!OnlyJobs, Met!TypeOK, OwnAddress, TasksAsk, RowsOwn,
                Up, Met!Seen
  <1>3. ASSUME NEW j \in Jobs, Met!job_completes(j) PROVE MetricsInv'
    BY <1>3 DEF Met!job_completes, Met!OnlyJobs, Met!TypeOK, OwnAddress, TasksAsk, RowsOwn, Up,
                Met!Seen
  <1>4. ASSUME NEW j \in Jobs, Met!worker_deleted(j) PROVE MetricsInv'
    <2>1. Met!TypeOK'
      BY <1>4 DEF Met!worker_deleted, Met!OnlyJobs, Met!TypeOK, Met!Seen
    <2>2. OwnAddress'
      BY <1>4 DEF Met!worker_deleted, Met!OnlyJobs, Met!TypeOK, OwnAddress, Up, Met!Seen
    <2>3. TasksAsk' /\ RowsOwn'
      BY <1>4 DEF Met!worker_deleted, Met!OnlyJobs, Met!TypeOK, TasksAsk, RowsOwn, Up
    <2>. QED  BY <2>1, <2>2, <2>3
  <1>5. ASSUME NEW j \in Jobs, Met!delete_row(j) PROVE MetricsInv'
    BY <1>5 DEF Met!delete_row, Met!OnlyJobs, Met!TypeOK, OwnAddress, TasksAsk, RowsOwn, Up,
                Met!Seen
  <1>6. CASE Met!find_stale
    BY <1>6 DEF Met!find_stale, Met!TypeOK, OwnAddress, TasksAsk, RowsOwn
  <1>7. ASSUME NEW j \in Jobs, Met!forget_stale(j) PROVE MetricsInv'
    BY <1>7 DEF Met!forget_stale, Met!TypeOK, OwnAddress, TasksAsk, RowsOwn
  <1>8. CASE Met!spawn_tasks
    <2>1. Met!TypeOK'
      BY <1>8 DEF Met!spawn_tasks, Met!TypeOK, Met!NoTask
    <2>2. OwnAddress' /\ RowsOwn'
      BY <1>8 DEF Met!spawn_tasks, OwnAddress, RowsOwn
    <2>3. TasksAsk'
      BY <1>0, <1>8 DEF Met!spawn_tasks, Met!TypeOK, OwnAddress, TasksAsk, Met!NoTask, Up
    <2>. QED  BY <2>1, <2>2, <2>3
  <1>9. ASSUME NEW j \in Jobs, NEW n \in 0 .. 6, Met!ssh_answers(j, n) PROVE MetricsInv'
    <2>1. tasks[j].ip \in Addresses /\ tasks[j].ip = jobs[j].ip /\ jobs[j].status # "VMPending"
      BY <1>9 DEF Met!ssh_answers, TasksAsk, Met!NoTask
    <2>2. machines[tasks[j].ip] \in Jobs
      BY <1>9, <2>1 DEF Met!ssh_answers, Met!exec_once, Met!TypeOK
    <2>3. /\ Met!parse_sample(machines[tasks[j].ip], n) \in Met!Samples
          /\ Met!parse_sample(machines[tasks[j].ip], n).of = machines[tasks[j].ip]
      BY <1>9, <2>2 DEF Met!ssh_answers, Met!exec_once, Met!parse_sample,
                        Met!parse_podman_stats, Met!parse_vm_stats, Met!Samples
    <2>4. jobs[j].status \in Up => machines[tasks[j].ip] = j
      BY <2>1 DEF OwnAddress
    <2>5. Met!TypeOK'
      BY <1>9, <2>3 DEF Met!ssh_answers, Met!exec_once, Met!TypeOK
    <2>6. OwnAddress' /\ RowsOwn'
      BY <1>9 DEF Met!ssh_answers, OwnAddress, RowsOwn
    <2>7. TasksAsk'
      BY <1>9, <2>1, <2>3, <2>4 DEF Met!ssh_answers, Met!exec_once, Met!TypeOK, TasksAsk
    <2>. QED  BY <2>5, <2>6, <2>7
  <1>10. ASSUME NEW j \in Jobs, Met!ssh_fails(j) PROVE MetricsInv'
    <2>1. Met!TypeOK'
      BY <1>10 DEF Met!ssh_fails, Met!TypeOK, Met!NoTask
    <2>. QED
      BY <1>10, <2>1 DEF Met!ssh_fails, Met!TypeOK, OwnAddress, TasksAsk, RowsOwn
  <1>11. ASSUME NEW j \in Jobs, Met!upsert_sample(j) PROVE MetricsInv'
    <2>1. /\ tasks[j].sample \in Met!Samples /\ jobs[j].status # "VMPending"
          /\ jobs[j].status \in Up => tasks[j].sample.of = j
      BY <1>11 DEF Met!upsert_sample, TasksAsk, Met!NoTask
    <2>2. Met!TypeOK'
      BY <1>11, <2>1 DEF Met!upsert_sample, Met!TypeOK, Met!NoTask
    <2>3. OwnAddress' /\ TasksAsk'
      BY <1>11 DEF Met!upsert_sample, Met!TypeOK, OwnAddress, TasksAsk
    <2>4. RowsOwn'
      BY <1>11, <2>1 DEF Met!upsert_sample, Met!TypeOK, RowsOwn
    <2>. QED  BY <2>2, <2>3, <2>4
  <1>12. CASE Met!finish_poll
    BY <1>12 DEF Met!finish_poll, Met!TypeOK, OwnAddress, TasksAsk, RowsOwn
  <1>13. CASE UNCHANGED metrics
    BY <1>13 DEF metrics, Met!TypeOK, OwnAddress, TasksAsk, RowsOwn
  <1>. QED
    BY <1>1, <1>2, <1>3, <1>4, <1>5, <1>6, <1>7, <1>8, <1>9, <1>10, <1>11, <1>12, <1>13
    DEF Met!Next, Met!PollStep

\* ServedIsOwn for any number of jobs and addresses: kubectl top never shows a job what
\* was measured on another job's worker, or on one that is gone.
THEOREM ServedOwn == Spec => []ServedIsOwn
PROOF
  <1>1. Met!Init => MetricsInv
    BY InitMetrics
  <1>2. MetricsInv /\ [Met!Next]_metrics => MetricsInv'
    BY StepMetrics
  <1>3. MetricsInv => ServedIsOwn
    <2>. SUFFICES ASSUME MetricsInv, NEW j \in Met!real_worker_samples
                  PROVE worker_metrics[j].of = j /\ machines[jobs[j].ip] = j
      BY DEF ServedIsOwn, Met!ServedIsOwn
    <2>1. j \in Jobs /\ worker_metrics[j] # None /\ Met!Current(j)
      BY DEF Met!real_worker_samples
    <2>2. jobs[j].status \in Up
      BY <2>1, NotOver DEF MetricsInv, Met!TypeOK, RowsOwn, Met!Current, Met!HasRow
    <2>. QED
      BY <2>1, <2>2 DEF MetricsInv, OwnAddress, RowsOwn
  <1>. QED  BY <1>1, <1>2, <1>3, MetricsRun, PTL

=============================================================================
