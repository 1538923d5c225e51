----------------------------- MODULE MCScheduler -----------------------------
(***************************************************************************)
(* Instances of Scheduler for TLC: one name, a schedule of two instants, a *)
(* spec with the fields unset that have defaults, and the patches that     *)
(* suspend it, take it up again, and swap Forbid for a starting deadline.  *)
(***************************************************************************)
EXTENDS Scheduler

MCFires == [s \in Schedules |-> {1, 4}]

MCSpecsSent == {[schedule |-> "s", suspend |-> Unset, concurrencyPolicy |-> "Forbid",
                 startingDeadlineSeconds |-> Unset]}

MCPatchesSent == {[suspend |-> TRUE], [suspend |-> Unset],
                  [concurrencyPolicy |-> Unset, startingDeadlineSeconds |-> 1]}

FairSpec == Spec /\ Fairness

=============================================================================
