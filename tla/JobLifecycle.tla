---------------------------- MODULE JobLifecycle ----------------------------
(***************************************************************************)
(* What kube-shim promises about a Job, without machines, volumes, ticks   *)
(* or tables: a Job is admitted, runs or fails before it ran, finishes     *)
(* once and for all, and is cleaned up in the end.  Reconciler implements  *)
(* it (Views, run progress).                                               *)
(***************************************************************************)
CONSTANT Jobs

VARIABLES
    phase,    \* the Pod phase a client sees, "none" before the Job exists
    archived  \* the Jobs whose resources have been given back

vars == <<phase, archived>>

Finished == {"Succeeded", "Failed"}

Init ==
    /\ phase = [j \in Jobs |-> "none"]
    /\ archived = {}

Becomes(j, from, to) ==
    /\ phase[j] \in from
    /\ phase' = [phase EXCEPT ![j] = to]
    /\ UNCHANGED archived

Submit(j) == Becomes(j, {"none"}, "Pending")
Start(j) == Becomes(j, {"Pending"}, "Running")

\* Only a Job that has run can succeed; one that has not can only fail.
Succeed(j) == Becomes(j, {"Running"}, "Succeeded")
Fail(j) == Becomes(j, {"Pending", "Running"}, "Failed")

Archive(j) ==
    /\ phase[j] \in Finished
    /\ j \notin archived
    /\ archived' = archived \union {j}
    /\ UNCHANGED phase

Next ==
    \E j \in Jobs : Submit(j) \/ Start(j) \/ Succeed(j) \/ Fail(j) \/ Archive(j)

\* Whatever becomes of a Job, its resources are given back.
GivenBack == \A j \in Jobs : phase[j] # "none" ~> j \in archived

Safety == Init /\ [][Next]_vars
Spec == Safety /\ GivenBack

=============================================================================
