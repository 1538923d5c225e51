---------------------------- MODULE MCReconciler ----------------------------
(***************************************************************************)
(* Reconciler and its views for TLC.  The constants get their values in    *)
(* the .cfg files; the ids the provider hands out are interchangeable.     *)
(***************************************************************************)
EXTENDS Views, TLC

\* Two of the names differ only in where the namespace ends.
MCTitles == {"a-b-c", "x-y"}
MCTitleOf == [n \in Names |-> IF n = "x/y" THEN "x-y" ELSE "a-b-c"]

CloudSymmetry == Permutations(Volumes) \union Permutations(Servers)

\* Jobs are interchangeable as well.
Symmetry == CloudSymmetry \union Permutations(Jobs)

=============================================================================
