------------------------------ MODULE MCBudget ------------------------------
(***************************************************************************)
(* Budget for TLC: two currencies, the provider's own and one worth half   *)
(* of it.                                                                  *)
(***************************************************************************)
EXTENDS Budget

MCFactor == [c \in Currencies |-> IF c = "EUR" THEN 1 ELSE 2]

\* A top-up and a correction (a .cfg has no negative numbers).
MCAmounts == {2, -4}

=============================================================================
