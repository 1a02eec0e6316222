---------------------------- MODULE MCBudgetGuard ----------------------------
(***************************************************************************)
(* A small instance of BudgetGuard: three alike requests on a scope whose  *)
(* budget fits two of them.  MaxClock is past KeysTtl, so reservations     *)
(* expire, windows roll over and the keys are dropped within a run.        *)
(***************************************************************************)
EXTENDS BudgetGuard, TLC

CONSTANTS a, b, c, MCCost

MCReq == {a, b, c}
MCEstimate == [r \in MCReq |-> MCCost]
MCSymmetry == Permutations(MCReq)
=============================================================================
