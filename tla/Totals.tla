------------------------------- MODULE Totals -------------------------------
(***************************************************************************)
(* Sums of bounded amounts over a finite set.                              *)
(*                                                                         *)
(* The gateway adds and subtracts integer micro-USD.  The specifications   *)
(* need the sum of f[x] over the x of a finite set, and the proofs need    *)
(* its algebra.  A sum is written here as the number of units it counts,   *)
(* so that its laws follow from the library's facts on cardinalities and   *)
(* need no induction (TotalsProofs): a fold would compute the same number, *)
(* but nothing could be proved of it.                                      *)
(***************************************************************************)
EXTENDS Naturals, FiniteSets

\* One element <<x, i>> for each of the f[x] units of each x in S.
Units(f, S, most) == {u \in S \X (1..most) : u[2] <= f[u[1]]}

\* The sum of f[x] over S, for an f that takes its values in 0..most.
Total(f, S, most) == Cardinality(Units(f, S, most))
=============================================================================
