----------------------------- MODULE MCReconcile -----------------------------
(* Two places for the files of two issues.                                 *)
EXTENDS Reconcile, TLC

CONSTANTS p, q, u, v

TwoPaths == {p, q}
TwoUids == {u, v}

(* The uids only: the events of a pass are in one order of the paths.      *)
Swaps == Permutations(TwoUids)
=============================================================================
