---------------------------- MODULE MCRebalance ----------------------------
(*****************************************************************************)
(* Small instances of Rebalance.                                             *)
(*****************************************************************************)
EXTENDS Rebalance, TLC

CONSTANTS w1, w2, w3, c1

OneOrTwo == {1, 2}

\* Workers differ in nothing but what their owners do.
WorkerSymmetry == Permutations(Workers)
=============================================================================
