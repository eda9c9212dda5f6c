----------------------------- MODULE MCFreshness -----------------------------
(***************************************************************************)
(* Instances of Freshness for TLC.                                         *)
(***************************************************************************)
EXTENDS Freshness, TLC

CONSTANTS w1, w2

GainAndLoss == {-1, 1}

Symmetry == Permutations({w1, w2})
=============================================================================
