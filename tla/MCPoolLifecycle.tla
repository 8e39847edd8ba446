-------------------------- MODULE MCPoolLifecycle --------------------------
(* Instances of PoolLifecycle for TLC. *)
EXTENDS PoolLifecycle, TLC

ItemSymmetry == Permutations(Items)
=============================================================================
