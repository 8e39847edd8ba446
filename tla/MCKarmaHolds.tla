---------------------------- MODULE MCKarmaHolds ----------------------------
(* Instances of KarmaHolds for TLC. *)
EXTENDS KarmaHolds, TLC

Symmetric == Permutations(Requests) \cup Permutations(Sweepers)
=============================================================================
