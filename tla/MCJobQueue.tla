---------------------------- MODULE MCJobQueue ----------------------------
(* An instance of JobQueue for TLC. *)
EXTENDS JobQueue, TLC

CONSTANTS j1, j2

(* One job per claim-plan entry, so that the plan's rotation matters. *)
TwoClasses == (j1 :> 1) @@ (j2 :> 2)
=============================================================================
