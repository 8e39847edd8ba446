---------------------------- MODULE MCDeliveries ----------------------------
(* Instances of Deliveries for TLC. *)
EXTENDS Deliveries, TLC

CONSTANTS email, slack, d1, d2
=============================================================================
