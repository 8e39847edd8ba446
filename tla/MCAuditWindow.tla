---------------------------- MODULE MCAuditWindow ----------------------------
(* AuditWindow on a window of two items and a window of one. *)
EXTENDS AuditWindow, TLC

CONSTANTS v1, v2, w1, w2, a, b, c

MCWindowOf == [i \in Items |-> IF i = c THEN w2 ELSE w1]

MCConflicted == {<<v2, w2>>} \cap (Validators \X Windows)

MCMaxClaims == [w \in Windows |-> IF w = w2 THEN 1 ELSE 2]

Symmetric == Permutations(Requests) \cup Permutations(Sweepers)
=============================================================================
