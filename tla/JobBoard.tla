------------------------------ MODULE JobBoard ------------------------------
(***************************************************************************)
(* What the job queue promises its producers and handlers, without leases, *)
(* polling or two-step writes: a job is armed, taken by one worker at a    *)
(* time, and ends "done" or, once its retry budget is spent, "dead".       *)
(* JobQueue is the table-and-lease protocol that implements this board.    *)
(***************************************************************************)
EXTENDS Naturals

CONSTANTS
    Jobs,          \* idempotency keys
    Workers,       \* queue consumers
    MaxAttempts    \* the row's maxAttempts

VARIABLES
    phase,         \* job -> where it stands
    tries,         \* job -> handler starts since it was last armed
    holders        \* job -> the workers whose handler is running it

vars == <<phase, tries, holders>>

Phases == {"absent", "armed", "running", "failed", "done", "dead"}

Init ==
    /\ phase = [j \in Jobs |-> "absent"]
    /\ tries = [j \in Jobs |-> 0]
    /\ holders = [j \in Jobs |-> {}]

(* A producer asks for the job to run; a running job is left alone. *)
Arm(j) ==
    /\ phase[j] # "running"
    /\ phase' = [phase EXCEPT ![j] = "armed"]
    /\ tries' = [tries EXCEPT ![j] = 0]
    /\ UNCHANGED holders

(* A worker starts the handler of a job nobody is running. *)
Take(w, j) ==
    /\ phase[j] \in {"armed", "failed", "running"}
    /\ holders[j] = {}
    /\ \A k \in Jobs : w \notin holders[k]
    /\ phase' = [phase EXCEPT ![j] = "running"]
    /\ tries' = [tries EXCEPT ![j] = @ + 1]
    /\ holders' = [holders EXCEPT ![j] = {w}]

Release(w, j) ==
    /\ w \in holders[j]
    /\ phase[j] = "running"
    /\ holders' = [holders EXCEPT ![j] = @ \ {w}]
    /\ UNCHANGED tries

Finish(w, j) ==
    /\ Release(w, j)
    /\ phase' = [phase EXCEPT ![j] = "done"]

Fail(w, j) ==
    /\ Release(w, j)
    /\ phase' = [phase EXCEPT ![j] =
                    IF tries[j] >= MaxAttempts THEN "dead" ELSE "failed"]

(* The holder is gone without an outcome; the job stays to be retaken. *)
Abandon(w, j) ==
    /\ Release(w, j)
    /\ UNCHANGED phase

Next ==
    \E j \in Jobs :
        \/ Arm(j)
        \/ \E w \in Workers :
              Take(w, j) \/ Finish(w, j) \/ Fail(w, j) \/ Abandon(w, j)

Spec == Init /\ [][Next]_vars
=============================================================================
