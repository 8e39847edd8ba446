-------------------------- MODULE Publication_proofs --------------------------
(***************************************************************************)
(* What Publication promises for any number of attempts, requests and      *)
(* deaths: what is recorded as retracted is not public, the bounty is      *)
(* retracted only with all its targets, and published only with something  *)
(* to show.                                                                *)
(***************************************************************************)
EXTENDS Publication, TLAPS

(* A handler that runs holds its job, and the board says so.               *)
RunsHeld ==
    \A j \in Jobs :
        /\ run[j].pc # "idle" => phase[j] = "running" /\ holders[j] # {}
        /\ holders[j] \subseteq {j}

(* A push and a withdrawal that overlap are marked as such.                *)
Overlap ==
    run["publish"].pc # "idle" /\ run["unpublish"].pc # "idle" => crossed

(* What is about to be recorded as retracted is not public.                *)
Confirmed ==
    run["unpublish"].pc = "record" =>
        /\ run["unpublish"].at \in run["unpublish"].rows
        /\ crossed \/ ~live[run["unpublish"].at]

(* Every target still published is one the withdrawal has yet to confirm.  *)
Listed ==
    run["unpublish"].pc \in {"targets", "record"} =>
        /\ run["unpublish"].todo \subseteq run["unpublish"].rows
        /\ \/ crossed
           \/ \A t \in Targets : row[t] = "published" =>
                 t \in run["unpublish"].rows \ run["unpublish"].done

(* The withdrawal has no step for a failed push.                           *)
OwnSteps == run["unpublish"].pc \in {"idle", "targets", "record", "end"}

RunInv ==
    /\ RunsHeld
    /\ Overlap
    /\ Confirmed
    /\ Listed
    /\ OwnSteps

PubInv == TypeOK /\ RunInv

-----------------------------------------------------------------------------
(* The two jobs, as workers and as names.                                  *)
LEMMA Names == /\ "publish" \in Jobs /\ "unpublish" \in Jobs /\ Workers = Jobs
               /\ \A j \in Jobs : j = "publish" \/ j = "unpublish"
               /\ "admin" \in Callers /\ "settlement" \in Callers
  BY DEF Jobs, Workers, Callers

(* The shape of a handler's state.                                         *)
LEMMA RunShape ==
    ASSUME TypeOK, NEW j \in Jobs
    PROVE  /\ run[j].pc \in {"idle", "targets", "record", "mark", "marking", "rollup", "end"}
           /\ run[j].pc # "idle" =>
                /\ run[j] \in RunType
                /\ run[j].todo \subseteq Targets /\ run[j].rows \subseteq Targets
                /\ run[j].done \subseteq Targets /\ run[j].at \in Targets \cup {None}
                /\ run[j].again \in BOOLEAN
  BY DEF TypeOK, RunType, Idle

(* What the other job's handler keeps when one moves.                      *)
OnlyRun(j) == \A k \in Jobs \ {j} : run'[k] = run[k]

KeepsList(j) == run'[j].rows = run[j].rows

(* What a handler may do to its own state: go on with a target, ...        *)
LEMMA StepMoves ==
    ASSUME TypeOK, NEW j \in Jobs, run[j].pc # "idle",
           NEW pc \in {"targets", "record", "mark", "marking", "rollup", "end"},
           NEW t \in Targets \cup {None}, Step(j, pc, t)
    PROVE  /\ run' \in [Jobs -> {Idle} \cup RunType]
           /\ OnlyRun(j) /\ KeepsList(j)
           /\ run'[j].pc = pc /\ run'[j].at = t
           /\ run'[j].todo = run[j].todo \ {t} /\ run'[j].done = run[j].done
<1>1. run \in [Jobs -> {Idle} \cup RunType] /\ run[j] \in RunType
  BY RunShape DEF TypeOK
<1> DEFINE r == [run[j] EXCEPT !.pc = pc, !.at = t, !.todo = @ \ {t}]
<1>2. run' = [run EXCEPT ![j] = r]
  BY DEF Step
<1>3. run'[j] = r
  <2> HIDE DEF r
  <2> QED
    BY <1>1, <1>2
<1>4. run'[j] \in RunType
  BY <1>1, <1>3 DEF RunType
<1>5. run' \in [Jobs -> {Idle} \cup RunType]
  BY <1>1, <1>4, <1>2
<1>6. OnlyRun(j)
  BY <1>1, <1>2 DEF OnlyRun
<1> QED
  BY <1>1, <1>3, <1>5, <1>6 DEF RunType, KeepsList

(* ... leave one for good or for now, ...                                  *)
LEMMA SkipMoves ==
    ASSUME TypeOK, NEW j \in Jobs, run[j].pc # "idle",
           NEW t \in Targets, NEW b \in BOOLEAN, Skip(j, t, b)
    PROVE  /\ run' \in [Jobs -> {Idle} \cup RunType]
           /\ OnlyRun(j) /\ KeepsList(j)
           /\ run'[j].pc = "targets" /\ run'[j].at = None
           /\ run'[j].todo = run[j].todo \ {t} /\ run'[j].done = run[j].done
<1>1. run \in [Jobs -> {Idle} \cup RunType] /\ run[j] \in RunType
  BY RunShape DEF TypeOK
<1> DEFINE r == [run[j] EXCEPT !.pc = "targets", !.at = None, !.todo = @ \ {t},
                               !.again = @ \/ b]
<1>2. run' = [run EXCEPT ![j] = r]
  BY DEF Skip
<1>3. run'[j] = r
  <2> HIDE DEF r
  <2> QED
    BY <1>1, <1>2
<1>4. run'[j] \in RunType
  BY <1>1, <1>3 DEF RunType
<1>5. run' \in [Jobs -> {Idle} \cup RunType]
  BY <1>1, <1>4, <1>2
<1>6. OnlyRun(j)
  BY <1>1, <1>2 DEF OnlyRun
<1> QED
  BY <1>1, <1>3, <1>5, <1>6 DEF RunType, KeepsList

(* ... and count one as done.                                              *)
LEMMA DoneMoves ==
    ASSUME TypeOK, NEW j \in Jobs, run[j].pc # "idle", NEW t \in Targets,
           Done(j, t)
    PROVE  /\ run' \in [Jobs -> {Idle} \cup RunType]
           /\ OnlyRun(j) /\ KeepsList(j)
           /\ run'[j].pc = "targets" /\ run'[j].at = None
           /\ run'[j].todo = run[j].todo /\ run'[j].done = run[j].done \cup {t}
<1>1. run \in [Jobs -> {Idle} \cup RunType] /\ run[j] \in RunType
  BY RunShape DEF TypeOK
<1> DEFINE r == [run[j] EXCEPT !.pc = "targets", !.at = None, !.done = @ \cup {t}]
<1>2. run' = [run EXCEPT ![j] = r]
  BY DEF Done
<1>3. run'[j] = r
  <2> HIDE DEF r
  <2> QED
    BY <1>1, <1>2
<1>4. run'[j] \in RunType
  <2>1. run[j].done \cup {t} \in SUBSET Targets
    BY <1>1 DEF RunType
  <2> QED
    BY <1>1, <1>3, <2>1 DEF RunType
<1>5. run' \in [Jobs -> {Idle} \cup RunType]
  BY <1>1, <1>4, <1>2
<1>6. OnlyRun(j)
  BY <1>1, <1>2 DEF OnlyRun
<1> QED
  BY <1>1, <1>3, <1>5, <1>6 DEF RunType, KeepsList

(* A handler that starts has its targets before it, one that ends is idle. *)
LEMMA StartMoves ==
    ASSUME TypeOK, NEW j \in Jobs, NEW todo \in SUBSET Targets,
           NEW pc \in {"targets", "end"}, run' = [run EXCEPT ![j] = Started(todo, pc)]
    PROVE  /\ run' \in [Jobs -> {Idle} \cup RunType]
           /\ OnlyRun(j)
           /\ run'[j].pc = pc /\ run'[j].todo = todo
           /\ run'[j].rows = todo /\ run'[j].done = {}
<1>1. run \in [Jobs -> {Idle} \cup RunType]
  BY DEF TypeOK
<1>2. Started(todo, pc) \in RunType
  BY DEF Started, RunType
<1> QED
  BY <1>1, <1>2 DEF Started, OnlyRun

LEMMA EndMoves ==
    ASSUME TypeOK, NEW j \in Jobs, run' = [run EXCEPT ![j] = Idle]
    PROVE  /\ run' \in [Jobs -> {Idle} \cup RunType]
           /\ OnlyRun(j) /\ run'[j].pc = "idle"
  BY DEF TypeOK, OnlyRun, Idle

-----------------------------------------------------------------------------
(* Nothing is published, queued or running at first.                       *)
LEMMA InitPub == Init => PubInv
<1> SUFFICES ASSUME Init PROVE PubInv
    OBVIOUS
<1>1. \A j \in Jobs : run[j] = Idle /\ holders[j] = {}
  BY DEF Init, Board!Init
<1>2. run["publish"].pc = "idle" /\ run["unpublish"].pc = "idle"
  BY <1>1, Names DEF Idle
<1>3. RunInv
  BY <1>1, <1>2 DEF RunInv, RunsHeld, Overlap, Confirmed, Listed, OwnSteps, Idle
<1>4. run \in [Jobs -> {Idle} \cup RunType]
  BY DEF Init
<1>5. phase \in [Jobs -> Board!Phases] /\ tries \in [Jobs -> Nat]
      /\ holders \in [Jobs -> SUBSET Workers]
  BY DEF Init, Board!Init, Board!Phases
<1>6. call \in [Callers -> {"idle", "review", "publish", "retract", "owed"}]
  BY DEF Init
<1>7. row \in [Targets -> {"none", "not_configured", "failed", "published", "retracted"}]
      /\ lastError \in [Targets -> BOOLEAN] /\ live \in [Targets -> BOOLEAN]
  BY DEF Init
<1>8. TypeOK
  BY <1>4, <1>5, <1>6, <1>7 DEF Init, TypeOK
<1> QED
  BY <1>3, <1>8 DEF PubInv

(* No statement writes a column outside its range.                         *)
LEMMA TypeStep == TypeOK /\ [Next]_vars => TypeOK'
<1> SUFFICES ASSUME TypeOK, [Next]_vars PROVE TypeOK'
    OBVIOUS
<1> USE BoundAssumption, Names DEF TypeOK, Board!Phases
<1>1. ASSUME NEW action \in {"review", "publish", "retract"}, Check(action) PROVE TypeOK'
  BY <1>1, RunShape DEF Check, Go, boardVars, rowVars
<1>2. ASSUME Review PROVE TypeOK'
  BY <1>2, RunShape DEF Review, Go, boardVars, rowVars
<1>3. ASSUME Publish PROVE TypeOK'
  BY <1>3, RunShape DEF Publish, Go, boardVars, rowVars
<1>4. ASSUME Retract PROVE TypeOK'
  BY <1>4, RunShape DEF Retract, Go, Enqueue, Board!Arm, boardVars, rowVars
<1>5. ASSUME Settle PROVE TypeOK'
  BY <1>5, RunShape DEF Settle, Go, boardVars, rowVars
<1>6. ASSUME NEW c \in Callers, EnqueuePublish(c) PROVE TypeOK'
  BY <1>6, RunShape DEF EnqueuePublish, Go, Enqueue, Board!Arm, boardVars, rowVars
<1>7. ASSUME NEW c \in Callers, CallerDies(c) PROVE TypeOK'
  BY <1>7, RunShape DEF CallerDies, Go, boardVars, rowVars
<1>8. ASSUME NEW t \in Targets, Attest(t) PROVE TypeOK'
  BY <1>8, RunShape DEF Attest, boardVars
<1>9. ASSUME PublishStart PROVE TypeOK'
  <2>1. run' \in [Jobs -> {Idle} \cup RunType]
    BY <1>9, StartMoves DEF PublishStart
  <2> QED
    BY <1>9, <2>1 DEF PublishStart, Board!Take, rowVars, callVars
<1>10. ASSUME PublishDisabled PROVE TypeOK'
  <2>1. run' \in [Jobs -> {Idle} \cup RunType]
    BY <1>10, EndMoves DEF PublishDisabled
  <2> QED
    BY <1>10, <2>1 DEF PublishDisabled, Board!Fail, Board!Release, rowVars, callVars
<1>11. ASSUME NEW t \in Targets, PushUnconfigured(t) PROVE TypeOK'
  <2>1. run["publish"].pc # "idle"
    BY <1>11 DEF AtTarget, PushUnconfigured
  <2>2. run' \in [Jobs -> {Idle} \cup RunType]
    BY <1>11, <2>1, SkipMoves DEF PushUnconfigured
  <2> QED
    BY <1>11, <2>2 DEF PushUnconfigured, AtTarget, jobStepUnchanged, boardVars, callVars
<1>12. ASSUME NEW t \in Targets, Push(t) PROVE TypeOK'
  <2>1. run["publish"].pc # "idle"
    BY <1>12 DEF AtTarget, Push
  <2>2. run' \in [Jobs -> {Idle} \cup RunType]
    BY <1>12, <2>1, StepMoves DEF Push
  <2> QED
    BY <1>12, <2>2 DEF Push, AtTarget, jobStepUnchanged, boardVars, callVars
<1>13. ASSUME NEW t \in Targets, PushFails(t) PROVE TypeOK'
  <2>1. run["publish"].pc # "idle"
    BY <1>13 DEF AtTarget, PushFails
  <2>2. run' \in [Jobs -> {Idle} \cup RunType]
    BY <1>13, <2>1, SkipMoves DEF PushFails
  <2> QED
    BY <1>13, <2>2 DEF PushFails, AtTarget, MayTakeEffect, jobStepUnchanged, boardVars, callVars
<1>14. ASSUME NEW t \in Targets, PushRefused(t) PROVE TypeOK'
  <2>1. run["publish"].pc # "idle"
    BY <1>14 DEF AtTarget, PushRefused
  <2>2. run' \in [Jobs -> {Idle} \cup RunType]
    BY <1>14, <2>1, StepMoves DEF PushRefused
  <2> QED
    BY <1>14, <2>2 DEF PushRefused, AtTarget, MayTakeEffect, jobStepUnchanged, boardVars, callVars
<1>15. ASSUME NEW t \in Targets, PushRecord(t) PROVE TypeOK'
  <2>1. run["publish"].pc # "idle"
    BY <1>15 DEF PushRecord
  <2>2. run' \in [Jobs -> {Idle} \cup RunType]
    BY <1>15, <2>1, DoneMoves DEF PushRecord
  <2> QED
    BY <1>15, <2>2 DEF PushRecord, jobStepUnchanged, boardVars, callVars
<1>16. ASSUME NEW t \in Targets, MarkFailedRead(t) PROVE TypeOK'
  <2>1. run["publish"].pc # "idle"
    BY <1>16 DEF MarkFailedRead
  <2>2. run' \in [Jobs -> {Idle} \cup RunType]
    BY <1>16, <2>1, StepMoves, SkipMoves DEF MarkFailedRead
  <2> QED
    BY <1>16, <2>2 DEF MarkFailedRead, jobStepUnchanged, boardVars, rowVars, callVars
<1>17. ASSUME NEW t \in Targets, MarkFailedWrite(t) PROVE TypeOK'
  <2>1. run["publish"].pc # "idle"
    BY <1>17 DEF MarkFailedWrite
  <2>2. run' \in [Jobs -> {Idle} \cup RunType]
    BY <1>17, <2>1, SkipMoves DEF MarkFailedWrite
  <2> QED
    BY <1>17, <2>2 DEF MarkFailedWrite, jobStepUnchanged, boardVars, callVars
<1>18. ASSUME PublishRollup PROVE TypeOK'
  <2>1. run["publish"].pc # "idle"
    BY <1>18 DEF PublishRollup
  <2>2. run' \in [Jobs -> {Idle} \cup RunType]
    BY <1>18, <2>1, StepMoves DEF PublishRollup
  <2> QED
    BY <1>18, <2>2 DEF PublishRollup, jobStepUnchanged, boardVars, rowVars, callVars
<1>19. ASSUME UnpublishStart PROVE TypeOK'
  <2>1. run' \in [Jobs -> {Idle} \cup RunType]
    BY <1>19, StartMoves DEF UnpublishStart
  <2> QED
    BY <1>19, <2>1 DEF UnpublishStart, Board!Take, rowVars, callVars
<1>20. ASSUME NEW t \in Targets, Withdraw(t) PROVE TypeOK'
  <2>1. run["unpublish"].pc # "idle"
    BY <1>20 DEF AtTarget, Withdraw
  <2>2. run' \in [Jobs -> {Idle} \cup RunType]
    BY <1>20, <2>1, StepMoves DEF Withdraw
  <2> QED
    BY <1>20, <2>2 DEF Withdraw, AtTarget, jobStepUnchanged, boardVars, callVars
<1>21. ASSUME NEW t \in Targets, WithdrawFails(t) PROVE TypeOK'
  <2>1. run["unpublish"].pc # "idle"
    BY <1>21 DEF AtTarget, WithdrawFails
  <2>2. run' \in [Jobs -> {Idle} \cup RunType]
    BY <1>21, <2>1, SkipMoves DEF WithdrawFails
  <2> QED
    BY <1>21, <2>2 DEF WithdrawFails, AtTarget, MayTakeEffect, jobStepUnchanged, boardVars, callVars
<1>22. ASSUME NEW t \in Targets, WithdrawRefused(t) PROVE TypeOK'
  <2>1. run["unpublish"].pc # "idle"
    BY <1>22 DEF AtTarget, WithdrawRefused
  <2>2. run' \in [Jobs -> {Idle} \cup RunType]
    BY <1>22, <2>1, SkipMoves DEF WithdrawRefused
  <2> QED
    BY <1>22, <2>2 DEF WithdrawRefused, AtTarget, jobStepUnchanged, boardVars, callVars
<1>23. ASSUME NEW t \in Targets, WithdrawRecord(t) PROVE TypeOK'
  <2>1. run["unpublish"].pc # "idle"
    BY <1>23 DEF WithdrawRecord
  <2>2. run' \in [Jobs -> {Idle} \cup RunType]
    BY <1>23, <2>1, DoneMoves DEF WithdrawRecord
  <2> QED
    BY <1>23, <2>2 DEF WithdrawRecord, jobStepUnchanged, boardVars, callVars
<1>24. ASSUME UnpublishRollup PROVE TypeOK'
  <2>1. run["unpublish"].pc # "idle"
    BY <1>24 DEF UnpublishRollup
  <2>2. run' \in [Jobs -> {Idle} \cup RunType]
    BY <1>24, <2>1, StepMoves DEF UnpublishRollup
  <2> QED
    BY <1>24, <2>2 DEF UnpublishRollup, WithdrewAll, jobStepUnchanged, boardVars, rowVars, callVars
<1>25. ASSUME NEW j \in Jobs, JobEnds(j) PROVE TypeOK'
  <2>1. run' \in [Jobs -> {Idle} \cup RunType]
    BY <1>25, EndMoves DEF JobEnds
  <2> QED
    BY <1>25, <2>1 DEF JobEnds, Board!Fail, Board!Finish, Board!Release, rowVars, callVars
<1>26. ASSUME NEW j \in Jobs, WorkerDies(j) PROVE TypeOK'
  <2>1. run' \in [Jobs -> {Idle} \cup RunType]
    BY <1>26, EndMoves DEF WorkerDies
  <2> QED
    BY <1>26, <2>1 DEF WorkerDies, Board!Abandon, Board!Release, rowVars
<1>27. CASE UNCHANGED vars
  BY <1>27 DEF vars, boardVars, rowVars, callVars
<1> HIDE DEF TypeOK
<1> QED
  BY <1>1, <1>2, <1>3, <1>4, <1>5, <1>6, <1>7, <1>8, <1>9,
     <1>10, <1>11, <1>12, <1>13, <1>14, <1>15, <1>16, <1>17, <1>18,
     <1>19, <1>20, <1>21, <1>22, <1>23, <1>24, <1>25, <1>26, <1>27, Zenon
  DEF Next, JobStep, CallStep, PublishStep, UnpublishStep

-----------------------------------------------------------------------------
(* A step that leaves the handlers, the rows and the board of a running    *)
(* job alone keeps what is known of the runs.                              *)
LEMMA RunStays ==
    ASSUME PubInv, UNCHANGED <<run, row, live, crossed>>,
           \A j \in Jobs : run[j].pc # "idle" =>
               phase'[j] = phase[j] /\ holders'[j] = holders[j],
           \A j \in Jobs : holders'[j] \subseteq {j}
    PROVE  RunInv'
<1>1. RunsHeld'
  BY DEF PubInv, RunInv, RunsHeld
<1> QED
  BY <1>1 DEF PubInv, RunInv, Overlap, Confirmed, Listed, OwnSteps

(* Arming a job does not touch one that runs.                              *)
LEMMA EnqueueKeeps ==
    ASSUME PubInv, NEW j \in Jobs, Enqueue(j)
    PROVE  /\ \A k \in Jobs : run[k].pc # "idle" =>
                 phase'[k] = phase[k] /\ holders'[k] = holders[k]
           /\ \A k \in Jobs : holders'[k] \subseteq {k}
<1>1. CASE phase[j] = "running" /\ UNCHANGED boardVars
  BY <1>1 DEF boardVars, PubInv, RunInv, RunsHeld
<1>2. CASE Board!Arm(j)
  BY <1>2 DEF Board!Arm, PubInv, RunInv, RunsHeld, TypeOK
<1> QED
  BY <1>1, <1>2 DEF Enqueue

(* A step of the running publish job: the withdrawal knows of it.          *)
LEMMA PushKeeps ==
    ASSUME PubInv, run["publish"].pc # "idle", run'["publish"].pc # "idle",
           OnlyRun("publish"), UNCHANGED <<boardVars, crossed>>
    PROVE  RunInv'
<1>1. run'["unpublish"] = run["unpublish"]
  BY Names DEF OnlyRun
<1>2. RunsHeld'
  BY Names, <1>1 DEF PubInv, RunInv, RunsHeld, boardVars
<1>3. run["unpublish"].pc # "idle" => crossed
  BY DEF PubInv, RunInv, Overlap
<1>4. Overlap'
  BY <1>1, <1>3 DEF Overlap
<1> QED
  BY <1>1, <1>2, <1>3, <1>4 DEF PubInv, RunInv, Confirmed, Listed, OwnSteps

(* A step of the running withdrawal leaves the rest of its facts alone.    *)
LEMMA WithdrawKeeps ==
    ASSUME PubInv, run["unpublish"].pc # "idle", run'["unpublish"].pc # "idle",
           OnlyRun("unpublish"), UNCHANGED <<boardVars, crossed>>
    PROVE  RunsHeld' /\ Overlap'
<1>1. run'["publish"] = run["publish"]
  BY Names DEF OnlyRun
<1>2. RunsHeld'
  BY Names, <1>1 DEF PubInv, RunInv, RunsHeld, boardVars
<1> QED
  BY <1>1, <1>2 DEF PubInv, RunInv, Overlap

(* What is known of the runs survives every step.                          *)
LEMMA RunInvStep == PubInv /\ [Next]_vars => RunInv'
<1> SUFFICES ASSUME PubInv, [Next]_vars PROVE RunInv'
    OBVIOUS
<1> USE Names
<1>1. ASSUME NEW action \in {"review", "publish", "retract"}, Check(action) PROVE RunInv'
  <2>1. UNCHANGED <<run, row, live, crossed, phase, holders>>
    BY <1>1 DEF Check, boardVars, rowVars
  <2> QED
    BY <2>1, RunStays DEF PubInv, RunInv, RunsHeld
<1>2. ASSUME Review PROVE RunInv'
  <2>1. UNCHANGED <<run, row, live, crossed, phase, holders>>
    BY <1>2 DEF Review, boardVars, rowVars
  <2> QED
    BY <2>1, RunStays DEF PubInv, RunInv, RunsHeld
<1>3. ASSUME Publish PROVE RunInv'
  <2>1. UNCHANGED <<run, row, live, crossed, phase, holders>>
    BY <1>3 DEF Publish, boardVars, rowVars
  <2> QED
    BY <2>1, RunStays DEF PubInv, RunInv, RunsHeld
<1>4. ASSUME Retract PROVE RunInv'
  <2>1. Enqueue("unpublish") /\ UNCHANGED <<run, row, live, crossed>>
    BY <1>4 DEF Retract, rowVars
  <2> QED
    BY <2>1, EnqueueKeeps, RunStays
<1>5. ASSUME Settle PROVE RunInv'
  <2>1. UNCHANGED <<run, row, live, crossed, phase, holders>>
    BY <1>5 DEF Settle, boardVars, rowVars
  <2> QED
    BY <2>1, RunStays DEF PubInv, RunInv, RunsHeld
<1>6. ASSUME NEW c \in Callers, EnqueuePublish(c) PROVE RunInv'
  <2>1. Enqueue("publish") /\ UNCHANGED <<run, row, live, crossed>>
    BY <1>6 DEF EnqueuePublish, rowVars
  <2> QED
    BY <2>1, EnqueueKeeps, RunStays
<1>7. ASSUME NEW c \in Callers, CallerDies(c) PROVE RunInv'
  <2>1. UNCHANGED <<run, row, live, crossed, phase, holders>>
    BY <1>7 DEF CallerDies, boardVars, rowVars
  <2> QED
    BY <2>1, RunStays DEF PubInv, RunInv, RunsHeld
<1>8. ASSUME NEW t \in Targets, Attest(t) PROVE RunInv'
  <2>1. RunsHeld' /\ Overlap' /\ OwnSteps'
    BY <1>8 DEF Attest, boardVars, PubInv, RunInv, RunsHeld, Overlap, OwnSteps
  <2>2. run["unpublish"].pc # "idle" => crossed'
    BY <1>8 DEF Attest, PubInv, RunInv, RunsHeld
  <2>3. run' = run
    BY <1>8 DEF Attest
  <2>4. Confirmed' /\ Listed'
    BY <2>2, <2>3 DEF PubInv, RunInv, Confirmed, Listed
  <2> QED
    BY <2>1, <2>4 DEF RunInv
<1>9. ASSUME PublishStart PROVE RunInv'
  <2>1. OnlyRun("publish") /\ run'["publish"].pc = "targets"
    BY <1>9, StartMoves DEF PublishStart, PubInv
  <2>2. run'["unpublish"] = run["unpublish"]
    BY <2>1 DEF OnlyRun
  <2>3. RunsHeld'
    BY <1>9, <2>2 DEF PublishStart, Board!Take, PubInv, TypeOK, RunInv, RunsHeld
  <2>4. run["unpublish"].pc # "idle" => crossed'
    BY <1>9 DEF PublishStart, PubInv, RunInv, RunsHeld
  <2>5. row' = row /\ live' = live
    BY <1>9 DEF PublishStart, rowVars
  <2>6. Overlap' /\ Confirmed' /\ Listed' /\ OwnSteps'
    BY <2>2, <2>4, <2>5 DEF PubInv, RunInv, Overlap, Confirmed, Listed, OwnSteps
  <2> QED
    BY <2>3, <2>6 DEF RunInv
<1>10. ASSUME PublishDisabled PROVE RunInv'
  <2>1. OnlyRun("publish") /\ run'["publish"].pc = "idle"
    BY <1>10, EndMoves DEF PublishDisabled, PubInv
  <2>2. UNCHANGED <<row, live, crossed>>
    BY <1>10 DEF PublishDisabled, rowVars
  <2>3. \A k \in Jobs \ {"publish"} : phase'[k] = phase[k] /\ holders'[k] = holders[k]
    BY <1>10 DEF PublishDisabled, Board!Fail, Board!Finish, Board!Abandon, Board!Release, PubInv, TypeOK
  <2>4. holders'["publish"] \subseteq {"publish"}
    BY <1>10 DEF PublishDisabled, Board!Fail, Board!Finish, Board!Abandon, Board!Release, PubInv, TypeOK, RunInv, RunsHeld
  <2>5. RunsHeld'
    BY <2>1, <2>3, <2>4 DEF OnlyRun, PubInv, RunInv, RunsHeld
  <2>6. Overlap' /\ Confirmed' /\ Listed' /\ OwnSteps'
    BY <2>1, <2>2 DEF OnlyRun, PubInv, RunInv, Overlap, Confirmed, Listed, OwnSteps
  <2> QED
    BY <2>5, <2>6 DEF RunInv
<1>11. ASSUME NEW t \in Targets, PushUnconfigured(t) PROVE RunInv'
  <2>1. run["publish"].pc # "idle" /\ UNCHANGED <<boardVars, crossed>>
    BY <1>11 DEF AtTarget, PushUnconfigured, jobStepUnchanged
  <2>2. OnlyRun("publish") /\ run'["publish"].pc # "idle"
    BY <1>11, <2>1, SkipMoves DEF PushUnconfigured, PubInv
  <2> QED
    BY <2>1, <2>2, PushKeeps
<1>12. ASSUME NEW t \in Targets, Push(t) PROVE RunInv'
  <2>1. run["publish"].pc # "idle" /\ UNCHANGED <<boardVars, crossed>>
    BY <1>12 DEF AtTarget, Push, jobStepUnchanged
  <2>2. OnlyRun("publish") /\ run'["publish"].pc # "idle"
    BY <1>12, <2>1, StepMoves DEF Push, PubInv
  <2> QED
    BY <2>1, <2>2, PushKeeps
<1>13. ASSUME NEW t \in Targets, PushFails(t) PROVE RunInv'
  <2>1. run["publish"].pc # "idle" /\ UNCHANGED <<boardVars, crossed>>
    BY <1>13 DEF AtTarget, PushFails, jobStepUnchanged
  <2>2. OnlyRun("publish") /\ run'["publish"].pc # "idle"
    BY <1>13, <2>1, SkipMoves DEF PushFails, PubInv
  <2> QED
    BY <2>1, <2>2, PushKeeps
<1>14. ASSUME NEW t \in Targets, PushRefused(t) PROVE RunInv'
  <2>1. run["publish"].pc # "idle" /\ UNCHANGED <<boardVars, crossed>>
    BY <1>14 DEF AtTarget, PushRefused, jobStepUnchanged
  <2>2. OnlyRun("publish") /\ run'["publish"].pc # "idle"
    BY <1>14, <2>1, StepMoves DEF PushRefused, PubInv
  <2> QED
    BY <2>1, <2>2, PushKeeps
<1>15. ASSUME NEW t \in Targets, PushRecord(t) PROVE RunInv'
  <2>1. run["publish"].pc # "idle" /\ UNCHANGED <<boardVars, crossed>>
    BY <1>15 DEF PushRecord, jobStepUnchanged
  <2>2. OnlyRun("publish") /\ run'["publish"].pc # "idle"
    BY <1>15, <2>1, DoneMoves DEF PushRecord, PubInv
  <2> QED
    BY <2>1, <2>2, PushKeeps
<1>16. ASSUME NEW t \in Targets, MarkFailedRead(t) PROVE RunInv'
  <2>1. run["publish"].pc # "idle" /\ UNCHANGED <<boardVars, crossed>>
    BY <1>16 DEF MarkFailedRead, jobStepUnchanged
  <2>2. OnlyRun("publish") /\ run'["publish"].pc # "idle"
    BY <1>16, <2>1, StepMoves, SkipMoves DEF MarkFailedRead, PubInv
  <2> QED
    BY <2>1, <2>2, PushKeeps
<1>17. ASSUME NEW t \in Targets, MarkFailedWrite(t) PROVE RunInv'
  <2>1. run["publish"].pc # "idle" /\ UNCHANGED <<boardVars, crossed>>
    BY <1>17 DEF MarkFailedWrite, jobStepUnchanged
  <2>2. OnlyRun("publish") /\ run'["publish"].pc # "idle"
    BY <1>17, <2>1, SkipMoves DEF MarkFailedWrite, PubInv
  <2> QED
    BY <2>1, <2>2, PushKeeps
<1>18. ASSUME PublishRollup PROVE RunInv'
  <2>1. run["publish"].pc # "idle" /\ UNCHANGED <<boardVars, crossed>>
    BY <1>18 DEF PublishRollup, jobStepUnchanged
  <2>2. OnlyRun("publish") /\ run'["publish"].pc # "idle"
    BY <1>18, <2>1, StepMoves DEF PublishRollup, PubInv
  <2> QED
    BY <2>1, <2>2, PushKeeps
<1>19. ASSUME UnpublishStart PROVE RunInv'
  <2> DEFINE rows == {t \in Targets : row[t] = "published"}
             pc == IF rows = {} THEN "end" ELSE "targets"
  <2>1. /\ OnlyRun("unpublish") /\ run'["unpublish"].pc = pc
        /\ run'["unpublish"].todo = rows /\ run'["unpublish"].rows = rows
        /\ run'["unpublish"].done = {}
    <3>1. run' = [run EXCEPT !["unpublish"] = Started(rows, pc)]
      BY <1>19 DEF UnpublishStart
    <3>2. rows \in SUBSET Targets /\ pc \in {"targets", "end"}
      OBVIOUS
    <3> HIDE DEF rows, pc
    <3> QED
      BY <3>1, <3>2, StartMoves DEF PubInv
  <2>2. run'["publish"] = run["publish"]
    BY <2>1 DEF OnlyRun
  <2>3. RunsHeld'
    BY <1>19, <2>2 DEF UnpublishStart, Board!Take, PubInv, TypeOK, RunInv, RunsHeld
  <2>4. Overlap'
    BY <1>19, <2>2 DEF UnpublishStart, PubInv, RunInv, RunsHeld, Overlap
  <2>5. row' = row
    BY <1>19 DEF UnpublishStart, rowVars
  <2>6. Confirmed' /\ Listed' /\ OwnSteps'
    BY <2>1, <2>5 DEF Confirmed, Listed, OwnSteps
  <2> QED
    BY <2>3, <2>4, <2>6 DEF RunInv
<1>20. ASSUME NEW t \in Targets, Withdraw(t) PROVE RunInv'
  <2>1. run["unpublish"].pc # "idle" /\ UNCHANGED <<boardVars, crossed>>
    BY <1>20 DEF AtTarget, Withdraw, jobStepUnchanged
  <2>2. /\ OnlyRun("unpublish") /\ KeepsList("unpublish")
        /\ run'["unpublish"].pc = "record"
        /\ run'["unpublish"].at = t
        /\ run'["unpublish"].todo = run["unpublish"].todo \ {t}
        /\ run'["unpublish"].done = run["unpublish"].done
    BY <1>20, <2>1, StepMoves DEF Withdraw, PubInv
  <2>3. RunsHeld' /\ Overlap'
    BY <2>1, <2>2, WithdrawKeeps
  <2>4. Confirmed' /\ OwnSteps'
    BY <1>20, <2>1, <2>2 DEF AtTarget, Withdraw, KeepsList, PubInv, TypeOK, RunInv, Listed, Confirmed, OwnSteps
  <2>5. Listed'
    BY <1>20, <2>1, <2>2 DEF AtTarget, Withdraw, KeepsList, PubInv, TypeOK, RunInv, Listed
  <2> QED
    BY <2>3, <2>4, <2>5 DEF RunInv
<1>21. ASSUME NEW t \in Targets, WithdrawFails(t) PROVE RunInv'
  <2>1. run["unpublish"].pc # "idle" /\ UNCHANGED <<boardVars, crossed>>
    BY <1>21 DEF AtTarget, WithdrawFails, jobStepUnchanged
  <2>2. /\ OnlyRun("unpublish") /\ KeepsList("unpublish")
        /\ run'["unpublish"].pc = "targets"
        /\ run'["unpublish"].todo = run["unpublish"].todo \ {t}
        /\ run'["unpublish"].done = run["unpublish"].done
    BY <1>21, <2>1, SkipMoves DEF WithdrawFails, PubInv
  <2>3. RunsHeld' /\ Overlap'
    BY <2>1, <2>2, WithdrawKeeps
  <2>4. Confirmed' /\ OwnSteps'
    BY <1>21, <2>1, <2>2 DEF AtTarget, WithdrawFails, KeepsList, PubInv, TypeOK, RunInv, Listed, Confirmed, OwnSteps
  <2>5. Listed'
    BY <1>21, <2>1, <2>2 DEF AtTarget, WithdrawFails, KeepsList, PubInv, TypeOK, RunInv, Listed
  <2> QED
    BY <2>3, <2>4, <2>5 DEF RunInv
<1>22. ASSUME NEW t \in Targets, WithdrawRefused(t) PROVE RunInv'
  <2>1. run["unpublish"].pc # "idle" /\ UNCHANGED <<boardVars, crossed>>
    BY <1>22 DEF AtTarget, WithdrawRefused, jobStepUnchanged
  <2>2. /\ OnlyRun("unpublish") /\ KeepsList("unpublish")
        /\ run'["unpublish"].pc = "targets"
        /\ run'["unpublish"].todo = run["unpublish"].todo \ {t}
        /\ run'["unpublish"].done = run["unpublish"].done
    BY <1>22, <2>1, SkipMoves DEF WithdrawRefused, PubInv
  <2>3. RunsHeld' /\ Overlap'
    BY <2>1, <2>2, WithdrawKeeps
  <2>4. Confirmed' /\ OwnSteps'
    BY <1>22, <2>1, <2>2 DEF AtTarget, WithdrawRefused, KeepsList, PubInv, TypeOK, RunInv, Listed, Confirmed, OwnSteps
  <2>5. Listed'
    BY <1>22, <2>1, <2>2 DEF AtTarget, WithdrawRefused, KeepsList, PubInv, TypeOK, RunInv, Listed
  <2> QED
    BY <2>3, <2>4, <2>5 DEF RunInv
<1>23. ASSUME NEW t \in Targets, WithdrawRecord(t) PROVE RunInv'
  <2>1. run["unpublish"].pc # "idle" /\ UNCHANGED <<boardVars, crossed>>
    BY <1>23 DEF WithdrawRecord, jobStepUnchanged
  <2>2. /\ OnlyRun("unpublish") /\ KeepsList("unpublish")
        /\ run'["unpublish"].pc = "targets"
        /\ run'["unpublish"].todo = run["unpublish"].todo
        /\ run'["unpublish"].done = run["unpublish"].done \cup {t}
    BY <1>23, <2>1, DoneMoves DEF WithdrawRecord, PubInv
  <2>3. RunsHeld' /\ Overlap'
    BY <2>1, <2>2, WithdrawKeeps
  <2>4. Confirmed' /\ OwnSteps'
    BY <1>23, <2>1, <2>2 DEF WithdrawRecord, KeepsList, PubInv, TypeOK, RunInv, Listed, Confirmed, OwnSteps
  <2>5. Listed'
    BY <1>23, <2>1, <2>2 DEF WithdrawRecord, KeepsList, PubInv, TypeOK, RunInv, Listed
  <2> QED
    BY <2>3, <2>4, <2>5 DEF RunInv
<1>24. ASSUME UnpublishRollup PROVE RunInv'
  <2>1. run["unpublish"].pc # "idle" /\ UNCHANGED <<boardVars, crossed>>
    BY <1>24 DEF UnpublishRollup, jobStepUnchanged
  <2>2. /\ OnlyRun("unpublish") /\ KeepsList("unpublish")
        /\ run'["unpublish"].pc = "end"
        /\ run'["unpublish"].todo = run["unpublish"].todo \ {None}
        /\ run'["unpublish"].done = run["unpublish"].done
    BY <1>24, <2>1, StepMoves DEF UnpublishRollup, PubInv
  <2>3. RunsHeld' /\ Overlap'
    BY <2>1, <2>2, WithdrawKeeps
  <2>4. Confirmed' /\ Listed' /\ OwnSteps'
    BY <2>2 DEF Confirmed, Listed, OwnSteps
  <2> QED
    BY <2>3, <2>4 DEF RunInv
<1>25. ASSUME NEW j \in Jobs, JobEnds(j) PROVE RunInv'
  <2>1. OnlyRun(j) /\ run'[j].pc = "idle"
    BY <1>25, EndMoves DEF JobEnds, PubInv
  <2>2. UNCHANGED <<row, live, crossed>>
    BY <1>25 DEF JobEnds, rowVars
  <2>3. \A k \in Jobs \ {j} : phase'[k] = phase[k] /\ holders'[k] = holders[k]
    BY <1>25 DEF JobEnds, Board!Fail, Board!Finish, Board!Abandon, Board!Release, PubInv, TypeOK
  <2>4. holders'[j] \subseteq {j}
    BY <1>25 DEF JobEnds, Board!Fail, Board!Finish, Board!Abandon, Board!Release, PubInv, TypeOK, RunInv, RunsHeld
  <2>5. RunsHeld'
    BY <2>1, <2>3, <2>4 DEF OnlyRun, PubInv, RunInv, RunsHeld
  <2>6. Overlap' /\ Confirmed' /\ Listed' /\ OwnSteps'
    BY <2>1, <2>2 DEF OnlyRun, PubInv, RunInv, Overlap, Confirmed, Listed, OwnSteps
  <2> QED
    BY <2>5, <2>6 DEF RunInv
<1>26. ASSUME NEW j \in Jobs, WorkerDies(j) PROVE RunInv'
  <2>1. OnlyRun(j) /\ run'[j].pc = "idle"
    BY <1>26, EndMoves DEF WorkerDies, PubInv
  <2>2. UNCHANGED <<row, live, crossed>>
    BY <1>26 DEF WorkerDies, rowVars
  <2>3. \A k \in Jobs \ {j} : phase'[k] = phase[k] /\ holders'[k] = holders[k]
    BY <1>26 DEF WorkerDies, Board!Fail, Board!Finish, Board!Abandon, Board!Release, PubInv, TypeOK
  <2>4. holders'[j] \subseteq {j}
    BY <1>26 DEF WorkerDies, Board!Fail, Board!Finish, Board!Abandon, Board!Release, PubInv, TypeOK, RunInv, RunsHeld
  <2>5. RunsHeld'
    BY <2>1, <2>3, <2>4 DEF OnlyRun, PubInv, RunInv, RunsHeld
  <2>6. Overlap' /\ Confirmed' /\ Listed' /\ OwnSteps'
    BY <2>1, <2>2 DEF OnlyRun, PubInv, RunInv, Overlap, Confirmed, Listed, OwnSteps
  <2> QED
    BY <2>5, <2>6 DEF RunInv
<1>27. CASE UNCHANGED vars
  BY <1>27 DEF vars, boardVars, rowVars, PubInv, RunInv, RunsHeld, Overlap, Confirmed, Listed, OwnSteps
<1> QED
  BY <1>1, <1>2, <1>3, <1>4, <1>5, <1>6, <1>7, <1>8, <1>9,
     <1>10, <1>11, <1>12, <1>13, <1>14, <1>15, <1>16, <1>17, <1>18,
     <1>19, <1>20, <1>21, <1>22, <1>23, <1>24, <1>25, <1>26, <1>27, Zenon
  DEF Next, JobStep, CallStep, PublishStep, UnpublishStep

LEMMA Invariance == Spec => []PubInv
<1>1. PubInv /\ [Next]_vars => PubInv'
  BY TypeStep, RunInvStep DEF PubInv
<1> QED
  BY InitPub, <1>1, PTL DEF Spec

-----------------------------------------------------------------------------
(* What a running publish job counts as pushed is public, unless it met a  *)
(* withdrawal.                                                             *)
Shown ==
    run["publish"].pc # "idle" =>
        \/ crossed
        \/ /\ \A t \in run["publish"].done : live[t]
           /\ run["publish"].pc = "record" =>
                 run["publish"].at \in Targets /\ live[run["publish"].at]

ShownInv == PubInv /\ Shown

(* While the publish job rests, the public only sees more, or the job      *)
(* meets a withdrawal.                                                     *)
LEMMA ShownStays ==
    ASSUME ShownInv, run'["publish"] = run["publish"],
           run["publish"].pc # "idle" =>
               crossed' \/ (~crossed /\ \A t \in Targets : live[t] => live'[t])
    PROVE  Shown'
<1>1. run["publish"].pc # "idle" => run["publish"].done \subseteq Targets
  BY Names, RunShape DEF ShownInv, PubInv
<1> QED
  BY <1>1 DEF ShownInv, Shown

(* A step of the publish job counts as pushed only what it was to record.  *)
LEMMA ShownMoves ==
    ASSUME ShownInv, run["publish"].pc # "idle", crossed' = crossed,
           \A t \in Targets : live[t] => live'[t],
           run'["publish"].pc # "record",
           \/ run'["publish"].done = run["publish"].done
           \/ /\ run["publish"].pc = "record"
              /\ run'["publish"].done = run["publish"].done \cup {run["publish"].at}
    PROVE  Shown'
<1>1. run["publish"].done \subseteq Targets
  BY Names, RunShape DEF ShownInv, PubInv
<1>2. CASE crossed
  BY <1>2 DEF Shown
<1>3. CASE ~crossed
  <2>1. \A t \in run["publish"].done : live[t]
    BY <1>3 DEF ShownInv, Shown
  <2>2. run["publish"].pc = "record" =>
            run["publish"].at \in Targets /\ live[run["publish"].at]
    BY <1>3 DEF ShownInv, Shown
  <2>3. \A t \in run'["publish"].done : live'[t]
    BY <1>1, <2>1, <2>2
  <2> QED
    BY <2>3 DEF Shown
<1> QED
  BY <1>2, <1>3

(* A withdrawal at work knows of a push at work.                           *)
LEMMA ShownUnderWithdrawal ==
    ASSUME ShownInv, run["unpublish"].pc # "idle", OnlyRun("unpublish"), crossed' = crossed
    PROVE  Shown'
<1>1. run'["publish"] = run["publish"]
  BY Names DEF OnlyRun
<1>2. run["publish"].pc # "idle" => crossed
  BY DEF ShownInv, PubInv, RunInv, Overlap
<1> QED
  BY <1>1, <1>2, ShownStays

(* What counts as pushed stays public over every step.                     *)
LEMMA ShownStep == ShownInv /\ [Next]_vars => Shown'
<1> SUFFICES ASSUME ShownInv, [Next]_vars PROVE Shown'
    OBVIOUS
<1> USE Names
<1>1. ASSUME NEW action \in {"review", "publish", "retract"}, Check(action) PROVE Shown'
  <2>1. UNCHANGED <<run, live, crossed>>
    BY <1>1 DEF Check, rowVars
  <2> QED
    BY <2>1, ShownStays
<1>2. ASSUME Review PROVE Shown'
  <2>1. UNCHANGED <<run, live, crossed>>
    BY <1>2 DEF Review, rowVars
  <2> QED
    BY <2>1, ShownStays
<1>3. ASSUME Publish PROVE Shown'
  <2>1. UNCHANGED <<run, live, crossed>>
    BY <1>3 DEF Publish, rowVars
  <2> QED
    BY <2>1, ShownStays
<1>4. ASSUME Retract PROVE Shown'
  <2>1. UNCHANGED <<run, live, crossed>>
    BY <1>4 DEF Retract, rowVars
  <2> QED
    BY <2>1, ShownStays
<1>5. ASSUME Settle PROVE Shown'
  <2>1. UNCHANGED <<run, live, crossed>>
    BY <1>5 DEF Settle, rowVars
  <2> QED
    BY <2>1, ShownStays
<1>6. ASSUME NEW c \in Callers, EnqueuePublish(c) PROVE Shown'
  <2>1. UNCHANGED <<run, live, crossed>>
    BY <1>6 DEF EnqueuePublish, rowVars
  <2> QED
    BY <2>1, ShownStays
<1>7. ASSUME NEW c \in Callers, CallerDies(c) PROVE Shown'
  <2>1. UNCHANGED <<run, live, crossed>>
    BY <1>7 DEF CallerDies, rowVars
  <2> QED
    BY <2>1, ShownStays
<1>8. ASSUME NEW t \in Targets, Attest(t) PROVE Shown'
  <2>1. run' = run /\ (crossed => crossed')
    BY <1>8 DEF Attest
  <2>2. \A x \in Targets : live[x] => live'[x]
    BY <1>8 DEF Attest, ShownInv, PubInv, TypeOK
  <2> QED
    BY <2>1, <2>2, ShownStays
<1>9. ASSUME PublishStart PROVE Shown'
  <2>1. run'["publish"].pc = "targets" /\ run'["publish"].done = {}
    BY <1>9, StartMoves DEF PublishStart, ShownInv, PubInv
  <2> QED
    BY <2>1 DEF Shown
<1>10. ASSUME PublishDisabled PROVE Shown'
  <2>1. run'["publish"].pc = "idle"
    BY <1>10, EndMoves DEF PublishDisabled, ShownInv, PubInv
  <2> QED
    BY <2>1 DEF Shown
<1>11. ASSUME NEW t \in Targets, PushUnconfigured(t) PROVE Shown'
  <2>1. run["publish"].pc # "idle" /\ crossed' = crossed
    BY <1>11 DEF AtTarget, PushUnconfigured, jobStepUnchanged
  <2>2. run'["publish"].pc # "record" /\ run'["publish"].done = run["publish"].done
    BY <1>11, <2>1, SkipMoves DEF PushUnconfigured, ShownInv, PubInv
  <2>3. \A x \in Targets : live[x] => live'[x]
    BY <1>11 DEF PushUnconfigured, ShownInv, PubInv, TypeOK
  <2> QED
    BY <2>1, <2>2, <2>3, ShownMoves
<1>12. ASSUME NEW t \in Targets, Push(t) PROVE Shown'
  <2>1. run["publish"].pc # "idle" /\ run["publish"].pc # "record" /\ crossed' = crossed
    BY <1>12 DEF AtTarget, Push, jobStepUnchanged
  <2>2. run'["publish"].at = t /\ run'["publish"].done = run["publish"].done
    BY <1>12, <2>1, StepMoves DEF Push, ShownInv, PubInv
  <2>3. live'[t] /\ \A x \in Targets : live[x] => live'[x]
    BY <1>12 DEF Push, ShownInv, PubInv, TypeOK
  <2>4. run["publish"].done \subseteq Targets
    BY <2>1, RunShape DEF ShownInv, PubInv
  <2> QED
    BY <2>1, <2>2, <2>3, <2>4 DEF ShownInv, Shown
<1>13. ASSUME NEW t \in Targets, PushFails(t) PROVE Shown'
  <2>1. run["publish"].pc # "idle" /\ crossed' = crossed
    BY <1>13 DEF AtTarget, PushFails, jobStepUnchanged
  <2>2. run'["publish"].pc # "record" /\ run'["publish"].done = run["publish"].done
    BY <1>13, <2>1, SkipMoves DEF PushFails, ShownInv, PubInv
  <2>3. \A x \in Targets : live[x] => live'[x]
    BY <1>13 DEF PushFails, MayTakeEffect, ShownInv, PubInv, TypeOK
  <2> QED
    BY <2>1, <2>2, <2>3, ShownMoves
<1>14. ASSUME NEW t \in Targets, PushRefused(t) PROVE Shown'
  <2>1. run["publish"].pc # "idle" /\ crossed' = crossed
    BY <1>14 DEF AtTarget, PushRefused, jobStepUnchanged
  <2>2. run'["publish"].pc # "record" /\ run'["publish"].done = run["publish"].done
    BY <1>14, <2>1, StepMoves DEF PushRefused, ShownInv, PubInv
  <2>3. \A x \in Targets : live[x] => live'[x]
    BY <1>14 DEF PushRefused, MayTakeEffect, ShownInv, PubInv, TypeOK
  <2> QED
    BY <2>1, <2>2, <2>3, ShownMoves
<1>15. ASSUME NEW t \in Targets, PushRecord(t) PROVE Shown'
  <2>1. run["publish"].pc = "record" /\ run["publish"].at = t /\ UNCHANGED <<live, crossed>>
    BY <1>15 DEF PushRecord, jobStepUnchanged
  <2>2. /\ run'["publish"].pc = "targets"
        /\ run'["publish"].done = run["publish"].done \cup {t}
    BY <1>15, <2>1, DoneMoves DEF PushRecord, ShownInv, PubInv
  <2> QED
    BY <2>1, <2>2, ShownMoves
<1>16. ASSUME NEW t \in Targets, MarkFailedRead(t) PROVE Shown'
  <2>1. run["publish"].pc # "idle" /\ crossed' = crossed
    BY <1>16 DEF MarkFailedRead, jobStepUnchanged
  <2>2. run'["publish"].pc # "record" /\ run'["publish"].done = run["publish"].done
    BY <1>16, <2>1, StepMoves, SkipMoves DEF MarkFailedRead, ShownInv, PubInv
  <2>3. \A x \in Targets : live[x] => live'[x]
    BY <1>16 DEF MarkFailedRead, rowVars, ShownInv, PubInv, TypeOK
  <2> QED
    BY <2>1, <2>2, <2>3, ShownMoves
<1>17. ASSUME NEW t \in Targets, MarkFailedWrite(t) PROVE Shown'
  <2>1. run["publish"].pc # "idle" /\ crossed' = crossed
    BY <1>17 DEF MarkFailedWrite, jobStepUnchanged
  <2>2. run'["publish"].pc # "record" /\ run'["publish"].done = run["publish"].done
    BY <1>17, <2>1, SkipMoves DEF MarkFailedWrite, ShownInv, PubInv
  <2>3. \A x \in Targets : live[x] => live'[x]
    BY <1>17 DEF MarkFailedWrite, ShownInv, PubInv, TypeOK
  <2> QED
    BY <2>1, <2>2, <2>3, ShownMoves
<1>18. ASSUME PublishRollup PROVE Shown'
  <2>1. run["publish"].pc # "idle" /\ UNCHANGED <<live, crossed>>
    BY <1>18 DEF PublishRollup, jobStepUnchanged, rowVars
  <2>2. run'["publish"].pc # "record" /\ run'["publish"].done = run["publish"].done
    BY <1>18, <2>1, StepMoves DEF PublishRollup, ShownInv, PubInv
  <2> QED
    BY <2>1, <2>2, ShownMoves
<1>19. ASSUME UnpublishStart PROVE Shown'
  <2>1. run'["publish"] = run["publish"]
    BY <1>19, StartMoves DEF UnpublishStart, OnlyRun, ShownInv, PubInv
  <2>2. run["publish"].pc # "idle" => crossed'
    BY <1>19 DEF UnpublishStart, ShownInv, PubInv, RunInv, RunsHeld
  <2> QED
    BY <2>1, <2>2, ShownStays
<1>20. ASSUME NEW t \in Targets, Withdraw(t) PROVE Shown'
  <2>1. run["unpublish"].pc # "idle" /\ crossed' = crossed
    BY <1>20 DEF AtTarget, Withdraw, jobStepUnchanged
  <2>2. OnlyRun("unpublish")
    BY <1>20, <2>1, StepMoves DEF Withdraw, ShownInv, PubInv
  <2> QED
    BY <2>1, <2>2, ShownUnderWithdrawal
<1>21. ASSUME NEW t \in Targets, WithdrawFails(t) PROVE Shown'
  <2>1. run["unpublish"].pc # "idle" /\ crossed' = crossed
    BY <1>21 DEF AtTarget, WithdrawFails, jobStepUnchanged
  <2>2. OnlyRun("unpublish")
    BY <1>21, <2>1, SkipMoves DEF WithdrawFails, ShownInv, PubInv
  <2> QED
    BY <2>1, <2>2, ShownUnderWithdrawal
<1>22. ASSUME NEW t \in Targets, WithdrawRefused(t) PROVE Shown'
  <2>1. run["unpublish"].pc # "idle" /\ crossed' = crossed
    BY <1>22 DEF AtTarget, WithdrawRefused, jobStepUnchanged
  <2>2. OnlyRun("unpublish")
    BY <1>22, <2>1, SkipMoves DEF WithdrawRefused, ShownInv, PubInv
  <2> QED
    BY <2>1, <2>2, ShownUnderWithdrawal
<1>23. ASSUME NEW t \in Targets, WithdrawRecord(t) PROVE Shown'
  <2>1. run["unpublish"].pc # "idle" /\ crossed' = crossed
    BY <1>23 DEF WithdrawRecord, jobStepUnchanged
  <2>2. OnlyRun("unpublish")
    BY <1>23, <2>1, DoneMoves DEF WithdrawRecord, ShownInv, PubInv
  <2> QED
    BY <2>1, <2>2, ShownUnderWithdrawal
<1>24. ASSUME UnpublishRollup PROVE Shown'
  <2>1. run["unpublish"].pc # "idle" /\ crossed' = crossed
    BY <1>24 DEF UnpublishRollup, jobStepUnchanged
  <2>2. OnlyRun("unpublish")
    BY <1>24, <2>1, StepMoves DEF UnpublishRollup, ShownInv, PubInv
  <2> QED
    BY <2>1, <2>2, ShownUnderWithdrawal
<1>25. ASSUME NEW j \in Jobs, JobEnds(j) PROVE Shown'
  <2>1. OnlyRun(j) /\ run'[j].pc = "idle"
    BY <1>25, EndMoves DEF JobEnds, ShownInv, PubInv
  <2>2. UNCHANGED <<live, crossed>>
    BY <1>25 DEF JobEnds, rowVars
  <2>3. CASE j = "publish"
    BY <2>1, <2>3 DEF Shown
  <2>4. CASE j = "unpublish"
    BY <2>1, <2>2, <2>4, ShownStays DEF OnlyRun
  <2> QED
    BY <2>3, <2>4
<1>26. ASSUME NEW j \in Jobs, WorkerDies(j) PROVE Shown'
  <2>1. OnlyRun(j) /\ run'[j].pc = "idle"
    BY <1>26, EndMoves DEF WorkerDies, ShownInv, PubInv
  <2>2. UNCHANGED <<live, crossed>>
    BY <1>26 DEF WorkerDies, rowVars
  <2>3. CASE j = "publish"
    BY <2>1, <2>3 DEF Shown
  <2>4. CASE j = "unpublish"
    BY <2>1, <2>2, <2>4, ShownStays DEF OnlyRun
  <2> QED
    BY <2>3, <2>4
<1>27. CASE UNCHANGED vars
  BY <1>27, ShownStays DEF vars, rowVars
<1> QED
  BY <1>1, <1>2, <1>3, <1>4, <1>5, <1>6, <1>7, <1>8, <1>9, <1>10, <1>11, <1>12, <1>13, <1>14, <1>15, <1>16, <1>17, <1>18, <1>19, <1>20, <1>21, <1>22, <1>23, <1>24, <1>25, <1>26, <1>27, Zenon
  DEF Next, JobStep, CallStep, PublishStep, UnpublishStep

LEMMA ShownInvariance == Spec => []ShownInv
<1>1. Init => ShownInv
  <2> SUFFICES ASSUME Init PROVE ShownInv
      OBVIOUS
  <2>1. run["publish"].pc = "idle"
    BY Names DEF Init, Idle
  <2> QED
    BY <2>1, InitPub DEF ShownInv, Shown
<1>2. ShownInv /\ [Next]_vars => ShownInv'
  BY TypeStep, RunInvStep, ShownStep DEF ShownInv, PubInv
<1> QED
  BY <1>1, <1>2, PTL DEF Spec

-----------------------------------------------------------------------------
(* Every column keeps its range, every handler its shape.                  *)
THEOREM TypeCorrect == Spec => []TypeOK
<1>1. PubInv => TypeOK
  BY DEF PubInv
<1> QED
  BY Invariance, <1>1, PTL

(* A target recorded as retracted is private at the provider, whatever was *)
(* lost and retried, unless a push or an attestation overlapped.           *)
THEOREM WithdrawalIsConfirmed == Spec => WithdrawalConfirmed
<1> DEFINE A == \A t \in Targets :
          row[t] # "retracted" /\ row'[t] = "retracted" => ~live[t] \/ crossed
<1>1. ASSUME PubInv, [Next]_vars PROVE A
  <2> SUFFICES ASSUME NEW x \in Targets, row[x] # "retracted", row'[x] = "retracted"
               PROVE  ~live[x] \/ crossed
      OBVIOUS
  <2>1. \E u \in Targets : WithdrawRecord(u)
    <3> SUFFICES ASSUME ~(\E u \in Targets : WithdrawRecord(u)) PROVE FALSE
        OBVIOUS
    <3>1. ASSUME NEW action \in {"review", "publish", "retract"}, Check(action) PROVE FALSE
      BY <3>1 DEF Check, rowVars, jobStepUnchanged, PubInv, TypeOK
    <3>2. ASSUME Review PROVE FALSE
      BY <3>2 DEF Review, rowVars, jobStepUnchanged, PubInv, TypeOK
    <3>3. ASSUME Publish PROVE FALSE
      BY <3>3 DEF Publish, rowVars, jobStepUnchanged, PubInv, TypeOK
    <3>4. ASSUME Retract PROVE FALSE
      BY <3>4 DEF Retract, rowVars, jobStepUnchanged, PubInv, TypeOK
    <3>5. ASSUME Settle PROVE FALSE
      BY <3>5 DEF Settle, rowVars, jobStepUnchanged, PubInv, TypeOK
    <3>6. ASSUME NEW c \in Callers, EnqueuePublish(c) PROVE FALSE
      BY <3>6 DEF EnqueuePublish, rowVars, jobStepUnchanged, PubInv, TypeOK
    <3>7. ASSUME NEW c \in Callers, CallerDies(c) PROVE FALSE
      BY <3>7 DEF CallerDies, rowVars, jobStepUnchanged, PubInv, TypeOK
    <3>8. ASSUME NEW t \in Targets, Attest(t) PROVE FALSE
      BY <3>8 DEF Attest, rowVars, jobStepUnchanged, PubInv, TypeOK
    <3>9. ASSUME PublishStart PROVE FALSE
      BY <3>9 DEF PublishStart, rowVars, jobStepUnchanged, PubInv, TypeOK
    <3>10. ASSUME PublishDisabled PROVE FALSE
      BY <3>10 DEF PublishDisabled, rowVars, jobStepUnchanged, PubInv, TypeOK
    <3>11. ASSUME NEW t \in Targets, PushUnconfigured(t) PROVE FALSE
      BY <3>11 DEF PushUnconfigured, rowVars, jobStepUnchanged, PubInv, TypeOK
    <3>12. ASSUME NEW t \in Targets, Push(t) PROVE FALSE
      BY <3>12 DEF Push, rowVars, jobStepUnchanged, PubInv, TypeOK
    <3>13. ASSUME NEW t \in Targets, PushFails(t) PROVE FALSE
      BY <3>13 DEF PushFails, rowVars, jobStepUnchanged, PubInv, TypeOK
    <3>14. ASSUME NEW t \in Targets, PushRefused(t) PROVE FALSE
      BY <3>14 DEF PushRefused, rowVars, jobStepUnchanged, PubInv, TypeOK
    <3>15. ASSUME NEW t \in Targets, PushRecord(t) PROVE FALSE
      BY <3>15 DEF PushRecord, rowVars, jobStepUnchanged, PubInv, TypeOK
    <3>16. ASSUME NEW t \in Targets, MarkFailedRead(t) PROVE FALSE
      BY <3>16 DEF MarkFailedRead, rowVars, jobStepUnchanged, PubInv, TypeOK
    <3>17. ASSUME NEW t \in Targets, MarkFailedWrite(t) PROVE FALSE
      BY <3>17 DEF MarkFailedWrite, rowVars, jobStepUnchanged, PubInv, TypeOK
    <3>18. ASSUME PublishRollup PROVE FALSE
      BY <3>18 DEF PublishRollup, rowVars, jobStepUnchanged, PubInv, TypeOK
    <3>19. ASSUME UnpublishStart PROVE FALSE
      BY <3>19 DEF UnpublishStart, rowVars, jobStepUnchanged, PubInv, TypeOK
    <3>20. ASSUME NEW t \in Targets, Withdraw(t) PROVE FALSE
      BY <3>20 DEF Withdraw, rowVars, jobStepUnchanged, PubInv, TypeOK
    <3>21. ASSUME NEW t \in Targets, WithdrawFails(t) PROVE FALSE
      BY <3>21 DEF WithdrawFails, rowVars, jobStepUnchanged, PubInv, TypeOK
    <3>22. ASSUME NEW t \in Targets, WithdrawRefused(t) PROVE FALSE
      BY <3>22 DEF WithdrawRefused, rowVars, jobStepUnchanged, PubInv, TypeOK
    <3>24. ASSUME UnpublishRollup PROVE FALSE
      BY <3>24 DEF UnpublishRollup, rowVars, jobStepUnchanged, PubInv, TypeOK
    <3>25. ASSUME NEW j \in Jobs, JobEnds(j) PROVE FALSE
      BY <3>25 DEF JobEnds, rowVars, jobStepUnchanged, PubInv, TypeOK
    <3>26. ASSUME NEW j \in Jobs, WorkerDies(j) PROVE FALSE
      BY <3>26 DEF WorkerDies, rowVars, jobStepUnchanged, PubInv, TypeOK
    <3>27. CASE UNCHANGED vars
      BY <3>27 DEF vars, rowVars
    <3> QED
      BY <1>1, <3>1, <3>2, <3>3, <3>4, <3>5, <3>6, <3>7, <3>8, <3>9,
         <3>10, <3>11, <3>12, <3>13, <3>14, <3>15, <3>16, <3>17, <3>18,
         <3>19, <3>20, <3>21, <3>22, <3>24, <3>25, <3>26, <3>27, Zenon
      DEF Next, JobStep, CallStep, PublishStep, UnpublishStep
  <2>2. PICK u \in Targets : WithdrawRecord(u)
    BY <2>1
  <2>3. u = x
    BY <1>1, <2>2 DEF WithdrawRecord, PubInv, TypeOK
  <2> QED
    BY <1>1, <2>2, <2>3 DEF WithdrawRecord, PubInv, RunInv, Confirmed
<1> QED
  BY Invariance, <1>1, PTL DEF Spec, WithdrawalConfirmed

(* The bounty is shown as retracted only with no target left published.    *)
THEOREM RollupIsComplete == Spec => RollupComplete
<1> DEFINE A == bounty # "retracted" /\ bounty' = "retracted"
          => crossed \/ \A t \in Targets : row[t] # "published"
<1>1. ASSUME PubInv, [Next]_vars PROVE A
  <2> SUFFICES ASSUME bounty # "retracted", bounty' = "retracted"
               PROVE  crossed \/ \A t \in Targets : row[t] # "published"
      OBVIOUS
  <2>1. UnpublishRollup
    <3> SUFFICES ASSUME ~(UnpublishRollup) PROVE FALSE
        OBVIOUS
    <3>1. ASSUME NEW action \in {"review", "publish", "retract"}, Check(action) PROVE FALSE
      BY <3>1 DEF Check, rowVars, jobStepUnchanged, PubInv, TypeOK
    <3>2. ASSUME Review PROVE FALSE
      BY <3>2 DEF Review, rowVars, jobStepUnchanged, PubInv, TypeOK
    <3>3. ASSUME Publish PROVE FALSE
      BY <3>3 DEF Publish, rowVars, jobStepUnchanged, PubInv, TypeOK
    <3>4. ASSUME Retract PROVE FALSE
      BY <3>4 DEF Retract, rowVars, jobStepUnchanged, PubInv, TypeOK
    <3>5. ASSUME Settle PROVE FALSE
      BY <3>5 DEF Settle, rowVars, jobStepUnchanged, PubInv, TypeOK
    <3>6. ASSUME NEW c \in Callers, EnqueuePublish(c) PROVE FALSE
      BY <3>6 DEF EnqueuePublish, rowVars, jobStepUnchanged, PubInv, TypeOK
    <3>7. ASSUME NEW c \in Callers, CallerDies(c) PROVE FALSE
      BY <3>7 DEF CallerDies, rowVars, jobStepUnchanged, PubInv, TypeOK
    <3>8. ASSUME NEW t \in Targets, Attest(t) PROVE FALSE
      BY <3>8 DEF Attest, rowVars, jobStepUnchanged, PubInv, TypeOK
    <3>9. ASSUME PublishStart PROVE FALSE
      BY <3>9 DEF PublishStart, rowVars, jobStepUnchanged, PubInv, TypeOK
    <3>10. ASSUME PublishDisabled PROVE FALSE
      BY <3>10 DEF PublishDisabled, rowVars, jobStepUnchanged, PubInv, TypeOK
    <3>11. ASSUME NEW t \in Targets, PushUnconfigured(t) PROVE FALSE
      BY <3>11 DEF PushUnconfigured, rowVars, jobStepUnchanged, PubInv, TypeOK
    <3>12. ASSUME NEW t \in Targets, Push(t) PROVE FALSE
      BY <3>12 DEF Push, rowVars, jobStepUnchanged, PubInv, TypeOK
    <3>13. ASSUME NEW t \in Targets, PushFails(t) PROVE FALSE
      BY <3>13 DEF PushFails, rowVars, jobStepUnchanged, PubInv, TypeOK
    <3>14. ASSUME NEW t \in Targets, PushRefused(t) PROVE FALSE
      BY <3>14 DEF PushRefused, rowVars, jobStepUnchanged, PubInv, TypeOK
    <3>15. ASSUME NEW t \in Targets, PushRecord(t) PROVE FALSE
      BY <3>15 DEF PushRecord, rowVars, jobStepUnchanged, PubInv, TypeOK
    <3>16. ASSUME NEW t \in Targets, MarkFailedRead(t) PROVE FALSE
      BY <3>16 DEF MarkFailedRead, rowVars, jobStepUnchanged, PubInv, TypeOK
    <3>17. ASSUME NEW t \in Targets, MarkFailedWrite(t) PROVE FALSE
      BY <3>17 DEF MarkFailedWrite, rowVars, jobStepUnchanged, PubInv, TypeOK
    <3>18. ASSUME PublishRollup PROVE FALSE
      BY <3>18 DEF PublishRollup, rowVars, jobStepUnchanged, PubInv, TypeOK
    <3>19. ASSUME UnpublishStart PROVE FALSE
      BY <3>19 DEF UnpublishStart, rowVars, jobStepUnchanged, PubInv, TypeOK
    <3>20. ASSUME NEW t \in Targets, Withdraw(t) PROVE FALSE
      BY <3>20 DEF Withdraw, rowVars, jobStepUnchanged, PubInv, TypeOK
    <3>21. ASSUME NEW t \in Targets, WithdrawFails(t) PROVE FALSE
      BY <3>21 DEF WithdrawFails, rowVars, jobStepUnchanged, PubInv, TypeOK
    <3>22. ASSUME NEW t \in Targets, WithdrawRefused(t) PROVE FALSE
      BY <3>22 DEF WithdrawRefused, rowVars, jobStepUnchanged, PubInv, TypeOK
    <3>23. ASSUME NEW t \in Targets, WithdrawRecord(t) PROVE FALSE
      BY <3>23 DEF WithdrawRecord, rowVars, jobStepUnchanged, PubInv, TypeOK
    <3>25. ASSUME NEW j \in Jobs, JobEnds(j) PROVE FALSE
      BY <3>25 DEF JobEnds, rowVars, jobStepUnchanged, PubInv, TypeOK
    <3>26. ASSUME NEW j \in Jobs, WorkerDies(j) PROVE FALSE
      BY <3>26 DEF WorkerDies, rowVars, jobStepUnchanged, PubInv, TypeOK
    <3>27. CASE UNCHANGED vars
      BY <3>27 DEF vars, rowVars
    <3> QED
      BY <1>1, <3>1, <3>2, <3>3, <3>4, <3>5, <3>6, <3>7, <3>8, <3>9,
         <3>10, <3>11, <3>12, <3>13, <3>14, <3>15, <3>16, <3>17, <3>18,
         <3>19, <3>20, <3>21, <3>22, <3>23, <3>25, <3>26, <3>27, Zenon
      DEF Next, JobStep, CallStep, PublishStep, UnpublishStep
  <2> QED
    BY <1>1, <2>1 DEF UnpublishRollup, WithdrewAll, PubInv, RunInv, Listed
<1> QED
  BY Invariance, <1>1, PTL DEF Spec, RollupComplete

(* The bounty becomes published only with a target the public can see.     *)
THEOREM PublicationIsShown == Spec => PublishedIsPublic
<1> DEFINE A == bounty # "published" /\ bounty' = "published"
          => crossed' \/ \E t \in Targets : live'[t]
<1>1. ASSUME ShownInv, [Next]_vars PROVE A
  <2> SUFFICES ASSUME bounty # "published", bounty' = "published"
               PROVE  crossed' \/ \E t \in Targets : live'[t]
      OBVIOUS
  <2>0. bounty' # bounty
    OBVIOUS
  <2>1. PublishRollup \/ \E t \in Targets : Attest(t)
    <3> SUFFICES ASSUME ~(PublishRollup \/ \E t \in Targets : Attest(t)) PROVE FALSE
        OBVIOUS
    <3>1. ASSUME NEW action \in {"review", "publish", "retract"}, Check(action) PROVE FALSE
      BY <3>1 DEF Check, rowVars, jobStepUnchanged, ShownInv, PubInv, TypeOK
    <3>2. ASSUME Review PROVE FALSE
      BY <3>2 DEF Review, rowVars, jobStepUnchanged, ShownInv, PubInv, TypeOK
    <3>3. ASSUME Publish PROVE FALSE
      BY <3>3 DEF Publish, rowVars, jobStepUnchanged, ShownInv, PubInv, TypeOK
    <3>4. ASSUME Retract PROVE FALSE
      BY <3>4 DEF Retract, rowVars, jobStepUnchanged, ShownInv, PubInv, TypeOK
    <3>5. ASSUME Settle PROVE FALSE
      BY <3>5 DEF Settle, rowVars, jobStepUnchanged, ShownInv, PubInv, TypeOK
    <3>6. ASSUME NEW c \in Callers, EnqueuePublish(c) PROVE FALSE
      BY <3>6 DEF EnqueuePublish, rowVars, jobStepUnchanged, ShownInv, PubInv, TypeOK
    <3>7. ASSUME NEW c \in Callers, CallerDies(c) PROVE FALSE
      BY <3>7 DEF CallerDies, rowVars, jobStepUnchanged, ShownInv, PubInv, TypeOK
    <3>8. ASSUME PublishStart PROVE FALSE
      BY <3>8 DEF PublishStart, rowVars, jobStepUnchanged, ShownInv, PubInv, TypeOK
    <3>9. ASSUME PublishDisabled PROVE FALSE
      BY <3>9 DEF PublishDisabled, rowVars, jobStepUnchanged, ShownInv, PubInv, TypeOK
    <3>10. ASSUME NEW t \in Targets, PushUnconfigured(t) PROVE FALSE
      BY <3>10 DEF PushUnconfigured, rowVars, jobStepUnchanged, ShownInv, PubInv, TypeOK
    <3>11. ASSUME NEW t \in Targets, Push(t) PROVE FALSE
      BY <3>11 DEF Push, rowVars, jobStepUnchanged, ShownInv, PubInv, TypeOK
    <3>12. ASSUME NEW t \in Targets, PushFails(t) PROVE FALSE
      BY <3>12 DEF PushFails, rowVars, jobStepUnchanged, ShownInv, PubInv, TypeOK
    <3>13. ASSUME NEW t \in Targets, PushRefused(t) PROVE FALSE
      BY <3>13 DEF PushRefused, rowVars, jobStepUnchanged, ShownInv, PubInv, TypeOK
    <3>14. ASSUME NEW t \in Targets, PushRecord(t) PROVE FALSE
      BY <3>14 DEF PushRecord, rowVars, jobStepUnchanged, ShownInv, PubInv, TypeOK
    <3>15. ASSUME NEW t \in Targets, MarkFailedRead(t) PROVE FALSE
      BY <3>15 DEF MarkFailedRead, rowVars, jobStepUnchanged, ShownInv, PubInv, TypeOK
    <3>16. ASSUME NEW t \in Targets, MarkFailedWrite(t) PROVE FALSE
      BY <3>16 DEF MarkFailedWrite, rowVars, jobStepUnchanged, ShownInv, PubInv, TypeOK
    <3>17. ASSUME UnpublishStart PROVE FALSE
      BY <3>17 DEF UnpublishStart, rowVars, jobStepUnchanged, ShownInv, PubInv, TypeOK
    <3>18. ASSUME NEW t \in Targets, Withdraw(t) PROVE FALSE
      BY <3>18 DEF Withdraw, rowVars, jobStepUnchanged, ShownInv, PubInv, TypeOK
    <3>19. ASSUME NEW t \in Targets, WithdrawFails(t) PROVE FALSE
      BY <3>19 DEF WithdrawFails, rowVars, jobStepUnchanged, ShownInv, PubInv, TypeOK
    <3>20. ASSUME NEW t \in Targets, WithdrawRefused(t) PROVE FALSE
      BY <3>20 DEF WithdrawRefused, rowVars, jobStepUnchanged, ShownInv, PubInv, TypeOK
    <3>21. ASSUME NEW t \in Targets, WithdrawRecord(t) PROVE FALSE
      BY <3>21 DEF WithdrawRecord, rowVars, jobStepUnchanged, ShownInv, PubInv, TypeOK
    <3>22. ASSUME UnpublishRollup PROVE FALSE
      BY <3>22 DEF UnpublishRollup, rowVars, jobStepUnchanged, ShownInv, PubInv, TypeOK
    <3>23. ASSUME NEW j \in Jobs, JobEnds(j) PROVE FALSE
      BY <3>23 DEF JobEnds, rowVars, jobStepUnchanged, ShownInv, PubInv, TypeOK
    <3>24. ASSUME NEW j \in Jobs, WorkerDies(j) PROVE FALSE
      BY <3>24 DEF WorkerDies, rowVars, jobStepUnchanged, ShownInv, PubInv, TypeOK
    <3>25. CASE UNCHANGED vars
      BY <3>25, <2>0 DEF vars
    <3> QED
      BY <1>1, <3>1, <3>2, <3>3, <3>4, <3>5, <3>6, <3>7, <3>8, <3>9, <3>10, <3>11, <3>12, <3>13, <3>14, <3>15, <3>16, <3>17, <3>18, <3>19, <3>20, <3>21, <3>22, <3>23, <3>24, <3>25, Zenon
      DEF Next, JobStep, CallStep, PublishStep, UnpublishStep
  <2>2. ASSUME NEW t \in Targets, Attest(t) PROVE live'[t]
    BY <1>1, <2>2 DEF Attest, ShownInv, PubInv, TypeOK
  <2>3. CASE PublishRollup
    <3>1. "huggingface" \in run["publish"].done
      BY <2>0, <2>3 DEF PublishRollup
    <3>2. run["publish"].pc # "idle" /\ UNCHANGED <<live, crossed>>
      BY <2>3 DEF PublishRollup, jobStepUnchanged, rowVars
    <3>3. crossed \/ live["huggingface"]
      BY <1>1, <3>1, <3>2 DEF ShownInv, Shown
    <3> QED
      BY <3>2, <3>3 DEF Targets
  <2> QED
    BY <2>1, <2>2, <2>3
<1> QED
  BY ShownInvariance, <1>1, PTL DEF Spec, PublishedIsPublic
-----------------------------------------------------------------------------
BoardMove == [Board!Next]_(Board!vars)

LEMMA EnqueueMoves == ASSUME NEW j \in Jobs, Enqueue(j) PROVE BoardMove
  BY DEF Enqueue, BoardMove, Board!Next, Board!vars, boardVars

LEMMA HolderMoves ==
    ASSUME NEW j \in Jobs,
           \/ Board!Take(j, j) \/ Board!Finish(j, j)
           \/ Board!Fail(j, j) \/ Board!Abandon(j, j)
    PROVE  BoardMove
  BY DEF BoardMove, Board!Next, Workers

LEMMA BoardStays == UNCHANGED boardVars => BoardMove
  BY DEF boardVars, BoardMove, Board!vars

(* Every step is one of the board's, or does not touch it.                 *)
LEMMA BoardStep == [Next]_vars => BoardMove
<1> SUFFICES ASSUME [Next]_vars PROVE BoardMove
    OBVIOUS
<1> USE Names
<1>1. ASSUME NEW action \in {"review", "publish", "retract"}, Check(action) PROVE BoardMove
  BY <1>1, BoardStays DEF Check
<1>2. ASSUME Review PROVE BoardMove
  BY <1>2, BoardStays DEF Review
<1>3. ASSUME Publish PROVE BoardMove
  BY <1>3, BoardStays DEF Publish
<1>4. ASSUME Retract PROVE BoardMove
  BY <1>4, EnqueueMoves DEF Retract
<1>5. ASSUME Settle PROVE BoardMove
  BY <1>5, BoardStays DEF Settle
<1>6. ASSUME NEW c \in Callers, EnqueuePublish(c) PROVE BoardMove
  BY <1>6, EnqueueMoves DEF EnqueuePublish
<1>7. ASSUME NEW c \in Callers, CallerDies(c) PROVE BoardMove
  BY <1>7, BoardStays DEF CallerDies
<1>8. ASSUME NEW t \in Targets, Attest(t) PROVE BoardMove
  BY <1>8, BoardStays DEF Attest
<1>9. ASSUME PublishStart PROVE BoardMove
  BY <1>9, HolderMoves DEF PublishStart
<1>10. ASSUME PublishDisabled PROVE BoardMove
  BY <1>10, HolderMoves DEF PublishDisabled
<1>11. ASSUME NEW t \in Targets, PushUnconfigured(t) PROVE BoardMove
  BY <1>11, BoardStays DEF PushUnconfigured, jobStepUnchanged
<1>12. ASSUME NEW t \in Targets, Push(t) PROVE BoardMove
  BY <1>12, BoardStays DEF Push, jobStepUnchanged
<1>13. ASSUME NEW t \in Targets, PushFails(t) PROVE BoardMove
  BY <1>13, BoardStays DEF PushFails, jobStepUnchanged
<1>14. ASSUME NEW t \in Targets, PushRefused(t) PROVE BoardMove
  BY <1>14, BoardStays DEF PushRefused, jobStepUnchanged
<1>15. ASSUME NEW t \in Targets, PushRecord(t) PROVE BoardMove
  BY <1>15, BoardStays DEF PushRecord, jobStepUnchanged
<1>16. ASSUME NEW t \in Targets, MarkFailedRead(t) PROVE BoardMove
  BY <1>16, BoardStays DEF MarkFailedRead, jobStepUnchanged
<1>17. ASSUME NEW t \in Targets, MarkFailedWrite(t) PROVE BoardMove
  BY <1>17, BoardStays DEF MarkFailedWrite, jobStepUnchanged
<1>18. ASSUME PublishRollup PROVE BoardMove
  BY <1>18, BoardStays DEF PublishRollup, jobStepUnchanged
<1>19. ASSUME UnpublishStart PROVE BoardMove
  BY <1>19, HolderMoves DEF UnpublishStart
<1>20. ASSUME NEW t \in Targets, Withdraw(t) PROVE BoardMove
  BY <1>20, BoardStays DEF Withdraw, jobStepUnchanged
<1>21. ASSUME NEW t \in Targets, WithdrawFails(t) PROVE BoardMove
  BY <1>21, BoardStays DEF WithdrawFails, jobStepUnchanged
<1>22. ASSUME NEW t \in Targets, WithdrawRefused(t) PROVE BoardMove
  BY <1>22, BoardStays DEF WithdrawRefused, jobStepUnchanged
<1>23. ASSUME NEW t \in Targets, WithdrawRecord(t) PROVE BoardMove
  BY <1>23, BoardStays DEF WithdrawRecord, jobStepUnchanged
<1>24. ASSUME UnpublishRollup PROVE BoardMove
  BY <1>24, BoardStays DEF UnpublishRollup, jobStepUnchanged
<1>25. ASSUME NEW j \in Jobs, JobEnds(j) PROVE BoardMove
  BY <1>25, HolderMoves DEF JobEnds
<1>26. ASSUME NEW j \in Jobs, WorkerDies(j) PROVE BoardMove
  BY <1>26, HolderMoves DEF WorkerDies
<1>27. CASE UNCHANGED vars
  BY <1>27, BoardStays DEF vars
<1> QED
  BY <1>1, <1>2, <1>3, <1>4, <1>5, <1>6, <1>7, <1>8, <1>9,
     <1>10, <1>11, <1>12, <1>13, <1>14, <1>15, <1>16, <1>17, <1>18,
     <1>19, <1>20, <1>21, <1>22, <1>23, <1>24, <1>25, <1>26, <1>27, Zenon
  DEF Next, JobStep, CallStep, PublishStep, UnpublishStep

(* The two publication jobs use the queue as its board allows, so what     *)
(* JobQueue implements is all they rely on, and a handler that ends can    *)
(* always report it: it still holds its job.                               *)
THEOREM PublicationUsesBoard == Spec => Board!Spec /\ []RunsHeld
<1>1. Init => Board!Init
  BY DEF Init
<1>2. [Next]_vars => [Board!Next]_(Board!vars)
  BY BoardStep DEF BoardMove
<1>3. PubInv => RunsHeld
  BY DEF PubInv, RunInv
<1> QED
  BY <1>1, <1>2, <1>3, Invariance, PTL DEF Spec, Board!Spec
=============================================================================
