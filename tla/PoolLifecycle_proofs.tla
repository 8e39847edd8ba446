------------------------ MODULE PoolLifecycle_proofs ------------------------
(***************************************************************************)
(* What PoolLifecycle promises for every number of items and workers, and  *)
(* for every bound on disputes, revisions, crashes and reruns: its types,  *)
(* and that no item is accepted without a person's verdict.                *)
(***************************************************************************)
EXTENDS PoolLifecycle, FiniteSetTheorems, TLAPS

(* Automation lets an item wait for the draw only with the mark that makes *)
(* the draw take it (validation.ts pendingHumanReview).                    *)
WaitingIsMarked ==
    \A i \in Items : status[i] = "accepted_pending_sample" => review[i]

(* Every dispute, being filed or open, was counted. *)
DisputesFiled == \A i \in Items : disputing[i] + disputes[i] <= filed

IInv == TypeOK /\ WaitingIsMarked /\ DisputesFiled

-----------------------------------------------------------------------------
(* Counting slots, or final acceptances, yields a number.                  *)
LEMMA SlotsNat ==
    ASSUME NEW st
    PROVE  Slots(st) \in Nat
<1>1. IsFiniteSet({i \in Items : st[i] \in HoldsSlot})
  BY PoolAssumption, FS_Subset
<1> QED
  BY <1>1, FS_CardinalityType DEF Slots

(* A recount writes columns of the right type, whatever it finds.          *)
LEMMA RecountTypes ==
    ASSUME TypeOK, NEW st, RecountWithout(st)
    PROVE  /\ acceptedItems' \in Nat
           /\ closed' \in BOOLEAN
           /\ window' \in {"none", "running", "elapsed"}
           /\ bounty' \in {"active", "completed", "partially_completed"}
           /\ sampleJob' \in {"none", "pending", "processing", "done"}
<1>1. Slots(st) \in Nat
  BY SlotsNat
<1> QED
  BY <1>1 DEF RecountWithout, TypeOK, WindowAtClose, SamplingArmed, Closes, Reopens

-----------------------------------------------------------------------------
(* The pool starts empty, with nothing to mark.                            *)
LEMMA InitIInv == Init => IInv
<1> SUFFICES ASSUME Init PROVE IInv
    OBVIOUS
<1> USE PoolAssumption DEF Init
<1>1. sweep \in [at : {"idle", "due", "counted", "publish"},
                 sponsor : BOOLEAN, full : BOOLEAN]
  BY DEF SweepIdle
<1>2. TypeOK
  <2>1. /\ status \in [Items -> Statuses]
        /\ revise \in [Items -> {"idle", "checked", "claimed"}]
    BY DEF Statuses
  <2>2. /\ attempt \in [Items -> 0..MaxAttempt]
        /\ revisions \in [Items -> 0..MaxRevisions]
        /\ disputing \in [Items -> 0..MaxDisputes]
        /\ disputes \in [Items -> 0..MaxDisputes]
        /\ filed \in 0..MaxDisputes
        /\ aborts \in 0..MaxAborts
    OBVIOUS
  <2>3. /\ pc \in [Workers -> {"idle"} \cup Validating \cup Sampling]
        /\ \A w \in Workers : pc[w] \in Validating => job[w] \in Tries
    BY DEF Validating
  <2>4. job \in [Workers -> Tries \cup {NoTry}]
    OBVIOUS
  <2> QED
    BY <1>1, <2>1, <2>2, <2>3, <2>4 DEF TypeOK
<1>3. WaitingIsMarked /\ DisputesFiled
  BY DEF WaitingIsMarked, DisputesFiled
<1> QED
  BY <1>2, <1>3 DEF IInv

(* Every step of a worker, a sweep or a route keeps the invariant.         *)
LEMMA InductiveStep == IInv /\ [Next]_vars => IInv'
<1> SUFFICES ASSUME IInv, [Next]_vars PROVE IInv'
    OBVIOUS
<1> USE PoolAssumption
    DEF IInv, TypeOK, WaitingIsMarked, DisputesFiled, Statuses, Tries, Validating,
        Sampling, itemVars, bountyVars, workVars, routeVars, sweepVars
<1>1. ASSUME NEW w \in Workers, NEW t \in Tries, ValidateStart(w, t) PROVE IInv'
  BY <1>1 DEF ValidateStart, Goto
<1>2. ASSUME NEW w \in Workers, ValidateFails(w) PROVE IInv'
  BY <1>2 DEF ValidateFails, Goto, Update, Evidence, ItemOf, TryOf
<1>3. ASSUME NEW w \in Workers, ValidatePasses(w) PROVE IInv'
  <2>1. ItemOf(w) \in Items
    BY <1>3 DEF ValidatePasses, ItemOf
  <2>2. acceptedItems' \in Nat
    BY <1>3 DEF ValidatePasses
  <2>3. status' \in [Items -> Statuses] /\ failed' \in [Items -> BOOLEAN]
    BY <1>3, <2>1 DEF ValidatePasses, Update, Evidence
  <2>4. review' \in [Items -> BOOLEAN]
    BY <1>3 DEF ValidatePasses, ReviewMark
  <2>6. WaitingIsMarked'
    BY <1>3, <2>1 DEF ValidatePasses, Update, ReviewMark
  <2>5. pc' \in [Workers -> {"idle"} \cup Validating \cup Sampling]
        /\ \A u \in Workers : pc'[u] \in Validating => job'[u] \in Tries
    BY <1>3 DEF ValidatePasses, Goto
  <2> QED
    BY <1>3, <2>2, <2>3, <2>4, <2>5, <2>6 DEF ValidatePasses
<1>4. ASSUME NEW w \in Workers, RecordLoss(w) PROVE IInv'
  BY <1>4 DEF RecordLoss, Goto, Evidence, ItemOf, TryOf
<1>5. ASSUME NEW w \in Workers, CloseRead(w) PROVE IInv'
  BY <1>5 DEF CloseRead, Goto
<1>6. ASSUME NEW w \in Workers, CloseClaim(w) PROVE IInv'
  BY <1>6 DEF CloseClaim, Goto, WindowAtClose
<1>7. ASSUME NEW w \in Workers, CloseArm(w) PROVE IInv'
  BY <1>7 DEF CloseArm, Goto, SamplingArmed
<1>8. ASSUME NEW w \in Workers, ValidateAck(w) PROVE IInv'
  BY <1>8 DEF ValidateAck, Idles, Goto, Acked
<1>9. ASSUME NEW w \in Workers, SampleStart(w) PROVE IInv'
  BY <1>9 DEF SampleStart, Goto
<1>10. ASSUME NEW w \in Workers, SampleRead(w) PROVE IInv'
  BY <1>10 DEF SampleRead, Goto
<1>11. ASSUME NEW w \in Workers, SampleDraw(w) PROVE IInv'
  <2>1. /\ acceptedItems' \in Nat
        /\ closed' \in BOOLEAN
        /\ window' \in {"none", "running", "elapsed"}
        /\ bounty' \in {"active", "completed", "partially_completed"}
        /\ sampleJob' \in {"none", "pending", "processing", "done"}
    BY <1>11, RecountTypes DEF SampleDraw
  <2>2. sampled' \in BOOLEAN
    BY <1>11 DEF SampleDraw
  <2>3. status' \in [Items -> Statuses]
    BY <1>11 DEF SampleDraw, Reviewer
  <2>4. WaitingIsMarked'
    BY <1>11 DEF SampleDraw, Reviewer
  <2>5. pc' \in [Workers -> {"idle"} \cup Validating \cup Sampling]
        /\ \A u \in Workers : pc'[u] \in Validating => job'[u] \in Tries
    BY <1>11 DEF SampleDraw, Goto
  <2> QED
    BY <1>11, <2>1, <2>2, <2>3, <2>4, <2>5 DEF SampleDraw
<1>12. ASSUME NEW w \in Workers, SampleAck(w) PROVE IInv'
  BY <1>12 DEF SampleAck, Goto
<1>13. ASSUME NEW w \in Workers, Abort(w) PROVE IInv'
  BY <1>13 DEF Abort, Idles, Goto
<1>14. ASSUME ReconcileList PROVE IInv'
  BY <1>14 DEF ReconcileList
<1>15. ASSUME ReconcileRecount PROVE IInv'
  BY <1>15, RecountTypes DEF ReconcileRecount, Recount
<1>16. ASSUME SettleRead PROVE IInv'
  BY <1>16 DEF SettleRead
<1>17. ASSUME SettleCount PROVE IInv'
  <2>1. (Final(status) >= Target) \in BOOLEAN
    OBVIOUS
  <2>2. sweep' \in [at : {"idle", "due", "counted", "publish"},
                    sponsor : BOOLEAN, full : BOOLEAN]
    BY <1>17, <2>1 DEF SettleCount, SweepIdle
  <2> QED
    BY <1>17, <2>2 DEF SettleCount
<1>18. ASSUME SettleReopen PROVE IInv'
  BY <1>18 DEF SettleReopen, SweepIdle
<1>19. ASSUME SettleWrite PROVE IInv'
  <2>1. sweep' \in [at : {"idle", "due", "counted", "publish"},
                    sponsor : BOOLEAN, full : BOOLEAN]
    <3>1. sweep' = SweepIdle \/ sweep' = [sweep EXCEPT !.at = "publish"]
      BY <1>19, Zenon DEF SettleWrite
    <3>2. [sweep EXCEPT !.at = "publish"] \in
             [at : {"idle", "due", "counted", "publish"},
              sponsor : BOOLEAN, full : BOOLEAN]
      OBVIOUS
    <3>3. SweepIdle \in [at : {"idle", "due", "counted", "publish"},
                        sponsor : BOOLEAN, full : BOOLEAN]
      BY DEF SweepIdle
    <3> QED
      BY <3>1, <3>2, <3>3, Zenon
  <2>2. /\ bounty' \in {"active", "completed", "partially_completed"}
        /\ published' \in {"no", "pending", "queued"}
    BY <1>19 DEF SettleWrite
  <2> QED
    BY <1>19, <2>1, <2>2 DEF SettleWrite
<1>20. ASSUME SettlePublish PROVE IInv'
  BY <1>20 DEF SettlePublish, SweepIdle
<1>21. ASSUME SweepCrash PROVE IInv'
  BY <1>21 DEF SweepCrash, SweepIdle
<1>22. ASSUME WindowElapses PROVE IInv'
  BY <1>22 DEF WindowElapses
<1>23. ASSUME SponsorClose PROVE IInv'
  BY <1>23 DEF SponsorClose, WindowAtClose, SamplingArmed
<1>24. ASSUME NEW i \in Items, IntakeCheck(i) PROVE IInv'
  BY <1>24 DEF IntakeCheck, Update
<1>25. ASSUME NEW i \in Items, IntakeCreate(i) PROVE IInv'
  BY <1>25 DEF IntakeCreate, Update, Enqueued
<1>26. ASSUME NEW i \in Items, ReviseCheck(i) PROVE IInv'
  BY <1>26 DEF ReviseCheck, Update
<1>27. ASSUME NEW i \in Items, ReviseClaim(i) PROVE IInv'
  BY <1>27 DEF ReviseClaim, Update
<1>28. ASSUME NEW i \in Items, ReviseWrite(i) PROVE IInv'
  BY <1>28 DEF ReviseWrite, Update
<1>29. ASSUME NEW i \in Items, RerunCheck(i) PROVE IInv'
  BY <1>29 DEF RerunCheck
<1>30. ASSUME NEW i \in Items, AuditDecide(i) PROVE IInv'
  BY <1>30, RecountTypes DEF AuditDecide, Update, Recount
<1>31. ASSUME NEW i \in Items, DisputeCheck(i) PROVE IInv'
  BY <1>31 DEF DisputeCheck, Update
<1>32. ASSUME NEW i \in Items, DisputeFile(i) PROVE IInv'
  BY <1>32 DEF DisputeFile, Update
<1>33. ASSUME NEW i \in Items, Resolve(i) PROVE IInv'
  <2>1. /\ acceptedItems' \in Nat
        /\ closed' \in BOOLEAN
        /\ window' \in {"none", "running", "elapsed"}
        /\ bounty' \in {"active", "completed", "partially_completed"}
        /\ sampleJob' \in {"none", "pending", "processing", "done"}
        /\ sampled' \in BOOLEAN
    BY <1>33, RecountTypes DEF Resolve, RulingRecount, Recount
  <2>2. status' \in [Items -> Statuses] /\ WaitingIsMarked'
    BY <1>33 DEF Resolve, Update
  <2>3. decided' \in [Items -> BOOLEAN]
    BY <1>33 DEF Resolve, Update
  <2>4. disputes' \in [Items -> 0..MaxDisputes] /\ DisputesFiled'
    BY <1>33 DEF Resolve, Update
  <2> QED
    BY <1>33, <2>1, <2>2, <2>3, <2>4 DEF Resolve
<1>34. ASSUME NEW i \in Items, NEW v \in {"accept", "reject"}, ReviewCheck(i, v) PROVE IInv'
  BY <1>34 DEF ReviewCheck
<1>35. ASSUME NEW i \in Items, NEW v \in {"accept", "reject"}, ReviewWrite(i, v) PROVE IInv'
  BY <1>35, RecountTypes DEF ReviewWrite, Update, Recount
<1>36. ASSUME NEW t \in Tries, ReviseArm(t) PROVE IInv'
  BY <1>36 DEF ReviseArm, Enqueued
<1>37. ASSUME NEW t \in Tries, ReviseCrash(t) PROVE IInv'
  BY <1>37 DEF ReviseCrash
<1>38. ASSUME NEW t \in Tries, RerunWrite(t) PROVE IInv'
  <2>1. PICK i \in Items, n \in 0..MaxAttempt : t = <<i, n>>
    OBVIOUS
  <2>2. CASE status[i] \in Rerunnable /\ attempt[i] = n
    <3>1. n + 1 \in 0..MaxAttempt
      BY <1>38, <2>1 DEF RerunWrite
    <3>2. /\ status' = Update(status, i, "submitted")
          /\ review' = Update(review, i, FALSE)
          /\ attempt' = Update(attempt, i, n + 1)
          /\ failed' = Update(failed, i, FALSE)
          /\ todo' = Enqueued(i, n + 1)
      BY <1>38, <2>1, <2>2 DEF RerunWrite
    <3> QED
      BY <1>38, <3>1, <3>2 DEF RerunWrite, Update, Enqueued
  <2>3. CASE ~(status[i] \in Rerunnable /\ attempt[i] = n)
    <3>1. UNCHANGED <<status, review, attempt, failed, todo>>
      BY <1>38, <2>1, <2>3 DEF RerunWrite
    <3>2. UNCHANGED <<revisions, decided, lost, bountyVars, sampleJob, pc, job, snap,
                      disputing, disputes, filed, sponsorClosed, revise, unsent, verdicts,
                      sweepVars, aborts>>
          /\ reruns' = reruns \ {t}
      BY <1>38 DEF RerunWrite
    <3> QED
      BY <3>1, <3>2
  <2> QED
    BY <2>2, <2>3
<1>39. CASE UNCHANGED vars
  BY <1>39 DEF vars
<1> HIDE DEF IInv
<1>40. ASSUME NEW w \in Workers,
              \/ \E t \in Tries : ValidateStart(w, t)
              \/ SampleStart(w) \/ HandlerStep(w) \/ Abort(w)
       PROVE  IInv'
  BY <1>40, <1>1, <1>2, <1>3, <1>4, <1>5, <1>6, <1>7, <1>8, <1>9, <1>10, <1>11, <1>12, <1>13, Zenon
  DEF HandlerStep
<1>41. ASSUME SettleStep \/ ReconcileStep \/ SweepCrash \/ WindowElapses \/ SponsorClose
       PROVE  IInv'
  BY <1>41, <1>14, <1>15, <1>16, <1>17, <1>18, <1>19, <1>20, <1>21, <1>22, <1>23, Zenon
  DEF SettleStep, ReconcileStep
<1>42. ASSUME NEW i \in Items,
              \/ ContributorStep(i) \/ AuditDecide(i) \/ ReviewStep(i)
              \/ DisputeCheck(i) \/ DisputeFile(i) \/ Resolve(i)
       PROVE  IInv'
  BY <1>42, <1>24, <1>25, <1>26, <1>27, <1>28, <1>29, <1>30, <1>31, <1>32, <1>33, <1>34, <1>35, Zenon
  DEF ContributorStep, ReviewStep
<1> QED
  BY <1>36, <1>37, <1>38, <1>39, <1>40, <1>41, <1>42, Zenon DEF Next

(* The invariant holds throughout every run of the pool.                   *)
LEMMA Invariance == Spec => []IInv
  BY InitIInv, InductiveStep, PTL DEF Spec

(* No step of validation, sampling, settlement or a route writes a column  *)
(* outside its range, whatever the bounds.                                 *)
THEOREM TypeCorrect == Spec => []TypeOK
<1>1. IInv => TypeOK
  BY DEF IInv
<1> QED
  BY <1>1, Invariance, PTL

-----------------------------------------------------------------------------
(* A step that accepts an item finds it in the hands of a validator, or    *)
(* carries out a sponsor's verdict: every other step writes another status,*)
(* and the draw leaves out no item that waits with the mark.               *)
LEMMA AcceptStep ==
    ASSUME IInv, [Next]_vars, NEW i \in Items,
           status[i] # "accepted", status'[i] = "accepted"
    PROVE  status[i] = "in_audit" \/ <<i, "accept">> \in verdicts
<1> DEFINE Reviewed == status[i] = "in_audit" \/ <<i, "accept">> \in verdicts
<1>0. status \in [Items -> Statuses]
  BY DEF IInv, TypeOK
<1>1. ASSUME NEW w \in Workers, SampleDraw(w) PROVE Reviewed
  <2>1. PICK drawn \in SUBSET Items :
          /\ Forced({k \in Items : status[k] = "accepted_pending_sample"}) \subseteq drawn
          /\ status'[i] = IF i \in drawn THEN Reviewer
                          ELSE IF status[i] = "accepted_pending_sample" THEN "accepted"
                          ELSE status[i]
    BY <1>1 DEF SampleDraw
  <2>2. status[i] = "accepted_pending_sample" => i \in drawn
    BY <2>1 DEF IInv, WaitingIsMarked, Forced
  <2> QED
    BY <2>1, <2>2 DEF Reviewer
<1>2. ASSUME NEW j \in Items, AuditDecide(j) PROVE Reviewed
  BY <1>0, <1>2 DEF AuditDecide, Update
<1>3. ASSUME NEW j \in Items, NEW v \in {"accept", "reject"}, ReviewWrite(j, v)
      PROVE  Reviewed
  BY <1>0, <1>3 DEF ReviewWrite, Update
<1>4. ASSUME NEW w \in Workers, ValidateFails(w) \/ ValidatePasses(w) PROVE FALSE
  <2>1. ItemOf(w) \in Items
    BY <1>4 DEF ValidateFails, ValidatePasses, ItemOf, IInv, TypeOK, Tries, Validating
  <2> QED
    BY <1>0, <1>4, <2>1 DEF ValidateFails, ValidatePasses, Update
<1>5. ASSUME NEW j \in Items,
             IntakeCheck(j) \/ IntakeCreate(j) \/ ReviseClaim(j) \/ ReviseWrite(j)
             \/ DisputeFile(j) \/ Resolve(j)
      PROVE  FALSE
  BY <1>0, <1>5
  DEF IntakeCheck, IntakeCreate, ReviseClaim, ReviseWrite, DisputeFile, Resolve, Update
<1>6. ASSUME UNCHANGED status PROVE FALSE
  BY <1>6
<1>7. ASSUME NEW w \in Workers,
             \/ \E t \in Tries : ValidateStart(w, t)
             \/ RecordLoss(w) \/ CloseRead(w) \/ CloseClaim(w) \/ CloseArm(w)
             \/ ValidateAck(w) \/ SampleStart(w) \/ SampleRead(w) \/ SampleAck(w)
             \/ Abort(w)
      PROVE  UNCHANGED status
  BY <1>7
  DEF ValidateStart, RecordLoss, CloseRead, CloseClaim, CloseArm, ValidateAck,
      SampleStart, SampleRead, SampleAck, Abort, itemVars
<1>8. ASSUME \/ SettleStep \/ ReconcileStep \/ SweepCrash \/ WindowElapses
             \/ SponsorClose
      PROVE  UNCHANGED status
  BY <1>8
  DEF SettleStep, SettleRead, SettleCount, SettleReopen, SettleWrite, SettlePublish,
      ReconcileStep, ReconcileList, ReconcileRecount, SweepCrash, WindowElapses,
      SponsorClose, itemVars
<1>9. ASSUME NEW j \in Items,
             \/ ReviseCheck(j) \/ RerunCheck(j) \/ DisputeCheck(j)
             \/ \E v \in {"accept", "reject"} : ReviewCheck(j, v)
      PROVE  UNCHANGED status
  BY <1>9 DEF ReviseCheck, RerunCheck, DisputeCheck, ReviewCheck, itemVars
<1>10. UNCHANGED vars => UNCHANGED status
  BY DEF vars, itemVars
<1>11. ASSUME NEW t \in Tries, ReviseArm(t) \/ ReviseCrash(t) PROVE UNCHANGED status
  BY <1>11 DEF ReviseArm, ReviseCrash, itemVars
<1>12. ASSUME NEW t \in Tries, RerunWrite(t) PROVE FALSE
  BY <1>0, <1>12 DEF RerunWrite, Update, Tries
<1> QED
  BY <1>1, <1>2, <1>3, <1>4, <1>5, <1>6, <1>7, <1>8, <1>9, <1>10, <1>11, <1>12,
     Zenon
  DEF Next, HandlerStep, ReviewStep, ContributorStep

(* Nothing reaches "accepted" without a person's verdict, for every number *)
(* of items and workers, with crashes, replays, disputes and reruns: the   *)
(* mark of WaitingIsMarked survives until the draw (validation.ts,         *)
(* pool-lifecycle.ts).                                                     *)
THEOREM HumansDecide == Spec => OnlyHumansAccept
<1>1. IInv /\ [Next]_vars =>
        [\A i \in Items : status[i] # "accepted" /\ status'[i] = "accepted"
           => status[i] = "in_audit" \/ <<i, "accept">> \in verdicts]_vars
  BY AcceptStep
<1> QED
  BY <1>1, Invariance, PTL DEF Spec, OnlyHumansAccept
=============================================================================
