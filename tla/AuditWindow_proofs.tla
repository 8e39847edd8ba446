-------------------------- MODULE AuditWindow_proofs --------------------------
(***************************************************************************)
(* What AuditWindow promises for every number of validators, windows,      *)
(* items, requests, sweeps and disputes.                                   *)
(***************************************************************************)
EXTENDS AuditWindow, TLAPS, FiniteSetTheorems

(* The fields of a request that is under way.                              *)
LEMMA ReqShape ==
  ASSUME TypeOK, NEW r \in Requests
  PROVE  /\ req[r].op \in {"idle", "claim", "claiming", "decide", "applied", "counted"}
         /\ req[r].op # "idle" => req[r].who \in Validators /\ req[r].win \in Windows
         /\ req[r].op = "decide" => req[r].items \in SUBSET Items
         /\ InDecision(r) => req[r].won \in SUBSET Items
         /\ req[r].op = "counted" => req[r].last \in BOOLEAN
<1>1. req[r] \in ReqType
  BY DEF TypeOK
<1> QED
  BY <1>1 DEF ReqType, Idle, InDecision

(* A request's next state is one of its states; the others do not move.    *)
LEMMA ReqTyped ==
  ASSUME TypeOK, NEW r \in Requests, NEW state \in ReqType, Go(r, state)
  PROVE  /\ req' \in [Requests -> ReqType]
         /\ req'[r] = state
         /\ \A x \in Requests \ {r} : req'[x] = req[x]
  BY DEF TypeOK, Go

(* No handler, sweep or route writes a column outside its range            *)
(* (audits.ts, audit-lifecycle.ts, audit-routing.ts).                      *)
LEMMA TypeStep == TypeOK /\ [Next]_vars => TypeOK'
<1> SUFFICES ASSUME TypeOK, [Next]_vars PROVE TypeOK'
    OBVIOUS
<1> USE ShapeAssumption, BoundAssumption
<1>1. ASSUME NEW r \in Requests, NEW state \in ReqType, Go(r, state),
             UNCHANGED <<windowVars, itemVars, sweep, disputeVars, countVars>>
      PROVE  TypeOK'
  BY <1>1, ReqTyped DEF TypeOK, windowVars, itemVars, disputeVars, countVars
<1>2. ASSUME NEW r \in Requests, NEW v \in Validators, NEW w \in Windows,
             ClaimCheck(r, v, w)
      PROVE  TypeOK'
  <2>1. [op |-> "claim", who |-> v, win |-> w] \in ReqType
    BY DEF ReqType
  <2> QED
    BY <1>1, <1>2, <2>1 DEF ClaimCheck
<1>3. ASSUME NEW r \in Requests, ClaimCount(r) PROVE TypeOK'
  <2>1. /\ [op |-> "claiming", who |-> req[r].who, win |-> req[r].win] \in ReqType
        /\ Idle \in ReqType
    BY <1>3, ReqShape DEF ClaimCount, ReqType
  <2> QED
    BY <1>1, <1>3, <2>1 DEF ClaimCount
<1>4. ASSUME NEW r \in Requests, ClaimTake(r) PROVE TypeOK'
  <2>1. Idle \in ReqType /\ req[r].who \in Validators /\ req[r].win \in Windows
    BY <1>4, ReqShape DEF ClaimTake, ReqType
  <2>2. req' \in [Requests -> ReqType]
    BY <1>4, <2>1, ReqTyped DEF ClaimTake
  <2> QED
    BY <1>4, <2>1, <2>2
    DEF ClaimTake, TypeOK, itemVars, disputeVars, countVars
<1>5. ASSUME NEW r \in Requests, NEW v \in Validators, NEW w \in Windows,
             NEW D \in SUBSET Members(w), DecideCheck(r, v, w, D)
      PROVE  TypeOK'
  <2>1. [op |-> "decide", who |-> v, win |-> w, items |-> D] \in ReqType
    BY DEF ReqType, Members
  <2> QED
    BY <1>1, <1>5, <2>1 DEF DecideCheck
<1>6. ASSUME NEW r \in Requests, DecideApply(r) PROVE TypeOK'
  <2>1. [op |-> "applied", who |-> req[r].who, win |-> req[r].win,
         won |-> Won(req[r].items)] \in ReqType
    BY <1>6, ReqShape DEF DecideApply, ReqType, Won
  <2> QED
    BY <1>1, <1>6, <2>1 DEF DecideApply
<1>7. ASSUME NEW r \in Requests, DecideCount(r) PROVE TypeOK'
  <2>1. [op |-> "counted", who |-> req[r].who, win |-> req[r].win, won |-> req[r].won,
         last |-> Pending(req[r].win) \subseteq req[r].won] \in ReqType
    BY <1>7, ReqShape DEF DecideCount, ReqType, InDecision
  <2> QED
    BY <1>1, <1>7, <2>1 DEF DecideCount
<1>8. ASSUME NEW r \in Requests, NEW ok \in SUBSET Items, DecideCommit(r, ok)
      PROVE  TypeOK'
  <2>1. Idle \in ReqType /\ req[r].win \in Windows /\ req[r].last \in BOOLEAN
    BY <1>8, ReqShape DEF DecideCommit, ReqType
  <2>2. req' \in [Requests -> ReqType]
    BY <1>8, <2>1, ReqTyped DEF DecideCommit
  <2>3. status' \in [Items -> Statuses] /\ verdict' \in [Items -> {"none", "ok", "flagged"}]
    BY <1>8 DEF DecideCommit, TypeOK, Statuses
  <2>4. settled' \in [Windows -> BOOLEAN]
    BY <1>8, <2>1 DEF DecideCommit, TypeOK
  <2> QED
    BY <1>8, <2>2, <2>3, <2>4 DEF DecideCommit, TypeOK, disputeVars, countVars
<1>9. ASSUME NEW r \in Requests, DecideAbort(r) PROVE TypeOK'
  BY <1>1, <1>9 DEF DecideAbort, ReqType
<1>10. ASSUME NEW w \in Windows, DeadlinePasses(w) PROVE TypeOK'
  <2>1. lapsed' \in [Validators -> Nat]
    <3>1. CASE owner[w] \in Validators
      BY <1>10, <3>1 DEF DeadlinePasses, TypeOK
    <3>2. CASE owner[w] \notin Validators
      BY <1>10, <3>2 DEF DeadlinePasses, TypeOK
    <3> QED
      BY <3>1, <3>2
  <2> QED
    BY <1>10, <2>1 DEF DeadlinePasses, TypeOK, itemVars, disputeVars
<1>11. ASSUME NEW s \in Sweepers, SweepRead(s) PROVE TypeOK'
  <2>1. \A w \in {x \in Windows : Overdue(x)} :
           [win |-> w, who |-> owner[w], claim |-> claims[w], touched |-> Touched(w)]
               \in SweepType
    BY DEF SweepType, Overdue, TypeOK, Touched
  <2> QED
    BY <1>11, <2>1
    DEF SweepRead, TypeOK, windowVars, itemVars, disputeVars, countVars
<1>12. ASSUME NEW s \in Sweepers, NEW e \in sweep[s], SweepRelease(s, e) PROVE TypeOK'
  <2>1. e \in SweepType
    BY DEF TypeOK
  <2> QED
    BY <1>12, <2>1 DEF SweepRelease, TypeOK, SweepType, itemVars, disputeVars
<1>13. ASSUME NEW i \in Items,
              DisputeCheck(i) \/ DisputeFile(i) \/ ResolveRejected(i)
       PROVE  TypeOK'
  BY <1>13
  DEF DisputeCheck, DisputeFile, ResolveRejected, StillOpen, TypeOK, Statuses,
      windowVars, itemVars, countVars
<1>14. ASSUME NEW i \in Items, ResolveUpheld(i) PROVE TypeOK'
  BY <1>14
  DEF ResolveUpheld, StillOpen, ReopenedVerdict, TypeOK, Statuses, countVars
<1>15. ASSUME UNCHANGED vars PROVE TypeOK'
  BY <1>15 DEF vars, TypeOK, windowVars, itemVars, disputeVars, countVars
<1> QED
  BY <1>2, <1>3, <1>4, <1>5, <1>6, <1>7, <1>8, <1>9, <1>10, <1>11, <1>12, <1>13,
     <1>14, <1>15, Zenon DEF Next, RequestStep, SweepStep

(* Every reachable state is well typed.                                    *)
THEOREM TypeCorrect == Spec => []TypeOK
<1>1. Init => TypeOK
  BY ShapeAssumption DEF Init, TypeOK, Statuses, ReqType, Idle
<1> QED
  BY <1>1, TypeStep, PTL DEF Spec

-----------------------------------------------------------------------------
(* What an open transaction has won is still in audit ...                  *)
RowsFresh ==
    \A r \in Requests : InDecision(r) => \A i \in req[r].won : status[i] = "in_audit"

(* ... and no other transaction has won it.                                *)
RowsApart ==
    \A r, x \in Requests :
        r # x /\ InDecision(r) /\ InDecision(x) => req[r].won \cap req[x].won = {}

RecordInv == TypeOK /\ RecordAgrees /\ RowsFresh /\ RowsApart

(* A step that leaves the items alone and opens no transaction keeps them. *)
LEMMA RecordQuiet ==
  ASSUME RecordInv, TypeOK', UNCHANGED itemVars,
         \A x \in Requests : InDecision(x)' => InDecision(x) /\ req'[x].won = req[x].won
  PROVE  RecordInv'
  BY DEF RecordInv, RecordAgrees, RowsFresh, RowsApart, itemVars

(* The same, for a request that moves to a state outside its transaction,  *)
(* or ahead in it.                                                         *)
LEMMA RecordGo ==
  ASSUME RecordInv, TypeOK', UNCHANGED itemVars,
         NEW r \in Requests, NEW state \in ReqType, Go(r, state),
         state.op \in {"applied", "counted"} => InDecision(r) /\ state.won = req[r].won
  PROVE  RecordInv'
<1>1. req'[r] = state /\ \A x \in Requests \ {r} : req'[x] = req[x]
  BY ReqTyped DEF RecordInv
<1>2. \A x \in Requests : InDecision(x)' => InDecision(x) /\ req'[x].won = req[x].won
  BY <1>1 DEF InDecision
<1> QED
  BY <1>2, RecordQuiet

LEMMA InitRecord == Init => RecordInv
  BY ShapeAssumption
  DEF Init, RecordInv, RecordAgrees, RowsFresh, RowsApart, InDecision, TypeOK,
      Statuses, ReqType, Idle

(* Two guarded updates under row locks keep the audit item and the         *)
(* submission in step (audits.ts submitAuditDecisions, audit-routing.ts).  *)
LEMMA RecordStep == RecordInv /\ [Next]_vars => RecordInv'
<1> SUFFICES ASSUME RecordInv, [Next]_vars PROVE RecordInv'
    OBVIOUS
<1>0. TypeOK /\ TypeOK'
  BY TypeStep DEF RecordInv
<1>a. Idle \in ReqType /\ Idle.op = "idle"
  BY DEF ReqType, Idle
<1>1. ASSUME NEW r \in Requests, NEW v \in Validators, NEW w \in Windows,
             ClaimCheck(r, v, w)
      PROVE  RecordInv'
  <2>1. [op |-> "claim", who |-> v, win |-> w] \in ReqType
    BY DEF ReqType
  <2> QED
    BY <1>0, <1>1, <2>1, RecordGo DEF ClaimCheck, itemVars
<1>2. ASSUME NEW r \in Requests, ClaimCount(r) PROVE RecordInv'
  <2>1. [op |-> "claiming", who |-> req[r].who, win |-> req[r].win] \in ReqType
    BY <1>0, <1>2, ReqShape DEF ClaimCount, ReqType
  <2> QED
    BY <1>0, <1>a, <1>2, <2>1, RecordGo DEF ClaimCount, itemVars
<1>3. ASSUME NEW r \in Requests, ClaimTake(r) \/ DecideAbort(r) PROVE RecordInv'
  BY <1>0, <1>a, <1>3, RecordGo DEF ClaimTake, DecideAbort, itemVars
<1>4. ASSUME NEW r \in Requests, NEW v \in Validators, NEW w \in Windows,
             NEW D \in SUBSET Members(w), DecideCheck(r, v, w, D)
      PROVE  RecordInv'
  <2>1. [op |-> "decide", who |-> v, win |-> w, items |-> D] \in ReqType
    BY DEF ReqType, Members
  <2> QED
    BY <1>0, <1>4, <2>1, RecordGo DEF DecideCheck, itemVars
<1>5. ASSUME NEW r \in Requests, DecideApply(r) PROVE RecordInv'
  <2>1. [op |-> "applied", who |-> req[r].who, win |-> req[r].win,
         won |-> Won(req[r].items)] \in ReqType
    BY <1>0, <1>5, ReqShape DEF DecideApply, ReqType, Won
  <2>2. /\ req'[r].op = "applied" /\ req'[r].won = Won(req[r].items)
        /\ \A x \in Requests \ {r} : req'[x] = req[x]
    BY <1>0, <1>5, <2>1, ReqTyped DEF DecideApply
  <2>3. \A i \in Won(req[r].items) : status[i] = "in_audit"
    BY DEF Won
  <2>4. \A x \in Requests \ {r} :
           InDecision(x) => req[x].won \cap Won(req[r].items) = {}
    BY <1>5 DEF DecideApply, RowsHeld, Won
  <2>5. RowsFresh'
    BY <1>5, <2>2, <2>3 DEF DecideApply, RowsFresh, RecordInv, InDecision, itemVars
  <2>6. RowsApart'
    BY <2>2, <2>4 DEF RowsApart, RecordInv, InDecision
  <2> QED
    BY <1>0, <1>5, <2>5, <2>6 DEF DecideApply, RecordInv, RecordAgrees, itemVars
<1>6. ASSUME NEW r \in Requests, DecideCount(r) PROVE RecordInv'
  <2>1. [op |-> "counted", who |-> req[r].who, win |-> req[r].win, won |-> req[r].won,
         last |-> Pending(req[r].win) \subseteq req[r].won] \in ReqType
    BY <1>0, <1>6, ReqShape DEF DecideCount, ReqType, InDecision
  <2> QED
    BY <1>0, <1>6, <2>1, RecordGo DEF DecideCount, InDecision, itemVars
<1>7. ASSUME NEW r \in Requests, NEW ok \in SUBSET Items, DecideCommit(r, ok)
      PROVE  RecordInv'
  <2>1. req'[r] = Idle /\ \A x \in Requests \ {r} : req'[x] = req[x]
    BY <1>0, <1>a, <1>7, ReqTyped DEF DecideCommit
  <2>2. InDecision(r) /\ \A i \in req[r].won : status[i] = "in_audit" /\ verdict[i] = "none"
    BY <1>0, <1>7, ReqShape DEF DecideCommit, InDecision, RecordInv, RowsFresh, RecordAgrees
  <2>3. \A i \in Items :
           /\ i \notin req[r].won => status'[i] = status[i] /\ verdict'[i] = verdict[i]
           /\ i \in req[r].won =>
                 \/ status'[i] = "accepted" /\ verdict'[i] = "ok"
                 \/ status'[i] = "flagged" /\ verdict'[i] = "flagged"
    BY <1>0, <1>7, <2>2 DEF DecideCommit, TypeOK
  <2>4. RecordAgrees'
    BY <2>3 DEF RecordInv, RecordAgrees
  <2>5. \A x \in Requests : InDecision(x)' => x # r /\ InDecision(x) /\ req'[x] = req[x]
    BY <1>a, <2>1 DEF InDecision
  <2>6. RowsApart'
    BY <2>5 DEF RecordInv, RowsApart
  <2>7. RowsFresh'
    <3>1. ASSUME NEW x \in Requests, InDecision(x)', NEW i \in req'[x].won
          PROVE  status'[i] = "in_audit"
      <4>1. i \in req[x].won /\ i \notin req[r].won /\ i \in Items /\ status[i] = "in_audit"
        BY <1>0, <2>2, <2>5, <3>1, ReqShape DEF RecordInv, RowsApart, RowsFresh
      <4> QED
        BY <2>3, <4>1
    <3> QED
      BY <3>1 DEF RowsFresh
  <2> QED
    BY <1>0, <2>4, <2>6, <2>7 DEF RecordInv
<1>8. ASSUME NEW i \in Items,
             DisputeFile(i) \/ ResolveUpheld(i) \/ ResolveRejected(i)
      PROVE  RecordInv'
  <2>1. req' = req /\ i \notin RowsHeld
    BY <1>8 DEF DisputeFile, ResolveUpheld, ResolveRejected
  <2>2. /\ \A k \in Items \ {i} : status'[k] = status[k] /\ verdict'[k] = verdict[k]
        /\ \/ status'[i] \in {"disputed", "rejected"}
           \/ status'[i] = "in_audit" /\ verdict'[i] = "none"
    BY <1>0, <1>8
    DEF DisputeFile, ResolveUpheld, ResolveRejected, ReopenedVerdict, TypeOK
  <2>3. RecordAgrees'
    BY <2>2 DEF RecordInv, RecordAgrees
  <2>4. RowsFresh'
    <3>1. ASSUME NEW x \in Requests, InDecision(x), NEW k \in req[x].won
          PROVE  status'[k] = "in_audit"
      <4>1. k \in Items /\ k # i /\ status[k] = "in_audit"
        BY <1>0, <2>1, <3>1, ReqShape DEF RecordInv, RowsFresh, RowsHeld
      <4> QED
        BY <2>2, <4>1
    <3> QED
      BY <2>1, <3>1 DEF RowsFresh, InDecision
  <2>5. RowsApart'
    BY <2>1 DEF RecordInv, RowsApart, InDecision
  <2> QED
    BY <1>0, <2>3, <2>4, <2>5 DEF RecordInv
<1>9. ASSUME UNCHANGED <<itemVars, req>> PROVE RecordInv'
  BY <1>0, <1>9, RecordQuiet DEF InDecision
<1>10. ASSUME NEW s \in Sweepers, SweepStep(s) PROVE RecordInv'
  BY <1>9, <1>10 DEF SweepStep, SweepRead, SweepRelease
<1>11. ASSUME NEW w \in Windows, DeadlinePasses(w) PROVE RecordInv'
  BY <1>9, <1>11 DEF DeadlinePasses
<1>12. ASSUME NEW i \in Items, DisputeCheck(i) PROVE RecordInv'
  BY <1>9, <1>12 DEF DisputeCheck
<1>13. ASSUME UNCHANGED vars PROVE RecordInv'
  BY <1>9, <1>13 DEF vars
<1> QED
  BY <1>1, <1>2, <1>3, <1>4, <1>5, <1>6, <1>7, <1>8, <1>10, <1>11, <1>12, <1>13,
     Zenon DEF Next, RequestStep

LEMMA RecordInvariant == Spec => []RecordInv
  BY InitRecord, RecordStep, PTL DEF Spec

(* However decisions, disputes and rulings overlap, the audit item and the *)
(* submission tell the same story (audits.ts, audit-routing.ts).           *)
THEOREM RecordsAgree == Spec => []RecordAgrees
<1>1. RecordInv => RecordAgrees
  BY DEF RecordInv
<1> QED
  BY <1>1, RecordInvariant, PTL

(* Of any number of requests on an item the first decides it; the others,  *)
(* and the sweeps, leave the decision alone (audits.ts).                   *)
THEOREM DecisionsStand == Spec => DecisionStands
<1> DEFINE Stands(i) == status[i] \in {"accepted", "flagged"} =>
              \/ status'[i] = status[i] /\ verdict'[i] = verdict[i]
              \/ status'[i] = "disputed" /\ verdict'[i] = verdict[i]
              \/ disputes'[i] < disputes[i]
<1>1. ASSUME RecordInv, [Next]_vars, NEW i \in Items PROVE Stands(i)
  <2>0. TypeOK
    BY <1>1 DEF RecordInv
  <2>1. ASSUME UNCHANGED itemVars PROVE Stands(i)
    BY <2>1 DEF itemVars
  <2>2. ASSUME NEW r \in Requests, NEW ok \in SUBSET Items, DecideCommit(r, ok)
        PROVE  Stands(i)
    <3>1. i \in req[r].won => status[i] = "in_audit"
      BY <1>1, <2>2 DEF DecideCommit, InDecision, RecordInv, RowsFresh
    <3>2. i \notin req[r].won => status'[i] = status[i] /\ verdict'[i] = verdict[i]
      BY <2>0, <2>2 DEF DecideCommit, TypeOK
    <3> QED
      BY <3>1, <3>2
  <2>3. ASSUME NEW k \in Items, DisputeFile(k) PROVE Stands(i)
    BY <2>0, <2>3 DEF DisputeFile, TypeOK
  <2>4. ASSUME NEW k \in Items, ResolveUpheld(k) \/ ResolveRejected(k) PROVE Stands(i)
    BY <2>0, <2>4
    DEF ResolveUpheld, ResolveRejected, ReopenedVerdict, TypeOK
  <2>5. ASSUME NEW r \in Requests, NEW v \in Validators, NEW w \in Windows,
               \/ ClaimCheck(r, v, w)
               \/ \E D \in SUBSET Members(w) : DecideCheck(r, v, w, D)
        PROVE  Stands(i)
    BY <2>1, <2>5 DEF ClaimCheck, DecideCheck
  <2>6. ASSUME NEW r \in Requests,
               \/ ClaimCount(r) \/ ClaimTake(r) \/ DecideApply(r) \/ DecideCount(r)
               \/ DecideAbort(r)
        PROVE  Stands(i)
    BY <2>1, <2>6
    DEF ClaimCount, ClaimTake, DecideApply, DecideCount, DecideAbort
  <2>7. ASSUME NEW s \in Sweepers, SweepStep(s) PROVE Stands(i)
    BY <2>1, <2>7 DEF SweepStep, SweepRead, SweepRelease
  <2>8. ASSUME NEW w \in Windows, DeadlinePasses(w) PROVE Stands(i)
    BY <2>1, <2>8 DEF DeadlinePasses
  <2>9. ASSUME NEW k \in Items, DisputeCheck(k) PROVE Stands(i)
    BY <2>1, <2>9 DEF DisputeCheck
  <2>10. ASSUME UNCHANGED vars PROVE Stands(i)
    BY <2>1, <2>10 DEF vars
  <2> HIDE DEF Stands
  <2> QED
    BY <1>1, <2>2, <2>3, <2>4, <2>5, <2>6, <2>7, <2>8, <2>9, <2>10, Zenon
    DEF Next, RequestStep
<1>2. RecordInv /\ [Next]_vars => [\A i \in Items : Stands(i)]_vars
  BY <1>1
<1> QED
  BY <1>2, RecordInvariant, PTL DEF Spec, DecisionStands

-----------------------------------------------------------------------------
(* What a sweep listed is a claim that had lapsed, so no later claim of    *)
(* the same window can be taken for it ...                                 *)
ListDated ==
    \A s \in Sweepers : \A e \in sweep[s] :
        /\ e.claim <= claims[e.win]
        /\ e.claim = claims[e.win] => expiry[e.win] # "ahead"

(* ... and what it listed as touched stays so while the claim lasts.       *)
ListTruthful ==
    \A s \in Sweepers : \A e \in sweep[s] :
        e.touched /\ owner[e.win] = e.who /\ e.claim = claims[e.win] => Touched(e.win)

HoldInv == TypeOK /\ ListDated /\ ListTruthful /\ NoSilentHold

(* A window stays touched as long as nothing is sent back to audit.        *)
LEMMA TouchedKept ==
  ASSUME NEW w \in Windows, Touched(w),
         \A i \in Members(w) : status'[i] = "in_audit" => status[i] = "in_audit"
  PROVE  Touched(w)'
  BY DEF Touched, Pending, Members

(* A step that moves neither claims nor lists keeps the invariant.         *)
LEMMA HoldQuiet ==
  ASSUME HoldInv, TypeOK', UNCHANGED <<owner, expiry, claims, sweep>>,
         \A w \in Windows : settled[w] => settled'[w],
         \A i \in Items : status'[i] = "in_audit" => status[i] = "in_audit"
  PROVE  HoldInv'
<1>1. \A w \in Windows : Touched(w) => Touched(w)'
  BY TouchedKept DEF Members
<1>2. \A s \in Sweepers : \A e \in sweep[s] : e.win \in Windows
  BY DEF HoldInv, TypeOK, SweepType
<1>3. ListDated'
  BY DEF HoldInv, ListDated
<1>4. ListTruthful'
  BY <1>1, <1>2 DEF HoldInv, ListTruthful
<1>5. NoSilentHold'
  BY <1>1 DEF HoldInv, NoSilentHold
<1> QED
  BY <1>3, <1>4, <1>5 DEF HoldInv

LEMMA InitHold == Init => HoldInv
  BY ShapeAssumption
  DEF Init, HoldInv, ListDated, ListTruthful, NoSilentHold, TypeOK, Statuses, ReqType, Idle

(* The sweep's guard on the deadline is what keeps an old list from        *)
(* touching a new claim (audit-lifecycle.ts, audit-routing.ts).            *)
LEMMA HoldStep == HoldInv /\ [Next]_vars => HoldInv'
<1> SUFFICES ASSUME HoldInv, [Next]_vars PROVE HoldInv'
    OBVIOUS
<1> USE ShapeAssumption
<1>0. TypeOK /\ TypeOK'
  BY TypeStep DEF HoldInv
<1>a. \A s \in Sweepers : \A e \in sweep[s] :
         e.win \in Windows /\ e.who \in Validators /\ e.claim \in Nat
  BY <1>0 DEF TypeOK, SweepType
<1>1. ASSUME NEW r \in Requests, NEW v \in Validators, NEW w \in Windows,
             \/ ClaimCheck(r, v, w)
             \/ \E D \in SUBSET Members(w) : DecideCheck(r, v, w, D)
      PROVE  HoldInv'
  BY <1>0, <1>1, HoldQuiet DEF ClaimCheck, DecideCheck, windowVars, itemVars
<1>2. ASSUME NEW r \in Requests,
             ClaimCount(r) \/ DecideApply(r) \/ DecideCount(r) \/ DecideAbort(r)
      PROVE  HoldInv'
  BY <1>0, <1>2, HoldQuiet
  DEF ClaimCount, DecideApply, DecideCount, DecideAbort, windowVars, itemVars
<1>3. ASSUME NEW r \in Requests, NEW ok \in SUBSET Items, DecideCommit(r, ok)
      PROVE  HoldInv'
  <2>1. \A w \in Windows : settled[w] => settled'[w]
    BY <1>0, <1>3 DEF DecideCommit, TypeOK
  <2>2. \A i \in Items : status'[i] = "in_audit" => status[i] = "in_audit"
    BY <1>3 DEF DecideCommit
  <2> QED
    BY <1>0, <1>3, <2>1, <2>2, HoldQuiet DEF DecideCommit
<1>4. ASSUME NEW i \in Items,
             DisputeCheck(i) \/ DisputeFile(i) \/ ResolveRejected(i)
      PROVE  HoldInv'
  <2>1. \A k \in Items : status'[k] = "in_audit" => status[k] = "in_audit"
    BY <1>0, <1>4 DEF DisputeCheck, DisputeFile, ResolveRejected, itemVars, TypeOK
  <2> QED
    BY <1>0, <1>4, <2>1, HoldQuiet
    DEF DisputeCheck, DisputeFile, ResolveRejected, windowVars
<1>5. ASSUME NEW r \in Requests, ClaimTake(r) PROVE HoldInv'
  <2> DEFINE w == req[r].win
  <2>1. w \in Windows
    BY <1>0, <1>5, ReqShape DEF ClaimTake
  <2>2. CASE UNCHANGED <<owner, expiry, claims>>
    BY <1>0, <1>5, <2>2, HoldQuiet DEF ClaimTake, itemVars
  <2>3. CASE /\ owner' = [owner EXCEPT ![w] = req[r].who]
             /\ expiry' = [expiry EXCEPT ![w] = "ahead"]
             /\ claims' = [claims EXCEPT ![w] = @ + 1]
    <3>1. \A x \in Windows : Touched(x)' = Touched(x)
      BY <1>5 DEF ClaimTake, itemVars, Touched, Pending, Members
    <3>2. ListDated'
      BY <1>0, <1>5, <1>a, <2>1, <2>3 DEF ClaimTake, HoldInv, ListDated, TypeOK
    <3>3. ListTruthful'
      BY <1>0, <1>5, <1>a, <2>1, <2>3, <3>1
      DEF ClaimTake, HoldInv, ListDated, ListTruthful, TypeOK
    <3>4. NoSilentHold'
      BY <1>0, <1>5, <2>1, <2>3, <3>1 DEF ClaimTake, HoldInv, NoSilentHold, TypeOK
    <3> QED
      BY <1>0, <3>2, <3>3, <3>4 DEF HoldInv
  <2> QED
    BY <1>5, <2>2, <2>3 DEF ClaimTake
<1>6. ASSUME NEW w \in Windows, DeadlinePasses(w) PROVE HoldInv'
  <2>1. \A x \in Windows : Touched(x)' = Touched(x)
    BY <1>6 DEF DeadlinePasses, itemVars, Touched, Pending, Members
  <2>2. ListDated' /\ ListTruthful' /\ NoSilentHold'
    BY <1>0, <1>6, <1>a, <2>1
    DEF DeadlinePasses, HoldInv, ListDated, ListTruthful, NoSilentHold, TypeOK
  <2> QED
    BY <1>0, <2>2 DEF HoldInv
<1>7. ASSUME NEW s \in Sweepers, SweepRead(s) PROVE HoldInv'
  <2>1. \A x \in Windows : Touched(x)' = Touched(x)
    BY <1>7 DEF SweepRead, itemVars, Touched, Pending, Members
  <2>2. \A e \in sweep'[s] :
           /\ e.win \in Windows /\ expiry[e.win] = "past"
           /\ e.claim = claims[e.win] /\ e.touched = Touched(e.win)
    BY <1>0, <1>7 DEF SweepRead, Overdue, TypeOK
  <2>3. \A x \in Sweepers \ {s} : sweep'[x] = sweep[x]
    BY <1>0, <1>7 DEF SweepRead, TypeOK
  <2>4. ListDated'
    BY <1>0, <1>7, <2>2, <2>3 DEF SweepRead, windowVars, HoldInv, ListDated, TypeOK
  <2>5. ListTruthful'
    BY <1>7, <1>a, <2>1, <2>2, <2>3 DEF SweepRead, windowVars, HoldInv, ListTruthful
  <2>6. NoSilentHold'
    BY <1>7, <2>1 DEF SweepRead, windowVars, HoldInv, NoSilentHold
  <2> QED
    BY <1>0, <2>4, <2>5, <2>6 DEF HoldInv
<1>8. ASSUME NEW s \in Sweepers, NEW e \in sweep[s], SweepRelease(s, e) PROVE HoldInv'
  <2>1. \A x \in Windows : Touched(x)' = Touched(x)
    BY <1>8 DEF SweepRelease, itemVars, Touched, Pending, Members
  <2>2. \A x \in Sweepers : sweep'[x] \subseteq sweep[x]
    BY <1>0, <1>8 DEF SweepRelease, TypeOK
  <2>3. \A x \in Windows :
           /\ expiry'[x] \in {expiry[x], "none"}
           /\ owner'[x] \in {owner[x], None}
    BY <1>0, <1>8 DEF SweepRelease, TypeOK
  <2>4. ListDated'
    BY <1>8, <1>a, <2>2, <2>3 DEF SweepRelease, HoldInv, ListDated
  <2>5. ListTruthful'
    BY <1>8, <1>a, <2>1, <2>2, <2>3 DEF SweepRelease, HoldInv, ListTruthful
  <2>6. NoSilentHold'
    <3>1. CASE StillOverdue(e)
      <4>1. KeepsHolder(e) => Touched(e.win)
        BY <1>8, <3>1 DEF StillOverdue, KeepsHolder, HoldInv, ListTruthful
      <4>2. /\ ~KeepsHolder(e) => owner'[e.win] = None
            /\ \A x \in Windows \ {e.win} : owner'[x] = owner[x] /\ expiry'[x] = expiry[x]
        BY <1>0, <1>8, <1>a, <3>1 DEF SweepRelease, TypeOK
      <4> QED
        BY <1>8, <2>1, <4>1, <4>2 DEF SweepRelease, HoldInv, NoSilentHold
    <3>2. CASE ~StillOverdue(e)
      BY <1>8, <2>1, <3>2 DEF SweepRelease, HoldInv, NoSilentHold
    <3> QED
      BY <3>1, <3>2
  <2> QED
    BY <1>0, <2>4, <2>5, <2>6 DEF HoldInv
<1>9. ASSUME NEW i \in Items, ResolveUpheld(i) PROVE HoldInv'
  <2> DEFINE w == WindowOf[i]
  <2>1. w \in Windows
    OBVIOUS
  <2>2. \A x \in Windows \ {w} :
           /\ owner'[x] = owner[x] /\ expiry'[x] = expiry[x] /\ settled'[x] = settled[x]
           /\ Touched(x) => Touched(x)'
    <3>1. \A k \in Items \ {i} : status'[k] = status[k]
      BY <1>0, <1>9 DEF ResolveUpheld, TypeOK
    <3>2. \A x \in Windows \ {w} : \A k \in Members(x) : status'[k] = status[k]
      BY <3>1 DEF Members
    <3> QED
      BY <1>0, <1>9, <3>2, TouchedKept DEF ResolveUpheld, TypeOK
  <2>3. owner'[w] = None /\ expiry'[w] = "none"
    BY <1>0, <1>9, <2>1 DEF ResolveUpheld, TypeOK
  <2>4. claims' = claims /\ sweep' = sweep
    BY <1>9 DEF ResolveUpheld
  <2>5. ListDated'
    BY <1>a, <2>2, <2>3, <2>4 DEF HoldInv, ListDated
  <2>6. ListTruthful'
    BY <1>a, <2>2, <2>3, <2>4 DEF HoldInv, ListTruthful
  <2>7. NoSilentHold'
    BY <2>2, <2>3 DEF HoldInv, NoSilentHold
  <2> QED
    BY <1>0, <2>5, <2>6, <2>7 DEF HoldInv
<1>10. ASSUME UNCHANGED vars PROVE HoldInv'
  BY <1>0, <1>10, HoldQuiet DEF vars, windowVars, itemVars
<1> QED
  BY <1>1, <1>2, <1>3, <1>4, <1>5, <1>6, <1>7, <1>8, <1>9, <1>10, Zenon
  DEF Next, RequestStep, SweepStep

(* For any number of sweeps, no validator keeps a window it never touched  *)
(* without a deadline (audit-lifecycle.ts releaseOverdueAudits).           *)
THEOREM NoWindowHeldForEver == Spec => []NoSilentHold
<1>1. HoldInv => NoSilentHold
  BY DEF HoldInv
<1> QED
  BY <1>1, InitHold, HoldStep, PTL DEF Spec

-----------------------------------------------------------------------------
(* A smaller set of windows is counted with no more.                       *)
LEMMA WindowCount ==
  ASSUME NEW S \in SUBSET Windows, NEW T \in SUBSET S
  PROVE  Cardinality(S) \in Nat /\ Cardinality(T) \in Nat /\ Cardinality(T) <= Cardinality(S)
  BY BoundAssumption, FS_Subset, FS_CardinalityType DEF BoundAssumption

(* ... and one window more adds one at most.                               *)
LEMMA WindowAdded ==
  ASSUME NEW S \in SUBSET Windows, NEW w \in Windows
  PROVE  Cardinality(S \cup {w}) <= Cardinality(S) + 1
<1>1. IsFiniteSet(S)
  BY BoundAssumption, FS_Subset DEF BoundAssumption
<1> QED
  BY <1>1, FS_AddElement, FS_CardinalityType

(* ... while one taken out leaves one less.                                *)
LEMMA WindowRemoved ==
  ASSUME NEW S \in SUBSET Windows, NEW w \in S
  PROVE  Cardinality(S \ {w}) = Cardinality(S) - 1
<1>1. IsFiniteSet(S)
  BY BoundAssumption, FS_Subset DEF BoundAssumption
<1> QED
  BY <1>1, FS_RemoveElement

Claiming(r) == req[r].op = "claiming"

(* A claim that has counted holds its validator's lock alone, and still    *)
(* has room.                                                               *)
LockHeld ==
    \A r, x \in Requests : Claiming(r) /\ Claiming(x) /\ req[r].who = req[x].who => r = x

RoomLeft ==
    \A r \in Requests, v \in Validators :
        Claiming(r) /\ req[r].who = v => Cardinality(Live(v)) < MaxConcurrent

CapacityInv == TypeOK /\ CapacityHeld /\ LockHeld /\ RoomLeft

(* A step that gives nobody a running claim and lets nobody past the count *)
(* keeps them.                                                             *)
LEMMA CapacityQuiet ==
  ASSUME CapacityInv, TypeOK',
         \A v \in Validators : Live(v)' \subseteq Live(v),
         \A x \in Requests : Claiming(x)' => Claiming(x) /\ req'[x] = req[x]
  PROVE  CapacityInv'
<1> USE BoundAssumption DEF BoundAssumption
<1>1. \A v \in Validators :
         /\ Cardinality(Live(v)) \in Nat /\ Cardinality(Live(v)') \in Nat
         /\ Cardinality(Live(v)') <= Cardinality(Live(v))
  BY WindowCount DEF Live
<1>2. CapacityHeld'
  BY <1>1 DEF CapacityInv, CapacityHeld
<1>3. LockHeld'
  BY DEF CapacityInv, LockHeld
<1>4. RoomLeft'
  BY <1>1 DEF CapacityInv, RoomLeft
<1> QED
  BY <1>2, <1>3, <1>4 DEF CapacityInv

(* The same for a request that moves, but not past the count.              *)
LEMMA CapacityGo ==
  ASSUME CapacityInv, TypeOK',
         \A v \in Validators : Live(v)' \subseteq Live(v),
         NEW r \in Requests, NEW state \in ReqType, Go(r, state), state.op # "claiming"
  PROVE  CapacityInv'
<1>1. req'[r] = state /\ \A x \in Requests \ {r} : req'[x] = req[x]
  BY ReqTyped DEF CapacityInv
<1>2. \A x \in Requests : Claiming(x)' => Claiming(x) /\ req'[x] = req[x]
  BY <1>1 DEF Claiming
<1> QED
  BY <1>2, CapacityQuiet

LEMMA InitCapacity == Init => CapacityInv
<1> SUFFICES ASSUME Init PROVE CapacityInv
    OBVIOUS
<1>1. TypeOK
  BY ShapeAssumption DEF Init, TypeOK, Statuses, ReqType, Idle
<1>2. \A v \in Validators : Live(v) = {}
  BY ShapeAssumption DEF Init, Live
<1>3. CapacityHeld
  BY <1>2, FS_EmptySet, BoundAssumption DEF CapacityHeld, BoundAssumption
<1> QED
  BY <1>1, <1>3 DEF Init, CapacityInv, LockHeld, RoomLeft, Claiming, Idle

(* The lock makes the count true until the write (audits.ts                *)
(* claimAuditWindow).                                                      *)
LEMMA CapacityStep == CapacityInv /\ [Next]_vars => CapacityInv'
<1> SUFFICES ASSUME CapacityInv, [Next]_vars PROVE CapacityInv'
    OBVIOUS
<1> USE ShapeAssumption
<1>0. TypeOK /\ TypeOK'
  BY TypeStep DEF CapacityInv
<1>a. Idle \in ReqType /\ Idle.op # "claiming"
  BY DEF ReqType, Idle
<1>b. ASSUME UNCHANGED windowVars PROVE \A v \in Validators : Live(v)' \subseteq Live(v)
  BY <1>b DEF windowVars, Live
<1>1. ASSUME NEW r \in Requests, NEW v \in Validators, NEW w \in Windows,
             ClaimCheck(r, v, w)
      PROVE  CapacityInv'
  <2>1. [op |-> "claim", who |-> v, win |-> w] \in ReqType
    BY DEF ReqType
  <2> QED
    BY <1>0, <1>1, <1>b, <2>1, CapacityGo DEF ClaimCheck
<1>2. ASSUME NEW r \in Requests, ClaimCount(r) PROVE CapacityInv'
  <2> DEFINE v == req[r].who
             next == [op |-> "claiming", who |-> v, win |-> req[r].win]
  <2>1. v \in Validators /\ next \in ReqType
    BY <1>0, <1>2, ReqShape DEF ClaimCount, ReqType
  <2>2. CASE Go(r, Idle)
    BY <1>0, <1>2, <1>a, <1>b, <2>2, CapacityGo DEF ClaimCount
  <2>3. CASE Go(r, next) /\ Cardinality(Active(v)) < MaxConcurrent
    <3>1. req'[r] = next /\ \A x \in Requests \ {r} : req'[x] = req[x]
      BY <1>0, <2>1, <2>3, ReqTyped
    <3>2. \A x \in Validators : Live(x)' = Live(x)
      BY <1>2 DEF ClaimCount, windowVars, Live
    <3>3. Live(v) \in SUBSET Active(v) /\ Active(v) \in SUBSET Windows
      BY DEF Live, Active
    <3>4. Cardinality(Live(v)) < MaxConcurrent
      BY <2>3, <3>3, WindowCount, BoundAssumption DEF BoundAssumption
    <3>5. CapacityHeld'
      BY <3>2 DEF CapacityInv, CapacityHeld
    <3>6. LockHeld'
      BY <1>2, <3>1 DEF ClaimCount, ClaimLockFree, CapacityInv, LockHeld, Claiming
    <3>7. RoomLeft'
      BY <2>1, <3>1, <3>2, <3>4 DEF CapacityInv, RoomLeft, Claiming
    <3> QED
      BY <1>0, <3>5, <3>6, <3>7 DEF CapacityInv
  <2> QED
    BY <1>2, <2>2, <2>3 DEF ClaimCount
<1>3. ASSUME NEW r \in Requests, ClaimTake(r) PROVE CapacityInv'
  <2>0. PICK v \in Validators, w \in Windows : v = req[r].who /\ w = req[r].win
    BY <1>0, <1>3, ReqShape DEF ClaimTake
  <2>1. v \in Validators /\ w \in Windows /\ Claiming(r) /\ v = req[r].who
    BY <1>3, <2>0 DEF ClaimTake, Claiming
  <2>2. CASE UNCHANGED <<owner, expiry, claims>>
    BY <1>0, <1>3, <1>a, <1>b, <2>2, CapacityGo DEF ClaimTake, windowVars
  <2>3. CASE /\ owner' = [owner EXCEPT ![w] = v]
             /\ expiry' = [expiry EXCEPT ![w] = "ahead"]
             /\ owner[w] = None
    <3>1. req'[r] = Idle /\ \A x \in Requests \ {r} : req'[x] = req[x]
      BY <1>0, <1>3, <1>a, ReqTyped DEF ClaimTake
    <3>2. \A x \in Validators \ {v} : Live(x)' \subseteq Live(x)
      BY <1>0, <1>3, <2>1, <2>3 DEF ClaimTake, Live, TypeOK
    <3>3. Live(v)' \subseteq Live(v) \cup {w}
      BY <1>0, <1>3, <2>1, <2>3 DEF ClaimTake, Live, TypeOK
    <3>4. \A x \in Validators \ {v} :
             /\ Cardinality(Live(x)) \in Nat /\ Cardinality(Live(x)') \in Nat
             /\ Cardinality(Live(x)') <= Cardinality(Live(x))
      BY <3>2, WindowCount DEF Live
    <3>5. Cardinality(Live(v)') <= MaxConcurrent
      <4>1. Live(v) \in SUBSET Windows /\ Live(v) \cup {w} \in SUBSET Windows
        BY <2>1 DEF Live
      <4>2. /\ Cardinality(Live(v) \cup {w}) <= Cardinality(Live(v)) + 1
            /\ Cardinality(Live(v)) \in Nat
        BY <2>1, <4>1, WindowAdded, WindowCount
      <4>3. /\ Cardinality(Live(v)') <= Cardinality(Live(v) \cup {w})
            /\ Cardinality(Live(v)') \in Nat /\ Cardinality(Live(v) \cup {w}) \in Nat
        BY <3>3, <4>1, WindowCount
      <4>4. Cardinality(Live(v)) < MaxConcurrent
        BY <2>1 DEF CapacityInv, RoomLeft
      <4> QED
        BY <4>2, <4>3, <4>4, BoundAssumption DEF BoundAssumption
    <3>6. CapacityHeld'
      <4>1. \A x \in Validators : Cardinality(Live(x)') <= MaxConcurrent
        BY <3>4, <3>5, BoundAssumption DEF CapacityInv, CapacityHeld, BoundAssumption
      <4> QED
        BY <4>1 DEF CapacityHeld
    <3>7. \A x \in Requests :
             Claiming(x)' => x # r /\ Claiming(x) /\ req'[x] = req[x] /\ req[x].who # v
                             /\ req[x].who \in Validators
      BY <1>0, <1>a, <2>1, <3>1, ReqShape DEF Claiming, CapacityInv, LockHeld
    <3>8. LockHeld'
      BY <3>7 DEF CapacityInv, LockHeld
    <3>9. RoomLeft'
      BY <3>4, <3>7, BoundAssumption DEF CapacityInv, RoomLeft, BoundAssumption
    <3> QED
      BY <1>0, <3>6, <3>8, <3>9 DEF CapacityInv
  <2> QED
    BY <1>3, <2>0, <2>2, <2>3 DEF ClaimTake
<1>4. ASSUME NEW r \in Requests, NEW v \in Validators, NEW w \in Windows,
             NEW D \in SUBSET Members(w), DecideCheck(r, v, w, D)
      PROVE  CapacityInv'
  <2>1. [op |-> "decide", who |-> v, win |-> w, items |-> D] \in ReqType
    BY DEF ReqType, Members
  <2> QED
    BY <1>0, <1>4, <1>b, <2>1, CapacityGo DEF DecideCheck
<1>5. ASSUME NEW r \in Requests, DecideApply(r) PROVE CapacityInv'
  <2>1. [op |-> "applied", who |-> req[r].who, win |-> req[r].win,
         won |-> Won(req[r].items)] \in ReqType
    BY <1>0, <1>5, ReqShape DEF DecideApply, ReqType, Won
  <2> QED
    BY <1>0, <1>5, <1>b, <2>1, CapacityGo DEF DecideApply
<1>6. ASSUME NEW r \in Requests, DecideCount(r) PROVE CapacityInv'
  <2>1. [op |-> "counted", who |-> req[r].who, win |-> req[r].win, won |-> req[r].won,
         last |-> Pending(req[r].win) \subseteq req[r].won] \in ReqType
    BY <1>0, <1>6, ReqShape DEF DecideCount, ReqType, InDecision
  <2> QED
    BY <1>0, <1>6, <1>b, <2>1, CapacityGo DEF DecideCount
<1>7. ASSUME NEW r \in Requests, NEW ok \in SUBSET Items, DecideCommit(r, ok)
      PROVE  CapacityInv'
  <2>1. \A v \in Validators : Live(v)' \subseteq Live(v)
    BY <1>0, <1>7 DEF DecideCommit, Live, TypeOK
  <2> QED
    BY <1>0, <1>7, <1>a, <2>1, CapacityGo DEF DecideCommit
<1>8. ASSUME NEW r \in Requests, DecideAbort(r) PROVE CapacityInv'
  BY <1>0, <1>8, <1>a, <1>b, CapacityGo DEF DecideAbort
<1>9. ASSUME UNCHANGED req, \A v \in Validators : Live(v)' \subseteq Live(v)
      PROVE  CapacityInv'
  BY <1>0, <1>9, CapacityQuiet DEF Claiming
<1>10. ASSUME NEW w \in Windows, DeadlinePasses(w) PROVE CapacityInv'
  <2>1. \A v \in Validators : Live(v)' \subseteq Live(v)
    BY <1>0, <1>10 DEF DeadlinePasses, Live, TypeOK
  <2> QED
    BY <1>9, <1>10, <2>1 DEF DeadlinePasses
<1>11. ASSUME NEW s \in Sweepers, SweepStep(s) PROVE CapacityInv'
  <2>1. CASE SweepRead(s)
    BY <1>9, <1>b, <2>1 DEF SweepRead
  <2>2. ASSUME NEW e \in sweep[s], SweepRelease(s, e) PROVE CapacityInv'
    <3>1. e.win \in Windows
      BY <1>0 DEF TypeOK, SweepType
    <3>2. \A v \in Validators : Live(v)' \subseteq Live(v)
      BY <1>0, <2>2, <3>1 DEF SweepRelease, Live, TypeOK
    <3> QED
      BY <1>9, <2>2, <3>2 DEF SweepRelease
  <2> QED
    BY <1>11, <2>1, <2>2 DEF SweepStep
<1>12. ASSUME NEW i \in Items,
              DisputeCheck(i) \/ DisputeFile(i) \/ ResolveRejected(i)
       PROVE  CapacityInv'
  BY <1>9, <1>12, <1>b DEF DisputeCheck, DisputeFile, ResolveRejected
<1>13. ASSUME NEW i \in Items, ResolveUpheld(i) PROVE CapacityInv'
  <2>1. \A v \in Validators : Live(v)' \subseteq Live(v)
    BY <1>0, <1>13 DEF ResolveUpheld, Live, TypeOK
  <2> QED
    BY <1>9, <1>13, <2>1 DEF ResolveUpheld
<1>14. ASSUME UNCHANGED vars PROVE CapacityInv'
  BY <1>9, <1>14, <1>b DEF vars
<1> QED
  BY <1>1, <1>2, <1>3, <1>4, <1>5, <1>6, <1>7, <1>8, <1>10, <1>11, <1>12, <1>13,
     <1>14, Zenon DEF Next, RequestStep

(* From however many clients a validator claims, the claims with a running *)
(* deadline never exceed its rank's cap (audits.ts claimAuditWindow).      *)
THEOREM CapacityIsHeld == Spec => []CapacityHeld
<1>1. CapacityInv => CapacityHeld
  BY DEF CapacityInv
<1> QED
  BY <1>1, InitCapacity, CapacityStep, PTL DEF Spec

-----------------------------------------------------------------------------
(* The claims of a validator whose deadline has passed and that no sweep   *)
(* has charged yet.                                                        *)
OverdueOf(v) == {w \in Windows : owner[w] = v /\ expiry[w] = "past" /\ ~settled[w]}

(* Each lapsed claim is charged, still overdue, or gone uncharged.         *)
Accounted ==
    \A v \in Validators : missed[v] + Cardinality(OverdueOf(v)) <= lapsed[v]

MissInv == TypeOK /\ Accounted

(* A step that makes no claim overdue and charges nobody keeps the account.*)
LEMMA MissQuiet ==
  ASSUME MissInv, TypeOK', UNCHANGED countVars,
         \A v \in Validators : OverdueOf(v)' \subseteq OverdueOf(v)
  PROVE  MissInv'
<1>1. \A v \in Validators :
         /\ Cardinality(OverdueOf(v)) \in Nat /\ Cardinality(OverdueOf(v)') \in Nat
         /\ Cardinality(OverdueOf(v)') <= Cardinality(OverdueOf(v))
  BY WindowCount DEF OverdueOf
<1> QED
  BY <1>1 DEF MissInv, Accounted, countVars, TypeOK

LEMMA InitMiss == Init => MissInv
<1> SUFFICES ASSUME Init PROVE MissInv
    OBVIOUS
<1>1. TypeOK
  BY ShapeAssumption DEF Init, TypeOK, Statuses, ReqType, Idle
<1>2. \A v \in Validators : OverdueOf(v) = {}
  BY DEF Init, OverdueOf
<1>3. \A v \in Validators : Cardinality(OverdueOf(v)) = 0
  BY <1>2, FS_EmptySet
<1>4. Accounted
  BY <1>3 DEF Init, Accounted
<1> QED
  BY <1>1, <1>4 DEF MissInv

(* A charge takes one overdue claim of the validator it is charged to      *)
(* (audit-lifecycle.ts releaseOverdueAudits).                              *)
LEMMA MissStep == MissInv /\ [Next]_vars => MissInv'
<1> SUFFICES ASSUME MissInv, [Next]_vars PROVE MissInv'
    OBVIOUS
<1> USE ShapeAssumption
<1>0. TypeOK /\ TypeOK'
  BY TypeStep DEF MissInv
<1>1. ASSUME UNCHANGED <<windowVars, countVars>> PROVE MissInv'
  <2>1. \A v \in Validators : OverdueOf(v)' \subseteq OverdueOf(v)
    BY <1>1 DEF windowVars, OverdueOf
  <2> QED
    BY <1>0, <1>1, <2>1, MissQuiet
<1>2. ASSUME NEW r \in Requests, NEW v \in Validators, NEW w \in Windows,
             \/ ClaimCheck(r, v, w)
             \/ \E D \in SUBSET Members(w) : DecideCheck(r, v, w, D)
      PROVE  MissInv'
  BY <1>1, <1>2 DEF ClaimCheck, DecideCheck
<1>3. ASSUME NEW r \in Requests,
             ClaimCount(r) \/ DecideApply(r) \/ DecideCount(r) \/ DecideAbort(r)
      PROVE  MissInv'
  BY <1>1, <1>3 DEF ClaimCount, DecideApply, DecideCount, DecideAbort
<1>4. ASSUME NEW r \in Requests, ClaimTake(r) PROVE MissInv'
  <2>1. req[r].win \in Windows
    BY <1>0, <1>4, ReqShape DEF ClaimTake
  <2>2. \A v \in Validators : OverdueOf(v)' \subseteq OverdueOf(v)
    BY <1>0, <1>4, <2>1 DEF ClaimTake, OverdueOf, TypeOK
  <2> QED
    BY <1>0, <1>4, <2>2, MissQuiet DEF ClaimTake
<1>5. ASSUME NEW r \in Requests, NEW ok \in SUBSET Items, DecideCommit(r, ok)
      PROVE  MissInv'
  <2>1. \A v \in Validators : OverdueOf(v)' \subseteq OverdueOf(v)
    BY <1>0, <1>5 DEF DecideCommit, OverdueOf, TypeOK
  <2> QED
    BY <1>0, <1>5, <2>1, MissQuiet DEF DecideCommit
<1>6. ASSUME NEW w \in Windows, DeadlinePasses(w) PROVE MissInv'
  <2>1. ASSUME NEW v \in Validators
        PROVE  missed'[v] + Cardinality(OverdueOf(v)') <= lapsed'[v]
    <3>0. /\ OverdueOf(v) \in SUBSET Windows /\ OverdueOf(v)' \in SUBSET Windows
          /\ OverdueOf(v) \cup {w} \in SUBSET Windows
      BY DEF OverdueOf
    <3>1. missed[v] + Cardinality(OverdueOf(v)) <= lapsed[v] /\ missed' = missed
      BY <1>6 DEF DeadlinePasses, MissInv, Accounted
    <3>2. Cardinality(OverdueOf(v)) \in Nat /\ Cardinality(OverdueOf(v)') \in Nat
      BY <3>0, WindowCount
    <3>3. CASE owner[w] = v
      <4>1. OverdueOf(v)' \subseteq OverdueOf(v) \cup {w}
        BY <1>0, <1>6 DEF DeadlinePasses, OverdueOf, TypeOK
      <4>2. /\ Cardinality(OverdueOf(v)') <= Cardinality(OverdueOf(v) \cup {w})
            /\ Cardinality(OverdueOf(v) \cup {w}) \in Nat
        BY <3>0, <4>1, WindowCount
      <4>3. Cardinality(OverdueOf(v) \cup {w}) <= Cardinality(OverdueOf(v)) + 1
        BY <3>0, WindowAdded
      <4>4. lapsed'[v] = lapsed[v] + 1
        BY <1>0, <1>6, <3>3 DEF DeadlinePasses, TypeOK
      <4> QED
        BY <1>0, <3>1, <3>2, <4>2, <4>3, <4>4 DEF TypeOK
    <3>4. CASE owner[w] # v
      <4>1. OverdueOf(v)' \subseteq OverdueOf(v)
        BY <1>0, <1>6, <3>4 DEF DeadlinePasses, OverdueOf, TypeOK
      <4>2. Cardinality(OverdueOf(v)') <= Cardinality(OverdueOf(v))
        BY <3>0, <4>1, WindowCount
      <4>3. lapsed'[v] = lapsed[v]
        BY <1>0, <1>6, <3>4 DEF DeadlinePasses, TypeOK
      <4> QED
        BY <1>0, <3>1, <3>2, <4>2, <4>3 DEF TypeOK
    <3> QED
      BY <3>3, <3>4
  <2> QED
    BY <1>0, <2>1 DEF MissInv, Accounted
<1>7. ASSUME NEW s \in Sweepers, SweepRead(s) PROVE MissInv'
  BY <1>1, <1>7 DEF SweepRead
<1>8. ASSUME NEW s \in Sweepers, NEW e \in sweep[s], SweepRelease(s, e) PROVE MissInv'
  <2>0. e.win \in Windows /\ e.who \in Validators
    BY <1>0 DEF TypeOK, SweepType
  <2>1. CASE ~StillOverdue(e)
    BY <1>1, <1>8, <2>1 DEF SweepRelease, windowVars, countVars
  <2>2. CASE StillOverdue(e)
    <3>1. ASSUME NEW v \in Validators
          PROVE  missed'[v] + Cardinality(OverdueOf(v)') <= lapsed'[v]
      <4>0. OverdueOf(v) \in SUBSET Windows
        BY DEF OverdueOf
      <4>1. missed[v] + Cardinality(OverdueOf(v)) <= lapsed[v] /\ lapsed' = lapsed
        BY <1>8 DEF SweepRelease, MissInv, Accounted
      <4>2. OverdueOf(v)' \subseteq OverdueOf(v) \ {e.win}
        BY <1>0, <1>8, <2>0, <2>2 DEF SweepRelease, OverdueOf, TypeOK
      <4>3. CASE v = e.who
        <5>1. e.win \in OverdueOf(v)
          BY <2>0, <2>2, <4>3 DEF StillOverdue, OverdueOf
        <5>2. Cardinality(OverdueOf(v) \ {e.win}) = Cardinality(OverdueOf(v)) - 1
          BY <4>0, <5>1, WindowRemoved
        <5>3. /\ Cardinality(OverdueOf(v)') <= Cardinality(OverdueOf(v) \ {e.win})
              /\ Cardinality(OverdueOf(v)') \in Nat
              /\ Cardinality(OverdueOf(v) \ {e.win}) \in Nat
              /\ Cardinality(OverdueOf(v)) \in Nat
          BY <4>0, <4>2, WindowCount
        <5>4. missed'[v] = missed[v] + 1
          BY <1>0, <1>8, <2>2, <4>3 DEF SweepRelease, TypeOK
        <5> QED
          BY <1>0, <4>1, <5>2, <5>3, <5>4 DEF TypeOK
      <4>4. CASE v # e.who
        <5>1. /\ Cardinality(OverdueOf(v)') <= Cardinality(OverdueOf(v))
              /\ Cardinality(OverdueOf(v)') \in Nat /\ Cardinality(OverdueOf(v)) \in Nat
          BY <4>0, <4>2, WindowCount
        <5>2. missed'[v] = missed[v]
          BY <1>0, <1>8, <2>2, <4>4 DEF SweepRelease, TypeOK
        <5> QED
          BY <1>0, <4>1, <5>1, <5>2 DEF TypeOK
      <4> QED
        BY <4>3, <4>4
    <3> QED
      BY <1>0, <3>1 DEF MissInv, Accounted
  <2> QED
    BY <2>1, <2>2
<1>9. ASSUME NEW i \in Items,
             DisputeCheck(i) \/ DisputeFile(i) \/ ResolveRejected(i)
      PROVE  MissInv'
  BY <1>1, <1>9 DEF DisputeCheck, DisputeFile, ResolveRejected
<1>10. ASSUME NEW i \in Items, ResolveUpheld(i) PROVE MissInv'
  <2>1. \A v \in Validators : OverdueOf(v)' \subseteq OverdueOf(v)
    BY <1>0, <1>10 DEF ResolveUpheld, OverdueOf, TypeOK
  <2> QED
    BY <1>0, <1>10, <2>1, MissQuiet DEF ResolveUpheld
<1>11. ASSUME UNCHANGED vars PROVE MissInv'
  BY <1>1, <1>11 DEF vars
<1> QED
  BY <1>2, <1>3, <1>4, <1>5, <1>6, <1>7, <1>8, <1>9, <1>10, <1>11, Zenon
  DEF Next, RequestStep, SweepStep

(* However many sweeps list the same claims, a validator is charged no     *)
(* more misses than deadlines it let pass (audit-lifecycle.ts).            *)
THEOREM MissesAreChargedOnce == Spec => []MissedOnce
<1>1. MissInv => MissedOnce
  <2> SUFFICES ASSUME MissInv, NEW v \in Validators PROVE missed[v] <= lapsed[v]
      BY DEF MissedOnce
  <2>1. OverdueOf(v) \in SUBSET Windows
    BY DEF OverdueOf
  <2>2. Cardinality(OverdueOf(v)) \in Nat
    BY <2>1, WindowCount
  <2> QED
    BY <2>2 DEF MissInv, Accounted, TypeOK
<1> QED
  BY <1>1, InitMiss, MissStep, PTL DEF Spec
-----------------------------------------------------------------------------
(* A request decides and wins items of its own window only.                *)
OwnWindow ==
    \A r \in Requests :
        /\ req[r].op = "decide" => req[r].items \subseteq Members(req[r].win)
        /\ InDecision(r) => req[r].won \subseteq Members(req[r].win)

(* The bounty row: two requests that won something never count at once.    *)
CountedAlone ==
    \A r, x \in Requests :
        /\ req[r].op = "counted" /\ req[r].won # {}
        /\ req[x].op = "counted" /\ req[x].won # {}
        => r = x

(* A count that left the window open stays true until its commit.          *)
CountStands ==
    \A r \in Requests :
        req[r].op = "counted" /\ req[r].won # {} /\ ~req[r].last
            => ~(Pending(req[r].win) \subseteq req[r].won)

(* A window with nothing left in audit is settled.                         *)
EmptyIsSettled == \A w \in Windows : Pending(w) = {} => settled[w]

(* Nobody disputes an item that is in audit.                               *)
AuditUndisputed ==
    \A i \in Items : status[i] = "in_audit" => disputing[i] = 0 /\ disputes[i] = 0

(* No item has two disputes under way; nothing in the routes makes sure.   *)
OneDisputeEach == \A i \in Items : disputing[i] + disputes[i] <= 1

SettleInv ==
    RecordInv /\ AuditUndisputed /\ OwnWindow /\ CountedAlone /\ CountStands
    /\ EmptyIsSettled

(* What a step that leaves the items and the settlements alone preserves:  *)
(* a request may go to any state that keeps the three facts about it.      *)
LEMMA SettleQuiet ==
  ASSUME SettleInv, RecordInv', UNCHANGED <<itemVars, settled, disputes>>,
         \A i \in Items : disputing'[i] = disputing[i] \/ status[i] # "in_audit",
         OwnWindow', CountedAlone', CountStands'
  PROVE  SettleInv'
<1>1. \A w \in Windows : Pending(w)' = Pending(w)
  BY DEF itemVars, Pending, Members
<1> QED
  BY <1>1 DEF SettleInv, EmptyIsSettled, AuditUndisputed, itemVars

(* A request that leaves its transaction, or is not yet in one.            *)
LEMMA SettleGo ==
  ASSUME SettleInv, RecordInv', UNCHANGED <<itemVars, settled, disputing, disputes>>,
         NEW r \in Requests, NEW state \in ReqType, Go(r, state),
         state.op \in {"idle", "claim", "claiming", "decide"},
         state.op = "decide" => state.items \subseteq Members(state.win)
  PROVE  SettleInv'
<1>1. req'[r] = state /\ \A x \in Requests \ {r} : req'[x] = req[x]
  BY ReqTyped DEF SettleInv, RecordInv
<1>2. \A w : Members(w)' = Members(w) /\ Pending(w)' = Pending(w)
  BY DEF Members, Pending, itemVars
<1>3. OwnWindow'
  BY <1>1, <1>2 DEF SettleInv, OwnWindow, InDecision
<1>4. CountedAlone'
  BY <1>1 DEF SettleInv, CountedAlone
<1>5. CountStands'
  BY <1>1, <1>2 DEF SettleInv, CountStands
<1> QED
  BY <1>3, <1>4, <1>5, SettleQuiet

(* The draw has just linked every window to its batch.                     *)
LEMMA InitSettle ==
  ASSUME Init, \A w \in Windows : Members(w) # {}
  PROVE  SettleInv
<1>1. RecordInv
  BY InitRecord
<1>2. \A r \in Requests : req[r].op = "idle"
  BY DEF Init, Idle
<1>3. OwnWindow /\ CountedAlone /\ CountStands
  BY <1>2 DEF OwnWindow, CountedAlone, CountStands, InDecision
<1>4. \A w \in Windows : Pending(w) = Members(w)
  BY DEF Init, Pending, Members
<1>5. EmptyIsSettled
  BY <1>4 DEF EmptyIsSettled
<1>6. AuditUndisputed
  BY DEF Init, AuditUndisputed
<1> QED
  BY <1>1, <1>3, <1>5, <1>6 DEF SettleInv

(* A dispute or a ruling on an item that is not in audit; a ruling waits   *)
(* for the bounty row.                                                     *)
LEMMA SettleDispute ==
  ASSUME SettleInv, OneDisputeEach, TypeOK, TypeOK', RecordInv', NEW i \in Items,
         DisputeFile(i) \/ ResolveUpheld(i) \/ ResolveRejected(i)
  PROVE  SettleInv'
<1> USE ShapeAssumption
<1>1. status[i] # "in_audit"
  BY DEF SettleInv, AuditUndisputed, DisputeFile, ResolveUpheld, ResolveRejected,
         StillOpen, TypeOK
<1>2. req' = req /\ \A k \in Items \ {i} : status'[k] = status[k]
  BY DEF DisputeFile, ResolveUpheld, ResolveRejected, TypeOK
<1>3. \A w : Members(w)' = Members(w) /\ Pending(w) \subseteq Pending(w)'
  BY <1>1, <1>2 DEF Members, Pending
<1>4. OwnWindow' /\ CountedAlone'
  BY <1>2, <1>3 DEF SettleInv, OwnWindow, CountedAlone, InDecision
<1>5. CountStands'
  BY <1>2, <1>3 DEF SettleInv, CountStands
<1>6. EmptyIsSettled'
  <2>1. CASE ResolveUpheld(i)
    <3>1. WindowOf[i] \in Windows /\ i \in Pending(WindowOf[i])'
      BY <2>1 DEF ResolveUpheld, Pending, Members, TypeOK
    <3>2. \A w \in Windows \ {WindowOf[i]} : settled'[w] = settled[w]
      BY <2>1 DEF ResolveUpheld, TypeOK
    <3> QED
      BY <1>3, <3>1, <3>2 DEF SettleInv, EmptyIsSettled
  <2>2. CASE DisputeFile(i) \/ ResolveRejected(i)
    BY <1>3, <2>2 DEF DisputeFile, ResolveRejected, windowVars, SettleInv, EmptyIsSettled
  <2> QED
    BY <2>1, <2>2
<1>7. AuditUndisputed'
  <2>1. \A k \in Items \ {i} : disputing'[k] = disputing[k] /\ disputes'[k] = disputes[k]
    BY DEF DisputeFile, ResolveUpheld, ResolveRejected, TypeOK
  <2>2. status'[i] = "in_audit" => disputing'[i] = 0 /\ disputes'[i] = 0
    <3>1. CASE ResolveUpheld(i)
      <4>1. /\ disputing[i] \in Nat /\ disputes[i] \in Nat /\ disputes[i] > 0
            /\ disputing[i] + disputes[i] <= 1
        BY <3>1 DEF ResolveUpheld, StillOpen, OneDisputeEach, TypeOK
      <4>2. disputing[i] = 0 /\ disputes[i] = 1
        BY <4>1
      <4>3. disputing'[i] = disputing[i] /\ disputes'[i] = disputes[i] - 1
        BY <3>1 DEF ResolveUpheld, TypeOK
      <4> QED
        BY <4>2, <4>3
    <3>2. CASE DisputeFile(i) \/ ResolveRejected(i)
      BY <3>2 DEF DisputeFile, ResolveRejected, TypeOK
    <3> QED
      BY <3>1, <3>2
  <2> QED
    BY <1>2, <2>1, <2>2 DEF SettleInv, AuditUndisputed
<1> QED
  BY <1>4, <1>5, <1>6, <1>7 DEF SettleInv

(* A commit takes from its window what it won, after a count that still    *)
(* stands; a transaction that wins nothing changes no window.              *)
LEMMA SettleCommit ==
  ASSUME SettleInv, TypeOK, RecordInv', NEW r \in Requests, NEW ok \in SUBSET Items,
         DecideCommit(r, ok)
  PROVE  SettleInv'
<1> DEFINE d == req[r]
<1>1. Idle \in ReqType /\ Idle.op = "idle"
  BY DEF ReqType, Idle
<1>2. req'[r] = Idle /\ \A x \in Requests \ {r} : req'[x] = req[x]
  BY <1>1, ReqTyped DEF DecideCommit
<1>3. /\ d.op = "counted" /\ InDecision(r) /\ d.win \in Windows
      /\ d.last \in BOOLEAN /\ d.won \subseteq Members(d.win)
  BY ReqShape DEF DecideCommit, InDecision, SettleInv, OwnWindow
<1>4. \A i \in Items :
         /\ i \notin d.won => status'[i] = status[i]
         /\ i \in d.won => status'[i] \in {"accepted", "flagged"}
  BY DEF DecideCommit
<1>5. \A w : Members(w)' = Members(w) /\ Pending(w)' = Pending(w) \ d.won
  BY <1>4 DEF Members, Pending
<1>6. OwnWindow' /\ CountedAlone'
  BY <1>1, <1>2, <1>5 DEF SettleInv, OwnWindow, CountedAlone, InDecision
<1>7. CountStands'
  <2>1. ASSUME NEW x \in Requests, req'[x].op = "counted", req'[x].won # {}, ~req'[x].last
        PROVE  ~(Pending(req[x].win) \subseteq req[x].won)'
    <3>1. x # r /\ req'[x] = req[x]
      BY <1>1, <1>2, <2>1
    <3>2. d.won = {}
      BY <1>3, <2>1, <3>1 DEF SettleInv, CountedAlone
    <3>3. ~(Pending(req[x].win) \subseteq req[x].won)
      BY <2>1, <3>1 DEF SettleInv, CountStands
    <3>4. \A k \in Items : status'[k] = status[k]
      BY <1>4, <3>2
    <3> QED
      BY <3>1, <3>3, <3>4 DEF Pending, Members
  <2> QED
    BY <2>1, Zenon DEF CountStands
<1>8. EmptyIsSettled'
  <2>1. ASSUME NEW w \in Windows, Pending(w)' = {} PROVE settled'[w]
    <3>1. settled' = [settled EXCEPT ![d.win] = settled[d.win] \/ d.last]
      BY DEF DecideCommit
    <3>2. CASE w # d.win
      <4>1. Pending(w)' = Pending(w)
        BY <1>3, <1>5, <3>2 DEF Pending, Members
      <4> QED
        BY <2>1, <3>1, <3>2, <4>1 DEF SettleInv, EmptyIsSettled, TypeOK
    <3>3. CASE w = d.win
      <4>1. Pending(w) \subseteq d.won
        BY <1>5, <2>1
      <4>2. d.last \/ settled[w]
        BY <1>3, <3>3, <4>1 DEF SettleInv, CountStands, EmptyIsSettled
      <4> QED
        BY <3>1, <3>3, <4>2 DEF TypeOK
    <3> QED
      BY <3>2, <3>3
  <2> QED
    BY <2>1 DEF EmptyIsSettled
<1>9. AuditUndisputed'
  BY <1>4 DEF DecideCommit, SettleInv, AuditUndisputed, disputeVars
<1> QED
  BY <1>6, <1>7, <1>8, <1>9 DEF SettleInv

(* Every step keeps the invariant while no item has two disputes.          *)
LEMMA SettleStep ==
  ASSUME SettleInv, OneDisputeEach, [Next]_vars
  PROVE  SettleInv'
<1>0. RecordInv /\ RecordInv' /\ TypeOK /\ TypeOK'
  BY RecordStep, TypeStep DEF SettleInv, RecordInv
<1>a. Idle \in ReqType /\ Idle.op = "idle"
  BY DEF ReqType, Idle
<1>1. ASSUME NEW r \in Requests, NEW v \in Validators, NEW w \in Windows,
             ClaimCheck(r, v, w)
      PROVE  SettleInv'
  <2>1. [op |-> "claim", who |-> v, win |-> w] \in ReqType
    BY DEF ReqType
  <2> QED
    BY <1>0, <1>1, <2>1, SettleGo DEF ClaimCheck, windowVars, disputeVars
<1>2. ASSUME NEW r \in Requests, ClaimCount(r) PROVE SettleInv'
  <2>1. [op |-> "claiming", who |-> req[r].who, win |-> req[r].win] \in ReqType
    BY <1>0, <1>2, ReqShape DEF ClaimCount, ReqType
  <2> QED
    BY <1>0, <1>a, <1>2, <2>1, SettleGo DEF ClaimCount, windowVars, disputeVars
<1>3. ASSUME NEW r \in Requests, ClaimTake(r) \/ DecideAbort(r) PROVE SettleInv'
  BY <1>0, <1>a, <1>3, SettleGo DEF ClaimTake, DecideAbort, windowVars, disputeVars
<1>4. ASSUME NEW r \in Requests, NEW v \in Validators, NEW w \in Windows,
             NEW D \in SUBSET Members(w), DecideCheck(r, v, w, D)
      PROVE  SettleInv'
  <2>1. [op |-> "decide", who |-> v, win |-> w, items |-> D] \in ReqType
    BY DEF ReqType, Members
  <2> QED
    BY <1>0, <1>4, <2>1, SettleGo DEF DecideCheck, windowVars, disputeVars
<1>5. ASSUME NEW r \in Requests, DecideApply(r) PROVE SettleInv'
  <2> DEFINE d == req[r]
             state == [op |-> "applied", who |-> d.who, win |-> d.win, won |-> Won(d.items)]
  <2>1. state \in ReqType /\ d.op = "decide"
    BY <1>0, <1>5, ReqShape DEF DecideApply, ReqType, Won
  <2>2. req'[r] = state /\ \A x \in Requests \ {r} : req'[x] = req[x]
    BY <1>0, <1>5, <2>1, ReqTyped DEF DecideApply
  <2>3. \A w : Members(w)' = Members(w) /\ Pending(w)' = Pending(w)
    BY <1>5 DEF DecideApply, Members, Pending, itemVars
  <2>4. Won(d.items) \subseteq Members(d.win)
    BY <2>1 DEF SettleInv, OwnWindow, Won
  <2>5. OwnWindow'
    BY <2>2, <2>3, <2>4 DEF SettleInv, OwnWindow, InDecision
  <2>6. CountedAlone' /\ CountStands'
    BY <2>2, <2>3 DEF SettleInv, CountedAlone, CountStands
  <2> QED
    BY <1>0, <1>5, <2>5, <2>6, SettleQuiet DEF DecideApply, windowVars, disputeVars
<1>6. ASSUME NEW r \in Requests, DecideCount(r) PROVE SettleInv'
  <2> DEFINE d == req[r]
             state == [op |-> "counted", who |-> d.who, win |-> d.win, won |-> d.won,
                       last |-> Pending(d.win) \subseteq d.won]
  <2>1. state \in ReqType /\ d.op = "applied" /\ InDecision(r)
    BY <1>0, <1>6, ReqShape DEF DecideCount, ReqType, InDecision
  <2>2. req'[r] = state /\ \A x \in Requests \ {r} : req'[x] = req[x]
    BY <1>0, <1>6, <2>1, ReqTyped DEF DecideCount
  <2>3. \A w : Members(w)' = Members(w) /\ Pending(w)' = Pending(w)
    BY <1>6 DEF DecideCount, Members, Pending, itemVars
  <2>4. OwnWindow'
    BY <2>1, <2>2, <2>3 DEF SettleInv, OwnWindow, InDecision
  <2>5. CountedAlone'
    BY <1>6, <2>1, <2>2
    DEF DecideCount, RecountWaits, BountyRowFree, SettleInv, CountedAlone
  <2>6. CountStands'
    <3>1. ~state.last => ~(Pending(d.win) \subseteq d.won)
      OBVIOUS
    <3>2. ASSUME NEW x \in Requests, req'[x].op = "counted", req'[x].won # {}, ~req'[x].last
          PROVE  ~(Pending(req[x].win) \subseteq req[x].won)'
      <4>1. CASE x = r
        BY <2>2, <2>3, <3>1, <3>2, <4>1
      <4>2. CASE x # r
        BY <2>2, <2>3, <3>2, <4>2 DEF SettleInv, CountStands
      <4> QED
        BY <4>1, <4>2
    <3> QED
      BY <3>2, Zenon DEF CountStands
  <2> QED
    BY <1>0, <1>6, <2>4, <2>5, <2>6, SettleQuiet DEF DecideCount, windowVars, disputeVars
<1>7. ASSUME NEW r \in Requests, NEW ok \in SUBSET Items, DecideCommit(r, ok)
      PROVE  SettleInv'
  BY <1>0, <1>7, SettleCommit
<1>8. ASSUME NEW i \in Items,
             DisputeFile(i) \/ ResolveUpheld(i) \/ ResolveRejected(i)
      PROVE  SettleInv'
  BY <1>0, <1>8, SettleDispute
<1>9. ASSUME UNCHANGED <<itemVars, settled, disputes, req>>,
             \A i \in Items : disputing'[i] = disputing[i] \/ status[i] # "in_audit"
      PROVE  SettleInv'
  <2>1. \A w : Members(w)' = Members(w) /\ Pending(w)' = Pending(w)
    BY <1>9 DEF Members, Pending, itemVars
  <2>2. OwnWindow' /\ CountedAlone' /\ CountStands'
    BY <1>9, <2>1 DEF SettleInv, OwnWindow, CountedAlone, CountStands, InDecision
  <2> QED
    BY <1>0, <1>9, <2>2, SettleQuiet
<1>10. ASSUME NEW s \in Sweepers, SweepStep(s) PROVE SettleInv'
  BY <1>9, <1>10 DEF SweepStep, SweepRead, SweepRelease, windowVars, disputeVars
<1>11. ASSUME NEW w \in Windows, DeadlinePasses(w) PROVE SettleInv'
  BY <1>9, <1>11 DEF DeadlinePasses, disputeVars
<1>12. ASSUME NEW i \in Items, DisputeCheck(i) PROVE SettleInv'
  BY <1>0, <1>9, <1>12
  DEF DisputeCheck, ContributorDisputes, SponsorDisputes, windowVars, TypeOK
<1>13. ASSUME UNCHANGED vars PROVE SettleInv'
  BY <1>9, <1>13 DEF vars, windowVars, disputeVars
<1> QED
  BY <1>1, <1>2, <1>3, <1>4, <1>5, <1>6, <1>7, <1>8, <1>10, <1>11, <1>12, <1>13,
     Zenon DEF Next, RequestStep

(* Whoever decides the last items of a window, one request or several that *)
(* do not see each other's writes, the window is settled, for any number   *)
(* of requests and disputes as long as no item has two disputes under way  *)
(* at once: a second one could take an item that is being reviewed again   *)
(* out of audit behind the count (audits.ts submitAuditDecisions,          *)
(* disputes.ts, routes/v1/admin.ts).                                       *)
THEOREM DecidedWindowsSettle ==
  ASSUME \A w \in Windows : Members(w) # {}
  PROVE  Spec /\ []OneDisputeEach => []DecidedIsSettled
<1>1. Init => SettleInv
  BY InitSettle
<1>2. SettleInv /\ OneDisputeEach /\ [Next]_vars => SettleInv'
  BY SettleStep
<1>3. SettleInv => DecidedIsSettled
  BY DEF SettleInv, EmptyIsSettled, DecidedIsSettled, Pending
<1> QED
  BY <1>1, <1>2, <1>3, PTL DEF Spec

-----------------------------------------------------------------------------
(* Every dispute under way was counted when it began.                      *)
DisputesCounted == \A i \in Items : disputing[i] + disputes[i] <= filed

(* Only a check begins a dispute, and it counts it.                        *)
LEMMA CountedStep ==
  ASSUME TypeOK, TypeOK', DisputesCounted, filed <= MaxDisputes, [Next]_vars
  PROVE  DisputesCounted' /\ filed' <= MaxDisputes
<1> USE BoundAssumption
<1>1. ASSUME UNCHANGED disputeVars PROVE DisputesCounted' /\ filed' <= MaxDisputes
  BY <1>1 DEF disputeVars, DisputesCounted
<1>2. ASSUME NEW i \in Items, DisputeCheck(i)
      PROVE  DisputesCounted' /\ filed' <= MaxDisputes
  BY <1>2 DEF DisputeCheck, DisputesCounted, TypeOK
<1>3. ASSUME NEW i \in Items, DisputeFile(i) \/ ResolveUpheld(i) \/ ResolveRejected(i)
      PROVE  DisputesCounted' /\ filed' <= MaxDisputes
  BY <1>3
  DEF DisputeFile, ResolveUpheld, ResolveRejected, StillOpen, DisputesCounted, TypeOK
<1>4. ASSUME NEW r \in Requests, RequestStep(r) \/ DecideAbort(r) PROVE UNCHANGED disputeVars
  BY <1>4
  DEF RequestStep, ClaimCount, ClaimTake, DecideApply, DecideCount, DecideCommit, DecideAbort
<1>5. ASSUME NEW r \in Requests, NEW v \in Validators, NEW w \in Windows,
             ClaimCheck(r, v, w) \/ \E D \in SUBSET Members(w) : DecideCheck(r, v, w, D)
      PROVE  UNCHANGED disputeVars
  BY <1>5 DEF ClaimCheck, DecideCheck
<1>6. ASSUME NEW w \in Windows, DeadlinePasses(w) PROVE UNCHANGED disputeVars
  BY <1>6 DEF DeadlinePasses
<1>7. ASSUME NEW s \in Sweepers, SweepStep(s) PROVE UNCHANGED disputeVars
  BY <1>7 DEF SweepStep, SweepRead, SweepRelease
<1>8. UNCHANGED vars => UNCHANGED disputeVars
  BY DEF vars
<1> HIDE DEF DisputesCounted
<1> QED
  BY <1>1, <1>2, <1>3, <1>4, <1>5, <1>6, <1>7, <1>8, Zenon DEF Next

(* With one dispute in the pool there are never two, so its windows settle *)
(* whatever the validators, requests and sweeps do.                        *)
THEOREM OneDisputeSettles ==
  ASSUME MaxDisputes <= 1, \A w \in Windows : Members(w) # {}
  PROVE  Spec => []DecidedIsSettled
<1> DEFINE Few == DisputesCounted /\ filed <= MaxDisputes
<1>1. Init => Few
  BY BoundAssumption DEF Init, DisputesCounted
<1>2. TypeOK /\ Few /\ [Next]_vars => Few'
  BY TypeStep, CountedStep
<1>3. TypeOK /\ Few => OneDisputeEach
  BY BoundAssumption DEF TypeOK, DisputesCounted, OneDisputeEach
<1> HIDE DEF Few
<1>4. Spec => []OneDisputeEach
  BY <1>1, <1>2, <1>3, TypeCorrect, PTL DEF Spec
<1> QED
  BY <1>4, DecidedWindowsSettle, PTL
=============================================================================
