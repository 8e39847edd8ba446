-------------------------- MODULE PoolCapacity_proofs --------------------------
(***************************************************************************)
(* The capacity of a pool: what the stored counter promises about the      *)
(* slots in use, and when the target holds, for every number of items and  *)
(* workers.  The counter is moved by one where a worker wins a slot and    *)
(* recounted elsewhere, so it is right as long as the worker still knows   *)
(* where its item is; each theorem says from what that follows.            *)
(***************************************************************************)
EXTENDS PoolLifecycle_proofs

SlotHolders(st) == {i \in Items : st[i] \in HoldsSlot}

LEMMA HoldersFinite ==
    ASSUME NEW st
    PROVE  IsFiniteSet(SlotHolders(st)) /\ Slots(st) = Cardinality(SlotHolders(st))
  BY PoolAssumption, FS_Subset DEF SlotHolders, Slots

(* Who holds no slot before and one after is all that adds to the slots.   *)
LEMMA SlotsKept ==
    ASSUME NEW old, NEW new,
           \A i \in Items : new[i] \in HoldsSlot => old[i] \in HoldsSlot
    PROVE  Slots(new) <= Slots(old)
<1>1. SlotHolders(new) \subseteq SlotHolders(old)
  BY DEF SlotHolders
<1> QED
  BY <1>1, HoldersFinite, FS_Subset

LEMMA SlotsSame ==
    ASSUME NEW old, NEW new,
           \A i \in Items : new[i] \in HoldsSlot <=> old[i] \in HoldsSlot
    PROVE  Slots(new) = Slots(old)
  BY Zenon DEF Slots

(* One item changes hands: at most one slot more, and exactly one if it    *)
(* had none.                                                               *)
LEMMA SlotsGained ==
    ASSUME NEW old, NEW new, NEW i \in Items,
           \A k \in Items \ {i} : new[k] = old[k]
    PROVE  /\ Slots(new) <= Slots(old) + 1
           /\ new[i] \in HoldsSlot /\ old[i] \notin HoldsSlot
                 => Slots(new) = Slots(old) + 1
<1> DEFINE H == SlotHolders(old)
           N == SlotHolders(new)
<1>1. /\ IsFiniteSet(H) /\ IsFiniteSet(N)
      /\ Slots(old) = Cardinality(H) /\ Slots(new) = Cardinality(N)
  BY HoldersFinite
<1>2. /\ IsFiniteSet(H \cup {i})
      /\ Cardinality(H \cup {i}) = IF i \in H THEN Cardinality(H) ELSE Cardinality(H) + 1
  BY <1>1, FS_AddElement
<1>3. N \subseteq H \cup {i}
  BY DEF SlotHolders
<1>4. Cardinality(N) <= Cardinality(H \cup {i})
  BY <1>2, <1>3, FS_Subset
<1>5. Cardinality(H) \in Nat /\ Cardinality(N) \in Nat /\ Cardinality(H \cup {i}) \in Nat
  BY <1>1, <1>2, FS_CardinalityType
<1>6. Slots(new) <= Slots(old) + 1
  BY <1>1, <1>2, <1>4, <1>5
<1>7. ASSUME new[i] \in HoldsSlot, old[i] \notin HoldsSlot
      PROVE  Slots(new) = Slots(old) + 1
  <2>1. N = H \cup {i} /\ i \notin H
    BY <1>7 DEF SlotHolders
  <2> QED
    BY <1>1, <1>2, <2>1
<1> QED
  BY <1>6, <1>7

-----------------------------------------------------------------------------
(* What a step may do to slots and counter, apart from granting a slot: it *)
(* recounts, or it leaves the counter alone and gives no item a slot.      *)
CountsOrKeeps ==
    \/ acceptedItems' = Slots(status')
    \/ /\ acceptedItems' = acceptedItems
       /\ \A i \in Items : status'[i] \in HoldsSlot => status[i] \in HoldsSlot

(* Every step but ValidatePasses does no more than that.                   *)
LEMMA CapacityMoves ==
    ASSUME IInv, [Next]_vars, ~\E w \in Workers : ValidatePasses(w)
    PROVE  CountsOrKeeps
<1>0. status \in [Items -> Statuses]
  BY DEF IInv, TypeOK
<1>1. ASSUME UNCHANGED <<status, acceptedItems>> PROVE CountsOrKeeps
  BY <1>1 DEF CountsOrKeeps
<1>2. ASSUME NEW w \in Workers, ValidateFails(w) PROVE CountsOrKeeps
  <2>1. ItemOf(w) \in Items
    BY <1>2 DEF ValidateFails, ItemOf, IInv, TypeOK, Tries, Validating
  <2> QED
    BY <1>0, <1>2, <2>1 DEF ValidateFails, bountyVars, CountsOrKeeps, Update, HoldsSlot
<1>3. ASSUME NEW w \in Workers, SampleDraw(w) PROVE CountsOrKeeps
  <2> DEFINE eligible == {i \in Items : status[i] = "accepted_pending_sample"}
  <2>1. CASE sampled
    BY <1>1, <1>3, <2>1 DEF SampleDraw, bountyVars
  <2>2. CASE ~sampled
    <3>1. PICK drawn \in SUBSET eligible :
            /\ status' = [i \in Items |->
                   IF i \in drawn THEN Reviewer
                   ELSE IF i \in eligible THEN "accepted" ELSE status[i]]
            /\ IF drawn = eligible THEN UNCHANGED acceptedItems
               ELSE RecountWithout(status')
      BY <1>3, <2>2 DEF SampleDraw
    <3>2. CASE drawn = eligible
      BY <3>1, <3>2 DEF CountsOrKeeps, HoldsSlot
    <3>3. CASE drawn # eligible
      BY <3>1, <3>3 DEF CountsOrKeeps, RecountWithout
    <3> QED
      BY <3>2, <3>3
  <2> QED
    BY <2>1, <2>2
<1>4. ASSUME NEW i \in Items, AuditDecide(i) \/ Resolve(i) PROVE CountsOrKeeps
  BY <1>4
  DEF AuditDecide, Resolve, RulingRecount, Recount, RecountWithout, CountsOrKeeps
<1>5. ASSUME NEW i \in Items, NEW v \in {"accept", "reject"}, ReviewWrite(i, v)
      PROVE  CountsOrKeeps
  BY <1>5 DEF ReviewWrite, Recount, RecountWithout, CountsOrKeeps
<1>6. ASSUME ReconcileRecount PROVE CountsOrKeeps
  BY <1>6 DEF ReconcileRecount, Recount, RecountWithout, CountsOrKeeps, itemVars
<1>7. ASSUME NEW i \in Items,
             IntakeCheck(i) \/ IntakeCreate(i) \/ ReviseClaim(i) \/ ReviseWrite(i)
             \/ DisputeFile(i)
      PROVE  CountsOrKeeps
  BY <1>0, <1>7
  DEF IntakeCheck, IntakeCreate, ReviseClaim, ReviseWrite, DisputeFile, Update,
      bountyVars, CountsOrKeeps, HoldsSlot
<1>8. ASSUME NEW t \in Tries, RerunWrite(t) PROVE CountsOrKeeps
  BY <1>0, <1>8 DEF RerunWrite, Update, bountyVars, CountsOrKeeps, HoldsSlot
<1>9. ASSUME NEW w \in Workers,
             \/ \E t \in Tries : ValidateStart(w, t)
             \/ RecordLoss(w) \/ CloseRead(w) \/ CloseClaim(w) \/ CloseArm(w)
             \/ ValidateAck(w) \/ SampleStart(w) \/ SampleRead(w) \/ SampleAck(w)
             \/ Abort(w)
      PROVE  UNCHANGED <<status, acceptedItems>>
  BY <1>9
  DEF ValidateStart, RecordLoss, CloseRead, CloseClaim, CloseArm, ValidateAck,
      SampleStart, SampleRead, SampleAck, Abort, itemVars, bountyVars
<1>10. ASSUME \/ SettleStep \/ ReconcileList \/ SweepCrash \/ WindowElapses
              \/ SponsorClose
       PROVE  UNCHANGED <<status, acceptedItems>>
  BY <1>10
  DEF SettleStep, SettleRead, SettleCount, SettleReopen, SettleWrite, SettlePublish,
      ReconcileList, SweepCrash, WindowElapses, SponsorClose, itemVars, bountyVars
<1>11. ASSUME NEW i \in Items,
              \/ ReviseCheck(i) \/ RerunCheck(i) \/ DisputeCheck(i)
              \/ \E v \in {"accept", "reject"} : ReviewCheck(i, v)
       PROVE  UNCHANGED <<status, acceptedItems>>
  BY <1>11
  DEF ReviseCheck, RerunCheck, DisputeCheck, ReviewCheck, itemVars, bountyVars
<1>12. ASSUME NEW t \in Tries, ReviseArm(t) \/ ReviseCrash(t)
       PROVE  UNCHANGED <<status, acceptedItems>>
  BY <1>12 DEF ReviseArm, ReviseCrash, itemVars, bountyVars
<1>13. UNCHANGED vars => UNCHANGED <<status, acceptedItems>>
  BY DEF vars, itemVars, bountyVars
<1> QED
  BY <1>1, <1>2, <1>3, <1>4, <1>5, <1>6, <1>7, <1>8, <1>9, <1>10, <1>11, <1>12,
     <1>13, Zenon
  DEF Next, HandlerStep, ReconcileStep, ReviewStep, ContributorStep

-----------------------------------------------------------------------------
(* A handler that read its item as one with a slot still finds it one.     *)
SnapCounts ==
    \A w \in Workers :
        pc[w] = "validating" /\ snap[w] => status[ItemOf(w)] \in HoldsSlot

(* A worker that wins a slot counts it, or its item had one to begin with. *)
LEMMA CoverStep ==
    ASSUME IInv, SnapCounts, CounterCovers, [Next]_vars
    PROVE  CounterCovers'
<1>0. /\ status \in [Items -> Statuses]
      /\ acceptedItems \in Nat /\ Slots(status) \in Nat /\ Slots(status') \in Nat
  BY SlotsNat DEF IInv, TypeOK
<1>1. ASSUME NEW w \in Workers, ValidatePasses(w) PROVE CounterCovers'
  <2> DEFINE i == ItemOf(w)
  <2>1. i \in Items
    BY <1>1 DEF ValidatePasses, ItemOf, IInv, TypeOK, Tries, Validating
  <2>2. \A k \in Items \ {i} : status'[k] = status[k]
    BY <1>0, <1>1 DEF ValidatePasses, Update
  <2>3. CASE TakesSlot(w)
    <3>1. acceptedItems' = acceptedItems + 1
      BY <1>1, <2>3 DEF ValidatePasses
    <3>2. Slots(status') <= Slots(status) + 1
      BY <2>1, <2>2, SlotsGained
    <3> QED
      BY <1>0, <3>1, <3>2 DEF CounterCovers
  <2>4. CASE ~TakesSlot(w)
    <3>1. acceptedItems' = acceptedItems
      BY <1>1, <2>4 DEF ValidatePasses
    <3>2. status'[i] \in HoldsSlot => snap[w]
      BY <1>0, <1>1, <2>1, <2>4
      DEF ValidatePasses, WinsSlot, TakesSlot, Update, HoldsSlot
    <3>3. status'[i] \in HoldsSlot => status[i] \in HoldsSlot
      BY <1>1, <3>2 DEF ValidatePasses, SnapCounts
    <3>4. Slots(status') <= Slots(status)
      BY <2>2, <3>3, SlotsKept
    <3> QED
      BY <1>0, <3>1, <3>4 DEF CounterCovers
  <2> QED
    BY <2>3, <2>4
<1>2. ASSUME ~\E w \in Workers : ValidatePasses(w) PROVE CounterCovers'
  <2>1. CountsOrKeeps
    BY <1>2, CapacityMoves
  <2>2. CASE acceptedItems' = Slots(status')
    BY <1>0, <2>2 DEF CounterCovers
  <2>3. CASE /\ acceptedItems' = acceptedItems
             /\ \A i \in Items : status'[i] \in HoldsSlot => status[i] \in HoldsSlot
    <3>1. Slots(status') <= Slots(status)
      BY <2>3, SlotsKept
    <3> QED
      BY <1>0, <2>3, <3>1 DEF CounterCovers
  <2> QED
    BY <2>1, <2>2, <2>3 DEF CountsOrKeeps
<1> QED
  BY <1>1, <1>2

LEMMA InitCovers == Init => CounterCovers
<1> SUFFICES ASSUME Init PROVE CounterCovers
    OBVIOUS
<1>1. SlotHolders(status) = {}
  BY DEF Init, SlotHolders, HoldsSlot
<1> QED
  BY <1>1, HoldersFinite, FS_EmptySet DEF Init, CounterCovers

(* The counter understates the slots in use only after a handler has used  *)
(* a read of its item that had gone stale: with any number of workers,     *)
(* crashes, disputes, revisions, reruns and reviews, an item that is still *)
(* where the handler read it keeps the counter above the slots             *)
(* (validation.ts resolvePoolAcceptance, pool-lifecycle.ts).               *)
THEOREM FreshReadsCover == Spec /\ []SnapCounts => []CounterCovers
<1>1. IInv /\ SnapCounts /\ CounterCovers /\ [Next]_vars => CounterCovers'
  BY CoverStep
<1> QED
  BY <1>1, InitCovers, Invariance, PTL DEF Spec

-----------------------------------------------------------------------------
(* Nobody disputes the item, and no review of it is under way.             *)
Untouched(i) ==
    disputing[i] = 0 /\ disputes[i] = 0 /\ \A x \in verdicts : x[1] # i

(* A worker has written what this job found and has not acknowledged it.   *)
Past(t) == \E w \in Workers : pc[w] \in Validating \ {"validating"} /\ job[w] = t

(* A worker's job is in the queue, and in no other worker's hands.         *)
JobsHeld == \A w \in Workers : pc[w] \in Validating => job[w] \in todo

JobsApart ==
    \A u, v \in Workers :
        pc[u] \in Validating /\ pc[v] \in Validating /\ job[u] = job[v] => u = v

(* An item not validated yet is in nobody's hands ...                      *)
NewUntouched ==
    \A i \in Items : status[i] \in {"none", "admitted", "submitted"} => Untouched(i)

(* ... and is one whose job waits, as long as no job had to be replayed.   *)
WaitingIsNew ==
    aborts = 0 => \A t \in todo : ~Past(t) => status[t[1]] = "submitted"

(* An item whose job comes back after it won its slot is untouched.        *)
ReplayUntouched ==
    \A t \in todo :
        status[t[1]] = "accepted_pending_sample" /\ (aborts = 0 \/ ~Past(t))
            => Untouched(t[1])

(* A handler that read its item as waiting for the draw finds it waiting.  *)
SnapWaits ==
    \A w \in Workers :
        pc[w] = "validating" /\ snap[w] => status[ItemOf(w)] = "accepted_pending_sample"

(* Nothing is revised or rerun: one validation job for each item.          *)
OneTry ==
    /\ \A i \in Items : revise[i] = "idle" /\ revisions[i] = 0
    /\ reruns = {} /\ unsent = {}

ReplayInv ==
    /\ IInv /\ JobsHeld /\ JobsApart /\ OneTry
    /\ NewUntouched /\ WaitingIsNew /\ ReplayUntouched /\ SnapWaits

(* No handler is ever cut short, or one is, once, and it is the only one.  *)
FewFaults == MaxAborts = 0 \/ (MaxAborts <= 1 /\ \A u, v \in Workers : u = v)

LEMMA InitReplay == Init => ReplayInv
<1> SUFFICES ASSUME Init PROVE ReplayInv
    OBVIOUS
<1>1. IInv
  BY InitIInv
<1>2. OneTry /\ JobsHeld /\ JobsApart /\ SnapWaits
  BY DEF Init, OneTry, JobsHeld, JobsApart, SnapWaits, Validating
<1>3. NewUntouched /\ WaitingIsNew /\ ReplayUntouched
  BY DEF Init, NewUntouched, Untouched, WaitingIsNew, ReplayUntouched
<1> QED
  BY <1>1, <1>2, <1>3 DEF ReplayInv

(* A job in a handler is not past its write, and its item is one of ours.  *)
LEMMA InHandler ==
    ASSUME ReplayInv, NEW w \in Workers, pc[w] = "validating"
    PROVE  /\ job[w] \in todo /\ job[w] \in Tries /\ ItemOf(w) \in Items
           /\ ~Past(job[w])
           /\ aborts = 0 => status[ItemOf(w)] = "submitted" /\ ~snap[w]
<1>1. job[w] \in todo /\ job[w] \in Tries /\ ItemOf(w) \in Items
  BY DEF ReplayInv, JobsHeld, IInv, TypeOK, Validating, ItemOf, Tries
<1>2. ~Past(job[w])
  BY DEF ReplayInv, JobsApart, Past, Validating
<1>3. aborts = 0 => status[ItemOf(w)] = "submitted"
  BY <1>1, <1>2 DEF ReplayInv, WaitingIsNew, ItemOf
<1> QED
  BY <1>1, <1>2, <1>3 DEF ReplayInv, SnapWaits

(* A step of a worker that stays on its side of the write, a sweep, or a   *)
(* route that touches no item keeps the invariant.                         *)
LEMMA ReplayQuiet ==
    ASSUME ReplayInv, IInv',
           UNCHANGED <<status, disputing, disputes, verdicts, todo, aborts, job, snap,
                       revise, revisions, reruns, unsent>>,
           \A v \in Workers :
               /\ pc'[v] \in Validating <=> pc[v] \in Validating
               /\ pc'[v] = "validating" <=> pc[v] = "validating"
    PROVE  ReplayInv'
<1>1. \A t : Past(t)' <=> Past(t)
  BY DEF Past
<1>2. \A k : Untouched(k)' <=> Untouched(k)
  BY DEF Untouched
<1>3. OneTry' /\ JobsHeld' /\ JobsApart' /\ SnapWaits'
  BY DEF ReplayInv, OneTry, JobsHeld, JobsApart, SnapWaits, ItemOf
<1>4. NewUntouched' /\ WaitingIsNew' /\ ReplayUntouched'
  BY <1>1, <1>2 DEF ReplayInv, NewUntouched, WaitingIsNew, ReplayUntouched
<1> QED
  BY <1>3, <1>4 DEF ReplayInv

(* A verdict, a dispute or a ruling concerns an item no handler read as    *)
(* waiting, and leaves the others in whatever hands they are.              *)
LEMMA ReplayRoute ==
    ASSUME ReplayInv, IInv', NEW i \in Items,
           UNCHANGED <<pc, job, snap, todo, aborts, revise, revisions, reruns, unsent>>,
           \A k \in Items \ {i} :
               status'[k] = status[k] /\ (Untouched(k) => Untouched(k)'),
           status'[i] \notin {"none", "admitted", "submitted", "accepted_pending_sample"},
           ~Untouched(i) \/ status[i] \notin {"submitted", "accepted_pending_sample"}
    PROVE  ReplayInv'
<1>0. \A t \in todo : t \in Tries /\ t[1] \in Items
  BY DEF ReplayInv, IInv, TypeOK, Tries
<1>1. \A t : Past(t)' <=> Past(t)
  BY DEF Past
<1>2. OneTry' /\ JobsHeld' /\ JobsApart'
  BY DEF ReplayInv, OneTry, JobsHeld, JobsApart
<1>3. NewUntouched'
  BY DEF ReplayInv, NewUntouched
<1>4. ASSUME NEW t \in todo, ~Past(t), aborts = 0
      PROVE  t[1] # i /\ status[t[1]] = "submitted"
  BY <1>0, <1>4 DEF ReplayInv, WaitingIsNew, NewUntouched
<1>5. WaitingIsNew'
  BY <1>0, <1>1, <1>4 DEF WaitingIsNew
<1>6. ReplayUntouched'
  BY <1>0, <1>1 DEF ReplayInv, ReplayUntouched
<1>7. ASSUME NEW w \in Workers, pc[w] = "validating", snap[w]
      PROVE  status'[ItemOf(w)] = "accepted_pending_sample"
  <2>1. job[w] \in todo /\ ItemOf(w) \in Items /\ ~Past(job[w])
    BY <1>7, InHandler
  <2>2. status[ItemOf(w)] = "accepted_pending_sample"
    BY <1>7 DEF ReplayInv, SnapWaits
  <2>3. Untouched(ItemOf(w))
    BY <2>1, <2>2 DEF ReplayInv, ReplayUntouched, ItemOf
  <2> QED
    BY <2>1, <2>2, <2>3
<1>8. SnapWaits'
  BY <1>7 DEF SnapWaits, ItemOf
<1> QED
  BY <1>2, <1>3, <1>5, <1>6, <1>8 DEF ReplayInv

(* The queue hands a job to a worker, which reads the item.                *)
LEMMA ReplayStart ==
    ASSUME ReplayInv, IInv', NEW w \in Workers, NEW t \in Tries, ValidateStart(w, t)
    PROVE  ReplayInv'
<1>0. job \in [Workers -> Tries \cup {NoTry}] /\ snap \in [Workers -> BOOLEAN]
      /\ pc \in [Workers -> {"idle"} \cup Validating \cup Sampling]
  BY DEF ReplayInv, IInv, TypeOK
<1>1. /\ pc[w] = "idle" /\ t \in todo
      /\ pc'[w] = "validating" /\ job'[w] = t
      /\ snap'[w] = (status[t[1]] = "accepted_pending_sample")
      /\ \A v \in Workers \ {w} :
            pc'[v] = pc[v] /\ job'[v] = job[v] /\ snap'[v] = snap[v]
      /\ \A v \in Workers : pc[v] \in Validating => job[v] # t
  BY <1>0 DEF ValidateStart, Goto
<1>2. UNCHANGED <<status, disputing, disputes, verdicts, todo, aborts, revise,
                  revisions, reruns, unsent>>
  BY DEF ValidateStart, itemVars, routeVars
<1>3. \A u : Past(u)' <=> Past(u)
  BY <1>1 DEF Past, Validating
<1>4. \A k : Untouched(k)' <=> Untouched(k)
  BY <1>2 DEF Untouched
<1>5. JobsHeld' /\ JobsApart'
  BY <1>1, <1>2 DEF ReplayInv, JobsHeld, JobsApart, Validating
<1>6. SnapWaits'
  BY <1>1, <1>2 DEF ReplayInv, SnapWaits, ItemOf
<1>7. NewUntouched' /\ WaitingIsNew' /\ ReplayUntouched' /\ OneTry'
  BY <1>2, <1>3, <1>4
  DEF ReplayInv, NewUntouched, WaitingIsNew, ReplayUntouched, OneTry
<1> QED
  BY <1>5, <1>6, <1>7 DEF ReplayInv

(* A handler writes its verdict on the item of its job.                    *)
LEMMA ReplayVerdict ==
    ASSUME MaxAttempt = 0, ReplayInv, IInv', NEW w \in Workers,
           ValidateFails(w) \/ ValidatePasses(w)
    PROVE  ReplayInv'
<1> DEFINE i == ItemOf(w)
<1>0. pc[w] = "validating"
  BY DEF ValidateFails, ValidatePasses
<1>a. job[w] \in todo /\ i \in Items /\ ~Past(job[w])
  BY <1>0, InHandler
<1>b. pc \in [Workers -> {"idle"} \cup Validating \cup Sampling]
      /\ status \in [Items -> Statuses] /\ todo \subseteq Tries
  BY DEF ReplayInv, IInv, TypeOK
<1>1. /\ UNCHANGED <<disputing, disputes, verdicts, todo, aborts, job, snap, revise,
                     revisions, reruns, unsent>>
      /\ pc'[w] \in Validating \ {"validating"}
      /\ \A v \in Workers \ {w} : pc'[v] = pc[v]
  BY <1>b DEF ValidateFails, ValidatePasses, Goto, Validating, routeVars
<1>2. /\ \A k \in Items \ {i} : status'[k] = status[k]
      /\ status'[i] \in {"rejected", "tests_failed", "accepted_pending_sample"}
  BY <1>a, <1>b DEF ValidateFails, ValidatePasses, Update
<1>3. \A t : IF t = job[w] THEN Past(t)' ELSE Past(t)' <=> Past(t)
  BY <1>0, <1>1 DEF Past
<1>4. \A k : Untouched(k)' <=> Untouched(k)
  BY <1>1 DEF Untouched
<1>5. \A t \in todo : t[1] \in Items /\ (t # job[w] => t[1] # i)
  BY <1>a, <1>b DEF Tries, ItemOf
<1>6. JobsHeld' /\ JobsApart' /\ OneTry'
  <2>1. \A v \in Workers : pc'[v] \in Validating <=> pc[v] \in Validating
    BY <1>0, <1>1 DEF Validating
  <2> QED
    BY <1>1, <2>1 DEF ReplayInv, JobsHeld, JobsApart, OneTry
<1>7. SnapWaits'
  <2>1. ASSUME NEW v \in Workers, pc'[v] = "validating", snap'[v]
        PROVE  status'[ItemOf(v)] = "accepted_pending_sample"
    <3>1. v # w /\ pc[v] = "validating" /\ snap[v]
      BY <1>1, <2>1
    <3>2. job[v] \in todo /\ job[v] # job[w] /\ ItemOf(v) \in Items
      BY <1>0, <3>1, InHandler DEF ReplayInv, JobsApart, Validating
    <3>3. ItemOf(v) # i
      BY <1>5, <3>2 DEF ItemOf
    <3> QED
      BY <1>2, <3>1, <3>2, <3>3 DEF ReplayInv, SnapWaits
  <2> QED
    BY <1>1, <2>1 DEF SnapWaits, ItemOf
<1>8. NewUntouched'
  BY <1>2, <1>4 DEF ReplayInv, NewUntouched
<1>9. WaitingIsNew'
  BY <1>1, <1>2, <1>3, <1>5 DEF ReplayInv, WaitingIsNew
<1>10. ReplayUntouched'
  <2>1. ASSUME NEW t \in todo, status'[t[1]] = "accepted_pending_sample",
               aborts = 0 \/ ~Past(t)'
        PROVE  Untouched(t[1])
    <3>1. CASE t = job[w]
      <4>1. aborts = 0
        BY <1>3, <2>1, <3>1
      <4>2. status[i] = "submitted"
        BY <1>0, <4>1, InHandler
      <4> QED
        BY <1>a, <3>1, <4>2 DEF ReplayInv, NewUntouched, ItemOf
    <3>2. CASE t # job[w]
      BY <1>2, <1>3, <1>5, <2>1, <3>2 DEF ReplayInv, ReplayUntouched
    <3> QED
      BY <3>1, <3>2
  <2> QED
    BY <1>1, <1>4, <2>1 DEF ReplayUntouched
<1> QED
  BY <1>6, <1>7, <1>8, <1>9, <1>10 DEF ReplayInv

(* A finished job leaves the queue.                                        *)
LEMMA ReplayAck ==
    ASSUME ReplayInv, IInv', NEW w \in Workers, ValidateAck(w)
    PROVE  ReplayInv'
<1>0. job \in [Workers -> Tries \cup {NoTry}] /\ snap \in [Workers -> BOOLEAN]
      /\ pc \in [Workers -> {"idle"} \cup Validating \cup Sampling]
  BY DEF ReplayInv, IInv, TypeOK
<1>1. /\ pc[w] = "acking" /\ pc'[w] = "idle"
      /\ todo' = todo \ {job[w]}
      /\ \A v \in Workers \ {w} :
            pc'[v] = pc[v] /\ job'[v] = job[v] /\ snap'[v] = snap[v]
  BY <1>0 DEF ValidateAck, Idles, Goto, Acked
<1>2. UNCHANGED <<status, disputing, disputes, verdicts, aborts, revise, revisions,
                  reruns, unsent>>
  BY DEF ValidateAck, itemVars, routeVars
<1>3. \A t \in todo' : Past(t)' <=> Past(t)
  BY <1>1 DEF Past, Validating
<1>4. \A k : Untouched(k)' <=> Untouched(k)
  BY <1>2 DEF Untouched
<1>5. JobsHeld' /\ JobsApart' /\ SnapWaits'
  BY <1>1, <1>2 DEF ReplayInv, JobsHeld, JobsApart, SnapWaits, Validating, ItemOf
<1>6. NewUntouched' /\ OneTry'
  BY <1>2, <1>4 DEF ReplayInv, NewUntouched, OneTry
<1>7. WaitingIsNew' /\ ReplayUntouched'
  BY <1>1, <1>2, <1>3, <1>4 DEF ReplayInv, WaitingIsNew, ReplayUntouched
<1> QED
  BY <1>5, <1>6, <1>7 DEF ReplayInv

(* The draw takes every waiting item, while no handler has read one as     *)
(* waiting: without crashes none ever does, and one worker draws or        *)
(* validates.                                                              *)
LEMMA ReplayDraw ==
    ASSUME FewFaults, ReplayInv, IInv', NEW w \in Workers, SampleDraw(w)
    PROVE  ReplayInv'
<1>0. /\ pc \in [Workers -> {"idle"} \cup Validating \cup Sampling]
      /\ status \in [Items -> Statuses] /\ todo \subseteq Tries
      /\ aborts \in 0..MaxAborts
  BY DEF ReplayInv, IInv, TypeOK
<1>1. /\ pc[w] = "drawing" /\ pc'[w] = "drawn"
      /\ \A v \in Workers \ {w} : pc'[v] = pc[v]
      /\ UNCHANGED <<disputing, disputes, verdicts, todo, aborts, job, snap, revise,
                     revisions, reruns, unsent>>
  BY <1>0 DEF SampleDraw, Goto, routeVars
<1>2. ASSUME NEW v \in Workers, pc[v] = "validating", snap[v] PROVE FALSE
  <2>1. aborts # 0
    BY <1>2, InHandler
  <2>2. v = w
    BY <1>0, <2>1, PoolAssumption DEF FewFaults
  <2> QED
    BY <1>1, <1>2, <2>2
<1>3. \A k \in Items :
         /\ status'[k] \in {"none", "admitted", "submitted"} => status'[k] = status[k]
         /\ status'[k] = "accepted_pending_sample" => status[k] = "accepted_pending_sample"
         /\ status[k] = "submitted" => status'[k] = "submitted"
  BY <1>0 DEF SampleDraw, Reviewer
<1>4. \A t : Past(t)' <=> Past(t)
  BY <1>1 DEF Past, Validating
<1>5. \A k : Untouched(k)' <=> Untouched(k)
  BY <1>1 DEF Untouched
<1>6. JobsHeld' /\ JobsApart' /\ OneTry'
  BY <1>1 DEF ReplayInv, JobsHeld, JobsApart, OneTry, Validating
<1>7. SnapWaits'
  BY <1>1, <1>2 DEF SnapWaits
<1>8. \A t \in todo : t[1] \in Items
  BY <1>0 DEF Tries
<1>9. NewUntouched' /\ WaitingIsNew' /\ ReplayUntouched'
  BY <1>1, <1>3, <1>4, <1>5, <1>8
  DEF ReplayInv, NewUntouched, WaitingIsNew, ReplayUntouched
<1> QED
  BY <1>6, <1>7, <1>9 DEF ReplayInv

(* A handler is cut short, or a sweep: it is the first time.               *)
LEMMA ReplayFault ==
    ASSUME FewFaults, ReplayInv, IInv',
           SweepCrash \/ \E w \in Workers : Abort(w)
    PROVE  ReplayInv'
<1>0. /\ pc \in [Workers -> {"idle"} \cup Validating \cup Sampling]
      /\ job \in [Workers -> Tries \cup {NoTry}] /\ snap \in [Workers -> BOOLEAN]
      /\ aborts \in 0..MaxAborts
  BY DEF ReplayInv, IInv, TypeOK
<1>1. aborts = 0 /\ aborts' = 1
  BY <1>0, PoolAssumption DEF SweepCrash, Abort, FewFaults
<1>2. UNCHANGED <<status, disputing, disputes, verdicts, todo, revise, revisions,
                  reruns, unsent>>
  BY DEF SweepCrash, Abort, itemVars, routeVars, workVars
<1>3. \A v \in Workers :
         \/ pc'[v] = "idle"
         \/ pc'[v] = pc[v] /\ job'[v] = job[v] /\ snap'[v] = snap[v]
  BY <1>0 DEF SweepCrash, Abort, Idles, Goto, workVars
<1>4. \A k : Untouched(k)' <=> Untouched(k)
  BY <1>2 DEF Untouched
<1>5. JobsHeld' /\ JobsApart' /\ SnapWaits'
  BY <1>2, <1>3 DEF ReplayInv, JobsHeld, JobsApart, SnapWaits, Validating, ItemOf
<1>6. NewUntouched' /\ OneTry' /\ WaitingIsNew' /\ ReplayUntouched'
  BY <1>1, <1>2, <1>4
  DEF ReplayInv, NewUntouched, OneTry, WaitingIsNew, ReplayUntouched
<1> QED
  BY <1>5, <1>6 DEF ReplayInv

(* A contribution passes the intake check.                                 *)
LEMMA ReplayIntakeCheck ==
    ASSUME ReplayInv, IInv', NEW i \in Items, IntakeCheck(i)
    PROVE  ReplayInv'
<1>0. status \in [Items -> Statuses] /\ todo \subseteq Tries
  BY DEF ReplayInv, IInv, TypeOK
<1>1. /\ status[i] = "none" /\ status'[i] = "admitted"
      /\ \A k \in Items \ {i} : status'[k] = status[k]
      /\ UNCHANGED <<disputing, disputes, verdicts, todo, pc, job, snap, aborts, revise,
                     revisions, reruns, unsent>>
  BY <1>0 DEF IntakeCheck, Update, workVars, routeVars
<1>2. \A t : Past(t)' <=> Past(t)
  BY <1>1 DEF Past
<1>3. \A k : Untouched(k)' <=> Untouched(k)
  BY <1>1 DEF Untouched
<1>4. \A t \in todo : t[1] \in Items
  BY <1>0 DEF Tries
<1>5. JobsHeld' /\ JobsApart' /\ OneTry'
  BY <1>1 DEF ReplayInv, JobsHeld, JobsApart, OneTry
<1>6. SnapWaits'
  BY <1>1, InHandler DEF ReplayInv, SnapWaits, ItemOf
<1>7. NewUntouched' /\ WaitingIsNew' /\ ReplayUntouched'
  BY <1>1, <1>2, <1>3, <1>4
  DEF ReplayInv, NewUntouched, WaitingIsNew, ReplayUntouched
<1> QED
  BY <1>5, <1>6, <1>7 DEF ReplayInv

(* ... and is written with its job, or rejected as a duplicate.            *)
LEMMA ReplayIntakeCreate ==
    ASSUME MaxAttempt = 0, ReplayInv, IInv', NEW i \in Items, IntakeCreate(i)
    PROVE  ReplayInv'
<1>0. status \in [Items -> Statuses] /\ todo \subseteq Tries
  BY DEF ReplayInv, IInv, TypeOK
<1>1. /\ status[i] = "admitted" /\ status'[i] \in {"submitted", "rejected"}
      /\ \A k \in Items \ {i} : status'[k] = status[k]
      /\ \/ todo' = todo
         \/ status'[i] = "submitted" /\ todo' = todo \cup {<<i, 0>>}
      /\ UNCHANGED <<disputing, disputes, verdicts, pc, job, snap, aborts, revise,
                     revisions, reruns, unsent>>
  BY <1>0 DEF IntakeCreate, Update, Enqueued, routeVars
<1>2. \A t : Past(t)' <=> Past(t)
  BY <1>1 DEF Past
<1>3. \A k : Untouched(k)' <=> Untouched(k)
  BY <1>1 DEF Untouched
<1>4. \A t \in todo : t[1] \in Items
  BY <1>0 DEF Tries
<1>5. JobsHeld' /\ JobsApart' /\ OneTry'
  BY <1>1 DEF ReplayInv, JobsHeld, JobsApart, OneTry
<1>6. SnapWaits'
  BY <1>1, InHandler DEF ReplayInv, SnapWaits, ItemOf
<1>7. NewUntouched'
  BY <1>1, <1>3 DEF ReplayInv, NewUntouched
<1>8. ASSUME NEW t \in todo'
      PROVE  /\ aborts = 0 /\ ~Past(t) => status'[t[1]] = "submitted"
             /\ status'[t[1]] = "accepted_pending_sample" => t \in todo /\ t[1] # i
  <2>1. CASE t \in todo
    BY <1>1, <1>4, <2>1 DEF ReplayInv, WaitingIsNew
  <2>2. CASE t = <<i, 0>> /\ status'[i] = "submitted"
    BY <2>2
  <2> QED
    BY <1>1, <1>8, <2>1, <2>2
<1>9. WaitingIsNew'
  BY <1>1, <1>2, <1>8 DEF WaitingIsNew
<1>10. ReplayUntouched'
  <2>1. ASSUME NEW t \in todo', status'[t[1]] = "accepted_pending_sample",
               aborts' = 0 \/ ~Past(t)'
        PROVE  Untouched(t[1])
    <3>1. t \in todo /\ t[1] # i /\ t[1] \in Items
      BY <1>4, <1>8, <2>1
    <3> QED
      BY <1>1, <1>2, <2>1, <3>1 DEF ReplayInv, ReplayUntouched
  <2> QED
    BY <1>3, <2>1 DEF ReplayUntouched
<1> QED
  BY <1>5, <1>6, <1>7, <1>9, <1>10 DEF ReplayInv

(* What people do to an item: reviews, disputes and rulings.               *)
LEMMA ReplayPeople ==
    ASSUME ReplayInv, IInv', NEW i \in Items,
           \/ AuditDecide(i) \/ DisputeCheck(i) \/ DisputeFile(i) \/ Resolve(i)
           \/ \E v \in {"accept", "reject"} : ReviewCheck(i, v) \/ ReviewWrite(i, v)
    PROVE  ReplayInv'
<1>0. /\ status \in [Items -> Statuses]
      /\ disputing \in [Items -> 0..MaxDisputes] /\ disputes \in [Items -> 0..MaxDisputes]
  BY DEF ReplayInv, IInv, TypeOK
<1>1. UNCHANGED <<pc, job, snap, todo, aborts, revise, revisions, reruns, unsent>>
  BY DEF AuditDecide, DisputeCheck, DisputeFile, Resolve, ReviewCheck, ReviewWrite,
         workVars, routeVars, itemVars
<1>2. CASE AuditDecide(i)
  <2>1. /\ \A k \in Items \ {i} : status'[k] = status[k]
        /\ status[i] = "in_audit" /\ status'[i] \in {"accepted", "flagged"}
        /\ UNCHANGED <<disputing, disputes, verdicts>>
    BY <1>0, <1>2 DEF AuditDecide, Update, routeVars
  <2> QED
    BY <1>1, <2>1, ReplayRoute DEF Untouched
<1>3. CASE DisputeCheck(i)
  <2>1. /\ status' = status /\ status[i] \in {"flagged", "rejected", "accepted"}
        /\ \A k \in Items \ {i} : disputing'[k] = disputing[k]
        /\ UNCHANGED <<disputes, verdicts>>
    BY <1>0, <1>3
    DEF DisputeCheck, ContributorDisputes, SponsorDisputes, Disputable, Update, itemVars
  <2> QED
    BY <1>1, <2>1, ReplayRoute DEF Untouched
<1>4. CASE DisputeFile(i) \/ Resolve(i)
  <2>1. /\ \A k \in Items \ {i} :
              /\ status'[k] = status[k] /\ disputing'[k] = disputing[k]
              /\ disputes'[k] = disputes[k]
        /\ status'[i] \in {"disputed", "in_audit", "rejected"}
        /\ disputing[i] > 0 \/ disputes[i] > 0
        /\ UNCHANGED verdicts
    BY <1>0, <1>4 DEF DisputeFile, Resolve, Update
  <2>2. ~Untouched(i)
    BY <2>1 DEF Untouched
  <2>3. \A k \in Items \ {i} : Untouched(k) => Untouched(k)'
    BY <2>1 DEF Untouched
  <2> QED
    BY <1>1, <2>1, <2>2, <2>3, ReplayRoute
<1>5. ASSUME NEW v \in {"accept", "reject"}, ReviewCheck(i, v) PROVE ReplayInv'
  <2>1. /\ status' = status /\ status[i] = "in_sponsor_review"
        /\ verdicts' = verdicts \cup {<<i, v>>}
        /\ UNCHANGED <<disputing, disputes>>
    BY <1>5 DEF ReviewCheck, itemVars
  <2>2. \A k \in Items \ {i} : Untouched(k) => Untouched(k)'
    BY <2>1 DEF Untouched
  <2> QED
    BY <1>1, <2>1, <2>2, ReplayRoute
<1>6. ASSUME NEW v \in {"accept", "reject"}, ReviewWrite(i, v) PROVE ReplayInv'
  <2>1. /\ \A k \in Items \ {i} : status'[k] = status[k]
        /\ status'[i] \in {"accepted", "needs_fixes"}
        /\ <<i, v>> \in verdicts /\ verdicts' \subseteq verdicts
        /\ UNCHANGED <<disputing, disputes>>
    BY <1>0, <1>6 DEF ReviewWrite, Update
  <2>2. ~Untouched(i) /\ \A k \in Items \ {i} : Untouched(k) => Untouched(k)'
    BY <2>1 DEF Untouched
  <2> QED
    BY <1>1, <2>1, <2>2, ReplayRoute
<1> QED
  BY <1>2, <1>3, <1>4, <1>5, <1>6

(* Every step keeps the invariant; revisions and reruns never begin.       *)
LEMMA ReplayStep ==
    ASSUME MaxAttempt = 0, FewFaults, ReplayInv, [Next]_vars
    PROVE  ReplayInv'
<1>0. IInv'
  BY InductiveStep DEF ReplayInv
<1>a. /\ \A i \in Items : revise[i] = "idle" /\ revisions[i] = 0 /\ attempt[i] = 0
      /\ reruns = {} /\ unsent = {} /\ MaxRevisions # 0
  BY PoolAssumption DEF ReplayInv, OneTry, IInv, TypeOK
<1>1. ASSUME NEW i \in Items,
             ReviseCheck(i) \/ ReviseClaim(i) \/ ReviseWrite(i) \/ RerunCheck(i)
      PROVE  FALSE
  <2>1. revise[i] = "idle" /\ revisions[i] # MaxRevisions /\ ~(attempt[i] < MaxAttempt)
    BY <1>a
  <2> QED
    BY <1>1, <2>1 DEF ReviseCheck, ReviseClaim, ReviseWrite, RerunCheck
<1>2. ASSUME NEW t \in Tries, ReviseArm(t) \/ ReviseCrash(t) \/ RerunWrite(t)
      PROVE  FALSE
  BY <1>a, <1>2 DEF ReviseArm, ReviseCrash, RerunWrite
<1>3. ASSUME NEW w \in Workers, NEW t \in Tries, ValidateStart(w, t) PROVE ReplayInv'
  BY <1>0, <1>3, ReplayStart
<1>4. ASSUME NEW w \in Workers, ValidateFails(w) \/ ValidatePasses(w) PROVE ReplayInv'
  BY <1>0, <1>4, ReplayVerdict
<1>5. ASSUME NEW w \in Workers,
             \/ RecordLoss(w) \/ CloseRead(w) \/ CloseClaim(w) \/ CloseArm(w)
             \/ SampleStart(w) \/ SampleRead(w) \/ SampleAck(w)
      PROVE  ReplayInv'
  <2>1. pc \in [Workers -> {"idle"} \cup Validating \cup Sampling]
    BY DEF ReplayInv, IInv, TypeOK
  <2>2. UNCHANGED <<status, disputing, disputes, verdicts, todo, aborts, job, snap,
                    revise, revisions, reruns, unsent>>
    BY <1>5
    DEF RecordLoss, CloseRead, CloseClaim, CloseArm, SampleStart, SampleRead, SampleAck,
        itemVars, routeVars
  <2>3. \A v \in Workers :
           /\ pc'[v] \in Validating <=> pc[v] \in Validating
           /\ pc'[v] = "validating" <=> pc[v] = "validating"
    BY <1>5, <2>1
    DEF RecordLoss, CloseRead, CloseClaim, CloseArm, SampleStart, SampleRead, SampleAck,
        Goto, Validating
  <2> QED
    BY <1>0, <2>2, <2>3, ReplayQuiet
<1>6. ASSUME NEW w \in Workers, ValidateAck(w) PROVE ReplayInv'
  BY <1>0, <1>6, ReplayAck
<1>7. ASSUME NEW w \in Workers, SampleDraw(w) PROVE ReplayInv'
  BY <1>0, <1>7, ReplayDraw
<1>8. ASSUME SweepCrash \/ \E w \in Workers : Abort(w) PROVE ReplayInv'
  BY <1>0, <1>8, ReplayFault
<1>9. ASSUME SettleStep \/ ReconcileStep \/ WindowElapses \/ SponsorClose \/ UNCHANGED vars
      PROVE  ReplayInv'
  <2>1. UNCHANGED <<status, disputing, disputes, verdicts, todo, aborts, job, snap, pc,
                    revise, revisions, reruns, unsent>>
    BY <1>9
    DEF SettleStep, SettleRead, SettleCount, SettleReopen, SettleWrite, SettlePublish,
        ReconcileStep, ReconcileList, ReconcileRecount, WindowElapses, SponsorClose,
        itemVars, routeVars, workVars, vars
  <2> QED
    BY <1>0, <2>1, ReplayQuiet
<1>10. ASSUME NEW i \in Items, IntakeCheck(i) PROVE ReplayInv'
  BY <1>0, <1>10, ReplayIntakeCheck
<1>11. ASSUME NEW i \in Items, IntakeCreate(i) PROVE ReplayInv'
  BY <1>0, <1>11, ReplayIntakeCreate
<1>12. ASSUME NEW i \in Items,
              \/ AuditDecide(i) \/ DisputeCheck(i) \/ DisputeFile(i) \/ Resolve(i)
              \/ ReviewStep(i)
       PROVE  ReplayInv'
  BY <1>0, <1>12, ReplayPeople DEF ReviewStep
<1> QED
  BY <1>1, <1>2, <1>3, <1>4, <1>5, <1>6, <1>7, <1>8, <1>9, <1>10, <1>11, <1>12, Zenon
  DEF Next, HandlerStep, ContributorStep

(* Disputes, rulings, sponsor reviews, closes and sweeps never make the    *)
(* counter understate the slots in use, in a pool of any size whose        *)
(* contributions are validated once: with any number of workers if none of *)
(* them fails, and with one worker if it fails once and its job is         *)
(* replayed (validation.ts runSubmissionValidation, disputes.ts,           *)
(* submission-acceptance.ts recomputeAcceptedItemCounters).                *)
THEOREM CounterIsCovered ==
    ASSUME MaxAttempt = 0, FewFaults
    PROVE  Spec => []CounterCovers
<1>1. ReplayInv /\ [Next]_vars => ReplayInv'
  BY ReplayStep
<1>2. ReplayInv => SnapCounts
  BY DEF ReplayInv, SnapWaits, SnapCounts, HoldsSlot
<1> QED
  BY <1>1, <1>2, InitReplay, FreshReadsCover, PTL DEF Spec

-----------------------------------------------------------------------------
(* So far nobody has disputed anything and nothing has failed.             *)
Undisturbed == filed = 0 /\ aborts = 0

(* A job that will be run: it is not written yet, or waits, or is run now. *)
Live(t) == t \in unsent \/ (t \in todo /\ ~Past(t))

(* It is a job of the item's current attempt, and the item waits for it.   *)
LiveIsCurrent ==
    \A t \in Tries : Live(t) => status[t[1]] = "submitted" /\ t[2] = attempt[t[1]]

(* No job runs ahead of its item, nor is in two places.                    *)
JobsDated == \A t \in todo : t[2] <= attempt[t[1]]
QueuesApart == todo \cap unsent = {}

NewIsFirst == \A i \in Items : status[i] \in {"none", "admitted"} => attempt[i] = 0

Work == JobsHeld /\ JobsApart /\ LiveIsCurrent /\ JobsDated /\ QueuesApart /\ NewIsFirst

(* A revision past its gates still finds its item revisable: no rerun of   *)
(* the same item has overtaken it.  The write of a revision checks nothing.*)
NotOvertaken ==
    \A i \in Items :
        \/ revise[i] = "claimed" /\ attempt[i] < MaxAttempt
        \/ revise[i] = "checked" /\ revisions[i] >= MaxRevisions
        => status[i] \in Revisable

(* A sponsor's verdict still finds its item in review: it is the only one. *)
VerdictsCurrent == \A x \in verdicts : status[x[1]] = "in_sponsor_review"

Calm == Undisturbed => NotOvertaken /\ VerdictsCurrent

(* A handler's item is the one its job was written for.                    *)
LEMMA InCalmHandler ==
    ASSUME IInv, Work, NEW w \in Workers, pc[w] = "validating"
    PROVE  /\ job[w] \in todo /\ job[w] \in Tries /\ ItemOf(w) \in Items
           /\ ~Past(job[w]) /\ job[w] \notin unsent
           /\ status[ItemOf(w)] = "submitted" /\ TryOf(w) = attempt[ItemOf(w)]
<1>1. job[w] \in todo /\ job[w] \in Tries /\ ItemOf(w) \in Items
  BY DEF Work, JobsHeld, IInv, TypeOK, Validating, ItemOf, Tries
<1>2. ~Past(job[w])
  BY DEF Work, JobsApart, Past, Validating
<1>3. job[w] \notin unsent
  BY <1>1 DEF Work, QueuesApart
<1>4. Live(job[w])
  BY <1>1, <1>2 DEF Live
<1> QED
  BY <1>1, <1>2, <1>3, <1>4 DEF Work, LiveIsCurrent, ItemOf, TryOf

(* A step that leaves jobs and attempts alone, and takes no item from one  *)
(* that waits for its job.                                                 *)
LEMMA WorkQuiet ==
    ASSUME IInv, Work, UNCHANGED <<todo, unsent, attempt, job>>,
           \A v \in Workers :
               /\ pc'[v] \in Validating <=> pc[v] \in Validating
               /\ pc'[v] = "validating" <=> pc[v] = "validating",
           \A k \in Items :
               /\ status[k] = "submitted" => status'[k] = "submitted"
               /\ status'[k] \in {"none", "admitted"} => attempt[k] = 0
    PROVE  Work'
<1>1. \A t : Past(t)' <=> Past(t)
  BY DEF Past
<1>2. \A t : Live(t)' <=> Live(t)
  BY <1>1 DEF Live
<1>3. JobsHeld' /\ JobsApart' /\ JobsDated' /\ QueuesApart' /\ NewIsFirst'
  BY DEF Work, JobsHeld, JobsApart, JobsDated, QueuesApart, NewIsFirst
<1>4. LiveIsCurrent'
  BY <1>2 DEF Work, LiveIsCurrent, Tries
<1> QED
  BY <1>3, <1>4 DEF Work

LEMMA WorkStart ==
    ASSUME IInv, Work, NEW w \in Workers, NEW t \in Tries, ValidateStart(w, t)
    PROVE  Work'
<1>0. job \in [Workers -> Tries \cup {NoTry}]
      /\ pc \in [Workers -> {"idle"} \cup Validating \cup Sampling]
  BY DEF IInv, TypeOK
<1>1. /\ pc[w] = "idle" /\ t \in todo
      /\ pc'[w] = "validating" /\ job'[w] = t
      /\ \A v \in Workers \ {w} : pc'[v] = pc[v] /\ job'[v] = job[v]
      /\ \A v \in Workers : pc[v] \in Validating => job[v] # t
  BY <1>0 DEF ValidateStart, Goto
<1>2. UNCHANGED <<status, attempt, todo, unsent>>
  BY DEF ValidateStart, itemVars, routeVars
<1>3. \A u : Past(u)' <=> Past(u)
  BY <1>1 DEF Past, Validating
<1>4. \A u : Live(u)' <=> Live(u)
  BY <1>2, <1>3 DEF Live
<1>5. JobsHeld' /\ JobsApart'
  BY <1>1, <1>2 DEF Work, JobsHeld, JobsApart, Validating
<1>6. LiveIsCurrent' /\ JobsDated' /\ QueuesApart' /\ NewIsFirst'
  BY <1>2, <1>4 DEF Work, LiveIsCurrent, JobsDated, QueuesApart, NewIsFirst
<1> QED
  BY <1>5, <1>6 DEF Work

LEMMA WorkVerdict ==
    ASSUME IInv, Work, NEW w \in Workers, ValidateFails(w) \/ ValidatePasses(w)
    PROVE  Work'
<1> DEFINE i == ItemOf(w)
<1>0. pc[w] = "validating"
  BY DEF ValidateFails, ValidatePasses
<1>a. /\ job[w] \in todo /\ job[w] \in Tries /\ i \in Items /\ job[w] \notin unsent
      /\ TryOf(w) = attempt[i]
  BY <1>0, InCalmHandler
<1>b. pc \in [Workers -> {"idle"} \cup Validating \cup Sampling]
      /\ status \in [Items -> Statuses]
  BY DEF IInv, TypeOK
<1>1. /\ UNCHANGED <<todo, unsent, attempt, job>>
      /\ pc'[w] \in Validating \ {"validating"}
      /\ \A v \in Workers \ {w} : pc'[v] = pc[v]
  BY <1>b DEF ValidateFails, ValidatePasses, Goto, Validating, routeVars
<1>2. /\ \A k \in Items \ {i} : status'[k] = status[k]
      /\ status'[i] \notin {"none", "admitted"}
  BY <1>a, <1>b DEF ValidateFails, ValidatePasses, Update
<1>3. \A t : IF t = job[w] THEN Past(t)' ELSE Past(t)' <=> Past(t)
  BY <1>0, <1>1 DEF Past
<1>4. ASSUME NEW t \in Tries, Live(t)'
      PROVE  status'[t[1]] = "submitted" /\ t[2] = attempt[t[1]]
  <2>1. t # job[w] /\ Live(t)
    BY <1>a, <1>1, <1>3, <1>4 DEF Live
  <2>2. status[t[1]] = "submitted" /\ t[2] = attempt[t[1]] /\ t[1] \in Items
    BY <2>1 DEF Work, LiveIsCurrent, Tries
  <2>3. t[1] # i
    BY <1>a, <2>1, <2>2 DEF ItemOf, TryOf, Tries
  <2> QED
    BY <1>2, <2>2, <2>3
<1>5. LiveIsCurrent'
  BY <1>1, <1>4 DEF LiveIsCurrent
<1>6. \A v \in Workers : pc'[v] \in Validating <=> pc[v] \in Validating
  BY <1>0, <1>1 DEF Validating
<1>7. JobsHeld' /\ JobsApart' /\ JobsDated' /\ QueuesApart' /\ NewIsFirst'
  BY <1>1, <1>2, <1>6
  DEF Work, JobsHeld, JobsApart, JobsDated, QueuesApart, NewIsFirst
<1> QED
  BY <1>5, <1>7 DEF Work

LEMMA WorkAck ==
    ASSUME IInv, Work, NEW w \in Workers, ValidateAck(w)
    PROVE  Work'
<1>0. job \in [Workers -> Tries \cup {NoTry}]
      /\ pc \in [Workers -> {"idle"} \cup Validating \cup Sampling]
  BY DEF IInv, TypeOK
<1>1. /\ pc[w] = "acking" /\ pc'[w] = "idle"
      /\ todo' = todo \ {job[w]}
      /\ \A v \in Workers \ {w} : pc'[v] = pc[v] /\ job'[v] = job[v]
  BY <1>0 DEF ValidateAck, Idles, Goto, Acked
<1>2. UNCHANGED <<status, attempt, unsent>>
  BY DEF ValidateAck, itemVars, routeVars
<1>3. \A t \in todo' : Past(t)' <=> Past(t)
  BY <1>1 DEF Past, Validating
<1>4. \A t : Live(t)' => Live(t)
  BY <1>1, <1>2, <1>3 DEF Live
<1>5. JobsHeld' /\ JobsApart'
  BY <1>1 DEF Work, JobsHeld, JobsApart, Validating
<1>6. LiveIsCurrent' /\ JobsDated' /\ QueuesApart' /\ NewIsFirst'
  BY <1>1, <1>2, <1>4 DEF Work, LiveIsCurrent, JobsDated, QueuesApart, NewIsFirst
<1> QED
  BY <1>5, <1>6 DEF Work

LEMMA WorkCreate ==
    ASSUME IInv, Work, NEW i \in Items, IntakeCreate(i)
    PROVE  Work'
<1>0. status \in [Items -> Statuses] /\ todo \subseteq Tries /\ unsent \subseteq Tries
  BY DEF IInv, TypeOK
<1>1. /\ status[i] = "admitted" /\ status'[i] \in {"submitted", "rejected"}
      /\ \A k \in Items \ {i} : status'[k] = status[k]
      /\ \/ todo' = todo
         \/ status'[i] = "submitted" /\ todo' = todo \cup {<<i, 0>>}
      /\ UNCHANGED <<attempt, unsent, pc, job>>
  BY <1>0 DEF IntakeCreate, Update, Enqueued, routeVars
<1>2. attempt[i] = 0
  BY <1>1 DEF Work, NewIsFirst
<1>3. \A t : Past(t)' <=> Past(t)
  BY <1>1 DEF Past
<1>4. ASSUME NEW t \in Tries, Live(t)
      PROVE  t[1] # i /\ t[1] \in Items
  BY <1>1, <1>4 DEF Work, LiveIsCurrent, Tries
<1>5. \A t : Live(t)' => Live(t) \/ (t = <<i, 0>> /\ status'[i] = "submitted")
  BY <1>1, <1>3 DEF Live
<1>6. LiveIsCurrent'
  BY <1>1, <1>2, <1>4, <1>5 DEF Work, LiveIsCurrent
<1>7. <<i, 0>> \in Tries
  BY PoolAssumption DEF Tries
<1>8. <<i, 0>> \notin unsent
  BY <1>4, <1>7 DEF Live
<1>9. QueuesApart' /\ JobsHeld' /\ JobsApart'
  BY <1>1, <1>8 DEF Work, QueuesApart, JobsHeld, JobsApart
<1>10. JobsDated' /\ NewIsFirst'
  BY <1>1, <1>2 DEF Work, JobsDated, NewIsFirst
<1> QED
  BY <1>6, <1>9, <1>10 DEF Work

(* A revision, or a rerun, that finds its item revisable starts the next   *)
(* attempt of an item no job of which is under way.                        *)
LEMMA WorkNextAttempt ==
    ASSUME IInv, Work, NEW i \in Items, status[i] \in Revisable,
           attempt[i] < MaxAttempt,
           attempt' = [attempt EXCEPT ![i] = attempt[i] + 1],
           status'[i] \in {"submitted", "rejected"},
           \A k \in Items \ {i} : status'[k] = status[k],
           UNCHANGED <<pc, job>>,
           \/ UNCHANGED <<todo, unsent>>
           \/ /\ status'[i] = "submitted"
              /\ \/ unsent' = unsent \cup {<<i, attempt[i] + 1>>} /\ todo' = todo
                 \/ todo' = todo \cup {<<i, attempt[i] + 1>>} /\ unsent' = unsent
    PROVE  Work'
<1>0. /\ attempt \in [Items -> 0..MaxAttempt] /\ MaxAttempt \in Nat
      /\ todo \subseteq Tries /\ unsent \subseteq Tries
  BY PoolAssumption DEF IInv, TypeOK
<1> DEFINE next == <<i, attempt[i] + 1>>
<1>1. /\ next \in Tries
      /\ attempt'[i] = attempt[i] + 1
      /\ \A k \in Items \ {i} : attempt'[k] = attempt[k]
  BY <1>0 DEF Tries
<1>2. \A t : Past(t)' <=> Past(t)
  BY DEF Past
<1>3. ASSUME NEW t \in Tries, Live(t)
      PROVE  t[1] # i /\ t[1] \in Items
  BY <1>3 DEF Work, LiveIsCurrent, Tries, Revisable
<1>4. \A t : Live(t)' => Live(t) \/ (t = next /\ status'[i] = "submitted")
  BY <1>2 DEF Live
<1>5. LiveIsCurrent'
  BY <1>1, <1>3, <1>4 DEF Work, LiveIsCurrent
<1>6. \A t \in todo : t[1] \in Items /\ t[2] \in Nat /\ t[2] <= attempt[t[1]]
  BY <1>0 DEF Work, JobsDated, Tries
<1>7. next \notin todo
  BY <1>0, <1>6
<1>8. next \notin unsent
  BY <1>1, <1>3 DEF Live
<1>9. QueuesApart'
  BY <1>7, <1>8 DEF Work, QueuesApart
<1>10. JobsHeld' /\ JobsApart'
  BY DEF Work, JobsHeld, JobsApart
<1>11. JobsDated'
  <2>1. ASSUME NEW t \in todo PROVE t[2] <= attempt'[t[1]]
    <3>1. CASE t[1] = i
      BY <1>0, <1>1, <1>6, <3>1
    <3>2. CASE t[1] # i
      BY <1>1, <1>6, <3>2
    <3> QED
      BY <3>1, <3>2
  <2>2. next[2] <= attempt'[next[1]]
    BY <1>0, <1>1
  <2> QED
    BY <2>1, <2>2 DEF JobsDated
<1>12. NewIsFirst'
  BY <1>1 DEF Work, NewIsFirst
<1> QED
  BY <1>5, <1>9, <1>10, <1>11, <1>12 DEF Work

(* A written revision's job reaches the queue.                             *)
LEMMA WorkArm ==
    ASSUME IInv, Work, NEW t \in Tries, ReviseArm(t)
    PROVE  Work'
<1>1. /\ t \in unsent /\ unsent' = unsent \ {t} /\ todo' = todo \cup {t}
      /\ UNCHANGED <<status, attempt, pc, job>>
  BY DEF ReviseArm, Enqueued, itemVars, Tries
<1>2. \A u : Past(u)' <=> Past(u)
  BY <1>1 DEF Past
<1>3. \A u : Live(u)' => Live(u)
  BY <1>1, <1>2 DEF Live
<1>4. LiveIsCurrent' /\ QueuesApart' /\ JobsHeld' /\ JobsApart' /\ NewIsFirst'
  BY <1>1, <1>3
  DEF Work, LiveIsCurrent, QueuesApart, JobsHeld, JobsApart, NewIsFirst
<1>5. t[2] = attempt[t[1]] /\ t[2] \in Nat
  BY <1>1 DEF Live, Work, LiveIsCurrent, Tries
<1>6. JobsDated'
  BY <1>1, <1>5 DEF Work, JobsDated
<1> QED
  BY <1>4, <1>6 DEF Work

(* In an undisturbed pool nothing is cut short, disputed or ruled on.      *)
LEMMA NothingDisturbs ==
    ASSUME IInv, Undisturbed, Undisturbed'
    PROVE  /\ ~SweepCrash
           /\ \A w \in Workers : ~Abort(w)
           /\ \A t \in Tries : ~ReviseCrash(t)
           /\ \A i \in Items : ~DisputeCheck(i) /\ ~DisputeFile(i) /\ ~Resolve(i)
<1>1. aborts = 0 /\ aborts' = 0 /\ filed = 0 /\ filed' = 0
  BY DEF Undisturbed
<1>2. ~SweepCrash /\ \A w \in Workers : ~Abort(w)
  BY <1>1 DEF SweepCrash, Abort
<1>3. \A t \in Tries : ~ReviseCrash(t)
  BY <1>1 DEF ReviseCrash
<1>4. ASSUME NEW i \in Items PROVE disputing[i] = 0 /\ disputes[i] = 0
  <2>1. disputing[i] \in Nat /\ disputes[i] \in Nat /\ disputing[i] + disputes[i] <= 0
    BY <1>1, PoolAssumption DEF IInv, TypeOK, DisputesFiled
  <2> QED
    BY <2>1
<1>5. ASSUME NEW i \in Items PROVE ~DisputeFile(i) /\ ~Resolve(i)
  <2>1. ~(disputing[i] > 0) /\ ~(disputes[i] > 0)
    BY <1>4
  <2> QED
    BY <2>1, Zenon DEF DisputeFile, Resolve
<1>6. \A i \in Items : ~DisputeCheck(i)
  BY <1>1 DEF DisputeCheck
<1> QED
  BY <1>2, <1>3, <1>5, <1>6

(* The gates of a revision and of a rerun are what the next attempt needs. *)
LEMMA WorkRevise ==
    ASSUME IInv, Work, NotOvertaken, NEW i \in Items, ReviseWrite(i)
    PROVE  Work'
<1>0. status \in [Items -> Statuses]
  BY DEF IInv, TypeOK
<1>1. revise[i] = "claimed" /\ attempt[i] < MaxAttempt
  BY DEF ReviseWrite
<1>2. status[i] \in Revisable
  BY <1>1 DEF NotOvertaken
<1>3. attempt' = [attempt EXCEPT ![i] = attempt[i] + 1]
  BY DEF ReviseWrite, Update
<1>4. /\ status'[i] \in {"submitted", "rejected"}
      /\ \A k \in Items \ {i} : status'[k] = status[k]
      /\ \/ UNCHANGED <<todo, unsent>>
         \/ /\ status'[i] = "submitted"
            /\ unsent' = unsent \cup {<<i, attempt[i] + 1>>} /\ todo' = todo
  BY <1>0 DEF ReviseWrite, Update, workVars
<1>5. UNCHANGED <<pc, job>>
  BY DEF ReviseWrite, workVars
<1> QED
  BY <1>1, <1>2, <1>3, <1>4, <1>5, WorkNextAttempt

LEMMA WorkRerun ==
    ASSUME IInv, Work, NEW t \in Tries, RerunWrite(t)
    PROVE  Work'
<1> DEFINE i == t[1]
<1>0. /\ status \in [Items -> Statuses] /\ i \in Items
      /\ t \in reruns /\ t[2] < MaxAttempt
  BY DEF IInv, TypeOK, RerunWrite, Tries
<1>1. UNCHANGED <<pc, job, unsent>>
  BY DEF RerunWrite
<1>2. CASE status[i] \in Rerunnable /\ attempt[i] = t[2]
  <2>1. /\ status' = Update(status, i, "submitted")
        /\ attempt' = Update(attempt, i, t[2] + 1)
        /\ todo' = Enqueued(i, t[2] + 1)
    BY <1>2 DEF RerunWrite
  <2>2. /\ status'[i] = "submitted"
        /\ \A k \in Items \ {i} : status'[k] = status[k]
        /\ attempt' = [attempt EXCEPT ![i] = attempt[i] + 1]
        /\ todo' = todo \cup {<<i, attempt[i] + 1>>}
    BY <1>0, <1>2, <2>1 DEF Update, Enqueued
  <2>3. status[i] \in Revisable /\ attempt[i] < MaxAttempt
    BY <1>0, <1>2 DEF Rerunnable, Revisable
  <2> QED
    BY <1>0, <1>1, <2>2, <2>3, WorkNextAttempt
<1>3. CASE ~(status[i] \in Rerunnable /\ attempt[i] = t[2])
  <2>1. UNCHANGED <<status, attempt, todo>>
    BY <1>3 DEF RerunWrite
  <2> QED
    BY <1>1, <2>1, WorkQuiet DEF Work, NewIsFirst
<1> QED
  BY <1>2, <1>3

(* Every step of a calm and undisturbed pool keeps its jobs in order.      *)
LEMMA WorkStep ==
    ASSUME IInv, Work, Undisturbed, Undisturbed', NotOvertaken, VerdictsCurrent,
           [Next]_vars
    PROVE  Work'
<1>0. /\ status \in [Items -> Statuses]
      /\ pc \in [Workers -> {"idle"} \cup Validating \cup Sampling]
  BY DEF IInv, TypeOK
<1>a. \A k \in Items : status[k] \in {"none", "admitted"} => attempt[k] = 0
  BY DEF Work, NewIsFirst
<1>1. ASSUME UNCHANGED <<todo, unsent, attempt, job, pc>>,
             NEW i \in Items, \A k \in Items \ {i} : status'[k] = status[k],
             status'[i] # "none",
             status'[i] = status[i] \/ status[i] # "submitted",
             status'[i] = "admitted" => status[i] \in {"none", "admitted"}
      PROVE  Work'
  BY <1>1, <1>a, WorkQuiet
<1>2. ASSUME UNCHANGED <<todo, unsent, attempt, job, pc, status>> PROVE Work'
  BY <1>2, <1>a, WorkQuiet
<1>3. ASSUME NEW w \in Workers,
             \/ RecordLoss(w) \/ CloseRead(w) \/ CloseClaim(w) \/ CloseArm(w)
             \/ SampleStart(w) \/ SampleRead(w) \/ SampleAck(w)
      PROVE  Work'
  <2>1. UNCHANGED <<todo, unsent, attempt, job, status>>
    BY <1>3
    DEF RecordLoss, CloseRead, CloseClaim, CloseArm, SampleStart, SampleRead, SampleAck,
        itemVars, routeVars
  <2>2. \A v \in Workers :
           /\ pc'[v] \in Validating <=> pc[v] \in Validating
           /\ pc'[v] = "validating" <=> pc[v] = "validating"
    BY <1>0, <1>3
    DEF RecordLoss, CloseRead, CloseClaim, CloseArm, SampleStart, SampleRead, SampleAck,
        Goto, Validating
  <2> QED
    BY <1>a, <2>1, <2>2, WorkQuiet
<1>4. ASSUME NEW w \in Workers, SampleDraw(w) PROVE Work'
  <2>1. UNCHANGED <<todo, unsent, attempt, job>>
    BY <1>4 DEF SampleDraw, routeVars
  <2>2. \A v \in Workers :
           /\ pc'[v] \in Validating <=> pc[v] \in Validating
           /\ pc'[v] = "validating" <=> pc[v] = "validating"
    BY <1>0, <1>4 DEF SampleDraw, Goto, Validating
  <2>3. \A k \in Items :
           /\ status[k] = "submitted" => status'[k] = "submitted"
           /\ status'[k] \in {"none", "admitted"} => status'[k] = status[k]
    BY <1>0, <1>4 DEF SampleDraw, Reviewer
  <2> QED
    BY <1>a, <2>1, <2>2, <2>3, WorkQuiet
<1>5. ASSUME NEW i \in Items, IntakeCheck(i) PROVE Work'
  <2>1. status[i] = "none" /\ status' = [status EXCEPT ![i] = "admitted"]
        /\ UNCHANGED <<todo, unsent, attempt, job, pc>>
    BY <1>5 DEF IntakeCheck, Update, workVars, routeVars
  <2> QED
    BY <1>0, <1>1, <2>1
<1>6. ASSUME NEW i \in Items, AuditDecide(i) PROVE Work'
  <2>1. status[i] = "in_audit" /\ UNCHANGED <<todo, unsent, attempt, job, pc>>
        /\ \E s \in {"accepted", "flagged"} : status' = [status EXCEPT ![i] = s]
    BY <1>6 DEF AuditDecide, Update, workVars, routeVars
  <2> QED
    BY <1>0, <1>1, <2>1
<1>7. ASSUME NEW i \in Items, ReviewStep(i) PROVE Work'
  <2>1. CASE \E v \in {"accept", "reject"} : ReviewCheck(i, v)
    BY <1>2, <2>1 DEF ReviewCheck, workVars, itemVars
  <2>2. ASSUME NEW v \in {"accept", "reject"}, ReviewWrite(i, v) PROVE Work'
    <3>1. status[i] = "in_sponsor_review"
      BY <2>2 DEF ReviewWrite, VerdictsCurrent
    <3>2. UNCHANGED <<todo, unsent, attempt, job, pc>>
          /\ \E s \in {"accepted", "needs_fixes"} : status' = [status EXCEPT ![i] = s]
      BY <2>2 DEF ReviewWrite, Update, workVars
    <3> QED
      BY <1>0, <1>1, <3>1, <3>2
  <2> QED
    BY <1>7, <2>1, <2>2 DEF ReviewStep
<1>8. ASSUME NEW i \in Items, ReviseClaim(i) PROVE Work'
  <2>1. UNCHANGED <<todo, unsent, attempt, job, pc>>
    BY <1>8 DEF ReviseClaim, workVars
  <2>2. CASE UNCHANGED status
    BY <1>2, <2>1, <2>2
  <2>3. CASE revisions[i] >= MaxRevisions /\ status' = Update(status, i, "rejected")
    <3>1. status[i] \in Revisable
      BY <1>8, <2>3 DEF ReviseClaim, NotOvertaken
    <3>2. status[i] # "submitted"
      BY <3>1 DEF Revisable
    <3>3. status'[i] = "rejected" /\ \A k \in Items \ {i} : status'[k] = status[k]
      BY <1>0, <2>3 DEF Update
    <3> QED
      BY <1>1, <2>1, <3>2, <3>3
  <2> QED
    BY <1>8, <2>2, <2>3 DEF ReviseClaim
<1>9. ASSUME NEW i \in Items, ReviseCheck(i) \/ RerunCheck(i) PROVE Work'
  BY <1>2, <1>9 DEF ReviseCheck, RerunCheck, workVars, itemVars
<1>10. ASSUME SettleStep \/ ReconcileStep \/ WindowElapses \/ SponsorClose \/ UNCHANGED vars
       PROVE  Work'
  BY <1>2, <1>10
  DEF SettleStep, SettleRead, SettleCount, SettleReopen, SettleWrite, SettlePublish,
      ReconcileStep, ReconcileList, ReconcileRecount, WindowElapses, SponsorClose,
      itemVars, routeVars, workVars, vars
<1>11. ASSUME NEW w \in Workers,
              \/ \E t \in Tries : ValidateStart(w, t)
              \/ ValidateFails(w) \/ ValidatePasses(w) \/ ValidateAck(w)
       PROVE  Work'
  BY <1>11, WorkStart, WorkVerdict, WorkAck
<1>12. ASSUME NEW i \in Items, IntakeCreate(i) \/ ReviseWrite(i) PROVE Work'
  BY <1>12, WorkCreate, WorkRevise
<1>13. ASSUME NEW t \in Tries, ReviseArm(t) \/ RerunWrite(t) PROVE Work'
  BY <1>13, WorkArm, WorkRerun
<1> QED
  BY <1>3, <1>4, <1>5, <1>6, <1>7, <1>8, <1>9, <1>10, <1>11, <1>12, <1>13,
     NothingDisturbs, Zenon
  DEF Next, HandlerStep, ContributorStep

-----------------------------------------------------------------------------
(* No handler read its item as one that waits for the draw already.        *)
SnapNone == \A w \in Workers : pc[w] = "validating" => ~snap[w]

(* A job is handed out for an item that waits for it.                      *)
LEMMA SnapNoneStep ==
    ASSUME IInv, Work, SnapNone, [Next]_vars
    PROVE  SnapNone'
<1>0. /\ pc \in [Workers -> {"idle"} \cup Validating \cup Sampling]
      /\ snap \in [Workers -> BOOLEAN]
  BY DEF IInv, TypeOK
<1>1. ASSUME \A v \in Workers :
                /\ pc'[v] = "validating" => pc[v] = "validating"
                /\ snap'[v] => snap[v]
      PROVE  SnapNone'
  BY <1>1 DEF SnapNone
<1>2. ASSUME NEW w \in Workers, NEW t \in Tries, ValidateStart(w, t) PROVE SnapNone'
  <2>1. t \in todo /\ ~Past(t)
    BY <1>2 DEF ValidateStart, Past
  <2>2. status[t[1]] = "submitted"
    BY <2>1 DEF Live, Work, LiveIsCurrent
  <2>3. ~snap'[w] /\ \A v \in Workers \ {w} : pc'[v] = pc[v] /\ snap'[v] = snap[v]
    BY <1>0, <1>2, <2>2 DEF ValidateStart, Goto
  <2> QED
    BY <2>3 DEF SnapNone
<1>3. ASSUME NEW w \in Workers,
             \/ ValidateFails(w) \/ ValidatePasses(w) \/ RecordLoss(w) \/ CloseRead(w)
             \/ CloseClaim(w) \/ CloseArm(w) \/ SampleStart(w) \/ SampleRead(w)
             \/ SampleDraw(w) \/ SampleAck(w)
      PROVE  SnapNone'
  <2>1. snap' = snap
    BY <1>3
    DEF ValidateFails, ValidatePasses, RecordLoss, CloseRead, CloseClaim, CloseArm,
        SampleStart, SampleRead, SampleDraw, SampleAck
  <2>2. \A v \in Workers : pc'[v] = "validating" => pc[v] = "validating"
    BY <1>0, <1>3
    DEF ValidateFails, ValidatePasses, RecordLoss, CloseRead, CloseClaim, CloseArm,
        SampleStart, SampleRead, SampleDraw, SampleAck, Goto
  <2> QED
    BY <1>1, <2>1, <2>2
<1>4. ASSUME NEW w \in Workers, ValidateAck(w) \/ Abort(w) PROVE SnapNone'
  <2>1. \A v \in Workers :
           /\ pc'[v] = "validating" => pc[v] = "validating"
           /\ snap'[v] => snap[v]
    BY <1>0, <1>4 DEF ValidateAck, Abort, Idles, Goto
  <2> QED
    BY <1>1, <2>1
<1>5. ASSUME UNCHANGED <<pc, snap>> PROVE SnapNone'
  BY <1>5 DEF SnapNone
<1>6. ASSUME \/ SettleStep \/ ReconcileStep \/ SweepCrash \/ WindowElapses
             \/ SponsorClose \/ UNCHANGED vars
      PROVE  UNCHANGED <<pc, snap>>
  BY <1>6
  DEF SettleStep, SettleRead, SettleCount, SettleReopen, SettleWrite, SettlePublish,
      ReconcileStep, ReconcileList, ReconcileRecount, SweepCrash, WindowElapses,
      SponsorClose, workVars, vars
<1>7. ASSUME NEW i \in Items,
             \/ ContributorStep(i) \/ AuditDecide(i) \/ ReviewStep(i)
             \/ DisputeCheck(i) \/ DisputeFile(i) \/ Resolve(i)
      PROVE  UNCHANGED <<pc, snap>>
  BY <1>7
  DEF ContributorStep, IntakeCheck, IntakeCreate, ReviseCheck, ReviseClaim, ReviseWrite,
      RerunCheck, AuditDecide, ReviewStep, ReviewCheck, ReviewWrite, DisputeCheck,
      DisputeFile, Resolve, workVars
<1>8. ASSUME NEW t \in Tries, ReviseArm(t) \/ ReviseCrash(t) \/ RerunWrite(t)
      PROVE  UNCHANGED <<pc, snap>>
  BY <1>8 DEF ReviseArm, ReviseCrash, RerunWrite, workVars
<1> QED
  BY <1>2, <1>3, <1>4, <1>5, <1>6, <1>7, <1>8, Zenon DEF Next, HandlerStep

(* Apart from granting a slot, a step of a calm pool recounts and gives no *)
(* item a slot, or leaves the counter and every slot where they are.       *)
KeepsOrFrees ==
    \/ /\ acceptedItems' = Slots(status')
       /\ \A k \in Items : status'[k] \in HoldsSlot => status[k] \in HoldsSlot
    \/ /\ acceptedItems' = acceptedItems
       /\ \A k \in Items : status'[k] \in HoldsSlot <=> status[k] \in HoldsSlot

LEMMA CalmMoves ==
    ASSUME IInv, Work, Undisturbed, Undisturbed', NotOvertaken, VerdictsCurrent,
           [Next]_vars, ~\E w \in Workers : ValidatePasses(w)
    PROVE  KeepsOrFrees
<1>0. status \in [Items -> Statuses]
  BY DEF IInv, TypeOK
<1>1. ASSUME UNCHANGED <<status, acceptedItems>> PROVE KeepsOrFrees
  BY <1>1 DEF KeepsOrFrees
<1>2. ASSUME NEW w \in Workers, ValidateFails(w) PROVE KeepsOrFrees
  <2>1. ItemOf(w) \in Items /\ status[ItemOf(w)] = "submitted"
    BY <1>2, InCalmHandler DEF ValidateFails
  <2> QED
    BY <1>0, <1>2, <2>1 DEF ValidateFails, bountyVars, KeepsOrFrees, Update, HoldsSlot
<1>3. ASSUME NEW w \in Workers, SampleDraw(w) PROVE KeepsOrFrees
  <2> DEFINE eligible == {i \in Items : status[i] = "accepted_pending_sample"}
  <2>1. CASE sampled
    BY <1>1, <1>3, <2>1 DEF SampleDraw, bountyVars
  <2>2. CASE ~sampled
    <3>1. PICK drawn \in SUBSET eligible :
            /\ status' = [i \in Items |->
                   IF i \in drawn THEN Reviewer
                   ELSE IF i \in eligible THEN "accepted" ELSE status[i]]
            /\ UNCHANGED acceptedItems \/ RecountWithout(status')
      BY <1>3, <2>2 DEF SampleDraw
    <3>2. \A k \in Items : status'[k] \in HoldsSlot <=> status[k] \in HoldsSlot
      BY <3>1 DEF Reviewer, HoldsSlot
    <3> QED
      BY <3>1, <3>2 DEF KeepsOrFrees, RecountWithout
  <2> QED
    BY <2>1, <2>2
<1>4. ASSUME NEW i \in Items, AuditDecide(i) PROVE KeepsOrFrees
  <2>1. acceptedItems' = Slots(status')
    BY <1>4 DEF AuditDecide, Recount, RecountWithout
  <2>2. status[i] = "in_audit" /\ \A k \in Items \ {i} : status'[k] = status[k]
    BY <1>0, <1>4 DEF AuditDecide, Update
  <2> QED
    BY <2>1, <2>2 DEF KeepsOrFrees, HoldsSlot
<1>5. ASSUME NEW i \in Items, ReviewStep(i) PROVE KeepsOrFrees
  <2>1. CASE \E v \in {"accept", "reject"} : ReviewCheck(i, v)
    BY <1>1, <2>1 DEF ReviewCheck, bountyVars, itemVars
  <2>2. ASSUME NEW v \in {"accept", "reject"}, ReviewWrite(i, v) PROVE KeepsOrFrees
    <3>1. status[i] = "in_sponsor_review"
      BY <2>2 DEF ReviewWrite, VerdictsCurrent
    <3>2. acceptedItems' = Slots(status') /\ \A k \in Items \ {i} : status'[k] = status[k]
      BY <1>0, <2>2 DEF ReviewWrite, Update, Recount, RecountWithout
    <3> QED
      BY <3>1, <3>2 DEF KeepsOrFrees, HoldsSlot
  <2> QED
    BY <1>5, <2>1, <2>2 DEF ReviewStep
<1>6. ASSUME ReconcileRecount PROVE KeepsOrFrees
  BY <1>6 DEF ReconcileRecount, Recount, RecountWithout, KeepsOrFrees, itemVars
<1>7. ASSUME NEW i \in Items, IntakeCheck(i) \/ IntakeCreate(i) PROVE KeepsOrFrees
  BY <1>0, <1>7
  DEF IntakeCheck, IntakeCreate, Update, bountyVars, KeepsOrFrees, HoldsSlot
<1>8. ASSUME NEW i \in Items, ReviseClaim(i) \/ ReviseWrite(i) PROVE KeepsOrFrees
  <2>1. acceptedItems' = acceptedItems
    BY <1>8 DEF ReviseClaim, ReviseWrite, bountyVars
  <2>2. CASE UNCHANGED status
    BY <2>1, <2>2 DEF KeepsOrFrees
  <2>3. CASE ~UNCHANGED status
    <3>1. \/ revise[i] = "checked" /\ revisions[i] >= MaxRevisions
          \/ revise[i] = "claimed" /\ attempt[i] < MaxAttempt
      BY <1>8, <2>3 DEF ReviseClaim, ReviseWrite
    <3>2. status[i] \in Revisable
      BY <3>1 DEF NotOvertaken
    <3>3. /\ status'[i] \in {"rejected", "submitted"}
          /\ \A k \in Items \ {i} : status'[k] = status[k]
      BY <1>0, <1>8, <2>3 DEF ReviseClaim, ReviseWrite, Update
    <3> QED
      BY <2>1, <3>2, <3>3 DEF KeepsOrFrees, HoldsSlot, Revisable
  <2> QED
    BY <2>2, <2>3
<1>9. ASSUME NEW t \in Tries, RerunWrite(t) PROVE KeepsOrFrees
  <2>1. acceptedItems' = acceptedItems /\ t[1] \in Items
    BY <1>9 DEF RerunWrite, bountyVars, Tries
  <2>2. \A k \in Items :
           \/ status'[k] = status[k]
           \/ status[k] \in Rerunnable /\ status'[k] = "submitted"
    BY <1>0, <1>9, <2>1 DEF RerunWrite, Update
  <2> QED
    BY <2>1, <2>2 DEF KeepsOrFrees, HoldsSlot, Rerunnable
<1>10. ASSUME NEW w \in Workers,
              \/ \E t \in Tries : ValidateStart(w, t)
              \/ RecordLoss(w) \/ CloseRead(w) \/ CloseClaim(w) \/ CloseArm(w)
              \/ ValidateAck(w) \/ SampleStart(w) \/ SampleRead(w) \/ SampleAck(w)
       PROVE  UNCHANGED <<status, acceptedItems>>
  BY <1>10
  DEF ValidateStart, RecordLoss, CloseRead, CloseClaim, CloseArm, ValidateAck,
      SampleStart, SampleRead, SampleAck, itemVars, bountyVars
<1>11. ASSUME SettleStep \/ ReconcileList \/ WindowElapses \/ SponsorClose \/ UNCHANGED vars
       PROVE  UNCHANGED <<status, acceptedItems>>
  BY <1>11
  DEF SettleStep, SettleRead, SettleCount, SettleReopen, SettleWrite, SettlePublish,
      ReconcileList, WindowElapses, SponsorClose, itemVars, bountyVars, vars
<1>12. ASSUME NEW i \in Items, ReviseCheck(i) \/ RerunCheck(i)
       PROVE  UNCHANGED <<status, acceptedItems>>
  BY <1>12 DEF ReviseCheck, RerunCheck, itemVars, bountyVars
<1>13. ASSUME NEW t \in Tries, ReviseArm(t) PROVE UNCHANGED <<status, acceptedItems>>
  BY <1>13 DEF ReviseArm, itemVars, bountyVars
<1> QED
  BY <1>1, <1>2, <1>3, <1>4, <1>5, <1>6, <1>7, <1>8, <1>9, <1>10, <1>11, <1>12,
     <1>13, NothingDisturbs, Zenon
  DEF Next, HandlerStep, ReconcileStep, ContributorStep

Counted == CountersMatch /\ Slots(status) <= Target

CalmInv == IInv /\ (Undisturbed => Work /\ SnapNone /\ Counted)

LEMMA InitCalm == Init => CalmInv
<1> SUFFICES ASSUME Init PROVE CalmInv
    OBVIOUS
<1>1. IInv
  BY InitIInv
<1>2. JobsHeld /\ JobsApart /\ LiveIsCurrent /\ JobsDated /\ QueuesApart /\ NewIsFirst
  BY DEF Init, JobsHeld, JobsApart, Live, LiveIsCurrent, JobsDated, QueuesApart,
         NewIsFirst, Validating
<1>3. SnapNone
  BY DEF Init, SnapNone
<1>4. SlotHolders(status) = {}
  BY DEF Init, SlotHolders, HoldsSlot
<1>5. Slots(status) = 0
  BY <1>4, HoldersFinite, FS_EmptySet
<1>6. Counted
  BY <1>5, PoolAssumption DEF Init, Counted, CountersMatch
<1> QED
  BY <1>1, <1>2, <1>3, <1>6 DEF CalmInv, Work

(* Disputes and failures are never taken back.                             *)
LEMMA StillUndisturbed ==
    ASSUME IInv, [Next]_vars, Undisturbed'
    PROVE  Undisturbed
<1>0. filed \in Nat /\ aborts \in Nat
  BY PoolAssumption DEF IInv, TypeOK
<1>1. filed' = 0 /\ aborts' = 0
  BY DEF Undisturbed
<1>2. filed' \in {filed, filed + 1} /\ aborts' \in {aborts, aborts + 1}
  <2>1. ASSUME NEW w \in Workers, NEW t \in Tries, ValidateStart(w, t)
        PROVE  UNCHANGED <<filed, aborts>>
    BY <2>1 DEF ValidateStart, routeVars
  <2>2. ASSUME NEW w \in Workers, SampleStart(w) \/ HandlerStep(w)
        PROVE  UNCHANGED <<filed, aborts>>
    BY <2>2
    DEF HandlerStep, ValidateFails, ValidatePasses, RecordLoss, CloseRead, CloseClaim,
        CloseArm, ValidateAck, SampleStart, SampleRead, SampleDraw, SampleAck, routeVars
  <2>3. ASSUME SettleStep \/ ReconcileStep \/ WindowElapses \/ SponsorClose \/ UNCHANGED vars
        PROVE  UNCHANGED <<filed, aborts>>
    BY <2>3
    DEF SettleStep, SettleRead, SettleCount, SettleReopen, SettleWrite, SettlePublish,
        ReconcileStep, ReconcileList, ReconcileRecount, WindowElapses, SponsorClose,
        routeVars, vars
  <2>4. ASSUME NEW i \in Items,
               ContributorStep(i) \/ AuditDecide(i) \/ ReviewStep(i) \/ DisputeFile(i)
               \/ Resolve(i)
        PROVE  UNCHANGED <<filed, aborts>>
    BY <2>4
    DEF ContributorStep, IntakeCheck, IntakeCreate, ReviseCheck, ReviseClaim,
        ReviseWrite, RerunCheck, AuditDecide, ReviewStep, ReviewCheck, ReviewWrite,
        DisputeFile, Resolve, routeVars
  <2>5. ASSUME NEW t \in Tries, ReviseArm(t) \/ RerunWrite(t)
        PROVE  UNCHANGED <<filed, aborts>>
    BY <2>5 DEF ReviseArm, RerunWrite
  <2>6. ASSUME SweepCrash \/ (\E w \in Workers : Abort(w)) \/ \E t \in Tries : ReviseCrash(t)
        PROVE  filed' = filed /\ aborts' = aborts + 1
    BY <2>6 DEF SweepCrash, Abort, ReviseCrash, routeVars
  <2>7. ASSUME NEW i \in Items, DisputeCheck(i)
        PROVE  filed' = filed + 1 /\ aborts' = aborts
    BY <2>7 DEF DisputeCheck
  <2>8. \/ UNCHANGED <<filed, aborts>>
        \/ filed' = filed /\ aborts' = aborts + 1
        \/ filed' = filed + 1 /\ aborts' = aborts
    BY <2>1, <2>2, <2>3, <2>4, <2>5, <2>6, <2>7, Zenon DEF Next
  <2> QED
    BY <2>8
<1> QED
  BY <1>0, <1>1, <1>2 DEF Undisturbed

(* A slot is granted only below the target and counted at once; nothing    *)
(* else adds one.                                                          *)
LEMMA CountedStep ==
    ASSUME IInv, Work, SnapNone, Counted, Undisturbed, Undisturbed', NotOvertaken,
           VerdictsCurrent, [Next]_vars
    PROVE  Counted'
<1>0. /\ status \in [Items -> Statuses] /\ Target \in Nat
      /\ acceptedItems = Slots(status) /\ Slots(status) <= Target
      /\ Slots(status) \in Nat /\ Slots(status') \in Nat
  BY SlotsNat, PoolAssumption DEF IInv, TypeOK, Counted, CountersMatch
<1>1. ASSUME NEW w \in Workers, ValidatePasses(w) PROVE Counted'
  <2> DEFINE i == ItemOf(w)
  <2>1. i \in Items /\ status[i] = "submitted" /\ ~snap[w]
    BY <1>1, InCalmHandler DEF ValidatePasses, SnapNone
  <2>2. \A k \in Items \ {i} : status'[k] = status[k]
    BY <1>0, <1>1 DEF ValidatePasses, Update
  <2>3. CASE TakesSlot(w)
    <3>1. acceptedItems' = acceptedItems + 1 /\ acceptedItems < Target
      BY <1>1, <2>3 DEF ValidatePasses, TakesSlot
    <3>2. status'[i] = "accepted_pending_sample"
      BY <1>0, <1>1, <2>1, <2>3 DEF ValidatePasses, WinsSlot, TakesSlot, Update
    <3>3. Slots(status') = Slots(status) + 1
      BY <2>1, <2>2, <3>2, SlotsGained DEF HoldsSlot
    <3> QED
      BY <1>0, <3>1, <3>3 DEF Counted, CountersMatch
  <2>4. CASE ~TakesSlot(w)
    <3>1. acceptedItems' = acceptedItems
      BY <1>1, <2>4 DEF ValidatePasses
    <3>2. status'[i] = "rejected"
      BY <1>0, <1>1, <2>1, <2>4 DEF ValidatePasses, WinsSlot, TakesSlot, Update
    <3>3. Slots(status') = Slots(status)
      BY <2>1, <2>2, <3>2, SlotsSame DEF HoldsSlot
    <3> QED
      BY <1>0, <3>1, <3>3 DEF Counted, CountersMatch
  <2> QED
    BY <2>3, <2>4
<1>2. ASSUME ~\E w \in Workers : ValidatePasses(w) PROVE Counted'
  <2>1. KeepsOrFrees
    BY <1>2, CalmMoves
  <2>2. CASE /\ acceptedItems' = Slots(status')
             /\ \A k \in Items : status'[k] \in HoldsSlot => status[k] \in HoldsSlot
    <3>1. Slots(status') <= Slots(status)
      BY <2>2, SlotsKept
    <3> QED
      BY <1>0, <2>2, <3>1 DEF Counted, CountersMatch
  <2>3. CASE /\ acceptedItems' = acceptedItems
             /\ \A k \in Items : status'[k] \in HoldsSlot <=> status[k] \in HoldsSlot
    <3>1. Slots(status') = Slots(status)
      BY <2>3, SlotsSame
    <3> QED
      BY <1>0, <2>3, <3>1 DEF Counted, CountersMatch
  <2> QED
    BY <2>1, <2>2, <2>3 DEF KeepsOrFrees
<1> QED
  BY <1>1, <1>2

LEMMA CalmStep == CalmInv /\ Calm /\ [Next]_vars => CalmInv'
<1> SUFFICES ASSUME CalmInv, Calm, [Next]_vars PROVE CalmInv'
    OBVIOUS
<1>1. IInv'
  BY InductiveStep DEF CalmInv
<1>2. ASSUME Undisturbed' PROVE Work' /\ SnapNone' /\ Counted'
  <2>1. Undisturbed
    BY <1>2, StillUndisturbed DEF CalmInv
  <2>2. IInv /\ Work /\ SnapNone /\ Counted /\ NotOvertaken /\ VerdictsCurrent
    BY <2>1 DEF CalmInv, Calm
  <2> QED
    BY <1>2, <2>1, <2>2, WorkStep, SnapNoneStep, CountedStep
<1> QED
  BY <1>1, <1>2 DEF CalmInv

LEMMA CalmInvariance == Spec /\ []Calm => []CalmInv
  BY InitCalm, CalmStep, PTL DEF Spec

(* "Every transition now recounts inline, so new drift cannot be created": *)
(* the stored counter is the number of slots in use after any mix of       *)
(* intake, validation, draws, reviews, revisions and reruns by any number  *)
(* of workers, until the first dispute or failure, as long as no rerun     *)
(* overtakes a revision of the same item and no second verdict of the      *)
(* sponsor follows a first (pool-lifecycle.ts, submission-acceptance.ts,   *)
(* submissions.ts).                                                        *)
THEOREM CalmPoolsCount == Spec /\ []Calm => [](Undisturbed => CountersMatch)
<1>1. CalmInv => (Undisturbed => CountersMatch)
  BY DEF CalmInv, Counted
<1> QED
  BY <1>1, CalmInvariance, PTL

(* On the same condition no pool goes over its target, unless a ruling     *)
(* brings an item back (pool-lifecycle.ts claimPoolAcceptanceSlot).        *)
THEOREM CalmPoolsHoldTheirTarget ==
    ASSUME MaxAborts = 0
    PROVE  Spec /\ []Calm => []TargetHeld
<1>1. CalmInv => TargetHeld
  <2>1. IInv => aborts = 0
    BY DEF IInv, TypeOK
  <2> QED
    BY <2>1 DEF CalmInv, Undisturbed, TargetHeld, Counted
<1> QED
  BY <1>1, CalmInvariance, PTL

-----------------------------------------------------------------------------
(* A pool with validators leaves nothing to its sponsor.                   *)
NoSponsorReview ==
    verdicts = {} /\ \A i \in Items : status[i] # "in_sponsor_review"

(* A revision number is used up by the next attempt.                       *)
RevisionsDated ==
    \A i \in Items :
        revisions[i] <= attempt[i] + (IF revise[i] = "claimed" THEN 1 ELSE 0)

(* What a step that has no part in revisions keeps: an item that could be  *)
(* revised still can.                                                      *)
LEMMA GatesQuiet ==
    ASSUME RevisionsDated, NotOvertaken, UNCHANGED <<revise, attempt, revisions>>,
           \A k \in Items : status[k] \in Revisable => status'[k] \in Revisable
    PROVE  RevisionsDated' /\ NotOvertaken'
  BY DEF RevisionsDated, NotOvertaken

LEMMA NoSponsorStep ==
    ASSUME Covered, IInv, NoSponsorReview, [Next]_vars
    PROVE  NoSponsorReview'
<1>0. status \in [Items -> Statuses]
  BY DEF IInv, TypeOK
<1>1. ASSUME UNCHANGED <<status, verdicts>> PROVE NoSponsorReview'
  BY <1>1 DEF NoSponsorReview
<1>2. ASSUME NEW w \in Workers, ValidateFails(w) \/ ValidatePasses(w)
      PROVE  NoSponsorReview'
  <2>1. ItemOf(w) \in Items
    BY <1>2 DEF ValidateFails, ValidatePasses, ItemOf, IInv, TypeOK, Tries, Validating
  <2> QED
    BY <1>0, <1>2, <2>1
    DEF ValidateFails, ValidatePasses, Update, routeVars, NoSponsorReview
<1>3. ASSUME NEW w \in Workers, SampleDraw(w) PROVE NoSponsorReview'
  BY <1>0, <1>3 DEF SampleDraw, Reviewer, routeVars, NoSponsorReview
<1>4. ASSUME NEW i \in Items,
             \/ IntakeCheck(i) \/ IntakeCreate(i) \/ ReviseClaim(i) \/ ReviseWrite(i)
             \/ AuditDecide(i) \/ DisputeFile(i) \/ Resolve(i)
      PROVE  NoSponsorReview'
  BY <1>0, <1>4
  DEF IntakeCheck, IntakeCreate, ReviseClaim, ReviseWrite, AuditDecide, DisputeFile,
      Resolve, Update, routeVars, NoSponsorReview
<1>5. ASSUME NEW i \in Items, ReviewStep(i) PROVE FALSE
  BY <1>5 DEF ReviewStep, ReviewCheck, ReviewWrite, NoSponsorReview
<1>6. ASSUME NEW t \in Tries, RerunWrite(t) PROVE NoSponsorReview'
  BY <1>0, <1>6 DEF RerunWrite, Update, NoSponsorReview, Tries
<1>7. ASSUME NEW w \in Workers,
             \/ \E t \in Tries : ValidateStart(w, t)
             \/ RecordLoss(w) \/ CloseRead(w) \/ CloseClaim(w) \/ CloseArm(w)
             \/ ValidateAck(w) \/ SampleStart(w) \/ SampleRead(w) \/ SampleAck(w)
             \/ Abort(w)
      PROVE  UNCHANGED <<status, verdicts>>
  BY <1>7
  DEF ValidateStart, RecordLoss, CloseRead, CloseClaim, CloseArm, ValidateAck,
      SampleStart, SampleRead, SampleAck, Abort, itemVars, routeVars
<1>8. ASSUME \/ SettleStep \/ ReconcileStep \/ SweepCrash \/ WindowElapses
             \/ SponsorClose \/ UNCHANGED vars
      PROVE  UNCHANGED <<status, verdicts>>
  BY <1>8
  DEF SettleStep, SettleRead, SettleCount, SettleReopen, SettleWrite, SettlePublish,
      ReconcileStep, ReconcileList, ReconcileRecount, SweepCrash, WindowElapses,
      SponsorClose, itemVars, routeVars, vars
<1>9. ASSUME NEW i \in Items, ReviseCheck(i) \/ RerunCheck(i) \/ DisputeCheck(i)
      PROVE  UNCHANGED <<status, verdicts>>
  BY <1>9 DEF ReviseCheck, RerunCheck, DisputeCheck, itemVars
<1>10. ASSUME NEW t \in Tries, ReviseArm(t) \/ ReviseCrash(t)
       PROVE  UNCHANGED <<status, verdicts>>
  BY <1>10 DEF ReviseArm, ReviseCrash, itemVars
<1> QED
  BY <1>1, <1>2, <1>3, <1>4, <1>5, <1>6, <1>7, <1>8, <1>9, <1>10, Zenon
  DEF Next, HandlerStep, ContributorStep

(* With one attempt after the first, a rerun that overtakes a revision     *)
(* leaves it no attempt to write; a revision that would hit the cap was    *)
(* checked when that attempt was used up.                                  *)
LEMMA GatesStep ==
    ASSUME MaxAttempt <= 1, IInv, Work, Undisturbed, Undisturbed', NoSponsorReview,
           RevisionsDated, NotOvertaken, [Next]_vars
    PROVE  RevisionsDated' /\ NotOvertaken'
<1>0. /\ status \in [Items -> Statuses]
      /\ attempt \in [Items -> Nat] /\ revisions \in [Items -> Nat]
      /\ revise \in [Items -> {"idle", "checked", "claimed"}]
      /\ MaxAttempt \in Nat /\ MaxRevisions \in Nat \ {0}
  BY PoolAssumption DEF IInv, TypeOK
<1>1. ASSUME UNCHANGED <<revise, attempt, revisions, status>>
      PROVE  RevisionsDated' /\ NotOvertaken'
  BY <1>1, GatesQuiet
<1>2. ASSUME UNCHANGED <<revise, attempt, revisions>>,
             \A k \in Items : status'[k] = status[k] \/ status[k] \notin Revisable
      PROVE  RevisionsDated' /\ NotOvertaken'
  BY <1>2, GatesQuiet
<1>3. ASSUME NEW w \in Workers, ValidateFails(w) \/ ValidatePasses(w)
      PROVE  RevisionsDated' /\ NotOvertaken'
  <2>1. status[ItemOf(w)] = "submitted" /\ ItemOf(w) \in Items
    BY <1>3, InCalmHandler DEF ValidateFails, ValidatePasses
  <2>2. \A k \in Items : status'[k] = status[k] \/ status[k] \notin Revisable
    BY <1>0, <1>3, <2>1 DEF ValidateFails, ValidatePasses, Update, Revisable
  <2> QED
    BY <1>2, <1>3, <2>2 DEF ValidateFails, ValidatePasses, routeVars
<1>4. ASSUME NEW w \in Workers, SampleDraw(w) PROVE RevisionsDated' /\ NotOvertaken'
  <2>1. \A k \in Items : status'[k] = status[k] \/ status[k] = "accepted_pending_sample"
    BY <1>0, <1>4 DEF SampleDraw
  <2> QED
    BY <1>2, <1>4, <2>1 DEF SampleDraw, routeVars, Revisable
<1>5. ASSUME NEW i \in Items, IntakeCheck(i) \/ IntakeCreate(i) \/ AuditDecide(i)
      PROVE  RevisionsDated' /\ NotOvertaken'
  <2>1. \A k \in Items :
           status'[k] = status[k] \/ status[k] \in {"none", "admitted", "in_audit"}
    BY <1>0, <1>5 DEF IntakeCheck, IntakeCreate, AuditDecide, Update
  <2> QED
    BY <1>2, <1>5, <2>1 DEF IntakeCheck, IntakeCreate, AuditDecide, routeVars, Revisable
<1>6. ASSUME NEW i \in Items, ReviewStep(i) PROVE FALSE
  BY <1>6 DEF ReviewStep, ReviewCheck, ReviewWrite, NoSponsorReview
<1>7. ASSUME NEW i \in Items, ReviseCheck(i) PROVE RevisionsDated' /\ NotOvertaken'
  <2>1. /\ revise[i] = "idle" /\ revise' = [revise EXCEPT ![i] = "checked"]
        /\ status[i] \in Revisable /\ UNCHANGED <<status, attempt, revisions>>
    BY <1>7 DEF ReviseCheck, Update, itemVars
  <2> QED
    BY <1>0, <2>1 DEF RevisionsDated, NotOvertaken
<1>8. ASSUME NEW i \in Items, ReviseClaim(i) PROVE RevisionsDated' /\ NotOvertaken'
  <2>0. revise[i] = "checked" /\ attempt' = attempt
    BY <1>8 DEF ReviseClaim
  <2>1. CASE /\ status[i] \in Revisable
             /\ revisions' = Update(revisions, i, revisions[i] + 1)
             /\ revise' = Update(revise, i, "claimed")
             /\ UNCHANGED status
    <3>1. /\ revisions'[i] = revisions[i] + 1 /\ revise'[i] = "claimed"
          /\ \A k \in Items \ {i} : revisions'[k] = revisions[k] /\ revise'[k] = revise[k]
      BY <1>0, <2>1 DEF Update
    <3>2. revisions[i] <= attempt[i]
      BY <1>0, <2>0 DEF RevisionsDated
    <3>3. RevisionsDated'
      BY <1>0, <2>0, <3>1, <3>2 DEF RevisionsDated
    <3>4. NotOvertaken'
      BY <2>0, <2>1, <3>1 DEF NotOvertaken
    <3> QED
      BY <3>3, <3>4
  <2>2. CASE /\ revise' = Update(revise, i, "idle") /\ UNCHANGED revisions
             /\ UNCHANGED status \/ status' = Update(status, i, "rejected")
    <3>1. /\ revise'[i] = "idle"
          /\ \A k \in Items \ {i} : revise'[k] = revise[k] /\ status'[k] = status[k]
      BY <1>0, <2>2 DEF Update
    <3>2. RevisionsDated'
      BY <1>0, <2>0, <2>2, <3>1 DEF RevisionsDated
    <3>3. NotOvertaken'
      BY <2>0, <2>2, <3>1 DEF NotOvertaken
    <3> QED
      BY <3>2, <3>3
  <2> QED
    BY <1>8, <2>1, <2>2 DEF ReviseClaim
<1>9. ASSUME NEW i \in Items, ReviseWrite(i) PROVE RevisionsDated' /\ NotOvertaken'
  <2>1. /\ revise[i] = "claimed" /\ revise'[i] = "idle" /\ attempt'[i] = attempt[i] + 1
        /\ revisions' = revisions
        /\ \A k \in Items \ {i} :
              /\ revise'[k] = revise[k] /\ attempt'[k] = attempt[k]
              /\ status'[k] = status[k]
    BY <1>0, <1>9 DEF ReviseWrite, Update
  <2>2. RevisionsDated'
    BY <1>0, <2>1 DEF RevisionsDated
  <2>3. NotOvertaken'
    BY <2>1 DEF NotOvertaken
  <2> QED
    BY <2>2, <2>3
<1>10. ASSUME NEW t \in Tries, RerunWrite(t) PROVE RevisionsDated' /\ NotOvertaken'
  <2> DEFINE i == t[1]
  <2>0. /\ i \in Items /\ t[2] \in Nat /\ t[2] < MaxAttempt
        /\ UNCHANGED <<revise, revisions>>
    BY <1>10 DEF RerunWrite, IInv, TypeOK, Tries
  <2>1. CASE status[i] \in Rerunnable /\ attempt[i] = t[2]
    <3>1. attempt[i] = 0 /\ MaxAttempt = 1
      BY <1>0, <2>0, <2>1
    <3>2. /\ attempt'[i] = 1
          /\ \A k \in Items \ {i} : attempt'[k] = attempt[k] /\ status'[k] = status[k]
      BY <1>0, <1>10, <2>0, <2>1, <3>1 DEF RerunWrite, Update
    <3>3. revise[i] = "checked" => revisions[i] < MaxRevisions
      BY <1>0, <2>0, <3>1 DEF RevisionsDated
    <3>4. RevisionsDated'
      BY <1>0, <2>0, <3>1, <3>2 DEF RevisionsDated
    <3>5. ~(attempt'[i] < MaxAttempt) /\ ~(revise[i] = "checked" /\ revisions[i] >= MaxRevisions)
      BY <1>0, <2>0, <3>1, <3>2, <3>3
    <3>6. NotOvertaken'
      BY <2>0, <3>2, <3>5 DEF NotOvertaken
    <3> QED
      BY <3>4, <3>6
  <2>2. CASE ~(status[i] \in Rerunnable /\ attempt[i] = t[2])
    <3>1. UNCHANGED <<status, attempt>>
      BY <1>10, <2>2 DEF RerunWrite
    <3> QED
      BY <1>1, <2>0, <3>1
  <2> QED
    BY <2>1, <2>2
<1>11. ASSUME NEW w \in Workers,
              \/ \E t \in Tries : ValidateStart(w, t)
              \/ RecordLoss(w) \/ CloseRead(w) \/ CloseClaim(w) \/ CloseArm(w)
              \/ ValidateAck(w) \/ SampleStart(w) \/ SampleRead(w) \/ SampleAck(w)
       PROVE  UNCHANGED <<revise, attempt, revisions, status>>
  BY <1>11
  DEF ValidateStart, RecordLoss, CloseRead, CloseClaim, CloseArm, ValidateAck,
      SampleStart, SampleRead, SampleAck, itemVars, routeVars
<1>12. ASSUME SettleStep \/ ReconcileStep \/ WindowElapses \/ SponsorClose \/ UNCHANGED vars
       PROVE  UNCHANGED <<revise, attempt, revisions, status>>
  BY <1>12
  DEF SettleStep, SettleRead, SettleCount, SettleReopen, SettleWrite, SettlePublish,
      ReconcileStep, ReconcileList, ReconcileRecount, WindowElapses, SponsorClose,
      itemVars, routeVars, vars
<1>13. ASSUME NEW i \in Items, RerunCheck(i)
       PROVE  UNCHANGED <<revise, attempt, revisions, status>>
  BY <1>13 DEF RerunCheck, itemVars
<1>14. ASSUME NEW t \in Tries, ReviseArm(t)
       PROVE  UNCHANGED <<revise, attempt, revisions, status>>
  BY <1>14 DEF ReviseArm, itemVars
<1> QED
  BY <1>1, <1>3, <1>4, <1>5, <1>6, <1>7, <1>8, <1>9, <1>10, <1>11, <1>12, <1>13,
     <1>14, NothingDisturbs, Zenon
  DEF Next, HandlerStep, ContributorStep

(* A reviewed pool whose items are validated twice at most is calm.        *)
GateInv ==
    CalmInv /\ NoSponsorReview /\ (Undisturbed => RevisionsDated /\ NotOvertaken)

LEMMA GatesHold ==
    ASSUME Covered, MaxAttempt <= 1
    PROVE  Spec => []GateInv
<1>1. Init => GateInv
  <2> SUFFICES ASSUME Init PROVE GateInv
      OBVIOUS
  <2>1. NoSponsorReview
    BY DEF Init, NoSponsorReview
  <2>2. RevisionsDated /\ NotOvertaken
    BY DEF Init, RevisionsDated, NotOvertaken
  <2> QED
    BY <2>1, <2>2, InitCalm DEF GateInv
<1>2. GateInv => Calm
  BY DEF GateInv, Calm, NoSponsorReview, VerdictsCurrent
<1>3. ASSUME GateInv, [Next]_vars PROVE GateInv'
  <2>1. CalmInv'
    BY <1>2, <1>3, CalmStep DEF GateInv
  <2>2. IInv /\ NoSponsorReview
    BY <1>3 DEF GateInv, CalmInv
  <2>3. NoSponsorReview'
    BY <1>3, <2>2, NoSponsorStep
  <2>4. ASSUME Undisturbed' PROVE RevisionsDated' /\ NotOvertaken'
    <3>1. Undisturbed
      BY <1>3, <2>2, <2>4, StillUndisturbed
    <3>2. Work /\ RevisionsDated /\ NotOvertaken
      BY <1>3, <3>1 DEF GateInv, CalmInv
    <3> QED
      BY <1>3, <2>2, <2>4, <3>1, <3>2, GatesStep
  <2> QED
    BY <2>1, <2>3, <2>4 DEF GateInv
<1>4. GateInv /\ [Next]_vars => GateInv'
  BY <1>3
<1> QED
  BY <1>1, <1>4, PTL DEF Spec

LEMMA ReviewedPoolsAreCalm ==
    ASSUME Covered, MaxAttempt <= 1
    PROVE  Spec => []Calm
<1>1. GateInv => Calm
  BY DEF GateInv, Calm, NoSponsorReview, VerdictsCurrent
<1> QED
  BY <1>1, GatesHold, PTL

(* In a pool reviewed by validators, of any size and with any number of    *)
(* workers, whose items may be revised or rerun once, a revision is never  *)
(* overtaken, so without failures and disputes the counter is exact ...    *)
THEOREM ReviewedPoolsCount ==
    ASSUME Covered, MaxAttempt <= 1, MaxAborts = 0, MaxDisputes = 0
    PROVE  Spec => []CountersMatch
<1>1. IInv => Undisturbed
  BY DEF IInv, TypeOK, Undisturbed
<1> QED
  BY <1>1, Invariance, ReviewedPoolsAreCalm, CalmPoolsCount, PTL

(* ... and the target holds, disputes or not, until a ruling.              *)
THEOREM ReviewedPoolsHoldTheirTarget ==
    ASSUME Covered, MaxAttempt <= 1, MaxAborts = 0
    PROVE  Spec => []TargetHeld
  BY ReviewedPoolsAreCalm, CalmPoolsHoldTheirTarget, PTL

-----------------------------------------------------------------------------
(* A step that recounts keeps counter and slots together, and so does one  *)
(* that leaves the counter alone and every item in or out of its slot.     *)
CountsOrSame ==
    \/ acceptedItems' = Slots(status')
    \/ /\ acceptedItems' = acceptedItems
       /\ \A k \in Items : status'[k] \in HoldsSlot <=> status[k] \in HoldsSlot

(* Every other step is one of the three causes, or grants a slot.          *)
LEMMA DriftMoves ==
    ASSUME IInv, [Next]_vars, ~\E w \in Workers : ValidatePasses(w),
           ~\E i \in Items : LeavesUncounted(i),
           ~\E w \in Workers : ReplaysCounted(w)
    PROVE  CountsOrSame
<1>0. status \in [Items -> Statuses] /\ disputes \in [Items -> Nat]
  BY PoolAssumption DEF IInv, TypeOK
<1>1. ASSUME UNCHANGED <<status, acceptedItems>> PROVE CountsOrSame
  BY <1>1 DEF CountsOrSame
<1>2. ASSUME NEW w \in Workers, ValidateFails(w) PROVE CountsOrSame
  <2>1. ItemOf(w) \in Items /\ pc[w] = "validating" /\ pc' = [pc EXCEPT ![w] = "acking"]
    BY <1>2 DEF ValidateFails, Goto, ItemOf, IInv, TypeOK, Tries, Validating
  <2>2. pc'[w] # "validating"
    BY <2>1 DEF IInv, TypeOK
  <2>3. status[ItemOf(w)] \notin HoldsSlot
    BY <2>1, <2>2 DEF ReplaysCounted
  <2> QED
    BY <1>0, <1>2, <2>1, <2>3 DEF ValidateFails, bountyVars, CountsOrSame, Update, HoldsSlot
<1>3. ASSUME NEW w \in Workers, SampleDraw(w) PROVE CountsOrSame
  <2> DEFINE eligible == {i \in Items : status[i] = "accepted_pending_sample"}
  <2>1. CASE sampled
    BY <1>1, <1>3, <2>1 DEF SampleDraw, bountyVars
  <2>2. CASE ~sampled
    <3>1. PICK drawn \in SUBSET eligible :
            /\ status' = [i \in Items |->
                   IF i \in drawn THEN Reviewer
                   ELSE IF i \in eligible THEN "accepted" ELSE status[i]]
            /\ UNCHANGED acceptedItems \/ RecountWithout(status')
      BY <1>3, <2>2 DEF SampleDraw
    <3>2. \A k \in Items : status'[k] \in HoldsSlot <=> status[k] \in HoldsSlot
      BY <3>1 DEF Reviewer, HoldsSlot
    <3> QED
      BY <3>1, <3>2 DEF CountsOrSame, RecountWithout
  <2> QED
    BY <2>1, <2>2
<1>4. ASSUME NEW i \in Items, AuditDecide(i) \/ Resolve(i) PROVE CountsOrSame
  BY <1>4
  DEF AuditDecide, Resolve, RulingRecount, Recount, RecountWithout, CountsOrSame
<1>5. ASSUME NEW i \in Items, NEW v \in {"accept", "reject"}, ReviewWrite(i, v)
      PROVE  CountsOrSame
  BY <1>5 DEF ReviewWrite, Recount, RecountWithout, CountsOrSame
<1>6. ASSUME ReconcileRecount PROVE CountsOrSame
  BY <1>6 DEF ReconcileRecount, Recount, RecountWithout, CountsOrSame, itemVars
<1>7. ASSUME NEW i \in Items, IntakeCheck(i) \/ IntakeCreate(i) PROVE CountsOrSame
  BY <1>0, <1>7 DEF IntakeCheck, IntakeCreate, Update, bountyVars, CountsOrSame, HoldsSlot
<1>8. ASSUME NEW i \in Items, ReviseClaim(i) \/ ReviseWrite(i) PROVE CountsOrSame
  <2>1. acceptedItems' = acceptedItems
    BY <1>8 DEF ReviseClaim, ReviseWrite, bountyVars
  <2>2. CASE UNCHANGED status
    BY <2>1, <2>2 DEF CountsOrSame
  <2>3. CASE ~UNCHANGED status
    <3>1. revise \in [Items -> {"idle", "checked", "claimed"}]
      BY DEF IInv, TypeOK
    <3>2. revise[i] # "idle" /\ revise'[i] = "idle"
      BY <1>8, <2>3, <3>1 DEF ReviseClaim, ReviseWrite, Update
    <3>3. status[i] \notin HoldsSlot
      BY <3>2 DEF LeavesUncounted
    <3>4. /\ status'[i] \in {"rejected", "submitted"}
          /\ \A k \in Items \ {i} : status'[k] = status[k]
      BY <1>0, <1>8, <2>3 DEF ReviseClaim, ReviseWrite, Update
    <3> QED
      BY <2>1, <3>3, <3>4 DEF CountsOrSame, HoldsSlot
  <2> QED
    BY <2>2, <2>3
<1>9. ASSUME NEW t \in Tries, RerunWrite(t) PROVE CountsOrSame
  <2>1. acceptedItems' = acceptedItems /\ t[1] \in Items
    BY <1>9 DEF RerunWrite, bountyVars, Tries
  <2>2. \A k \in Items :
           \/ status'[k] = status[k]
           \/ status[k] \in Rerunnable /\ status'[k] = "submitted"
    BY <1>0, <1>9, <2>1 DEF RerunWrite, Update
  <2> QED
    BY <2>1, <2>2 DEF CountsOrSame, HoldsSlot, Rerunnable
<1>10. ASSUME NEW i \in Items, DisputeFile(i) PROVE CountsOrSame
  <2>1. /\ status' = [status EXCEPT ![i] = "disputed"]
        /\ disputes' = [disputes EXCEPT ![i] = disputes[i] + 1]
        /\ acceptedItems' = acceptedItems
    BY <1>10 DEF DisputeFile, Update, bountyVars
  <2>2. disputes'[i] > disputes[i]
    BY <1>0, <2>1
  <2>3. status[i] \notin HoldsSlot
    BY <2>2 DEF LeavesUncounted
  <2> QED
    BY <1>0, <2>1, <2>3 DEF CountsOrSame, HoldsSlot
<1>11. ASSUME NEW w \in Workers,
             \/ \E t \in Tries : ValidateStart(w, t)
             \/ RecordLoss(w) \/ CloseRead(w) \/ CloseClaim(w) \/ CloseArm(w)
             \/ ValidateAck(w) \/ SampleStart(w) \/ SampleRead(w) \/ SampleAck(w)
             \/ Abort(w)
      PROVE  UNCHANGED <<status, acceptedItems>>
  BY <1>11
  DEF ValidateStart, RecordLoss, CloseRead, CloseClaim, CloseArm, ValidateAck,
      SampleStart, SampleRead, SampleAck, Abort, itemVars, bountyVars
<1>12. ASSUME \/ SettleStep \/ ReconcileList \/ SweepCrash \/ WindowElapses
              \/ SponsorClose \/ UNCHANGED vars
       PROVE  UNCHANGED <<status, acceptedItems>>
  BY <1>12
  DEF SettleStep, SettleRead, SettleCount, SettleReopen, SettleWrite, SettlePublish,
      ReconcileList, SweepCrash, WindowElapses, SponsorClose, itemVars, bountyVars, vars
<1>13. ASSUME NEW i \in Items,
              \/ ReviseCheck(i) \/ RerunCheck(i) \/ DisputeCheck(i)
              \/ \E v \in {"accept", "reject"} : ReviewCheck(i, v)
       PROVE  UNCHANGED <<status, acceptedItems>>
  BY <1>13
  DEF ReviseCheck, RerunCheck, DisputeCheck, ReviewCheck, itemVars, bountyVars
<1>14. ASSUME NEW t \in Tries, ReviseArm(t) \/ ReviseCrash(t)
       PROVE  UNCHANGED <<status, acceptedItems>>
  BY <1>14 DEF ReviseArm, ReviseCrash, itemVars, bountyVars
<1> QED
  BY <1>1, <1>2, <1>3, <1>4, <1>5, <1>6, <1>7, <1>8, <1>9, <1>10, <1>11, <1>12,
     <1>13, <1>14, Zenon
  DEF Next, HandlerStep, ReconcileStep, ReviewStep, ContributorStep

(* A slot granted to an item that had none is counted.                     *)
LEMMA DriftStep ==
    ASSUME IInv, [Next]_vars, CountersMatch,
           ~\E i \in Items : LeavesUncounted(i),
           ~\E w \in Workers : ReplaysCounted(w)
    PROVE  CountersMatch'
<1>0. /\ status \in [Items -> Statuses] /\ acceptedItems \in Nat
      /\ Slots(status) \in Nat /\ Slots(status') \in Nat
  BY SlotsNat DEF IInv, TypeOK
<1>1. ASSUME NEW w \in Workers, ValidatePasses(w) PROVE CountersMatch'
  <2> DEFINE i == ItemOf(w)
  <2>1. /\ i \in Items /\ pc[w] = "validating"
        /\ \E at \in {"closing", "losing"} : pc' = [pc EXCEPT ![w] = at]
    BY <1>1 DEF ValidatePasses, Goto, ItemOf, IInv, TypeOK, Tries, Validating
  <2>2. pc'[w] # "validating"
    BY <2>1 DEF IInv, TypeOK
  <2>3. ~snap[w] /\ status[i] \notin HoldsSlot
    BY <2>1, <2>2 DEF ReplaysCounted
  <2>4. \A k \in Items \ {i} : status'[k] = status[k]
    BY <1>0, <1>1 DEF ValidatePasses, Update
  <2>5. WinsSlot(w) <=> TakesSlot(w)
    BY <2>3 DEF WinsSlot, TakesSlot
  <2>6. CASE TakesSlot(w)
    <3>1. acceptedItems' = acceptedItems + 1 /\ status'[i] \in HoldsSlot
      BY <1>0, <1>1, <2>1, <2>5, <2>6 DEF ValidatePasses, Update, HoldsSlot
    <3>2. Slots(status') = Slots(status) + 1
      BY <2>1, <2>3, <2>4, <3>1, SlotsGained
    <3> QED
      BY <3>1, <3>2 DEF CountersMatch
  <2>7. CASE ~TakesSlot(w)
    <3>1. acceptedItems' = acceptedItems /\ status'[i] = "rejected"
      BY <1>0, <1>1, <2>1, <2>5, <2>7 DEF ValidatePasses, Update
    <3>2. Slots(status') = Slots(status)
      BY <2>3, <2>4, <3>1, SlotsSame DEF HoldsSlot
    <3> QED
      BY <3>1, <3>2 DEF CountersMatch
  <2> QED
    BY <2>6, <2>7
<1>2. ASSUME ~\E w \in Workers : ValidatePasses(w) PROVE CountersMatch'
  <2>1. CountsOrSame
    BY <1>2, DriftMoves
  <2>2. CASE acceptedItems' = Slots(status')
    BY <2>2 DEF CountersMatch
  <2>3. CASE /\ acceptedItems' = acceptedItems
             /\ \A k \in Items : status'[k] \in HoldsSlot <=> status[k] \in HoldsSlot
    BY <2>3, SlotsSame DEF CountersMatch
  <2> QED
    BY <2>1, <2>2, <2>3 DEF CountsOrSame
<1> QED
  BY <1>1, <1>2

(* With any number of workers, crashes, revisions and disputes, under      *)
(* validators or a sponsor, a counter that is exact stays so but for a     *)
(* dispute about an item with a slot, a call to revise that outlived its   *)
(* check, and a validation of an item that has its slot (pool-lifecycle.ts,*)
(* submission-acceptance.ts, disputes.ts, submissions.ts, validation.ts).  *)
THEOREM OnlyCausesDrift == Spec => DriftHasACause
<1> DEFINE Caused ==
      CountersMatch => \/ CountersMatch'
                       \/ \E i \in Items : LeavesUncounted(i)
                       \/ \E w \in Workers : ReplaysCounted(w)
<1>1. IInv /\ [Next]_vars => [Caused]_vars
  BY DriftStep
<1>2. Spec => [][Caused]_vars
  BY <1>1, Invariance, PTL DEF Spec
<1> QED
  BY <1>2 DEF DriftHasACause
=============================================================================
