-------------------------- MODULE KarmaHolds_proofs --------------------------
(***************************************************************************)
(* What KarmaHolds promises for every number of items, requests, sweeps,   *)
(* disputes and closings, and every window: an item is paid once, no award *)
(* is lost, and none is paid inside the window of its first acceptance.    *)
(***************************************************************************)
EXTENDS KarmaHolds, FiniteSetTheorems, TLAPS

(* A hold exists only for an item that was accepted, at a time that passed.*)
Earned ==
    /\ now > 0
    /\ \A i \in Items : since[i] <= now /\ (hold[i] # "none" => since[i] > 0)

(* What the sweep reads as the acceptance is not before the first one.     *)
AcceptedSince ==
    \A i \in Items : since[i] > 0 => i \in sentBack \/ acceptedAt[i] >= since[i]

(* A sweep that reads dates took its time before, for holds that exist.    *)
ListedHeld ==
    \A s \in Sweepers : sweep[s].pc = "dates" =>
        /\ sweep[s].at <= now
        /\ \A i \in sweep[s].todo : hold[i] # "none"

WindowOver(i) == since[i] > 0 /\ (i \in sentBack \/ now >= since[i] + Window)

(* What a sweep found due is due ever after.                               *)
DueStays ==
    \A s \in Sweepers :
        /\ sweep[s].pc \in {"due", "create"} => \A i \in sweep[s].todo : WindowOver(i)
        /\ sweep[s].pc = "create" => WindowOver(sweep[s].item)

KarmaInv ==
    /\ TypeOK
    /\ PaidOnce
    /\ AwardNotLost
    /\ Earned
    /\ AcceptedSince
    /\ ListedHeld
    /\ DueStays

-----------------------------------------------------------------------------
(* The pool starts with nothing accepted, held or paid.                    *)
LEMMA InitKarma == Init => KarmaInv
  BY ShapeAssumption
  DEF Init, KarmaInv, TypeOK, Statuses, ReqType, SweepType, Idle, PaidOnce, AwardNotLost,
      Earned, AcceptedSince, ListedHeld, DueStays

(* How many of the items have a row is a number.                           *)
LEMMA RowsCount ==
    Cardinality({j \in Items : hold[j] # "none"}) \in Nat
<1>1. IsFiniteSet({j \in Items : hold[j] # "none"})
  BY ShapeAssumption, FS_Subset
<1> QED
  BY <1>1, FS_CardinalityType

(* The shapes of a sweep's and of a request's state.                       *)
LEMMA Shapes ==
    ASSUME TypeOK
    PROVE  /\ \A s \in Sweepers :
                /\ sweep[s].pc \in {"idle", "dates", "due", "create"}
                /\ sweep[s].pc = "dates" =>
                      sweep[s].at \in Nat /\ sweep[s].todo \subseteq Items /\ sweep[s].opens \in Nat
                /\ sweep[s].pc \in {"due", "create"} => sweep[s].todo \subseteq Items
                /\ sweep[s].pc = "create" => sweep[s].item \in Items
           /\ \A r \in Requests :
                req[r].pc \in {"checked", "create"} => req[r].item \in Items
  BY DEF TypeOK, SweepType, ReqType, Idle

(* No statement writes a column or a place outside its range.              *)
LEMMA TypeStep == TypeOK /\ [Next]_vars => TypeOK'
<1> SUFFICES ASSUME TypeOK, [Next]_vars PROVE TypeOK'
    OBVIOUS
<1>a. Cardinality({j \in Items : hold[j] # "none"}) \in Nat
  BY RowsCount
<1> USE ShapeAssumption DEF TypeOK, Statuses
<1>1. ASSUME NEW r \in Requests, NEW i \in Items, AcceptCheck(r, i) PROVE TypeOK'
  BY <1>1, Shapes DEF AcceptCheck, poolVars, itemVars, rowVars, ReqType, Idle
<1>2. ASSUME NEW r \in Requests, AcceptHold(r) PROVE TypeOK'
  BY <1>a, <1>2, Shapes DEF AcceptHold, Accepted, Queued, AlreadyPaid, poolVars, Idle, ReqType
<1>3. ASSUME NEW r \in Requests, AcceptAward(r) PROVE TypeOK'
  BY <1>3, Shapes DEF AcceptAward, poolVars, itemVars, rowVars, ReqType, Idle
<1>4. ASSUME NEW r \in Requests, AcceptCreate(r) PROVE TypeOK'
  BY <1>4, Shapes DEF AcceptCreate, Accepted, Paid, EventKeyFree, poolVars, itemVars, Idle, ReqType
<1>5. ASSUME NEW r \in Requests, AcceptLost(r) PROVE TypeOK'
  BY <1>5, Shapes DEF AcceptLost, poolVars, itemVars, rowVars, Idle, ReqType
<1>6. ASSUME NEW s \in Sweepers, SweepList(s) PROVE TypeOK'
  BY <1>6, Shapes DEF SweepList, Candidates, Held, poolVars, itemVars, rowVars, SweepType
<1>7. ASSUME NEW s \in Sweepers, SweepDates(s) PROVE TypeOK'
  BY <1>7, Shapes DEF SweepDates, Resume, poolVars, itemVars, rowVars, Idle, SweepType
<1>8. ASSUME NEW s \in Sweepers, NEW i \in Items, SweepClaim(s, i) PROVE TypeOK'
  BY <1>8, Shapes DEF SweepClaim, AlreadyPaid, Resume, Released, poolVars, itemVars, Idle, SweepType
<1>9. ASSUME NEW s \in Sweepers, SweepCreate(s) PROVE TypeOK'
  BY <1>9, Shapes DEF SweepCreate, EventKeyFree, Paid, Resume, Released, poolVars, itemVars, Idle, SweepType
<1>10. ASSUME NEW s \in Sweepers, SweepCrash(s) PROVE TypeOK'
  BY <1>10, Shapes DEF SweepCrash, poolVars, itemVars, rowVars, Idle, SweepType
<1>11. ASSUME NEW i \in Items, Flag(i) PROVE TypeOK'
  BY <1>11, Shapes DEF Flag, poolVars, rowVars
<1>12. ASSUME NEW i \in Items, Dispute(i) PROVE TypeOK'
  BY <1>12, Shapes DEF Dispute, poolVars, rowVars
<1>13. ASSUME NEW i \in Items, RuleUpheld(i) PROVE TypeOK'
  BY <1>13, Shapes DEF RuleUpheld, poolVars, rowVars
<1>14. ASSUME NEW i \in Items, RuleRejected(i) PROVE TypeOK'
  BY <1>14, Shapes DEF RuleRejected, poolVars, rowVars
<1>15. ASSUME ClosePool PROVE TypeOK'
  BY <1>15, Shapes DEF ClosePool, itemVars, rowVars
<1>16. ASSUME ReopenPool PROVE TypeOK'
  BY <1>16, Shapes DEF ReopenPool, itemVars, rowVars
<1>17. ASSUME ToggleHolds PROVE TypeOK'
  BY <1>17, Shapes DEF ToggleHolds, itemVars, rowVars
<1>18. ASSUME Tick PROVE TypeOK'
  BY <1>18, Shapes DEF Tick, itemVars, rowVars
<1>19. CASE UNCHANGED vars
  BY <1>19 DEF vars, poolVars, itemVars, rowVars
<1> HIDE DEF TypeOK
<1> QED
  BY <1>1, <1>2, <1>3, <1>4, <1>5, <1>6, <1>7, <1>8, <1>9,
     <1>10, <1>11, <1>12, <1>13, <1>14, <1>15, <1>16, <1>17, <1>18, <1>19, Zenon
  DEF Next, AcceptStep, SweepStep, ItemStep

-----------------------------------------------------------------------------
(* Time, first acceptances, rulings and holds only accumulate.             *)
LEMMA Onward ==
    ASSUME TypeOK, [Next]_vars
    PROVE  /\ now <= now'
           /\ \A i \in Items : hold[i] # "none" => hold'[i] # "none"
           /\ \A i \in Items : WindowOver(i) => WindowOver(i)'
<1> DEFINE Accumulates ==
        /\ now <= now'
        /\ \A i \in Items : hold[i] # "none" => hold'[i] # "none"
        /\ \A i \in Items : since[i] > 0 => since'[i] = since[i]
        /\ sentBack \subseteq sentBack'
<1>0. TypeOK'
  BY TypeStep
<1> USE ShapeAssumption DEF TypeOK
<1>1. ASSUME NEW r \in Requests, NEW i \in Items, AcceptCheck(r, i) PROVE Accumulates
  BY <1>1, Shapes DEF AcceptCheck, poolVars, itemVars, rowVars
<1>2. ASSUME NEW r \in Requests, AcceptHold(r) PROVE Accumulates
  BY <1>2, Shapes DEF AcceptHold, Accepted, Queued, AlreadyPaid, poolVars, Idle
<1>3. ASSUME NEW r \in Requests, AcceptAward(r) PROVE Accumulates
  BY <1>3, Shapes DEF AcceptAward, poolVars, itemVars, rowVars
<1>4. ASSUME NEW r \in Requests, AcceptCreate(r) PROVE Accumulates
  BY <1>4, Shapes DEF AcceptCreate, Accepted, Paid, EventKeyFree, poolVars, itemVars, Idle
<1>5. ASSUME NEW r \in Requests, AcceptLost(r) PROVE Accumulates
  BY <1>5, Shapes DEF AcceptLost, poolVars, itemVars, rowVars, Idle
<1>6. ASSUME NEW s \in Sweepers, SweepList(s) PROVE Accumulates
  BY <1>6, Shapes DEF SweepList, Candidates, Held, poolVars, itemVars, rowVars
<1>7. ASSUME NEW s \in Sweepers, SweepDates(s) PROVE Accumulates
  BY <1>7, Shapes DEF SweepDates, Resume, poolVars, itemVars, rowVars, Idle
<1>8. ASSUME NEW s \in Sweepers, NEW i \in Items, SweepClaim(s, i) PROVE Accumulates
  BY <1>8, Shapes DEF SweepClaim, AlreadyPaid, Resume, Released, poolVars, itemVars, Idle
<1>9. ASSUME NEW s \in Sweepers, SweepCreate(s) PROVE Accumulates
  BY <1>9, Shapes DEF SweepCreate, EventKeyFree, Paid, Resume, Released, poolVars, itemVars, Idle
<1>10. ASSUME NEW s \in Sweepers, SweepCrash(s) PROVE Accumulates
  BY <1>10, Shapes DEF SweepCrash, poolVars, itemVars, rowVars, Idle
<1>11. ASSUME NEW i \in Items, Flag(i) PROVE Accumulates
  BY <1>11, Shapes DEF Flag, poolVars, rowVars
<1>12. ASSUME NEW i \in Items, Dispute(i) PROVE Accumulates
  BY <1>12, Shapes DEF Dispute, poolVars, rowVars
<1>13. ASSUME NEW i \in Items, RuleUpheld(i) PROVE Accumulates
  BY <1>13, Shapes DEF RuleUpheld, poolVars, rowVars
<1>14. ASSUME NEW i \in Items, RuleRejected(i) PROVE Accumulates
  BY <1>14, Shapes DEF RuleRejected, poolVars, rowVars
<1>15. ASSUME ClosePool PROVE Accumulates
  BY <1>15, Shapes DEF ClosePool, itemVars, rowVars
<1>16. ASSUME ReopenPool PROVE Accumulates
  BY <1>16, Shapes DEF ReopenPool, itemVars, rowVars
<1>17. ASSUME ToggleHolds PROVE Accumulates
  BY <1>17, Shapes DEF ToggleHolds, itemVars, rowVars
<1>18. ASSUME Tick PROVE Accumulates
  BY <1>18, Shapes DEF Tick, itemVars, rowVars
<1>19. ASSUME UNCHANGED vars PROVE Accumulates
  BY <1>19 DEF vars, poolVars, itemVars, rowVars
<1> HIDE DEF TypeOK, Accumulates
<1>20. Accumulates
  BY <1>1, <1>2, <1>3, <1>4, <1>5, <1>6, <1>7, <1>8, <1>9,
     <1>10, <1>11, <1>12, <1>13, <1>14, <1>15, <1>16, <1>17, <1>18, <1>19, Zenon
  DEF Next, AcceptStep, SweepStep, ItemStep
<1> QED
  BY <1>0, <1>20 DEF Accumulates, TypeOK, WindowOver

(* Every step keeps the awards, the holds and the sweeps' reads true.      *)
LEMMA KarmaStep == KarmaInv /\ [Next]_vars => KarmaInv'
<1> SUFFICES ASSUME KarmaInv, [Next]_vars PROVE KarmaInv'
    OBVIOUS
<1>0. TypeOK /\ TypeOK'
  BY TypeStep DEF KarmaInv
<1>o. /\ now <= now'
      /\ \A i \in Items : hold[i] # "none" => hold'[i] # "none"
      /\ \A i \in Items : WindowOver(i) => WindowOver(i)'
  BY <1>0, Onward
<1> USE ShapeAssumption DEF KarmaInv, TypeOK
(* Where no sweep moves, the sweeps' reads stay true.                      *)
<1>s. ASSUME UNCHANGED sweep PROVE ListedHeld' /\ DueStays'
  BY <1>0, <1>o, <1>s, Shapes DEF ListedHeld, DueStays
(* Where no account moves, the accounts stay true.                         *)
<1>a. ASSUME UNCHANGED <<itemVars, rowVars>>
      PROVE  PaidOnce' /\ AwardNotLost' /\ Earned' /\ AcceptedSince'
  BY <1>0, <1>o, <1>a DEF itemVars, rowVars, PaidOnce, AwardNotLost, Earned, AcceptedSince
<1>1. ASSUME NEW r \in Requests, NEW i \in Items, AcceptCheck(r, i) PROVE KarmaInv'
  BY <1>0, <1>a, <1>s, <1>1 DEF AcceptCheck, poolVars
<1>2. ASSUME NEW r \in Requests, AcceptHold(r) PROVE KarmaInv'
  <2>1. PaidOnce'
    BY <1>0, <1>2, Shapes DEF AcceptHold, Accepted, Queued, AlreadyPaid, poolVars, Idle, PaidOnce
  <2>2. AwardNotLost'
    BY <1>0, <1>2, Shapes DEF AcceptHold, Accepted, Queued, AlreadyPaid, poolVars, Idle, AwardNotLost, PaidOnce
  <2>3. Earned'
    BY <1>0, <1>2, Shapes DEF AcceptHold, Accepted, Queued, AlreadyPaid, poolVars, Idle, Earned
  <2>4. AcceptedSince'
    BY <1>0, <1>2, Shapes DEF AcceptHold, Accepted, Queued, AlreadyPaid, poolVars, Idle, AcceptedSince, Earned
  <2> QED
    BY <1>0, <1>s, <1>2, <2>1, <2>2, <2>3, <2>4 DEF AcceptHold
<1>3. ASSUME NEW r \in Requests, AcceptAward(r) PROVE KarmaInv'
  BY <1>0, <1>a, <1>s, <1>3 DEF AcceptAward, poolVars
<1>4. ASSUME NEW r \in Requests, AcceptCreate(r) PROVE KarmaInv'
  <2>1. PaidOnce'
    BY <1>0, <1>4, Shapes DEF AcceptCreate, Accepted, Paid, EventKeyFree, poolVars, itemVars, Idle, PaidOnce
  <2>2. AwardNotLost'
    BY <1>0, <1>4, Shapes DEF AcceptCreate, Accepted, Paid, EventKeyFree, poolVars, itemVars, Idle, AwardNotLost, PaidOnce
  <2>3. Earned'
    BY <1>0, <1>4, Shapes DEF AcceptCreate, Accepted, Paid, EventKeyFree, poolVars, itemVars, Idle, Earned
  <2>4. AcceptedSince'
    BY <1>0, <1>4, Shapes DEF AcceptCreate, Accepted, Paid, EventKeyFree, poolVars, itemVars, Idle, AcceptedSince, Earned
  <2> QED
    BY <1>0, <1>s, <1>4, <2>1, <2>2, <2>3, <2>4 DEF AcceptCreate
<1>5. ASSUME NEW r \in Requests, AcceptLost(r) PROVE KarmaInv'
  BY <1>0, <1>a, <1>s, <1>5 DEF AcceptLost, poolVars
<1>6. ASSUME NEW s \in Sweepers, SweepList(s) PROVE KarmaInv'
  <2>1. ListedHeld'
    BY <1>0, <1>6, Shapes DEF SweepList, Candidates, Held, poolVars, itemVars, rowVars, ListedHeld
  <2>2. DueStays'
    BY <1>0, <1>o, <1>6, Shapes DEF SweepList, Candidates, Held, poolVars, itemVars, rowVars, DueStays
  <2> QED
    BY <1>0, <1>a, <1>6, <2>1, <2>2 DEF SweepList
<1>7. ASSUME NEW s \in Sweepers, SweepDates(s) PROVE KarmaInv'
  <2>1. ListedHeld'
    BY <1>0, <1>7, Shapes DEF SweepDates, Resume, poolVars, itemVars, rowVars, Idle, ListedHeld
  <2>2. DueStays'
    BY <1>0, <1>o, <1>7, Shapes DEF SweepDates, Resume, poolVars, itemVars, rowVars, Idle, DueStays, Due, HoldReleasesAt, Later, Earned, AcceptedSince, WindowOver, ListedHeld
  <2> QED
    BY <1>0, <1>a, <1>7, <2>1, <2>2 DEF SweepDates
<1>8. ASSUME NEW s \in Sweepers, NEW i \in Items, SweepClaim(s, i) PROVE KarmaInv'
  <2>1. PaidOnce'
    BY <1>0, <1>o, <1>8, Shapes DEF SweepClaim, AlreadyPaid, Resume, Released, poolVars, itemVars, Idle, PaidOnce
  <2>2. AwardNotLost'
    BY <1>0, <1>o, <1>8, Shapes DEF SweepClaim, AlreadyPaid, Resume, Released, poolVars, itemVars, Idle, AwardNotLost, PaidOnce
  <2>3. Earned'
    BY <1>0, <1>o, <1>8, Shapes DEF SweepClaim, AlreadyPaid, Resume, Released, poolVars, itemVars, Idle, Earned
  <2>4. AcceptedSince'
    BY <1>0, <1>o, <1>8, Shapes DEF SweepClaim, AlreadyPaid, Resume, Released, poolVars, itemVars, Idle, AcceptedSince
  <2>5. ListedHeld'
    BY <1>0, <1>o, <1>8, Shapes DEF SweepClaim, AlreadyPaid, Resume, Released, poolVars, itemVars, Idle, ListedHeld
  <2>6. DueStays'
    BY <1>0, <1>o, <1>8, Shapes DEF SweepClaim, AlreadyPaid, Resume, Released, poolVars, itemVars, Idle, DueStays
  <2> QED
    BY <1>0, <2>1, <2>2, <2>3, <2>4, <2>5, <2>6
<1>9. ASSUME NEW s \in Sweepers, SweepCreate(s) PROVE KarmaInv'
  <2>1. PaidOnce'
    BY <1>0, <1>o, <1>9, Shapes DEF SweepCreate, EventKeyFree, Paid, Resume, Released, poolVars, itemVars, Idle, PaidOnce
  <2>2. AwardNotLost'
    BY <1>0, <1>o, <1>9, Shapes DEF SweepCreate, EventKeyFree, Paid, Resume, Released, poolVars, itemVars, Idle, AwardNotLost, PaidOnce
  <2>3. Earned'
    BY <1>0, <1>o, <1>9, Shapes DEF SweepCreate, EventKeyFree, Paid, Resume, Released, poolVars, itemVars, Idle, Earned, DueStays, WindowOver
  <2>4. AcceptedSince'
    BY <1>0, <1>o, <1>9, Shapes DEF SweepCreate, EventKeyFree, Paid, Resume, Released, poolVars, itemVars, Idle, AcceptedSince
  <2>5. ListedHeld'
    BY <1>0, <1>o, <1>9, Shapes DEF SweepCreate, EventKeyFree, Paid, Resume, Released, poolVars, itemVars, Idle, ListedHeld
  <2>6. DueStays'
    BY <1>0, <1>o, <1>9, Shapes DEF SweepCreate, EventKeyFree, Paid, Resume, Released, poolVars, itemVars, Idle, DueStays
  <2> QED
    BY <1>0, <2>1, <2>2, <2>3, <2>4, <2>5, <2>6
<1>10. ASSUME NEW s \in Sweepers, SweepCrash(s) PROVE KarmaInv'
  <2>1. ListedHeld'
    BY <1>0, <1>10, Shapes DEF SweepCrash, poolVars, itemVars, rowVars, Idle, ListedHeld
  <2>2. DueStays'
    BY <1>0, <1>o, <1>10, Shapes DEF SweepCrash, poolVars, itemVars, rowVars, Idle, DueStays
  <2> QED
    BY <1>0, <1>a, <1>10, <2>1, <2>2 DEF SweepCrash
<1>11. ASSUME NEW i \in Items, Flag(i) PROVE KarmaInv'
  <2>1. PaidOnce'
    BY <1>0, <1>11, Shapes DEF Flag, poolVars, rowVars, PaidOnce
  <2>2. AwardNotLost'
    BY <1>0, <1>11, Shapes DEF Flag, poolVars, rowVars, AwardNotLost, PaidOnce
  <2>3. Earned'
    BY <1>0, <1>11, Shapes DEF Flag, poolVars, rowVars, Earned
  <2>4. AcceptedSince'
    BY <1>0, <1>11, Shapes DEF Flag, poolVars, rowVars, AcceptedSince, Earned
  <2> QED
    BY <1>0, <1>s, <1>11, <2>1, <2>2, <2>3, <2>4 DEF Flag
<1>12. ASSUME NEW i \in Items, Dispute(i) PROVE KarmaInv'
  <2>1. PaidOnce'
    BY <1>0, <1>12, Shapes DEF Dispute, poolVars, rowVars, PaidOnce, MayDispute
  <2>2. AwardNotLost'
    BY <1>0, <1>12, Shapes DEF Dispute, poolVars, rowVars, AwardNotLost, MayDispute, PaidOnce
  <2>3. Earned'
    BY <1>0, <1>12, Shapes DEF Dispute, poolVars, rowVars, Earned, MayDispute
  <2>4. AcceptedSince'
    BY <1>0, <1>12, Shapes DEF Dispute, poolVars, rowVars, AcceptedSince, MayDispute, Earned
  <2> QED
    BY <1>0, <1>s, <1>12, <2>1, <2>2, <2>3, <2>4 DEF Dispute
<1>13. ASSUME NEW i \in Items, RuleUpheld(i) PROVE KarmaInv'
  <2>1. PaidOnce'
    BY <1>0, <1>13, Shapes DEF RuleUpheld, poolVars, rowVars, PaidOnce
  <2>2. AwardNotLost'
    BY <1>0, <1>13, Shapes DEF RuleUpheld, poolVars, rowVars, AwardNotLost, PaidOnce
  <2>3. Earned'
    BY <1>0, <1>13, Shapes DEF RuleUpheld, poolVars, rowVars, Earned
  <2>4. AcceptedSince'
    BY <1>0, <1>13, Shapes DEF RuleUpheld, poolVars, rowVars, AcceptedSince, Earned
  <2> QED
    BY <1>0, <1>s, <1>13, <2>1, <2>2, <2>3, <2>4 DEF RuleUpheld
<1>14. ASSUME NEW i \in Items, RuleRejected(i) PROVE KarmaInv'
  <2>1. PaidOnce'
    BY <1>0, <1>14, Shapes DEF RuleRejected, poolVars, rowVars, PaidOnce
  <2>2. AwardNotLost'
    BY <1>0, <1>14, Shapes DEF RuleRejected, poolVars, rowVars, AwardNotLost, PaidOnce
  <2>3. Earned'
    BY <1>0, <1>14, Shapes DEF RuleRejected, poolVars, rowVars, Earned
  <2>4. AcceptedSince'
    BY <1>0, <1>14, Shapes DEF RuleRejected, poolVars, rowVars, AcceptedSince, Earned
  <2> QED
    BY <1>0, <1>s, <1>14, <2>1, <2>2, <2>3, <2>4 DEF RuleRejected
<1>15. ASSUME ClosePool PROVE KarmaInv'
  BY <1>0, <1>a, <1>s, <1>15 DEF ClosePool
<1>16. ASSUME ReopenPool PROVE KarmaInv'
  BY <1>0, <1>a, <1>s, <1>16 DEF ReopenPool
<1>17. ASSUME ToggleHolds PROVE KarmaInv'
  BY <1>0, <1>a, <1>s, <1>17 DEF ToggleHolds
<1>18. ASSUME Tick PROVE KarmaInv'
  BY <1>0, <1>a, <1>s, <1>18 DEF Tick
<1>19. CASE UNCHANGED vars
  BY <1>0, <1>a, <1>s, <1>19 DEF vars
<1> HIDE DEF KarmaInv, TypeOK
<1> QED
  BY <1>1, <1>2, <1>3, <1>4, <1>5, <1>6, <1>7, <1>8, <1>9,
     <1>10, <1>11, <1>12, <1>13, <1>14, <1>15, <1>16, <1>17, <1>18, <1>19, Zenon
  DEF Next, AcceptStep, SweepStep, ItemStep

-----------------------------------------------------------------------------
(* The invariant holds throughout every run.                               *)
LEMMA Invariance == Spec => []KarmaInv
<1>1. Init => KarmaInv
  BY InitKarma
<1>2. KarmaInv /\ [Next]_vars => KarmaInv'
  BY KarmaStep
<1> QED
  BY <1>1, <1>2, PTL DEF Spec

(* The accounts and the places of requests and sweeps keep their ranges    *)
(* (services/karma-holds.ts).                                              *)
THEOREM TypeCorrect == Spec => []TypeOK
<1>1. KarmaInv => TypeOK
  BY DEF KarmaInv
<1> QED
  BY <1>1, Invariance, PTL

(* No item earns twice, for any number of acceptances and sweeps that look *)
(* for the event at once (awardKarma): the unique key stops the later one. *)
THEOREM ItemsPaidOnce == Spec => []PaidOnce
<1>1. KarmaInv => PaidOnce
  BY DEF KarmaInv
<1> QED
  BY <1>1, Invariance, PTL

(* A released hold has been paid, and an accepted item has its hold or its *)
(* award, whichever way holds were switched in between.                    *)
THEOREM AwardsAreKept == Spec => []AwardNotLost
<1>1. KarmaInv => AwardNotLost
  BY DEF KarmaInv
<1> QED
  BY <1>1, Invariance, PTL

(* A sweep that pays on dates it read earlier pays no item inside the      *)
(* window of its first acceptance, but for items a ruling sent back        *)
(* (releaseDueKarmaHolds).                                                 *)
THEOREM WindowIsKept == Spec => NotBeforeWindow
<1>1. KarmaInv /\ [Next]_vars =>
        [\A i \in Items :
           hold[i] = "held" /\ hold'[i] = "released" /\ paid'[i] # paid[i]
               => i \in sentBack \/ now >= since[i] + Window]_vars
  <2> SUFFICES ASSUME KarmaInv, Next, NEW i \in Items,
                      hold[i] = "held", hold'[i] = "released", paid'[i] # paid[i]
               PROVE  i \in sentBack \/ now >= since[i] + Window
    OBVIOUS
  <2> DEFINE Quiet == UNCHANGED paid \/ UNCHANGED hold
  <2>1. \A r \in Requests, j \in Items :
           AcceptCheck(r, j) \/ AcceptHold(r) \/ AcceptAward(r) \/ AcceptCreate(r) \/ AcceptLost(r)
             => Quiet
    BY DEF AcceptCheck, AcceptHold, AcceptAward, AcceptCreate, AcceptLost, rowVars
  <2>2. \A s \in Sweepers, j \in Items :
           SweepList(s) \/ SweepDates(s) \/ SweepClaim(s, j) \/ SweepCrash(s) => Quiet
    BY DEF SweepList, SweepDates, SweepClaim, SweepCrash, rowVars
  <2>3. \A j \in Items : Flag(j) \/ Dispute(j) \/ RuleUpheld(j) \/ RuleRejected(j) => Quiet
    BY DEF Flag, Dispute, RuleUpheld, RuleRejected, rowVars
  <2>4. ClosePool \/ ReopenPool \/ ToggleHolds \/ Tick => Quiet
    BY DEF ClosePool, ReopenPool, ToggleHolds, Tick, rowVars
  <2>5. ~Quiet
    OBVIOUS
  <2>6. PICK s \in Sweepers : SweepCreate(s)
    <3> HIDE DEF Quiet
    <3> QED
      BY <2>1, <2>2, <2>3, <2>4, <2>5, Zenon DEF Next, AcceptStep, SweepStep, ItemStep
  <2>7. sweep[s].item = i
    BY <2>6, Shapes DEF SweepCreate, Paid, KarmaInv, TypeOK
  <2> QED
    BY <2>6, <2>7 DEF SweepCreate, KarmaInv, DueStays, WindowOver
<1> QED
  BY <1>1, Invariance, PTL DEF Spec, NotBeforeWindow
=============================================================================
