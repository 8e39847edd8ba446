----------------------------- MODULE KarmaHolds -----------------------------
(***************************************************************************)
(* What an accepted item earns its contributor: held through the dispute   *)
(* window, released by a sweep, or paid at once while holds are off.       *)
(*                                                                         *)
(* services/karma-holds.ts, awardKarma in services/karma.ts, and the       *)
(* acceptances, disputes and rulings that surround them.  The accounts of  *)
(* one pool's items; every item is its contributor's one award.            *)
(***************************************************************************)
EXTENDS Naturals, FiniteSets

CONSTANTS
    Items,
    SponsorReviewed, \* items the sponsor reviews, the others are audited
    Requests,        \* acceptances in flight at once
    Sweepers,        \* processes that run releaseDueKarmaHolds
    Window,          \* the dispute window, in ticks
    Limit,           \* candidates one sweep reads
    MaxNow,          \* bound: the clock
    MaxDisputes,     \* bound: disputes filed
    MaxCloses,       \* bound: closings of the pool
    MaxCrashes       \* bound: sweeps that die

ASSUME ShapeAssumption ==
    /\ IsFiniteSet(Items)
    /\ SponsorReviewed \subseteq Items
    /\ Limit \in Nat \ {0}
    /\ {Window, MaxNow, MaxDisputes, MaxCloses, MaxCrashes} \subseteq Nat

VARIABLES
    now,         \* the clock; every submission was created at 0
    status,      \* item -> submission.status
    acceptedAt,  \* item -> submission.acceptedAt, 0 when null: read as createdAt
    opensAt,     \* bounty.disputeCycleWindowOpensAt, 0 when null
    closes,      \* closings of the pool so far
    holdsOn,     \* community.karma_holds.enabled
    hold,        \* item -> its PendingKarmaAward row
    queuedAt,    \* item -> that row's place in the order of creation
    paid,        \* item -> KarmaEvent rows, each added to the balance with it
    since,       \* history: item -> its first acceptance
    sentBack,    \* history: items a ruling sent back to audit
    disputes,    \* disputes filed
    req,         \* request -> where it stands
    sweep,       \* sweeper -> where it stands
    crashes      \* sweeps that died

poolVars == <<now, opensAt, closes, holdsOn>>
itemVars == <<status, acceptedAt, since, sentBack, disputes>>
rowVars == <<hold, queuedAt, paid>>
vars == <<poolVars, itemVars, rowVars, req, sweep, crashes>>

Statuses == {"in_sponsor_review", "in_audit", "accepted", "flagged", "disputed", "rejected"}

Idle == [pc |-> "idle"]

ReqType ==
    {Idle}
    \cup [pc : {"checked"}, item : Items, guarded : BOOLEAN]
    \cup [pc : {"create"}, item : Items]

SweepType ==
    {Idle}
    \cup [pc : {"dates"}, at : Nat, todo : SUBSET Items, opens : Nat]
    \cup [pc : {"due"}, todo : SUBSET Items]
    \cup [pc : {"create"}, item : Items, todo : SUBSET Items]

TypeOK ==
    /\ now \in Nat
    /\ status \in [Items -> Statuses]
    /\ acceptedAt \in [Items -> Nat]
    /\ opensAt \in Nat
    /\ closes \in Nat
    /\ holdsOn \in BOOLEAN
    /\ hold \in [Items -> {"none", "held", "released"}]
    /\ queuedAt \in [Items -> Nat]
    /\ paid \in [Items -> Nat]
    /\ since \in [Items -> Nat]
    /\ sentBack \subseteq Items
    /\ disputes \in Nat
    /\ req \in [Requests -> ReqType]
    /\ sweep \in [Sweepers -> SweepType]
    /\ crashes \in Nat

(* An open pool whose items await their first verdict.                     *)
Init ==
    /\ now = 1
    /\ status = [i \in Items |->
           IF i \in SponsorReviewed THEN "in_sponsor_review" ELSE "in_audit"]
    /\ acceptedAt = [i \in Items |-> 0]
    /\ opensAt = 0
    /\ closes = 0
    /\ holdsOn \in BOOLEAN
    /\ hold = [i \in Items |-> "none"]
    /\ queuedAt = [i \in Items |-> 0]
    /\ paid = [i \in Items |-> 0]
    /\ since = [i \in Items |-> 0]
    /\ sentBack = {}
    /\ disputes = 0
    /\ req = [r \in Requests |-> Idle]
    /\ sweep = [s \in Sweepers |-> Idle]
    /\ crashes = 0

Later(a, b) == IF a > b THEN a ELSE b

(* holdReleasesAt: the later of the item's clock and the pool's.           *)
HoldReleasesAt(accepted, opens) == Later(accepted, opens) + Window

(* The submission row an acceptance has updated and not yet committed.     *)
RowFree(i) == \A r \in Requests : req[r].pc = "create" => req[r].item # i

-----------------------------------------------------------------------------
(* Fault variant: the hold is taken for the event.                         *)
AlreadyQueued(i) == hold[i] # "none"

(* Fault variant: the unique key alone, without a look.                    *)
AlreadyPaidUnknown(i) == FALSE

(* awardKarma looks for the event before it creates it, in one             *)
(* transaction that sees only what others have committed.                  *)
AlreadyPaid(i) == paid[i] > 0

(* Fault variant: no unique index behind the look.                         *)
EventKeyNone(i) == TRUE

(* The unique key of KarmaEvent: a second event aborts its transaction.    *)
EventKeyFree(i) == paid[i] = 0

Paid(i) == paid' = [paid EXCEPT ![i] = @ + 1]

(* The acceptance as others see it once it commits.                        *)
Accepted(i) ==
    /\ now + Window <= MaxNow
    /\ status' = [status EXCEPT ![i] = "accepted"]
    /\ acceptedAt' = [acceptedAt EXCEPT ![i] = now]
    /\ since' = [since EXCEPT ![i] = IF @ = 0 THEN now ELSE @]
    /\ UNCHANGED <<sentBack, disputes>>

(* queuePendingKarmaAward while holds are on: a row there already is kept. *)
Queued(i) ==
    IF holdsOn /\ hold[i] = "none"
      THEN /\ hold' = [hold EXCEPT ![i] = "held"]
           /\ queuedAt' = [queuedAt EXCEPT ![i] =
                  1 + Cardinality({j \in Items : hold[j] # "none"})]
      ELSE UNCHANGED <<hold, queuedAt>>

(* A validator's decision, or the sponsor's, checked before its            *)
(* transaction.                                                            *)
AcceptCheck(r, i) ==
    /\ req[r] = Idle
    /\ status[i] \in {"in_sponsor_review", "in_audit"}
    /\ req' = [req EXCEPT ![r] =
           [pc |-> "checked", item |-> i, guarded |-> status[i] = "in_audit"]]
    /\ UNCHANGED <<poolVars, itemVars, rowVars, sweep, crashes>>

(* Only the validator's update looks at the status again.                  *)
Wins(r) == ~req[r].guarded \/ status[req[r].item] = "in_audit"

(* awardOrHoldAcceptedItemKarma in the accepting transaction: hold ...     *)
AcceptHold(r) ==
    /\ req[r].pc = "checked"
    /\ RowFree(req[r].item)
    /\ Wins(r)
    /\ holdsOn \/ AlreadyPaid(req[r].item)
    /\ Accepted(req[r].item)
    /\ Queued(req[r].item)
    /\ req' = [req EXCEPT ![r] = Idle]
    /\ UNCHANGED <<poolVars, paid, sweep, crashes>>

(* ... or award: no event yet, it will be created ...                      *)
AcceptAward(r) ==
    /\ req[r].pc = "checked"
    /\ RowFree(req[r].item)
    /\ Wins(r)
    /\ ~holdsOn
    /\ ~AlreadyPaid(req[r].item)
    /\ req' = [req EXCEPT ![r] = [pc |-> "create", item |-> req[r].item]]
    /\ UNCHANGED <<poolVars, itemVars, rowVars, sweep, crashes>>

(* ... unless another transaction did so first, which undoes this one.     *)
AcceptCreate(r) ==
    LET i == req[r].item IN
    /\ req[r].pc = "create"
    /\ IF EventKeyFree(i)
         THEN Accepted(i) /\ Paid(i)
         ELSE UNCHANGED <<itemVars, paid>>
    /\ req' = [req EXCEPT ![r] = Idle]
    /\ UNCHANGED <<poolVars, hold, queuedAt, sweep, crashes>>

(* Another writer decided first.                                           *)
AcceptLost(r) ==
    /\ req[r].pc = "checked"
    /\ RowFree(req[r].item)
    /\ ~Wins(r)
    /\ req' = [req EXCEPT ![r] = Idle]
    /\ UNCHANGED <<poolVars, itemVars, rowVars, sweep, crashes>>

-----------------------------------------------------------------------------
Held == {i \in Items : hold[i] = "held"}

(* The oldest holds not released, up to the limit, due or not.             *)
Candidates == {i \in Held :
    Cardinality({j \in Held : queuedAt[j] < queuedAt[i]}) < Limit}

(* releaseDueKarmaHolds reads the candidates with the pool's clock ...     *)
SweepList(s) ==
    /\ sweep[s] = Idle
    /\ Candidates # {}
    /\ sweep' = [sweep EXCEPT ![s] =
           [pc |-> "dates", at |-> now, todo |-> Candidates, opens |-> opensAt]]
    /\ UNCHANGED <<poolVars, itemVars, rowVars, req, crashes>>

(* The sweep goes on with the awards it has left, or ends.                 *)
Resume(s, todo) ==
    sweep' = [sweep EXCEPT ![s] =
        IF todo = {} THEN Idle ELSE [pc |-> "due", todo |-> todo]]

(* Fault variant: the item's own clock is not looked at.                   *)
DueByPool(s, i) == HoldReleasesAt(0, sweep[s].opens) <= sweep[s].at

Due(s, i) == HoldReleasesAt(acceptedAt[i], sweep[s].opens) <= sweep[s].at

(* ... then their items' acceptances, and keeps those that are due.        *)
SweepDates(s) ==
    /\ sweep[s].pc = "dates"
    /\ Resume(s, {i \in sweep[s].todo : Due(s, i)})
    /\ UNCHANGED <<poolVars, itemVars, rowVars, req, crashes>>

(* The hold's row: a claim waits for the transaction that updated it.      *)
HoldFree(i) == \A s \in Sweepers : sweep[s].pc = "create" => sweep[s].item # i

Released(i) == hold' = [hold EXCEPT ![i] = "released"]

(* Each due award, the oldest first, is claimed in a transaction of its    *)
(* own, or left to who was faster; what was paid before is only marked,    *)
(* and what was not is about to be ...                                     *)
SweepClaim(s, i) ==
    LET rest == sweep[s].todo \ {i} IN
    /\ sweep[s].pc = "due"
    /\ i \in sweep[s].todo
    /\ \A j \in sweep[s].todo : queuedAt[i] <= queuedAt[j]
    /\ HoldFree(i)
    /\ \/ hold[i] # "held" /\ Resume(s, rest) /\ UNCHANGED hold
       \/ hold[i] = "held" /\ AlreadyPaid(i) /\ Resume(s, rest) /\ Released(i)
       \/ /\ hold[i] = "held"
          /\ ~AlreadyPaid(i)
          /\ sweep' = [sweep EXCEPT ![s] = [pc |-> "create", item |-> i, todo |-> rest]]
          /\ UNCHANGED hold
    /\ UNCHANGED <<poolVars, itemVars, queuedAt, paid, req, crashes>>

(* ... but an event another transaction created meanwhile ends the sweep.  *)
SweepCreate(s) ==
    LET i == sweep[s].item IN
    /\ sweep[s].pc = "create"
    /\ IF EventKeyFree(i)
         THEN Paid(i) /\ Released(i) /\ Resume(s, sweep[s].todo)
         ELSE sweep' = [sweep EXCEPT ![s] = Idle] /\ UNCHANGED <<paid, hold>>
    /\ UNCHANGED <<poolVars, itemVars, queuedAt, req, crashes>>

(* The process dies; an open transaction leaves nothing.                   *)
SweepCrash(s) ==
    /\ sweep[s] # Idle
    /\ crashes < MaxCrashes
    /\ crashes' = crashes + 1
    /\ sweep' = [sweep EXCEPT ![s] = Idle]
    /\ UNCHANGED <<poolVars, itemVars, rowVars, req>>

-----------------------------------------------------------------------------
(* A validator flags an item instead.                                      *)
Flag(i) ==
    /\ status[i] = "in_audit"
    /\ RowFree(i)
    /\ status' = [status EXCEPT ![i] = "flagged"]
    /\ UNCHANGED <<poolVars, acceptedAt, since, sentBack, disputes, rowVars, req, sweep, crashes>>

(* The sponsor disputes an accepted item while its window is open, the     *)
(* contributor a flag or a rejection at any time.                          *)
MayDispute(i) ==
    \/ status[i] = "accepted" /\ now < HoldReleasesAt(acceptedAt[i], opensAt)
    \/ status[i] \in {"flagged", "rejected"}

Dispute(i) ==
    /\ MayDispute(i)
    /\ RowFree(i)
    /\ disputes < MaxDisputes
    /\ disputes' = disputes + 1
    /\ status' = [status EXCEPT ![i] = "disputed"]
    /\ UNCHANGED <<poolVars, acceptedAt, since, sentBack, rowVars, req, sweep, crashes>>

(* The ruling sends the item back to audit, or rejects it.  Neither touches*)
(* its karma.                                                              *)
RuleUpheld(i) ==
    /\ status[i] = "disputed"
    /\ RowFree(i)
    /\ status' = [status EXCEPT ![i] = "in_audit"]
    /\ acceptedAt' = [acceptedAt EXCEPT ![i] = 0]
    /\ sentBack' = sentBack \cup {i}
    /\ UNCHANGED <<poolVars, since, disputes, rowVars, req, sweep, crashes>>

RuleRejected(i) ==
    /\ status[i] = "disputed"
    /\ RowFree(i)
    /\ status' = [status EXCEPT ![i] = "rejected"]
    /\ UNCHANGED <<poolVars, acceptedAt, since, sentBack, disputes, rowVars, req, sweep, crashes>>

(* The pool closes, which starts its own clock, and may be reopened.       *)
ClosePool ==
    /\ opensAt = 0
    /\ closes < MaxCloses
    /\ now + Window <= MaxNow
    /\ opensAt' = now
    /\ closes' = closes + 1
    /\ UNCHANGED <<now, holdsOn, itemVars, rowVars, req, sweep, crashes>>

ReopenPool ==
    /\ opensAt # 0
    /\ opensAt' = 0
    /\ UNCHANGED <<now, closes, holdsOn, itemVars, rowVars, req, sweep, crashes>>

(* An operator turns holds on or off.                                      *)
ToggleHolds ==
    /\ holdsOn' = ~holdsOn
    /\ UNCHANGED <<now, opensAt, closes, itemVars, rowVars, req, sweep, crashes>>

Tick ==
    /\ now < MaxNow
    /\ now' = now + 1
    /\ UNCHANGED <<opensAt, closes, holdsOn, itemVars, rowVars, req, sweep, crashes>>

-----------------------------------------------------------------------------
AcceptStep(r) == AcceptHold(r) \/ AcceptAward(r) \/ AcceptCreate(r) \/ AcceptLost(r)

SweepStep(s) ==
    \/ SweepList(s) \/ SweepDates(s) \/ SweepCreate(s)
    \/ \E i \in Items : SweepClaim(s, i)

ItemStep(i) == Flag(i) \/ Dispute(i) \/ RuleUpheld(i) \/ RuleRejected(i)

Next ==
    \/ \E r \in Requests : AcceptStep(r) \/ \E i \in Items : AcceptCheck(r, i)
    \/ \E s \in Sweepers : SweepStep(s) \/ SweepCrash(s)
    \/ \E i \in Items : ItemStep(i)
    \/ ClosePool \/ ReopenPool \/ ToggleHolds \/ Tick

Spec == Init /\ [][Next]_vars

(* The sweep is a loop of the worker process; time passes.                 *)
FairSpec ==
    /\ Spec
    /\ \A s \in Sweepers : WF_vars(SweepStep(s))
    /\ WF_vars(Tick)

-----------------------------------------------------------------------------
(* An item earns once, whatever acceptances, sweeps and switches of the    *)
(* holds meet: the look of awardKarma alone would not do.                  *)
PaidOnce == \A i \in Items : paid[i] <= 1

(* A hold leaves the list of held awards only with its award paid, and an  *)
(* accepted item has a hold or its award.                                  *)
AwardNotLost ==
    \A i \in Items :
        /\ hold[i] = "released" => paid[i] = 1
        /\ status[i] = "accepted" => hold[i] # "none" \/ paid[i] = 1

(* A sweep pays no item inside the window that its acceptance opened,      *)
(* although it acts on dates it read earlier.  An item a ruling sent back  *)
(* is excepted: its acceptance is erased, and the sweep then reads it as   *)
(* accepted when it was created.                                           *)
NotBeforeWindow ==
    [][\A i \in Items :
          hold[i] = "held" /\ hold'[i] = "released" /\ paid'[i] # paid[i]
              => i \in sentBack \/ now >= since[i] + Window]_vars

(* The award of an item that stays accepted is released in the end, also   *)
(* behind the sweep's limit and when it was paid directly meanwhile.       *)
(* Nothing is asked for an item that a dispute takes out of the accepted   *)
(* ones: README.md:37 and karma-holds.ts:22-25 want that hold kept.        *)
HeldIsReleased ==
    \A i \in Items :
        hold[i] = "held" ~> hold[i] = "released" \/ status[i] # "accepted"

(* README.md:37 says a resolved dispute means the hold was never released; *)
(* no ruling cancels the hold, and the sweep looks at neither the item's   *)
(* status nor its disputes.                                                *)
RejectedIsNotPaid ==
    [][\A i \in Items : status[i] = "rejected" => paid'[i] = paid[i]]_vars
=============================================================================
