----------------------------- MODULE AuditWindow -----------------------------
(***************************************************************************)
(* The human audit of one pool: validators claim windows of items, decide  *)
(* them in transactions that overlap, lose overdue claims to a sweep, and  *)
(* meet again the items a dispute sends back.                              *)
(*                                                                         *)
(* services/audits.ts (claimAuditWindow, submitAuditDecisions),            *)
(* services/audit-lifecycle.ts, services/audit-routing.ts,                 *)
(* services/disputes.ts and the ruling in routes/v1/admin.ts.              *)
(***************************************************************************)
EXTENDS Naturals, FiniteSets

CONSTANTS
    Validators, Windows, Items,
    Requests,        \* HTTP requests that may be in flight at once
    Sweepers,        \* processes that run releaseOverdueAudits
    WindowOf,        \* the window whose selected membership an item is
    Conflicted,      \* <<v, w>>: w holds work of v, or near it
    MaxConcurrent,   \* the claims a validator's rank allows
    MaxClaims,       \* bound: window -> its claims
    MaxDisputes,     \* bound: disputes filed
    None             \* no claimant

ASSUME ShapeAssumption ==
    /\ WindowOf \in [Items -> Windows]
    /\ Conflicted \subseteq Validators \X Windows
    /\ None \notin Validators

ASSUME BoundAssumption ==
    /\ IsFiniteSet(Windows)
    /\ MaxConcurrent \in Nat
    /\ MaxClaims \in [Windows -> Nat]
    /\ MaxDisputes \in Nat

VARIABLES
    status,      \* item -> submission.status
    verdict,     \* item -> the audit item's verdict, "none" while decidedAt is null
    owner,       \* window -> claimedByUserId
    expiry,      \* window -> claimExpiresAt: "none", "ahead" or "past"
    claims,      \* window -> claims so far: which claim an expiry belongs to
    settled,     \* window -> settledAt is set
    req,         \* request -> where it stands
    sweep,       \* sweeper -> the overdue claims it listed and has not handled
    disputing,   \* item -> filings that passed the status check
    disputes,    \* item -> open disputes
    filed,       \* disputes filed or being filed
    missed,      \* validator -> validatorMissedDeadlines
    lapsed       \* history: validator -> claims whose deadline has passed

windowVars == <<owner, expiry, claims, settled>>
itemVars == <<status, verdict>>
disputeVars == <<disputing, disputes, filed>>
countVars == <<missed, lapsed>>
vars == <<windowVars, itemVars, req, sweep, disputeVars, countVars>>

Statuses == {"in_audit", "accepted", "flagged", "disputed", "rejected"}

Idle == [op |-> "idle"]

ReqType ==
    {Idle}
    \cup [op : {"claim", "claiming"}, who : Validators, win : Windows]
    \cup [op : {"decide"}, who : Validators, win : Windows, items : SUBSET Items]
    \cup [op : {"applied"}, who : Validators, win : Windows, won : SUBSET Items]
    \cup [op : {"counted"}, who : Validators, win : Windows, won : SUBSET Items,
          last : BOOLEAN]

SweepType == [win : Windows, who : Validators, claim : Nat, touched : BOOLEAN]

TypeOK ==
    /\ status \in [Items -> Statuses]
    /\ verdict \in [Items -> {"none", "ok", "flagged"}]
    /\ owner \in [Windows -> Validators \cup {None}]
    /\ expiry \in [Windows -> {"none", "ahead", "past"}]
    /\ claims \in [Windows -> Nat]
    /\ settled \in [Windows -> BOOLEAN]
    /\ req \in [Requests -> ReqType]
    /\ sweep \in [Sweepers -> SUBSET SweepType]
    /\ disputing \in [Items -> Nat]
    /\ disputes \in [Items -> Nat]
    /\ filed \in Nat
    /\ missed \in [Validators -> Nat]
    /\ lapsed \in [Validators -> Nat]

(* The draw has just linked every window to its batch of undecided items.  *)
Init ==
    /\ status = [i \in Items |-> "in_audit"]
    /\ verdict = [i \in Items |-> "none"]
    /\ owner = [w \in Windows |-> None]
    /\ expiry = [w \in Windows |-> "none"]
    /\ claims = [w \in Windows |-> 0]
    /\ settled = [w \in Windows |-> FALSE]
    /\ req = [r \in Requests |-> Idle]
    /\ sweep = [s \in Sweepers |-> {}]
    /\ disputing = [i \in Items |-> 0]
    /\ disputes = [i \in Items |-> 0]
    /\ filed = 0
    /\ missed = [v \in Validators |-> 0]
    /\ lapsed = [v \in Validators |-> 0]

Members(w) == {i \in Items : WindowOf[i] = w}

Pending(w) == {i \in Members(w) : status[i] = "in_audit"}

Touched(w) == Pending(w) # Members(w)

Go(r, state) == req' = [req EXCEPT ![r] = state]

-----------------------------------------------------------------------------
(* activeClaimedWindowWhere: an overdue claim no longer counts, one whose  *)
(* deadline the sweep dropped counts again.                                *)
Active(v) == {w \in Windows : owner[w] = v /\ ~settled[w] /\ expiry[w] # "past"}

(* claimAuditWindow's read of the window and its early returns.            *)
ClaimCheck(r, v, w) ==
    /\ req[r] = Idle
    /\ <<v, w>> \notin Conflicted
    /\ ~(owner[w] = v /\ expiry[w] # "none")
    /\ ~settled[w]
    /\ Pending(w) # {}
    /\ Go(r, [op |-> "claim", who |-> v, win |-> w])
    /\ UNCHANGED <<windowVars, itemVars, sweep, disputeVars, countVars>>

(* Fault variant: no lock, as before the cap was enforced.                 *)
ClaimLockNone(v) == TRUE

(* pg_advisory_xact_lock: one claim of a validator counts and writes at a  *)
(* time.                                                                   *)
ClaimLockFree(v) == \A r \in Requests : req[r].op = "claiming" => req[r].who # v

(* The transaction takes the lock and counts the claims the rank allows.   *)
ClaimCount(r) ==
    LET v == req[r].who IN
    /\ req[r].op = "claim"
    /\ ClaimLockFree(v)
    /\ IF Cardinality(Active(v)) < MaxConcurrent
         THEN Go(r, [op |-> "claiming", who |-> v, win |-> req[r].win])
         ELSE Go(r, Idle)
    /\ UNCHANGED <<windowVars, itemVars, sweep, disputeVars, countVars>>

(* ... and takes the window if nobody has; the loser is told so.           *)
ClaimTake(r) ==
    LET w == req[r].win IN
    /\ req[r].op = "claiming"
    /\ Go(r, Idle)
    /\ IF owner[w] = None /\ ~settled[w]
         THEN /\ claims[w] < MaxClaims[w]
              /\ owner' = [owner EXCEPT ![w] = req[r].who]
              /\ expiry' = [expiry EXCEPT ![w] = "ahead"]
              /\ claims' = [claims EXCEPT ![w] = @ + 1]
         ELSE UNCHANGED <<owner, expiry, claims>>
    /\ UNCHANGED <<settled, itemVars, sweep, disputeVars, countVars>>

-----------------------------------------------------------------------------
(* submitAuditDecisions reads the window and validates every decision ...  *)
DecideCheck(r, v, w, D) ==
    /\ req[r] = Idle
    /\ ~settled[w]
    /\ owner[w] = v
    /\ D # {}
    /\ D \subseteq Pending(w)
    /\ Go(r, [op |-> "decide", who |-> v, win |-> w, items |-> D])
    /\ UNCHANGED <<windowVars, itemVars, sweep, disputeVars, countVars>>

InDecision(r) == req[r].op \in {"applied", "counted"}

(* The submission rows an open transaction has updated.                    *)
RowsHeld == UNION {req[r].won : r \in {x \in Requests : InDecision(x)}}

(* The bounty row, locked by a recount until its transaction ends.         *)
BountyRowFree == \A r \in Requests : req[r].op = "counted" => req[r].won = {}

(* Fault variant: the update is not guarded by the status.                 *)
WonUnguarded(D) == D

(* An item is won by the first writer that finds it in audit; the claim is *)
(* not looked at again.                                                    *)
Won(D) == {i \in D : status[i] = "in_audit"}

(* ... then, in its transaction, flips the items still in audit, waiting   *)
(* for the rows another transaction holds; its writes are seen by others   *)
(* only once it commits.                                                   *)
DecideApply(r) ==
    LET d == req[r] IN
    /\ d.op = "decide"
    /\ d.items \cap RowsHeld = {}
    /\ Go(r, [op |-> "applied", who |-> d.who, win |-> d.win, won |-> Won(d.items)])
    /\ UNCHANGED <<windowVars, itemVars, sweep, disputeVars, countVars>>

(* Fault variant: the recount moved after the count, or dropped.           *)
RecountDropped(won) == TRUE

(* A request that won something recounts the pool first: this is what      *)
(* makes two requests count one after the other.                           *)
RecountWaits(won) == won = {} \/ BountyRowFree

(* ... counts what is left of the window, its own writes included ...      *)
DecideCount(r) ==
    LET d == req[r] IN
    /\ d.op = "applied"
    /\ RecountWaits(d.won)
    /\ Go(r, [op |-> "counted", who |-> d.who, win |-> d.win, won |-> d.won,
              last |-> Pending(d.win) \subseteq d.won])
    /\ UNCHANGED <<windowVars, itemVars, sweep, disputeVars, countVars>>

(* ... and commits: statuses, the audit items that had no verdict, and     *)
(* settledAt when nothing was left.                                        *)
DecideCommit(r, ok) ==
    LET d == req[r]
        Flip(i, old, yes, no) ==
            IF i \notin d.won THEN old ELSE IF i \in ok THEN yes ELSE no
    IN
    /\ d.op = "counted"
    /\ ok \subseteq d.won
    /\ status' = [i \in Items |-> Flip(i, status[i], "accepted", "flagged")]
    /\ verdict' = [i \in Items |->
                      IF verdict[i] # "none" THEN verdict[i]
                      ELSE Flip(i, "none", "ok", "flagged")]
    /\ settled' = [settled EXCEPT ![d.win] = @ \/ d.last]
    /\ Go(r, Idle)
    /\ UNCHANGED <<owner, expiry, claims, sweep, disputeVars, countVars>>

(* A transaction that times out, or that the database stops to undo a      *)
(* deadlock, leaves nothing.                                               *)
DecideAbort(r) ==
    /\ InDecision(r)
    /\ Go(r, Idle)
    /\ UNCHANGED <<windowVars, itemVars, sweep, disputeVars, countVars>>

-----------------------------------------------------------------------------
(* The deadline of a claim passes.                                         *)
DeadlinePasses(w) ==
    /\ expiry[w] = "ahead"
    /\ ~settled[w]
    /\ expiry' = [expiry EXCEPT ![w] = "past"]
    /\ lapsed' = [lapsed EXCEPT ![owner[w]] = @ + 1]
    /\ UNCHANGED <<owner, claims, settled, itemVars, req, sweep, disputeVars, missed>>

Overdue(w) == owner[w] # None /\ expiry[w] = "past" /\ ~settled[w]

(* releaseOverdueAudits lists the overdue claims with what is decided.     *)
SweepRead(s) ==
    /\ sweep[s] = {}
    /\ \E w \in Windows : Overdue(w)
    /\ sweep' = [sweep EXCEPT ![s] =
           {[win |-> w, who |-> owner[w], claim |-> claims[w], touched |-> Touched(w)] :
               w \in {x \in Windows : Overdue(x)}}]
    /\ UNCHANGED <<windowVars, itemVars, req, disputeVars, countVars>>

(* Fault variant: the holder alone is compared.                            *)
StillHeld(e) == owner[e.win] = e.who /\ ~settled[e.win]

(* The guard of its update: the same holder and the same overdue deadline. *)
StillOverdue(e) ==
    /\ owner[e.win] = e.who
    /\ claims[e.win] = e.claim
    /\ expiry[e.win] = "past"
    /\ ~settled[e.win]

(* Fault variant: every overdue claim is taken for a decided one.          *)
KeepsHolderAlways(e) == TRUE

(* decidedItems, as the list saw it.                                       *)
KeepsHolder(e) == e.touched

(* Each listed claim is released if it was listed untouched, else it loses *)
(* its deadline and keeps its holder; the miss is recorded either way.     *)
SweepRelease(s, e) ==
    /\ e \in sweep[s]
    /\ sweep' = [sweep EXCEPT ![s] = @ \ {e}]
    /\ IF StillOverdue(e)
         THEN /\ owner' = [owner EXCEPT ![e.win] = IF KeepsHolder(e) THEN @ ELSE None]
              /\ expiry' = [expiry EXCEPT ![e.win] = "none"]
              /\ missed' = [missed EXCEPT ![e.who] = @ + 1]
         ELSE UNCHANGED <<owner, expiry, missed>>
    /\ UNCHANGED <<claims, settled, itemVars, req, disputeVars, lapsed>>

-----------------------------------------------------------------------------
(* A contributor disputes a decision against the item ...                  *)
ContributorDisputes(i) == status[i] \in {"flagged", "rejected"}

(* ... and the sponsor an acceptance, at any time here, if no dispute is   *)
(* open.                                                                   *)
SponsorDisputes(i) == status[i] = "accepted" /\ disputes[i] = 0

(* Both look outside the transaction ...                                   *)
DisputeCheck(i) ==
    /\ ContributorDisputes(i) \/ SponsorDisputes(i)
    /\ filed < MaxDisputes
    /\ filed' = filed + 1
    /\ disputing' = [disputing EXCEPT ![i] = @ + 1]
    /\ UNCHANGED <<windowVars, itemVars, req, sweep, disputes, countVars>>

(* ... and write in it, which waits for the item's row.                    *)
DisputeFile(i) ==
    /\ disputing[i] > 0
    /\ i \notin RowsHeld
    /\ disputing' = [disputing EXCEPT ![i] = @ - 1]
    /\ disputes' = [disputes EXCEPT ![i] = @ + 1]
    /\ status' = [status EXCEPT ![i] = "disputed"]
    /\ UNCHANGED <<verdict, windowVars, req, sweep, filed, countVars>>

(* Fault variant: the old verdict stays on the audit item.                 *)
ReopenedVerdictKept(i) == verdict

ReopenedVerdict(i) == [verdict EXCEPT ![i] = "none"]

(* Fault variant: the ruling does not look at the dispute again.           *)
StillOpenUnchecked(i) == TRUE

(* A ruling locks the dispute and looks again whether it is open: two      *)
(* admins, or two clicks, rule once.                                       *)
StillOpen(i) == disputes[i] > 0

(* An upheld dispute sends the item back to audit                          *)
(* (reopenAuditItemForReview): its verdict is cleared and its window       *)
(* returned to the pool.  The window would keep its holder if its batch    *)
(* had one, but nothing writes AuditBatch.validatorUserId.                 *)
ResolveUpheld(i) ==
    LET w == WindowOf[i] IN
    /\ StillOpen(i)
    /\ i \notin RowsHeld
    /\ BountyRowFree
    /\ disputes' = [disputes EXCEPT ![i] = @ - 1]
    /\ status' = [status EXCEPT ![i] = "in_audit"]
    /\ verdict' = ReopenedVerdict(i)
    /\ settled' = [settled EXCEPT ![w] = FALSE]
    /\ owner' = [owner EXCEPT ![w] = None]
    /\ expiry' = [expiry EXCEPT ![w] = "none"]
    /\ UNCHANGED <<claims, req, sweep, disputing, filed, countVars>>

(* Otherwise the item is rejected.                                         *)
ResolveRejected(i) ==
    /\ StillOpen(i)
    /\ i \notin RowsHeld
    /\ BountyRowFree
    /\ disputes' = [disputes EXCEPT ![i] = @ - 1]
    /\ status' = [status EXCEPT ![i] = "rejected"]
    /\ UNCHANGED <<verdict, windowVars, req, sweep, disputing, filed, countVars>>

-----------------------------------------------------------------------------
RequestStep(r) ==
    \/ ClaimCount(r) \/ ClaimTake(r) \/ DecideApply(r) \/ DecideCount(r)
    \/ \E ok \in SUBSET Items : DecideCommit(r, ok)

SweepStep(s) == SweepRead(s) \/ \E e \in sweep[s] : SweepRelease(s, e)

Next ==
    \/ \E r \in Requests :
          \/ RequestStep(r) \/ DecideAbort(r)
          \/ \E v \in Validators, w \in Windows :
                ClaimCheck(r, v, w) \/ \E D \in SUBSET Members(w) : DecideCheck(r, v, w, D)
    \/ \E w \in Windows : DeadlinePasses(w)
    \/ \E s \in Sweepers : SweepStep(s)
    \/ \E i \in Items :
          DisputeCheck(i) \/ DisputeFile(i) \/ ResolveUpheld(i) \/ ResolveRejected(i)

Spec == Init /\ [][Next]_vars

(* Deadlines pass and the sweep runs on its timer; nothing is assumed of   *)
(* validators or of those who dispute and rule.                            *)
Fairness ==
    /\ \A w \in Windows : WF_vars(DeadlinePasses(w))
    /\ \A s \in Sweepers : WF_vars(SweepStep(s))

FairSpec == Spec /\ Fairness

-----------------------------------------------------------------------------
Live(v) == {w \in Windows : owner[w] = v /\ ~settled[w] /\ expiry[w] = "ahead"}

(* However many tabs or clients a validator claims from, the claims it     *)
(* holds with a running deadline never exceed what its rank allows         *)
(* (claimAuditWindow's count and write under the advisory lock).           *)
CapacityHeld == \A v \in Validators : Cardinality(Live(v)) <= MaxConcurrent

(* A validator is charged a missed deadline once for each claim of its own *)
(* that lapsed, though several sweeps list the same claim and it may be    *)
(* released and claimed again under them (releaseOverdueAudits).           *)
MissedOnce == \A v \in Validators : missed[v] <= lapsed[v]

(* A validator keeps a window without a deadline only for the decisions    *)
(* already in it: no window is held untouched and for ever                 *)
(* (releaseOverdueAudits against the reopening of items).                  *)
NoSilentHold ==
    \A w \in Windows :
        owner[w] # None /\ expiry[w] = "none" /\ ~settled[w] => Touched(w)

(* The audit item and the submission tell the same story after any mix of  *)
(* overlapping decisions, disputes and re-reviews: undecided in audit, and *)
(* the decision that stands otherwise (submitAuditDecisions' two guarded   *)
(* updates, reopenAuditItemForReview).                                     *)
RecordAgrees ==
    \A i \in Items :
        /\ status[i] = "in_audit" => verdict[i] = "none"
        /\ status[i] = "accepted" => verdict[i] = "ok"
        /\ status[i] = "flagged" => verdict[i] = "flagged"

(* Once a decision has committed, no other validator or second click       *)
(* changes the item: only a dispute or its ruling does                     *)
(* (submitAuditDecisions).                                                 *)
DecisionStands ==
    [][\A i \in Items : status[i] \in {"accepted", "flagged"} =>
          \/ status'[i] = status[i] /\ verdict'[i] = verdict[i]
          \/ status'[i] = "disputed" /\ verdict'[i] = verdict[i]
          \/ disputes'[i] < disputes[i]]_vars

(* A window with nothing left to decide or to rule on is settled, even     *)
(* when two requests decided its last items at once and neither saw the    *)
(* other's writes (submitAuditDecisions' count after the recount).         *)
DecidedIsSettled ==
    \A w \in Windows :
        (\A i \in Members(w) : status[i] \in {"accepted", "flagged", "rejected"})
            => settled[w]

(* A window somebody claimed and left is back in the pool some day, or     *)
(* part of it has been decided (releaseOverdueAudits).                     *)
AbandonedReturns ==
    \A w \in Windows :
        owner[w] # None /\ ~Touched(w) ~> owner[w] = None \/ Touched(w)

-----------------------------------------------------------------------------
(* The places where the code does less than its comments say.              *)

(* Decisions are recorded by the window's claimant only (audits.ts: "a     *)
(* second validator can never decide items in a window someone else        *)
(* holds").                                                                *)
OnlyClaimantDecides ==
    [][\A i \in Items : verdict[i] = "none" /\ verdict'[i] # "none" =>
          \E r \in Requests :
              InDecision(r) /\ i \in req[r].won /\ owner[WindowOf[i]] \in {req[r].who, None}]_vars

(* An item in audit is in a window validators are shown, so one that is    *)
(* not settled (audit-routing.ts: "the window is genuinely no longer       *)
(* settled").                                                              *)
SettledIsDecided == \A w \in Windows : settled[w] => Pending(w) = {}

(* A partially decided claim keeps its owner (audit-lifecycle.ts): the     *)
(* sweep takes no window from a validator who has decided part of it.      *)
PartialKeepsOwner ==
    [][\A w \in Windows : Touched(w) /\ owner[w] # None /\ UNCHANGED itemVars
          => owner'[w] = owner[w]]_vars
=============================================================================
