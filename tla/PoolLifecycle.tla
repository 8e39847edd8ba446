---------------------------- MODULE PoolLifecycle ----------------------------
(***************************************************************************)
(* One community pool from intake to settlement.  Contributions are        *)
(* validated by queued jobs, take one of Target capacity slots, wait for   *)
(* the pool to close, are drawn for human review (or left to the sponsor), *)
(* and may be revised, rerun, disputed and reviewed again; sweeps repair   *)
(* the counters and settle the pool when its dispute window has passed.    *)
(*                                                                         *)
(* Actors interleave between statements: queue workers, the reconcile and  *)
(* settle sweeps, and the API routes.  A transaction is one step unless it *)
(* reads, outside any lock, what a later statement of it relies on.  The   *)
(* queue itself is JobQueue; here a job is a member of todo, or sampleJob, *)
(* and is replayed until it is acknowledged.                               *)
(***************************************************************************)
EXTENDS Naturals, FiniteSets

CONSTANTS
    Items,          \* submissions to the pool
    Workers,        \* queue workers, one job at a time each
    Target,         \* Bounty.targetItems (0, an uncapped pool, never closes)
    Covered,        \* auditCoveragePct > 0: validators review, not the sponsor
    SponsorCloses,  \* the sponsor may close the pool early
    NoTry,          \* "no validation job in hand"
    MaxRevisions,   \* the submissions.max_revisions setting (0: no cap)
    MaxAttempt,     \* bound: revisions and reruns of an item
    MaxDisputes,    \* bound: disputes filed in a behaviour
    MaxAborts       \* bound: crashes, and jobs that throw, in a behaviour

ASSUME PoolAssumption ==
    /\ IsFiniteSet(Items)
    /\ Target \in Nat \ {0}
    /\ Covered \in BOOLEAN
    /\ SponsorCloses \in BOOLEAN
    /\ NoTry \notin Items \X (0..MaxAttempt)
    /\ MaxRevisions \in Nat \ {0}
    /\ MaxAttempt \in Nat
    /\ MaxDisputes \in Nat
    /\ MaxAborts \in Nat

VARIABLES
    status,         \* submissions.status; "none" before the row, "admitted"
                    \* between the intake check and the insert
    attempt,        \* submissions.validationAttempt
    revisions,      \* submissions.revisionCount
    review,         \* submissions.pendingHumanReview
    failed,         \* failed automated evidence at the current attempt
    decided,        \* the item's audit verdict is recorded (decidedAt)
    lost,           \* <<item, attempt>> with a pool_capacity result row
    disputing,      \* disputes of each item past their checks
    disputes,       \* open disputes about each item
    filed,          \* history: disputes begun, for their bound
    acceptedItems,  \* bounties.accepted_items
    closed,         \* poolClosedAt is set
    sponsorClosed,  \* sponsorClosedAt is set
    window,         \* the dispute window that opened at the close
    sampled,        \* poolSamplingCompletedAt is set
    bounty,         \* bounties.status: active, completed, partially_completed
    published,      \* publicationStatus: "no", "pending"; "queued" with its job
    todo,           \* <<item, attempt>> of validation jobs not acknowledged
    sampleJob,      \* the pool.sampling job row
    pc, job,        \* each worker's step, and validation job
    snap,           \* the status its handler read had won a slot already
    revise,         \* reviseSubmission, per item
    unsent,         \* <<item, attempt>> of revisions written, not enqueued
    reruns,         \* <<item, attempt>> of reruns past their checks
    verdicts,       \* <<item, verdict>> of sponsor reviews past their check
    sweep,          \* settleDueCommunityPools, for this pool
    listed,         \* reconcileOpenCommunityPools has listed this pool
    aborts          \* history: crashes, for their bound

itemVars   == <<status, attempt, revisions, review, failed, decided, lost>>
bountyVars == <<acceptedItems, closed, window, sampled, bounty>>
workVars   == <<todo, pc, job, snap>>
routeVars  == <<disputing, disputes, filed, sponsorClosed, revise, unsent, reruns,
                verdicts>>
sweepVars  == <<published, sweep, listed>>
vars == <<itemVars, bountyVars, sampleJob, workVars, routeVars, sweepVars, aborts>>

Statuses == {"none", "admitted", "submitted", "rejected", "tests_failed",
             "accepted_pending_sample", "in_audit", "in_sponsor_review",
             "accepted", "flagged", "needs_fixes", "disputed"}

(* The steps of runSubmissionValidation, and of runPoolSamplingJob.        *)
Validating == {"validating", "losing", "closing", "claiming", "arming", "acking"}
Sampling == {"sampling", "drawing", "drawn"}

(* POOL_CAPACITY_STATUSES: the statuses that hold a capacity slot. *)
HoldsSlot == {"accepted", "accepted_pending_sample", "in_audit", "in_sponsor_review"}
Revisable == {"needs_fixes", "flagged", "rejected", "tests_failed"}
Rerunnable == {"needs_fixes", "tests_failed", "rejected"}
Disputable == {"flagged", "rejected"}

Tries == Items \X (0..MaxAttempt)

TypeOK ==
    /\ status \in [Items -> Statuses]
    /\ attempt \in [Items -> 0..MaxAttempt]
    /\ revisions \in [Items -> 0..MaxRevisions]
    /\ review \in [Items -> BOOLEAN]
    /\ failed \in [Items -> BOOLEAN]
    /\ decided \in [Items -> BOOLEAN]
    /\ lost \subseteq Tries
    /\ disputing \in [Items -> 0..MaxDisputes]
    /\ disputes \in [Items -> 0..MaxDisputes]
    /\ filed \in 0..MaxDisputes
    /\ acceptedItems \in Nat
    /\ closed \in BOOLEAN
    /\ sponsorClosed \in BOOLEAN
    /\ window \in {"none", "running", "elapsed"}
    /\ sampled \in BOOLEAN
    /\ bounty \in {"active", "completed", "partially_completed"}
    /\ published \in {"no", "pending", "queued"}
    /\ todo \subseteq Tries
    /\ sampleJob \in {"none", "pending", "processing", "done"}
    /\ pc \in [Workers -> {"idle"} \cup Validating \cup Sampling]
    /\ job \in [Workers -> Tries \cup {NoTry}]
    /\ \A w \in Workers : pc[w] \in Validating => job[w] \in Tries
    /\ snap \in [Workers -> BOOLEAN]
    /\ revise \in [Items -> {"idle", "checked", "claimed"}]
    /\ unsent \subseteq Tries
    /\ reruns \subseteq {t \in Tries : t[2] < MaxAttempt}
    /\ verdicts \subseteq Items \X {"accept", "reject"}
    /\ sweep \in [at : {"idle", "due", "counted", "publish"},
                  sponsor : BOOLEAN, full : BOOLEAN]
    /\ listed \in BOOLEAN
    /\ aborts \in 0..MaxAborts

SweepIdle == [at |-> "idle", sponsor |-> FALSE, full |-> FALSE]

Init ==
    /\ status = [i \in Items |-> "none"]
    /\ attempt = [i \in Items |-> 0]
    /\ revisions = [i \in Items |-> 0]
    /\ review = [i \in Items |-> FALSE]
    /\ failed = [i \in Items |-> FALSE]
    /\ decided = [i \in Items |-> FALSE]
    /\ lost = {}
    /\ disputing = [i \in Items |-> 0]
    /\ disputes = [i \in Items |-> 0]
    /\ filed = 0
    /\ acceptedItems = 0
    /\ closed = FALSE
    /\ sponsorClosed = FALSE
    /\ window = "none"
    /\ sampled = FALSE
    /\ bounty = "active"
    /\ published = "no"
    /\ todo = {}
    /\ sampleJob = "none"
    /\ pc = [w \in Workers |-> "idle"]
    /\ job = [w \in Workers |-> NoTry]
    /\ snap = [w \in Workers |-> FALSE]
    /\ revise = [i \in Items |-> "idle"]
    /\ unsent = {}
    /\ reruns = {}
    /\ verdicts = {}
    /\ sweep = SweepIdle
    /\ listed = FALSE
    /\ aborts = 0

-----------------------------------------------------------------------------
Slots(st) == Cardinality({i \in Items : st[i] \in HoldsSlot})
Final(st) == Cardinality({i \in Items : st[i] = "accepted"})

(* The job row after enqueuePoolSampling: a running job is left alone.     *)
SamplingArmed == IF sampleJob = "processing" THEN sampleJob ELSE "pending"

(* Fault variant: closing starts no dispute clock. *)
WindowAtCloseUnset == "none"

(* disputeCycleWindowOpensAt, written with poolClosedAt.                   *)
WindowAtClose == "running"

Closes(n) == ~closed /\ n >= Target
Reopens(n) == closed /\ n < Target

(* recomputeAcceptedItemCounters, on the statuses st: count the slots,     *)
(* close a pool that is full, reopen a closed one that no longer is, and   *)
(* take back its settlement.                                               *)
RecountWithout(st) ==
    LET n == Slots(st) IN
    /\ acceptedItems' = n
    /\ closed' = (Closes(n) \/ (closed /\ ~Reopens(n)))
    /\ window' = IF Closes(n) THEN WindowAtClose ELSE IF Reopens(n) THEN "none" ELSE window
    /\ bounty' = IF Reopens(n) THEN "active" ELSE bounty
    /\ sampleJob' = IF Closes(n) THEN SamplingArmed ELSE sampleJob

Recount(st) ==
    /\ RecountWithout(st)
    /\ sampled' = (sampled /\ ~Reopens(Slots(st)))

OpenDispute == \E i \in Items : disputes[i] > 0

Update(f, i, v) == [f EXCEPT ![i] = v]

(* Fault variant: the row is written and its job is not enqueued. *)
EnqueuedNothing(i, n) == todo

(* The validation.run job of attempt n, keyed by item and attempt.         *)
Enqueued(i, n) == todo \cup {<<i, n>>}

-----------------------------------------------------------------------------
(* createBountyPoolItems: the capacity check, outside the transaction.     *)
IntakeCheck(i) ==
    /\ status[i] = "none"
    /\ bounty = "active"
    /\ acceptedItems < Target
    /\ status' = Update(status, i, "admitted")
    /\ UNCHANGED <<attempt, revisions, review, failed, decided, lost, bountyVars,
                   sampleJob, workVars, routeVars, sweepVars, aborts>>

(* The insert; an exact duplicate is born rejected and never validated.    *)
IntakeCreate(i) ==
    /\ status[i] = "admitted"
    /\ \/ /\ status' = Update(status, i, "submitted")
          /\ todo' = Enqueued(i, 0)
       \/ /\ status' = Update(status, i, "rejected")
          /\ UNCHANGED todo
    /\ UNCHANGED <<attempt, revisions, review, failed, decided, lost, bountyVars,
                   sampleJob, pc, job, snap, routeVars, sweepVars, aborts>>

-----------------------------------------------------------------------------
ItemOf(w) == job[w][1]
TryOf(w) == job[w][2]

Goto(w, at) == pc' = [pc EXCEPT ![w] = at]

(* Failed evidence is written under the job's attempt, the current one or  *)
(* one the item has moved on from.                                         *)
Evidence(w) == failed' = [failed EXCEPT ![ItemOf(w)] = @ \/ TryOf(w) = attempt[ItemOf(w)]]

(* A worker claims a validation.run job nobody is running; its handler     *)
(* reads the submission row, once.                                         *)
ValidateStart(w, t) ==
    /\ pc[w] = "idle"
    /\ t \in todo
    /\ \A v \in Workers : pc[v] \in Validating => job[v] # t
    /\ job' = [job EXCEPT ![w] = t]
    /\ snap' = [snap EXCEPT ![w] = status[t[1]] = "accepted_pending_sample"]
    /\ Goto(w, "validating")
    /\ UNCHANGED <<todo, itemVars, bountyVars, sampleJob, routeVars, sweepVars, aborts>>

(* A duplicate score past the reject threshold, or tests that ran and      *)
(* failed: the status is written whatever it is by now.                    *)
ValidateFails(w) ==
    /\ pc[w] = "validating"
    /\ \E s \in {"rejected", "tests_failed"} : status' = Update(status, ItemOf(w), s)
    /\ Evidence(w)
    /\ Goto(w, "acking")
    /\ UNCHANGED <<attempt, revisions, review, decided, lost, todo, job, snap,
                   bountyVars, sampleJob, routeVars, sweepVars, aborts>>

(* Fault variant: an item that wins a slot is not counted. *)
TakesSlotNever(w) == FALSE

(* resolvePoolAcceptance asks claimPoolAcceptanceSlot for a slot unless    *)
(* the row it read had won already, or this attempt has a recorded loss.   *)
TakesSlot(w) ==
    /\ ~snap[w]
    /\ job[w] \notin lost
    /\ acceptedItems < Target

(* Fault variant: a slot is granted in a pool that is full. *)
WinsSlotAlways(w) == snap[w] \/ job[w] \notin lost

WinsSlot(w) ==
    \/ snap[w]
    \/ job[w] \notin lost /\ acceptedItems < Target

(* Winning either way, held or passed, marks the item for a human.         *)
ReviewMark(w) == [review EXCEPT ![ItemOf(w)] = TRUE]

(* Automation cleared or held the item: slot and status in one transaction.*)
(* A held item, or a poor LLM verdict, leaves failed evidence.             *)
ValidatePasses(w) ==
    LET i == ItemOf(w) IN
    /\ pc[w] = "validating"
    /\ acceptedItems' = IF TakesSlot(w) THEN acceptedItems + 1 ELSE acceptedItems
    /\ \/ /\ WinsSlot(w)
          /\ status' = Update(status, i, "accepted_pending_sample")
          /\ review' = ReviewMark(w)
          /\ Goto(w, "closing")
       \/ /\ ~WinsSlot(w)
          /\ status' = Update(status, i, "rejected")
          /\ Goto(w, "losing")
          /\ UNCHANGED review
    /\ Evidence(w) \/ UNCHANGED failed
    /\ UNCHANGED <<attempt, revisions, decided, lost, todo, job, snap, closed, window,
                   sampled, bounty, sampleJob, routeVars, sweepVars, aborts>>

(* The loss is recorded after the transaction that rejected the item.      *)
RecordLoss(w) ==
    /\ pc[w] = "losing"
    /\ lost' = lost \cup {job[w]}
    /\ Evidence(w)
    /\ Goto(w, "closing")
    /\ UNCHANGED <<status, attempt, revisions, review, decided, todo, job, snap,
                   bountyVars, sampleJob, routeVars, sweepVars, aborts>>

(* checkAndClosePoolIfTargetReached: the read ...                          *)
CloseRead(w) ==
    /\ pc[w] = "closing"
    /\ Goto(w, IF acceptedItems >= Target /\ ~closed THEN "claiming" ELSE "acking")
    /\ UNCHANGED <<todo, job, snap, itemVars, bountyVars, sampleJob, routeVars,
                   sweepVars, aborts>>

(* ... the compare-and-swap on poolClosedAt ...                            *)
CloseClaim(w) ==
    /\ pc[w] = "claiming"
    /\ closed' = TRUE
    /\ window' = IF closed THEN window ELSE WindowAtClose
    /\ Goto(w, IF closed THEN "acking" ELSE "arming")
    /\ UNCHANGED <<todo, job, snap, itemVars, acceptedItems, sampled, bounty,
                   sampleJob, routeVars, sweepVars, aborts>>

(* ... and the enqueue, which the close does not commit with.              *)
CloseArm(w) ==
    /\ pc[w] = "arming"
    /\ sampleJob' = SamplingArmed
    /\ Goto(w, "acking")
    /\ UNCHANGED <<todo, job, snap, itemVars, bountyVars, routeVars, sweepVars, aborts>>

(* A worker with nothing in hand.                                          *)
Idles(w) ==
    /\ Goto(w, "idle")
    /\ job' = [job EXCEPT ![w] = NoTry]
    /\ snap' = [snap EXCEPT ![w] = FALSE]

Acked(w) == todo \ {job[w]}

ValidateAck(w) ==
    /\ pc[w] = "acking"
    /\ todo' = Acked(w)
    /\ Idles(w)
    /\ UNCHANGED <<itemVars, bountyVars, sampleJob, routeVars, sweepVars, aborts>>

-----------------------------------------------------------------------------
(* A worker claims the pool.sampling job.                                  *)
SampleStart(w) ==
    /\ pc[w] = "idle"
    /\ sampleJob = "pending"
    /\ sampleJob' = "processing"
    /\ Goto(w, "sampling")
    /\ UNCHANGED <<todo, job, snap, itemVars, bountyVars, routeVars, sweepVars, aborts>>

(* runPoolSamplingJob reads the pool, and skips one it need not sample.    *)
SampleRead(w) ==
    /\ pc[w] = "sampling"
    /\ Goto(w, IF closed /\ ~sampled THEN "drawing" ELSE "drawn")
    /\ UNCHANGED <<todo, job, snap, itemVars, bountyVars, sampleJob, routeVars,
                   sweepVars, aborts>>

Forced(eligible) == {i \in eligible : review[i]}

(* Fault variant: a pool without validators accepts what it draws. *)
ReviewerNobody == IF Covered THEN "in_audit" ELSE "accepted"

Reviewer == IF Covered THEN "in_audit" ELSE "in_sponsor_review"

(* The rest of its transaction, from the guarded write of                  *)
(* poolSamplingStartedAt on: draw the waiting items for review, all the    *)
(* forced ones and a quota of the clean ones, and accept the others.  The  *)
(* guard is on poolSamplingCompletedAt alone.                              *)
SampleDraw(w) ==
    LET eligible == {i \in Items : status[i] = "accepted_pending_sample"} IN
    /\ pc[w] = "drawing"
    /\ Goto(w, "drawn")
    /\ IF sampled
       THEN UNCHANGED <<status, bountyVars, sampleJob>>
       ELSE /\ sampled' = TRUE
            /\ \E drawn \in IF Covered THEN SUBSET eligible ELSE {eligible} :
                  /\ Forced(eligible) \subseteq drawn
                  /\ status' = [i \in Items |->
                        IF i \in drawn THEN Reviewer
                        ELSE IF i \in eligible THEN "accepted" ELSE status[i]]
                  /\ IF drawn = eligible
                     THEN UNCHANGED <<acceptedItems, closed, window, bounty, sampleJob>>
                     ELSE RecountWithout(status')
    /\ UNCHANGED <<attempt, revisions, review, failed, decided, lost, todo, job, snap,
                   routeVars, sweepVars, aborts>>

SampleAck(w) ==
    /\ pc[w] = "drawn"
    /\ sampleJob' = "done"
    /\ Goto(w, "idle")
    /\ UNCHANGED <<todo, job, snap, itemVars, bountyVars, routeVars, sweepVars, aborts>>

(* A worker dies, or its handler throws: what it has written stays, and    *)
(* the job comes back when its lease or its backoff has passed.            *)
Abort(w) ==
    /\ pc[w] # "idle"
    /\ aborts < MaxAborts
    /\ aborts' = aborts + 1
    /\ Idles(w)
    /\ sampleJob' = IF pc[w] \in Sampling THEN "pending" ELSE sampleJob
    /\ UNCHANGED <<todo, itemVars, bountyVars, routeVars, sweepVars>>

-----------------------------------------------------------------------------
(* reconcileOpenCommunityPools lists the open pools, then recounts each.   *)
ReconcileList ==
    /\ ~closed
    /\ ~listed
    /\ listed' = TRUE
    /\ UNCHANGED <<itemVars, bountyVars, sampleJob, workVars, routeVars, published,
                   sweep, aborts>>

ReconcileRecount ==
    /\ listed
    /\ listed' = FALSE
    /\ Recount(status)
    /\ UNCHANGED <<itemVars, workVars, routeVars, published, sweep, aborts>>

(* settleDueCommunityPools reads the due pools: closed, unsettled, with an *)
(* elapsed window and no open dispute ...                                  *)
SettleRead ==
    /\ sweep.at = "idle"
    /\ bounty = "active"
    /\ closed
    /\ window = "elapsed"
    /\ ~OpenDispute
    /\ sweep' = [at |-> "due", sponsor |-> sponsorClosed, full |-> FALSE]
    /\ UNCHANGED <<itemVars, bountyVars, sampleJob, workVars, routeVars, published,
                   listed, aborts>>

(* ... checks again for disputes and counts final acceptances ...          *)
SettleCount ==
    /\ sweep.at = "due"
    /\ sweep' = IF OpenDispute THEN SweepIdle
                ELSE [sweep EXCEPT !.at = "counted", !.full = Final(status) >= Target]
    /\ UNCHANGED <<itemVars, bountyVars, sampleJob, workVars, routeVars, published,
                   listed, aborts>>

(* ... reopens a pool that fell short and was not closed by its sponsor ...*)
SettleReopen ==
    /\ sweep.at = "counted"
    /\ ~sweep.full /\ ~sweep.sponsor
    /\ sweep' = SweepIdle
    /\ closed' = FALSE
    /\ window' = IF closed THEN "none" ELSE window
    /\ sampled' = (sampled /\ ~closed)
    /\ UNCHANGED <<itemVars, acceptedItems, bounty, sampleJob, workVars, routeVars,
                   published, listed, aborts>>

(* ... or settles it, once, and marks it for publication the first time;   *)
(* the guard is on disputeCycleSettledAt alone.                            *)
SettleWrite ==
    /\ sweep.at = "counted"
    /\ sweep.full \/ sweep.sponsor
    /\ IF bounty # "active"
       THEN sweep' = SweepIdle /\ UNCHANGED <<bounty, published>>
       ELSE /\ bounty' = IF sweep.full THEN "completed" ELSE "partially_completed"
            /\ published' = IF published = "no" THEN "pending" ELSE published
            /\ sweep' = IF published = "no" THEN [sweep EXCEPT !.at = "publish"]
                        ELSE SweepIdle
    /\ UNCHANGED <<itemVars, acceptedItems, closed, window, sampled, sampleJob,
                   workVars, routeVars, listed, aborts>>

(* The publish job is enqueued after the commit.                           *)
SettlePublish ==
    /\ sweep.at = "publish"
    /\ published' = "queued"
    /\ sweep' = SweepIdle
    /\ UNCHANGED <<itemVars, bountyVars, sampleJob, workVars, routeVars, listed, aborts>>

SweepCrash ==
    /\ sweep.at # "idle"
    /\ aborts < MaxAborts
    /\ aborts' = aborts + 1
    /\ sweep' = SweepIdle
    /\ UNCHANGED <<itemVars, bountyVars, sampleJob, workVars, routeVars, published, listed>>

(* The dispute window that opened at the close passes.                     *)
WindowElapses ==
    /\ window = "running"
    /\ window' = "elapsed"
    /\ UNCHANGED <<itemVars, acceptedItems, closed, sampled, bounty, sampleJob,
                   workVars, routeVars, sweepVars, aborts>>

-----------------------------------------------------------------------------
(* submitAuditDecisions on one item: the status guard of its update is     *)
(* the authority; the verdict, the flip and the recount commit together.   *)
AuditDecide(i) ==
    /\ status[i] = "in_audit"
    /\ \E s \in {"accepted", "flagged"} : status' = Update(status, i, s)
    /\ decided' = Update(decided, i, TRUE)
    /\ Recount(status')
    /\ UNCHANGED <<attempt, revisions, review, failed, lost, workVars, routeVars,
                   sweepVars, aborts>>

(* The sponsor-review route checks the status ...                          *)
ReviewCheck(i, v) ==
    /\ status[i] = "in_sponsor_review"
    /\ <<i, v>> \notin verdicts
    /\ verdicts' = verdicts \cup {<<i, v>>}
    /\ UNCHANGED <<itemVars, bountyVars, sampleJob, workVars, disputing, disputes,
                   filed, sponsorClosed, revise, unsent, reruns, sweepVars, aborts>>

(* ... and writes it in a transaction that does not check it again.        *)
ReviewWrite(i, v) ==
    /\ <<i, v>> \in verdicts
    /\ verdicts' = verdicts \ {<<i, v>>}
    /\ status' = Update(status, i, IF v = "accept" THEN "accepted" ELSE "needs_fixes")
    /\ Recount(status')
    /\ UNCHANGED <<attempt, revisions, review, failed, decided, lost, workVars,
                   disputing, disputes, filed, sponsorClosed, revise, unsent,
                   reruns, sweepVars, aborts>>

(* close-pool: record the sponsor's stop, and close an open pool with it.  *)
SponsorClose ==
    /\ SponsorCloses
    /\ ~sponsorClosed
    /\ sponsorClosed' = TRUE
    /\ closed' = TRUE
    /\ window' = IF closed THEN window ELSE WindowAtClose
    /\ sampleJob' = IF closed THEN sampleJob ELSE SamplingArmed
    /\ UNCHANGED <<itemVars, acceptedItems, sampled, bounty, workVars, disputing,
                   disputes, filed, revise, unsent, reruns, verdicts, sweepVars,
                   aborts>>

(* reviseSubmission: the gates on status and pool ...                      *)
ReviseCheck(i) ==
    /\ revise[i] = "idle"
    /\ status[i] \in Revisable
    /\ ~closed
    /\ attempt[i] < MaxAttempt \/ revisions[i] = MaxRevisions
    /\ revise' = Update(revise, i, "checked")
    /\ UNCHANGED <<itemVars, bountyVars, sampleJob, workVars, disputing, disputes,
                   filed, sponsorClosed, unsent, reruns, verdicts, sweepVars,
                   aborts>>

(* ... the claim of a revision number, guarded by status and cap; a call   *)
(* that meets the cap rejects the item, wherever it is by then ...         *)
ReviseClaim(i) ==
    /\ revise[i] = "checked"
    /\ \/ /\ status[i] \in Revisable /\ revisions[i] < MaxRevisions
          /\ revisions' = Update(revisions, i, revisions[i] + 1)
          /\ revise' = Update(revise, i, "claimed")
          /\ UNCHANGED status
       \/ /\ revisions[i] >= MaxRevisions
          /\ status' = Update(status, i, "rejected")
          /\ revise' = Update(revise, i, "idle")
          /\ UNCHANGED revisions
       \/ /\ status[i] \notin Revisable /\ revisions[i] < MaxRevisions
          /\ revise' = Update(revise, i, "idle")
          /\ UNCHANGED <<status, revisions>>
    /\ UNCHANGED <<attempt, review, failed, decided, lost, bountyVars, sampleJob,
                   workVars, disputing, disputes, filed, sponsorClosed, unsent,
                   reruns, verdicts, sweepVars, aborts>>

(* ... the write, unguarded; a payload that collides with another item's   *)
(* is rejected and not run ...                                             *)
ReviseWrite(i) ==
    /\ revise[i] = "claimed"
    /\ attempt[i] < MaxAttempt
    /\ revise' = Update(revise, i, "idle")
    /\ attempt' = Update(attempt, i, attempt[i] + 1)
    /\ failed' = Update(failed, i, FALSE)
    /\ \/ /\ status' = Update(status, i, "submitted")
          /\ unsent' = unsent \cup {<<i, attempt[i] + 1>>}
       \/ /\ status' = Update(status, i, "rejected")
          /\ UNCHANGED unsent
    /\ UNCHANGED <<revisions, review, decided, lost, bountyVars, sampleJob,
                   workVars, disputing, disputes, filed, sponsorClosed, reruns,
                   verdicts, sweepVars, aborts>>

(* ... and the enqueue of the next attempt, outside any transaction.       *)
ReviseArm(t) ==
    /\ t \in unsent
    /\ unsent' = unsent \ {t}
    /\ todo' = Enqueued(t[1], t[2])
    /\ UNCHANGED <<itemVars, bountyVars, sampleJob, pc, job, snap, disputing,
                   disputes, filed, sponsorClosed, revise, reruns, verdicts,
                   sweepVars, aborts>>

(* The process dies between the write and the enqueue.                     *)
ReviseCrash(t) ==
    /\ t \in unsent
    /\ aborts < MaxAborts
    /\ aborts' = aborts + 1
    /\ unsent' = unsent \ {t}
    /\ UNCHANGED <<itemVars, bountyVars, sampleJob, workVars, disputing, disputes,
                   filed, sponsorClosed, revise, reruns, verdicts, sweepVars>>

(* rerunSubmissionValidation: an automated failure of the current attempt, *)
(* never a validator's verdict, is validated again as it is.  Its          *)
(* transaction reads all that without a lock ...                           *)
RerunCheck(i) ==
    /\ status[i] \in Rerunnable
    /\ ~closed
    /\ ~decided[i]
    /\ failed[i]
    /\ attempt[i] < MaxAttempt
    /\ reruns' = reruns \cup {<<i, attempt[i]>>}
    /\ UNCHANGED <<itemVars, bountyVars, sampleJob, workVars, disputing, disputes, filed,
                   sponsorClosed, revise, unsent, verdicts, sweepVars, aborts>>

(* ... and claims the item by status and attempt.                          *)
RerunWrite(t) ==
    LET i == t[1] IN
    /\ t \in reruns
    /\ reruns' = reruns \ {t}
    /\ IF status[i] \in Rerunnable /\ attempt[i] = t[2]
       THEN /\ status' = Update(status, i, "submitted")
            /\ review' = Update(review, i, FALSE)
            /\ attempt' = Update(attempt, i, t[2] + 1)
            /\ failed' = Update(failed, i, FALSE)
            /\ todo' = Enqueued(i, t[2] + 1)
       ELSE UNCHANGED <<status, review, attempt, failed, todo>>
    /\ UNCHANGED <<revisions, decided, lost, bountyVars, sampleJob, pc, job, snap,
                   disputing, disputes, filed, sponsorClosed, revise, unsent, verdicts,
                   sweepVars, aborts>>

(* fileSubmissionDispute: a contributor disputes a flag or a rejection.    *)
ContributorDisputes(i) == status[i] \in Disputable

(* disputeAcceptedSubmission: the sponsor disputes an acceptance no open   *)
(* dispute is about.  Its time limit runs from the later of the acceptance *)
(* and the close; here it may always be open.                              *)
SponsorDisputes(i) == status[i] = "accepted" /\ disputes[i] = 0

(* Either one checks first ...                                             *)
DisputeCheck(i) ==
    /\ ContributorDisputes(i) \/ SponsorDisputes(i)
    /\ filed < MaxDisputes
    /\ filed' = filed + 1
    /\ disputing' = Update(disputing, i, disputing[i] + 1)
    /\ UNCHANGED <<itemVars, bountyVars, sampleJob, workVars, disputes, sponsorClosed,
                   revise, unsent, reruns, verdicts, sweepVars, aborts>>

(* ... and the transaction, which does not check again; the item keeps its *)
(* place in the stored counters.                                           *)
DisputeFile(i) ==
    /\ disputing[i] > 0
    /\ disputing' = Update(disputing, i, disputing[i] - 1)
    /\ disputes' = Update(disputes, i, disputes[i] + 1)
    /\ status' = Update(status, i, "disputed")
    /\ UNCHANGED <<attempt, revisions, review, failed, decided, lost, bountyVars,
                   sampleJob, workVars, filed, sponsorClosed, revise, unsent, reruns,
                   verdicts, sweepVars, aborts>>

(* Fault variant: a ruling that leaves the counters to the sweep. *)
RulingWithoutRecount(st) == UNCHANGED <<bountyVars, sampleJob>>

RulingRecount(st) == Recount(st)

(* An admin resolves a dispute: upheld, the item goes back to human audit  *)
(* with its verdict cleared; otherwise it is rejected.                     *)
Resolve(i) ==
    /\ disputes[i] > 0
    /\ disputes' = Update(disputes, i, disputes[i] - 1)
    /\ \/ /\ status' = Update(status, i, "in_audit")
          /\ decided' = Update(decided, i, FALSE)
       \/ /\ status' = Update(status, i, "rejected")
          /\ UNCHANGED decided
    /\ RulingRecount(status')
    /\ UNCHANGED <<attempt, revisions, review, failed, lost, workVars, disputing,
                   filed, sponsorClosed, revise, unsent, reruns, verdicts,
                   sweepVars, aborts>>

-----------------------------------------------------------------------------
HandlerStep(w) ==
    \/ ValidateFails(w) \/ ValidatePasses(w) \/ RecordLoss(w)
    \/ CloseRead(w) \/ CloseClaim(w) \/ CloseArm(w) \/ ValidateAck(w)
    \/ SampleRead(w) \/ SampleDraw(w) \/ SampleAck(w)

SettleStep ==
    SettleRead \/ SettleCount \/ SettleReopen \/ SettleWrite \/ SettlePublish

ReconcileStep == ReconcileList \/ ReconcileRecount

ReviewStep(i) ==
    \E v \in {"accept", "reject"} : ReviewCheck(i, v) \/ ReviewWrite(i, v)

ContributorStep(i) ==
    \/ IntakeCheck(i) \/ IntakeCreate(i) \/ ReviseCheck(i) \/ ReviseClaim(i)
    \/ ReviseWrite(i) \/ RerunCheck(i)

Next ==
    \/ \E w \in Workers :
          \/ \E t \in Tries : ValidateStart(w, t)
          \/ SampleStart(w) \/ HandlerStep(w) \/ Abort(w)
    \/ \E t \in Tries : ReviseArm(t) \/ ReviseCrash(t) \/ RerunWrite(t)
    \/ SettleStep \/ ReconcileStep \/ SweepCrash \/ WindowElapses \/ SponsorClose
    \/ \E i \in Items :
          ContributorStep(i) \/ AuditDecide(i) \/ ReviewStep(i)
          \/ DisputeCheck(i) \/ DisputeFile(i) \/ Resolve(i)

Spec == Init /\ [][Next]_vars

(* A handler or a revision ends, the sweeps never stop, and time passes.   *)
(* That every armed job is started some day assumes of the queue that the  *)
(* work ahead of it runs out again and again (JobQueue's EveryArmRuns).    *)
Fairness ==
    /\ \A w \in Workers : WF_vars(HandlerStep(w))
    /\ \A t \in Tries : SF_vars(\E w \in Workers : ValidateStart(w, t))
    /\ SF_vars(\E w \in Workers : SampleStart(w))
    /\ \A t \in Tries : WF_vars(ReviseArm(t))
    /\ WF_vars(SettleStep)
    /\ WF_vars(ReconcileStep)
    /\ WF_vars(WindowElapses)

FairSpec == Spec /\ Fairness

-----------------------------------------------------------------------------
(* Nothing reaches "accepted" unless a human reviewed it just before, even *)
(* when the coverage draw would have left it out (pool-lifecycle.ts        *)
(* runPoolSamplingJob, validation.ts).                                     *)
OnlyHumansAccept ==
    [][\A i \in Items : status[i] # "accepted" /\ status'[i] = "accepted"
          => status[i] = "in_audit" \/ <<i, "accept">> \in verdicts]_vars

(* The stored counter never understates the slots in use, so the intake    *)
(* check and claimPoolAcceptanceSlot never admit past the target           *)
(* (pool-lifecycle.ts, submission-acceptance.ts).                          *)
CounterCovers == acceptedItems >= Slots(status)

(* Unless a ruling brings an item back, the slots in use never exceed the  *)
(* target, however intake checks, slot claims, recounts, reopenings,       *)
(* revisions and the sampling draw interleave (pool-lifecycle.ts           *)
(* claimPoolAcceptanceSlot, submission-acceptance.ts).                     *)
TargetHeld == filed = 0 => Slots(status) <= Target

(* The stored counter is the number of slots in use.  The source says that *)
(* this cannot be lost ("every transition now recounts inline, so new      *)
(* drift cannot be created", pool-lifecycle.ts                             *)
(* reconcileOpenCommunityPools); it can, as follows.                       *)
CountersMatch == acceptedItems = Slots(status)

(* What a dispute takes out of its slot, and a call to revise that was     *)
(* checked before its item won one.                                        *)
LeavesUncounted(i) ==
    /\ status[i] \in HoldsSlot
    /\ \/ disputes'[i] > disputes[i]
       \/ revise[i] # "idle" /\ revise'[i] = "idle"

(* The job of an item that has its slot ends: a replay, or a late one.     *)
ReplaysCounted(w) ==
    /\ pc[w] = "validating" /\ pc'[w] # "validating"
    /\ snap[w] \/ status[ItemOf(w)] \in HoldsSlot

(* The stored counter drifts from the slots in use by these steps alone;   *)
(* every other transition recounts, or counts what it changes              *)
(* (pool-lifecycle.ts reconcileOpenCommunityPools, submission-acceptance.ts*)
(* recomputeAcceptedItemCounters).                                         *)
DriftHasACause ==
    [][CountersMatch => \/ CountersMatch'
                        \/ \E i \in Items : LeavesUncounted(i)
                        \/ \E w \in Workers : ReplaysCounted(w)]_vars

(* An item that waits for the draw in a closed pool is drawn, or its pool  *)
(* opens again (pool-lifecycle.ts enqueuePoolSampling, runPoolSamplingJob).*)
WaitingIsDrawn ==
    \A i \in Items : (status[i] = "accepted_pending_sample" /\ closed)
                       ~> (status[i] # "accepted_pending_sample" \/ ~closed)

(* The process died between the write of a revision and its enqueue.       *)
Orphaned(i) ==
    aborts > 0 /\ attempt[i] > 0 /\ <<i, attempt[i]>> \notin todo \cup unsent

(* Every submitted item is decided, whatever job of it dies or is late,    *)
(* but for a revision whose job was never enqueued (submissions.ts         *)
(* reviseSubmission, validation.ts runSubmissionValidation).               *)
JobsDecide ==
    \A i \in Items : status[i] = "submitted" ~> status[i] # "submitted" \/ Orphaned(i)

(* A closed pool settles or reopens unless a dispute about it is open.     *)
ClosedSettles == closed ~> (~closed \/ bounty # "active" \/ OpenDispute)

-----------------------------------------------------------------------------
(* What comments of the source say, and what its steps do not keep.        *)

(* A replayed validation that asks for its slot "never re-decides an       *)
(* outcome this exact attempt already reached" (validation.ts              *)
(* resolvePoolAcceptance): it takes no item back from the people the draw  *)
(* gave it to, nor from its acceptance.                                    *)
VerdictStands ==
    [][\A w \in Workers : pc[w] = "validating" /\ pc'[w] \in {"losing", "closing"}
          => \/ status'[ItemOf(w)] = status[ItemOf(w)]
             \/ status[ItemOf(w)] \notin {"in_audit", "in_sponsor_review", "accepted"}]_vars

(* A validation job decides its item, crashes or not.                      *)
SubmittedIsDecided == \A i \in Items : status[i] = "submitted" ~> status[i] # "submitted"

(* "Only a genuine sponsor 'stop taking contributions now' or an actually- *)
(* reached target settles it for good": a pool its sponsor stopped stays   *)
(* closed (routes/v1/bounties.ts close-pool).                              *)
SponsorStopHolds == [][sponsorClosed /\ closed => closed']_vars

(* "A pool with poolClosedAt set ... takes no more contributions"          *)
(* (services/bounties.ts): intake admits nothing to a closed pool.         *)
ClosedAdmitsNothing ==
    [][closed => \A i \in Items : status[i] = "none" => status'[i] = "none"]_vars

(* "Settle every CLOSED community pool whose dispute-review window has     *)
(* elapsed" (pool-lifecycle.ts settleDueCommunityPools): never an open one.*)
OnlyClosedSettles == [][bounty = "active" /\ bounty' # "active" => closed]_vars

(* "A fresh dispute filed after settlement is rejected by the dispute      *)
(* route" (schema.prisma, disputeCycleSettledAt): a contributor begins     *)
(* none about an item of a settled pool (disputes.ts fileSubmissionDispute).*)
SettledIsFinal ==
    [][bounty # "active" => \A i \in Items :
          status[i] \in Disputable => disputing'[i] <= disputing[i]]_vars

(* "The sampling markers are cleared too" when a pool reopens, lest the    *)
(* sampling job of its next close do nothing (submission-acceptance.ts     *)
(* recomputeAcceptedItemCounters): an open pool is not marked as sampled.  *)
SampledIsClosed == sampled => closed

(* "in_sponsor_review -> accepted keeps the capacity slot": an acceptance  *)
(* by the sponsor never takes a new one (routes/v1/bounties.ts).           *)
AcceptKeepsSlots ==
    [][\A i \in Items : <<i, "accept">> \in verdicts \ verdicts'
          => Slots(status') = Slots(status)]_vars
=============================================================================
