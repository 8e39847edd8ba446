# A verification of Databounty's contribution pipeline

Databounty runs *community pools*: a sponsor asks for a number of dataset items,
contributors submit them, queued jobs validate them, people review them, and the
pool closes, settles and is published. This directory holds TLA+ models of the
parts of the API process that decide what happens to an item and to a pool, TLC
configurations that check them, and TLAPS proofs of what must hold for every
size of the system. Paths below are relative to `src/apps/api/src/`.

## 1. Inventory

| part | state | operations | how it meets the others |
|---|---|---|---|
| **Job queue** `services/jobs.ts`, loop in `worker.ts` | `job_queue` rows: status, attempts, `nextAttemptAt` (run-after, backoff and lease in one) | `enqueue`, `claim`, `complete`, `fail`; the claim-plan loop | every asynchronous step below is a row; producers enqueue inside or after their transaction |
| **Validation** `services/validation.ts` | submission status, `pendingHumanReview`, result rows per attempt | `runSubmissionValidation` | started by the queue; takes a capacity slot; closes the pool |
| **Pool lifecycle** `services/pool-lifecycle.ts`, `submission-acceptance.ts` | `acceptedItems`, `poolClosedAt`, the dispute window, sampling markers, bounty status | slot claim, recount, close, reopen, sampling, reconcile, settle | called by validation, audit, sponsor, dispute routes and two sweeps; hands over to publication |
| **Submissions** `services/submissions.ts` | rows, attempt and revision numbers, dedupe keys | intake (three entry points), revise, rerun | enqueues validation |
| **Sponsor routes** `routes/v1/bounties.ts` | `sponsorClosedAt`, verdicts | sponsor-review, close-pool | recount, sampling |
| **Human audit** `services/audits.ts`, `audit-lifecycle.ts`, `audit-routing.ts` | windows, memberships, claims with deadlines, verdicts | claim, decide, release overdue, reopen an item | sampling creates windows; verdicts recount the pool; disputes reopen items |
| **Disputes** `services/disputes.ts`, `sponsor-evidence.ts`, `routes/v1/admin.ts` | dispute rows, submission status | file (contributor, sponsor), resolve (admin) | blocks settlement; sends items back to audit |
| **Karma** `services/karma.ts`, `karma-holds.ts` | events, pending awards | award or hold in the accepting transaction, release when due | its clocks are the item's acceptance and the pool's dispute window; the sweep is a queue job |
| **Publication** `services/community-publish.ts`, `routes/v1/admin-community.ts` | a status per target, one of the bounty; what the provider shows | publish and unpublish jobs, the admin's review, publish and retract, attestation | the settlement hands over to it; two jobs that may overlap |
| **Uploads** `routes/v1/upload-review-drafts.ts`, `services/artifacts.ts`, `services/jobs/*` | artifact, its parse cursor; draft, its submit cursor; draft rows | slot, completion, scan, attach, parse, submit, cancel, ingest, suspension | three queue jobs in a row; the ingest creates submissions in a pool that fills meanwhile |
| **Notifications** `services/notifications.ts`, `services/notifications/worker.ts` | notifications, a delivery row per channel with lease and backoff | record, dispatch tick, claim, send, back off, dead-letter, requeue, channel switches | recorded by every part above; no queue row, each process ticks |
| **LLM layer**, **execution**, **MCP and OAuth**, **watchdog**, accounts, settings, read models, front ends | see `PROJECT.json` | | |

What is hard about it: no statement sequence of the queue is transactional; job
handlers are replayed after a crash, on state that has moved on; several
transactions read without a lock what they later write on; the same pool
columns are written by nine code paths; two sweeps act on lists they read
earlier; and an item may be revised, rerun, disputed, re-audited and re-decided
while the pool closes, reopens and settles under it. `PROJECT.json` "hazards"
lists each at its line, with the property that watches it.

What makes each part correct:

- *Job queue.* One handler per job at a time; an arm is never buried by a late
  outcome, and a job of a later claim-plan entry is held up only by work ahead of
  it; a job ends done or, its budget spent, dead.
- *Pool.* The stored counter never understates the slots in use, and the slots
  never exceed the target; the two part by named steps only; only a person's
  verdict accepts an item; a closed pool settles or reopens.
- *Submissions.* A submitted item that has a job is decided.
- *Human audit.* A validator's running claims stay within its cap; the first
  verdict on an item stands; the audit item agrees with the submission; a fully
  decided window settles; an abandoned one comes back; a miss is charged once.
- *Karma.* An award is paid once, not before its window is over; no award is lost,
  and what an accepted item earned is released.
- *Publication.* What is shown as retracted is not public; the bounty is
  retracted only with all its targets, and published only with something to see;
  a requested publication or withdrawal is answered for every target.
- *Uploads.* What is reviewed is the whole file; every usable row becomes one submission or none, over all retries;
  the draft says truly how it ended; a revoked draft ingests nothing more; a
  parse or an ingest that was asked for ends.
- *Notifications.* One dispatcher sends a message at a time; a second copy has a
  cause that at-least-once delivery admits; they go out in order; a notification
  is done only when its deliveries are settled, and every delivery ends.

## 2. Modules

    JobBoard  <--refined by--  JobQueue  ---  JobQueue_proofs
       |                          |
       |                      (its EveryArmRuns bounds the fairness of job starts in)
       |                          v
       |                     PoolLifecycle  ---  PoolLifecycle_proofs  <--  PoolCapacity_proofs
       |                          |
       |                      (its AuditDecide and Resolve stand for a whole audit, opened in)
       |                          v
       |                     AuditWindow  ---  AuditWindow_proofs
       |
       |--INSTANCE--  Publication  ---  Publication_proofs
       |                 (from PoolLifecycle's settlement on)
       |--INSTANCE--  UploadDraft  ---  UploadDraft_proofs
                         (up to PoolLifecycle's intake)

    KarmaHolds  ---  KarmaHolds_proofs     (what PoolLifecycle's acceptances earn)
    Deliveries  ---  Deliveries_proofs     (what all of them notify)

Each `MC` module instantiates one of them for TLC. The two arrows under
`JobQueue` are arguments, not INSTANCEs: the modules abstract different rows of
the database. `Publication` and `UploadDraft` compose with the queue through
what it promises: they instantiate `JobBoard`, their handlers start with
`Board!Take` and end with `Board!Finish` or `Board!Fail`, a producer's enqueue
is `Board!Arm`, and a death is `Board!Abandon`. Three theorems make this sound:
`QueueImplementsBoard` from below, `PublicationUsesBoard` and `UploadUsesBoard`
from above.

**JobBoard** is what the queue promises: a job is armed, taken by one worker,
and ends. **JobQueue** is the code: one action per SQL statement.

| code | action |
|---|---|
| `enqueue`: `findUnique` / `updateMany` / `create` / its `catch` | `EnqueueRead` / `Rearm`, `RearmSkipped` / `Create` / `CreateConflict` |
| `claim`: `findFirst` / `updateMany` | `ClaimRead`, `ClaimNone` / `ClaimWrite`, `ClaimLost` |
| `complete` | `Complete` |
| `fail`: `findUnique` / `update` | `HandlerThrows` / `FailWrite` |
| a process that dies, an outcome write that only logs its error | `Lapse` |
| a run-after time, backoff or lease that passes | `ClockPasses` |

`nextAttemptAt` is kept as two bits: `due` (it is in the past) and, per worker
that has read the row, `ripe` (it is before that worker's own `now`, the value
the guard of `claim`'s `updateMany` uses). Any write of `nextAttemptAt` clears
`ripe` for the readers of that row. A lease outlasts the handler it was given
to: `ClockPasses` waits for the holder to be gone. This is the one timing
assumption of the module; `LEASE_BY_TYPE` in `worker.ts` is sized for it, and
`complete` and `fail` carry no token that would make it unnecessary.

**PoolLifecycle** is one pool with its items. A queue job is an element of
`todo` (an item and an attempt) or the state of `sampleJob`; a crash (`Abort`)
forgets the worker's place and leaves the job to be run again.

| code | actions |
|---|---|
| `createBountyPoolItems` (and the two other intake functions, same shape) | `IntakeCheck`, `IntakeCreate` |
| `runSubmissionValidation` | `ValidateStart` (the one read of the row), `ValidateFails`, `ValidatePasses` (slot and status, one transaction), `RecordLoss`, then the close check, `ValidateAck` |
| `checkAndClosePoolIfTargetReached` | `CloseRead`, `CloseClaim`, `CloseArm` |
| `recomputeAcceptedItemCounters` | operator `Recount`, part of every transaction that calls it |
| `runPoolSamplingJob` | `SampleStart`, `SampleRead`, `SampleDraw`, `SampleAck` |
| `reconcileOpenCommunityPools` | `ReconcileList`, `ReconcileRecount` |
| `settleDueCommunityPools` | `SettleRead`, `SettleCount`, `SettleReopen`, `SettleWrite`, `SettlePublish`, `SweepCrash` |
| `submitAuditDecisions`, one item | `AuditDecide` |
| sponsor-review route | `ReviewCheck`, `ReviewWrite` |
| close-pool route | `SponsorClose` |
| `reviseSubmission` | `ReviseCheck`, `ReviseClaim`, `ReviseWrite`, `ReviseArm`, `ReviseCrash` |
| `rerunSubmissionValidation` | `RerunCheck`, `RerunWrite` |
| `fileSubmissionDispute`, `disputeAcceptedSubmission` | `DisputeCheck` (`ContributorDisputes`, `SponsorDisputes`), `DisputeFile` |
| dispute resolution route | `Resolve` |

A transaction is one action unless it reads, without a lock, what a later
statement of it relies on (`runPoolSamplingJob`, settle, rerun); a route that
checks before its transaction is always two. `Recount` takes `FOR UPDATE` on
the bounty row, as the slot claim does, so the two serialise in the code and
are atomic here.

**AuditWindow** opens the box that `PoolLifecycle` draws around a review: the
windows a draw has created, the claims on them, and decisions whose transactions
overlap. It keeps of a submission only the statuses an audit moves between.

| code | actions |
|---|---|
| `claimAuditWindow`: the read / the lock and the count / the guarded `updateMany` | `ClaimCheck` / `ClaimCount` / `ClaimTake` |
| `submitAuditDecisions`: the read / the status updates / the count of what is left / the rest and the commit / a timeout or deadlock | `DecideCheck` / `DecideApply` / `DecideCount` / `DecideCommit` / `DecideAbort` |
| the 24 hours of a claim | `DeadlinePasses` |
| `releaseOverdueAudits`: the list / one transaction per claim | `SweepRead` / `SweepRelease` |
| `fileSubmissionDispute`, `disputeAcceptedSubmission` | `DisputeCheck` (`ContributorDisputes`, `SponsorDisputes`), `DisputeFile` |
| dispute resolution with `reopenAuditItemForReview` / a rejection | `ResolveUpheld` / `ResolveRejected` |

Three locks of the database carry it. The *advisory lock* of a validator is held
from `ClaimCount` to `ClaimTake`. The *submission rows* a decision has updated
(`won`) stay locked, and their new statuses unseen by others, until the commit;
who wants one of these rows waits (`RowsHeld`). The *bounty row* is locked by the
recount of a request that won something, before it counts what is left
(`BountyRowFree`), so the second of two requests counts after the first has
committed. A request that won nothing makes no recount and waits for nobody.

`DecideApply` takes all its rows at once: a partial acquisition would only add
deadlocks, which PostgreSQL ends by undoing one side, and that is `DecideAbort`.
`claims` counts the claims of a window, so that "the same overdue deadline" (the
guard of the sweep's update) is a comparison of claims; `lapsed` is a history.

Two things the module makes visible: `reopenAuditItemForReview` promises to keep
the owner of a partly decided batch (`audit-routing.ts:60-62`), but nothing writes
`AuditBatch.validatorUserId`, so it always returns the window to the pool; and an
overdue claim kept by the sweep has no deadline any more, counts again, and may
put a validator over its cap, which is why `CapacityHeld` speaks of running
deadlines.

**KarmaHolds** is one pool's items, each worth one award, and a clock.

| code | actions |
|---|---|
| audit decision or sponsor review, down to `awardOrHoldAcceptedItemKarma` | `AcceptCheck`, then `AcceptHold` (a hold, or nothing for an item already paid), or `AcceptAward` and `AcceptCreate` (look for the event, create it), or `AcceptLost` |
| `releaseDueKarmaHolds`: candidates and pool clocks / acceptances / per award, claim and look / event | `SweepList` / `SweepDates` / `SweepClaim` / `SweepCreate` |
| a process that dies in a sweep | `SweepCrash` |
| flag, dispute, rulings | `Flag`, `Dispute`, `RuleUpheld`, `RuleRejected` |
| close and reopen of the pool, the admin's switch, time | `ClosePool`, `ReopenPool`, `ToggleHolds`, `Tick` |

`awardKarma` looks for the event and creates it in two statements of one READ
COMMITTED transaction, so two transactions may both look in vain; the unique
index then aborts the later one, which for an acceptance undoes the acceptance
and for a sweep ends the sweep. A row a transaction has updated makes others
wait (`RowFree`, `HoldFree`).

**Publication** is one dataset and its two targets.

| code | actions |
|---|---|
| `runCommunityPublishJob` | `PublishStart`, `PublishDisabled`, per target `PushUnconfigured`, `Push`, `PushFails`, `PushRefused`, `PushRecord`, `MarkFailedRead`, `MarkFailedWrite`; `PublishRollup` |
| `runCommunityUnpublishJob` | `UnpublishStart`, per target `Withdraw`, `WithdrawFails`, `WithdrawRefused`, `WithdrawRecord`; `UnpublishRollup` |
| the publication route | `Check`, then `Review`, `Publish` or `Retract`; `EnqueuePublish`, `CallerDies` |
| settlement's hand-over, attestation | `Settle`, `Attest` |
| a handler's return or throw, a worker's death | `JobEnds`, `WorkerDies` |

`live` is what the public sees; a call to a provider that fails for now or for
good may have taken effect (`MayTakeEffect`).

**UploadDraft** is one source file and one draft.

| code | actions |
|---|---|
| `createUploadReviewDraft` | `Create` |
| `completeUpload`, source-complete | `CompleteCheck`, `CompleteClaim`, `CompleteRefuses`, `EnqueueScan`, then `Attach` |
| attach-source | `AttachCheck`, `Attach`, `AskForParse` |
| submit / cancel routes | `SubmitCheck`, `SubmitClaim`, `AskForIngest` / `CancelCheck`, `Cancel` |
| suspension, the purge of expired slots, ten minutes | `Suspend`, `Purge`, `GoStale` |
| `runArtifactScanJob` | `ScanStart`, `ScanRejects`, `ScanClears`, `ScanFollows` |
| `runBulkSourceParseJob` | `ParseStart`, `ParseReads`, `ParseChunk`, `ParseContinues`, `ParseEnds`, `ParseRejects`, `ParseRejectsDraft` |
| `runUploadDraftSubmitJob` | `IngestStart`, `IngestReads`, `IngestFindsClosed`, `IngestChunk`, `IngestRolledBack`, `Finalize` |
| return, throw, deaths | `JobEnds`, `JobThrows`, `WorkerDies`, `RequestDies` |

The room of the pool is an input of `IngestReads`: other contributors fill and
free it at any time, so it may be anything at every read.

**Deliveries** is the outbox of one user.

| code | actions |
|---|---|
| `notify`, `createDeliveryIntents` | `Record` |
| `dispatchPendingNotifications`, one user | `Tick` (clock and oldest candidate), `ReadChannels`, `Finish` |
| `dispatchChannel` | `Look`, `Claim`; in its `try`: `Accept` and `WriteSent`, or `AnswerLost`, `HealthWriteFails`; its `catch`: `Fails`, `Close` |
| lease and backoff times | `Elapse` |
| mute, disconnect, connect | `Switch` |
| the admin's retry: the check / the write by id | `RequeueCheck` / `RequeueWrite` |
| a process that dies, a statement outside the `try` that fails | `Crash`, `StatementFails` |

As in `JobQueue`, a time is two bits: `past`, and per tick `due` (past at that
tick's own `now`, the value its guards use). A lease that passes under a
dispatcher that is still sending is a fault and is counted as one.

The `try` of `dispatchChannel` spans the send, the write of `sent` and that of the
channel's health, and its `catch` treats whatever was thrown as a refusal. So an
adapter that throws although the provider accepted (a webhook's timeout, a body
that breaks off) or a write of `sent` that fails is `AnswerLost`, and a failed
health write is `HealthWriteFails`, where the row says `sent` already; both lead
to the catch, which writes `failed` or `dead` over the row. The file header calls
the delivery at-least-once and names one cause of a second copy, a crash after
the acceptance; these are two more. `StatementFails` is a failure outside the
`try`, the ones of the catch included: the notification is not done and the row
stays as it is. It simplifies one thing: in the code the tick may end before the
other channels do, and the same process may tick again meanwhile; here that second
tick is the other dispatcher's.

The *fault variants* beside some operators are plausible bugs of the same code;
each property of a passing run is violated once the named operator is replaced
by its variant (`PROJECT.json` "mutants").

## 3. Runs

| run | properties | what it shows |
|---|---|---|
| `queue` | OneHolder, ArmKept, DeadOnlyWhenSpent, ImplementsBoard, EveryJobSettles, EveryArmRuns | Two workers and two producers on two jobs of different claim-plan entries, with a crash or a lost outcome write and any number of arms: one handler at a time, no arm buried, dead-lettering only of a spent budget, every step a step of the abstract board; under the loop's fairness every job settles once the producers rest, and while they do not an armed job that is due is started unless rows ahead of it come due again and again. |
| `pool_dispute` | CounterCovers, OnlyHumansAccept, DriftHasACause | Two items race for one slot of a pool its sponsor reviews through requests that race, with a crash or thrown handler at any step and a dispute filed and ruled: the counter covers the slots in use, a replay included; people alone accept; and the counter parts from the slots only by a dispute, a revision that outlived its check or the validation of an item that has its slot. |
| `pool_revise` | TargetHeld | Revisions and reruns of two items race for one slot with validation, closing, sampling, audit and both sweeps, in a pool its sponsor may stop: the slots in use never exceed the target. |
| `pool_recovery` | JobsDecide, ClosedSettles | One item, revised and rerun, and one crash anywhere (between a close and its sampling job, in a handler, between a revision and its job): every job still decides its item, and the sweeps bring a closed pool to a settlement or a reopening. |
| `audit_windows` | CapacityHeld, NoSilentHold, RecordAgrees, DecidedIsSettled, DecisionStands | Two validators and two overlapping requests on two windows, with lapsing deadlines, the sweep, a dispute and its ruling: caps hold, the first decision stands, audit items agree with submissions, and a window whose last items are decided at once still settles. |
| `audit_sweeps` | MissedOnce, AbandonedReturns | Two overdue sweeps over one window that is claimed, left, decided, disputed and claimed again: nobody is charged a deadline twice, and under fair clocks and sweeps an abandoned window returns to the pool. |
| `karma_sweeps` | PaidOnce, AwardNotLost, NotBeforeWindow, HeldIsReleased | Two release sweeps, an acceptance in flight, a dispute and its ruling, a pool that closes and reopens, holds switched on and off, a sweep that dies: an item is paid once, never inside the window of its acceptance, no award is lost, and the hold of an item that stays accepted is released in the end. |
| `publication` | WithdrawalConfirmed, RollupComplete, PublishedIsPublic, PublicationAnswered, RetractionAnswered | Publish and withdrawal jobs over two targets with lost provider answers, retries, a death, and the admin's requests between them: a target is retracted only when it is private, the bounty only when no target is left, it becomes published only with something to see, and a queued publication or withdrawal is answered for every target. |
| `uploads` | IngestAgrees, HonestEnd, ReviewIsWhole, RevokedIsFrozen, SourceIsStored, IngestEnds | Two requests in flight and three jobs on a source of three rows with a bad one, with a death, throwing handlers, cancels, a suspension and a pool that fills or closes: only a whole file is reviewed, every row becomes one submission or none, the draft says truly how it ended, and neither parse nor ingest gets lost. |
| `deliveries` | OneSender, SentOnce, DoneIsSettled, InOrder, IntentsSettle | Two dispatchers, two channels (one of which refuses messages) and two notifications, with one crash, overrun lease, lost answer, failed statement, switched channel or requeue: one sender at a time, no second copy without a cause, done means settled, the order is kept, and every intent ends. |

The type invariants are theorems (section 5) and take no run of their own.

Two runs are expected to fail, where the code does not do what its own comment
says (`PROJECT.json` "findings" quotes both; section 4 has the others):

| run | property | what happens |
|---|---|---|
| `uploads_long` | SourceIsParsed | A parse that has spent the budget of its run enqueues itself while its own queue row is `processing`, which `enqueue` leaves alone: the rest of the source is never read. |
| `pool_replay` | VerdictStands | A worker dies after its item won the slot and before it acknowledged the job; the pool closes and the draw hands the item to an auditor; the replay no longer finds it waiting for the draw, asks for the slot the item itself fills, and rejects it. |

### Bounds

- *Queue.* Two workers and two producers show every race of two two-statement
  claims and two enqueues; two jobs in different claim-plan entries make the
  plan matter. Producers arm without a bound, so an entry may always have work.
  `MaxLapses` 1 lets a row be abandoned. `MaxAttempts` is 2 instead of 5, so that
  both a retry and a dead letter happen.
- *Pool.* Two items for one slot are the smallest race for capacity. One
  revision, one dispute and one crash each are enough to send an item round the
  pipeline a second time. `MaxRevisions` 1 makes the cap reachable. No run has
  all three at once; what the mixtures do is listed below.
- *Audit.* A window of two items is the smallest that can be partly decided; the
  second window (one item, which one validator may not audit) is what makes a cap
  of one claim bind. Two requests are enough for every race of two clients, or of
  one client's two clicks. A window claimed twice is one a sweep may list under
  its first claim and meet under its second, so `audit_sweeps` gives a window two
  claims and two sweeps.
- *Karma.* Two items, one audited and one reviewed by the sponsor, `Limit` 1 and
  a window of one tick: a hold can stand behind another, and the clock can pass
  the window between a sweep's read and its payment. Three ticks let an item be
  accepted, sent back and accepted again with its second window still inside the
  bound (`Accepted` and `ClosePool` keep a window's room before `MaxNow`, or
  nothing could ever become due).
- *Publication.* Two targets and two events (requests, attestations, deaths):
  publish and retract, retract twice, retract and a death. `MaxAttempts` 2 gives
  every job a retry and a dead letter.
- *Uploads.* Three rows, the middle one bad, chunks of one row and two rows per
  run: chunks, a bad row between two good ones, and a parse longer than its
  budget. A chunk cut short by the pool's room needs longer chunks: only the
  theorems `IngestIsExact` and `EndIsHonest`, for any chunk size, cover it. Three requests are a completion, a submit and a cancel; one death.
- *Deliveries.* Two notifications are the smallest order, two channels the
  smallest fan-out, two attempts give a retry and a dead letter; one fault of
  any kind at any moment (`MaxFaults` 1). The dispatchers are alike, so the one
  that dies, is late or fails may be fixed (`Mortal`).
- Histories behind the bounds (`lapses`, `filed`, `aborts`, `claims`,
  `takenOver`, `unrecorded`, `rewritten`, `requeued`, `switched`, `sentBack`,
  `crossed`, `unasked`) appear in guards and
  in the statements that name their exceptions (below), never in what the code's
  actions compute; `claims` is the one that a guard of the code reads, as the
  sweep's comparison of deadlines.

### Fairness

The queue loop never exits and time passes: weak fairness of a worker's step and
of `ClockPasses`. No fairness of producers or of `Lapse`. In the pool, handlers
end, the sweeps run on their timers and windows elapse (weak fairness); an armed
job is eventually started although workers may be busy with others (strong
fairness of the starts). That last one is an assumption about the load, not a
promise of the queue: the loop goes back to the top of its plan after every job
(`worker.ts:398-410`; its comment gives the longest leases "first refusal on each
tick", `:180-186`), so an entry that always has work starves the ones after it
(`NoEntryStarves`, section 4). `EveryArmRuns` shows that nothing else delays a
job, so the assumption is that the work ahead runs out again and again. In
the audit, deadlines pass and the sweep runs on its timer (weak fairness). In
the four modules below them: release sweeps and time (`KarmaHolds`), the workers'
steps (`Publication`), the workers' steps and requests that have begun
(`UploadDraft`), each process's ticks and each lease's or backoff's time
(`Deliveries`), all weak. A process that dies is never fair.
Nothing is assumed of contributors, validators, sponsors or administrators, so
no property promises that a reviewer decides.

`CHECK_DEADLOCK FALSE` in the configurations other than the queue's:
a settled pool, a decided window, a released hold, a published dataset, an
ingested draft and an empty outbox have nothing left to do.

### What the passing runs leave out, on purpose

Some hazards need several faults at once, and the properties above do not
survive every mixture. Each passing run states its mix; these are known to fail:

- a revision, a dispute and a crash of one item together defeat `CounterCovers`
  (a replayed validation trusts a stale `accepted_pending_sample`);
- two workers and a crash defeat `TargetHeld` (the lease passes and a replay
  reads the row before the first run's win commits) and `CounterCovers` (a replay
  reads the item as waiting for the draw, and another worker draws it meanwhile);
- two sponsor verdicts in flight defeat `TargetHeld` (`AcceptKeepsSlots` of
  section 4 is the cause), so `pool_revise` has validators; the verdicts race in
  `pool_dispute`;
- a second attempt of an item (`MaxAttempt` 2) adds the rerun that overtakes a
  revision (section 4, `CountersMatch`). `MaxAttempt` 1 is enough for every race
  of a rerun or a revision with a validation;
- the counter does leave the slots in use (section 4, `CountersMatch`).
  `DriftHasACause` lists the steps that may do it, and is proved for every value
  of the constants; how far and how long the counter is wrong it does not say;
- a replayed validation does decide an item again (`pool_replay`), and
  `CounterCovers` holds in spite of it;
- `JobsDecide` excepts a revision whose enqueue a crash lost (`Orphaned`; section
  4, `SubmittedIsDecided`). The pool of `pool_recovery` is reviewed by validators:
  the sponsor's review is the same to a validation job, and its verdicts stand
  between an item and a settlement as an audit does;
- `EveryArmRuns` excepts a job behind rows that come due again and again; without
  the exception it is `NoEntryStarves` (section 4);
- an upheld dispute may push the slots over the target, by design of the route:
  `TargetHeld` speaks of pools without disputes;
- `WaitingIsDrawn` holds without an early close and without crashes, but only
  because settlement may reopen the pool;
- two disputes of one item at once defeat `DecidedIsSettled` and
  `AbandonedReturns`: a second filing, checked before the first was ruled on, takes the item out of
  review again, and an empty-handed decision settles a reopened window
  (`SettledIsDecided` of section 4). `CapacityHeld`, `NoSilentHold`,
  `RecordAgrees` and `DecisionStands` hold with two disputes as well;
- `NotBeforeWindow` excepts items a ruling sent back (section 4);
- `WithdrawalConfirmed`, `RollupComplete` and `PublishedIsPublic` except a
  withdrawal that overlaps a push or an attestation (`crossed`, section 4);
- `SourceIsStored` excepts a parse whose owed enqueue was lost with its process
  (`unasked`), and `IngestEnds` starts from an ingest that was enqueued;
- both except a job that was given up as dead, `SourceIsStored` also when the draft
  was made over a scanned source whose parse was dead already, and a source
  longer than one run's budget (`uploads_long`);
- `PublicationAnswered` and `RetractionAnswered` ask less than "this request was
  answered by this job": a `lastError` of an earlier run, or a row that was
  published already, answers too; and a job given up as dead answers although it
  leaves no record, which `community-publish.ts:936-938` (a transient failure
  becomes "a recorded failure once the job's retry budget is exhausted") and
  `:989-991` (any throw leaves the row published "and `lastError` records why")
  promise, since only permanent errors are written;
- `OneSender` excepts a row whose lease passed under its sender or that an admin
  requeued (`takenOver`, `requeued`); `SentOnce` these and one whose acceptance
  went unrecorded (`unrecorded`). So that overlapping dispatchers never send twice is
  shown in the sense of at-least-once delivery, no more;
- `DoneIsSettled` and `InOrder` except a row whose lease passed under its sender,
  that was requeued, that a catch rewrote after it said `sent`, or whose channel
  was switched (`Stirred`); `IntentsSettle` requeued rows, switched channels, and what waits
  behind a row on a channel that is off (`Blocked`);
- `InOrder` is about the order in which `createdAt` ranks the notifications;
  `Record` lets them be committed in that order. Two transactions that record for
  one user may commit the other way round, and then the later one may go first.

## 4. What comments promise and the steps do not keep

The modules state these properties beside the others, quoting the comment, and
TLC finds each of them violated. To see the trace, put the property in place of
the ones of the named configuration, with the constants changed as shown;
`PoolStop` stands for `PoolDispute` with `Covered = TRUE`, `SponsorCloses = TRUE`,
`MaxDisputes = 0` and `MaxAborts = 0`.

| property | configuration | what the code does | what its comment says |
|---|---|---|---|
| `BoundedRetries` | `Queue`, `MaxLapses = 3` | `claim` takes an abandoned row again without comparing `maxAttempts` (`jobs.ts:366-381`); only `fail`, which a dead worker never calls, compares | "bounded retries and a terminal dead-letter state" (`docs/architecture.md:147-149` of the repository) |
| `NoEntryStarves` | `Queue` | after every job the loop starts again at the top of the claim plan (`worker.ts:395-410`), so an entry whose jobs keep being armed is served for ever and a later one never | no comment denies it: the longest leases "get first refusal on each tick" (`worker.ts:180-186`); it is what the fairness of section 3 has to assume away |
| `SponsorStopHolds` | `PoolStop` | a recount under the target clears the close and the settlement, the sponsor's own close with them (`submission-acceptance.ts:190-219`) | a sponsor's close "does not get silently undone by a later capacity recount" (`schema.prisma:1468-1470`) |
| `SubmittedIsDecided` | `PoolRecovery` | a revision and its job are two commits (`submissions.ts:1153-1164`, `:1191-1195`): a crash between them leaves a submitted item that no job will decide | `enqueue` without the transaction is for when "the producer genuinely has nothing to be atomic with" (`jobs.ts:216-219`) |
| `ClosedAdmitsNothing` | `PoolStop` | intake looks at the status and the counter only (`submissions.ts:263-271`), so a pool closed under its target admits items | "A pool with poolClosedAt set has hit its target and takes no more contributions" (`services/bounties.ts:409-410`) |
| `CountersMatch` | `PoolStop`, `MaxDisputes = 1` | a sponsor's dispute moves an accepted item out of the counted set without a recount (`sponsor-evidence.ts:404`) | "Every transition now recounts inline, so new drift cannot be created" (`pool-lifecycle.ts:257`) |
| `CountersMatch` | `PoolStop`, `MaxAttempt = 2` | a revision writes by id alone, without a recount (`submissions.ts:1153-1164`): a rerun that takes the item after the revision's claim may win a slot, which the write takes back | the same line |
| `OnlyClosedSettles` | `PoolStop` | the settle sweep's write checks neither `poolClosedAt` nor the sponsor's close (`pool-lifecycle.ts:485-488`), so it settles a pool that reopened after it was listed | "Settle every CLOSED community pool whose dispute-review window has elapsed" (`pool-lifecycle.ts:304`) |
| `SampledIsClosed` | `PoolStop`, three items, `Target = 2` | the sampling claim at `pool-lifecycle.ts:634` does not look at `poolClosedAt`, so a pool that reopened is marked as sampled | a reopening clears the sampling markers, since "leaving them set would make a legitimate future re-close's re-enqueued sampling job silently no-op" (`submission-acceptance.ts:97-101`) |
| `AcceptKeepsSlots` | `PoolStop`, `Covered = FALSE` | the status is checked outside the transaction and written unguarded (`routes/v1/bounties.ts:275-319`): an acceptance may follow a rejection that gave the slot back | "`in_sponsor_review` -> `accepted` keeps the capacity slot" (`routes/v1/bounties.ts:306-308`) |
| `WaitingIsDrawn` | `PoolStop`, `SPECIFICATION FairSpec`, no symmetry | an item that passes after the draw of a pool closed early finds the pool sampled (`pool-lifecycle.ts:618`) | "Resolves every `accepted_pending_sample` item for a closed pool to its real final disposition" (`pool-lifecycle.ts:576-579`) |
| `SettledIsFinal` | `PoolStop`, `MaxDisputes = 1` | `fileSubmissionDispute` looks at the item's status only (`disputes.ts:46-54`) | "A fresh dispute filed after settlement is rejected by the dispute route on window-closed grounds" (`schema.prisma:1453-1456`) |
| `OnlyClaimantDecides` | `AuditWindows` | the claim is checked at `audits.ts:1326`, outside the transaction that decides | "so a second validator can never decide items in a window someone else holds" (`audits.ts:1321-1323`) |
| `SettledIsDecided` | `AuditWindows` | a request that lost every item counts and settles without the bounty lock (`audits.ts:1536-1561`); a ruling may reopen an item between the two | a reopened item's "window is genuinely no longer settled" (`audit-routing.ts:117-118`) |
| `PartialKeepsOwner` | `AuditWindows` | `decidedItems` is counted in the sweep's first read (`audit-lifecycle.ts:68`); a decision that commits in between is released with the claim | "a PARTIALLY decided claim keeps its owner and its immutable decisions" (`audit-lifecycle.ts:17`) |
| `RejectedIsNotPaid` | `KarmaSweeps` | no ruling cancels a hold (`routes/v1/admin.ts:985-1185`; `reverseAcceptedItemKarma` is called by no route), and the sweep looks at neither the item's status nor its disputes, so a rejected item's hold is paid; `HeldIsReleased` asks for no such payment | "a resolved dispute simply means the hold was never released" (`README.md:37` of the repository), `karma-holds.ts:22-25` |
| `NotStarved` | `Deliveries` | a notification whose failed row belongs to a channel switched off meanwhile is done, yet stays its user's oldest candidate for ever (`notifications.ts:876-902`), and no later one is dispatched | "never attempted until the current one reaches a terminal state" (`notifications.ts:868-870`) presumes that it reaches one |
| `RequeuedIsTried` | `Deliveries` | the admin's retry sets the delivery row to pending (`admin-notifications.ts:156-160`); its notification stays done and is no candidate | "This requeues the dead-lettered notification … for delivery" (`apps/admin/app/(dashboard)/notifications/page.tsx:309`) |

The exceptions named in section 3 are places of the same kind; each was met as a
counterexample of the property without the exception. Beyond them:

- *Karma.* A hold of an item sent back to audit is paid on the item's creation
  date, because `acceptedAt` is null then; one in an open dispute is paid too.
- *Publication.* A push that overlaps a withdrawal leaves a target (and the
  bounty) shown as retracted and public; a retried publish undoes a retraction;
  the bounty stays "pending" after a permanent failure of Hugging Face, or after
  a crash between the commit and the enqueue; all targets may be withdrawn in
  several runs while the bounty stays "published"; `markTargetNotConfigured`
  overwrites a published row, which no withdrawal then lists; and a retraction
  asked for while a withdrawal runs is dropped by `enqueue`.
- *Uploads.* A cancel that read the draft before the ingest finished turns a
  submitted draft into a cancelled one; an ingest that waits longer than ten
  minutes can be cancelled under way; a crash between the submit's
  compare-and-set and its enqueue leaves the draft submitting, one between the
  completion's claim and the scan's enqueue leaves the source scanning (the purge
  looks at open slots only); a scan that dies after its verdict never asks for
  the parse; a refused completion may quarantine a source that another one made
  ready; and the count of submitted rows is the last run's only.

## 5. Proofs

`JobQueue_proofs` proves for every set of jobs, workers and producers and every
value of the bounds:

- `TypeCorrect`, `MutualExclusion` (`OneHolder`), `ArmsAreKept` (`ArmKept`),
  `DeadLetters` (`DeadOnlyWhenSpent`);
- `QueueImplementsBoard`: `Spec => Board!Spec`.

The inductive invariant `IInv` adds to the properties: `LeaseHeld` (a row whose
handler runs is `processing` and not due), `BudgetSeen` (what `fail` read is
still the row's), `ReadFresh` (a claimer whose read is still ripe read a row no
one has taken since) and `Unborn` (a missing row has no holder). `OneHolder`
alone is not inductive: the second claimer is stopped by the conjunction of the
lease, which makes the row not due, and of `ripe`, which makes the earlier read
useless. The refinement is step by step: each action is a named board action or
a stutter, under `IInv`.

`PoolLifecycle_proofs` proves `TypeCorrect` and `HumansDecide`
(`OnlyHumansAccept`) for every finite set of items, every number of workers,
crashes, revisions and disputes. The strengthening says that a waiting item is
marked for a person (`WaitingIsMarked`) and that an item whose rerun has cleared
the mark is no longer waiting; the draw takes every marked item, so it never
accepts one by leaving it out.

`PoolCapacity_proofs` is about the capacity of the pool. The counter is moved by
one where a worker wins a slot and recounted nearly everywhere else, so each
theorem says what the worker must still know of its item for this to come out
right. But for the last, none holds without a condition: the theorems state the
conditions, and section 3 the mixtures that break them:

| theorem | condition | concludes |
|---|---|---|
| `FreshReadsCover` | `SnapCounts`: an item a handler read as holding a slot still holds one | `CounterCovers` |
| `CounterIsCovered` | items are validated once (`MaxAttempt = 0`), and no handler fails, or one does and there is one worker (`FewFaults`) | `CounterCovers`, under any disputes, rulings, reviews, closes and sweeps |
| `CalmPoolsCount` | `Calm`: up to the first dispute or failure no rerun overtakes a revision (`NotOvertaken`) and no second verdict of the sponsor follows a first (`VerdictsCurrent`) | the counter is exact up to the first dispute or failure |
| `CalmPoolsHoldTheirTarget` | `Calm`, no failures | `TargetHeld` |
| `ReviewedPoolsCount`, `ReviewedPoolsHoldTheirTarget` | validators review the pool, an item is revised or rerun at most once, no failures (and for the first no disputes) | the same two, with `Calm` proved instead of assumed |
| `OnlyCausesDrift` | none | `DriftHasACause`: an exact counter stays exact but for a dispute about an item with a slot, a call to revise that outlived its check, or the validation of an item that has its slot |

All of them are for any number of items, workers (but for the one worker named)
and revisions and any target. `CounterIsCovered` contains the instance
`pool_dispute` checks, `ReviewedPoolsHoldTheirTarget` the one of `pool_revise`.
`NotOvertaken` and `VerdictsCurrent` are the two places of section 4 where a
write trusts an earlier read, no more. That the counter is exact is false of the
code in general, so no run asks for it; `OnlyCausesDrift` needs no strengthening
beyond the invariant of `PoolLifecycle_proofs`: each of the other steps either recounts or leaves every item in
or out of its slot (`CountsOrSame`), or grants one slot to an item without one.

The strengthening of `CounterIsCovered` (`ReplayInv`) says where an item's job is
while it waits, that nobody else may hold it, and that the item of a replayed
job is still where the first run left it. That of the `Calm` theorems (`CalmInv`)
says that an item which waits for its validation has exactly one job, on the
board or in the hands of one worker, at the item's current attempt (`Work`), and
that a handler's read shows no slot (`SnapNone`). That `Calm` holds in reviewed
pools needs `GateInv`: no item has more revisions than attempts, counting the one
under way (`RevisionsDated`), so a rerun that overtook it would have used up the
only attempt it waits for.

`AuditWindow_proofs` proves for any validators, finitely many windows, any items,
requests, sweepers and disputes, and any cap:

| theorem | property | strengthened by |
|---|---|---|
| `TypeCorrect` | `TypeOK` | nothing |
| `RecordsAgree`, `DecisionsStand` | `RecordAgrees`, `DecisionStands` | `RecordInv`: a row an open transaction won is still in audit (`RowsFresh`), and no two transactions won one row (`RowsApart`) |
| `NoWindowHeldForEver` | `NoSilentHold` | `HoldInv`: a listed claim is an earlier one or has no running deadline (`ListDated`), and one listed as touched is touched as long as it is held (`ListTruthful`) |
| `CapacityIsHeld` | `CapacityHeld` | `CapacityInv`: one claim per validator between count and write (`LockHeld`), and room for it (`RoomLeft`) |
| `DecidedWindowsSettle` | `DecidedIsSettled`, while no item has two disputes under way (`OneDisputeEach`) | `SettleInv`: whoever counted none left counted right (`CountStands`), of the requests that won something one at most is between count and commit (`CountedAlone`), and a window with nothing to decide is settled or about to be (`EmptyIsSettled`) |
| `OneDisputeSettles` | `DecidedIsSettled`, with one dispute in all | `OneDisputeEach` itself, from the number of disputes filed |
| `MissesAreChargedOnce` | `MissedOnce` | `MissInv`: the misses charged and the overdue claims not yet charged together do not exceed the lapses (`Accounted`) |

The two about settled windows assume that a window has an item: the draw makes
windows from the items it drew. The property alone is inductive in none of the
rows. `NoSilentHold`, for one, needs
that what the sweep read cannot be undone under the same claim: a decided item
goes back to audit only through a ruling, and a ruling takes the window from its
holder, so the sweep's comparison of claims fails.

The four modules below them are proved the same way: one inductive invariant per
module, with one step per action.

| module | theorem | property | for every |
|---|---|---|---|
| `KarmaHolds_proofs` | `TypeCorrect`, `ItemsPaidOnce`, `AwardsAreKept`, `WindowIsKept` | `TypeOK`, `PaidOnce`, `AwardNotLost`, `NotBeforeWindow` | finite set of items, requests, sweeps, limit and window |
| `Publication_proofs` | `TypeCorrect`, `WithdrawalIsConfirmed`, `RollupIsComplete`, `PublicationIsShown` | `TypeOK`, `WithdrawalConfirmed`, `RollupComplete`, `PublishedIsPublic` | number of attempts, requests and deaths |
| `UploadDraft_proofs` | `TypeCorrect`, `IngestIsExact`, `EndIsHonest`, `ReviewShowsTheWhole`, `RevokedStaysFrozen` | `TypeOK`, `IngestAgrees`, `HonestEnd`, `ReviewIsWhole`, `RevokedIsFrozen` | file, set of bad rows, chunk size, run budget, requests and deaths |
| `Deliveries_proofs` | `TypeCorrect`, `OneSenderAtATime`, `SentAtMostOnce`, `DoneMeansSettled`, `KeepsTheOrder` | `TypeOK`, `OneSender`, `SentOnce`, `DoneIsSettled`, `InOrder` | number of notifications, channels, dispatchers, attempts and faults |

What strengthens them:

- *KarmaHolds.* A hold belongs to an item accepted in the past (`Earned`), on a
  date not before its first acceptance (`AcceptedSince`); a sweep lists only holds that exist, judged by a
  clock not ahead of the real one (`ListedHeld`), and what it found due is due
  ever after (`DueStays`), which is why its old reads do no harm.
- *Publication.* `RunInv`: a running handler holds its job (`RunsHeld`, from the
  board), overlapping jobs are marked (`Overlap`), what a withdrawal is to record
  is private (`Confirmed`) and every target still published is one it has yet to
  confirm (`Listed`). `PublicationIsShown` adds `Shown`: what a push counts as
  done is public.
- *UploadDraft.* `Account`: the stored rows are those up to the parse's cursor
  (`Stored`), and an ingest's chunk is the first part of what is due
  (`ChunkIsDue`) and knows whether it leaves some behind (`FinalIsTrue`).
  `Verdict`: a draft beyond its review is parsed to the end (`ReadyIsParsed`), an
  ingest at work has a submitting or cancelled draft (`WorksForDraft`), and one
  that does not exist is not revoked (`NothingToRevoke`). The chunks are
  arbitrary lower parts of sets of rows: `FirstOfIsLower` is the lemma about the
  cardinalities the code counts with.
- *Deliveries.* A dispatcher that is sending holds the only lease of its row, or
  the row was taken over or requeued (`LeaseHeld`); what it sends was not accepted
  before, unless by a send that left no record (`AcceptedOnce`), and a send that
  sits in the catch is marked as such a one (`CaughtIsUnrecorded`).
  `OrderInv`: what is older than the notification at hand is done (`OlderDone`)
  and settled on every channel about to be claimed (`OlderSettled`), and a channel
  a dispatcher is through with is settled (`OverIsSettled`).

- *The board.* `PublicationUsesBoard` and `UploadUsesBoard` prove
  `Spec => Board!Spec` of the two modules that run on the queue, and with it that
  a handler at work holds its job (`RunsHeld`, `InHand`): `Board!Finish` and
  `Board!Fail` are never blocked, so no model stops where the code would go on.

Assumptions: the named ASSUMEs of the seven modules and, where a theorem states
them, its own conditions on the bounds; TLC evaluates the ASSUMEs in the runs.
Model-checked only: the liveness properties (`EveryJobSettles`,
`EveryArmRuns`, `JobsDecide`, `ClosedSettles`, `AbandonedReturns`,
`HeldIsReleased`, `PublicationAnswered`, `RetractionAnswered`, `SourceIsStored`,
`IngestEnds`, `IntentsSettle`), since they rest on fairness. Every safety
property of a passing run is stated by a theorem.

## 6. Not modelled

*Pool.* Administrator statuses of a bounty (paused, cancelled), pools without a
target or with unlimited revisions, the settle branch for pools closed by an
earlier version without a window, dead-lettered validation jobs (fewer aborts
than attempts), the arithmetic of the coverage quota and its carry (in the
current code every item that reaches the draw is marked for a person, so the
quota selects from nothing), the packing of windows, licenses, two simultaneous
revisions of one item, two concurrent pool sweeps. `createBountyPoolItems`
stands for three intake functions of the same shape.

*Audit.* Windows superseded by a migration script, windows without a batch and
the one minted for an item whose window is lost, an item in two windows,
revisions of flagged items (they leave the audit through `PoolLifecycle`), the
failure mark of a window, the growth of a rank (`MaxConcurrent` is a constant), a
sweep that fails between two claims, the sponsor's time limit for a dispute.

*Karma.* Prices, tiers and the other sources of karma (requests, publications),
badges and reputation: functions of the events. `reverseAcceptedItemKarma` has no
caller. The sweep's own failures between two awards, other than a death.

*Publication.* The assembly and the upload of the files, the catalogue's read
model, bundles of other targets.

*Uploads.* Multipart uploads, the similarity and recheck jobs, review links,
artifacts of other kinds, the contents of files and rows, two drafts on one
source.

*Notifications.* Digests: their composition, the flush and the re-check of the
preference (`notifications.ts:917-926`, `:1115-1215`), transports, the linking of
a Telegram account, several users (a tick takes one notification per user). Two
places of the flush are worth a model of their own, which has to stand beside
`Deliveries` because that is already near the size TLC can exhaust. Two flushers
may read different sets of buffered rows, when one is recorded between their
reads: the slower one then does claim a row, although "the loser's updateMany
matches 0 and backs off" (`notifications.ts:1112-1118`), and finds the summary of
the day written, so that the row is done without being in a digest. And the
digest's day is the UTC one while its hour is local (`:1098-1106`), so the two
change at different times.

The parts of the inventory with no module are listed in `PROJECT.json` with the
reason.

## 7. Plan

Done: the queue and its abstract board, the pool, the audit window, holds,
publication, uploads and deliveries, and the theorems of section 5. Next, in
this order:

1. **Submissions**: duplicate keys, the advisory lock and concurrent revisions.
2. **Digests**: two flushers beside an arriving notification, as a second way a
   delivery is settled.
3. Proofs: the counter after a failure with several workers, under the timing
   assumption a lease makes; an abstract pool ("slots are granted, verdicts
   are final, a pool closes and settles") that PoolLifecycle implements.
4. The watchdog and the alerts, the retry layer of the LLM calls.

A run is added for a question the others do not ask. Where a later module asks a
stronger form of one, its run takes the place of the weaker one.
