---------------------------- MODULE Publication ----------------------------
(***************************************************************************)
(* One dataset goes to Hugging Face and GitHub and is withdrawn again: the *)
(* two jobs that talk to the providers, on the promises of the job queue   *)
(* (JobBoard), beside the admin's requests and the settlement of the pool. *)
(*                                                                         *)
(* services/community-publish.ts, the publication route of                 *)
(* routes/v1/admin-community.ts, settleDueCommunityPools.                  *)
(***************************************************************************)
EXTENDS Naturals, FiniteSets

CONSTANTS
    MaxAttempts,   \* maxAttempts of both jobs
    MaxEvents,     \* bound: admin requests and processes that die
    None           \* no target at hand

Targets == {"huggingface", "github"}

Jobs == {"publish", "unpublish"}

(* Which worker runs a job does not matter: its holder has its name.       *)
Workers == Jobs

Callers == {"admin", "settlement"}

ASSUME BoundAssumption ==
    /\ {MaxAttempts, MaxEvents} \subseteq Nat
    /\ None \notin Targets

VARIABLES
    phase, tries, holders,   \* the board: one row per job
    bounty,      \* bounty.publicationStatus
    licensed,    \* bounty.communityLicense is set
    row,         \* target -> DatasetPublication.status, "none" without a row
    lastError,   \* target -> lastError is set
    live,        \* target -> the provider shows the dataset to the public
    run,         \* job -> what its handler has done so far
    call,        \* caller -> where its request stands
    events,      \* admin requests and deaths so far
    crossed      \* history: a push or an attestation met the last withdrawal

boardVars == <<phase, tries, holders>>
rowVars == <<row, lastError, live>>
callVars == <<call, events>>
vars == <<boardVars, bounty, licensed, rowVars, run, callVars, crossed>>

Board == INSTANCE JobBoard

Idle == [pc |-> "idle"]

(* todo: targets to come; at: the one at hand; rows: what the run set out  *)
(* to withdraw; done: pushed or withdrawn; again: one failed for now.      *)
RunType ==
    [pc : {"targets", "record", "mark", "marking", "rollup", "end"},
     todo : SUBSET Targets, at : Targets \cup {None},
     rows : SUBSET Targets, done : SUBSET Targets, again : BOOLEAN]

TypeOK ==
    /\ phase \in [Jobs -> Board!Phases]
    /\ tries \in [Jobs -> Nat]
    /\ holders \in [Jobs -> SUBSET Workers]
    /\ bounty \in {"not_requested", "pending", "manual_review", "published", "retracted"}
    /\ licensed \in BOOLEAN
    /\ row \in [Targets -> {"none", "not_configured", "failed", "published", "retracted"}]
    /\ lastError \in [Targets -> BOOLEAN]
    /\ live \in [Targets -> BOOLEAN]
    /\ run \in [Jobs -> {Idle} \cup RunType]
    /\ call \in [Callers -> {"idle", "review", "publish", "retract", "owed"}]
    /\ events \in Nat
    /\ crossed \in BOOLEAN

(* A pool that never asked to be published.                                *)
Init ==
    /\ Board!Init
    /\ bounty = "not_requested"
    /\ licensed \in BOOLEAN
    /\ row = [t \in Targets |-> "none"]
    /\ lastError = [t \in Targets |-> FALSE]
    /\ live = [t \in Targets |-> FALSE]
    /\ run = [j \in Jobs |-> Idle]
    /\ call = [c \in Callers |-> "idle"]
    /\ events = 0
    /\ crossed = FALSE

Go(c, state) == call' = [call EXCEPT ![c] = state]

(* enqueueCommunityPublish and enqueueCommunityUnpublish: one row each; a  *)
(* running one is left alone.                                              *)
Enqueue(j) ==
    \/ Board!Arm(j)
    \/ phase[j] = "running" /\ UNCHANGED boardVars

-----------------------------------------------------------------------------
(* The admin's request reads the status and refuses what it does not fit.  *)
Check(action) ==
    /\ call["admin"] = "idle"
    /\ events < MaxEvents
    /\ events' = events + 1
    /\ CASE action = "review" -> bounty \in {"not_requested", "pending", "retracted"}
         [] action = "publish" -> bounty # "retracted"
         [] action = "retract" -> \E t \in Targets : row[t] = "published"
    /\ Go("admin", action)
    /\ UNCHANGED <<boardVars, bounty, licensed, rowVars, run, crossed>>

(* request_review writes without looking again ...                         *)
Review ==
    /\ call["admin"] = "review"
    /\ bounty' = "manual_review"
    /\ Go("admin", "idle")
    /\ UNCHANGED <<boardVars, licensed, rowVars, run, events, crossed>>

(* ... and so do start_publishing and retry, which owe the job its arm.    *)
Publish ==
    /\ call["admin"] = "publish"
    /\ bounty' = "pending"
    /\ Go("admin", "owed")
    /\ UNCHANGED <<boardVars, licensed, rowVars, run, events, crossed>>

(* retract writes no status, it only enqueues.                             *)
Retract ==
    /\ call["admin"] = "retract"
    /\ Enqueue("unpublish")
    /\ Go("admin", "idle")
    /\ UNCHANGED <<bounty, licensed, rowVars, run, events, crossed>>

(* The settlement of a licensed pool asks once, by compare-and-set.        *)
Settle ==
    /\ call["settlement"] = "idle"
    /\ licensed
    /\ bounty = "not_requested"
    /\ bounty' = "pending"
    /\ Go("settlement", "owed")
    /\ UNCHANGED <<boardVars, licensed, rowVars, run, events, crossed>>

(* The enqueue after the commit ...                                        *)
EnqueuePublish(c) ==
    /\ call[c] = "owed"
    /\ Enqueue("publish")
    /\ Go(c, "idle")
    /\ UNCHANGED <<bounty, licensed, rowVars, run, events, crossed>>

(* ... which a process that dies in between never makes.                   *)
CallerDies(c) ==
    /\ call[c] # "idle"
    /\ events < MaxEvents
    /\ events' = events + 1
    /\ Go(c, "idle")
    /\ UNCHANGED <<boardVars, bounty, licensed, rowVars, run, crossed>>

(* attestPublication: the admin published by hand, and says so.            *)
Attest(t) ==
    /\ events < MaxEvents
    /\ events' = events + 1
    /\ row' = [row EXCEPT ![t] = "published"]
    /\ live' = [live EXCEPT ![t] = TRUE]
    /\ bounty' = "published"
    /\ crossed' = (crossed \/ phase["unpublish"] = "running")
    /\ UNCHANGED <<boardVars, licensed, lastError, run, call>>

-----------------------------------------------------------------------------
(* The handler of job j stands before its next target; the publish job     *)
(* takes them in order, the withdrawal as the table lists them.            *)
AtTarget(j, t) ==
    /\ run[j].pc = "targets"
    /\ t \in run[j].todo
    /\ j = "publish" /\ "huggingface" \in run[j].todo => t = "huggingface"

Step(j, pc, t) ==
    run' = [run EXCEPT ![j].pc = pc, ![j].at = t, ![j].todo = @ \ {t}]

(* Fault variant: a target that failed for now is forgotten.               *)
SkipForgotten(j, t, transient) ==
    run' = [run EXCEPT ![j].pc = "targets", ![j].at = None, ![j].todo = @ \ {t}]

(* On to the next target.                                                  *)
Skip(j, t, transient) ==
    run' = [run EXCEPT ![j].pc = "targets", ![j].at = None, ![j].todo = @ \ {t},
                       ![j].again = @ \/ transient]

(* The provider's answer is on record.                                     *)
Done(j, t) ==
    run' = [run EXCEPT ![j].pc = "targets", ![j].at = None, ![j].done = @ \cup {t}]

Started(todo, pc) ==
    [pc |-> pc, todo |-> todo, at |-> None, rows |-> todo, done |-> {}, again |-> FALSE]

(* What a provider call that did not return may have done.                 *)
MayTakeEffect(t, shown) == live' \in {live, [live EXCEPT ![t] = shown]}

jobStepUnchanged == <<boardVars, licensed, callVars, crossed>>

(* runCommunityPublishJob starts; while the platform switch is off it      *)
(* throws at once.                                                         *)
PublishStart ==
    /\ Board!Take("publish", "publish")
    /\ run' = [run EXCEPT !["publish"] = Started(Targets, "targets")]
    /\ crossed' = (crossed \/ phase["unpublish"] = "running")
    /\ UNCHANGED <<bounty, licensed, rowVars, callVars>>

PublishDisabled ==
    /\ run["publish"].pc = "targets"
    /\ run["publish"].todo = Targets
    /\ Board!Fail("publish", "publish")
    /\ run' = [run EXCEPT !["publish"] = Idle]
    /\ UNCHANGED <<bounty, licensed, rowVars, callVars, crossed>>

(* markTargetNotConfigured looks at nothing.                               *)
PushUnconfigured(t) ==
    /\ AtTarget("publish", t)
    /\ licensed
    /\ row' = [row EXCEPT ![t] = "not_configured"]
    /\ lastError' = [lastError EXCEPT ![t] = TRUE]
    /\ Skip("publish", t, FALSE)
    /\ UNCHANGED <<jobStepUnchanged, bounty, live>>

(* The provider confirms the push ...                                      *)
Push(t) ==
    /\ AtTarget("publish", t)
    /\ licensed
    /\ live' = [live EXCEPT ![t] = TRUE]
    /\ Step("publish", "record", t)
    /\ UNCHANGED <<jobStepUnchanged, bounty, row, lastError>>

(* Fault variant: a push whose answer is lost counts as one.               *)
PushFailsRecorded(t) ==
    /\ AtTarget("publish", t)
    /\ licensed
    /\ MayTakeEffect(t, TRUE)
    /\ Step("publish", "record", t)
    /\ UNCHANGED <<jobStepUnchanged, bounty, row, lastError>>

(* ... or fails for now, perhaps after it made the dataset public ...      *)
PushFails(t) ==
    /\ AtTarget("publish", t)
    /\ licensed
    /\ MayTakeEffect(t, TRUE)
    /\ Skip("publish", t, TRUE)
    /\ UNCHANGED <<jobStepUnchanged, bounty, row, lastError>>

(* ... or for good; without a license no target is tried.                  *)
PushRefused(t) ==
    /\ AtTarget("publish", t)
    /\ IF licensed THEN MayTakeEffect(t, TRUE) ELSE UNCHANGED live
    /\ Step("publish", "mark", t)
    /\ UNCHANGED <<jobStepUnchanged, bounty, row, lastError>>

PushRecord(t) ==
    /\ run["publish"].pc = "record"
    /\ run["publish"].at = t
    /\ row' = [row EXCEPT ![t] = "published"]
    /\ lastError' = [lastError EXCEPT ![t] = row[t] = "published" /\ @]
    /\ Done("publish", t)
    /\ UNCHANGED <<jobStepUnchanged, bounty, live>>

(* markTargetFailed leaves a published row alone, as it read it ...        *)
MarkFailedRead(t) ==
    /\ run["publish"].pc = "mark"
    /\ run["publish"].at = t
    /\ IF row[t] = "published"
         THEN Skip("publish", t, FALSE)
         ELSE Step("publish", "marking", t)
    /\ UNCHANGED <<jobStepUnchanged, bounty, rowVars>>

(* ... and its write does not look again.                                  *)
MarkFailedWrite(t) ==
    /\ run["publish"].pc = "marking"
    /\ run["publish"].at = t
    /\ row' = [row EXCEPT ![t] = "failed"]
    /\ lastError' = [lastError EXCEPT ![t] = TRUE]
    /\ Skip("publish", t, FALSE)
    /\ UNCHANGED <<jobStepUnchanged, bounty, live>>

(* Hugging Face alone decides the status of the bounty.                    *)
PublishRollup ==
    /\ run["publish"].pc = "targets"
    /\ run["publish"].todo = {}
    /\ bounty' = IF "huggingface" \in run["publish"].done THEN "published" ELSE bounty
    /\ Step("publish", "end", None)
    /\ UNCHANGED <<jobStepUnchanged, rowVars>>

-----------------------------------------------------------------------------
(* runCommunityUnpublishJob lists the published targets; with none it is   *)
(* done, without a look at the bounty.                                     *)
UnpublishStart ==
    LET rows == {t \in Targets : row[t] = "published"} IN
    /\ Board!Take("unpublish", "unpublish")
    /\ run' = [run EXCEPT !["unpublish"] =
           Started(rows, IF rows = {} THEN "end" ELSE "targets")]
    /\ crossed' = (phase["publish"] = "running")
    /\ UNCHANGED <<bounty, licensed, rowVars, callVars>>

(* The provider confirms the withdrawal ...                                *)
Withdraw(t) ==
    /\ AtTarget("unpublish", t)
    /\ live' = [live EXCEPT ![t] = FALSE]
    /\ Step("unpublish", "record", t)
    /\ UNCHANGED <<jobStepUnchanged, bounty, row, lastError>>

(* Fault variant: a withdrawal whose answer is lost counts as one.         *)
WithdrawFailsRecorded(t) ==
    /\ AtTarget("unpublish", t)
    /\ MayTakeEffect(t, FALSE)
    /\ Step("unpublish", "record", t)
    /\ UNCHANGED <<jobStepUnchanged, bounty, row, lastError>>

(* ... or fails for now, perhaps after it took effect ...                  *)
WithdrawFails(t) ==
    /\ AtTarget("unpublish", t)
    /\ MayTakeEffect(t, FALSE)
    /\ Skip("unpublish", t, TRUE)
    /\ UNCHANGED <<jobStepUnchanged, bounty, row, lastError>>

(* ... or for good, or is not configured: markRetractFailed.               *)
WithdrawRefused(t) ==
    /\ AtTarget("unpublish", t)
    /\ lastError' = [lastError EXCEPT ![t] = TRUE]
    /\ Skip("unpublish", t, FALSE)
    /\ UNCHANGED <<jobStepUnchanged, bounty, row, live>>

WithdrawRecord(t) ==
    /\ run["unpublish"].pc = "record"
    /\ run["unpublish"].at = t
    /\ row' = [row EXCEPT ![t] = "retracted"]
    /\ lastError' = [lastError EXCEPT ![t] = FALSE]
    /\ Done("unpublish", t)
    /\ UNCHANGED <<jobStepUnchanged, bounty, live>>

(* Fault variant: some withdrawal is taken for all.                        *)
WithdrewSome == run["unpublish"].done # {}

WithdrewAll == run["unpublish"].done = run["unpublish"].rows

(* Only a complete withdrawal shows on the bounty.                         *)
UnpublishRollup ==
    /\ run["unpublish"].pc = "targets"
    /\ run["unpublish"].todo = {}
    /\ bounty' = IF WithdrewAll THEN "retracted" ELSE bounty
    /\ Step("unpublish", "end", None)
    /\ UNCHANGED <<jobStepUnchanged, rowVars>>

-----------------------------------------------------------------------------
(* The handler returns, or throws for what failed for now.                 *)
JobEnds(j) ==
    /\ run[j].pc = "end"
    /\ IF run[j].again THEN Board!Fail(j, j) ELSE Board!Finish(j, j)
    /\ run' = [run EXCEPT ![j] = Idle]
    /\ UNCHANGED <<bounty, licensed, rowVars, callVars, crossed>>

(* The worker dies: the queue gives the job to another.                    *)
WorkerDies(j) ==
    /\ events < MaxEvents
    /\ events' = events + 1
    /\ Board!Abandon(j, j)
    /\ run' = [run EXCEPT ![j] = Idle]
    /\ UNCHANGED <<bounty, licensed, rowVars, call, crossed>>

PublishStep(t) ==
    \/ PushUnconfigured(t) \/ Push(t) \/ PushFails(t) \/ PushRefused(t)
    \/ PushRecord(t) \/ MarkFailedRead(t) \/ MarkFailedWrite(t)

UnpublishStep(t) ==
    Withdraw(t) \/ WithdrawFails(t) \/ WithdrawRefused(t) \/ WithdrawRecord(t)

JobStep ==
    \/ PublishStart \/ PublishDisabled \/ UnpublishStart
    \/ \E j \in Jobs : JobEnds(j)
    \/ \E t \in Targets : PublishStep(t) \/ UnpublishStep(t)
    \/ PublishRollup \/ UnpublishRollup

CallStep ==
    \/ Review \/ Publish \/ Retract \/ Settle
    \/ \E c \in Callers : EnqueuePublish(c)

Next ==
    \/ JobStep
    \/ CallStep
    \/ \E action \in {"review", "publish", "retract"} : Check(action)
    \/ \E t \in Targets : Attest(t)
    \/ \E c \in Callers : CallerDies(c)
    \/ \E j \in Jobs : WorkerDies(j)

Spec == Init /\ [][Next]_vars

(* The workers keep claiming and running (worker.ts).                      *)
FairSpec == Spec /\ WF_vars(JobStep)

-----------------------------------------------------------------------------
(* "A target moves to retracted only after its provider returns": at that  *)
(* moment the dataset is private, lost answers and retries included,       *)
(* unless a push or an attestation overlapped the withdrawal.              *)
WithdrawalConfirmed ==
    [][\A t \in Targets :
          row[t] # "retracted" /\ row'[t] = "retracted" => ~live[t] \/ crossed]_vars

(* The bounty is shown as retracted only when no target is left published, *)
(* however many runs the withdrawal took.                                  *)
RollupComplete ==
    [][bounty # "retracted" /\ bounty' = "retracted"
          => crossed \/ \A t \in Targets : row[t] # "published"]_vars

(* The bounty becomes published only when the public can see the dataset   *)
(* somewhere, whatever answers were lost and retried before, unless a      *)
(* withdrawal overlapped the push.                                         *)
PublishedIsPublic ==
    [][bounty # "published" /\ bounty' = "published"
          => crossed' \/ \E t \in Targets : live'[t]]_vars

(* A publication in the queue is answered for every target: it is on       *)
(* record as published, or its row says why not, or the job is given up as *)
(* dead.  One target that fails for now does not lose another its answer.  *)
PublicationAnswered ==
    \A t \in Targets :
        phase["publish"] = "armed"
            ~> row[t] = "published" \/ lastError[t] \/ phase["publish"] = "dead"

(* A withdrawal in the queue is answered for every published target: the   *)
(* target leaves that state, or the row says why not, or the job is given  *)
(* up as dead.  A lost answer is retried, never forgotten.                 *)
RetractionAnswered ==
    \A t \in Targets :
        phase["unpublish"] = "armed" /\ row[t] = "published"
            ~> row[t] # "published" \/ lastError[t] \/ phase["unpublish"] = "dead"
=============================================================================
