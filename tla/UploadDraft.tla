---------------------------- MODULE UploadDraft ----------------------------
(***************************************************************************)
(* A source file becomes submissions through a reviewed draft: the upload  *)
(* slot, the scan, the parse into draft rows, the owner's submit or cancel *)
(* and the ingest, on the promises of the job queue (JobBoard).            *)
(*                                                                         *)
(* routes/v1/upload-review-drafts.ts, services/upload-review-drafts.ts,    *)
(* services/artifacts.ts (completion and scan), jobs/artifact-jobs.ts (the *)
(* purge), jobs/bulk-source-parse.ts, jobs/upload-draft-submit.ts.         *)
(***************************************************************************)
EXTENDS Naturals, FiniteSets

CONSTANTS
    LastRow,       \* rows of the source file
    BadRows,       \* those of them the parser cannot use
    ChunkSize,     \* rows per transaction, of the parse and of the ingest
    RowsPerRun,    \* rows per run of the parse job
    MaxAttempts,   \* maxAttempts of the jobs
    Requests,      \* requests that may be in flight at once
    MaxRequests,   \* bound: requests that arrive
    MaxDeaths      \* bound: processes that die

Rows == 1 .. LastRow

Jobs == {"scan", "parse", "submit"}

(* Which worker runs a job does not matter: its holder has its name.       *)
Workers == Jobs

ASSUME BoundAssumption ==
    /\ {LastRow, MaxAttempts, MaxRequests, MaxDeaths} \subseteq Nat
    /\ {ChunkSize, RowsPerRun} \subseteq Nat \ {0}
    /\ BadRows \subseteq Rows

VARIABLES
    phase, tries, holders,   \* the board: one row per job
    artifact,    \* Artifact.status
    parse,       \* Artifact.bulkParseStatus
    parsed,      \* Artifact.bulkParseCursor
    sound,       \* the file is one the parser accepts
    status,      \* SubmissionUploadDraft.status, "none" without a draft
    attached,    \* sourceArtifactId is set
    revoked,     \* revokedAt is set
    fresh,       \* a submitting draft was written in the last ten minutes
    cursor,      \* submitCursorRowNumber
    ending,      \* submitError
    items,       \* rows stored as SubmissionUploadDraftItem
    marked,      \* rows whose item names its submission
    made,        \* row -> submissions made from it
    run,         \* job -> what its handler is about to do
    req,         \* request -> the statement it is about to make
    arrived,     \* requests that arrived so far
    deaths,      \* processes that died so far
    unasked      \* history: a parse the code owed was never enqueued

boardVars == <<phase, tries, holders>>
artifactVars == <<artifact, parse, parsed>>
draftVars == <<status, attached, revoked, fresh, cursor, ending>>
rowVars == <<items, marked, made>>
callVars == <<req, arrived>>
lifeVars == <<sound, deaths, unasked>>
vars == <<boardVars, artifactVars, draftVars, rowVars, run, callVars, lifeVars>>

Board == INSTANCE JobBoard

Stops == {"none", "pool_full", "pool_closed"}

(* rows: of a parse, what is left of its budget; of an ingest, its chunk.  *)
RunType ==
    [pc : {"idle", "scan", "follow", "read", "rows", "mark", "throw",
           "chunk", "final", "end"},
     rows : SUBSET Rows, stop : Stops]

Idle == [pc |-> "idle", rows |-> {}, stop |-> "none"]

TypeOK ==
    /\ phase \in [Jobs -> Board!Phases]
    /\ tries \in [Jobs -> Nat]
    /\ holders \in [Jobs -> SUBSET Workers]
    /\ artifact \in {"pending_upload", "scanning", "ready", "quarantined"}
    /\ parse \in {"not_applicable", "pending", "processing", "done", "failed"}
    /\ {parsed, cursor} \subseteq {0} \cup Rows
    /\ status \in {"none", "awaiting_upload", "uploading", "review_ready",
                   "failed", "submitting", "submitted", "cancelled"}
    /\ {sound, attached, revoked, fresh, unasked} \subseteq BOOLEAN
    /\ ending \in Stops
    /\ items \in SUBSET Rows /\ marked \in SUBSET items
    /\ made \in [Rows -> Nat]
    /\ run \in [Jobs -> RunType]
    /\ req \in [Requests -> {"idle", "slot", "slotDraft", "scan", "scanDraft",
                             "attach", "parse", "submit", "ingest", "cancel"}]
    /\ {arrived, deaths} \subseteq Nat

(* An upload slot is open; the draft may come before the file or after it. *)
Init ==
    /\ Board!Init
    /\ artifact = "pending_upload" /\ parse = "not_applicable" /\ parsed = 0
    /\ sound \in BOOLEAN
    /\ status = "none" /\ attached = FALSE /\ revoked = FALSE /\ fresh = TRUE
    /\ cursor = 0 /\ ending = "none"
    /\ items = {} /\ marked = {} /\ made = [r \in Rows |-> 0]
    /\ run = [j \in Jobs |-> Idle]
    /\ req = [q \in Requests |-> "idle"]
    /\ arrived = 0 /\ deaths = 0 /\ unasked = FALSE

(* A request makes its next statement, and a new one its first.           *)
Go(q, statement) == req' = [req EXCEPT ![q] = statement] /\ UNCHANGED arrived

Begin(q, statement) ==
    /\ req[q] = "idle"
    /\ arrived < MaxRequests
    /\ arrived' = arrived + 1
    /\ req' = [req EXCEPT ![q] = statement]

(* A row that is running is left alone.                                    *)
Enqueue(j) ==
    \/ Board!Arm(j)
    \/ phase[j] = "running" /\ UNCHANGED boardVars

(* enqueueBulkSourceParse shows the source as pending and enqueues.        *)
EnqueueParse ==
    /\ parse' = IF parse \in {"done", "processing"} THEN parse ELSE "pending"
    /\ Enqueue("parse")
    /\ UNCHANGED <<artifact, parsed>>

(* The n first rows of a set.                                              *)
FirstOf(n, S) == {r \in S : Cardinality({p \in S : p <= r}) <= n}

Last(S) == CHOOSE r \in S : \A p \in S : p <= r

-----------------------------------------------------------------------------
(* createUploadReviewDraft, with a source already uploaded or without one; *)
(* it enqueues nothing.                                                    *)
Create(withSource) ==
    /\ status = "none"
    /\ status' = IF withSource THEN "uploading" ELSE "awaiting_upload"
    /\ attached' = withSource
    /\ UNCHANGED <<boardVars, artifactVars, revoked, fresh, cursor, ending,
                   rowVars, run, callVars, lifeVars>>

AwaitsSource == status = "awaiting_upload" /\ ~attached

(* completeUpload reads an open slot, for a draft (source-complete) or on  *)
(* its own ...                                                             *)
CompleteCheck(q) ==
    /\ artifact = "pending_upload"
    /\ \/ Begin(q, "slot")
       \/ AwaitsSource /\ ~revoked /\ Begin(q, "slotDraft")
    /\ UNCHANGED <<boardVars, artifactVars, draftVars, rowVars, run, lifeVars>>

(* ... claims it if it still is open ...                                   *)
CompleteClaim(q) ==
    /\ req[q] \in {"slot", "slotDraft"}
    /\ IF artifact = "pending_upload"
         THEN artifact' = "scanning" /\ Go(q, IF req[q] = "slot" THEN "scan" ELSE "scanDraft")
         ELSE UNCHANGED artifact /\ Go(q, "idle")
    /\ UNCHANGED <<boardVars, parse, parsed, draftVars, rowVars, run, lifeVars>>

(* ... or finds that the file is not the one declared, before the claim or *)
(* after it: a write that looks at nothing ...                             *)
CompleteRefuses(q) ==
    /\ req[q] \in {"slot", "slotDraft", "scan", "scanDraft"}
    /\ artifact' = "quarantined"
    /\ Go(q, "idle")
    /\ UNCHANGED <<boardVars, parse, parsed, draftVars, rowVars, run, lifeVars>>

(* ... and asks for the scan.                                              *)
EnqueueScan(q) ==
    /\ req[q] \in {"scan", "scanDraft"}
    /\ Enqueue("scan")
    /\ Go(q, IF req[q] = "scan" THEN "idle" ELSE "attach")
    /\ UNCHANGED <<artifactVars, draftVars, rowVars, run, lifeVars>>

(* artifact.purge_expired_uploads takes back a slot that has expired.      *)
Purge ==
    /\ artifact = "pending_upload"
    /\ artifact' = "quarantined"
    /\ UNCHANGED <<boardVars, parse, parsed, draftVars, rowVars, run, callVars, lifeVars>>

(* attach-source, whatever became of the scan.                             *)
AttachCheck(q) ==
    /\ AwaitsSource /\ ~revoked
    /\ Begin(q, "attach")
    /\ UNCHANGED <<boardVars, artifactVars, draftVars, rowVars, run, lifeVars>>

(* One of the requests that saw the draft without a source gives it one,   *)
(* and owes the parse.                                                     *)
Attach(q) ==
    /\ req[q] = "attach"
    /\ IF AwaitsSource
         THEN status' = "uploading" /\ attached' = TRUE /\ Go(q, "parse")
         ELSE UNCHANGED <<status, attached>> /\ Go(q, "idle")
    /\ UNCHANGED <<boardVars, artifactVars, revoked, fresh, cursor, ending,
                   rowVars, run, lifeVars>>

AskForParse(q) ==
    /\ req[q] = "parse"
    /\ EnqueueParse
    /\ Go(q, "idle")
    /\ UNCHANGED <<draftVars, rowVars, run, lifeVars>>

(* The owner submits what he reviewed ...                                  *)
SubmitCheck(q) ==
    /\ status = "review_ready" /\ ~revoked
    /\ items \ BadRows # {}
    /\ Begin(q, "submit")
    /\ UNCHANGED <<boardVars, artifactVars, draftVars, rowVars, run, lifeVars>>

(* ... by a compare-and-set on the status alone ...                        *)
SubmitClaim(q) ==
    /\ req[q] = "submit"
    /\ IF status = "review_ready"
         THEN status' = "submitting" /\ fresh' = TRUE /\ Go(q, "ingest")
         ELSE UNCHANGED <<status, fresh>> /\ Go(q, "idle")
    /\ UNCHANGED <<boardVars, artifactVars, attached, revoked, cursor, ending,
                   rowVars, run, lifeVars>>

(* ... and the ingest is asked for afterwards.                             *)
AskForIngest(q) ==
    /\ req[q] = "ingest"
    /\ Enqueue("submit")
    /\ Go(q, "idle")
    /\ UNCHANGED <<artifactVars, draftVars, rowVars, run, lifeVars>>

CancelCheck(q) ==
    /\ status \notin {"none", "submitted"} /\ ~revoked
    /\ Begin(q, "cancel")
    /\ UNCHANGED <<boardVars, artifactVars, draftVars, rowVars, run, lifeVars>>

(* Cancelled unless revoked by now, or submitting and written lately.      *)
Cancel(q) ==
    /\ req[q] = "cancel"
    /\ IF ~revoked /\ ~(status = "submitting" /\ fresh)
         THEN revoked' = TRUE /\ status' = "cancelled"
         ELSE UNCHANGED <<revoked, status>>
    /\ Go(q, "idle")
    /\ UNCHANGED <<boardVars, artifactVars, attached, fresh, cursor, ending,
                   rowVars, run, lifeVars>>

(* An admin suspends the owner: what is not over is revoked as it stands.  *)
Suspend ==
    /\ status \notin {"none", "cancelled", "submitted"} /\ ~revoked
    /\ revoked' = TRUE
    /\ UNCHANGED <<boardVars, artifactVars, status, attached, fresh, cursor,
                   ending, rowVars, run, callVars, lifeVars>>

(* Ten minutes pass without a write.                                       *)
GoStale ==
    /\ status = "submitting" /\ fresh
    /\ fresh' = FALSE
    /\ UNCHANGED <<boardVars, artifactVars, status, attached, revoked, cursor,
                   ending, rowVars, run, callVars, lifeVars>>

RequestDies(q) ==
    /\ req[q] # "idle"
    /\ deaths < MaxDeaths
    /\ deaths' = deaths + 1
    /\ unasked' = (unasked \/ req[q] = "parse")
    /\ Go(q, "idle")
    /\ UNCHANGED <<boardVars, artifactVars, draftVars, rowVars, run, sound>>

-----------------------------------------------------------------------------
(* What the handler of job j is about to do next.                          *)
Step(j, pc, rows) == run' = [run EXCEPT ![j].pc = pc, ![j].rows = rows]

Starts(j, pc) == Board!Take(j, j) /\ Step(j, pc, {})

Stop(reason) ==
    run' = [run EXCEPT !["submit"] = [pc |-> "final", rows |-> {}, stop |-> reason]]

At(j, pc) == run[j].pc = pc

(* runArtifactScanJob looks only at a source nobody decided yet.           *)
ScanStart ==
    /\ Starts("scan", IF artifact = "scanning" THEN "scan" ELSE "end")
    /\ UNCHANGED <<artifactVars, draftVars, rowVars, callVars, lifeVars>>

ScanRejects ==
    /\ At("scan", "scan")
    /\ artifact' = "quarantined"
    /\ Step("scan", "end", {})
    /\ UNCHANGED <<boardVars, parse, parsed, draftVars, rowVars, callVars, lifeVars>>

(* The verdict commits ...                                                 *)
ScanClears ==
    /\ At("scan", "scan")
    /\ artifact' = "ready"
    /\ Step("scan", "follow", {})
    /\ UNCHANGED <<boardVars, parse, parsed, draftVars, rowVars, callVars, lifeVars>>

(* ... and the parse is asked for afterwards.                              *)
ScanFollows ==
    /\ At("scan", "follow")
    /\ EnqueueParse
    /\ Step("scan", "end", {})
    /\ UNCHANGED <<draftVars, rowVars, callVars, lifeVars>>

(* Fault variant: a source without a draft is nobody's business.           *)
ParseStartDismisses ==
    /\ Starts("parse", CASE artifact # "ready" -> "throw"
                         [] artifact = "ready" /\ parse = "done" -> "end"
                         [] artifact = "ready" /\ parse # "done" ->
                              IF attached THEN "read" ELSE "end")
    /\ UNCHANGED <<artifactVars, draftVars, rowVars, callVars, lifeVars>>

(* runBulkSourceParseJob refuses a source that is not ready or has no      *)
(* draft, and has nothing to do for one it finished.                       *)
ParseStart ==
    /\ Starts("parse", CASE artifact # "ready" -> "throw"
                         [] artifact = "ready" /\ parse = "done" -> "end"
                         [] artifact = "ready" /\ parse # "done" ->
                              IF attached THEN "read" ELSE "throw")
    /\ UNCHANGED <<artifactVars, draftVars, rowVars, callVars, lifeVars>>

(* The rows after the cursor, as many as one run may store.                *)
ParseReads ==
    /\ At("parse", "read")
    /\ sound
    /\ parse' = "processing"
    /\ Step("parse", "rows", FirstOf(RowsPerRun, Rows \ (1 .. parsed)))
    /\ UNCHANGED <<boardVars, artifact, parsed, draftVars, rowVars, callVars, lifeVars>>

(* Fault variant: the cursor moves ahead of the rows it accounts for.      *)
ParseChunkCursorFirst ==
    LET chunk == FirstOf(ChunkSize, run["parse"].rows) IN
    /\ At("parse", "rows")
    /\ chunk # {}
    /\ parsed' = Last(chunk)
    /\ \/ items' = items \cup chunk
       \/ UNCHANGED items
    /\ Step("parse", "rows", run["parse"].rows \ chunk)
    /\ UNCHANGED <<boardVars, artifact, parse, draftVars, marked, made, callVars, lifeVars>>

(* Rows, good and bad, and the cursor in one transaction.                  *)
ParseChunk ==
    LET chunk == FirstOf(ChunkSize, run["parse"].rows) IN
    /\ At("parse", "rows")
    /\ chunk # {}
    /\ items' = items \cup chunk
    /\ parsed' = Last(chunk)
    /\ Step("parse", "rows", run["parse"].rows \ chunk)
    /\ UNCHANGED <<boardVars, artifact, parse, draftVars, marked, made, callVars, lifeVars>>

(* The budget of the run is spent: the job enqueues itself.                *)
ParseContinues ==
    /\ At("parse", "rows")
    /\ run["parse"].rows = {} /\ parsed # LastRow
    /\ EnqueueParse
    /\ Step("parse", "end", {})
    /\ UNCHANGED <<draftVars, rowVars, callVars, lifeVars>>

(* Only a draft that still waits for the parse hears of its end.           *)
AwaitsParse == status \in {"awaiting_upload", "uploading"} /\ ~revoked

(* Fault variant: the end of a run is taken for the end of the file.       *)
ParseEndsEarly ==
    /\ At("parse", "rows")
    /\ run["parse"].rows = {}
    /\ parse' = "done"
    /\ status' = IF AwaitsParse THEN "review_ready" ELSE status
    /\ Step("parse", "end", {})
    /\ UNCHANGED <<boardVars, artifact, parsed, attached, revoked, fresh, cursor,
                   ending, rowVars, callVars, lifeVars>>

(* The whole file is stored.                                               *)
ParseEnds ==
    /\ At("parse", "rows")
    /\ run["parse"].rows = {} /\ parsed = LastRow
    /\ parse' = "done"
    /\ status' = IF AwaitsParse THEN "review_ready" ELSE status
    /\ Step("parse", "end", {})
    /\ UNCHANGED <<boardVars, artifact, parsed, attached, revoked, fresh, cursor,
                   ending, rowVars, callVars, lifeVars>>

(* markFailed: the source first ...                                        *)
ParseRejects ==
    /\ At("parse", "read")
    /\ ~sound
    /\ parse' = "failed"
    /\ Step("parse", "mark", {})
    /\ UNCHANGED <<boardVars, artifact, parsed, draftVars, rowVars, callVars, lifeVars>>

(* ... then the draft; the job throws either way.                          *)
ParseRejectsDraft ==
    /\ At("parse", "mark")
    /\ status' = IF AwaitsParse THEN "failed" ELSE status
    /\ Step("parse", "throw", {})
    /\ UNCHANGED <<boardVars, artifactVars, attached, revoked, fresh, cursor,
                   ending, rowVars, callVars, lifeVars>>

-----------------------------------------------------------------------------
(* Fault variant: a draft with a cursor is taken for somebody else's run.  *)
IngestStartOnce ==
    /\ Starts("submit", IF status = "submitting" /\ cursor = 0 THEN "read" ELSE "end")
    /\ UNCHANGED <<artifactVars, draftVars, rowVars, callVars, lifeVars>>

(* runUploadDraftSubmitJob runs only against a submitting draft.           *)
IngestStart ==
    /\ Starts("submit", IF status = "submitting" THEN "read" ELSE "end")
    /\ UNCHANGED <<artifactVars, draftVars, rowVars, callVars, lifeVars>>

Unsent == {r \in items \ (BadRows \cup marked) : r > cursor}

(* The room left is read from the bounty, outside the transaction.         *)
IngestReads(room) ==
    LET chunk == FirstOf(ChunkSize, Unsent) IN
    /\ At("submit", "read")
    /\ CASE Unsent = {} -> Stop("none")
         [] Unsent # {} /\ room = 0 -> Stop("pool_full")
         [] Unsent # {} /\ room > 0 ->
              run' = [run EXCEPT !["submit"] =
                 [pc |-> "chunk", rows |-> FirstOf(room, chunk),
                  stop |-> IF room < Cardinality(chunk) THEN "pool_full" ELSE "none"]]
    /\ UNCHANGED <<boardVars, artifactVars, draftVars, rowVars, callVars, lifeVars>>

(* The pool is no longer active.                                           *)
IngestFindsClosed ==
    /\ At("submit", "read")
    /\ Unsent # {}
    /\ Stop("pool_closed")
    /\ UNCHANGED <<boardVars, artifactVars, draftVars, rowVars, callVars, lifeVars>>

Submitted(rows) == [r \in Rows |-> IF r \in rows THEN made[r] + 1 ELSE made[r]]

AfterChunk ==
    IF run["submit"].stop = "none" THEN Step("submit", "read", {})
                                   ELSE Stop(run["submit"].stop)

(* Fault variant: the account of a chunk commits after its submissions.    *)
IngestChunkThenAccount ==
    /\ At("submit", "chunk")
    /\ ~revoked
    /\ made' = Submitted(run["submit"].rows)
    /\ \/ marked' = marked \cup run["submit"].rows /\ cursor' = Last(run["submit"].rows)
       \/ UNCHANGED <<marked, cursor>>
    /\ fresh' = TRUE
    /\ AfterChunk
    /\ UNCHANGED <<boardVars, artifactVars, status, attached, revoked, ending,
                   items, callVars, lifeVars>>

(* Fault variant: nobody looks whether the draft was revoked.              *)
IngestChunkUnguarded ==
    /\ At("submit", "chunk")
    /\ made' = Submitted(run["submit"].rows)
    /\ marked' = marked \cup run["submit"].rows
    /\ cursor' = Last(run["submit"].rows)
    /\ fresh' = TRUE
    /\ AfterChunk
    /\ UNCHANGED <<boardVars, artifactVars, status, attached, revoked, ending,
                   items, callVars, lifeVars>>

(* Submissions, the mark on their rows and the cursor in one transaction,  *)
(* unless the draft was revoked ...                                        *)
IngestChunk ==
    /\ At("submit", "chunk")
    /\ ~revoked
    /\ made' = Submitted(run["submit"].rows)
    /\ marked' = marked \cup run["submit"].rows
    /\ cursor' = Last(run["submit"].rows)
    /\ fresh' = TRUE
    /\ AfterChunk
    /\ UNCHANGED <<boardVars, artifactVars, status, attached, revoked, ending,
                   items, callVars, lifeVars>>

(* ... in which case the job stops and finalizes nothing.                  *)
IngestRolledBack ==
    /\ At("submit", "chunk")
    /\ revoked
    /\ Step("submit", "end", {})
    /\ UNCHANGED <<boardVars, artifactVars, draftVars, rowVars, callVars, lifeVars>>

(* finalizeDraft.                                                          *)
Finalize ==
    /\ At("submit", "final")
    /\ IF status = "submitting" /\ ~revoked
         THEN status' = "submitted" /\ ending' = run["submit"].stop
         ELSE UNCHANGED <<status, ending>>
    /\ Step("submit", "end", {})
    /\ UNCHANGED <<boardVars, artifactVars, attached, revoked, fresh, cursor,
                   rowVars, callVars, lifeVars>>

-----------------------------------------------------------------------------
(* A handler returns ...                                                   *)
JobEnds(j) ==
    /\ At(j, "end")
    /\ Board!Finish(j, j)
    /\ run' = [run EXCEPT ![j] = Idle]
    /\ UNCHANGED <<artifactVars, draftVars, rowVars, callVars, lifeVars>>

(* The enqueue that follows a cleared scan is lost with its handler: the   *)
(* next run finds the source decided.                                      *)
ForgetsParse(j) == unasked' = (unasked \/ At(j, "follow"))

(* ... or throws, where it must or where a statement fails.                *)
JobThrows(j) ==
    /\ ~At(j, "idle") /\ ~At(j, "end")
    /\ Board!Fail(j, j)
    /\ run' = [run EXCEPT ![j] = Idle]
    /\ ForgetsParse(j)
    /\ UNCHANGED <<artifactVars, draftVars, rowVars, callVars, sound, deaths>>

(* The worker dies: the queue gives the job to another.                    *)
WorkerDies(j) ==
    /\ ~At(j, "idle")
    /\ deaths < MaxDeaths
    /\ deaths' = deaths + 1
    /\ Board!Abandon(j, j)
    /\ run' = [run EXCEPT ![j] = Idle]
    /\ ForgetsParse(j)
    /\ UNCHANGED <<artifactVars, draftVars, rowVars, callVars, sound>>

JobStep ==
    \/ ScanStart \/ ScanRejects \/ ScanClears \/ ScanFollows
    \/ ParseStart \/ ParseReads \/ ParseChunk \/ ParseContinues \/ ParseEnds
    \/ ParseRejects \/ ParseRejectsDraft
    \/ IngestStart \/ \E room \in 0 .. ChunkSize : IngestReads(room)
    \/ IngestFindsClosed \/ IngestChunk \/ IngestRolledBack \/ Finalize
    \/ \E j \in Jobs : JobEnds(j) \/ JobThrows(j)

(* A request that began goes on.                                           *)
RequestStep ==
    \E q \in Requests :
        \/ CompleteClaim(q) \/ CompleteRefuses(q) \/ EnqueueScan(q)
        \/ Attach(q) \/ AskForParse(q)
        \/ SubmitClaim(q) \/ AskForIngest(q) \/ Cancel(q)

Arrival ==
    \/ \E withSource \in BOOLEAN : Create(withSource)
    \/ \E q \in Requests :
          CompleteCheck(q) \/ AttachCheck(q) \/ SubmitCheck(q) \/ CancelCheck(q)

Next ==
    \/ JobStep \/ RequestStep \/ Arrival
    \/ Purge \/ Suspend \/ GoStale
    \/ \E q \in Requests : RequestDies(q)
    \/ \E j \in Jobs : WorkerDies(j)

Spec == Init /\ [][Next]_vars

(* The workers keep claiming and running (worker.ts), a request runs to    *)
(* its end unless its process dies.                                        *)
FairSpec == Spec /\ WF_vars(JobStep) /\ WF_vars(RequestStep)

-----------------------------------------------------------------------------
(* "Row-insert and cursor-advance always happen in the same transaction,   *)
(* so this value and the set of items with submissionId set are always     *)
(* consistent even after a crash mid-run": every usable row up to the      *)
(* cursor is one submission, every later row is none, over all retries.    *)
IngestAgrees ==
    /\ marked = {r \in items \ BadRows : r <= cursor}
    /\ \A r \in Rows : made[r] = IF r \in marked THEN 1 ELSE 0

(* A submitted draft without a stop reason turned every usable row of the  *)
(* file into a submission, and one with a reason left some row behind.     *)
HonestEnd ==
    status = "submitted" => (ending = "none" <=> marked = Rows \ BadRows)

(* A draft is offered for review, and what follows, only with every row of *)
(* the file stored, however many runs, deaths and retries the parse took.  *)
ReviewIsWhole ==
    status \in {"review_ready", "submitting", "submitted"} => items = Rows

(* A draft that was cancelled, or whose owner was suspended, ingests       *)
(* nothing more, and no job or second cancel gives it another verdict; a   *)
(* request that was past its check may still attach or submit in vain.     *)
RevokedIsFrozen ==
    [][revoked => /\ made' = made
                  /\ status' # status => status' \in {"uploading", "submitting"}]_vars

(* A source nobody waits for any more, or whose parse nobody asked for.    *)
Heard ==
    \/ status # "uploading" \/ artifact # "ready" \/ revoked
    \/ phase["parse"] = "dead" \/ unasked

(* "The two orders race": the rows of one run of the parse reach a draft   *)
(* whose source is ready, whichever of scan and attachment came first and  *)
(* whatever dies meanwhile, unless the job is given up as dead or the owed *)
(* enqueue was never made; a source with no more rows is heard of.         *)
SourceIsStored ==
    status = "uploading" /\ artifact = "ready"
        ~> Heard \/ parsed \in RowsPerRun .. (LastRow - 1)

(* The same of a source of any size: "chained by the handler itself when a *)
(* source is larger than one run's row budget".                            *)
SourceIsParsed ==
    status = "uploading" /\ artifact = "ready" ~> Heard

(* An ingest that was asked for ends, with the draft or with the job.      *)
IngestEnds ==
    status = "submitting" /\ phase["submit"] = "armed"
        ~> status # "submitting" \/ revoked \/ phase["submit"] = "dead"
=============================================================================
