------------------------------ MODULE JobQueue ------------------------------
(***************************************************************************)
(* The Postgres-backed job queue of the API process (services/jobs.ts) and *)
(* the loop that drains it (worker.ts).                                    *)
(*                                                                         *)
(* Every SQL statement of enqueue, claim, complete and fail is a step of   *)
(* its own, because none of them runs in a transaction with the statement  *)
(* before it.  The column nextAttemptAt serves as run-after time, retry    *)
(* backoff and lease expiry; the model keeps of it only whether it has     *)
(* passed (due), and whether it had passed on a claimer's own clock when   *)
(* the claimer read the row (ripe).                                        *)
(***************************************************************************)
EXTENDS Naturals, Sequences

CONSTANTS
    Jobs,          \* idempotency keys, one row each
    Workers,       \* processes running runJobQueueLoop
    Producers,     \* concurrent callers of enqueue
    NoJob,         \* "no row in hand"
    MaxAttempts,   \* maxAttempts of the row (5 unless the producer says)
    Plans,         \* number of entries of CLAIM_PLAN
    LeaseClass,    \* the CLAIM_PLAN entry each job's type belongs to
    MaxLapses      \* bound: crashes and lost outcome writes in a behaviour

ASSUME QueueAssumption ==
    /\ MaxAttempts \in Nat \ {0}
    /\ Plans \in Nat \ {0}
    /\ LeaseClass \in [Jobs -> 1..Plans]
    /\ NoJob \notin Jobs
    /\ MaxLapses \in Nat

VARIABLES
    status,        \* job_queue.status, "absent" before the row exists
    attempts,      \* job_queue.attempts
    due,           \* nextAttemptAt is in the past
    created,       \* rows in createdAt order
    pc,            \* where each worker is in runJobQueueLoop
    job,           \* the row a worker read, or is handling
    plan,          \* the CLAIM_PLAN entry a worker tries next
    ripe,          \* the row's nextAttemptAt is before the claimer's own now
    seen,          \* attempts as fail() read them
    prod,          \* where each producer is in enqueue
    asked,         \* history: armed, and no handler started since
    lapses         \* history: the count behind the bound

rowVars  == <<status, attempts, due, created>>
workVars == <<pc, job, plan, ripe, seen>>
vars == <<rowVars, workVars, prod, asked, lapses>>

Statuses == {"absent", "pending", "processing", "failed", "done", "dead"}

TypeOK ==
    /\ status \in [Jobs -> Statuses]
    /\ attempts \in [Jobs -> Nat]
    /\ due \in [Jobs -> BOOLEAN]
    /\ created \in Seq(Jobs)
    /\ pc \in [Workers -> {"poll", "picked", "running", "failing"}]
    /\ job \in [Workers -> Jobs \cup {NoJob}]
    /\ \A w \in Workers : pc[w] # "poll" => job[w] \in Jobs
    /\ plan \in [Workers -> 1..Plans]
    /\ ripe \in [Workers -> BOOLEAN]
    /\ seen \in [Workers -> Nat]
    /\ prod \in [Producers -> [at : {"idle", "found", "missing"},
                               key : Jobs \cup {NoJob}]]
    /\ \A p \in Producers : prod[p].at # "idle" => prod[p].key \in Jobs
    /\ asked \in [Jobs -> BOOLEAN]
    /\ lapses \in 0..MaxLapses

Init ==
    /\ status = [j \in Jobs |-> "absent"]
    /\ attempts = [j \in Jobs |-> 0]
    /\ due = [j \in Jobs |-> FALSE]
    /\ created = <<>>
    /\ pc = [w \in Workers |-> "poll"]
    /\ job = [w \in Workers |-> NoJob]
    /\ plan = [w \in Workers |-> 1]
    /\ ripe = [w \in Workers |-> FALSE]
    /\ seen = [w \in Workers |-> 0]
    /\ prod = [p \in Producers |-> [at |-> "idle", key |-> NoJob]]
    /\ asked = [j \in Jobs |-> FALSE]
    /\ lapses = 0

(* A worker whose handler is running, or has thrown and not been recorded. *)
Holding(w) == pc[w] \in {"running", "failing"}
Holders(j) == {w \in Workers : Holding(w) /\ job[w] = j}

-----------------------------------------------------------------------------
(* Fault variant: a claim leaves its rivals' reads of the row usable. *)
RestampNothing(j) == ripe

(* Writing nextAttemptAt of row j moves it past the clock of every claimer *)
(* that has read the row and not written yet.                              *)
Restamp(j) == [v \in Workers |-> ripe[v] /\ job[v] # j]

(* enqueue, first statement: look the idempotency key up. *)
EnqueueRead(p, j) ==
    /\ prod[p].at = "idle"
    /\ prod' = [prod EXCEPT ![p] =
          CASE status[j] = "absent"     -> [at |-> "missing", key |-> j]
            [] status[j] = "processing" -> [at |-> "idle", key |-> NoJob]
            [] OTHER                    -> [at |-> "found", key |-> j]]
    /\ UNCHANGED <<rowVars, workVars, asked, lapses>>

Returned(p) == prod' = [prod EXCEPT ![p] = [at |-> "idle", key |-> NoJob]]

(* Fault variant: enqueue re-arms whatever state the row is in. *)
RearmGuardNone(j) == TRUE

(* The status guard of enqueue's updateMany. *)
RearmGuard(j) == status[j] # "processing"

(* enqueue, re-arm of an existing row; ready is FALSE for a runAfter in    *)
(* the future.                                                             *)
Rearm(p, ready) ==
    LET j == prod[p].key IN
    /\ prod[p].at = "found"
    /\ RearmGuard(j)
    /\ Returned(p)
    /\ status' = [status EXCEPT ![j] = "pending"]
    /\ attempts' = [attempts EXCEPT ![j] = 0]
    /\ due' = [due EXCEPT ![j] = ready]
    /\ ripe' = Restamp(j)
    /\ asked' = [asked EXCEPT ![j] = TRUE]
    /\ UNCHANGED <<created, pc, job, plan, seen, lapses>>

(* A worker has claimed the row since enqueue read it, and wins.           *)
RearmSkipped(p) ==
    /\ prod[p].at = "found"
    /\ ~RearmGuard(prod[p].key)
    /\ Returned(p)
    /\ UNCHANGED <<rowVars, workVars, asked, lapses>>

(* enqueue, insert of a new row.                                           *)
Create(p, ready) ==
    LET j == prod[p].key IN
    /\ prod[p].at = "missing"
    /\ status[j] = "absent"
    /\ Returned(p)
    /\ status' = [status EXCEPT ![j] = "pending"]
    /\ due' = [due EXCEPT ![j] = ready]
    /\ created' = Append(created, j)
    /\ asked' = [asked EXCEPT ![j] = TRUE]
    /\ UNCHANGED <<attempts, workVars, lapses>>

(* Another producer inserted the key first: its row stands for both calls. *)
CreateConflict(p) ==
    /\ prod[p].at = "missing"
    /\ status[prod[p].key] # "absent"
    /\ Returned(p)
    /\ UNCHANGED <<rowVars, workVars, asked, lapses>>

-----------------------------------------------------------------------------
(* Fault variant: only fresh rows are claimed, neither retries nor leases. *)
ClaimablePendingOnly(j) == status[j] = "pending" /\ due[j]

(* Due to be claimed: never run, waiting for a retry, or abandoned. *)
Claimable(j) == status[j] \in {"pending", "failed", "processing"} /\ due[j]

(* The rows claim's findFirst may return, as positions in createdAt order. *)
CandidatesOf(w) ==
    {n \in 1..Len(created) :
        Claimable(created[n]) /\ LeaseClass[created[n]] = plan[w]}

(* Fault variant: the loop never looks past the longest leases. *)
NextPlanFirst(w) == 1

NextPlan(w) == IF plan[w] = Plans THEN 1 ELSE plan[w] + 1

(* claim, first statement: the oldest due row of this plan entry.          *)
ClaimRead(w) ==
    /\ pc[w] = "poll"
    /\ \E n \in CandidatesOf(w) :
          /\ \A m \in CandidatesOf(w) : n <= m
          /\ pc' = [pc EXCEPT ![w] = "picked"]
          /\ job' = [job EXCEPT ![w] = created[n]]
          /\ ripe' = [ripe EXCEPT ![w] = TRUE]
    /\ UNCHANGED <<rowVars, plan, seen, prod, asked, lapses>>

(* No row is due in this entry: on to the next, and to sleep at the end.   *)
ClaimNone(w) ==
    /\ pc[w] = "poll"
    /\ CandidatesOf(w) = {}
    /\ plan' = [plan EXCEPT ![w] = NextPlan(w)]
    /\ UNCHANGED <<rowVars, pc, job, ripe, seen, prod, asked, lapses>>

(* Fault variant: the guard trusts the earlier read of the row. *)
ClaimGuardUnconditional(w) == status[job[w]] \in {"pending", "failed", "processing"}

(* The row still matches the guard of claim's updateMany. *)
ClaimGuard(w) ==
    \/ status[job[w]] = "pending"
    \/ status[job[w]] \in {"failed", "processing"} /\ ripe[w]

(* claim, second statement: take the row.                                  *)
ClaimWrite(w) ==
    LET j == job[w] IN
    /\ pc[w] = "picked"
    /\ ClaimGuard(w)
    /\ status' = [status EXCEPT ![j] = "processing"]
    /\ attempts' = [attempts EXCEPT ![j] = @ + 1]
    /\ due' = [due EXCEPT ![j] = FALSE]
    /\ ripe' = Restamp(j)
    /\ pc' = [pc EXCEPT ![w] = "running"]
    /\ asked' = [asked EXCEPT ![j] = FALSE]
    /\ UNCHANGED <<created, job, plan, seen, prod, lapses>>

(* The row went to another claimer; the loop tries the next plan entry.    *)
ClaimLost(w) ==
    /\ pc[w] = "picked"
    /\ ~ClaimGuard(w)
    /\ pc' = [pc EXCEPT ![w] = "poll"]
    /\ job' = [job EXCEPT ![w] = NoJob]
    /\ ripe' = [ripe EXCEPT ![w] = FALSE]
    /\ plan' = [plan EXCEPT ![w] = NextPlan(w)]
    /\ UNCHANGED <<rowVars, seen, prod, asked, lapses>>

(* The loop re-enters the plan from the top, and forgets what it read. *)
BackToTop(w) ==
    /\ pc' = [pc EXCEPT ![w] = "poll"]
    /\ job' = [job EXCEPT ![w] = NoJob]
    /\ seen' = [seen EXCEPT ![w] = 0]
    /\ plan' = [plan EXCEPT ![w] = 1]

(* The handler returned; complete writes by row id alone. *)
Complete(w) ==
    /\ pc[w] = "running"
    /\ BackToTop(w)
    /\ status' = [status EXCEPT ![job[w]] = "done"]
    /\ UNCHANGED <<attempts, due, created, ripe, prod, asked, lapses>>

(* The handler threw; fail first reads the row. *)
HandlerThrows(w) ==
    /\ pc[w] = "running"
    /\ pc' = [pc EXCEPT ![w] = "failing"]
    /\ seen' = [seen EXCEPT ![w] = attempts[job[w]]]
    /\ UNCHANGED <<rowVars, job, plan, ripe, prod, asked, lapses>>

(* fail, second statement: dead-letter, or park the row behind a backoff. *)
FailWrite(w) ==
    LET j == job[w] IN
    /\ pc[w] = "failing"
    /\ BackToTop(w)
    /\ status' = [status EXCEPT ![j] =
                     IF seen[w] >= MaxAttempts THEN "dead" ELSE "failed"]
    /\ due' = [due EXCEPT ![j] = FALSE]
    /\ ripe' = Restamp(j)
    /\ UNCHANGED <<attempts, created, prod, asked, lapses>>

(* The process dies, or the outcome write fails and is only logged: either *)
(* way the row is left as it stands and the loop starts over.              *)
Lapse(w) ==
    /\ pc[w] # "poll"
    /\ lapses < MaxLapses
    /\ lapses' = lapses + 1
    /\ BackToTop(w)
    /\ ripe' = [ripe EXCEPT ![w] = FALSE]
    /\ UNCHANGED <<rowVars, prod, asked>>

(* A run-after time, a backoff or a lease passes.  A lease outlasts the    *)
(* handler it was given to, so it passes only once the holder is gone.     *)
ClockPasses(j) ==
    /\ status[j] \in {"pending", "failed", "processing"}
    /\ ~due[j]
    /\ Holders(j) = {}
    /\ due' = [due EXCEPT ![j] = TRUE]
    /\ UNCHANGED <<status, attempts, created, workVars, prod, asked, lapses>>

-----------------------------------------------------------------------------
WorkerStep(w) ==
    \/ ClaimRead(w) \/ ClaimNone(w) \/ ClaimWrite(w) \/ ClaimLost(w)
    \/ Complete(w) \/ HandlerThrows(w) \/ FailWrite(w)

ProducerStep(p) ==
    \/ \E j \in Jobs : EnqueueRead(p, j)
    \/ \E ready \in BOOLEAN : Rearm(p, ready) \/ Create(p, ready)
    \/ RearmSkipped(p) \/ CreateConflict(p)

Next ==
    \/ \E w \in Workers : WorkerStep(w) \/ Lapse(w)
    \/ \E p \in Producers : ProducerStep(p)
    \/ \E j \in Jobs : ClockPasses(j)

Spec == Init /\ [][Next]_vars

(* The loop never stops on its own (worker.ts), and time passes. *)
Fairness ==
    /\ \A w \in Workers : WF_vars(WorkerStep(w))
    /\ \A j \in Jobs : WF_vars(ClockPasses(j))

FairSpec == Spec /\ Fairness

-----------------------------------------------------------------------------
(* Two workers never run the handler of one job at the same time, whatever *)
(* the interleaving of their two-statement claims (jobs.ts claim).         *)
OneHolder ==
    \A v, w \in Workers :
        Holding(v) /\ Holding(w) /\ job[v] = job[w] => v = w

(* A re-armed row stays claimable until a handler starts: no late outcome  *)
(* of an earlier run may bury it (jobs.ts enqueue, complete and fail).     *)
ArmKept == \A j \in Jobs : asked[j] => status[j] = "pending"

(* A job is dead-lettered only by a failure that used up its budget as it  *)
(* stands, not a budget read before a re-arm reset it (jobs.ts fail).      *)
DeadOnlyWhenSpent ==
    [][\A j \in Jobs : status[j] # "dead" /\ status'[j] = "dead"
                          => attempts[j] >= MaxAttempts]_vars

(* A job's handler is started at most maxAttempts times between two arms:  *)
(* "bounded retries and a terminal dead-letter state" (architecture.md).   *)
BoundedRetries == \A j \in Jobs : attempts[j] <= MaxAttempts

(* Once the producers are through, every row in flight reaches an outcome, *)
(* crashes and retries included.                                           *)
EveryJobSettles ==
    <>[](\A p \in Producers : prod[p].at = "idle") =>
        \A j \in Jobs : status[j] \in {"pending", "processing", "failed"}
                            ~> status[j] \in {"done", "dead"}

(* Row k is claimed before row j: an earlier plan entry, or an older row.  *)
Ahead(k, j) ==
    \/ LeaseClass[k] < LeaseClass[j]
    \/ /\ LeaseClass[k] = LeaseClass[j]
       /\ \E m, n \in 1..Len(created) : m < n /\ created[m] = k /\ created[n] = j

(* However often producers arm and re-arm, an armed row that is due does   *)
(* not wait for ever unless rows ahead of it come due again and again: the *)
(* loop goes back to the top of the plan after every job (worker.ts), and  *)
(* nothing but that holds up a later entry.                                *)
EveryArmRuns ==
    \A j \in Jobs : []<>(\/ ~asked[j] \/ ~due[j]
                         \/ \E k \in Jobs : Ahead(k, j) /\ Claimable(k))

(* The same without that exception: an earlier entry that always has work  *)
(* starves the later ones.                                                 *)
NoEntryStarves == \A j \in Jobs : []<>(~asked[j] \/ ~due[j])

-----------------------------------------------------------------------------
(* The board this protocol implements: a row's holders are the workers     *)
(* running its handler.                                                    *)
PhaseOf(s) == CASE s = "pending" -> "armed"
                [] s = "processing" -> "running"
                [] OTHER -> s

Board == INSTANCE JobBoard WITH
    phase <- [j \in Jobs |-> PhaseOf(status[j])],
    tries <- attempts,
    holders <- [j \in Jobs |-> Holders(j)]

(* The row-and-lease protocol implements the board: one holder at a time,  *)
(* outcomes written by the holder only, retries counted (jobs.ts).         *)
ImplementsBoard == Board!Spec
=============================================================================
