--------------------------- MODULE JobQueue_proofs ---------------------------
(***************************************************************************)
(* What JobQueue promises for every number of jobs, workers and producers: *)
(* one holder per job, no armed row buried, dead letters only for spent    *)
(* budgets, and the refinement of JobBoard.                                *)
(***************************************************************************)
EXTENDS JobQueue, TLAPS

(* A running handler's row is "processing" under a lease that has not      *)
(* passed.                                                                 *)
LeaseHeld ==
    \A w \in Workers : Holding(w) => status[job[w]] = "processing" /\ ~due[job[w]]

(* The budget fail() read is still the row's when it writes.               *)
BudgetSeen == \A w \in Workers : pc[w] = "failing" => seen[w] = attempts[job[w]]

(* A read that still passes the claim guard is of a row that is still due. *)
ReadFresh == \A w \in Workers : pc[w] = "picked" /\ ripe[w] => due[job[w]]

(* A row nobody inserted has its initial columns.                          *)
Unborn == \A j \in Jobs : status[j] = "absent" => attempts[j] = 0 /\ ~due[j]

IInv ==
    /\ TypeOK
    /\ LeaseHeld
    /\ OneHolder
    /\ BudgetSeen
    /\ ReadFresh
    /\ Unborn
    /\ ArmKept

-----------------------------------------------------------------------------
(* The queue starts without rows or holders.                               *)
LEMMA InitIInv == Init => IInv
  BY QueueAssumption
  DEF Init, IInv, TypeOK, LeaseHeld, OneHolder, BudgetSeen, ReadFresh, Unborn,
      ArmKept, Holding, Statuses

(* The type invariant is inductive by itself: no statement of the queue    *)
(* writes a column outside its range (jobs.ts, worker.ts).                 *)
LEMMA TypeStep == TypeOK /\ [Next]_vars => TypeOK'
<1> SUFFICES ASSUME TypeOK, [Next]_vars PROVE TypeOK'
    OBVIOUS
<1> USE QueueAssumption DEF TypeOK, Statuses
<1>0. /\ \A w \in Workers : NextPlan(w) \in 1..Plans
      /\ \A j \in Jobs : Restamp(j) \in [Workers -> BOOLEAN]
  BY DEF NextPlan, Restamp
<1>1. ASSUME NEW w \in Workers, ClaimRead(w) PROVE TypeOK'
  <2>1. \A n \in CandidatesOf(w) : created[n] \in Jobs
    BY DEF CandidatesOf
  <2> QED
    BY <1>1, <2>1 DEF ClaimRead, rowVars
<1>2. ASSUME NEW w \in Workers, ClaimNone(w) PROVE TypeOK'
  BY <1>0, <1>2 DEF ClaimNone, rowVars
<1>3. ASSUME NEW w \in Workers, ClaimWrite(w) PROVE TypeOK'
  <2>1. job[w] \in Jobs /\ attempts[job[w]] + 1 \in Nat
    BY <1>3 DEF ClaimWrite
  <2> QED
    BY <1>0, <1>3, <2>1 DEF ClaimWrite
<1>4. ASSUME NEW w \in Workers, ClaimLost(w) PROVE TypeOK'
  BY <1>0, <1>4 DEF ClaimLost, rowVars
<1>5. ASSUME NEW w \in Workers, Complete(w) PROVE TypeOK'
  BY <1>5 DEF Complete, BackToTop
<1>6. ASSUME NEW w \in Workers, HandlerThrows(w) PROVE TypeOK'
  BY <1>6 DEF HandlerThrows, rowVars
<1>7. ASSUME NEW w \in Workers, FailWrite(w) PROVE TypeOK'
  BY <1>7 DEF FailWrite, BackToTop, Restamp
<1>8. ASSUME NEW w \in Workers, Lapse(w) PROVE TypeOK'
  BY <1>8 DEF Lapse, BackToTop, rowVars
<1>9. ASSUME NEW p \in Producers, NEW j \in Jobs, EnqueueRead(p, j) PROVE TypeOK'
  BY <1>9 DEF EnqueueRead, rowVars, workVars
<1>10. ASSUME NEW p \in Producers, NEW ready \in BOOLEAN, Rearm(p, ready)
       PROVE TypeOK'
  BY <1>0, <1>10 DEF Rearm, Returned
<1>11. ASSUME NEW p \in Producers, RearmSkipped(p) PROVE TypeOK'
  BY <1>11 DEF RearmSkipped, Returned, rowVars, workVars
<1>12. ASSUME NEW p \in Producers, NEW ready \in BOOLEAN, Create(p, ready)
       PROVE TypeOK'
  BY <1>12 DEF Create, Returned, workVars
<1>13. ASSUME NEW p \in Producers, CreateConflict(p) PROVE TypeOK'
  BY <1>13 DEF CreateConflict, Returned, rowVars, workVars
<1>14. ASSUME NEW j \in Jobs, ClockPasses(j) PROVE TypeOK'
  BY <1>14 DEF ClockPasses, workVars
<1>15. CASE UNCHANGED vars
  BY <1>15 DEF vars, rowVars, workVars
<1> QED
  BY <1>1, <1>2, <1>3, <1>4, <1>5, <1>6, <1>7, <1>8, <1>9, <1>10, <1>11,
     <1>12, <1>13, <1>14, <1>15, Zenon
  DEF Next, WorkerStep, ProducerStep

-----------------------------------------------------------------------------
(* Every step of a worker, a producer or the clock keeps the invariant.    *)
LEMMA InductiveStep == IInv /\ [Next]_vars => IInv'
<1> SUFFICES ASSUME IInv, [Next]_vars PROVE IInv'
    OBVIOUS
<1>0. TypeOK'
  BY TypeStep DEF IInv
<1> USE DEF IInv, TypeOK, Statuses, Holding
<1>1. ASSUME NEW w \in Workers, ClaimRead(w) PROVE IInv'
  <2>1. LeaseHeld'
    BY <1>1 DEF ClaimRead, rowVars, CandidatesOf, Claimable, LeaseHeld
  <2>2. OneHolder'
    BY <1>1 DEF ClaimRead, rowVars, CandidatesOf, Claimable, OneHolder
  <2>3. BudgetSeen'
    BY <1>1 DEF ClaimRead, rowVars, CandidatesOf, Claimable, BudgetSeen
  <2>4. ReadFresh'
    BY <1>1 DEF ClaimRead, rowVars, CandidatesOf, Claimable, ReadFresh
  <2>5. Unborn'
    BY <1>1 DEF ClaimRead, rowVars, CandidatesOf, Claimable, Unborn
  <2>6. ArmKept'
    BY <1>1 DEF ClaimRead, rowVars, CandidatesOf, Claimable, ArmKept
  <2> QED
    BY <1>0, <2>1, <2>2, <2>3, <2>4, <2>5, <2>6
<1>2. ASSUME NEW w \in Workers, ClaimNone(w) PROVE IInv'
  <2>1. LeaseHeld'
    BY <1>2 DEF ClaimNone, rowVars, LeaseHeld
  <2>2. OneHolder'
    BY <1>2 DEF ClaimNone, rowVars, OneHolder
  <2>3. BudgetSeen'
    BY <1>2 DEF ClaimNone, rowVars, BudgetSeen
  <2>4. ReadFresh'
    BY <1>2 DEF ClaimNone, rowVars, ReadFresh
  <2>5. Unborn'
    BY <1>2 DEF ClaimNone, rowVars, Unborn
  <2>6. ArmKept'
    BY <1>2 DEF ClaimNone, rowVars, ArmKept
  <2> QED
    BY <1>0, <2>1, <2>2, <2>3, <2>4, <2>5, <2>6
<1>3. ASSUME NEW w \in Workers, ClaimWrite(w) PROVE IInv'
  <2>1. LeaseHeld'
    BY <1>3 DEF ClaimWrite, ClaimGuard, Restamp, LeaseHeld
  <2>2. OneHolder'
    BY <1>3 DEF ClaimWrite, ClaimGuard, Restamp, OneHolder, LeaseHeld, ReadFresh
  <2>3. BudgetSeen'
    BY <1>3 DEF ClaimWrite, ClaimGuard, Restamp, BudgetSeen, LeaseHeld, ReadFresh
  <2>4. ReadFresh'
    BY <1>3 DEF ClaimWrite, ClaimGuard, Restamp, ReadFresh
  <2>5. Unborn'
    BY <1>3 DEF ClaimWrite, ClaimGuard, Restamp, Unborn
  <2>6. ArmKept'
    BY <1>3 DEF ClaimWrite, ClaimGuard, Restamp, ArmKept
  <2> QED
    BY <1>0, <2>1, <2>2, <2>3, <2>4, <2>5, <2>6
<1>4. ASSUME NEW w \in Workers, ClaimLost(w) PROVE IInv'
  <2>1. LeaseHeld'
    BY <1>4 DEF ClaimLost, rowVars, LeaseHeld
  <2>2. OneHolder'
    BY <1>4 DEF ClaimLost, rowVars, OneHolder
  <2>3. BudgetSeen'
    BY <1>4 DEF ClaimLost, rowVars, BudgetSeen
  <2>4. ReadFresh'
    BY <1>4 DEF ClaimLost, rowVars, ReadFresh
  <2>5. Unborn'
    BY <1>4 DEF ClaimLost, rowVars, Unborn
  <2>6. ArmKept'
    BY <1>4 DEF ClaimLost, rowVars, ArmKept
  <2> QED
    BY <1>0, <2>1, <2>2, <2>3, <2>4, <2>5, <2>6
<1>5. ASSUME NEW w \in Workers, Complete(w) PROVE IInv'
  <2>1. LeaseHeld'
    BY <1>5 DEF Complete, BackToTop, LeaseHeld, OneHolder
  <2>2. OneHolder'
    BY <1>5 DEF Complete, BackToTop, OneHolder
  <2>3. BudgetSeen'
    BY <1>5 DEF Complete, BackToTop, BudgetSeen
  <2>4. ReadFresh'
    BY <1>5 DEF Complete, BackToTop, ReadFresh
  <2>5. Unborn'
    BY <1>5 DEF Complete, BackToTop, Unborn
  <2>6. ArmKept'
    BY <1>5 DEF Complete, BackToTop, ArmKept, LeaseHeld
  <2> QED
    BY <1>0, <2>1, <2>2, <2>3, <2>4, <2>5, <2>6
<1>6. ASSUME NEW w \in Workers, HandlerThrows(w) PROVE IInv'
  <2>1. LeaseHeld'
    BY <1>6 DEF HandlerThrows, rowVars, LeaseHeld
  <2>2. OneHolder'
    BY <1>6 DEF HandlerThrows, rowVars, OneHolder
  <2>3. BudgetSeen'
    BY <1>6 DEF HandlerThrows, rowVars, BudgetSeen
  <2>4. ReadFresh'
    BY <1>6 DEF HandlerThrows, rowVars, ReadFresh
  <2>5. Unborn'
    BY <1>6 DEF HandlerThrows, rowVars, Unborn
  <2>6. ArmKept'
    BY <1>6 DEF HandlerThrows, rowVars, ArmKept
  <2> QED
    BY <1>0, <2>1, <2>2, <2>3, <2>4, <2>5, <2>6
<1>7. ASSUME NEW w \in Workers, FailWrite(w) PROVE IInv'
  <2>1. LeaseHeld'
    BY <1>7 DEF FailWrite, BackToTop, Restamp, LeaseHeld, OneHolder
  <2>2. OneHolder'
    BY <1>7 DEF FailWrite, BackToTop, Restamp, OneHolder
  <2>3. BudgetSeen'
    BY <1>7 DEF FailWrite, BackToTop, Restamp, BudgetSeen
  <2>4. ReadFresh'
    BY <1>7 DEF FailWrite, BackToTop, Restamp, ReadFresh
  <2>5. Unborn'
    BY <1>7 DEF FailWrite, BackToTop, Restamp, Unborn
  <2>6. ArmKept'
    BY <1>7 DEF FailWrite, BackToTop, Restamp, ArmKept, LeaseHeld
  <2> QED
    BY <1>0, <2>1, <2>2, <2>3, <2>4, <2>5, <2>6
<1>8. ASSUME NEW w \in Workers, Lapse(w) PROVE IInv'
  <2>1. LeaseHeld'
    BY <1>8 DEF Lapse, BackToTop, rowVars, LeaseHeld
  <2>2. OneHolder'
    BY <1>8 DEF Lapse, BackToTop, rowVars, OneHolder
  <2>3. BudgetSeen'
    BY <1>8 DEF Lapse, BackToTop, rowVars, BudgetSeen
  <2>4. ReadFresh'
    BY <1>8 DEF Lapse, BackToTop, rowVars, ReadFresh
  <2>5. Unborn'
    BY <1>8 DEF Lapse, BackToTop, rowVars, Unborn
  <2>6. ArmKept'
    BY <1>8 DEF Lapse, BackToTop, rowVars, ArmKept
  <2> QED
    BY <1>0, <2>1, <2>2, <2>3, <2>4, <2>5, <2>6
<1>9. ASSUME NEW p \in Producers, NEW j \in Jobs, EnqueueRead(p, j) PROVE IInv'
  <2>1. LeaseHeld'
    BY <1>9 DEF EnqueueRead, rowVars, workVars, LeaseHeld
  <2>2. OneHolder'
    BY <1>9 DEF EnqueueRead, rowVars, workVars, OneHolder
  <2>3. BudgetSeen'
    BY <1>9 DEF EnqueueRead, rowVars, workVars, BudgetSeen
  <2>4. ReadFresh'
    BY <1>9 DEF EnqueueRead, rowVars, workVars, ReadFresh
  <2>5. Unborn'
    BY <1>9 DEF EnqueueRead, rowVars, workVars, Unborn
  <2>6. ArmKept'
    BY <1>9 DEF EnqueueRead, rowVars, workVars, ArmKept
  <2> QED
    BY <1>0, <2>1, <2>2, <2>3, <2>4, <2>5, <2>6
<1>10. ASSUME NEW p \in Producers, NEW ready \in BOOLEAN,
              Rearm(p, ready) PROVE IInv'
  <2>1. LeaseHeld'
    BY <1>10 DEF Rearm, RearmGuard, Restamp, LeaseHeld
  <2>2. OneHolder'
    BY <1>10 DEF Rearm, RearmGuard, Restamp, OneHolder
  <2>3. BudgetSeen'
    BY <1>10 DEF Rearm, RearmGuard, Restamp, BudgetSeen, LeaseHeld
  <2>4. ReadFresh'
    BY <1>10 DEF Rearm, RearmGuard, Restamp, ReadFresh
  <2>5. Unborn'
    BY <1>10 DEF Rearm, RearmGuard, Restamp, Unborn
  <2>6. ArmKept'
    BY <1>10 DEF Rearm, RearmGuard, Restamp, ArmKept
  <2> QED
    BY <1>0, <2>1, <2>2, <2>3, <2>4, <2>5, <2>6
<1>11. ASSUME NEW p \in Producers, RearmSkipped(p) PROVE IInv'
  <2>1. LeaseHeld'
    BY <1>11 DEF RearmSkipped, rowVars, workVars, LeaseHeld
  <2>2. OneHolder'
    BY <1>11 DEF RearmSkipped, rowVars, workVars, OneHolder
  <2>3. BudgetSeen'
    BY <1>11 DEF RearmSkipped, rowVars, workVars, BudgetSeen
  <2>4. ReadFresh'
    BY <1>11 DEF RearmSkipped, rowVars, workVars, ReadFresh
  <2>5. Unborn'
    BY <1>11 DEF RearmSkipped, rowVars, workVars, Unborn
  <2>6. ArmKept'
    BY <1>11 DEF RearmSkipped, rowVars, workVars, ArmKept
  <2> QED
    BY <1>0, <2>1, <2>2, <2>3, <2>4, <2>5, <2>6
<1>12. ASSUME NEW p \in Producers, NEW ready \in BOOLEAN,
              Create(p, ready) PROVE IInv'
  <2>1. LeaseHeld'
    BY <1>12 DEF Create, workVars, LeaseHeld
  <2>2. OneHolder'
    BY <1>12 DEF Create, workVars, OneHolder
  <2>3. BudgetSeen'
    BY <1>12 DEF Create, workVars, BudgetSeen
  <2>4. ReadFresh'
    BY <1>12 DEF Create, workVars, ReadFresh, LeaseHeld, Unborn
  <2>5. Unborn'
    BY <1>12 DEF Create, workVars, Unborn
  <2>6. ArmKept'
    BY <1>12 DEF Create, workVars, ArmKept
  <2> QED
    BY <1>0, <2>1, <2>2, <2>3, <2>4, <2>5, <2>6
<1>13. ASSUME NEW p \in Producers, CreateConflict(p) PROVE IInv'
  <2>1. LeaseHeld'
    BY <1>13 DEF CreateConflict, rowVars, workVars, LeaseHeld
  <2>2. OneHolder'
    BY <1>13 DEF CreateConflict, rowVars, workVars, OneHolder
  <2>3. BudgetSeen'
    BY <1>13 DEF CreateConflict, rowVars, workVars, BudgetSeen
  <2>4. ReadFresh'
    BY <1>13 DEF CreateConflict, rowVars, workVars, ReadFresh
  <2>5. Unborn'
    BY <1>13 DEF CreateConflict, rowVars, workVars, Unborn
  <2>6. ArmKept'
    BY <1>13 DEF CreateConflict, rowVars, workVars, ArmKept
  <2> QED
    BY <1>0, <2>1, <2>2, <2>3, <2>4, <2>5, <2>6
<1>14. ASSUME NEW j \in Jobs, ClockPasses(j) PROVE IInv'
  <2>1. LeaseHeld'
    BY <1>14 DEF ClockPasses, workVars, Holders, LeaseHeld
  <2>2. OneHolder'
    BY <1>14 DEF ClockPasses, workVars, Holders, OneHolder
  <2>3. BudgetSeen'
    BY <1>14 DEF ClockPasses, workVars, Holders, BudgetSeen
  <2>4. ReadFresh'
    BY <1>14 DEF ClockPasses, workVars, Holders, ReadFresh
  <2>5. Unborn'
    BY <1>14 DEF ClockPasses, workVars, Holders, Unborn
  <2>6. ArmKept'
    BY <1>14 DEF ClockPasses, workVars, Holders, ArmKept
  <2> QED
    BY <1>0, <2>1, <2>2, <2>3, <2>4, <2>5, <2>6
<1>15. CASE UNCHANGED vars
  BY <1>0, <1>15 DEF vars, rowVars, workVars, LeaseHeld, OneHolder, BudgetSeen,
     ReadFresh, Unborn, ArmKept
<1> QED
  BY <1>1, <1>2, <1>3, <1>4, <1>5, <1>6, <1>7, <1>8,
     <1>9, <1>10, <1>11, <1>12, <1>13, <1>14, <1>15, Zenon
  DEF Next, WorkerStep, ProducerStep

-----------------------------------------------------------------------------
(* The invariant holds throughout every run of the queue.                  *)
LEMMA Invariance == Spec => []IInv
<1>1. Init => IInv
  BY InitIInv
<1>2. IInv /\ [Next]_vars => IInv'
  BY InductiveStep
<1> QED
  BY <1>1, <1>2, PTL DEF Spec

(* The rows, the workers and the producers keep their ranges (jobs.ts).    *)
THEOREM TypeCorrect == Spec => []TypeOK
<1>1. IInv => TypeOK
  BY DEF IInv
<1> QED
  BY <1>1, Invariance, PTL

(* No job is handled by two workers at once, for any number of workers and *)
(* producers and any crashes (jobs.ts claim): its guard is the only lock.  *)
THEOREM MutualExclusion == Spec => []OneHolder
<1>1. IInv => OneHolder
  BY DEF IInv
<1> QED
  BY <1>1, Invariance, PTL

(* A re-armed row is never buried by the outcome of an earlier run: it     *)
(* stays pending until its own handler starts (jobs.ts enqueue).           *)
THEOREM ArmsAreKept == Spec => []ArmKept
<1>1. IInv => ArmKept
  BY DEF IInv
<1> QED
  BY <1>1, Invariance, PTL

(* fail() dead-letters a row only when the row's own attempts, at the time *)
(* it writes, have reached maxAttempts (jobs.ts fail).                     *)
THEOREM DeadLetters == Spec => DeadOnlyWhenSpent
<1>1. IInv /\ [Next]_vars => [\A j \in Jobs : status[j] # "dead" /\ status'[j] = "dead"
                                 => attempts[j] >= MaxAttempts]_vars
  <2> SUFFICES ASSUME IInv, Next, NEW j \in Jobs, status[j] # "dead", status'[j] = "dead"
               PROVE  attempts[j] >= MaxAttempts
    OBVIOUS
  <2>1. \A w \in Workers : ~FailWrite(w) => ~(WorkerStep(w) \/ Lapse(w))
    BY DEF IInv, TypeOK, WorkerStep, Lapse, ClaimRead, ClaimNone, ClaimWrite,
       ClaimLost, Complete, HandlerThrows, BackToTop, rowVars
  <2>2. \A p \in Producers : ~ProducerStep(p)
    BY DEF IInv, TypeOK, ProducerStep, EnqueueRead, Rearm, RearmSkipped, Create,
       CreateConflict, rowVars
  <2>3. \A k \in Jobs : ~ClockPasses(k)
    BY DEF ClockPasses
  <2>4. PICK w \in Workers : FailWrite(w)
    BY <2>1, <2>2, <2>3, Zenon DEF Next
  <2> QED
    BY <2>4 DEF FailWrite, IInv, TypeOK, BudgetSeen
<1> QED
  BY <1>1, Invariance, PTL DEF Spec, DeadOnlyWhenSpent

-----------------------------------------------------------------------------
(* The refinement.  What a step does to the board's two derived variables: *)
(* a column that is not status leaves the phases alone, and only a worker  *)
(* that starts or ends a handler changes who holds what.                   *)
Phase == [j \in Jobs |-> PhaseOf(status[j])]
Held == [j \in Jobs |-> Holders(j)]

(* One row's new status is one job's new phase.                            *)
LEMMA PhaseUpdate ==
    ASSUME TypeOK, NEW k \in Jobs, NEW s \in Statuses,
           status' = [status EXCEPT ![k] = s]
    PROVE  Phase' = [Phase EXCEPT ![k] = PhaseOf(s)]
  BY DEF TypeOK, Phase, PhaseOf

(* A step that moves no worker changes no holder.                          *)
LEMMA HeldKept ==
    ASSUME TypeOK, UNCHANGED job, \A v \in Workers : Holding(v)' = Holding(v)
    PROVE  UNCHANGED Held
  BY DEF Held, Holders

(* A worker that held nothing, and still holds nothing, changes no holder. *)
LEMMA HeldIdle ==
    ASSUME TypeOK, NEW w \in Workers, ~Holding(w), ~Holding(w)',
           \A v \in Workers \ {w} : pc'[v] = pc[v] /\ job'[v] = job[v]
    PROVE  UNCHANGED Held
<1>1. \A j \in Jobs : Holders(j)' = Holders(j)
  BY DEF Holders, Holding
<1> QED
  BY <1>1 DEF Held

(* The holder of job[w] lets go of it, and of nothing else.                *)
LEMMA HeldReleased ==
    ASSUME TypeOK, NEW w \in Workers, Holding(w), BackToTop(w)
    PROVE  Held' = [Held EXCEPT ![job[w]] = @ \ {w}]
<1>1. job[w] \in Jobs
  BY DEF TypeOK, Holding
<1>2. \A v \in Workers : Holding(v)' <=> Holding(v) /\ v # w
  BY DEF TypeOK, Holding, BackToTop
<1>3. \A v \in Workers : v # w => job'[v] = job[v]
  BY DEF TypeOK, BackToTop
<1>4. \A j \in Jobs : Holders(j)' = IF j = job[w] THEN Holders(j) \ {w} ELSE Holders(j)
  BY <1>2, <1>3 DEF Holders
<1> QED
  BY <1>1, <1>4 DEF Held

(* An empty table is an empty board.                                       *)
LEMMA BoardInit == Init => Board!Init
  BY DEF Init, Board!Init, Holders, Holding, PhaseOf

(* A step that leaves the status, the attempts and the holders alone is a   *)
(* stutter of the board.                                                   *)
LEMMA BoardStutter ==
    ASSUME UNCHANGED <<status, attempts>>, UNCHANGED Held
    PROVE  UNCHANGED Board!vars
  BY DEF Board!vars, Held

(* The board's view of a row, for the guards of its actions.               *)
LEMMA BoardView ==
    ASSUME IInv, NEW j \in Jobs
    PROVE  /\ Phase[j] = PhaseOf(status[j])
           /\ Held[j] = Holders(j)
           /\ status[j] # "processing" => Held[j] = {} /\ Phase[j] # "running"
           /\ \A w \in Workers : w \in Held[j] <=> Holding(w) /\ job[w] = j
<1>1. Phase[j] = PhaseOf(status[j])
  BY DEF Phase
<1>2. Held[j] = Holders(j)
  BY DEF Held
<1>3. \A w \in Workers : w \in Held[j] <=> Holding(w) /\ job[w] = j
  BY <1>2 DEF Holders
<1>4. ASSUME status[j] # "processing"
      PROVE  Held[j] = {} /\ Phase[j] # "running"
  <2>1. Held[j] = {}
    BY <1>2, <1>4 DEF IInv, LeaseHeld, Holders
  <2>2. status[j] \in Statuses
    BY DEF IInv, TypeOK
  <2>3. PhaseOf(status[j]) # "running"
    BY <2>2, <1>4 DEF PhaseOf, Statuses
  <2> QED
    BY <2>1, <2>3, <1>1
<1> QED
  BY <1>1, <1>2, <1>3, <1>4

(* Winning the row is taking the job.                                      *)
LEMMA TakeStep ==
    ASSUME IInv, NEW w \in Workers, ClaimWrite(w)
    PROVE  Board!Take(w, job[w])
<1> DEFINE j == job[w]
<1>0. TypeOK /\ j \in Jobs
  BY DEF IInv, TypeOK, ClaimWrite
<1>1. Phase' = [Phase EXCEPT ![j] = "running"]
  BY <1>0, PhaseUpdate DEF ClaimWrite, Statuses, PhaseOf
<1>2. /\ Phase[j] \in {"armed", "failed", "running"}
      /\ Held[j] = {}
  <2>1. ClaimGuard(w)
    BY DEF ClaimWrite
  <2>2. \A v \in Workers : ~(Holding(v) /\ job[v] = j)
    BY <2>1 DEF ClaimGuard, IInv, LeaseHeld, ReadFresh, ClaimWrite
  <2>3. Held[j] = {}
    BY <1>0, <2>2 DEF Held, Holders
  <2>4. Phase[j] = PhaseOf(status[j])
    BY <1>0, BoardView
  <2> QED
    BY <2>1, <2>3, <2>4 DEF ClaimGuard, PhaseOf
<1>3. \A k \in Jobs : w \notin Held[k]
  BY BoardView DEF ClaimWrite, Holding
<1>4. \A k \in Jobs : Holders(k)' = IF k = j THEN {w} ELSE Holders(k)
  <2>1. \A v \in Workers : Holding(v)' <=> Holding(v) \/ v = w
    BY <1>0 DEF ClaimWrite, Holding, TypeOK
  <2>2. Holders(j) = {}
    BY <1>0, <1>2, BoardView
  <2> QED
    BY <1>3, <2>1, <2>2, BoardView DEF Holders, ClaimWrite
<1>5. Held' = [Held EXCEPT ![j] = {w}]
  BY <1>0, <1>4 DEF Held
<1>6. attempts' = [attempts EXCEPT ![j] = @ + 1]
  BY DEF ClaimWrite
<1> QED
  BY <1>1, <1>2, <1>3, <1>5, <1>6 DEF Board!Take, Phase, Held

(* Letting go of a job one holds: what the board's three outcomes share.   *)
LEMMA ReleaseStep ==
    ASSUME IInv, NEW w \in Workers, Holding(w), BackToTop(w), UNCHANGED attempts
    PROVE  Board!Release(w, job[w])
<1>0. TypeOK /\ job[w] \in Jobs
  BY DEF IInv, TypeOK, Holding
<1>1. Held' = [Held EXCEPT ![job[w]] = @ \ {w}]
  BY <1>0, HeldReleased
<1>2. w \in Held[job[w]] /\ Phase[job[w]] = "running"
  BY <1>0, BoardView DEF IInv, LeaseHeld, PhaseOf
<1> QED
  BY <1>1, <1>2 DEF Board!Release, Phase, Held

(* complete() is the board's Finish.                                       *)
LEMMA FinishStep ==
    ASSUME IInv, NEW w \in Workers, Complete(w)
    PROVE  Board!Finish(w, job[w])
<1>0. TypeOK /\ job[w] \in Jobs
  BY DEF IInv, TypeOK, Complete
<1>1. Board!Release(w, job[w])
  BY ReleaseStep DEF Complete, Holding
<1>2. Phase' = [Phase EXCEPT ![job[w]] = "done"]
  BY <1>0, PhaseUpdate DEF Complete, Statuses, PhaseOf
<1> QED
  BY <1>1, <1>2 DEF Board!Finish, Phase

(* fail() is the board's Fail: what it read of attempts still stands.      *)
LEMMA FailStep ==
    ASSUME IInv, NEW w \in Workers, FailWrite(w)
    PROVE  Board!Fail(w, job[w])
<1> DEFINE s == IF attempts[job[w]] >= MaxAttempts THEN "dead" ELSE "failed"
<1>0. TypeOK /\ job[w] \in Jobs
  BY DEF IInv, TypeOK, FailWrite
<1>1. Board!Release(w, job[w])
  BY ReleaseStep DEF FailWrite, Holding
<1>2. seen[w] = attempts[job[w]]
  BY DEF IInv, BudgetSeen, FailWrite
<1>3. status' = [status EXCEPT ![job[w]] = s]
  BY <1>2 DEF FailWrite
<1>4. s \in Statuses /\ PhaseOf(s) = s
  BY DEF Statuses, PhaseOf
<1>5. Phase' = [Phase EXCEPT ![job[w]] = s]
  BY <1>0, <1>3, <1>4, PhaseUpdate
<1> QED
  BY <1>1, <1>5 DEF Board!Fail, Phase

(* A re-arm, or a new row, is the board's Arm.                             *)
LEMMA ArmStep ==
    ASSUME IInv, NEW p \in Producers, NEW ready \in BOOLEAN,
           Rearm(p, ready) \/ Create(p, ready)
    PROVE  Board!Arm(prod[p].key)
<1> DEFINE j == prod[p].key
<1>0. TypeOK /\ j \in Jobs
  BY DEF IInv, TypeOK, Rearm, Create
<1>1. Phase' = [Phase EXCEPT ![j] = "armed"]
  BY <1>0, PhaseUpdate DEF Rearm, Create, Statuses, PhaseOf
<1>2. Phase[j] # "running"
  BY <1>0, BoardView DEF Rearm, RearmGuard, Create
<1>3. attempts' = [attempts EXCEPT ![j] = 0]
  BY <1>0 DEF Rearm, Create, IInv, Unborn, TypeOK
<1>4. UNCHANGED Held
  BY <1>0, HeldKept DEF Rearm, Create, workVars, Holding
<1> QED
  BY <1>1, <1>2, <1>3, <1>4 DEF Board!Arm, Phase, Held

(* Every step of the queue is a step of the board, or none.                *)
LEMMA BoardStep == IInv /\ [Next]_vars => [Board!Next]_(Board!vars)
<1> SUFFICES ASSUME IInv, [Next]_vars PROVE [Board!Next]_(Board!vars)
    OBVIOUS
<1>0. TypeOK
  BY DEF IInv
<1>1. ASSUME NEW w \in Workers, ClaimRead(w) \/ ClaimNone(w) \/ ClaimLost(w)
      PROVE  UNCHANGED Board!vars
  <2>1. ~Holding(w) /\ ~Holding(w)'
    BY <1>0, <1>1 DEF ClaimRead, ClaimNone, ClaimLost, Holding, TypeOK
  <2>2. \A v \in Workers \ {w} : pc'[v] = pc[v] /\ job'[v] = job[v]
    BY <1>0, <1>1 DEF ClaimRead, ClaimNone, ClaimLost, TypeOK
  <2> QED
    BY <1>0, <1>1, <2>1, <2>2, HeldIdle, BoardStutter
    DEF ClaimRead, ClaimNone, ClaimLost, rowVars
<1>2. ASSUME NEW w \in Workers, HandlerThrows(w) PROVE UNCHANGED Board!vars
  <2>1. \A v \in Workers : Holding(v)' = Holding(v)
    BY <1>0, <1>2 DEF HandlerThrows, Holding, TypeOK
  <2> QED
    BY <1>0, <1>2, <2>1, HeldKept, BoardStutter DEF HandlerThrows, rowVars
<1>3. ASSUME NEW w \in Workers, Lapse(w)
      PROVE  Board!Abandon(w, job[w]) \/ UNCHANGED Board!vars
  <2>1. CASE Holding(w)
    <3>1. Board!Release(w, job[w])
      BY <1>3, <2>1, ReleaseStep DEF Lapse, rowVars
    <3> QED
      BY <1>3, <3>1 DEF Lapse, rowVars, Board!Abandon
  <2>2. CASE ~Holding(w)
    <3>1. ~Holding(w)' /\ \A v \in Workers \ {w} : pc'[v] = pc[v] /\ job'[v] = job[v]
      BY <1>0, <1>3 DEF Lapse, BackToTop, Holding, TypeOK
    <3> QED
      BY <1>0, <1>3, <2>2, <3>1, HeldIdle, BoardStutter DEF Lapse, rowVars
  <2> QED
    BY <2>1, <2>2
<1>4. ASSUME UNCHANGED <<status, attempts, pc, job>> PROVE UNCHANGED Board!vars
  BY <1>0, <1>4, HeldKept, BoardStutter DEF Holding
<1>5. ASSUME NEW p \in Producers, NEW j \in Jobs, EnqueueRead(p, j)
      PROVE  UNCHANGED Board!vars
  BY <1>4, <1>5 DEF EnqueueRead, rowVars, workVars
<1>6. ASSUME NEW p \in Producers, RearmSkipped(p) \/ CreateConflict(p)
      PROVE  UNCHANGED Board!vars
  BY <1>4, <1>6 DEF RearmSkipped, CreateConflict, rowVars, workVars
<1>7. ASSUME NEW j \in Jobs, ClockPasses(j) PROVE UNCHANGED Board!vars
  BY <1>4, <1>7 DEF ClockPasses, workVars
<1>8. ASSUME UNCHANGED vars PROVE UNCHANGED Board!vars
  BY <1>4, <1>8 DEF vars, rowVars, workVars
<1>9. \A w \in Workers : pc[w] # "poll" => job[w] \in Jobs
  BY <1>0 DEF TypeOK
<1>10. ASSUME NEW w \in Workers, WorkerStep(w) \/ Lapse(w)
       PROVE  Board!Next \/ UNCHANGED Board!vars
  <2>1. CASE ClaimWrite(w)
    BY <1>9, <2>1, TakeStep DEF ClaimWrite, Board!Next
  <2>2. CASE Complete(w)
    BY <1>9, <2>2, FinishStep DEF Complete, Board!Next
  <2>3. CASE FailWrite(w)
    BY <1>9, <2>3, FailStep DEF FailWrite, Board!Next
  <2>4. CASE Lapse(w)
    BY <1>3, <1>9, <2>4 DEF Lapse, Board!Next
  <2> QED
    BY <1>1, <1>2, <1>10, <2>1, <2>2, <2>3, <2>4, Zenon DEF WorkerStep
<1>11. ASSUME NEW p \in Producers, ProducerStep(p)
       PROVE  Board!Next \/ UNCHANGED Board!vars
  <2>1. ASSUME NEW ready \in BOOLEAN, Rearm(p, ready) \/ Create(p, ready)
        PROVE  Board!Next
    <3>1. prod[p].key \in Jobs
      BY <1>0, <2>1 DEF TypeOK, Rearm, Create
    <3> QED
      BY <2>1, <3>1, ArmStep DEF Board!Next
  <2> QED
    BY <1>5, <1>6, <1>11, <2>1, Zenon DEF ProducerStep
<1> QED
  BY <1>7, <1>8, <1>10, <1>11, Zenon DEF Next

(* The table, the two-statement claim and the lease implement the board,   *)
(* for any number of jobs, workers and producers (jobs.ts, worker.ts).     *)
THEOREM QueueImplementsBoard == Spec => ImplementsBoard
<1>1. Init => Board!Init
  BY BoardInit
<1>2. IInv /\ [Next]_vars => [Board!Next]_(Board!vars)
  BY BoardStep
<1> QED
  BY <1>1, <1>2, Invariance, PTL DEF Spec, ImplementsBoard, Board!Spec
=============================================================================
