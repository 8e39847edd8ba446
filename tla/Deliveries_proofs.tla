-------------------------- MODULE Deliveries_proofs --------------------------
(***************************************************************************)
(* What Deliveries promises for every number of notifications, channels,   *)
(* dispatchers, attempts and faults: one sender per row, no second copy    *)
(* without one of its three causes, done means settled, and the order is   *)
(* kept.                                                                   *)
(***************************************************************************)
EXTENDS Deliveries, TLAPS

(* A row the exceptions of DoneIsSettled and InOrder leave alone.          *)
Calm(r) == ~Stirred(r)

Settled(r) == delivery[r] \in {"sent", "dead"}

(* A notification that is not recorded has no rows, no dispatcher and no   *)
(* retry of an admin.                                                      *)
Unborn ==
    /\ \A r \in Rows : note[r[1]] = "absent" => delivery[r] = "none"
    /\ \A d \in Dispatchers : at[d] # 0 => note[at[d]] # "absent"
    /\ \A r \in Rows : requeues[r] > 0 => note[r[1]] # "absent"

(* Where dispatchChannel may go from a step of its own.                    *)
Moves == {"claim", "send", "sent", "caught", "close", "again", "over"}

(* Between ticks a dispatcher remembers nothing.                           *)
RestsQuietly == \A d \in Dispatchers : at[d] = 0 => step[d] = Quiet

(* The lease of a row neither taken over nor requeued has one owner, and   *)
(* the row says so: processing, or sent by an owner that is in the catch.  *)
LeaseHeld ==
    \A r \in Rows : r \notin takenOver \cup requeued =>
        /\ \A d \in Dispatchers : Sends(d, r) =>
              \/ delivery[r] = "processing"
              \/ step[d][r[2]] = "caught" /\ delivery[r] = "sent" /\ r \in rewritten
        /\ \A d, e \in Dispatchers : Sends(d, r) /\ Sends(e, r) => d = e

(* Who is in the catch with an accepted message has told no row of it.     *)
CaughtIsUnrecorded ==
    \A d \in Dispatchers, r \in Rows :
        at[d] = r[1] /\ step[d][r[2]] = "caught" => r \in unrecorded

(* Its message is accepted once, by that owner, and stays processing until *)
(* the row says sent, if no acceptance went unrecorded.                    *)
AcceptedOnce ==
    \A r \in Rows : r \notin takenOver \cup requeued \cup unrecorded =>
        /\ r \in got => delivery[r] \in {"processing", "sent"}
        /\ \A d \in Dispatchers : at[d] = r[1] /\ step[d][r[2]] = "send" => r \notin got

SendInv ==
    /\ TypeOK
    /\ Unborn
    /\ RestsQuietly
    /\ LeaseHeld
    /\ CaughtIsUnrecorded
    /\ AcceptedOnce
    /\ SentOnce

(* A channel a dispatcher is through with is settled, if it is still on.   *)
OverIsSettled ==
    \A d \in Dispatchers, r \in Rows :
        at[d] = r[1] /\ step[d][r[2]] = "over" /\ r[2] \in on /\ Calm(r) => Settled(r)

(* Notifications are recorded in their order.                              *)
RecordedInOrder ==
    \A m, n \in Notes : m < n /\ note[n] # "absent" => note[m] # "absent"

(* A dispatcher works on the oldest notification that is not done.         *)
OlderDone == \A d \in Dispatchers, m \in Notes : m < at[d] => note[m] = "done"

(* On a channel it is about to claim, the older rows are settled.          *)
OlderSettled ==
    \A d \in Dispatchers, q \in Rows :
        step[d][q[2]] \in {"look", "claim"} /\ q[1] < at[d] /\ Calm(q) => Settled(q)

OrderInv ==
    /\ SendInv
    /\ DoneIsSettled
    /\ OverIsSettled
    /\ RecordedInOrder
    /\ OlderDone
    /\ OlderSettled

-----------------------------------------------------------------------------
(* The outbox starts empty, with dispatchers at rest.                      *)
LEMMA InitOrder == Init => OrderInv
  BY BoundAssumption
  DEF Init, OrderInv, SendInv, TypeOK, Unborn, RestsQuietly, LeaseHeld, CaughtIsUnrecorded,
      AcceptedOnce, SentOnce, DoneIsSettled, OverIsSettled, RecordedInOrder, OlderDone, OlderSettled,
      Sends, Quiet, Rows, Notes, Statuses

(* A new time is in nobody's past.                                         *)
LEMMA RestampTyped ==
    ASSUME TypeOK, NEW r \in Rows, Restamp(r)
    PROVE  /\ past' \in SUBSET Rows
           /\ due' \in [Dispatchers -> SUBSET past']
  BY DEF TypeOK, Restamp

(* What a dispatcher works on is a row.                                    *)
LEMMA WorksOnRow ==
    ASSUME TypeOK, RestsQuietly, NEW d \in Dispatchers, NEW c \in Channels,
           step[d][c] # "idle"
    PROVE  at[d] \in Notes /\ <<at[d], c>> \in Rows
  BY DEF TypeOK, RestsQuietly, Quiet, Rows

(* A dispatcher that is busy and remains at its notification stays so.     *)
LEMMA GoesOn ==
    ASSUME TypeOK, RestsQuietly, NEW d \in Dispatchers, NEW c \in Channels,
           step[d][c] # "idle", UNCHANGED at,
           NEW s \in Moves,
           NEW n \in Nat, Goes(d, c, s, n)
    PROVE  /\ RestsQuietly'
           /\ step' \in [Dispatchers -> [Channels ->
                {"idle", "look"} \cup Moves]]
           /\ tried' \in [Dispatchers -> [Channels -> Nat]]
  BY WorksOnRow DEF TypeOK, RestsQuietly, Quiet, Goes, Notes, Moves

(* What Look decides, on a row it found or made.                           *)
LEMMA LookDecides ==
    ASSUME TypeOK, RestsQuietly, NEW d \in Dispatchers, NEW c \in Channels, Look(d, c)
    PROVE  \E s \in {"over", "again", "claim"}, n \in Nat :
               /\ Goes(d, c, s, n)
               /\ s = "over" => delivery[<<at[d], c>>] \in {"sent", "dead"}
<1> DEFINE r == <<at[d], c>>
<1>1. r \in Rows
  BY WorksOnRow DEF Look
<1>2. attempts[r] \in Nat /\ Found(r) \in Statuses \ {"none"}
  BY <1>1 DEF Found, TypeOK, Statuses
<1>3. CASE Found(r) \in {"sent", "dead"}
  <2>1. Goes(d, c, "over", 0)
    BY <1>3 DEF Look, Ends
  <2> QED
    BY <1>3, <2>1, 0 \in Nat DEF Found
<1>4. CASE Found(r) \in {"failed", "processing"} /\ r \notin due[d]
  <2>1. Goes(d, c, "again", 0)
    BY <1>4 DEF Look, Ends
  <2> QED
    BY <2>1, 0 \in Nat
<1>5. CASE Found(r) = "pending" \/ (Found(r) \in {"failed", "processing"} /\ r \in due[d])
  <2>1. Goes(d, c, "claim", attempts[r])
    BY <1>5 DEF Look
  <2> QED
    BY <1>2, <2>1
<1> QED
  BY <1>2, <1>3, <1>4, <1>5 DEF Statuses

(* No statement of the outbox writes a column outside its range, or leaves *)
(* a dispatcher with a step but without a notification.                    *)
LEMMA TypeStep == TypeOK /\ RestsQuietly /\ [Next]_vars => TypeOK' /\ RestsQuietly'
<1> SUFFICES ASSUME TypeOK, RestsQuietly, [Next]_vars PROVE TypeOK' /\ RestsQuietly'
    OBVIOUS
<1> DEFINE Result == TypeOK' /\ RestsQuietly'
<1> USE BoundAssumption DEF TypeOK, Statuses, Moves
<1>0. /\ faults \in Nat /\ MaxFaults \in Nat
      /\ Notes \subseteq Nat /\ 0 \notin Notes
      /\ \A n \in Notes, c \in Channels : <<n, c>> \in Rows
      /\ \A r \in Rows : r[1] \in Notes /\ r[2] \in Channels
  BY DEF Notes, Rows
<1>a. Fault => faults' \in 0 .. MaxFaults
  BY <1>0 DEF Fault
<1>1. ASSUME NEW n \in Notes, Record(n) PROVE Result
  BY <1>1 DEF Record, tickVars, pastVars, adminVars, sentVars, RestsQuietly, Quiet
<1>2. ASSUME NEW c \in Channels, Switch(c) PROVE Result
  BY <1>0, <1>a, <1>2 DEF Switch, rowVars, tickVars, adminVars, sentVars, Rows, RestsQuietly, Quiet
<1>3. ASSUME NEW r \in Rows, RequeueCheck(r) PROVE Result
  BY <1>a, <1>3 DEF RequeueCheck, rowVars, tickVars, sentVars, RestsQuietly, Quiet
<1>16. ASSUME NEW r \in Rows, RequeueWrite(r) PROVE Result
  <2>1. /\ requeues[r] - 1 \in Nat
        /\ requeues' = [requeues EXCEPT ![r] = @ - 1]
        /\ delivery' = [delivery EXCEPT ![r] = "pending"]
        /\ requeued' = requeued \cup {r}
        /\ UNCHANGED <<note, attempts, on, at, step, tried, faults, switched, takenOver,
                       got, doubled, unrecorded, rewritten>>
    BY <1>16 DEF RequeueWrite, sentVars
  <2>2. past' \in SUBSET Rows /\ due' \in [Dispatchers -> SUBSET past']
    BY <1>16, RestampTyped DEF RequeueWrite
  <2> QED
    BY <2>1, <2>2 DEF RestsQuietly, Quiet
<1>4. ASSUME NEW r \in Rows, Elapse(r) PROVE Result
  BY <1>a, <1>4 DEF Elapse, tickVars, adminVars, sentVars, RestsQuietly, Quiet
<1>5. ASSUME NEW d \in Dispatchers, Tick(d) PROVE Result
  BY <1>0, <1>5 DEF Tick, rowVars, pastVars, adminVars, sentVars, RestsQuietly, Quiet
<1>6. ASSUME NEW d \in Dispatchers, ReadChannels(d) PROVE Result
  BY <1>6 DEF ReadChannels, rowVars, pastVars, adminVars, sentVars, RestsQuietly, Quiet
<1>7. ASSUME NEW d \in Dispatchers, Finish(d) PROVE Result
  BY <1>0, <1>7 DEF Finish, Rest, Quiet, pastVars, adminVars, sentVars, RestsQuietly
<1>8. ASSUME NEW d \in Dispatchers, Crash(d) PROVE Result
  BY <1>0, <1>a, <1>8 DEF Crash, Rest, Quiet, rowVars, adminVars, sentVars, RestsQuietly
<1>9. ASSUME NEW d \in Dispatchers, NEW c \in Channels, Look(d, c) PROVE Result
  <2>0. step[d][c] # "idle" /\ UNCHANGED at
    BY <1>9 DEF Look
  <2>1. <<at[d], c>> \in Rows
    BY <2>0, WorksOnRow
  <2>2. delivery' \in [Rows -> Statuses]
    BY <1>9, <2>1 DEF Look, Found
  <2>3. PICK s \in {"over", "again", "claim"}, n \in Nat : Goes(d, c, s, n)
    BY <1>9, LookDecides
  <2>4. s \in Moves
    OBVIOUS
  <2>5. UNCHANGED <<note, attempts, past, on, due, faults, takenOver, requeues, requeued,
                   switched, got, doubled, unrecorded, rewritten>>
    BY <1>9 DEF Look, pastVars, adminVars, sentVars
  <2>6. RestsQuietly' /\ step' \in [Dispatchers -> [Channels ->
                {"idle", "look"} \cup Moves]]
        /\ tried' \in [Dispatchers -> [Channels -> Nat]]
    BY <2>0, <2>3, <2>4, GoesOn
  <2> QED
    BY <2>0, <2>2, <2>5, <2>6
<1>10. ASSUME NEW d \in Dispatchers, NEW c \in Channels, Claim(d, c) PROVE Result
  <2>0. step[d][c] # "idle" /\ UNCHANGED at
    BY <1>10 DEF Claim
  <2>1. <<at[d], c>> \in Rows
    BY <2>0, WorksOnRow
  <2>2. PICK s \in Moves, n \in Nat :
           Goes(d, c, s, n)
    BY <1>10 DEF Claim, Ends
  <2>3. step' \in [Dispatchers -> [Channels ->
                {"idle", "look"} \cup Moves]]
        /\ tried' \in [Dispatchers -> [Channels -> Nat]] /\ RestsQuietly'
    BY <2>0, <2>2, GoesOn
  <2> QED
    BY <1>10, <2>1, <2>3, RestampTyped DEF Claim, adminVars, sentVars
<1>11. ASSUME NEW d \in Dispatchers, NEW c \in Channels, Accept(d, c) PROVE Result
  <2>0. step[d][c] # "idle" /\ UNCHANGED at
    BY <1>11 DEF Accept
  <2>1. <<at[d], c>> \in Rows
    BY <2>0, WorksOnRow
  <2> QED
    BY <1>11, <2>0, <2>1, GoesOn DEF Accept, rowVars, pastVars, adminVars
<1>12. ASSUME NEW d \in Dispatchers, NEW c \in Channels, WriteSent(d, c) PROVE Result
  <2>0. step[d][c] # "idle" /\ UNCHANGED at
    BY <1>12 DEF WriteSent
  <2>1. <<at[d], c>> \in Rows
    BY <2>0, WorksOnRow
  <2> QED
    BY <1>12, <2>0, <2>1, GoesOn, RestampTyped DEF WriteSent, Outcome, Ends, pastVars, adminVars, sentVars
<1>13. ASSUME NEW d \in Dispatchers, NEW c \in Channels, NEW retryable \in BOOLEAN,
              Fails(d, c, retryable)
       PROVE Result
  <2>0. step[d][c] # "idle" /\ UNCHANGED at
    BY <1>13 DEF Fails
  <2>1. <<at[d], c>> \in Rows
    BY <2>0, WorksOnRow
  <2>2. PICK s \in {"close", "over", "again"} : Goes(d, c, s, 0)
    BY <1>13 DEF Fails, Ends
  <2>3. s \in Moves
    OBVIOUS
  <2>4. RestsQuietly' /\ step' \in [Dispatchers -> [Channels ->
                {"idle", "look"} \cup Moves]]
        /\ tried' \in [Dispatchers -> [Channels -> Nat]]
    BY <2>0, <2>2, <2>3, 0 \in Nat, GoesOn
  <2> QED
    BY <1>13, <2>0, <2>1, <2>4, RestampTyped DEF Fails, Outcome, pastVars, adminVars, sentVars
<1>14. ASSUME NEW d \in Dispatchers, NEW c \in Channels, Close(d, c) PROVE Result
  <2>0. step[d][c] # "idle" /\ UNCHANGED at
    BY <1>14 DEF Close
  <2> QED
    BY <1>14, <2>0, GoesOn DEF Close, Ends, rowVars, pastVars, adminVars, sentVars
<1>17. ASSUME NEW d \in Dispatchers, NEW c \in Channels,
              AnswerLost(d, c) \/ HealthWriteFails(d, c)
       PROVE Result
  <2>0. step[d][c] # "idle" /\ UNCHANGED at /\ Unrecorded(d, c)
    BY <1>17 DEF AnswerLost, HealthWriteFails
  <2>1. <<at[d], c>> \in Rows
    BY <2>0, WorksOnRow
  <2>2. RestsQuietly' /\ step' \in [Dispatchers -> [Channels ->
                {"idle", "look"} \cup Moves]]
        /\ tried' \in [Dispatchers -> [Channels -> Nat]]
    BY <2>0, GoesOn DEF Unrecorded
  <2>3. /\ faults' \in 0 .. MaxFaults
        /\ unrecorded' = unrecorded \cup {<<at[d], c>>}
        /\ UNCHANGED <<note, on, takenOver, requeues, requeued, switched, got, doubled>>
    BY <1>a, <1>17 DEF AnswerLost, HealthWriteFails, Unrecorded, rowVars, adminVars
  <2>4. CASE AnswerLost(d, c)
    <3>1. UNCHANGED <<delivery, attempts, past, due, rewritten>>
      BY <2>4 DEF AnswerLost, rowVars
    <3> QED
      BY <2>0, <2>1, <2>2, <2>3, <3>1
  <2>5. CASE HealthWriteFails(d, c)
    <3>1. /\ delivery' = [delivery EXCEPT ![<<at[d], c>>] = "sent"]
          /\ attempts' = [attempts EXCEPT ![<<at[d], c>>] = @ + 1]
          /\ rewritten' = rewritten \cup {<<at[d], c>>}
          /\ Restamp(<<at[d], c>>)
      BY <2>5 DEF HealthWriteFails, Outcome
    <3>2. past' \in SUBSET Rows /\ due' \in [Dispatchers -> SUBSET past']
      BY <2>1, <3>1, RestampTyped
    <3>3. delivery' \in [Rows -> Statuses] /\ rewritten' \in SUBSET Rows
      BY <2>1, <3>1
    <3>4. attempts' \in [Rows -> Nat]
      <4>1. attempts \in [Rows -> Nat] /\ attempts[<<at[d], c>>] + 1 \in Nat
        BY <2>1
      <4> QED
        BY <3>1, <4>1
    <3> QED
      BY <2>0, <2>1, <2>2, <2>3, <3>2, <3>3, <3>4
  <2> QED
    BY <1>17, <2>4, <2>5
<1>18. ASSUME NEW d \in Dispatchers, NEW c \in Channels, StatementFails(d, c) PROVE Result
  <2>0. step[d][c] # "idle" /\ UNCHANGED at
    BY <1>18 DEF StatementFails
  <2> QED
    BY <1>a, <1>18, <2>0, GoesOn DEF StatementFails, Ends, rowVars, adminVars, sentVars
<1>15. CASE UNCHANGED vars
  BY <1>15 DEF vars, rowVars, tickVars, pastVars, adminVars, sentVars, RestsQuietly, Quiet
<1> QED
  BY <1>1, <1>2, <1>3, <1>4, <1>5, <1>6, <1>7, <1>8, <1>9, <1>10, <1>11, <1>12,
     <1>13, <1>14, <1>15, <1>16, <1>17, <1>18, Zenon
  DEF Next, DispatchStep, DispatchFault
-----------------------------------------------------------------------------
(* Every step keeps the leases apart and counts the copies truly.          *)
LEMMA SendStep == SendInv /\ [Next]_vars => SendInv'
<1> SUFFICES ASSUME SendInv, [Next]_vars PROVE SendInv'
    OBVIOUS
<1>0. TypeOK' /\ RestsQuietly'
  BY TypeStep DEF SendInv
<1> USE DEF SendInv, TypeOK, Sends
<1>a. /\ 0 \notin Notes
      /\ \A n \in Notes, c \in Channels : <<n, c>> \in Rows
      /\ \A r \in Rows : r[1] \in Notes /\ r[2] \in Channels /\ r = <<r[1], r[2]>>
  BY DEF Notes, Rows
<1>b. \A d \in Dispatchers, c \in Channels :
         step[d][c] # "idle" => at[d] \in Notes /\ <<at[d], c>> \in Rows
  BY WorksOnRow
(* Where nobody begins to hold or look at a row, and no row is rewritten.  *)
<1>r. ASSUME UNCHANGED <<got, doubled, takenOver, requeued, unrecorded, rewritten>>,
             \A r \in Rows : delivery'[r] = delivery[r] \/ delivery[r] = "none",
             \A d \in Dispatchers, c \in Channels :
                 step'[d][c] \in {"send", "sent", "caught"} =>
                     step'[d][c] = step[d][c] /\ at'[d] = at[d]
      PROVE  LeaseHeld' /\ CaughtIsUnrecorded' /\ AcceptedOnce' /\ SentOnce'
  <2>1. \A d \in Dispatchers, r \in Rows :
           at'[d] = r[1] /\ step'[d][r[2]] \in {"send", "sent", "caught"}
               => at[d] = r[1] /\ step'[d][r[2]] = step[d][r[2]]
    BY <1>a, <1>r
  <2>2. LeaseHeld'
    BY <1>0, <1>r, <2>1 DEF LeaseHeld
  <2>3. CaughtIsUnrecorded'
    BY <1>r, <2>1 DEF CaughtIsUnrecorded
  <2>4. AcceptedOnce'
    BY <1>r, <2>1 DEF AcceptedOnce
  <2> QED
    BY <1>r, <2>2, <2>3, <2>4 DEF SentOnce
<1>1. ASSUME NEW n \in Notes, Record(n) PROVE SendInv'
  <2>1. Unborn'
    BY <1>0, <1>a, <1>b, <1>1 DEF Record, tickVars, pastVars, adminVars, sentVars, Unborn
  <2>2. LeaseHeld' /\ CaughtIsUnrecorded' /\ AcceptedOnce' /\ SentOnce'
    <3>1. UNCHANGED <<got, doubled, takenOver, requeued, unrecorded, rewritten>>
      BY <1>1 DEF Record, tickVars, pastVars, adminVars, sentVars
    <3>2. \A r \in Rows : delivery'[r] = delivery[r] \/ delivery[r] = "none"
      BY <1>a, <1>b, <1>1 DEF Record, tickVars, pastVars, adminVars, sentVars, Unborn
    <3>3. \A e \in Dispatchers, k \in Channels :
             step'[e][k] \in {"send", "sent", "caught"} =>
                 step'[e][k] = step[e][k] /\ at'[e] = at[e]
      BY <1>0, <1>a, <1>1 DEF Record, tickVars, pastVars, adminVars, sentVars
    <3> QED
      BY <1>r, <3>1, <3>2, <3>3
  <2> QED
    BY <1>0, <2>1, <2>2
<1>2. ASSUME NEW c \in Channels, Switch(c) PROVE SendInv'
  <2>1. Unborn'
    BY <1>0, <1>a, <1>b, <1>2 DEF Switch, rowVars, tickVars, adminVars, sentVars, Unborn
  <2>2. LeaseHeld' /\ CaughtIsUnrecorded' /\ AcceptedOnce' /\ SentOnce'
    <3>1. UNCHANGED <<got, doubled, takenOver, requeued, unrecorded, rewritten>>
      BY <1>2 DEF Switch, rowVars, tickVars, adminVars, sentVars
    <3>2. \A r \in Rows : delivery'[r] = delivery[r] \/ delivery[r] = "none"
      BY <1>a, <1>b, <1>2 DEF Switch, rowVars, tickVars, adminVars, sentVars, Unborn
    <3>3. \A e \in Dispatchers, k \in Channels :
             step'[e][k] \in {"send", "sent", "caught"} =>
                 step'[e][k] = step[e][k] /\ at'[e] = at[e]
      BY <1>0, <1>a, <1>2 DEF Switch, rowVars, tickVars, adminVars, sentVars
    <3> QED
      BY <1>r, <3>1, <3>2, <3>3
  <2> QED
    BY <1>0, <2>1, <2>2
<1>3. ASSUME NEW r \in Rows, RequeueCheck(r) PROVE SendInv'
  <2>1. Unborn'
    BY <1>0, <1>a, <1>b, <1>3 DEF RequeueCheck, rowVars, tickVars, sentVars, Unborn
  <2>2. LeaseHeld' /\ CaughtIsUnrecorded' /\ AcceptedOnce' /\ SentOnce'
    <3>1. UNCHANGED <<got, doubled, takenOver, requeued, unrecorded, rewritten>>
      BY <1>3 DEF RequeueCheck, rowVars, tickVars, sentVars
    <3>2. \A q \in Rows : delivery'[q] = delivery[q] \/ delivery[q] = "none"
      BY <1>a, <1>b, <1>3 DEF RequeueCheck, rowVars, tickVars, sentVars, Unborn
    <3>3. \A e \in Dispatchers, k \in Channels :
             step'[e][k] \in {"send", "sent", "caught"} =>
                 step'[e][k] = step[e][k] /\ at'[e] = at[e]
      BY <1>0, <1>a, <1>3 DEF RequeueCheck, rowVars, tickVars, sentVars
    <3> QED
      BY <1>r, <3>1, <3>2, <3>3
  <2> QED
    BY <1>0, <2>1, <2>2
<1>4. ASSUME NEW r \in Rows, Elapse(r) PROVE SendInv'
  <2>1. Unborn'
    BY <1>0, <1>a, <1>b, <1>4 DEF Elapse, tickVars, adminVars, sentVars, Unborn
  <2>2. LeaseHeld' /\ CaughtIsUnrecorded' /\ AcceptedOnce' /\ SentOnce'
    <3>1. UNCHANGED <<got, doubled, takenOver, requeued, unrecorded, rewritten>>
      BY <1>4 DEF Elapse, tickVars, adminVars, sentVars
    <3>2. \A q \in Rows : delivery'[q] = delivery[q] \/ delivery[q] = "none"
      BY <1>a, <1>b, <1>4 DEF Elapse, tickVars, adminVars, sentVars, Unborn
    <3>3. \A e \in Dispatchers, k \in Channels :
             step'[e][k] \in {"send", "sent", "caught"} =>
                 step'[e][k] = step[e][k] /\ at'[e] = at[e]
      BY <1>0, <1>a, <1>4 DEF Elapse, tickVars, adminVars, sentVars
    <3> QED
      BY <1>r, <3>1, <3>2, <3>3
  <2> QED
    BY <1>0, <2>1, <2>2
<1>5. ASSUME NEW d \in Dispatchers, Tick(d) PROVE SendInv'
  <2>1. Unborn'
    BY <1>0, <1>a, <1>b, <1>5 DEF Tick, rowVars, pastVars, adminVars, sentVars, Unborn, Candidate
  <2>2. LeaseHeld' /\ CaughtIsUnrecorded' /\ AcceptedOnce' /\ SentOnce'
    <3>1. UNCHANGED <<got, doubled, takenOver, requeued, unrecorded, rewritten>>
      BY <1>5 DEF Tick, rowVars, pastVars, adminVars, sentVars
    <3>2. \A r \in Rows : delivery'[r] = delivery[r] \/ delivery[r] = "none"
      BY <1>a, <1>b, <1>5 DEF Tick, rowVars, pastVars, adminVars, sentVars, Unborn
    <3>3. \A e \in Dispatchers, k \in Channels :
             step'[e][k] \in {"send", "sent", "caught"} =>
                 step'[e][k] = step[e][k] /\ at'[e] = at[e]
      BY <1>0, <1>a, <1>5 DEF Tick, rowVars, pastVars, adminVars, sentVars, RestsQuietly, Quiet
    <3> QED
      BY <1>r, <3>1, <3>2, <3>3
  <2> QED
    BY <1>0, <2>1, <2>2
<1>6. ASSUME NEW d \in Dispatchers, ReadChannels(d) PROVE SendInv'
  <2>1. Unborn'
    BY <1>0, <1>a, <1>b, <1>6 DEF ReadChannels, rowVars, pastVars, adminVars, sentVars, Unborn
  <2>2. LeaseHeld' /\ CaughtIsUnrecorded' /\ AcceptedOnce' /\ SentOnce'
    <3>1. UNCHANGED <<got, doubled, takenOver, requeued, unrecorded, rewritten>>
      BY <1>6 DEF ReadChannels, rowVars, pastVars, adminVars, sentVars
    <3>2. \A r \in Rows : delivery'[r] = delivery[r] \/ delivery[r] = "none"
      BY <1>a, <1>b, <1>6 DEF ReadChannels, rowVars, pastVars, adminVars, sentVars, Unborn
    <3>3. \A e \in Dispatchers, k \in Channels :
             step'[e][k] \in {"send", "sent", "caught"} =>
                 step'[e][k] = step[e][k] /\ at'[e] = at[e]
      BY <1>0, <1>a, <1>6 DEF ReadChannels, rowVars, pastVars, adminVars, sentVars
    <3> QED
      BY <1>r, <3>1, <3>2, <3>3
  <2> QED
    BY <1>0, <2>1, <2>2
<1>7. ASSUME NEW d \in Dispatchers, Finish(d) PROVE SendInv'
  <2>1. Unborn'
    BY <1>0, <1>a, <1>b, <1>7 DEF Finish, Rest, Quiet, pastVars, adminVars, sentVars, Unborn
  <2>2. LeaseHeld' /\ CaughtIsUnrecorded' /\ AcceptedOnce' /\ SentOnce'
    <3>1. UNCHANGED <<got, doubled, takenOver, requeued, unrecorded, rewritten>>
      BY <1>7 DEF Finish, Rest, Quiet, pastVars, adminVars, sentVars
    <3>2. \A r \in Rows : delivery'[r] = delivery[r] \/ delivery[r] = "none"
      BY <1>a, <1>b, <1>7 DEF Finish, Rest, Quiet, pastVars, adminVars, sentVars, Unborn
    <3>3. \A e \in Dispatchers, k \in Channels :
             step'[e][k] \in {"send", "sent", "caught"} =>
                 step'[e][k] = step[e][k] /\ at'[e] = at[e]
      BY <1>0, <1>a, <1>7 DEF Finish, Rest, Quiet, pastVars, adminVars, sentVars
    <3> QED
      BY <1>r, <3>1, <3>2, <3>3
  <2> QED
    BY <1>0, <2>1, <2>2
<1>8. ASSUME NEW d \in Dispatchers, Crash(d) PROVE SendInv'
  <2>1. Unborn'
    BY <1>0, <1>a, <1>b, <1>8 DEF Crash, Rest, Quiet, rowVars, adminVars, sentVars, Unborn
  <2>2. LeaseHeld' /\ CaughtIsUnrecorded' /\ AcceptedOnce' /\ SentOnce'
    <3>1. UNCHANGED <<got, doubled, takenOver, requeued, unrecorded, rewritten>>
      BY <1>8 DEF Crash, Rest, Quiet, rowVars, adminVars, sentVars
    <3>2. \A r \in Rows : delivery'[r] = delivery[r] \/ delivery[r] = "none"
      BY <1>a, <1>b, <1>8 DEF Crash, Rest, Quiet, rowVars, adminVars, sentVars, Unborn
    <3>3. \A e \in Dispatchers, k \in Channels :
             step'[e][k] \in {"send", "sent", "caught"} =>
                 step'[e][k] = step[e][k] /\ at'[e] = at[e]
      BY <1>0, <1>a, <1>8 DEF Crash, Rest, Quiet, rowVars, adminVars, sentVars
    <3> QED
      BY <1>r, <3>1, <3>2, <3>3
  <2> QED
    BY <1>0, <2>1, <2>2
<1>9. ASSUME NEW d \in Dispatchers, NEW c \in Channels, Look(d, c) PROVE SendInv'
  <2>1. Unborn'
    BY <1>0, <1>a, <1>b, <1>9 DEF Look, Found, pastVars, adminVars, Unborn
  <2>2. \A e \in Dispatchers, k \in Channels :
           step'[e][k] = step[e][k] \/ step'[e][k] \notin {"send", "sent", "caught"}
    <3>1. PICK s \in {"over", "again", "claim"}, n \in Nat : Goes(d, c, s, n)
      BY <1>9, LookDecides
    <3> QED
      BY <3>1 DEF Goes
  <2>3. \A r \in Rows : delivery'[r] = delivery[r] \/ delivery[r] = "none"
    BY <1>9, <1>b DEF Look, Found
  <2>4. UNCHANGED <<at, got, doubled, takenOver, requeued, unrecorded, rewritten>>
    BY <1>9 DEF Look, pastVars, adminVars, sentVars
  <2> QED
    BY <1>0, <1>r, <2>1, <2>2, <2>3, <2>4
<1>10. ASSUME NEW d \in Dispatchers, NEW c \in Channels, Claim(d, c) PROVE SendInv'
  <2> DEFINE r == <<at[d], c>>
  <2>0. /\ r \in Rows /\ at[d] # 0
        /\ UNCHANGED <<note, at, requeues, got, doubled, requeued, unrecorded, rewritten>>
    BY <1>a, <1>b, <1>10 DEF Claim, adminVars, sentVars
  <2>1. CASE Claimable(d, r)
    <3>1. /\ delivery' = [delivery EXCEPT ![r] = "processing"]
          /\ takenOver' = takenOver \cup {s \in {r} : delivery[s] = "processing"}
          /\ step' = [step EXCEPT ![d][c] = "send"]
      BY <1>10, <2>1 DEF Claim, Goes
    <3>2. \A q \in Rows : q \notin takenOver' =>
             /\ q \notin takenOver
             /\ q # r => delivery'[q] = delivery[q]
             /\ q = r => delivery'[q] = "processing" /\ delivery[q] \in {"pending", "failed"}
      BY <2>0, <2>1, <3>1 DEF Claimable
    <3>3. \A e \in Dispatchers, q \in Rows :
             /\ Sends(e, q)' => (Sends(e, q) /\ step'[e][q[2]] = step[e][q[2]]) \/ (e = d /\ q = r)
             /\ at'[e] = q[1] /\ step'[e][q[2]] = "caught" => step[e][q[2]] = "caught"
      BY <1>0, <1>a, <2>0, <3>1
    <3>4. LeaseHeld'
      <4> SUFFICES ASSUME NEW q \in Rows, q \notin takenOver' \cup requeued
                   PROVE  /\ \A e \in Dispatchers : Sends(e, q)' =>
                                \/ delivery'[q] = "processing"
                                \/ /\ step'[e][q[2]] = "caught"
                                   /\ delivery'[q] = "sent" /\ q \in rewritten
                          /\ \A e, f \in Dispatchers : Sends(e, q)' /\ Sends(f, q)' => e = f
        BY <2>0 DEF LeaseHeld
      <4>1. CASE q = r
        <5>1. \A e \in Dispatchers : ~Sends(e, q)
          BY <3>2, <4>1 DEF LeaseHeld
        <5> QED
          BY <3>2, <3>3, <4>1, <5>1
      <4>2. CASE q # r
        <5>1. delivery'[q] = delivery[q] /\ q \notin takenOver
          BY <3>2, <4>2
        <5>2. \A e \in Dispatchers : Sends(e, q)' => Sends(e, q) /\ step'[e][q[2]] = step[e][q[2]]
          BY <3>3, <4>2
        <5> QED
          BY <2>0, <5>1, <5>2 DEF LeaseHeld
      <4> QED
        BY <4>1, <4>2
    <3>5. CaughtIsUnrecorded'
      BY <2>0, <3>3 DEF CaughtIsUnrecorded
    <3>6. AcceptedOnce'
      <4> SUFFICES ASSUME NEW q \in Rows, q \notin takenOver' \cup requeued \cup unrecorded
                   PROVE  /\ q \in got => delivery'[q] \in {"processing", "sent"}
                          /\ \A e \in Dispatchers :
                                at[e] = q[1] /\ step'[e][q[2]] = "send" => q \notin got
        BY <2>0 DEF AcceptedOnce
      <4>1. CASE q = r
        BY <3>2, <4>1 DEF AcceptedOnce
      <4>2. CASE q # r
        BY <2>0, <3>2, <3>3, <4>2 DEF AcceptedOnce
      <4> QED
        BY <4>1, <4>2
    <3>7. SentOnce'
      BY <2>0, <3>1 DEF SentOnce
    <3>8. Unborn'
      BY <2>0, <3>1 DEF Unborn
    <3> QED
      BY <1>0, <3>4, <3>5, <3>6, <3>7, <3>8
  <2>2. CASE ~Claimable(d, r)
    <3>1. /\ UNCHANGED <<delivery, takenOver>>
          /\ step' = [step EXCEPT ![d][c] = "again"]
      BY <1>10, <2>2 DEF Claim, Ends, Goes
    <3>2. Unborn'
      BY <2>0, <3>1 DEF Unborn
    <3> QED
      BY <1>0, <1>r, <2>0, <3>1, <3>2
  <2> QED
    BY <2>1, <2>2
(* What a sender does to its own row, and to no other.                     *)
<1>o. ASSUME NEW d \in Dispatchers, NEW c \in Channels, NEW s \in Moves, NEW n \in Nat,
             step[d][c] \in {"send", "sent", "caught"}, Goes(d, c, s, n),
             UNCHANGED <<note, at, takenOver, requeued>>
      PROVE  LET r == <<at[d], c>> IN
             /\ r \in Rows /\ at[d] # 0 /\ Sends(d, r)
             /\ step'[d][c] = s
             /\ \A e \in Dispatchers, q \in Rows :
                   at'[e] = q[1] => \/ e = d /\ q = r
                                    \/ at[e] = q[1] /\ step'[e][q[2]] = step[e][q[2]]
  BY <1>0, <1>a, <1>b, <1>o DEF Goes
<1>11. ASSUME NEW d \in Dispatchers, NEW c \in Channels, Accept(d, c) PROVE SendInv'
  <2> DEFINE r == <<at[d], c>>
  <2>1. /\ UNCHANGED <<note, delivery, at, requeues, takenOver, requeued, unrecorded, rewritten>>
        /\ step[d][c] = "send" /\ tried[d][c] \in Nat /\ Goes(d, c, "sent", tried[d][c])
        /\ got' = got \cup {r} /\ doubled' = doubled \cup (got \cap {r})
    BY <1>11 DEF Accept, rowVars, pastVars, adminVars
  <2>2. /\ r \in Rows /\ at[d] # 0 /\ Sends(d, r)
        /\ step'[d][c] = "sent"
        /\ \A e \in Dispatchers, q \in Rows :
              at'[e] = q[1] => \/ e = d /\ q = r
                               \/ at[e] = q[1] /\ step'[e][q[2]] = step[e][q[2]]
    BY <1>o, <2>1 DEF Moves
  <2>3. \A e \in Dispatchers, q \in Rows :
           Sends(e, q)' => /\ Sends(e, q)
                           /\ (e = d /\ q = r) \/ step'[e][q[2]] = step[e][q[2]]
    BY <2>1, <2>2
  <2>4. LeaseHeld'
    BY <1>0, <2>1, <2>2, <2>3 DEF LeaseHeld
  <2>5. CaughtIsUnrecorded'
    BY <2>1, <2>2 DEF CaughtIsUnrecorded
  <2>6. AcceptedOnce'
    <3> SUFFICES ASSUME NEW q \in Rows, q \notin takenOver \cup requeued \cup unrecorded
                 PROVE  /\ q \in got' => delivery[q] \in {"processing", "sent"}
                        /\ \A e \in Dispatchers :
                              at[e] = q[1] /\ step'[e][q[2]] = "send" => q \notin got'
      BY <2>1 DEF AcceptedOnce
    <3>1. CASE q = r
      <4>1. delivery[q] = "processing"
        BY <2>1, <2>2, <3>1 DEF LeaseHeld
      <4>2. \A e \in Dispatchers : Sends(e, q) => e = d
        BY <2>2, <3>1 DEF LeaseHeld
      <4>3. \A e \in Dispatchers : at[e] = q[1] /\ step'[e][q[2]] = "send" => e = d
        BY <2>1, <2>3, <4>2
      <4>4. step'[d][q[2]] = "sent"
        BY <2>2, <3>1
      <4> QED
        BY <4>1, <4>3, <4>4
    <3>2. CASE q # r
      BY <2>1, <2>2, <3>2 DEF AcceptedOnce
    <3> QED
      BY <3>1, <3>2
  <2>7. SentOnce'
    <3>1. r[1] = at[d] /\ r[2] = c
      OBVIOUS
    <3>2. r \in got => r \in takenOver \cup requeued \cup unrecorded
      BY <2>1, <2>2, <3>1 DEF AcceptedOnce
    <3> QED
      BY <2>1, <3>2 DEF SentOnce
  <2>8. Unborn'
    BY <2>1 DEF Unborn
  <2> QED
    BY <1>0, <2>4, <2>5, <2>6, <2>7, <2>8
<1>12. ASSUME NEW d \in Dispatchers, NEW c \in Channels, WriteSent(d, c) PROVE SendInv'
  <2> DEFINE r == <<at[d], c>>
  <2>1. /\ UNCHANGED <<note, at, requeues, got, doubled, takenOver, requeued, unrecorded, rewritten>>
        /\ step[d][c] = "sent" /\ 0 \in Nat /\ Goes(d, c, "over", 0)
        /\ delivery' = [delivery EXCEPT ![r] = "sent"]
    BY <1>12 DEF WriteSent, Ends, Outcome, pastVars, adminVars, sentVars
  <2>2. /\ r \in Rows /\ at[d] # 0 /\ Sends(d, r)
        /\ step'[d][c] = "over"
        /\ \A e \in Dispatchers, q \in Rows :
              at'[e] = q[1] => \/ e = d /\ q = r
                               \/ at[e] = q[1] /\ step'[e][q[2]] = step[e][q[2]]
    BY <1>o, <2>1 DEF Moves
  <2>3. \A e \in Dispatchers, q \in Rows :
           Sends(e, q)' => /\ Sends(e, q) /\ ~(e = d /\ q = r)
                           /\ step'[e][q[2]] = step[e][q[2]]
    BY <2>1, <2>2
  <2>4. LeaseHeld'
    BY <1>0, <2>1, <2>2, <2>3 DEF LeaseHeld
  <2>5. CaughtIsUnrecorded'
    BY <2>1, <2>3 DEF CaughtIsUnrecorded
  <2>6. AcceptedOnce'
    BY <2>1, <2>2 DEF AcceptedOnce
  <2>7. SentOnce' /\ Unborn'
    BY <2>1, <2>2 DEF SentOnce, Unborn
  <2> QED
    BY <1>0, <2>4, <2>5, <2>6, <2>7
<1>13. ASSUME NEW d \in Dispatchers, NEW c \in Channels, NEW retryable \in BOOLEAN,
              Fails(d, c, retryable)
       PROVE SendInv'
  <2> DEFINE r == <<at[d], c>>
  <2>1. PICK s \in {"close", "over", "again"}, o \in {"dead", "failed"} :
           /\ UNCHANGED <<note, at, requeues, got, doubled, takenOver, requeued, unrecorded, rewritten>>
           /\ step[d][c] \in {"send", "caught"} /\ 0 \in Nat /\ Goes(d, c, s, 0)
           /\ delivery' = [delivery EXCEPT ![r] = o]
    BY <1>13 DEF Fails, Ends, Outcome, pastVars, adminVars, sentVars
  <2>2. /\ r \in Rows /\ at[d] # 0 /\ Sends(d, r)
        /\ step'[d][c] = s
        /\ \A e \in Dispatchers, q \in Rows :
              at'[e] = q[1] => \/ e = d /\ q = r
                               \/ at[e] = q[1] /\ step'[e][q[2]] = step[e][q[2]]
    <3>1. s \in Moves
      BY DEF Moves
    <3> QED
      BY <1>o, <2>1, <3>1
  <2>3. \A e \in Dispatchers, q \in Rows :
           Sends(e, q)' => /\ Sends(e, q) /\ ~(e = d /\ q = r)
                           /\ step'[e][q[2]] = step[e][q[2]]
    BY <2>1, <2>2
  <2>4. LeaseHeld'
    BY <1>0, <2>1, <2>2, <2>3 DEF LeaseHeld
  <2>5. CaughtIsUnrecorded'
    BY <2>1, <2>2 DEF CaughtIsUnrecorded
  <2>6. AcceptedOnce'
    <3>0. r[1] = at[d] /\ r[2] = c
      OBVIOUS
    <3>1. r \notin takenOver \cup requeued \cup unrecorded => r \notin got
      <4>1. CASE step[d][c] = "send"
        BY <2>2, <3>0, <4>1 DEF AcceptedOnce
      <4>2. CASE step[d][c] = "caught"
        BY <2>2, <3>0, <4>2 DEF CaughtIsUnrecorded
      <4> QED
        BY <2>1, <4>1, <4>2
    <3> SUFFICES ASSUME NEW q \in Rows, q \notin takenOver \cup requeued \cup unrecorded
                 PROVE  /\ q \in got => delivery'[q] \in {"processing", "sent"}
                        /\ \A e \in Dispatchers :
                              at[e] = q[1] /\ step'[e][q[2]] = "send" => q \notin got
      BY <2>1 DEF AcceptedOnce
    <3>2. q # r => delivery'[q] = delivery[q]
      BY <2>1
    <3>3. \A e \in Dispatchers :
             at[e] = q[1] /\ step'[e][q[2]] = "send" => step[e][q[2]] = "send"
      BY <2>1, <2>3
    <3> QED
      BY <3>1, <3>2, <3>3 DEF AcceptedOnce
  <2>7. SentOnce' /\ Unborn'
    BY <2>1, <2>2 DEF SentOnce, Unborn
  <2> QED
    BY <1>0, <2>4, <2>5, <2>6, <2>7
<1>16. ASSUME NEW d \in Dispatchers, NEW c \in Channels,
              AnswerLost(d, c) \/ HealthWriteFails(d, c)
       PROVE SendInv'
  <2> DEFINE r == <<at[d], c>>
  <2>1. /\ UNCHANGED <<note, at, requeues, got, doubled, takenOver, requeued>>
        /\ step[d][c] = "sent" /\ tried[d][c] \in Nat /\ Goes(d, c, "caught", tried[d][c])
        /\ unrecorded' = unrecorded \cup {r}
        /\ \/ UNCHANGED <<delivery, rewritten>>
           \/ /\ delivery' = [delivery EXCEPT ![r] = "sent"]
              /\ rewritten' = rewritten \cup {r}
    BY <1>16 DEF AnswerLost, HealthWriteFails, Unrecorded, Outcome, rowVars, adminVars
  <2>2. /\ r \in Rows /\ at[d] # 0 /\ Sends(d, r)
        /\ step'[d][c] = "caught"
        /\ \A e \in Dispatchers, q \in Rows :
              at'[e] = q[1] => \/ e = d /\ q = r
                               \/ at[e] = q[1] /\ step'[e][q[2]] = step[e][q[2]]
    BY <1>o, <2>1 DEF Moves
  <2>3. \A e \in Dispatchers, q \in Rows :
           Sends(e, q)' => /\ Sends(e, q)
                           /\ (e = d /\ q = r) \/ step'[e][q[2]] = step[e][q[2]]
    BY <2>1, <2>2
  <2>4. LeaseHeld'
    <3> SUFFICES ASSUME NEW q \in Rows, q \notin takenOver \cup requeued
                 PROVE  /\ \A e \in Dispatchers : Sends(e, q)' =>
                              \/ delivery'[q] = "processing"
                              \/ /\ step'[e][q[2]] = "caught"
                                 /\ delivery'[q] = "sent" /\ q \in rewritten'
                        /\ \A e, f \in Dispatchers : Sends(e, q)' /\ Sends(f, q)' => e = f
      BY <2>1 DEF LeaseHeld
    <3>1. \A e, f \in Dispatchers : Sends(e, q)' /\ Sends(f, q)' => e = f
      BY <2>3 DEF LeaseHeld
    <3>2. CASE q = r
      <4>1. q[1] = at[d] /\ q[2] = c
        BY <3>2
      <4>2. delivery[q] = "processing"
        BY <2>1, <2>2, <3>2, <4>1 DEF LeaseHeld
      <4>3. \A e \in Dispatchers : Sends(e, q)' => e = d
        <5>1. Sends(d, q) /\ \A e \in Dispatchers : Sends(e, q)' => Sends(e, q)
          BY <2>2, <2>3, <3>2
        <5>2. \A e \in Dispatchers : Sends(e, q) /\ Sends(d, q) => e = d
          BY DEF LeaseHeld
        <5> QED
          BY <5>1, <5>2
      <4>4. \/ delivery'[q] = "processing"
            \/ delivery'[q] = "sent" /\ q \in rewritten'
        BY <2>1, <3>2, <4>2
      <4> QED
        BY <2>2, <3>1, <4>1, <4>3, <4>4
    <3>3. CASE q # r
      <4>1. delivery'[q] = delivery[q] /\ (q \in rewritten => q \in rewritten')
        BY <2>1, <3>3
      <4>2. \A e \in Dispatchers : Sends(e, q)' => Sends(e, q) /\ step'[e][q[2]] = step[e][q[2]]
        BY <2>3, <3>3
      <4> QED
        BY <3>1, <4>1, <4>2 DEF LeaseHeld
    <3> QED
      BY <3>2, <3>3
  <2>5. CaughtIsUnrecorded'
    BY <2>1, <2>2 DEF CaughtIsUnrecorded
  <2>6. AcceptedOnce'
    BY <2>1, <2>2 DEF AcceptedOnce
  <2>7. SentOnce' /\ Unborn'
    BY <2>1, <2>2 DEF SentOnce, Unborn
  <2> QED
    BY <1>0, <2>4, <2>5, <2>6, <2>7
<1>14. ASSUME NEW d \in Dispatchers, NEW c \in Channels, Close(d, c) PROVE SendInv'
  <2>1. Unborn'
    BY <1>0, <1>a, <1>b, <1>14 DEF Close, Ends, Goes, rowVars, pastVars, adminVars, sentVars, Unborn
  <2>2. LeaseHeld' /\ CaughtIsUnrecorded' /\ AcceptedOnce' /\ SentOnce'
    <3>1. UNCHANGED <<got, doubled, takenOver, requeued, unrecorded, rewritten>>
      BY <1>14 DEF Close, Ends, Goes, rowVars, pastVars, adminVars, sentVars
    <3>2. \A r \in Rows : delivery'[r] = delivery[r] \/ delivery[r] = "none"
      BY <1>a, <1>b, <1>14 DEF Close, Ends, Goes, rowVars, pastVars, adminVars, sentVars, Unborn
    <3>3. \A e \in Dispatchers, k \in Channels :
             step'[e][k] \in {"send", "sent", "caught"} =>
                 step'[e][k] = step[e][k] /\ at'[e] = at[e]
      BY <1>0, <1>a, <1>14 DEF Close, Ends, Goes, rowVars, pastVars, adminVars, sentVars
    <3> QED
      BY <1>r, <3>1, <3>2, <3>3
  <2> QED
    BY <1>0, <2>1, <2>2
<1>17. ASSUME NEW d \in Dispatchers, NEW c \in Channels, StatementFails(d, c) PROVE SendInv'
  <2>1. Unborn'
    BY <1>0, <1>a, <1>b, <1>17 DEF StatementFails, Ends, Goes, rowVars, adminVars, sentVars, Unborn
  <2>2. LeaseHeld' /\ CaughtIsUnrecorded' /\ AcceptedOnce' /\ SentOnce'
    <3>1. UNCHANGED <<got, doubled, takenOver, requeued, unrecorded, rewritten>>
      BY <1>17 DEF StatementFails, Ends, Goes, rowVars, adminVars, sentVars
    <3>2. \A r \in Rows : delivery'[r] = delivery[r] \/ delivery[r] = "none"
      BY <1>a, <1>b, <1>17 DEF StatementFails, Ends, Goes, rowVars, adminVars, sentVars, Unborn
    <3>3. \A e \in Dispatchers, k \in Channels :
             step'[e][k] \in {"send", "sent", "caught"} =>
                 step'[e][k] = step[e][k] /\ at'[e] = at[e]
      BY <1>0, <1>a, <1>17 DEF StatementFails, Ends, Goes, rowVars, adminVars, sentVars
    <3> QED
      BY <1>r, <3>1, <3>2, <3>3
  <2> QED
    BY <1>0, <2>1, <2>2
<1>18. ASSUME NEW r \in Rows, RequeueWrite(r) PROVE SendInv'
  <2>1. /\ UNCHANGED <<note, at, step, got, doubled, takenOver, unrecorded, rewritten>>
        /\ delivery' = [delivery EXCEPT ![r] = "pending"]
        /\ requeued' = requeued \cup {r}
        /\ requeues[r] \in Nat /\ requeues[r] > 0
        /\ requeues' = [requeues EXCEPT ![r] = @ - 1]
    BY <1>18 DEF RequeueWrite, sentVars
  <2>2. Unborn'
    <3>1. \A q \in Rows : requeues'[q] > 0 => requeues[q] > 0
      BY <2>1
    <3> QED
      BY <2>1, <3>1 DEF Unborn
  <2>3. LeaseHeld' /\ AcceptedOnce'
    BY <1>0, <2>1 DEF LeaseHeld, AcceptedOnce
  <2>4. CaughtIsUnrecorded' /\ SentOnce'
    BY <2>1 DEF CaughtIsUnrecorded, SentOnce
  <2> QED
    BY <1>0, <2>2, <2>3, <2>4
<1>15. CASE UNCHANGED vars
  BY <1>0, <1>15 DEF vars, rowVars, tickVars, pastVars, adminVars, sentVars, Unborn,
     LeaseHeld, CaughtIsUnrecorded, AcceptedOnce, SentOnce
<1> HIDE DEF SendInv, TypeOK, Sends
<1> QED
  BY <1>1, <1>2, <1>3, <1>4, <1>5, <1>6, <1>7, <1>8, <1>9, <1>10, <1>11, <1>12,
     <1>13, <1>14, <1>15, <1>16, <1>17, <1>18, Zenon
  DEF Next, DispatchStep, DispatchFault
-----------------------------------------------------------------------------
(* A settled row stays settled, and an exempted one exempted; only the *)
(* admin and a failing send undo an outcome, and they say so.              *)
LEMMA SettledStays ==
    ASSUME SendInv, [Next]_vars
    PROVE  \A q \in Rows : Calm(q)' => Calm(q) /\ (Settled(q) => Settled(q)')
<1> USE DEF SendInv, TypeOK, Calm, Stirred, Settled, adminVars
<1> DEFINE Stays == \A q \in Rows : Calm(q)' => Calm(q) /\ (Settled(q) => Settled(q)')
<1>a. /\ \A n \in Notes, c \in Channels : <<n, c>> \in Rows
      /\ \A q \in Rows : q[1] \in Notes /\ q[2] \in Channels /\ q = <<q[1], q[2]>>
  BY DEF Rows
<1>b. \A d \in Dispatchers, c \in Channels :
         step[d][c] # "idle" => at[d] \in Notes /\ <<at[d], c>> \in Rows
  BY WorksOnRow
<1>1. ASSUME NEW n \in Notes, Record(n) PROVE Stays
  BY <1>a, <1>b, <1>1 DEF Record, tickVars, pastVars, sentVars, Unborn
<1>2. ASSUME NEW c \in Channels, Switch(c) PROVE Stays
  BY <1>a, <1>b, <1>2 DEF Switch, rowVars, tickVars, sentVars
<1>3. ASSUME NEW r \in Rows, RequeueCheck(r) PROVE Stays
  BY <1>a, <1>b, <1>3 DEF RequeueCheck, rowVars, tickVars, sentVars
<1>16. ASSUME NEW r \in Rows, RequeueWrite(r) PROVE Stays
  BY <1>a, <1>b, <1>16 DEF RequeueWrite, tickVars, sentVars
<1>4. ASSUME NEW r \in Rows, Elapse(r) PROVE Stays
  BY <1>a, <1>b, <1>4 DEF Elapse, tickVars, sentVars
<1>5. ASSUME NEW d \in Dispatchers, Tick(d) PROVE Stays
  BY <1>a, <1>b, <1>5 DEF Tick, rowVars, pastVars, sentVars
<1>6. ASSUME NEW d \in Dispatchers, ReadChannels(d) PROVE Stays
  BY <1>a, <1>b, <1>6 DEF ReadChannels, rowVars, pastVars, sentVars
<1>7. ASSUME NEW d \in Dispatchers, Finish(d) PROVE Stays
  BY <1>a, <1>b, <1>7 DEF Finish, Rest, pastVars, sentVars
<1>8. ASSUME NEW d \in Dispatchers, Crash(d) PROVE Stays
  BY <1>a, <1>b, <1>8 DEF Crash, Rest, rowVars, sentVars
<1>9. ASSUME NEW d \in Dispatchers, NEW c \in Channels, Look(d, c) PROVE Stays
  BY <1>a, <1>b, <1>9 DEF Look, Found, pastVars, sentVars
<1>10. ASSUME NEW d \in Dispatchers, NEW c \in Channels, Claim(d, c) PROVE Stays
  BY <1>a, <1>b, <1>10 DEF Claim, Claimable, sentVars
<1>11. ASSUME NEW d \in Dispatchers, NEW c \in Channels, Accept(d, c) PROVE Stays
  BY <1>a, <1>b, <1>11 DEF Accept, rowVars, pastVars
<1>12. ASSUME NEW d \in Dispatchers, NEW c \in Channels, WriteSent(d, c) PROVE Stays
  BY <1>a, <1>b, <1>12 DEF WriteSent, Outcome, pastVars, sentVars, Sends, LeaseHeld
<1>13. ASSUME NEW d \in Dispatchers, NEW c \in Channels, NEW retryable \in BOOLEAN, Fails(d, c, retryable) PROVE Stays
  <2> DEFINE r == <<at[d], c>>
  <2>1. /\ step[d][c] \in {"send", "caught"}
        /\ UNCHANGED <<takenOver, requeued, rewritten, switched>>
        /\ \A q \in Rows : q # r => delivery'[q] = delivery[q]
    BY <1>13 DEF Fails, Outcome, pastVars, sentVars
  <2>2. r \in Rows /\ r[1] = at[d] /\ r[2] = c
    BY <1>b, <2>1
  <2>3. Calm(r) => ~Settled(r)
    BY <2>1, <2>2 DEF Sends, LeaseHeld
  <2> QED
    BY <2>1, <2>3
<1>14. ASSUME NEW d \in Dispatchers, NEW c \in Channels, Close(d, c) PROVE Stays
  BY <1>a, <1>b, <1>14 DEF Close, rowVars, pastVars, sentVars
<1>17. ASSUME NEW d \in Dispatchers, NEW c \in Channels,
              AnswerLost(d, c) \/ HealthWriteFails(d, c)
       PROVE Stays
  BY <1>a, <1>b, <1>17 DEF AnswerLost, HealthWriteFails, Unrecorded, Outcome, rowVars
<1>18. ASSUME NEW d \in Dispatchers, NEW c \in Channels, StatementFails(d, c) PROVE Stays
  BY <1>a, <1>b, <1>18 DEF StatementFails, rowVars, sentVars
<1>15. ASSUME UNCHANGED vars PROVE Stays
  BY <1>15 DEF vars, rowVars, pastVars, sentVars
<1> HIDE DEF SendInv, TypeOK, Calm, Stirred, Settled, adminVars, Stays
<1>19. Stays
  BY <1>1, <1>2, <1>3, <1>4, <1>5, <1>6, <1>7, <1>8, <1>9, <1>10, <1>11, <1>12,
     <1>13, <1>14, <1>15, <1>16, <1>17, <1>18, Zenon
  DEF Next, DispatchStep, DispatchFault
<1> QED
  BY <1>19 DEF Stays

(* What a step may do to a notification: record it, or be done with it.    *)
LEMMA DoneStays ==
    ASSUME SendInv, [Next]_vars
    PROVE  \A n \in Notes : note[n] = "done" => note'[n] = "done"
<1> USE DEF SendInv, TypeOK
<1> DEFINE Stays == \A n \in Notes : note[n] = "done" => note'[n] = "done"
<1>1. ASSUME NEW n \in Notes, Record(n) PROVE Stays
  BY <1>1 DEF Record
<1>2. ASSUME NEW d \in Dispatchers, Finish(d) PROVE Stays
  BY <1>2 DEF Finish
<1>3. ASSUME UNCHANGED note PROVE Stays
  BY <1>3
<1> HIDE DEF SendInv, TypeOK, Stays
<1>4. \A c \in Channels : Switch(c) => UNCHANGED note
  BY DEF Switch, rowVars
<1>5. \A r \in Rows : RequeueCheck(r) \/ RequeueWrite(r) \/ Elapse(r) => UNCHANGED note
  BY DEF RequeueCheck, RequeueWrite, Elapse, rowVars
<1>6. \A d \in Dispatchers : Tick(d) \/ ReadChannels(d) \/ Crash(d) => UNCHANGED note
  BY DEF Tick, ReadChannels, Crash, rowVars
<1>7. \A d \in Dispatchers, c \in Channels :
         Look(d, c) \/ Claim(d, c) \/ Accept(d, c) \/ WriteSent(d, c) \/ Close(d, c)
           => UNCHANGED note
  <2> SUFFICES ASSUME NEW d \in Dispatchers, NEW c \in Channels
               PROVE  Look(d, c) \/ Claim(d, c) \/ Accept(d, c) \/ WriteSent(d, c) \/ Close(d, c)
                        => UNCHANGED note
      OBVIOUS
  <2>1. Look(d, c) => UNCHANGED note
    BY DEF Look
  <2>2. Claim(d, c) => UNCHANGED note
    BY DEF Claim
  <2>3. Accept(d, c) \/ WriteSent(d, c) \/ Close(d, c) => UNCHANGED note
    BY DEF Accept, WriteSent, Close, rowVars
  <2> QED
    BY <2>1, <2>2, <2>3
<1>8. \A d \in Dispatchers, c \in Channels, retryable \in BOOLEAN :
         Fails(d, c, retryable) => UNCHANGED note
  BY DEF Fails
<1>11. \A d \in Dispatchers, c \in Channels :
         AnswerLost(d, c) \/ HealthWriteFails(d, c) \/ StatementFails(d, c) => UNCHANGED note
  BY DEF AnswerLost, HealthWriteFails, StatementFails, rowVars
<1>9. UNCHANGED vars => UNCHANGED note
  BY DEF vars, rowVars
<1>10. Stays
  BY <1>1, <1>2, <1>3, <1>4, <1>5, <1>6, <1>7, <1>8, <1>9, <1>11, Zenon
  DEF Next, DispatchStep, DispatchFault
<1> QED
  BY <1>10 DEF Stays

-----------------------------------------------------------------------------
(* Every step keeps done notifications settled and the dispatchers in line.*)
LEMMA OrderStep == OrderInv /\ [Next]_vars => OrderInv'
<1> SUFFICES ASSUME OrderInv, [Next]_vars PROVE OrderInv'
    OBVIOUS
<1>0. SendInv /\ SendInv' /\ TypeOK /\ TypeOK'
  BY SendStep DEF OrderInv, SendInv
<1>s. \A q \in Rows : Calm(q)' => Calm(q) /\ (Settled(q) => Settled(q)')
  BY <1>0, SettledStays
<1>n. \A n \in Notes : note[n] = "done" => note'[n] = "done"
  BY <1>0, DoneStays
<1>a. /\ 0 \notin Notes /\ Notes \subseteq Nat
      /\ \A n \in Notes, c \in Channels : <<n, c>> \in Rows
      /\ \A r \in Rows : r[1] \in Notes /\ r[2] \in Channels /\ r = <<r[1], r[2]>>
  BY BoundAssumption DEF Notes, Rows
<1>b. \A d \in Dispatchers, c \in Channels :
         step[d][c] # "idle" => at[d] \in Notes /\ <<at[d], c>> \in Rows
  BY <1>0, WorksOnRow DEF SendInv
<1>d. DoneIsSettled <=> \A r \in Rows :
         note[r[1]] = "done" /\ r[2] \in on /\ Calm(r) => Settled(r)
  BY DEF DoneIsSettled, Calm, Stirred, Settled
<1>e. DoneIsSettled' <=> \A r \in Rows :
         note'[r[1]] = "done" /\ r[2] \in on' /\ Calm(r)' => Settled(r)'
  BY DEF DoneIsSettled, Calm, Stirred, Settled
<1> USE DEF OrderInv, TypeOK
(* Where the notifications and the channels stay, done stays settled.      *)
<1>q. ASSUME UNCHANGED note, on' \subseteq on
      PROVE  DoneIsSettled' /\ RecordedInOrder'
  BY <1>0, <1>s, <1>a, <1>d, <1>e, <1>q DEF RecordedInOrder
(* Where the dispatchers stay, too, the rest follows.                      *)
<1>r. ASSUME UNCHANGED <<at, step>>, on' \subseteq on
      PROVE  OverIsSettled' /\ OlderDone' /\ OlderSettled'
  BY <1>0, <1>s, <1>n, <1>a, <1>r DEF OverIsSettled, OlderDone, OlderSettled
(* A dispatcher that goes on, but not back.                                *)
<1>g. ASSUME NEW d \in Dispatchers, NEW c \in Channels, NEW n \in Nat,
             NEW s \in Moves,
             Goes(d, c, s, n), UNCHANGED at, on' \subseteq on,
             step[d][c] # "idle",
             s = "claim" => step[d][c] \in {"look", "claim"},
             s = "over" => (c \in on' /\ Calm(<<at[d], c>>)' => Settled(<<at[d], c>>)')
      PROVE  OverIsSettled' /\ OlderDone' /\ OlderSettled'
  <2>1. OverIsSettled'
    <3> SUFFICES ASSUME NEW e \in Dispatchers, NEW r \in Rows, at[e] = r[1],
                        step'[e][r[2]] = "over", r[2] \in on', Calm(r)'
                 PROVE  Settled(r)'
      BY <1>g DEF OverIsSettled
    <3>1. CASE e = d /\ r[2] = c
      <4>1. step'[d][c] = s
        BY <1>0, <1>g DEF Goes
      <4>2. r = <<at[d], c>>
        BY <1>a, <1>g, <3>1
      <4> QED
        BY <1>g, <3>1, <4>1, <4>2
    <3>2. CASE ~(e = d /\ r[2] = c)
      <4>1. step[e][r[2]] = "over"
        BY <1>0, <1>a, <1>g, <3>2 DEF Goes
      <4> QED
        BY <1>s, <1>g, <4>1 DEF OverIsSettled
    <3> QED
      BY <3>1, <3>2
  <2>2. OlderDone'
    BY <1>n, <1>g DEF OlderDone
  <2>3. OlderSettled'
    <3>1. \A e \in Dispatchers, k \in Channels :
             step'[e][k] \in {"look", "claim"} => step[e][k] \in {"look", "claim"}
      BY <1>0, <1>g DEF Goes, Moves
    <3> QED
      BY <1>s, <1>a, <1>g, <3>1 DEF OlderSettled
  <2> QED
    BY <2>1, <2>2, <2>3
<1>1. ASSUME NEW n \in Notes, Record(n) PROVE OrderInv'
  <2>1. /\ UNCHANGED <<on, at, step>>
        /\ note[n] = "absent" /\ (n > 1 => note[n - 1] # "absent")
        /\ note' = [note EXCEPT ![n] = "pending"]
    BY <1>1 DEF Record, tickVars
  <2>2. RecordedInOrder'
    <3> SUFFICES ASSUME NEW m \in Notes, NEW k \in Notes, m < k, note'[k] # "absent"
                 PROVE  note'[m] # "absent"
      BY DEF RecordedInOrder
    <3>1. CASE k = n /\ m # n
      <4>1. n - 1 \in Notes /\ note[n - 1] # "absent" /\ m <= n - 1
        BY <1>a, <2>1, <3>1, BoundAssumption DEF Notes
      <4>2. note[m] # "absent"
        BY <1>a, <4>1 DEF RecordedInOrder
      <4> QED
        BY <1>0, <2>1, <3>1, <4>2
    <3>2. CASE k # n \/ m = n
      BY <1>0, <2>1, <3>2 DEF RecordedInOrder
    <3> QED
      BY <3>1, <3>2
  <2>3. DoneIsSettled'
    BY <1>0, <1>s, <1>a, <1>d, <1>e, <2>1
  <2> QED
    BY <1>0, <1>r, <2>1, <2>2, <2>3
<1>2. ASSUME NEW c \in Channels, Switch(c) PROVE OrderInv'
  <2>1. /\ UNCHANGED <<note, at, step>>
        /\ \A k \in Channels \ {c} : k \in on' => k \in on
        /\ \A r \in Rows : r[2] = c => ~Calm(r)'
    BY <1>2, <1>a DEF Switch, rowVars, tickVars, Calm, Stirred
  <2>2. DoneIsSettled'
    BY <1>0, <1>s, <1>a, <1>d, <1>e, <2>1
  <2>3. RecordedInOrder' /\ OlderDone'
    BY <2>1 DEF RecordedInOrder, OlderDone
  <2>4. OverIsSettled' /\ OlderSettled'
    BY <1>0, <1>s, <1>a, <2>1 DEF OverIsSettled, OlderSettled
  <2> QED
    BY <1>0, <2>2, <2>3, <2>4
<1>3. ASSUME NEW r \in Rows, RequeueCheck(r) \/ RequeueWrite(r) \/ Elapse(r) PROVE OrderInv'
  <2>1. UNCHANGED <<note, on, at, step>>
    BY <1>3 DEF RequeueCheck, RequeueWrite, Elapse, rowVars, tickVars
  <2> QED
    BY <1>0, <1>q, <1>r, <2>1
<1>4. ASSUME NEW d \in Dispatchers, Tick(d) PROVE OrderInv'
  <2>1. UNCHANGED <<note, on, step>> /\ step[d] = Quiet
    BY <1>0, <1>4 DEF Tick, rowVars, SendInv, RestsQuietly
  <2>2. PICK n \in Notes : /\ Candidate(n) /\ \A m \in Notes : Candidate(m) => n <= m
                           /\ at' = [at EXCEPT ![d] = n]
    BY <1>4 DEF Tick
  <2>3. \A m \in Notes : m < n => note[m] = "done"
    <3> SUFFICES ASSUME NEW m \in Notes, m < n PROVE note[m] = "done"
      OBVIOUS
    <3>1. note[n] # "absent" /\ ~Candidate(m)
      BY <1>a, <2>2 DEF Candidate
    <3>2. note[m] # "absent" /\ note[m] # "pending"
      BY <3>1 DEF RecordedInOrder, Candidate
    <3> QED
      BY <1>0, <3>2
  <2>4. OlderDone'
    BY <1>0, <1>n, <2>2, <2>3 DEF OlderDone
  <2>5. OverIsSettled' /\ OlderSettled'
    BY <1>0, <1>s, <1>a, <2>1, <2>2 DEF OverIsSettled, OlderSettled, Quiet
  <2> QED
    BY <1>0, <1>q, <2>1, <2>4, <2>5
<1>5. ASSUME NEW d \in Dispatchers, ReadChannels(d) PROVE OrderInv'
  <2>1. /\ UNCHANGED <<note, on, at>>
        /\ at[d] # 0
        /\ step' = [step EXCEPT ![d] =
               [c \in Channels |-> IF c \in on THEN "look" ELSE "over"]]
    BY <1>5 DEF ReadChannels, rowVars
  <2>2. OverIsSettled'
    BY <1>0, <1>s, <1>a, <2>1 DEF OverIsSettled
  <2>3. OlderDone'
    BY <1>n, <2>1 DEF OlderDone
  <2>4. OlderSettled'
    <3> SUFFICES ASSUME NEW e \in Dispatchers, NEW q \in Rows, q[1] < at[e], Calm(q)',
                        step'[e][q[2]] \in {"look", "claim"}
                 PROVE  Settled(q)'
      BY <2>1 DEF OlderSettled
    <3>1. CASE e = d
      <4>1. q[2] \in on /\ note[q[1]] = "done"
        BY <1>0, <1>a, <2>1, <3>1 DEF OlderDone
      <4> QED
        BY <1>s, <1>d, <4>1
    <3>2. CASE e # d
      BY <1>0, <1>s, <2>1, <3>2 DEF OlderSettled
    <3> QED
      BY <3>1, <3>2
  <2> QED
    BY <1>0, <1>q, <2>1, <2>2, <2>3, <2>4
<1>6. ASSUME NEW d \in Dispatchers, Finish(d) PROVE OrderInv'
  <2>1. /\ UNCHANGED on
        /\ at[d] # 0 /\ at[d] \in Notes
        /\ at' = [at EXCEPT ![d] = 0] /\ step' = [step EXCEPT ![d] = Quiet]
        /\ \A c \in Channels : step[d][c] \in {"again", "over"}
        /\ note' = IF \E c \in Channels : step[d][c] = "again"
                     THEN note ELSE [note EXCEPT ![at[d]] = "done"]
    BY <1>0, <1>6 DEF Finish, Rest
  <2>2. DoneIsSettled'
    <3> SUFFICES ASSUME NEW r \in Rows, note'[r[1]] = "done", r[2] \in on, Calm(r)'
                 PROVE  Settled(r)'
      BY <1>e, <2>1
    <3>1. CASE note[r[1]] = "done"
      BY <1>s, <1>d, <3>1
    <3>2. CASE note[r[1]] # "done"
      <4>1. at[d] = r[1] /\ step[d][r[2]] = "over"
        BY <1>0, <1>a, <2>1, <3>2
      <4> QED
        BY <1>s, <4>1 DEF OverIsSettled
    <3> QED
      BY <3>1, <3>2
  <2>3. RecordedInOrder'
    <3>1. note[at[d]] # "absent"
      BY <1>0, <2>1 DEF SendInv, Unborn
    <3>2. \A n \in Notes : note'[n] # "absent" <=> note[n] # "absent"
      BY <1>0, <2>1, <3>1
    <3> QED
      BY <3>2 DEF RecordedInOrder
  <2>4. OlderDone'
    <3>1. \A e \in Dispatchers, m \in Notes : m < at'[e] => e # d /\ m < at[e]
      BY <1>0, <1>a, <2>1
    <3> QED
      BY <1>n, <3>1 DEF OlderDone
  <2>5. OverIsSettled' /\ OlderSettled'
    <3>1. \A e \in Dispatchers, k \in Channels :
             step'[e][k] # "idle" => e # d /\ step'[e][k] = step[e][k] /\ at'[e] = at[e]
      BY <1>0, <2>1 DEF Quiet
    <3> QED
      BY <1>s, <1>a, <2>1, <3>1 DEF OverIsSettled, OlderSettled
  <2> QED
    BY <1>0, <2>2, <2>3, <2>4, <2>5
<1>7. ASSUME NEW d \in Dispatchers, Crash(d) PROVE OrderInv'
  <2>1. /\ UNCHANGED <<note, on>>
        /\ at' = [at EXCEPT ![d] = 0] /\ step' = [step EXCEPT ![d] = Quiet]
    BY <1>7 DEF Crash, Rest, rowVars
  <2>2. OlderDone'
    <3>1. \A e \in Dispatchers, m \in Notes : m < at'[e] => e # d /\ m < at[e]
      BY <1>0, <1>a, <2>1
    <3> QED
      BY <1>n, <3>1 DEF OlderDone
  <2>3. OverIsSettled' /\ OlderSettled'
    <3>1. \A e \in Dispatchers, k \in Channels :
             step'[e][k] # "idle" => e # d /\ step'[e][k] = step[e][k] /\ at'[e] = at[e]
      BY <1>0, <2>1 DEF Quiet
    <3> QED
      BY <1>s, <1>a, <2>1, <3>1 DEF OverIsSettled, OlderSettled
  <2> QED
    BY <1>0, <1>q, <2>1, <2>2, <2>3
<1>8. ASSUME NEW d \in Dispatchers, NEW c \in Channels, Look(d, c) PROVE OrderInv'
  <2>1. UNCHANGED <<note, on, at>> /\ step[d][c] = "look"
    BY <1>8 DEF Look, pastVars
  <2>2. PICK s \in {"over", "again", "claim"}, n \in Nat :
               /\ Goes(d, c, s, n)
               /\ s = "over" => delivery[<<at[d], c>>] \in {"sent", "dead"}
    BY <1>0, <1>8, LookDecides DEF SendInv
  <2>3. s = "over" /\ Calm(<<at[d], c>>)' => Settled(<<at[d], c>>)'
    BY <1>s, <1>b, <2>1, <2>2 DEF Settled
  <2>4. OverIsSettled' /\ OlderDone' /\ OlderSettled'
    BY <1>g, <2>1, <2>2, <2>3 DEF Moves
  <2> QED
    BY <1>0, <1>q, <2>1, <2>4
<1>9. ASSUME NEW d \in Dispatchers, NEW c \in Channels, Claim(d, c) PROVE OrderInv'
  <2>1. UNCHANGED <<note, on, at>> /\ step[d][c] = "claim"
    BY <1>9 DEF Claim
  <2>2. PICK s \in {"send", "again"}, n \in Nat : Goes(d, c, s, n)
    BY <1>0, <1>9, 0 \in Nat DEF Claim, Ends
  <2>3. OverIsSettled' /\ OlderDone' /\ OlderSettled'
    BY <1>g, <2>1, <2>2 DEF Moves
  <2> QED
    BY <1>0, <1>q, <2>1, <2>3
<1>10. ASSUME NEW d \in Dispatchers, NEW c \in Channels, Accept(d, c) PROVE OrderInv'
  <2>1. UNCHANGED <<note, on, at>> /\ step[d][c] = "send"
    BY <1>10 DEF Accept, rowVars
  <2>2. PICK n \in Nat : Goes(d, c, "sent", n)
    BY <1>0, <1>10 DEF Accept
  <2>3. OverIsSettled' /\ OlderDone' /\ OlderSettled'
    BY <1>g, <2>1, <2>2 DEF Moves
  <2> QED
    BY <1>0, <1>q, <2>1, <2>3
<1>11. ASSUME NEW d \in Dispatchers, NEW c \in Channels, WriteSent(d, c) PROVE OrderInv'
  <2>1. UNCHANGED <<note, on, at>> /\ step[d][c] = "sent" /\ Goes(d, c, "over", 0)
    BY <1>11 DEF WriteSent, Ends
  <2>2. Settled(<<at[d], c>>)'
    BY <1>0, <1>11, <1>b, <2>1 DEF WriteSent, Outcome, Settled
  <2>3. OverIsSettled' /\ OlderDone' /\ OlderSettled'
    BY <1>g, <2>1, <2>2, 0 \in Nat DEF Moves
  <2> QED
    BY <1>0, <1>q, <2>1, <2>3
<1>12. ASSUME NEW d \in Dispatchers, NEW c \in Channels, NEW retryable \in BOOLEAN,
              Fails(d, c, retryable)
       PROVE OrderInv'
  <2>1. UNCHANGED <<note, on, at>> /\ step[d][c] \in {"send", "caught"}
    BY <1>12 DEF Fails
  <2>2. PICK s \in {"close", "over", "again"} :
           /\ Goes(d, c, s, 0)
           /\ s = "over" => retryable /\ tried[d][c] + 1 >= MaxAttempts
    BY <1>12 DEF Fails, Ends
  <2>3. s = "over" => Settled(<<at[d], c>>)'
    BY <1>0, <1>12, <1>b, <2>1, <2>2 DEF Fails, Outcome, Settled
  <2>4. OverIsSettled' /\ OlderDone' /\ OlderSettled'
    BY <1>g, <2>1, <2>2, <2>3, 0 \in Nat DEF Moves
  <2> QED
    BY <1>0, <1>q, <2>1, <2>4
<1>13. ASSUME NEW d \in Dispatchers, NEW c \in Channels, Close(d, c) PROVE OrderInv'
  <2>1. /\ UNCHANGED <<note, at>> /\ step[d][c] = "close" /\ Goes(d, c, "over", 0)
        /\ on' \subseteq on /\ c \notin on'
    BY <1>13 DEF Close, Ends, rowVars
  <2>2. OverIsSettled' /\ OlderDone' /\ OlderSettled'
    BY <1>g, <2>1, 0 \in Nat DEF Moves
  <2> QED
    BY <1>0, <1>q, <2>1, <2>2
<1>15. ASSUME NEW d \in Dispatchers, NEW c \in Channels,
              AnswerLost(d, c) \/ HealthWriteFails(d, c)
       PROVE OrderInv'
  <2>1. UNCHANGED <<note, on, at>> /\ step[d][c] = "sent"
    BY <1>15 DEF AnswerLost, HealthWriteFails, rowVars
  <2>2. PICK n \in Nat : Goes(d, c, "caught", n)
    BY <1>0, <1>15 DEF AnswerLost, HealthWriteFails, Unrecorded
  <2>3. OverIsSettled' /\ OlderDone' /\ OlderSettled'
    BY <1>g, <2>1, <2>2 DEF Moves
  <2> QED
    BY <1>0, <1>q, <2>1, <2>3
<1>16. ASSUME NEW d \in Dispatchers, NEW c \in Channels, StatementFails(d, c) PROVE OrderInv'
  <2>1. UNCHANGED <<note, on, at>> /\ step[d][c] # "idle" /\ Goes(d, c, "again", 0)
    BY <1>16 DEF StatementFails, Ends, rowVars
  <2>2. OverIsSettled' /\ OlderDone' /\ OlderSettled'
    BY <1>g, <2>1, 0 \in Nat DEF Moves
  <2> QED
    BY <1>0, <1>q, <2>1, <2>2
<1>14. CASE UNCHANGED vars
  <2>1. UNCHANGED <<note, on, at, step>>
    BY <1>14 DEF vars, rowVars, tickVars
  <2> QED
    BY <1>0, <1>q, <1>r, <2>1
<1> HIDE DEF OrderInv, TypeOK
<1> QED
  BY <1>1, <1>2, <1>3, <1>4, <1>5, <1>6, <1>7, <1>8, <1>9, <1>10, <1>11, <1>12,
     <1>13, <1>14, <1>15, <1>16, Zenon
  DEF Next, DispatchStep, DispatchFault

-----------------------------------------------------------------------------
(* The invariant holds throughout every run of the outbox.                 *)
LEMMA Invariance == Spec => []OrderInv
<1>1. Init => OrderInv
  BY InitOrder
<1>2. OrderInv /\ [Next]_vars => OrderInv'
  BY OrderStep
<1> QED
  BY <1>1, <1>2, PTL DEF Spec

(* The rows, the ticks and the histories keep their ranges                 *)
(* (services/notifications.ts).                                            *)
THEOREM TypeCorrect == Spec => []TypeOK
<1>1. OrderInv => TypeOK
  BY DEF OrderInv, SendInv
<1> QED
  BY <1>1, Invariance, PTL

(* However many dispatchers overlap, the compare-and-set on the lease lets *)
(* two of them send one row only after a lease passed or an admin's retry  *)
(* (dispatchChannel).                                                      *)
THEOREM OneSenderAtATime == Spec => []OneSender
<1>1. OrderInv => OneSender
  BY DEF OrderInv, SendInv, OneSender, LeaseHeld
<1> QED
  BY <1>1, Invariance, PTL

(* A message goes out twice only after a lease passed, an acceptance that  *)
(* ended in the catch, or an admin's retry: for every number of overlaps,  *)
(* crashes, late sends and failed writes (dispatchChannel).                *)
THEOREM SentAtMostOnce == Spec => []SentOnce
<1>1. OrderInv => SentOnce
  BY DEF OrderInv, SendInv
<1> QED
  BY <1>1, Invariance, PTL

(* A notification is done only when the deliveries it was recorded for are *)
(* sent or dead (dispatchRow), whatever other dispatchers did with it.     *)
THEOREM DoneMeansSettled == Spec => []DoneIsSettled
<1>1. OrderInv => DoneIsSettled
  BY DEF OrderInv
<1> QED
  BY <1>1, Invariance, PTL

(* No dispatcher first claims a delivery while an older one on its channel *)
(* is open (dispatchPendingNotifications picks one per user).              *)
THEOREM KeepsTheOrder == Spec => InOrder
<1>1. OrderInv /\ [Next]_vars =>
        [\A r \in Rows :
           delivery[r] = "pending" /\ delivery'[r] = "processing" =>
               \A q \in Rows :
                   q[1] < r[1] /\ q[2] = r[2] /\ ~Stirred(q) => ~Open(q)]_vars
  <2> SUFFICES ASSUME OrderInv, Next, NEW r \in Rows,
                      delivery[r] = "pending", delivery'[r] = "processing",
                      NEW q \in Rows, q[1] < r[1], q[2] = r[2],
                      ~Stirred(q)
               PROVE  ~Open(q)
    OBVIOUS
  <2> USE DEF OrderInv, SendInv, TypeOK
  <2>b. \A d \in Dispatchers, c \in Channels :
           step[d][c] # "idle" => at[d] \in Notes /\ <<at[d], c>> \in Rows
    BY WorksOnRow
  <2>1. ASSUME NEW d \in Dispatchers, NEW c \in Channels, Claim(d, c) PROVE ~Open(q)
    <3>1. r = <<at[d], c>> /\ step[d][c] = "claim"
      BY <2>1, <2>b DEF Claim
    <3> QED
      BY <3>1 DEF OlderSettled, Calm, Settled, Open
  <2>2. ASSUME NEW n \in Notes, Record(n) PROVE ~Open(q)
    BY <2>2 DEF Record
  <2>3. ASSUME NEW s \in Rows, RequeueCheck(s) \/ RequeueWrite(s) \/ Elapse(s) PROVE ~Open(q)
    BY <2>3 DEF RequeueCheck, RequeueWrite, Elapse, rowVars
  <2>4. ASSUME NEW d \in Dispatchers, NEW c \in Channels, Look(d, c) PROVE ~Open(q)
    BY <2>4, <2>b DEF Look, Found
  <2>5. ASSUME NEW d \in Dispatchers, NEW c \in Channels, WriteSent(d, c) PROVE ~Open(q)
    BY <2>5, <2>b DEF WriteSent, Outcome
  <2>6. ASSUME NEW d \in Dispatchers, NEW c \in Channels, NEW retryable \in BOOLEAN,
               Fails(d, c, retryable)
        PROVE ~Open(q)
    BY <2>6, <2>b DEF Fails, Outcome
  <2>9. ASSUME NEW d \in Dispatchers, NEW c \in Channels,
               AnswerLost(d, c) \/ HealthWriteFails(d, c)
        PROVE ~Open(q)
    BY <2>9, <2>b DEF AnswerLost, HealthWriteFails, Outcome, rowVars
  <2>7. ASSUME UNCHANGED delivery PROVE ~Open(q)
    BY <2>7
  <2>8. /\ \A c \in Channels : Switch(c) => UNCHANGED delivery
        /\ \A d \in Dispatchers :
             Tick(d) \/ ReadChannels(d) \/ Finish(d) \/ Crash(d) => UNCHANGED delivery
        /\ \A d \in Dispatchers, c \in Channels :
             Accept(d, c) \/ Close(d, c) \/ StatementFails(d, c) => UNCHANGED delivery
    BY DEF Switch, Tick, ReadChannels, Finish, Crash, Accept, Close, StatementFails, rowVars
  <2> HIDE DEF OrderInv, SendInv, TypeOK
  <2> QED
    BY <2>1, <2>2, <2>3, <2>4, <2>5, <2>6, <2>7, <2>8, <2>9, Zenon
    DEF Next, DispatchStep, DispatchFault
<1> QED
  BY <1>1, Invariance, PTL DEF Spec, InOrder
=============================================================================
