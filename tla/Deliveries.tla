----------------------------- MODULE Deliveries -----------------------------
(***************************************************************************)
(* The notification outbox of one user: notifications in the order they    *)
(* were recorded, one delivery row per channel, and dispatchers of several *)
(* processes that lease the rows, send, back off and dead-letter.          *)
(*                                                                         *)
(* services/notifications.ts, services/notifications/worker.ts,            *)
(* services/notification-channels.ts, routes/v1/admin-notifications.ts.    *)
(***************************************************************************)
EXTENDS Naturals

CONSTANTS
    LastNote,      \* notifications recorded for the user
    Channels,      \* channels the user connected
    Unreliable,    \* bound: those whose provider refuses messages
    Dispatchers,   \* processes that run the dispatch tick
    Mortal,        \* bound: those that die, are late, or whose statements fail
    MaxAttempts,   \* deliveryMaxAttempts
    MaxFaults      \* bound: crashes, failed statements, lost answers, late sends,
                   \* switched channels, requeues

ASSUME BoundAssumption ==
    /\ {LastNote, MaxFaults} \subseteq Nat
    /\ MaxAttempts \in Nat \ {0}
    /\ Unreliable \subseteq Channels /\ Mortal \subseteq Dispatchers

Notes == 1 .. LastNote

Rows == Notes \X Channels

VARIABLES
    note,        \* Notification.status, "absent" before it is recorded
    delivery,    \* NotificationDelivery.status, "none" without a row
    attempts,    \* NotificationDelivery.attempts
    past,        \* rows whose nextAttemptAt is in the past
    on,          \* channel is connected, verified and delivered to
    at,          \* dispatcher -> the notification of its tick, 0 between ticks
    due,         \* dispatcher -> rows with nextAttemptAt <= now, its own now
    step,        \* dispatcher -> channel -> what dispatchChannel does next
    tried,       \* dispatcher -> channel -> the attempts it read
    requeues,    \* row -> admin retries past their check
    faults,      \* faults so far
    got,         \* history: rows whose message the provider accepted
    doubled,     \* history: rows whose message it accepted twice
    takenOver,   \* history: rows leased again while they were processing
    unrecorded,  \* history: rows accepted by a send that ended in the catch
    rewritten,   \* history: rows of a catch that follows the write of sent
    requeued,    \* history: rows an admin's retry wrote
    switched     \* history: channels switched

rowVars == <<note, delivery, attempts, past>>
tickVars == <<at, due, step, tried>>
adminVars == <<requeues, requeued, switched>>
pastVars == <<faults, takenOver, adminVars>>
sentVars == <<got, doubled, unrecorded, rewritten>>
vars == <<rowVars, on, tickVars, pastVars, sentVars>>

Statuses == {"none", "pending", "processing", "sent", "failed", "dead"}

TypeOK ==
    /\ note \in [Notes -> {"absent", "pending", "done"}]
    /\ delivery \in [Rows -> Statuses]
    /\ attempts \in [Rows -> Nat]
    /\ past \in SUBSET Rows
    /\ on \in SUBSET Channels
    /\ at \in [Dispatchers -> {0} \cup Notes]
    /\ due \in [Dispatchers -> SUBSET past]
    /\ step \in [Dispatchers -> [Channels ->
          {"idle", "look", "claim", "send", "sent", "caught", "close", "again", "over"}]]
    /\ tried \in [Dispatchers -> [Channels -> Nat]]
    /\ requeues \in [Rows -> Nat]
    /\ faults \in 0 .. MaxFaults
    /\ got \in SUBSET Rows /\ doubled \in SUBSET got
    /\ takenOver \in SUBSET Rows /\ unrecorded \in SUBSET Rows
    /\ rewritten \in SUBSET Rows /\ requeued \in SUBSET Rows
    /\ switched \in SUBSET Channels

Quiet == [c \in Channels |-> "idle"]

Init ==
    /\ note = [n \in Notes |-> "absent"]
    /\ delivery = [r \in Rows |-> "none"]
    /\ attempts = [r \in Rows |-> 0]
    /\ past = {}
    /\ on = Channels
    /\ at = [d \in Dispatchers |-> 0]
    /\ due = [d \in Dispatchers |-> {}]
    /\ step = [d \in Dispatchers |-> Quiet]
    /\ tried = [d \in Dispatchers |-> [c \in Channels |-> 0]]
    /\ requeues = [r \in Rows |-> 0]
    /\ faults = 0
    /\ got = {} /\ doubled = {}
    /\ takenOver = {} /\ unrecorded = {} /\ rewritten = {}
    /\ requeued = {} /\ switched = {}

Fault == faults < MaxFaults /\ faults' = faults + 1

-----------------------------------------------------------------------------
(* notify and createDeliveryIntents: the notification and a row for every  *)
(* channel that is on, in one transaction.                                 *)
Record(n) ==
    /\ note[n] = "absent"
    /\ n > 1 => note[n - 1] # "absent"
    /\ note' = [note EXCEPT ![n] = "pending"]
    /\ delivery' = [r \in Rows |-> IF r[1] = n /\ r[2] \in on THEN "pending" ELSE delivery[r]]
    /\ UNCHANGED <<attempts, past, on, tickVars, pastVars, sentVars>>

(* The user mutes, disconnects or reconnects a channel.                    *)
Switch(c) ==
    /\ Fault
    /\ on' = IF c \in on THEN on \ {c} ELSE on \cup {c}
    /\ switched' = switched \cup {c}
    /\ UNCHANGED <<rowVars, tickVars, requeues, requeued, takenOver, sentVars>>

(* nextAttemptAt is written anew: in the future, or null.                  *)
Restamp(r) ==
    /\ past' = past \ {r}
    /\ due' = [d \in Dispatchers |-> due[d] \ {r}]

(* The admin's retry finds a dead letter ...                               *)
RequeueCheck(r) ==
    /\ Fault
    /\ delivery[r] = "dead"
    /\ requeues' = [requeues EXCEPT ![r] = @ + 1]
    /\ UNCHANGED <<rowVars, on, tickVars, requeued, switched, takenOver, sentVars>>

(* ... and writes the delivery row, and only it, by id alone.              *)
RequeueWrite(r) ==
    /\ requeues[r] > 0
    /\ requeues' = [requeues EXCEPT ![r] = @ - 1]
    /\ delivery' = [delivery EXCEPT ![r] = "pending"]
    /\ Restamp(r)
    /\ requeued' = requeued \cup {r}
    /\ UNCHANGED <<note, attempts, on, at, step, tried, faults, switched, takenOver,
                   sentVars>>

(* Dispatcher d holds the lease of row r, its outcome not yet written.     *)
Sends(d, r) == at[d] = r[1] /\ step[d][r[2]] \in {"send", "sent", "caught"}

(* A backoff or the lease of a dead dispatcher passes; the lease of one    *)
(* that is still sending passes as a fault.                                *)
Elapse(r) ==
    /\ delivery[r] \in {"processing", "failed"} /\ r \notin past
    /\ past' = past \cup {r}
    /\ IF \E d \in Dispatchers : Sends(d, r)
         THEN Fault /\ \E d \in Mortal : Sends(d, r)
         ELSE UNCHANGED faults
    /\ UNCHANGED <<note, delivery, attempts, on, tickVars, takenOver, adminVars, sentVars>>

-----------------------------------------------------------------------------
(* Not done yet, or done with a row whose backoff or lease is over.        *)
Candidate(n) ==
    \/ note[n] = "pending"
    \/ note[n] = "done" /\ \E c \in Channels :
          delivery[<<n, c>>] \in {"failed", "processing"} /\ <<n, c>> \in past

(* Fault variant: a tick takes any candidate.                              *)
TickAny(d) ==
    /\ at[d] = 0
    /\ \E n \in Notes :
        /\ Candidate(n)
        /\ at' = [at EXCEPT ![d] = n]
    /\ due' = [due EXCEPT ![d] = {r \in past : r[1] = at'[d]}]
    /\ UNCHANGED <<rowVars, on, step, tried, pastVars, sentVars>>

(* A tick takes its time and the oldest candidate of the user.             *)
Tick(d) ==
    /\ at[d] = 0
    /\ \E n \in Notes :
        /\ Candidate(n) /\ \A m \in Notes : Candidate(m) => n <= m
        /\ at' = [at EXCEPT ![d] = n]
    /\ due' = [due EXCEPT ![d] = {r \in past : r[1] = at'[d]}]
    /\ UNCHANGED <<rowVars, on, step, tried, pastVars, sentVars>>

(* dispatchRow fans out over the channels that are on.                     *)
ReadChannels(d) ==
    /\ at[d] # 0 /\ step[d] = Quiet
    /\ step' = [step EXCEPT ![d] = [c \in Channels |-> IF c \in on THEN "look" ELSE "over"]]
    /\ UNCHANGED <<rowVars, on, at, due, tried, pastVars, sentVars>>

(* What dispatchChannel does next, and the attempts it remembers.          *)
Goes(d, c, s, n) ==
    /\ step' = [step EXCEPT ![d][c] = s]
    /\ tried' = [tried EXCEPT ![d][c] = n]

Ends(d, c, s) == Goes(d, c, s, 0)

(* A channel connected after the recording gets its row now ...            *)
Found(r) == IF delivery[r] = "none" THEN "pending" ELSE delivery[r]

(* ... and the row decides: over, to be tried again later, or to claim.    *)
Look(d, c) ==
    LET r == <<at[d], c>> IN
    /\ step[d][c] = "look"
    /\ delivery' = [delivery EXCEPT ![r] = Found(r)]
    /\ CASE Found(r) \in {"sent", "dead"} -> Ends(d, c, "over")
         [] Found(r) \in {"failed", "processing"} /\ r \notin due[d] -> Ends(d, c, "again")
         [] Found(r) = "pending" \/ (Found(r) \in {"failed", "processing"} /\ r \in due[d]) ->
              Goes(d, c, "claim", attempts[r])
    /\ UNCHANGED <<note, attempts, past, on, at, due, pastVars, sentVars>>

(* Fault variant: a lease that has passed is never taken over.             *)
ClaimableNoLease(d, r) ==
    \/ delivery[r] = "pending"
    \/ delivery[r] = "failed" /\ r \in due[d]

(* Fault variant: the claim trusts what Look saw.                          *)
ClaimableAlways(d, r) == TRUE

(* The condition of the claiming update.                                   *)
Claimable(d, r) ==
    \/ delivery[r] = "pending"
    \/ delivery[r] \in {"failed", "processing"} /\ r \in due[d]

(* Fault variant: who loses the claim takes the row for settled.           *)
ClaimLossOver(d, c) ==
    LET r == <<at[d], c>> IN
    /\ step[d][c] = "claim"
    /\ IF Claimable(d, r)
         THEN /\ delivery' = [delivery EXCEPT ![r] = "processing"]
              /\ Restamp(r)
              /\ takenOver' = takenOver \cup {s \in {r} : delivery[s] = "processing"}
              /\ Goes(d, c, "send", tried[d][c])
         ELSE Ends(d, c, "over") /\ UNCHANGED <<delivery, past, due, takenOver>>
    /\ UNCHANGED <<note, attempts, on, at, faults, adminVars, sentVars>>

(* Fault variant: a lease looked up but never written.                     *)
ClaimUnwritten(d, c) ==
    /\ step[d][c] = "claim"
    /\ Goes(d, c, IF Claimable(d, <<at[d], c>>) THEN "send" ELSE "again", tried[d][c])
    /\ UNCHANGED <<rowVars, on, at, due, pastVars, sentVars>>

(* The lease is taken by compare-and-set; who loses it never sends.        *)
Claim(d, c) ==
    LET r == <<at[d], c>> IN
    /\ step[d][c] = "claim"
    /\ IF Claimable(d, r)
         THEN /\ delivery' = [delivery EXCEPT ![r] = "processing"]
              /\ Restamp(r)
              /\ takenOver' = takenOver \cup {s \in {r} : delivery[s] = "processing"}
              /\ Goes(d, c, "send", tried[d][c])
         ELSE Ends(d, c, "again") /\ UNCHANGED <<delivery, past, due, takenOver>>
    /\ UNCHANGED <<note, attempts, on, at, faults, adminVars, sentVars>>

(* The provider accepts the message ...                                    *)
Accept(d, c) ==
    /\ step[d][c] = "send"
    /\ got' = got \cup {<<at[d], c>>}
    /\ doubled' = doubled \cup (got \cap {<<at[d], c>>})
    /\ Goes(d, c, "sent", tried[d][c])
    /\ UNCHANGED <<rowVars, on, at, due, pastVars, unrecorded, rewritten>>

(* The outcome is written by row id, whatever the row is by now.           *)
Outcome(r, s) ==
    /\ delivery' = [delivery EXCEPT ![r] = s]
    /\ attempts' = [attempts EXCEPT ![r] = @ + 1]
    /\ Restamp(r)

(* ... and the row says so, and then the channel.                          *)
WriteSent(d, c) ==
    /\ step[d][c] = "sent"
    /\ Outcome(<<at[d], c>>, "sent")
    /\ Ends(d, c, "over")
    /\ UNCHANGED <<note, on, at, pastVars, sentVars>>

(* An accepted message whose send ends in the catch all the same.          *)
Unrecorded(d, c) ==
    /\ unrecorded' = unrecorded \cup {<<at[d], c>>}
    /\ Goes(d, c, "caught", tried[d][c])

(* The adapter throws although the provider accepted (no answer in time, a *)
(* body that breaks off), or the write of sent fails, in the same try ...  *)
AnswerLost(d, c) ==
    /\ step[d][c] = "sent"
    /\ Fault
    /\ Unrecorded(d, c)
    /\ UNCHANGED <<rowVars, on, at, due, takenOver, adminVars, got, doubled, rewritten>>

(* ... or that of the channel's health, when the row says sent already.    *)
HealthWriteFails(d, c) ==
    /\ step[d][c] = "sent"
    /\ Fault
    /\ Outcome(<<at[d], c>>, "sent")
    /\ rewritten' = rewritten \cup {<<at[d], c>>}
    /\ Unrecorded(d, c)
    /\ UNCHANGED <<note, on, at, takenOver, adminVars, got, doubled>>

(* The catch, for a message refused or one accepted without a record: back *)
(* off, or give the row up.                                                *)
Fails(d, c, retryable) ==
    LET terminal == ~retryable \/ tried[d][c] + 1 >= MaxAttempts IN
    /\ \/ c \in Unreliable /\ step[d][c] = "send"
       \/ retryable /\ step[d][c] = "caught"
    /\ Outcome(<<at[d], c>>, IF terminal THEN "dead" ELSE "failed")
    /\ Ends(d, c, CASE ~retryable -> "close"
                    [] retryable /\ terminal -> "over"
                    [] retryable /\ ~terminal -> "again")
    /\ UNCHANGED <<note, on, at, pastVars, sentVars>>

(* A destination that fails for good is not delivered to any more.         *)
Close(d, c) ==
    /\ step[d][c] = "close"
    /\ on' = on \ {c}
    /\ Ends(d, c, "over")
    /\ UNCHANGED <<rowVars, at, due, pastVars, sentVars>>

(* The tick forgets what it read.                                          *)
Rest(d) ==
    /\ at' = [at EXCEPT ![d] = 0]
    /\ due' = [due EXCEPT ![d] = {}]
    /\ step' = [step EXCEPT ![d] = Quiet]
    /\ tried' = [tried EXCEPT ![d] = [c \in Channels |-> 0]]

(* All channels answered: the notification is done unless one of them is   *)
(* to be tried again.                                                      *)
Finish(d) ==
    /\ at[d] # 0
    /\ \A c \in Channels : step[d][c] \in {"again", "over"}
    /\ note' = IF \E c \in Channels : step[d][c] = "again"
                 THEN note ELSE [note EXCEPT ![at[d]] = "done"]
    /\ Rest(d)
    /\ UNCHANGED <<delivery, attempts, past, on, pastVars, sentVars>>

(* A statement outside the try fails, one of the catch included: the       *)
(* notification is not done, and the row is left as it stands.  (In the    *)
(* code the next tick need not wait for the other channels: here that tick *)
(* is another dispatcher's.)                                               *)
StatementFails(d, c) ==
    /\ \/ step[d][c] \in {"look", "claim", "caught", "close"}
       \/ c \in Unreliable /\ step[d][c] = "send"
    /\ Fault
    /\ Ends(d, c, "again")
    /\ UNCHANGED <<rowVars, on, at, due, takenOver, adminVars, sentVars>>

(* The process dies and starts again, or a statement of the tick fails.    *)
Crash(d) ==
    /\ at[d] # 0
    /\ Fault
    /\ Rest(d)
    /\ UNCHANGED <<rowVars, on, takenOver, adminVars, sentVars>>

DispatchStep(d) ==
    \/ Tick(d) \/ ReadChannels(d) \/ Finish(d)
    \/ \E c \in Channels :
          \/ Look(d, c) \/ Claim(d, c) \/ Accept(d, c) \/ WriteSent(d, c)
          \/ \E retryable \in BOOLEAN : Fails(d, c, retryable)
          \/ Close(d, c)

DispatchFault(d) ==
    /\ d \in Mortal
    /\ \/ Crash(d)
       \/ \E c \in Channels :
             AnswerLost(d, c) \/ HealthWriteFails(d, c) \/ StatementFails(d, c)

Next ==
    \/ \E n \in Notes : Record(n)
    \/ \E c \in Channels : Switch(c)
    \/ \E r \in Rows : RequeueCheck(r) \/ RequeueWrite(r) \/ Elapse(r)
    \/ \E d \in Dispatchers : DispatchStep(d) \/ DispatchFault(d)

Spec == Init /\ [][Next]_vars

(* Every process ticks and goes on (worker.ts); time passes.               *)
FairSpec ==
    /\ Spec
    /\ \A d \in Dispatchers : WF_vars(DispatchStep(d))
    /\ \A r \in Rows : WF_vars(Elapse(r))

-----------------------------------------------------------------------------
Open(r) == delivery[r] \in {"pending", "processing", "failed"}

(* "The lease stops two workers sending concurrently" (notifications.ts,   *)
(* header), unless it passed under the first of them or an admin's retry   *)
(* put the row back into the queue.                                        *)
OneSender ==
    \A r \in Rows \ (takenOver \cup requeued) : \A d, e \in Dispatchers :
        Sends(d, r) /\ Sends(e, r) => d = e

(* Delivery is at least once, and a second copy has a cause: a lease that  *)
(* passed, an acceptance that was not recorded, an admin's retry.  No      *)
(* overlap of dispatchers makes one by itself (notifications.ts, header).  *)
SentOnce == doubled \subseteq takenOver \cup unrecorded \cup requeued

(* A row whose lease passed, that was rewritten or requeued, or whose      *)
(* channel was switched.                                                   *)
Stirred(r) == r \in takenOver \cup rewritten \cup requeued \/ r[2] \in switched

(* A notification is done only with every delivery settled, over all the   *)
(* dispatchers that worked on it at once, as long as the row is not        *)
(* stirred.                                                                *)
DoneIsSettled ==
    \A r \in Rows :
        note[r[1]] = "done" /\ r[2] \in on /\ ~Stirred(r)
            => delivery[r] \in {"sent", "dead"}

(* "A user's next notification is never attempted until the current one    *)
(* reaches a terminal state. That is a hard invariant, not a probability": *)
(* on every channel, with the same exceptions.                             *)
InOrder ==
    [][\A r \in Rows :
          delivery[r] = "pending" /\ delivery'[r] = "processing" =>
              \A q \in Rows :
                  q[1] < r[1] /\ q[2] = r[2] /\ ~Stirred(q) => ~Open(q)]_vars

(* An older row waits for a retry on a channel that is off.                *)
Blocked(r) ==
    \E q \in Rows :
        /\ q[1] <= r[1] /\ q[2] \notin on
        /\ delivery[q] \in {"failed", "processing"}

Unsettled(r) == Open(r) /\ r \notin requeued /\ r[2] \in on \ switched

(* In the end every delivery that was recorded is sent or given up, in     *)
(* spite of crashes, failed writes, late sends and what stands before it,  *)
(* if its channel is on, unless it waits behind a row that is blocked.     *)
IntentsSettle == <>[](\A r \in Rows : Unsettled(r) => Blocked(r))

(* The same behind a blocked row: only a notification that is not done yet *)
(* holds up the next.                                                      *)
NotStarved == <>[](\A r \in Rows : ~Unsettled(r))

(* "A fresh attempt": a dead letter that an admin requeued is tried again  *)
(* while its channel is on.                                                *)
RequeuedIsTried == <>[](\A r \in requeued : ~Open(r) \/ r[2] \notin on \ switched)
=============================================================================
