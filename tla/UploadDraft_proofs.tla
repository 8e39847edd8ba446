------------------------- MODULE UploadDraft_proofs -------------------------
(***************************************************************************)
(* What UploadDraft promises for every source file, chunk size and run     *)
(* budget and any number of requests, retries and deaths: the ingest makes *)
(* each usable row one submission, the draft says truly whether some row   *)
(* was left behind, and a revoked draft stays as it was.                   *)
(***************************************************************************)
EXTENDS UploadDraft, FiniteSetTheorems, WellFoundedInduction, TLAPS

(* A part of a set that holds every smaller element of it.                 *)
LowerPart(T, S) == T \subseteq S /\ \A c \in T, r \in S : r <= c => r \in T

(* The natural numbers are well-founded.                                   *)
LEMMA Least ==
    ASSUME NEW S \in SUBSET Nat, S # {}
    PROVE  \E m \in S : \A p \in S : m <= p
<1>1. PICK m \in S : \A p \in S : ~(<<p, m>> \in OpToRel(<, Nat))
  BY NatLessThanWellFounded, WFMin
<1>2. \A p \in S : ~(p < m)
  BY <1>1 DEF OpToRel
<1> QED
  BY <1>2

(* The last row of a set of rows is one of them and none is after it.      *)
LEMMA LastIsLast ==
    ASSUME NEW S \in SUBSET Rows, S # {}
    PROVE  Last(S) \in S /\ \A p \in S : p <= Last(S)
<1> LastRow \in Nat
  BY BoundAssumption
<1> DEFINE T == {n \in Nat : \E r \in S : n = LastRow - r}
<1>1. T # {}
  <2>1. PICK r \in S : TRUE
    OBVIOUS
  <2>2. r \in 1 .. LastRow
    BY <2>1 DEF Rows
  <2>3. LastRow - r \in T
    BY <2>1, <2>2
  <2> QED
    BY <2>3
<1>2. PICK m \in T : \A p \in T : m <= p
  BY <1>1, Least
<1>3. PICK r \in S : m = LastRow - r
  BY <1>2
<1>4. \A p \in S : p <= r
  BY <1>2, <1>3 DEF Rows
<1> QED
  BY <1>4 DEF Last

(* A set of rows is finite, and so is what lies below one of them.         *)
LEMMA RowsAreFinite ==
    /\ IsFiniteSet(Rows)
    /\ \A S \in SUBSET Rows : IsFiniteSet(S) /\ Cardinality(S) \in Nat
<1>1. IsFiniteSet(Rows)
  BY BoundAssumption, FS_Interval DEF Rows
<1>2. ASSUME NEW S \in SUBSET Rows PROVE IsFiniteSet(S) /\ Cardinality(S) \in Nat
  BY <1>1, FS_Subset, FS_CardinalityType
<1> QED
  BY <1>1, <1>2

(* FirstOf takes a lower part; some of it where there is something to      *)
(* take, and not all of it where there is too much.                        *)
LEMMA FirstOfIsLower ==
    ASSUME NEW n \in Nat, NEW S \in SUBSET Rows
    PROVE  /\ LowerPart(FirstOf(n, S), S)
           /\ n > 0 /\ S # {} => FirstOf(n, S) # {}
           /\ n < Cardinality(S) => FirstOf(n, S) # S
<1> DEFINE Upto(r) == {p \in S : p <= r}
<1>0. \A p \in S : p \in Nat
  BY BoundAssumption DEF Rows
<1>1. \A r \in Rows : IsFiniteSet(Upto(r)) /\ Cardinality(Upto(r)) \in Nat
  BY RowsAreFinite
<1>2. FirstOf(n, S) = {r \in S : Cardinality(Upto(r)) <= n}
  BY DEF FirstOf
<1>3. ASSUME NEW c \in FirstOf(n, S), NEW r \in S, r <= c PROVE r \in FirstOf(n, S)
  <2>1. Upto(r) \subseteq Upto(c)
    <3>1. c \in S /\ \A p \in S : p \in Nat
      BY <1>2, <1>0
    <3> QED
      BY <1>3, <3>1
  <2>2. Cardinality(Upto(r)) <= Cardinality(Upto(c))
    BY <1>1, <1>2, <2>1, FS_Subset
  <2>3. Cardinality(Upto(r)) \in Nat /\ Cardinality(Upto(c)) \in Nat
    BY <1>1, <1>2
  <2>4. Cardinality(Upto(c)) <= n
    BY <1>2
  <2> HIDE DEF Upto
  <2> QED
    BY <1>2, <2>2, <2>3, <2>4
<1>4. ASSUME n > 0, S # {} PROVE FirstOf(n, S) # {}
  <2>1. S \in SUBSET Nat
    BY <1>0
  <2>2. PICK m \in S : \A p \in S : m <= p
    BY <1>4, <2>1, Least
  <2>3. Upto(m) = {m}
    BY <1>0, <2>2
  <2>4. Cardinality(Upto(m)) = 1
    BY <2>3, FS_Singleton
  <2> HIDE DEF Upto
  <2> QED
    BY <1>2, <1>4, <2>4
<1>5. ASSUME n < Cardinality(S) PROVE FirstOf(n, S) # S
  <2>1. S # {}
    BY <1>5, FS_EmptySet
  <2>2. Last(S) \in S /\ Upto(Last(S)) = S
    BY <2>1, LastIsLast
  <2>3. Cardinality(S) \in Nat
    BY RowsAreFinite
  <2> HIDE DEF Upto
  <2> QED
    BY <1>2, <1>5, <2>2, <2>3
<1> HIDE DEF Upto
<1> QED
  BY <1>2, <1>3, <1>4, <1>5 DEF LowerPart

-----------------------------------------------------------------------------
(* The rows stored are those up to the cursor of the parse, which a run    *)
(* extends from there without a gap; the ingest is never ahead of it.      *)
Stored ==
    /\ items = {r \in Rows : r <= parsed}
    /\ cursor <= parsed
    /\ LowerPart(run["parse"].rows, {r \in Rows : parsed < r})

(* The usable rows the ingest has yet to submit.                           *)
Due == {r \in items \ BadRows : cursor < r}

(* A chunk is the first part of them, and not all where it says so.        *)
ChunkIsDue ==
    run["submit"].pc = "chunk" =>
        /\ run["submit"].rows # {}
        /\ LowerPart(run["submit"].rows, Due)
        /\ run["submit"].stop # "none" => run["submit"].rows # Due

(* A run about to finalize knows whether it leaves rows behind.            *)
FinalIsTrue ==
    run["submit"].pc = "final" => (run["submit"].stop = "none" <=> Due = {})

Account ==
    /\ Stored
    /\ IngestAgrees
    /\ ChunkIsDue
    /\ FinalIsTrue

Working == run["submit"].pc \in {"read", "chunk", "final"}

(* A draft is reviewed and submitted only after the last row is stored.    *)
ReadyIsParsed ==
    /\ status \in {"review_ready", "submitting", "submitted"} => parsed = LastRow
    /\ Working => parsed = LastRow

(* An ingest at work has its draft submitting, or it was cancelled.        *)
WorksForDraft == Working => status \in {"submitting", "cancelled"}

(* A draft that does not exist is not revoked and nobody cancels it.       *)
NothingToRevoke ==
    status = "none" => ~revoked /\ \A q \in Requests : req[q] # "cancel"

Verdict ==
    /\ ReadyIsParsed
    /\ WorksForDraft
    /\ NothingToRevoke
    /\ HonestEnd

DraftInv == TypeOK /\ Account /\ Verdict

-----------------------------------------------------------------------------
LEMMA Names == /\ "scan" \in Jobs /\ "parse" \in Jobs /\ "submit" \in Jobs
               /\ Workers = Jobs
  BY DEF Jobs, Workers

OnlyRun(j) == \A k \in Jobs \ {j} : run'[k] = run[k]

RunTyped == run' \in [Jobs -> RunType]

(* What a handler may do to its own state: go on, ...                      *)
LEMMA StepMoves ==
    ASSUME TypeOK, NEW j \in Jobs, NEW pc, NEW rows \in SUBSET Rows, Step(j, pc, rows),
           pc \in {"idle", "scan", "follow", "read", "rows", "mark", "throw",
                   "chunk", "final", "end"}
    PROVE  /\ RunTyped /\ OnlyRun(j)
           /\ run'[j].pc = pc /\ run'[j].rows = rows /\ run'[j].stop = run[j].stop
<1>1. run \in [Jobs -> RunType]
  BY DEF TypeOK
<1> DEFINE r == [run[j] EXCEPT !.pc = pc, !.rows = rows]
<1>2. run' = [run EXCEPT ![j] = r]
  BY DEF Step
<1>3. r \in RunType /\ r.pc = pc /\ r.rows = rows /\ r.stop = run[j].stop
  BY <1>1 DEF RunType
<1> HIDE DEF r
<1> QED
  BY <1>1, <1>2, <1>3 DEF RunTyped, OnlyRun

(* ... or be set to a state of its own.                                    *)
LEMMA SetMoves ==
    ASSUME TypeOK, NEW j \in Jobs, NEW r \in RunType, run' = [run EXCEPT ![j] = r]
    PROVE  RunTyped /\ OnlyRun(j) /\ run'[j] = r
  BY DEF TypeOK, RunTyped, OnlyRun

LEMMA IdleTyped == Idle \in RunType
  BY DEF Idle, RunType, Stops

LEMMA StopMoves ==
    ASSUME TypeOK, NEW reason \in Stops, Stop(reason)
    PROVE  /\ RunTyped /\ OnlyRun("submit")
           /\ run'["submit"] = [pc |-> "final", rows |-> {}, stop |-> reason]
<1>1. [pc |-> "final", rows |-> {}, stop |-> reason] \in RunType
  BY DEF RunType
<1> QED
  BY <1>1, SetMoves, Names DEF Stop

(* A chunk cut off by the room left says so.                               *)
ChunkOf(room) ==
    [pc |-> "chunk", rows |-> FirstOf(room, FirstOf(ChunkSize, Unsent)),
     stop |-> IF room < Cardinality(FirstOf(ChunkSize, Unsent)) THEN "pool_full" ELSE "none"]

LEMMA ReadsMoves ==
    ASSUME TypeOK, NEW room \in 0 .. ChunkSize, IngestReads(room)
    PROVE  \/ Unsent = {} /\ Stop("none")
           \/ Unsent # {} /\ Stop("pool_full")
           \/ /\ Unsent # {} /\ room > 0
              /\ run' = [run EXCEPT !["submit"] = ChunkOf(room)]
<1>0. ChunkSize \in Nat /\ room \in Nat
  BY BoundAssumption
<1>1. CASE Unsent = {}
  BY <1>1 DEF IngestReads
<1>2. CASE Unsent # {} /\ room = 0
  BY <1>2 DEF IngestReads
<1>3. CASE Unsent # {} /\ room > 0
  BY <1>3 DEF IngestReads, ChunkOf
<1> QED
  BY <1>0, <1>1, <1>2, <1>3

LEMMA ChunkTyped ==
    ASSUME TypeOK, NEW room \in 0 .. ChunkSize
    PROVE  /\ Unsent \in SUBSET Rows
           /\ FirstOf(ChunkSize, Unsent) \in SUBSET Unsent
           /\ FirstOf(room, FirstOf(ChunkSize, Unsent)) \in SUBSET FirstOf(ChunkSize, Unsent)
           /\ ChunkOf(room) \in RunType
<1>1. Unsent \in SUBSET Rows
  BY DEF Unsent, TypeOK
<1> HIDE DEF Unsent
<1>2. ChunkSize \in Nat /\ room \in Nat
  BY BoundAssumption
<1>3. FirstOf(ChunkSize, Unsent) \in SUBSET Unsent
  BY <1>1, <1>2, FirstOfIsLower DEF LowerPart
<1>4. FirstOf(ChunkSize, Unsent) \in SUBSET Rows
  BY <1>1, <1>3
<1>5. FirstOf(room, FirstOf(ChunkSize, Unsent)) \in SUBSET FirstOf(ChunkSize, Unsent)
  BY <1>2, <1>4, FirstOfIsLower DEF LowerPart
<1> QED
  BY <1>1, <1>3, <1>4, <1>5 DEF ChunkOf, RunType, Stops

(* The board keeps its types.                                              *)
BoardTyped ==
    /\ phase' \in [Jobs -> Board!Phases]
    /\ tries' \in [Jobs -> Nat]
    /\ holders' \in [Jobs -> SUBSET Workers]

LEMMA BoardMoves ==
    ASSUME TypeOK, NEW j \in Jobs,
           \/ UNCHANGED boardVars
           \/ Enqueue(j)
           \/ Board!Take(j, j) \/ Board!Finish(j, j) \/ Board!Fail(j, j) \/ Board!Abandon(j, j)
    PROVE  BoardTyped
<1> USE Names DEF TypeOK, BoardTyped, Board!Phases
<1>1. CASE UNCHANGED boardVars
  BY <1>1 DEF boardVars
<1>2. CASE Enqueue(j)
  BY <1>2 DEF Enqueue, Board!Arm, boardVars
<1>3. CASE Board!Take(j, j)
  BY <1>3 DEF Board!Take
<1>4. CASE Board!Finish(j, j)
  BY <1>4 DEF Board!Finish, Board!Release
<1>5. CASE Board!Fail(j, j)
  BY <1>5 DEF Board!Fail, Board!Release
<1>6. CASE Board!Abandon(j, j)
  BY <1>6 DEF Board!Abandon, Board!Release
<1> QED
  BY <1>1, <1>2, <1>3, <1>4, <1>5, <1>6

(* The first rows of the chunk at hand, and its last one.                  *)
LEMMA ParsesFirst ==
    ASSUME TypeOK, NEW chunk, chunk = FirstOf(ChunkSize, run["parse"].rows), chunk # {}
    PROVE  /\ chunk \in SUBSET Rows /\ LowerPart(chunk, run["parse"].rows)
           /\ Last(chunk) \in chunk /\ \A p \in chunk : p <= Last(chunk)
<1>1. run["parse"].rows \in SUBSET Rows
  BY Names DEF TypeOK, RunType
<1>2. ChunkSize \in Nat
  BY BoundAssumption
<1>3. LowerPart(chunk, run["parse"].rows)
  BY <1>1, <1>2, FirstOfIsLower
<1> QED
  BY <1>1, <1>3, LastIsLast DEF LowerPart

-----------------------------------------------------------------------------
(* No statement writes a column outside its range.                         *)
LEMMA TypeStep == TypeOK /\ Account /\ [Next]_vars => TypeOK'
<1> SUFFICES ASSUME TypeOK, Account, [Next]_vars PROVE TypeOK'
    OBVIOUS
<1> USE Names
<1>1. ASSUME NEW withSource \in BOOLEAN, Create(withSource) PROVE TypeOK'
  BY <1>1 DEF Create, TypeOK, boardVars, artifactVars, draftVars, rowVars, callVars, lifeVars
<1>2. ASSUME NEW q \in Requests, CompleteCheck(q) PROVE TypeOK'
  BY <1>2 DEF CompleteCheck, Begin, AwaitsSource, TypeOK, boardVars, artifactVars, draftVars, rowVars, callVars, lifeVars
<1>3. ASSUME NEW q \in Requests, CompleteClaim(q) PROVE TypeOK'
  BY <1>3 DEF CompleteClaim, Go, TypeOK, boardVars, artifactVars, draftVars, rowVars, callVars, lifeVars
<1>4. ASSUME NEW q \in Requests, CompleteRefuses(q) PROVE TypeOK'
  BY <1>4 DEF CompleteRefuses, Go, TypeOK, boardVars, artifactVars, draftVars, rowVars, callVars, lifeVars
<1>5. ASSUME NEW q \in Requests, EnqueueScan(q) PROVE TypeOK'
  <2>1. BoardTyped
    BY <1>5, BoardMoves DEF EnqueueScan, Go
  <2> QED
    BY <1>5, <2>1 DEF EnqueueScan, Go, BoardTyped, TypeOK, artifactVars, draftVars, rowVars, callVars, lifeVars
<1>6. ASSUME Purge PROVE TypeOK'
  BY <1>6 DEF Purge, TypeOK, boardVars, artifactVars, draftVars, rowVars, callVars, lifeVars
<1>7. ASSUME NEW q \in Requests, AttachCheck(q) PROVE TypeOK'
  BY <1>7 DEF AttachCheck, Begin, AwaitsSource, TypeOK, boardVars, artifactVars, draftVars, rowVars, callVars, lifeVars
<1>8. ASSUME NEW q \in Requests, Attach(q) PROVE TypeOK'
  BY <1>8 DEF Attach, Go, AwaitsSource, TypeOK, boardVars, artifactVars, draftVars, rowVars, callVars, lifeVars
<1>9. ASSUME NEW q \in Requests, AskForParse(q) PROVE TypeOK'
  <2>1. BoardTyped
    BY <1>9, BoardMoves DEF AskForParse, Go, EnqueueParse
  <2> QED
    BY <1>9, <2>1 DEF AskForParse, Go, EnqueueParse, BoardTyped, TypeOK, artifactVars, draftVars, rowVars, callVars, lifeVars
<1>10. ASSUME NEW q \in Requests, SubmitCheck(q) PROVE TypeOK'
  BY <1>10 DEF SubmitCheck, Begin, TypeOK, boardVars, artifactVars, draftVars, rowVars, callVars, lifeVars
<1>11. ASSUME NEW q \in Requests, SubmitClaim(q) PROVE TypeOK'
  BY <1>11 DEF SubmitClaim, Go, TypeOK, boardVars, artifactVars, draftVars, rowVars, callVars, lifeVars
<1>12. ASSUME NEW q \in Requests, AskForIngest(q) PROVE TypeOK'
  <2>1. BoardTyped
    BY <1>12, BoardMoves DEF AskForIngest, Go
  <2> QED
    BY <1>12, <2>1 DEF AskForIngest, Go, BoardTyped, TypeOK, artifactVars, draftVars, rowVars, callVars, lifeVars
<1>13. ASSUME NEW q \in Requests, CancelCheck(q) PROVE TypeOK'
  BY <1>13 DEF CancelCheck, Begin, TypeOK, boardVars, artifactVars, draftVars, rowVars, callVars, lifeVars
<1>14. ASSUME NEW q \in Requests, Cancel(q) PROVE TypeOK'
  BY <1>14 DEF Cancel, Go, TypeOK, boardVars, artifactVars, draftVars, rowVars, callVars, lifeVars
<1>15. ASSUME Suspend PROVE TypeOK'
  BY <1>15 DEF Suspend, TypeOK, boardVars, artifactVars, draftVars, rowVars, callVars, lifeVars
<1>16. ASSUME GoStale PROVE TypeOK'
  BY <1>16 DEF GoStale, TypeOK, boardVars, artifactVars, draftVars, rowVars, callVars, lifeVars
<1>17. ASSUME NEW q \in Requests, RequestDies(q) PROVE TypeOK'
  BY <1>17 DEF RequestDies, Go, TypeOK, boardVars, artifactVars, draftVars, rowVars, callVars, lifeVars
<1>18. ASSUME ScanStart PROVE TypeOK'
  <2>1. PICK pc \in {"scan", "end"} : Step("scan", pc, {})
    BY <1>18 DEF ScanStart, Starts
  <2>2. RunTyped /\ OnlyRun("scan") /\ run'["scan"].rows = {} /\ run'["scan"].pc \in {"scan", "end"}
    BY <2>1, StepMoves
  <2>10. BoardTyped
    BY <1>18, BoardMoves DEF ScanStart, Starts
  <2> QED
    BY <1>18, <2>2, <2>10 DEF ScanStart, Starts, BoardTyped, RunTyped, TypeOK, artifactVars, draftVars, rowVars, callVars, lifeVars
<1>19. ASSUME ScanRejects PROVE TypeOK'
  <2>1. Step("scan", "end", {})
    BY <1>19 DEF ScanRejects
  <2>2. RunTyped /\ OnlyRun("scan") /\ run'["scan"].rows = {} /\ run'["scan"].pc = "end"
    BY <2>1, StepMoves
  <2>10. BoardTyped
    BY <1>19, BoardMoves DEF ScanRejects, At
  <2> QED
    BY <1>19, <2>2, <2>10 DEF ScanRejects, At, BoardTyped, RunTyped, TypeOK, artifactVars, draftVars, rowVars, callVars, lifeVars
<1>20. ASSUME ScanClears PROVE TypeOK'
  <2>1. Step("scan", "follow", {})
    BY <1>20 DEF ScanClears
  <2>2. RunTyped /\ OnlyRun("scan") /\ run'["scan"].rows = {} /\ run'["scan"].pc = "follow"
    BY <2>1, StepMoves
  <2>10. BoardTyped
    BY <1>20, BoardMoves DEF ScanClears, At
  <2> QED
    BY <1>20, <2>2, <2>10 DEF ScanClears, At, BoardTyped, RunTyped, TypeOK, artifactVars, draftVars, rowVars, callVars, lifeVars
<1>21. ASSUME ScanFollows PROVE TypeOK'
  <2>1. Step("scan", "end", {})
    BY <1>21 DEF ScanFollows
  <2>2. RunTyped /\ OnlyRun("scan") /\ run'["scan"].rows = {} /\ run'["scan"].pc = "end"
    BY <2>1, StepMoves
  <2>10. BoardTyped
    BY <1>21, BoardMoves DEF ScanFollows, At, EnqueueParse
  <2> QED
    BY <1>21, <2>2, <2>10 DEF ScanFollows, At, EnqueueParse, BoardTyped, RunTyped, TypeOK, artifactVars, draftVars, rowVars, callVars, lifeVars
<1>22. ASSUME ParseStart PROVE TypeOK'
  <2>1. PICK pc \in {"throw", "end", "read"} : Step("parse", pc, {})
    BY <1>22 DEF ParseStart, Starts
  <2>2. RunTyped /\ OnlyRun("parse") /\ run'["parse"].rows = {} /\ run'["parse"].pc \in {"throw", "end", "read"}
    BY <2>1, StepMoves
  <2>10. BoardTyped
    BY <1>22, BoardMoves DEF ParseStart, Starts
  <2> QED
    BY <1>22, <2>2, <2>10 DEF ParseStart, Starts, BoardTyped, RunTyped, TypeOK, artifactVars, draftVars, rowVars, callVars, lifeVars
<1>23. ASSUME ParseReads PROVE TypeOK'
  <2> DEFINE rest == Rows \ (1 .. parsed)
             budget == FirstOf(RowsPerRun, rest)
  <2>0. RowsPerRun \in Nat /\ rest \in SUBSET Rows
    BY BoundAssumption
  <2>1. LowerPart(budget, rest) /\ Step("parse", "rows", budget)
    <3>1. Step("parse", "rows", budget)
      BY <1>23 DEF ParseReads
    <3> HIDE DEF rest
    <3> QED
      BY <2>0, <3>1, FirstOfIsLower
  <2>2. RunTyped /\ OnlyRun("parse") /\ run'["parse"].rows = budget /\ run'["parse"].pc = "rows"
    <3>1. budget \in SUBSET Rows
      BY <2>0, <2>1 DEF LowerPart
    <3> HIDE DEF budget
    <3> QED
      BY <2>1, <3>1, StepMoves
  <2>10. BoardTyped
    BY <1>23, BoardMoves DEF ParseReads, At
  <2> QED
    BY <1>23, <2>2, <2>10 DEF ParseReads, At, BoardTyped, RunTyped, TypeOK, artifactVars, draftVars, rowVars, callVars, lifeVars
<1>24. ASSUME ParseChunk PROVE TypeOK'
  <2> DEFINE chunk == FirstOf(ChunkSize, run["parse"].rows)
  <2>0. chunk # {} /\ parsed' = Last(chunk) /\ items' = items \cup chunk
        /\ Step("parse", "rows", run["parse"].rows \ chunk)
    BY <1>24 DEF ParseChunk
  <2>1. /\ chunk \in SUBSET Rows /\ LowerPart(chunk, run["parse"].rows)
        /\ Last(chunk) \in chunk /\ \A p \in chunk : p <= Last(chunk)
    BY <2>0, ParsesFirst
  <2>2. RunTyped /\ OnlyRun("parse") /\ run'["parse"].rows = run["parse"].rows \ chunk
        /\ run'["parse"].pc = "rows"
    <3>1. run["parse"].rows \ chunk \in SUBSET Rows
      BY DEF TypeOK, RunType
    <3> HIDE DEF chunk
    <3> QED
      BY <2>0, <3>1, StepMoves
  <2> HIDE DEF chunk
  <2>10. BoardTyped
    BY <1>24, BoardMoves DEF ParseChunk, At
  <2> QED
    BY <1>24, <2>2, <2>10, <2>0, <2>1 DEF ParseChunk, At, BoardTyped, RunTyped, TypeOK, artifactVars, draftVars, rowVars, callVars, lifeVars
<1>25. ASSUME ParseContinues PROVE TypeOK'
  <2>1. Step("parse", "end", {})
    BY <1>25 DEF ParseContinues
  <2>2. RunTyped /\ OnlyRun("parse") /\ run'["parse"].rows = {} /\ run'["parse"].pc = "end"
    BY <2>1, StepMoves
  <2>10. BoardTyped
    BY <1>25, BoardMoves DEF ParseContinues, At, EnqueueParse
  <2> QED
    BY <1>25, <2>2, <2>10 DEF ParseContinues, At, EnqueueParse, BoardTyped, RunTyped, TypeOK, artifactVars, draftVars, rowVars, callVars, lifeVars
<1>26. ASSUME ParseEnds PROVE TypeOK'
  <2>1. Step("parse", "end", {})
    BY <1>26 DEF ParseEnds
  <2>2. RunTyped /\ OnlyRun("parse") /\ run'["parse"].rows = {} /\ run'["parse"].pc = "end"
    BY <2>1, StepMoves
  <2>10. BoardTyped
    BY <1>26, BoardMoves DEF ParseEnds, At, AwaitsParse
  <2> QED
    BY <1>26, <2>2, <2>10 DEF ParseEnds, At, AwaitsParse, BoardTyped, RunTyped, TypeOK, artifactVars, draftVars, rowVars, callVars, lifeVars
<1>27. ASSUME ParseRejects PROVE TypeOK'
  <2>1. Step("parse", "mark", {})
    BY <1>27 DEF ParseRejects
  <2>2. RunTyped /\ OnlyRun("parse") /\ run'["parse"].rows = {} /\ run'["parse"].pc = "mark"
    BY <2>1, StepMoves
  <2>10. BoardTyped
    BY <1>27, BoardMoves DEF ParseRejects, At
  <2> QED
    BY <1>27, <2>2, <2>10 DEF ParseRejects, At, BoardTyped, RunTyped, TypeOK, artifactVars, draftVars, rowVars, callVars, lifeVars
<1>28. ASSUME ParseRejectsDraft PROVE TypeOK'
  <2>1. Step("parse", "throw", {})
    BY <1>28 DEF ParseRejectsDraft
  <2>2. RunTyped /\ OnlyRun("parse") /\ run'["parse"].rows = {} /\ run'["parse"].pc = "throw"
    BY <2>1, StepMoves
  <2>10. BoardTyped
    BY <1>28, BoardMoves DEF ParseRejectsDraft, At, AwaitsParse
  <2> QED
    BY <1>28, <2>2, <2>10 DEF ParseRejectsDraft, At, AwaitsParse, BoardTyped, RunTyped, TypeOK, artifactVars, draftVars, rowVars, callVars, lifeVars
<1>29. ASSUME IngestStart PROVE TypeOK'
  <2>1. PICK pc \in {"read", "end"} : Step("submit", pc, {}) /\ (pc = "read" => status = "submitting")
    BY <1>29 DEF IngestStart, Starts
  <2>2. RunTyped /\ OnlyRun("submit") /\ run'["submit"].rows = {} /\ run'["submit"].pc \in {"read", "end"} /\ (run'["submit"].pc = "read" => status = "submitting")
    BY <2>1, StepMoves
  <2>10. BoardTyped
    BY <1>29, BoardMoves DEF IngestStart, Starts
  <2> QED
    BY <1>29, <2>2, <2>10 DEF IngestStart, Starts, BoardTyped, RunTyped, TypeOK, artifactVars, draftVars, rowVars, callVars, lifeVars
<1>30. ASSUME NEW room \in 0 .. ChunkSize, IngestReads(room) PROVE TypeOK'
  <2>1. \/ Unsent = {} /\ Stop("none")
        \/ Unsent # {} /\ Stop("pool_full")
        \/ /\ Unsent # {} /\ room > 0
           /\ run' = [run EXCEPT !["submit"] = ChunkOf(room)]
    BY <1>30, ReadsMoves
  <2>2. /\ RunTyped /\ OnlyRun("submit")
        /\ \/ Unsent = {} /\ run'["submit"] = [pc |-> "final", rows |-> {}, stop |-> "none"]
           \/ Unsent # {} /\ run'["submit"] = [pc |-> "final", rows |-> {}, stop |-> "pool_full"]
           \/ Unsent # {} /\ room > 0 /\ run'["submit"] = ChunkOf(room)
    BY <2>1, StopMoves, SetMoves, ChunkTyped DEF Stops
  <2>10. BoardTyped
    BY <1>30, BoardMoves DEF IngestReads, At
  <2> QED
    BY <1>30, <2>2, <2>10 DEF IngestReads, At, BoardTyped, RunTyped, TypeOK, artifactVars, draftVars, rowVars, callVars, lifeVars
<1>31. ASSUME IngestFindsClosed PROVE TypeOK'
  <2>1. Stop("pool_closed")
    BY <1>31 DEF IngestFindsClosed
  <2>2. RunTyped /\ OnlyRun("submit")
        /\ run'["submit"] = [pc |-> "final", rows |-> {}, stop |-> "pool_closed"]
    BY <2>1, StopMoves DEF Stops
  <2>10. BoardTyped
    BY <1>31, BoardMoves DEF IngestFindsClosed, At
  <2> QED
    BY <1>31, <2>2, <2>10 DEF IngestFindsClosed, At, BoardTyped, RunTyped, TypeOK, artifactVars, draftVars, rowVars, callVars, lifeVars
<1>32. ASSUME IngestChunk PROVE TypeOK'
  <2> DEFINE rows == run["submit"].rows
  <2>1. \/ run["submit"].stop = "none" /\ Step("submit", "read", {})
        \/ run["submit"].stop # "none" /\ Stop(run["submit"].stop)
    BY <1>32 DEF IngestChunk, AfterChunk
  <2>2. /\ RunTyped /\ OnlyRun("submit")
        /\ \/ run["submit"].stop = "none" /\ run'["submit"].pc = "read"
           \/ /\ run["submit"].stop # "none"
              /\ run'["submit"] = [pc |-> "final", rows |-> {}, stop |-> run["submit"].stop]
    <3>1. run["submit"].stop \in Stops
      BY DEF TypeOK, RunType
    <3> QED
      BY <2>1, <3>1, StepMoves, StopMoves
  <2>3. rows # {} /\ LowerPart(rows, Due) /\ rows \in SUBSET Rows
    BY <1>32 DEF IngestChunk, At, Account, ChunkIsDue, TypeOK, RunType
  <2>4. Last(rows) \in rows /\ \A p \in rows : p <= Last(rows)
    BY <2>3, LastIsLast
  <2>5. made' = Submitted(rows) /\ marked' = marked \cup rows /\ cursor' = Last(rows)
    BY <1>32 DEF IngestChunk
  <2>6. UNCHANGED <<items, parsed, status, revoked, ending, req>>
    BY <1>32 DEF IngestChunk, artifactVars, callVars
  <2> HIDE DEF rows
  <2>10. BoardTyped
    BY <1>32, BoardMoves DEF IngestChunk, At
  <2>7. marked' \in SUBSET items'
    BY <2>3, <2>5, <2>6 DEF TypeOK, LowerPart, Due
  <2>8. made' \in [Rows -> Nat]
    BY <2>5 DEF Submitted, TypeOK
  <2>9. cursor' \in Rows
    BY <2>3, <2>4, <2>5
  <2> QED
    BY <1>32, <2>2, <2>10, <2>6, <2>7, <2>8, <2>9
    DEF IngestChunk, BoardTyped, RunTyped, TypeOK, artifactVars, callVars, lifeVars
<1>33. ASSUME IngestRolledBack PROVE TypeOK'
  <2>1. Step("submit", "end", {})
    BY <1>33 DEF IngestRolledBack
  <2>2. RunTyped /\ OnlyRun("submit") /\ run'["submit"].rows = {} /\ run'["submit"].pc = "end"
    BY <2>1, StepMoves
  <2>10. BoardTyped
    BY <1>33, BoardMoves DEF IngestRolledBack, At
  <2> QED
    BY <1>33, <2>2, <2>10 DEF IngestRolledBack, At, BoardTyped, RunTyped, TypeOK, artifactVars, draftVars, rowVars, callVars, lifeVars
<1>34. ASSUME Finalize PROVE TypeOK'
  <2>1. Step("submit", "end", {})
    BY <1>34 DEF Finalize
  <2>2. RunTyped /\ OnlyRun("submit") /\ run'["submit"].rows = {} /\ run'["submit"].pc = "end"
    BY <2>1, StepMoves
  <2>10. BoardTyped
    BY <1>34, BoardMoves DEF Finalize, At
  <2>3. run["submit"].stop \in Stops
    BY DEF TypeOK, RunType
  <2> QED
    BY <1>34, <2>2, <2>3, <2>10 DEF Finalize, At, BoardTyped, RunTyped, TypeOK, artifactVars, draftVars, rowVars, callVars, lifeVars
<1>35. ASSUME NEW j \in Jobs, JobEnds(j) PROVE TypeOK'
  <2>1. run' = [run EXCEPT ![j] = Idle]
    BY <1>35 DEF JobEnds
  <2>2. RunTyped /\ OnlyRun(j) /\ run'[j] = Idle
    BY <2>1, SetMoves, IdleTyped
  <2>10. BoardTyped
    BY <1>35, BoardMoves DEF JobEnds, At
  <2> QED
    BY <1>35, <2>2, <2>10 DEF JobEnds, At, BoardTyped, RunTyped, TypeOK, artifactVars, draftVars, rowVars, callVars, lifeVars
<1>36. ASSUME NEW j \in Jobs, JobThrows(j) PROVE TypeOK'
  <2>1. run' = [run EXCEPT ![j] = Idle]
    BY <1>36 DEF JobThrows
  <2>2. RunTyped /\ OnlyRun(j) /\ run'[j] = Idle
    BY <2>1, SetMoves, IdleTyped
  <2>10. BoardTyped
    BY <1>36, BoardMoves DEF JobThrows, At, ForgetsParse
  <2> QED
    BY <1>36, <2>2, <2>10 DEF JobThrows, At, ForgetsParse, BoardTyped, RunTyped, TypeOK, artifactVars, draftVars, rowVars, callVars, lifeVars
<1>37. ASSUME NEW j \in Jobs, WorkerDies(j) PROVE TypeOK'
  <2>1. run' = [run EXCEPT ![j] = Idle]
    BY <1>37 DEF WorkerDies
  <2>2. RunTyped /\ OnlyRun(j) /\ run'[j] = Idle
    BY <2>1, SetMoves, IdleTyped
  <2>10. BoardTyped
    BY <1>37, BoardMoves DEF WorkerDies, At, ForgetsParse
  <2> QED
    BY <1>37, <2>2, <2>10 DEF WorkerDies, At, ForgetsParse, BoardTyped, RunTyped, TypeOK, artifactVars, draftVars, rowVars, callVars, lifeVars
<1>38. CASE UNCHANGED vars
  BY <1>38 DEF vars, TypeOK, boardVars, artifactVars, draftVars, rowVars, callVars, lifeVars
<1> QED
  BY <1>1, <1>2, <1>3, <1>4, <1>5, <1>6, <1>7, <1>8, <1>9,
     <1>10, <1>11, <1>12, <1>13, <1>14, <1>15, <1>16, <1>17, <1>18,
     <1>19, <1>20, <1>21, <1>22, <1>23, <1>24, <1>25, <1>26, <1>27,
     <1>28, <1>29, <1>30, <1>31, <1>32, <1>33, <1>34, <1>35, <1>36,
     <1>37, <1>38, Zenon
  DEF Next, JobStep, RequestStep, Arrival

-----------------------------------------------------------------------------
(* What the rows and the cursors say of each other survives a step that    *)
(* touches none of them and leaves the ingest no chunk and no verdict.     *)
LEMMA AccountStays ==
    ASSUME DraftInv, UNCHANGED <<parsed, cursor, items, marked, made>>,
           run'["parse"].rows = run["parse"].rows \/ run'["parse"].rows = {},
           run'["submit"] = run["submit"] \/ run'["submit"].pc \notin {"chunk", "final"}
    PROVE  Account'
<1>1. Stored'
  BY DEF DraftInv, Account, Stored, LowerPart
<1>2. IngestAgrees'
  BY DEF DraftInv, Account, IngestAgrees
<1>3. ChunkIsDue' /\ FinalIsTrue'
  BY DEF DraftInv, Account, ChunkIsDue, FinalIsTrue, Due
<1> QED
  BY <1>1, <1>2, <1>3 DEF Account

(* What the ingest looks for is what is due.                               *)
LEMMA UnsentIsDue == DraftInv => Unsent = Due
<1> SUFFICES ASSUME DraftInv PROVE Unsent = Due
    OBVIOUS
<1>1. cursor \in Nat /\ \A r \in items : r \in Nat
  BY BoundAssumption DEF DraftInv, TypeOK, Rows
<1>2. marked = {r \in items \ BadRows : r <= cursor}
  BY DEF DraftInv, Account, IngestAgrees
<1>3. \A r \in items : r > cursor <=> cursor < r /\ ~(r <= cursor)
  BY <1>1
<1> QED
  BY <1>2, <1>3 DEF Unsent, Due

LEMMA AccountStep == DraftInv /\ [Next]_vars => Account'
<1> SUFFICES ASSUME DraftInv, [Next]_vars PROVE Account'
    OBVIOUS
<1>a. TypeOK /\ Account
  BY DEF DraftInv
<1>b. LastRow \in Nat /\ parsed \in Nat /\ cursor \in Nat /\ \A r \in Rows : r \in Nat
  BY <1>a, BoundAssumption DEF TypeOK, Rows
<1> USE Names
<1>1. ASSUME NEW withSource \in BOOLEAN, Create(withSource) PROVE Account'
  <2>1. UNCHANGED <<run, parsed, cursor, items, marked, made>>
    BY <1>1 DEF Create, artifactVars, draftVars, rowVars
  <2> QED
    BY <2>1, AccountStays
<1>2. ASSUME NEW q \in Requests, CompleteCheck(q) PROVE Account'
  <2>1. UNCHANGED <<run, parsed, cursor, items, marked, made>>
    BY <1>2 DEF CompleteCheck, Begin, AwaitsSource, artifactVars, draftVars, rowVars
  <2> QED
    BY <2>1, AccountStays
<1>3. ASSUME NEW q \in Requests, CompleteClaim(q) PROVE Account'
  <2>1. UNCHANGED <<run, parsed, cursor, items, marked, made>>
    BY <1>3 DEF CompleteClaim, Go, artifactVars, draftVars, rowVars
  <2> QED
    BY <2>1, AccountStays
<1>4. ASSUME NEW q \in Requests, CompleteRefuses(q) PROVE Account'
  <2>1. UNCHANGED <<run, parsed, cursor, items, marked, made>>
    BY <1>4 DEF CompleteRefuses, Go, artifactVars, draftVars, rowVars
  <2> QED
    BY <2>1, AccountStays
<1>5. ASSUME NEW q \in Requests, EnqueueScan(q) PROVE Account'
  <2>1. UNCHANGED <<run, parsed, cursor, items, marked, made>>
    BY <1>5 DEF EnqueueScan, Go, artifactVars, draftVars, rowVars
  <2> QED
    BY <2>1, AccountStays
<1>6. ASSUME Purge PROVE Account'
  <2>1. UNCHANGED <<run, parsed, cursor, items, marked, made>>
    BY <1>6 DEF Purge, artifactVars, draftVars, rowVars
  <2> QED
    BY <2>1, AccountStays
<1>7. ASSUME NEW q \in Requests, AttachCheck(q) PROVE Account'
  <2>1. UNCHANGED <<run, parsed, cursor, items, marked, made>>
    BY <1>7 DEF AttachCheck, Begin, AwaitsSource, artifactVars, draftVars, rowVars
  <2> QED
    BY <2>1, AccountStays
<1>8. ASSUME NEW q \in Requests, Attach(q) PROVE Account'
  <2>1. UNCHANGED <<run, parsed, cursor, items, marked, made>>
    BY <1>8 DEF Attach, Go, AwaitsSource, artifactVars, draftVars, rowVars
  <2> QED
    BY <2>1, AccountStays
<1>9. ASSUME NEW q \in Requests, AskForParse(q) PROVE Account'
  <2>1. UNCHANGED <<run, parsed, cursor, items, marked, made>>
    BY <1>9 DEF AskForParse, Go, EnqueueParse, artifactVars, draftVars, rowVars
  <2> QED
    BY <2>1, AccountStays
<1>10. ASSUME NEW q \in Requests, SubmitCheck(q) PROVE Account'
  <2>1. UNCHANGED <<run, parsed, cursor, items, marked, made>>
    BY <1>10 DEF SubmitCheck, Begin, artifactVars, draftVars, rowVars
  <2> QED
    BY <2>1, AccountStays
<1>11. ASSUME NEW q \in Requests, SubmitClaim(q) PROVE Account'
  <2>1. UNCHANGED <<run, parsed, cursor, items, marked, made>>
    BY <1>11 DEF SubmitClaim, Go, artifactVars, draftVars, rowVars
  <2> QED
    BY <2>1, AccountStays
<1>12. ASSUME NEW q \in Requests, AskForIngest(q) PROVE Account'
  <2>1. UNCHANGED <<run, parsed, cursor, items, marked, made>>
    BY <1>12 DEF AskForIngest, Go, artifactVars, draftVars, rowVars
  <2> QED
    BY <2>1, AccountStays
<1>13. ASSUME NEW q \in Requests, CancelCheck(q) PROVE Account'
  <2>1. UNCHANGED <<run, parsed, cursor, items, marked, made>>
    BY <1>13 DEF CancelCheck, Begin, artifactVars, draftVars, rowVars
  <2> QED
    BY <2>1, AccountStays
<1>14. ASSUME NEW q \in Requests, Cancel(q) PROVE Account'
  <2>1. UNCHANGED <<run, parsed, cursor, items, marked, made>>
    BY <1>14 DEF Cancel, Go, artifactVars, draftVars, rowVars
  <2> QED
    BY <2>1, AccountStays
<1>15. ASSUME Suspend PROVE Account'
  <2>1. UNCHANGED <<run, parsed, cursor, items, marked, made>>
    BY <1>15 DEF Suspend, artifactVars, draftVars, rowVars
  <2> QED
    BY <2>1, AccountStays
<1>16. ASSUME GoStale PROVE Account'
  <2>1. UNCHANGED <<run, parsed, cursor, items, marked, made>>
    BY <1>16 DEF GoStale, artifactVars, draftVars, rowVars
  <2> QED
    BY <2>1, AccountStays
<1>17. ASSUME NEW q \in Requests, RequestDies(q) PROVE Account'
  <2>1. UNCHANGED <<run, parsed, cursor, items, marked, made>>
    BY <1>17 DEF RequestDies, Go, artifactVars, draftVars, rowVars
  <2> QED
    BY <2>1, AccountStays
<1>18. ASSUME ScanStart PROVE Account'
  <2>1. PICK pc \in {"scan", "end"} : Step("scan", pc, {})
    BY <1>18 DEF ScanStart, Starts
  <2>2. RunTyped /\ OnlyRun("scan") /\ run'["scan"].rows = {} /\ run'["scan"].pc \in {"scan", "end"}
    BY <2>1, <1>a, StepMoves
  <2>3. UNCHANGED <<parsed, cursor, items, marked, made>>
    BY <1>18 DEF ScanStart, Starts, artifactVars, draftVars, rowVars
  <2> QED
    BY <2>2, <2>3, AccountStays DEF OnlyRun
<1>19. ASSUME ScanRejects PROVE Account'
  <2>1. Step("scan", "end", {})
    BY <1>19 DEF ScanRejects
  <2>2. RunTyped /\ OnlyRun("scan") /\ run'["scan"].rows = {} /\ run'["scan"].pc = "end"
    BY <2>1, <1>a, StepMoves
  <2>3. UNCHANGED <<parsed, cursor, items, marked, made>>
    BY <1>19 DEF ScanRejects, At, artifactVars, draftVars, rowVars
  <2> QED
    BY <2>2, <2>3, AccountStays DEF OnlyRun
<1>20. ASSUME ScanClears PROVE Account'
  <2>1. Step("scan", "follow", {})
    BY <1>20 DEF ScanClears
  <2>2. RunTyped /\ OnlyRun("scan") /\ run'["scan"].rows = {} /\ run'["scan"].pc = "follow"
    BY <2>1, <1>a, StepMoves
  <2>3. UNCHANGED <<parsed, cursor, items, marked, made>>
    BY <1>20 DEF ScanClears, At, artifactVars, draftVars, rowVars
  <2> QED
    BY <2>2, <2>3, AccountStays DEF OnlyRun
<1>21. ASSUME ScanFollows PROVE Account'
  <2>1. Step("scan", "end", {})
    BY <1>21 DEF ScanFollows
  <2>2. RunTyped /\ OnlyRun("scan") /\ run'["scan"].rows = {} /\ run'["scan"].pc = "end"
    BY <2>1, <1>a, StepMoves
  <2>3. UNCHANGED <<parsed, cursor, items, marked, made>>
    BY <1>21 DEF ScanFollows, At, EnqueueParse, artifactVars, draftVars, rowVars
  <2> QED
    BY <2>2, <2>3, AccountStays DEF OnlyRun
<1>22. ASSUME ParseStart PROVE Account'
  <2>1. PICK pc \in {"throw", "end", "read"} : Step("parse", pc, {})
    BY <1>22 DEF ParseStart, Starts
  <2>2. RunTyped /\ OnlyRun("parse") /\ run'["parse"].rows = {} /\ run'["parse"].pc \in {"throw", "end", "read"}
    BY <2>1, <1>a, StepMoves
  <2>3. UNCHANGED <<parsed, cursor, items, marked, made>>
    BY <1>22 DEF ParseStart, Starts, artifactVars, draftVars, rowVars
  <2> QED
    BY <2>2, <2>3, AccountStays DEF OnlyRun
<1>23. ASSUME ParseReads PROVE Account'
  <2> DEFINE rest == Rows \ (1 .. parsed)
             budget == FirstOf(RowsPerRun, rest)
  <2>0. RowsPerRun \in Nat /\ rest \in SUBSET Rows
    BY BoundAssumption
  <2>1. LowerPart(budget, rest) /\ Step("parse", "rows", budget)
    <3>1. Step("parse", "rows", budget)
      BY <1>23 DEF ParseReads
    <3> HIDE DEF rest
    <3> QED
      BY <2>0, <3>1, FirstOfIsLower
  <2>2. RunTyped /\ OnlyRun("parse") /\ run'["parse"].rows = budget /\ run'["parse"].pc = "rows"
    <3>1. budget \in SUBSET Rows
      BY <2>0, <2>1 DEF LowerPart
    <3> HIDE DEF budget
    <3> QED
      BY <2>1, <3>1, <1>a, StepMoves
  <2>3. UNCHANGED <<parsed, cursor, items, marked, made>> /\ run'["submit"] = run["submit"]
    BY <1>23, <2>2 DEF ParseReads, draftVars, rowVars, OnlyRun
  <2>4. rest = {r \in Rows : parsed < r}
    BY <1>b DEF Rows
  <2>5. Stored'
    BY <1>a, <2>1, <2>2, <2>3, <2>4 DEF Account, Stored, LowerPart
  <2>6. IngestAgrees' /\ ChunkIsDue' /\ FinalIsTrue'
    BY <1>a, <2>3 DEF Account, IngestAgrees, ChunkIsDue, FinalIsTrue, Due
  <2> QED
    BY <2>5, <2>6 DEF Account
<1>24. ASSUME ParseChunk PROVE Account'
  <2> DEFINE chunk == FirstOf(ChunkSize, run["parse"].rows)
  <2>0. chunk # {} /\ parsed' = Last(chunk) /\ items' = items \cup chunk
        /\ Step("parse", "rows", run["parse"].rows \ chunk)
    BY <1>24 DEF ParseChunk
  <2>1. /\ chunk \in SUBSET Rows /\ LowerPart(chunk, run["parse"].rows)
        /\ Last(chunk) \in chunk /\ \A p \in chunk : p <= Last(chunk)
    BY <2>0, <1>a, ParsesFirst
  <2>2. RunTyped /\ OnlyRun("parse") /\ run'["parse"].rows = run["parse"].rows \ chunk
        /\ run'["parse"].pc = "rows"
    <3>1. run["parse"].rows \ chunk \in SUBSET Rows
      BY <1>a DEF TypeOK, RunType
    <3> HIDE DEF chunk
    <3> QED
      BY <2>0, <3>1, <1>a, StepMoves
  <2> HIDE DEF chunk
  <2>3. UNCHANGED <<cursor, marked, made>> /\ run'["submit"] = run["submit"]
    BY <1>24, <2>2 DEF ParseChunk, draftVars, OnlyRun
  <2>4. /\ items = {r \in Rows : r <= parsed} /\ cursor <= parsed
        /\ LowerPart(run["parse"].rows, {r \in Rows : parsed < r})
    BY <1>a DEF Account, Stored
  <2>5. \A r \in chunk : parsed < r
    BY <2>1, <2>4 DEF LowerPart
  <2>6. parsed < parsed' /\ parsed' \in Nat
    BY <1>b, <2>0, <2>1, <2>5
  <2>7. \A r \in Rows : r \in chunk <=> parsed < r /\ r <= parsed'
    BY <1>b, <2>0, <2>1, <2>4, <2>5 DEF LowerPart
  <2>8. items' = {r \in Rows : r <= parsed'}
    <3>1. \A r \in items' : r \in Rows /\ r <= parsed'
      BY <1>b, <2>0, <2>1, <2>4, <2>6
    <3>2. \A r \in Rows : r <= parsed' => r \in items'
      BY <1>b, <2>0, <2>4, <2>6, <2>7
    <3> QED
      BY <3>1, <3>2
  <2>9. LowerPart(run'["parse"].rows, {r \in Rows : parsed' < r})
    BY <1>b, <2>2, <2>4, <2>6, <2>7 DEF LowerPart
  <2>11. Stored'
    BY <1>b, <2>3, <2>4, <2>6, <2>8, <2>9 DEF Stored
  <2>12. \A r \in items' \ items : parsed < r /\ r \in Rows
    BY <2>0, <2>1, <2>5
  <2>13. IngestAgrees'
    <3>1. {r \in items' \ BadRows : r <= cursor} = {r \in items \ BadRows : r <= cursor}
      BY <1>b, <2>0, <2>4, <2>12
    <3> QED
      BY <1>a, <2>3, <3>1 DEF Account, IngestAgrees
  <2>14. run["submit"].pc \notin {"chunk", "final"}
    <3>1. parsed # LastRow
      <4>1. Last(chunk) \in Rows /\ parsed < Last(chunk)
        BY <2>1, <2>5
      <4> QED
        BY <1>b, <4>1 DEF Rows
    <3> QED
      BY <3>1 DEF DraftInv, Verdict, ReadyIsParsed, Working
  <2> QED
    BY <2>3, <2>11, <2>13, <2>14 DEF Account, ChunkIsDue, FinalIsTrue
<1>25. ASSUME ParseContinues PROVE Account'
  <2>1. Step("parse", "end", {})
    BY <1>25 DEF ParseContinues
  <2>2. RunTyped /\ OnlyRun("parse") /\ run'["parse"].rows = {} /\ run'["parse"].pc = "end"
    BY <2>1, <1>a, StepMoves
  <2>3. UNCHANGED <<parsed, cursor, items, marked, made>>
    BY <1>25 DEF ParseContinues, At, EnqueueParse, artifactVars, draftVars, rowVars
  <2> QED
    BY <2>2, <2>3, AccountStays DEF OnlyRun
<1>26. ASSUME ParseEnds PROVE Account'
  <2>1. Step("parse", "end", {})
    BY <1>26 DEF ParseEnds
  <2>2. RunTyped /\ OnlyRun("parse") /\ run'["parse"].rows = {} /\ run'["parse"].pc = "end"
    BY <2>1, <1>a, StepMoves
  <2>3. UNCHANGED <<parsed, cursor, items, marked, made>>
    BY <1>26 DEF ParseEnds, At, AwaitsParse, artifactVars, draftVars, rowVars
  <2> QED
    BY <2>2, <2>3, AccountStays DEF OnlyRun
<1>27. ASSUME ParseRejects PROVE Account'
  <2>1. Step("parse", "mark", {})
    BY <1>27 DEF ParseRejects
  <2>2. RunTyped /\ OnlyRun("parse") /\ run'["parse"].rows = {} /\ run'["parse"].pc = "mark"
    BY <2>1, <1>a, StepMoves
  <2>3. UNCHANGED <<parsed, cursor, items, marked, made>>
    BY <1>27 DEF ParseRejects, At, artifactVars, draftVars, rowVars
  <2> QED
    BY <2>2, <2>3, AccountStays DEF OnlyRun
<1>28. ASSUME ParseRejectsDraft PROVE Account'
  <2>1. Step("parse", "throw", {})
    BY <1>28 DEF ParseRejectsDraft
  <2>2. RunTyped /\ OnlyRun("parse") /\ run'["parse"].rows = {} /\ run'["parse"].pc = "throw"
    BY <2>1, <1>a, StepMoves
  <2>3. UNCHANGED <<parsed, cursor, items, marked, made>>
    BY <1>28 DEF ParseRejectsDraft, At, AwaitsParse, artifactVars, draftVars, rowVars
  <2> QED
    BY <2>2, <2>3, AccountStays DEF OnlyRun
<1>29. ASSUME IngestStart PROVE Account'
  <2>1. PICK pc \in {"read", "end"} : Step("submit", pc, {}) /\ (pc = "read" => status = "submitting")
    BY <1>29 DEF IngestStart, Starts
  <2>2. RunTyped /\ OnlyRun("submit") /\ run'["submit"].rows = {} /\ run'["submit"].pc \in {"read", "end"} /\ (run'["submit"].pc = "read" => status = "submitting")
    BY <2>1, <1>a, StepMoves
  <2>3. UNCHANGED <<parsed, cursor, items, marked, made>>
    BY <1>29 DEF IngestStart, Starts, artifactVars, draftVars, rowVars
  <2> QED
    BY <2>2, <2>3, AccountStays DEF OnlyRun
<1>30. ASSUME NEW room \in 0 .. ChunkSize, IngestReads(room) PROVE Account'
  <2>1. \/ Unsent = {} /\ Stop("none")
        \/ Unsent # {} /\ Stop("pool_full")
        \/ /\ Unsent # {} /\ room > 0
           /\ run' = [run EXCEPT !["submit"] = ChunkOf(room)]
    BY <1>30, <1>a, ReadsMoves
  <2>2. /\ RunTyped /\ OnlyRun("submit")
        /\ \/ Unsent = {} /\ run'["submit"] = [pc |-> "final", rows |-> {}, stop |-> "none"]
           \/ Unsent # {} /\ run'["submit"] = [pc |-> "final", rows |-> {}, stop |-> "pool_full"]
           \/ Unsent # {} /\ room > 0 /\ run'["submit"] = ChunkOf(room)
    BY <1>a, <2>1, StopMoves, <1>a, SetMoves, ChunkTyped DEF Stops
  <2>3. UNCHANGED <<parsed, cursor, items, marked, made>> /\ run'["parse"] = run["parse"]
    BY <1>30, <2>2 DEF IngestReads, artifactVars, draftVars, rowVars, OnlyRun
  <2>4. Stored' /\ IngestAgrees' /\ Due' = Due
    BY <1>a, <2>3 DEF Account, Stored, IngestAgrees, Due
  <2>5. Unsent = Due
    BY UnsentIsDue
  <2>6. CASE run'["submit"].pc = "final"
    BY <2>2, <2>4, <2>5, <2>6 DEF Account, ChunkIsDue, FinalIsTrue, ChunkOf
  <2>7. CASE Unsent # {} /\ room > 0 /\ run'["submit"] = ChunkOf(room)
    <3> DEFINE chunk == FirstOf(ChunkSize, Due)
               rows == FirstOf(room, chunk)
    <3>1. Due \in SUBSET Rows /\ chunk \in SUBSET Rows
      BY <1>a, <2>5, ChunkTyped
    <3>2. ChunkSize \in Nat /\ ChunkSize > 0 /\ room \in Nat /\ room > 0
      BY <2>7, BoundAssumption
    <3>3. LowerPart(chunk, Due) /\ chunk # {}
      BY <2>5, <2>7, <3>1, <3>2, FirstOfIsLower
    <3>4. LowerPart(rows, chunk) /\ rows # {} /\ (room < Cardinality(chunk) => rows # chunk)
      <4> HIDE DEF chunk
      <4> QED
        BY <3>1, <3>2, <3>3, FirstOfIsLower
    <3>5. /\ run'["submit"].pc = "chunk" /\ run'["submit"].rows = rows
          /\ run'["submit"].stop # "none" => room < Cardinality(chunk)
      BY <2>5, <2>7 DEF ChunkOf
    <3> HIDE DEF rows, chunk
    <3>6. LowerPart(rows, Due)
      BY <3>3, <3>4 DEF LowerPart
    <3>7. room < Cardinality(chunk) => rows # Due
      BY <3>3, <3>4 DEF LowerPart
    <3>8. ChunkIsDue'
      BY <2>4, <3>4, <3>5, <3>6, <3>7 DEF ChunkIsDue
    <3>9. FinalIsTrue'
      BY <3>5 DEF FinalIsTrue
    <3> QED
      BY <2>4, <3>8, <3>9 DEF Account
  <2> QED
    BY <2>2, <2>6, <2>7
<1>31. ASSUME IngestFindsClosed PROVE Account'
  <2>1. Stop("pool_closed")
    BY <1>31 DEF IngestFindsClosed
  <2>2. RunTyped /\ OnlyRun("submit")
        /\ run'["submit"] = [pc |-> "final", rows |-> {}, stop |-> "pool_closed"]
    BY <1>a, <2>1, StopMoves DEF Stops
  <2>3. UNCHANGED <<parsed, cursor, items, marked, made>> /\ run'["parse"] = run["parse"]
    BY <1>31, <2>2 DEF IngestFindsClosed, artifactVars, draftVars, rowVars, OnlyRun
  <2>4. Stored' /\ IngestAgrees' /\ Due' = Due
    BY <1>a, <2>3 DEF Account, Stored, IngestAgrees, Due
  <2>5. Unsent = Due
    BY UnsentIsDue
  <2>6. Due # {}
    BY <1>31, <2>5 DEF IngestFindsClosed
  <2> QED
    BY <2>2, <2>4, <2>6 DEF Account, ChunkIsDue, FinalIsTrue
<1>32. ASSUME IngestChunk PROVE Account'
  <2> DEFINE rows == run["submit"].rows
  <2>1. \/ run["submit"].stop = "none" /\ Step("submit", "read", {})
        \/ run["submit"].stop # "none" /\ Stop(run["submit"].stop)
    BY <1>32 DEF IngestChunk, AfterChunk
  <2>2. /\ RunTyped /\ OnlyRun("submit")
        /\ \/ run["submit"].stop = "none" /\ run'["submit"].pc = "read"
           \/ /\ run["submit"].stop # "none"
              /\ run'["submit"] = [pc |-> "final", rows |-> {}, stop |-> run["submit"].stop]
    <3>1. run["submit"].stop \in Stops
      BY <1>a DEF TypeOK, RunType
    <3> QED
      BY <2>1, <3>1, <1>a, StepMoves, StopMoves
  <2>3. rows # {} /\ LowerPart(rows, Due) /\ rows \in SUBSET Rows
    BY <1>a, <1>32 DEF IngestChunk, At, Account, ChunkIsDue, TypeOK, RunType
  <2>4. Last(rows) \in rows /\ \A p \in rows : p <= Last(rows)
    BY <2>3, LastIsLast
  <2>5. made' = Submitted(rows) /\ marked' = marked \cup rows /\ cursor' = Last(rows)
    BY <1>32 DEF IngestChunk
  <2>6. UNCHANGED <<items, parsed, status, revoked, ending, req>>
    BY <1>32 DEF IngestChunk, artifactVars, callVars
  <2> HIDE DEF rows
  <2>7. /\ \A r \in rows : r \in items \ BadRows /\ cursor < r
        /\ \A c \in rows, r \in items \ BadRows : cursor < r /\ r <= c => r \in rows
    BY <2>3 DEF LowerPart, Due
  <2>8. items \in SUBSET Rows /\ cursor' \in Nat /\ cursor < cursor'
    BY <1>a, <1>b, <2>3, <2>4, <2>5, <2>7 DEF TypeOK
  <2>9. marked = {r \in items \ BadRows : r <= cursor}
        /\ \A r \in Rows : made[r] = IF r \in marked THEN 1 ELSE 0
    BY <1>a DEF Account, IngestAgrees
  <2>11. marked' = {r \in items \ BadRows : r <= cursor'}
    <3>1. \A r \in marked' : r \in items \ BadRows /\ r <= cursor'
      BY <1>b, <2>3, <2>4, <2>5, <2>7, <2>8, <2>9
    <3>2. \A r \in items \ BadRows : r <= cursor' => r \in marked'
      BY <1>b, <2>4, <2>5, <2>7, <2>8, <2>9
    <3> QED
      BY <3>1, <3>2
  <2>12. \A r \in Rows : made'[r] = IF r \in marked' THEN 1 ELSE 0
    <3>1. \A r \in rows : r \notin marked
      BY <1>b, <2>3, <2>7, <2>9
    <3> QED
      BY <2>5, <2>9, <3>1 DEF Submitted
  <2>13. IngestAgrees'
    BY <2>6, <2>11, <2>12 DEF IngestAgrees
  <2>14. run'["parse"] = run["parse"] /\ cursor' \in items
    BY <2>2, <2>4, <2>5, <2>7 DEF OnlyRun
  <2>15. Stored'
    BY <1>a, <2>6, <2>14 DEF Account, Stored
  <2>16. Due' = Due \ rows
    <3>1. \A r \in Due' : r \in Due \ rows
      BY <1>b, <2>3, <2>4, <2>5, <2>6, <2>8 DEF Due
    <3>2. \A r \in Due \ rows : r \in Due'
      BY <1>b, <2>4, <2>5, <2>6, <2>7, <2>8 DEF Due
    <3> QED
      BY <3>1, <3>2
  <2>17. run["submit"].stop # "none" => Due' # {}
    <3>1. run["submit"].stop # "none" => rows # Due
      BY <1>a, <1>32 DEF IngestChunk, At, Account, ChunkIsDue, rows
    <3> QED
      BY <2>3, <2>16, <3>1 DEF LowerPart
  <2>18. ChunkIsDue' /\ FinalIsTrue'
    BY <2>2, <2>17 DEF ChunkIsDue, FinalIsTrue
  <2> QED
    BY <2>13, <2>15, <2>18 DEF Account
<1>33. ASSUME IngestRolledBack PROVE Account'
  <2>1. Step("submit", "end", {})
    BY <1>33 DEF IngestRolledBack
  <2>2. RunTyped /\ OnlyRun("submit") /\ run'["submit"].rows = {} /\ run'["submit"].pc = "end"
    BY <2>1, <1>a, StepMoves
  <2>3. UNCHANGED <<parsed, cursor, items, marked, made>>
    BY <1>33 DEF IngestRolledBack, At, artifactVars, draftVars, rowVars
  <2> QED
    BY <2>2, <2>3, AccountStays DEF OnlyRun
<1>34. ASSUME Finalize PROVE Account'
  <2>1. Step("submit", "end", {})
    BY <1>34 DEF Finalize
  <2>2. RunTyped /\ OnlyRun("submit") /\ run'["submit"].rows = {} /\ run'["submit"].pc = "end"
    BY <2>1, <1>a, StepMoves
  <2>3. UNCHANGED <<parsed, cursor, items, marked, made>>
    BY <1>34 DEF Finalize, At, artifactVars, draftVars, rowVars
  <2> QED
    BY <2>2, <2>3, AccountStays DEF OnlyRun
<1>35. ASSUME NEW j \in Jobs, JobEnds(j) PROVE Account'
  <2>1. run' = [run EXCEPT ![j] = Idle]
    BY <1>35 DEF JobEnds
  <2>2. RunTyped /\ OnlyRun(j) /\ run'[j] = Idle
    BY <2>1, <1>a, SetMoves, IdleTyped
  <2>3. UNCHANGED <<parsed, cursor, items, marked, made>>
    BY <1>35 DEF JobEnds, At, artifactVars, draftVars, rowVars
  <2> QED
    BY <2>2, <2>3, AccountStays DEF OnlyRun, Idle
<1>36. ASSUME NEW j \in Jobs, JobThrows(j) PROVE Account'
  <2>1. run' = [run EXCEPT ![j] = Idle]
    BY <1>36 DEF JobThrows
  <2>2. RunTyped /\ OnlyRun(j) /\ run'[j] = Idle
    BY <2>1, <1>a, SetMoves, IdleTyped
  <2>3. UNCHANGED <<parsed, cursor, items, marked, made>>
    BY <1>36 DEF JobThrows, At, ForgetsParse, artifactVars, draftVars, rowVars
  <2> QED
    BY <2>2, <2>3, AccountStays DEF OnlyRun, Idle
<1>37. ASSUME NEW j \in Jobs, WorkerDies(j) PROVE Account'
  <2>1. run' = [run EXCEPT ![j] = Idle]
    BY <1>37 DEF WorkerDies
  <2>2. RunTyped /\ OnlyRun(j) /\ run'[j] = Idle
    BY <2>1, <1>a, SetMoves, IdleTyped
  <2>3. UNCHANGED <<parsed, cursor, items, marked, made>>
    BY <1>37 DEF WorkerDies, At, ForgetsParse, artifactVars, draftVars, rowVars
  <2> QED
    BY <2>2, <2>3, AccountStays DEF OnlyRun, Idle
<1>38. CASE UNCHANGED vars
  <2>1. UNCHANGED <<run, parsed, cursor, items, marked, made>>
    BY <1>38 DEF vars, artifactVars, draftVars, rowVars
  <2> QED
    BY <2>1, AccountStays
<1> QED
  BY <1>1, <1>2, <1>3, <1>4, <1>5, <1>6, <1>7, <1>8, <1>9,
     <1>10, <1>11, <1>12, <1>13, <1>14, <1>15, <1>16, <1>17, <1>18,
     <1>19, <1>20, <1>21, <1>22, <1>23, <1>24, <1>25, <1>26, <1>27,
     <1>28, <1>29, <1>30, <1>31, <1>32, <1>33, <1>34, <1>35, <1>36,
     <1>37, <1>38, Zenon
  DEF Next, JobStep, RequestStep, Arrival

-----------------------------------------------------------------------------
(* A step that leaves the draft alone and starts no ingest.                *)
LEMMA VerdictStays ==
    ASSUME DraftInv, UNCHANGED <<status, revoked, ending, marked, parsed, req>>,
           run'["submit"].pc = run["submit"].pc \/ ~Working'
    PROVE  Verdict'
  BY DEF DraftInv, Verdict, ReadyIsParsed, WorksForDraft, NothingToRevoke, HonestEnd, Working

LEMMA VerdictStep == DraftInv /\ [Next]_vars => Verdict'
<1> SUFFICES ASSUME DraftInv, [Next]_vars PROVE Verdict'
    OBVIOUS
<1>a. TypeOK /\ Account /\ Verdict
  BY DEF DraftInv
<1>b. LastRow \in Nat /\ parsed \in Nat /\ cursor \in Nat /\ \A r \in Rows : r \in Nat
  BY <1>a, BoundAssumption DEF TypeOK, Rows
<1> USE Names
<1>1. ASSUME NEW withSource \in BOOLEAN, Create(withSource) PROVE Verdict'
  BY <1>a, <1>1 DEF Create, Verdict, ReadyIsParsed, WorksForDraft, NothingToRevoke, HonestEnd, Working, TypeOK, artifactVars, draftVars, rowVars, callVars
<1>2. ASSUME NEW q \in Requests, CompleteCheck(q) PROVE Verdict'
  BY <1>a, <1>2 DEF CompleteCheck, Begin, AwaitsSource, Verdict, ReadyIsParsed, WorksForDraft, NothingToRevoke, HonestEnd, Working, TypeOK, artifactVars, draftVars, rowVars, callVars
<1>3. ASSUME NEW q \in Requests, CompleteClaim(q) PROVE Verdict'
  BY <1>a, <1>3 DEF CompleteClaim, Go, Verdict, ReadyIsParsed, WorksForDraft, NothingToRevoke, HonestEnd, Working, TypeOK, artifactVars, draftVars, rowVars, callVars
<1>4. ASSUME NEW q \in Requests, CompleteRefuses(q) PROVE Verdict'
  BY <1>a, <1>4 DEF CompleteRefuses, Go, Verdict, ReadyIsParsed, WorksForDraft, NothingToRevoke, HonestEnd, Working, TypeOK, artifactVars, draftVars, rowVars, callVars
<1>5. ASSUME NEW q \in Requests, EnqueueScan(q) PROVE Verdict'
  BY <1>a, <1>5 DEF EnqueueScan, Go, Verdict, ReadyIsParsed, WorksForDraft, NothingToRevoke, HonestEnd, Working, TypeOK, artifactVars, draftVars, rowVars, callVars
<1>6. ASSUME Purge PROVE Verdict'
  BY <1>a, <1>6 DEF Purge, Verdict, ReadyIsParsed, WorksForDraft, NothingToRevoke, HonestEnd, Working, TypeOK, artifactVars, draftVars, rowVars, callVars
<1>7. ASSUME NEW q \in Requests, AttachCheck(q) PROVE Verdict'
  BY <1>a, <1>7 DEF AttachCheck, Begin, AwaitsSource, Verdict, ReadyIsParsed, WorksForDraft, NothingToRevoke, HonestEnd, Working, TypeOK, artifactVars, draftVars, rowVars, callVars
<1>8. ASSUME NEW q \in Requests, Attach(q) PROVE Verdict'
  BY <1>a, <1>8 DEF Attach, Go, AwaitsSource, Verdict, ReadyIsParsed, WorksForDraft, NothingToRevoke, HonestEnd, Working, TypeOK, artifactVars, draftVars, rowVars, callVars
<1>9. ASSUME NEW q \in Requests, AskForParse(q) PROVE Verdict'
  BY <1>a, <1>9 DEF AskForParse, Go, EnqueueParse, Verdict, ReadyIsParsed, WorksForDraft, NothingToRevoke, HonestEnd, Working, TypeOK, artifactVars, draftVars, rowVars, callVars
<1>10. ASSUME NEW q \in Requests, SubmitCheck(q) PROVE Verdict'
  BY <1>a, <1>10 DEF SubmitCheck, Begin, Verdict, ReadyIsParsed, WorksForDraft, NothingToRevoke, HonestEnd, Working, TypeOK, artifactVars, draftVars, rowVars, callVars
<1>11. ASSUME NEW q \in Requests, SubmitClaim(q) PROVE Verdict'
  BY <1>a, <1>11 DEF SubmitClaim, Go, Verdict, ReadyIsParsed, WorksForDraft, NothingToRevoke, HonestEnd, Working, TypeOK, artifactVars, draftVars, rowVars, callVars
<1>12. ASSUME NEW q \in Requests, AskForIngest(q) PROVE Verdict'
  BY <1>a, <1>12 DEF AskForIngest, Go, Verdict, ReadyIsParsed, WorksForDraft, NothingToRevoke, HonestEnd, Working, TypeOK, artifactVars, draftVars, rowVars, callVars
<1>13. ASSUME NEW q \in Requests, CancelCheck(q) PROVE Verdict'
  BY <1>a, <1>13 DEF CancelCheck, Begin, Verdict, ReadyIsParsed, WorksForDraft, NothingToRevoke, HonestEnd, Working, TypeOK, artifactVars, draftVars, rowVars, callVars
<1>14. ASSUME NEW q \in Requests, Cancel(q) PROVE Verdict'
  BY <1>a, <1>14 DEF Cancel, Go, Verdict, ReadyIsParsed, WorksForDraft, NothingToRevoke, HonestEnd, Working, TypeOK, artifactVars, draftVars, rowVars, callVars
<1>15. ASSUME Suspend PROVE Verdict'
  BY <1>a, <1>15 DEF Suspend, Verdict, ReadyIsParsed, WorksForDraft, NothingToRevoke, HonestEnd, Working, TypeOK, artifactVars, draftVars, rowVars, callVars
<1>16. ASSUME GoStale PROVE Verdict'
  BY <1>a, <1>16 DEF GoStale, Verdict, ReadyIsParsed, WorksForDraft, NothingToRevoke, HonestEnd, Working, TypeOK, artifactVars, draftVars, rowVars, callVars
<1>17. ASSUME NEW q \in Requests, RequestDies(q) PROVE Verdict'
  BY <1>a, <1>17 DEF RequestDies, Go, Verdict, ReadyIsParsed, WorksForDraft, NothingToRevoke, HonestEnd, Working, TypeOK, artifactVars, draftVars, rowVars, callVars
<1>18. ASSUME ScanStart PROVE Verdict'
  <2>1. PICK pc \in {"scan", "end"} : Step("scan", pc, {})
    BY <1>18 DEF ScanStart, Starts
  <2>2. RunTyped /\ OnlyRun("scan") /\ run'["scan"].rows = {} /\ run'["scan"].pc \in {"scan", "end"}
    BY <2>1, <1>a, StepMoves
  <2>3. UNCHANGED <<status, revoked, ending, marked, parsed, req>>
    BY <1>18 DEF ScanStart, Starts, artifactVars, draftVars, rowVars, callVars
  <2> QED
    BY <2>2, <2>3, VerdictStays DEF OnlyRun, Working
<1>19. ASSUME ScanRejects PROVE Verdict'
  <2>1. Step("scan", "end", {})
    BY <1>19 DEF ScanRejects
  <2>2. RunTyped /\ OnlyRun("scan") /\ run'["scan"].rows = {} /\ run'["scan"].pc = "end"
    BY <2>1, <1>a, StepMoves
  <2>3. UNCHANGED <<status, revoked, ending, marked, parsed, req>>
    BY <1>19 DEF ScanRejects, At, artifactVars, draftVars, rowVars, callVars
  <2> QED
    BY <2>2, <2>3, VerdictStays DEF OnlyRun, Working
<1>20. ASSUME ScanClears PROVE Verdict'
  <2>1. Step("scan", "follow", {})
    BY <1>20 DEF ScanClears
  <2>2. RunTyped /\ OnlyRun("scan") /\ run'["scan"].rows = {} /\ run'["scan"].pc = "follow"
    BY <2>1, <1>a, StepMoves
  <2>3. UNCHANGED <<status, revoked, ending, marked, parsed, req>>
    BY <1>20 DEF ScanClears, At, artifactVars, draftVars, rowVars, callVars
  <2> QED
    BY <2>2, <2>3, VerdictStays DEF OnlyRun, Working
<1>21. ASSUME ScanFollows PROVE Verdict'
  <2>1. Step("scan", "end", {})
    BY <1>21 DEF ScanFollows
  <2>2. RunTyped /\ OnlyRun("scan") /\ run'["scan"].rows = {} /\ run'["scan"].pc = "end"
    BY <2>1, <1>a, StepMoves
  <2>3. UNCHANGED <<status, revoked, ending, marked, parsed, req>>
    BY <1>21 DEF ScanFollows, At, EnqueueParse, artifactVars, draftVars, rowVars, callVars
  <2> QED
    BY <2>2, <2>3, VerdictStays DEF OnlyRun, Working
<1>22. ASSUME ParseStart PROVE Verdict'
  <2>1. PICK pc \in {"throw", "end", "read"} : Step("parse", pc, {})
    BY <1>22 DEF ParseStart, Starts
  <2>2. RunTyped /\ OnlyRun("parse") /\ run'["parse"].rows = {} /\ run'["parse"].pc \in {"throw", "end", "read"}
    BY <2>1, <1>a, StepMoves
  <2>3. UNCHANGED <<status, revoked, ending, marked, parsed, req>>
    BY <1>22 DEF ParseStart, Starts, artifactVars, draftVars, rowVars, callVars
  <2> QED
    BY <2>2, <2>3, VerdictStays DEF OnlyRun, Working
<1>23. ASSUME ParseReads PROVE Verdict'
  <2> DEFINE rest == Rows \ (1 .. parsed)
             budget == FirstOf(RowsPerRun, rest)
  <2>0. RowsPerRun \in Nat /\ rest \in SUBSET Rows
    BY BoundAssumption
  <2>1. LowerPart(budget, rest) /\ Step("parse", "rows", budget)
    <3>1. Step("parse", "rows", budget)
      BY <1>23 DEF ParseReads
    <3> HIDE DEF rest
    <3> QED
      BY <2>0, <3>1, FirstOfIsLower
  <2>2. RunTyped /\ OnlyRun("parse") /\ run'["parse"].rows = budget /\ run'["parse"].pc = "rows"
    <3>1. budget \in SUBSET Rows
      BY <2>0, <2>1 DEF LowerPart
    <3> HIDE DEF budget
    <3> QED
      BY <2>1, <3>1, <1>a, StepMoves
  <2>3. UNCHANGED <<status, revoked, ending, marked, parsed, req>>
    BY <1>23 DEF ParseReads, At, artifactVars, draftVars, rowVars, callVars
  <2> QED
    BY <2>2, <2>3, VerdictStays DEF OnlyRun, Working
<1>24. ASSUME ParseChunk PROVE Verdict'
  <2> DEFINE chunk == FirstOf(ChunkSize, run["parse"].rows)
  <2>0. chunk # {} /\ parsed' = Last(chunk) /\ items' = items \cup chunk
        /\ Step("parse", "rows", run["parse"].rows \ chunk)
    BY <1>24 DEF ParseChunk
  <2>1. /\ chunk \in SUBSET Rows /\ LowerPart(chunk, run["parse"].rows)
        /\ Last(chunk) \in chunk /\ \A p \in chunk : p <= Last(chunk)
    BY <2>0, <1>a, ParsesFirst
  <2>2. RunTyped /\ OnlyRun("parse") /\ run'["parse"].rows = run["parse"].rows \ chunk
        /\ run'["parse"].pc = "rows"
    <3>1. run["parse"].rows \ chunk \in SUBSET Rows
      BY <1>a DEF TypeOK, RunType
    <3> HIDE DEF chunk
    <3> QED
      BY <2>0, <3>1, <1>a, StepMoves
  <2> HIDE DEF chunk
  <2>3. UNCHANGED <<status, revoked, ending, marked, req>> /\ run'["submit"] = run["submit"]
    BY <1>24, <2>2 DEF ParseChunk, draftVars, callVars, OnlyRun
  <2>4. parsed # LastRow
    <3>1. Last(chunk) \in run["parse"].rows
      BY <2>1 DEF LowerPart
    <3>2. run["parse"].rows \subseteq {r \in Rows : parsed < r}
      BY <1>a DEF Account, Stored, LowerPart
    <3>3. parsed < Last(chunk) /\ Last(chunk) \in Rows
      BY <3>1, <3>2
    <3> QED
      BY <1>a, <3>3, BoundAssumption DEF TypeOK, Rows
  <2> QED
    BY <1>a, <2>3, <2>4 DEF Verdict, ReadyIsParsed, WorksForDraft, NothingToRevoke, HonestEnd, Working
<1>25. ASSUME ParseContinues PROVE Verdict'
  <2>1. Step("parse", "end", {})
    BY <1>25 DEF ParseContinues
  <2>2. RunTyped /\ OnlyRun("parse") /\ run'["parse"].rows = {} /\ run'["parse"].pc = "end"
    BY <2>1, <1>a, StepMoves
  <2>3. UNCHANGED <<status, revoked, ending, marked, parsed, req>>
    BY <1>25 DEF ParseContinues, At, EnqueueParse, artifactVars, draftVars, rowVars, callVars
  <2> QED
    BY <2>2, <2>3, VerdictStays DEF OnlyRun, Working
<1>26. ASSUME ParseEnds PROVE Verdict'
  <2>1. Step("parse", "end", {})
    BY <1>26 DEF ParseEnds
  <2>2. RunTyped /\ OnlyRun("parse") /\ run'["parse"].rows = {} /\ run'["parse"].pc = "end"
    BY <2>1, <1>a, StepMoves
  <2>3. run'["submit"] = run["submit"]
    BY <2>2 DEF OnlyRun
  <2> QED
    BY <1>a, <1>26, <2>3 DEF ParseEnds, At, AwaitsParse, Verdict, ReadyIsParsed, WorksForDraft, NothingToRevoke, HonestEnd, Working, rowVars, callVars, artifactVars
<1>27. ASSUME ParseRejects PROVE Verdict'
  <2>1. Step("parse", "mark", {})
    BY <1>27 DEF ParseRejects
  <2>2. RunTyped /\ OnlyRun("parse") /\ run'["parse"].rows = {} /\ run'["parse"].pc = "mark"
    BY <2>1, <1>a, StepMoves
  <2>3. UNCHANGED <<status, revoked, ending, marked, parsed, req>>
    BY <1>27 DEF ParseRejects, At, artifactVars, draftVars, rowVars, callVars
  <2> QED
    BY <2>2, <2>3, VerdictStays DEF OnlyRun, Working
<1>28. ASSUME ParseRejectsDraft PROVE Verdict'
  <2>1. Step("parse", "throw", {})
    BY <1>28 DEF ParseRejectsDraft
  <2>2. RunTyped /\ OnlyRun("parse") /\ run'["parse"].rows = {} /\ run'["parse"].pc = "throw"
    BY <2>1, <1>a, StepMoves
  <2>3. run'["submit"] = run["submit"]
    BY <2>2 DEF OnlyRun
  <2> QED
    BY <1>a, <1>28, <2>3 DEF ParseRejectsDraft, At, AwaitsParse, Verdict, ReadyIsParsed, WorksForDraft, NothingToRevoke, HonestEnd, Working, rowVars, callVars, artifactVars
<1>29. ASSUME IngestStart PROVE Verdict'
  <2>1. PICK pc \in {"read", "end"} : Step("submit", pc, {}) /\ (pc = "read" => status = "submitting")
    BY <1>29 DEF IngestStart, Starts
  <2>2. RunTyped /\ OnlyRun("submit") /\ run'["submit"].rows = {} /\ run'["submit"].pc \in {"read", "end"} /\ (run'["submit"].pc = "read" => status = "submitting")
    BY <2>1, <1>a, StepMoves
  <2>3. UNCHANGED <<status, revoked, ending, marked, parsed, req>>
    BY <1>29 DEF IngestStart, Starts, artifactVars, draftVars, rowVars, callVars
  <2> QED
    BY <1>a, <2>2, <2>3 DEF Verdict, ReadyIsParsed, WorksForDraft, NothingToRevoke, HonestEnd, Working
<1>30. ASSUME NEW room \in 0 .. ChunkSize, IngestReads(room) PROVE Verdict'
  <2>1. \/ Unsent = {} /\ Stop("none")
        \/ Unsent # {} /\ Stop("pool_full")
        \/ /\ Unsent # {} /\ room > 0
           /\ run' = [run EXCEPT !["submit"] = ChunkOf(room)]
    BY <1>30, <1>a, ReadsMoves
  <2>2. /\ RunTyped /\ OnlyRun("submit")
        /\ \/ Unsent = {} /\ run'["submit"] = [pc |-> "final", rows |-> {}, stop |-> "none"]
           \/ Unsent # {} /\ run'["submit"] = [pc |-> "final", rows |-> {}, stop |-> "pool_full"]
           \/ Unsent # {} /\ room > 0 /\ run'["submit"] = ChunkOf(room)
    BY <1>a, <2>1, StopMoves, <1>a, SetMoves, ChunkTyped DEF Stops
  <2>3. UNCHANGED <<status, revoked, ending, marked, parsed, req>> /\ Working
    BY <1>30 DEF IngestReads, At, artifactVars, draftVars, rowVars, callVars, Working
  <2> QED
    BY <1>a, <2>3 DEF Verdict, ReadyIsParsed, WorksForDraft, NothingToRevoke, HonestEnd, Working
<1>31. ASSUME IngestFindsClosed PROVE Verdict'
  <2>1. Stop("pool_closed")
    BY <1>31 DEF IngestFindsClosed
  <2>2. RunTyped /\ OnlyRun("submit")
        /\ run'["submit"] = [pc |-> "final", rows |-> {}, stop |-> "pool_closed"]
    BY <1>a, <2>1, StopMoves DEF Stops
  <2>3. UNCHANGED <<status, revoked, ending, marked, parsed, req>> /\ Working
    BY <1>31 DEF IngestFindsClosed, At, artifactVars, draftVars, rowVars, callVars, Working
  <2> QED
    BY <1>a, <2>3 DEF Verdict, ReadyIsParsed, WorksForDraft, NothingToRevoke, HonestEnd, Working
<1>32. ASSUME IngestChunk PROVE Verdict'
  <2> DEFINE rows == run["submit"].rows
  <2>1. \/ run["submit"].stop = "none" /\ Step("submit", "read", {})
        \/ run["submit"].stop # "none" /\ Stop(run["submit"].stop)
    BY <1>32 DEF IngestChunk, AfterChunk
  <2>2. /\ RunTyped /\ OnlyRun("submit")
        /\ \/ run["submit"].stop = "none" /\ run'["submit"].pc = "read"
           \/ /\ run["submit"].stop # "none"
              /\ run'["submit"] = [pc |-> "final", rows |-> {}, stop |-> run["submit"].stop]
    <3>1. run["submit"].stop \in Stops
      BY <1>a DEF TypeOK, RunType
    <3> QED
      BY <2>1, <3>1, <1>a, StepMoves, StopMoves
  <2>3. rows # {} /\ LowerPart(rows, Due) /\ rows \in SUBSET Rows
    BY <1>a, <1>32 DEF IngestChunk, At, Account, ChunkIsDue, TypeOK, RunType
  <2>4. Last(rows) \in rows /\ \A p \in rows : p <= Last(rows)
    BY <2>3, LastIsLast
  <2>5. made' = Submitted(rows) /\ marked' = marked \cup rows /\ cursor' = Last(rows)
    BY <1>32 DEF IngestChunk
  <2>6. UNCHANGED <<items, parsed, status, revoked, ending, req>>
    BY <1>32 DEF IngestChunk, artifactVars, callVars
  <2> HIDE DEF rows
  <2>7. Working
    BY <1>32 DEF IngestChunk, At, Working
  <2> QED
    BY <1>a, <2>6, <2>7 DEF Verdict, ReadyIsParsed, WorksForDraft, NothingToRevoke, HonestEnd, Working
<1>33. ASSUME IngestRolledBack PROVE Verdict'
  <2>1. Step("submit", "end", {})
    BY <1>33 DEF IngestRolledBack
  <2>2. RunTyped /\ OnlyRun("submit") /\ run'["submit"].rows = {} /\ run'["submit"].pc = "end"
    BY <2>1, <1>a, StepMoves
  <2>3. UNCHANGED <<status, revoked, ending, marked, parsed, req>>
    BY <1>33 DEF IngestRolledBack, At, artifactVars, draftVars, rowVars, callVars
  <2> QED
    BY <2>2, <2>3, VerdictStays DEF OnlyRun, Working
<1>34. ASSUME Finalize PROVE Verdict'
  <2>1. Step("submit", "end", {})
    BY <1>34 DEF Finalize
  <2>2. RunTyped /\ OnlyRun("submit") /\ run'["submit"].rows = {} /\ run'["submit"].pc = "end"
    BY <2>1, <1>a, StepMoves
  <2>3. ~Working' /\ UNCHANGED <<marked, items, parsed, cursor, revoked, req>>
    BY <1>34, <2>2 DEF Finalize, Working, artifactVars, rowVars, callVars
  <2>4. parsed = LastRow /\ (run["submit"].stop = "none" <=> Due = {})
    BY <1>a, <1>34 DEF Finalize, At, Account, FinalIsTrue, Verdict, ReadyIsParsed, Working
  <2>5. Due = {} <=> marked = Rows \ BadRows
    <3>1. items = Rows
      BY <1>a, <1>b, <2>4 DEF Account, Stored, Rows
    <3>2. marked = {r \in items \ BadRows : r <= cursor}
      BY <1>a DEF Account, IngestAgrees
    <3>3. \A r \in Rows : ~(r <= cursor) <=> cursor < r
      BY <1>b
    <3> QED
      BY <3>1, <3>2, <3>3 DEF Due
  <2>6. CASE status = "submitting" /\ ~revoked
    BY <1>34, <2>3, <2>4, <2>5, <2>6 DEF Finalize, Verdict, ReadyIsParsed, WorksForDraft, NothingToRevoke, HonestEnd, Working
  <2>7. CASE ~(status = "submitting" /\ ~revoked)
    BY <1>a, <1>34, <2>3, <2>7 DEF Finalize, Verdict, ReadyIsParsed, WorksForDraft, NothingToRevoke, HonestEnd, Working
  <2> QED
    BY <2>6, <2>7
<1>35. ASSUME NEW j \in Jobs, JobEnds(j) PROVE Verdict'
  <2>1. run' = [run EXCEPT ![j] = Idle]
    BY <1>35 DEF JobEnds
  <2>2. RunTyped /\ OnlyRun(j) /\ run'[j] = Idle
    BY <2>1, <1>a, SetMoves, IdleTyped
  <2>3. UNCHANGED <<status, revoked, ending, marked, parsed, req>>
    BY <1>35 DEF JobEnds, At, artifactVars, draftVars, rowVars, callVars
  <2> QED
    BY <2>2, <2>3, VerdictStays DEF OnlyRun, Working, Idle
<1>36. ASSUME NEW j \in Jobs, JobThrows(j) PROVE Verdict'
  <2>1. run' = [run EXCEPT ![j] = Idle]
    BY <1>36 DEF JobThrows
  <2>2. RunTyped /\ OnlyRun(j) /\ run'[j] = Idle
    BY <2>1, <1>a, SetMoves, IdleTyped
  <2>3. UNCHANGED <<status, revoked, ending, marked, parsed, req>>
    BY <1>36 DEF JobThrows, At, ForgetsParse, artifactVars, draftVars, rowVars, callVars
  <2> QED
    BY <2>2, <2>3, VerdictStays DEF OnlyRun, Working, Idle
<1>37. ASSUME NEW j \in Jobs, WorkerDies(j) PROVE Verdict'
  <2>1. run' = [run EXCEPT ![j] = Idle]
    BY <1>37 DEF WorkerDies
  <2>2. RunTyped /\ OnlyRun(j) /\ run'[j] = Idle
    BY <2>1, <1>a, SetMoves, IdleTyped
  <2>3. UNCHANGED <<status, revoked, ending, marked, parsed, req>>
    BY <1>37 DEF WorkerDies, At, ForgetsParse, artifactVars, draftVars, rowVars, callVars
  <2> QED
    BY <2>2, <2>3, VerdictStays DEF OnlyRun, Working, Idle
<1>38. CASE UNCHANGED vars
  BY <1>38, VerdictStays DEF vars, artifactVars, draftVars, rowVars, callVars
<1> QED
  BY <1>1, <1>2, <1>3, <1>4, <1>5, <1>6, <1>7, <1>8, <1>9,
     <1>10, <1>11, <1>12, <1>13, <1>14, <1>15, <1>16, <1>17, <1>18,
     <1>19, <1>20, <1>21, <1>22, <1>23, <1>24, <1>25, <1>26, <1>27,
     <1>28, <1>29, <1>30, <1>31, <1>32, <1>33, <1>34, <1>35, <1>36,
     <1>37, <1>38, Zenon
  DEF Next, JobStep, RequestStep, Arrival

-----------------------------------------------------------------------------
(* No draft, no row and no run at first.                                   *)
LEMMA InitDraft == Init => DraftInv
<1> SUFFICES ASSUME Init PROVE DraftInv
    OBVIOUS
<1>1. \A j \in Jobs : run[j] = Idle
  BY DEF Init
<1>2. run["parse"].rows = {} /\ run["submit"].pc = "idle"
  BY <1>1, Names DEF Idle
<1>3. /\ items = {} /\ marked = {} /\ made = [r \in Rows |-> 0] /\ cursor = 0 /\ parsed = 0
      /\ status = "none" /\ revoked = FALSE /\ \A q \in Requests : req[q] = "idle"
  BY DEF Init
<1>4. Stored
  <2>1. \A r \in Rows : ~(r <= 0)
    BY BoundAssumption DEF Rows
  <2> QED
    BY <1>2, <1>3, <2>1 DEF Stored, LowerPart
<1>5. Account
  BY <1>2, <1>3, <1>4 DEF Account, IngestAgrees, ChunkIsDue, FinalIsTrue
<1>6. Verdict
  BY <1>2, <1>3 DEF Verdict, ReadyIsParsed, WorksForDraft, NothingToRevoke, HonestEnd, Working
<1>7. run \in [Jobs -> RunType]
  BY IdleTyped DEF Init
<1>8. phase \in [Jobs -> Board!Phases] /\ tries \in [Jobs -> Nat]
      /\ holders \in [Jobs -> SUBSET Workers]
  BY DEF Init, Board!Init, Board!Phases
<1>9. /\ made \in [Rows -> Nat]
      /\ req \in [Requests -> {"idle", "slot", "slotDraft", "scan", "scanDraft",
                               "attach", "parse", "submit", "ingest", "cancel"}]
  BY DEF Init
<1>10. TypeOK
  <2>1. /\ artifact = "pending_upload" /\ parse = "not_applicable" /\ sound \in BOOLEAN
        /\ attached = FALSE /\ fresh = TRUE /\ unasked = FALSE
        /\ ending = "none" /\ arrived = 0 /\ deaths = 0
    BY DEF Init
  <2>2. {sound, attached, revoked, fresh, unasked} \subseteq BOOLEAN
    BY <1>3, <2>1
  <2>3. {parsed, cursor} \subseteq {0} \cup Rows /\ {arrived, deaths} \subseteq Nat
    BY <1>3, <2>1
  <2>4. items \in SUBSET Rows /\ marked \in SUBSET items
    BY <1>3
  <2> QED
    BY <1>3, <1>7, <1>8, <1>9, <2>1, <2>2, <2>3, <2>4 DEF TypeOK, Stops
<1> QED
  BY <1>5, <1>6, <1>10 DEF DraftInv

LEMMA Invariance == Spec => []DraftInv
<1>1. DraftInv /\ [Next]_vars => DraftInv'
  BY TypeStep, AccountStep, VerdictStep DEF DraftInv
<1> QED
  BY InitDraft, <1>1, PTL DEF Spec

-----------------------------------------------------------------------------
(* Every column and every handler keeps its range.                         *)
THEOREM TypeCorrect == Spec => []TypeOK
<1>1. DraftInv => TypeOK
  BY DEF DraftInv
<1> QED
  BY Invariance, <1>1, PTL

(* Every usable row up to the cursor became exactly one submission and no  *)
(* later row any, for every file, chunk size and number of retries.        *)
THEOREM IngestIsExact == Spec => []IngestAgrees
<1>1. DraftInv => IngestAgrees
  BY DEF DraftInv, Account
<1> QED
  BY Invariance, <1>1, PTL

(* A draft says "submitted" without a reason only when no usable row is    *)
(* left behind, and gives a reason only when some row is.                  *)
THEOREM EndIsHonest == Spec => []HonestEnd
<1>1. DraftInv => HonestEnd
  BY DEF DraftInv, Verdict
<1> QED
  BY Invariance, <1>1, PTL

(* A revoked draft ingests nothing more and keeps its verdict.             *)
THEOREM RevokedStaysFrozen == Spec => RevokedIsFrozen
<1> DEFINE Frozen ==
             revoked => /\ made' = made
                        /\ status' # status => status' \in {"uploading", "submitting"}
<1>0. ASSUME DraftInv, [Next]_vars PROVE Frozen
  <2> SUFFICES ASSUME revoked PROVE Frozen
      OBVIOUS
  <2>1. ASSUME NEW withSource \in BOOLEAN, Create(withSource) PROVE Frozen
    BY <2>1, <1>0 DEF Create, DraftInv, Verdict, NothingToRevoke, draftVars, rowVars
  <2>2. ASSUME NEW q \in Requests, CompleteCheck(q) PROVE Frozen
    BY <2>2 DEF CompleteCheck, draftVars, rowVars
  <2>3. ASSUME NEW q \in Requests, CompleteClaim(q) PROVE Frozen
    BY <2>3 DEF CompleteClaim, draftVars, rowVars
  <2>4. ASSUME NEW q \in Requests, CompleteRefuses(q) PROVE Frozen
    BY <2>4 DEF CompleteRefuses, draftVars, rowVars
  <2>5. ASSUME NEW q \in Requests, EnqueueScan(q) PROVE Frozen
    BY <2>5 DEF EnqueueScan, draftVars, rowVars
  <2>6. ASSUME Purge PROVE Frozen
    BY <2>6 DEF Purge, draftVars, rowVars
  <2>7. ASSUME NEW q \in Requests, AttachCheck(q) PROVE Frozen
    BY <2>7 DEF AttachCheck, draftVars, rowVars
  <2>8. ASSUME NEW q \in Requests, Attach(q) PROVE Frozen
    BY <2>8 DEF Attach, draftVars, rowVars
  <2>9. ASSUME NEW q \in Requests, AskForParse(q) PROVE Frozen
    BY <2>9 DEF AskForParse, draftVars, rowVars
  <2>10. ASSUME NEW q \in Requests, SubmitCheck(q) PROVE Frozen
    BY <2>10 DEF SubmitCheck, draftVars, rowVars
  <2>11. ASSUME NEW q \in Requests, SubmitClaim(q) PROVE Frozen
    BY <2>11 DEF SubmitClaim, draftVars, rowVars
  <2>12. ASSUME NEW q \in Requests, AskForIngest(q) PROVE Frozen
    BY <2>12 DEF AskForIngest, draftVars, rowVars
  <2>13. ASSUME NEW q \in Requests, CancelCheck(q) PROVE Frozen
    BY <2>13 DEF CancelCheck, draftVars, rowVars
  <2>14. ASSUME NEW q \in Requests, Cancel(q) PROVE Frozen
    BY <2>14, <1>0 DEF Cancel, DraftInv, Verdict, NothingToRevoke, draftVars, rowVars
  <2>15. ASSUME Suspend PROVE Frozen
    BY <2>15 DEF Suspend, draftVars, rowVars
  <2>16. ASSUME GoStale PROVE Frozen
    BY <2>16 DEF GoStale, draftVars, rowVars
  <2>17. ASSUME NEW q \in Requests, RequestDies(q) PROVE Frozen
    BY <2>17 DEF RequestDies, draftVars, rowVars
  <2>18. ASSUME ScanStart PROVE Frozen
    BY <2>18 DEF ScanStart, draftVars, rowVars
  <2>19. ASSUME ScanRejects PROVE Frozen
    BY <2>19 DEF ScanRejects, draftVars, rowVars
  <2>20. ASSUME ScanClears PROVE Frozen
    BY <2>20 DEF ScanClears, draftVars, rowVars
  <2>21. ASSUME ScanFollows PROVE Frozen
    BY <2>21 DEF ScanFollows, draftVars, rowVars
  <2>22. ASSUME ParseStart PROVE Frozen
    BY <2>22 DEF ParseStart, draftVars, rowVars
  <2>23. ASSUME ParseReads PROVE Frozen
    BY <2>23 DEF ParseReads, draftVars, rowVars
  <2>24. ASSUME ParseChunk PROVE Frozen
    BY <2>24 DEF ParseChunk, draftVars, rowVars
  <2>25. ASSUME ParseContinues PROVE Frozen
    BY <2>25 DEF ParseContinues, draftVars, rowVars
  <2>26. ASSUME ParseEnds PROVE Frozen
    BY <2>26 DEF ParseEnds, AwaitsParse, draftVars, rowVars
  <2>27. ASSUME ParseRejects PROVE Frozen
    BY <2>27 DEF ParseRejects, draftVars, rowVars
  <2>28. ASSUME ParseRejectsDraft PROVE Frozen
    BY <2>28 DEF ParseRejectsDraft, AwaitsParse, draftVars, rowVars
  <2>29. ASSUME IngestStart PROVE Frozen
    BY <2>29 DEF IngestStart, draftVars, rowVars
  <2>30. ASSUME NEW room \in 0 .. ChunkSize, IngestReads(room) PROVE Frozen
    BY <2>30 DEF IngestReads, draftVars, rowVars
  <2>31. ASSUME IngestFindsClosed PROVE Frozen
    BY <2>31 DEF IngestFindsClosed, draftVars, rowVars
  <2>32. ASSUME IngestChunk PROVE Frozen
    BY <2>32 DEF IngestChunk, draftVars, rowVars
  <2>33. ASSUME IngestRolledBack PROVE Frozen
    BY <2>33 DEF IngestRolledBack, draftVars, rowVars
  <2>34. ASSUME Finalize PROVE Frozen
    BY <2>34 DEF Finalize, draftVars, rowVars
  <2>35. ASSUME NEW j \in Jobs, JobEnds(j) PROVE Frozen
    BY <2>35 DEF JobEnds, draftVars, rowVars
  <2>36. ASSUME NEW j \in Jobs, JobThrows(j) PROVE Frozen
    BY <2>36 DEF JobThrows, draftVars, rowVars
  <2>37. ASSUME NEW j \in Jobs, WorkerDies(j) PROVE Frozen
    BY <2>37 DEF WorkerDies, draftVars, rowVars
  <2>38. CASE UNCHANGED vars
    BY <2>38 DEF vars, draftVars, rowVars
  <2> HIDE DEF Frozen
  <2> QED
    BY <1>0, <2>1, <2>2, <2>3, <2>4, <2>5, <2>6, <2>7, <2>8,
       <2>9, <2>10, <2>11, <2>12, <2>13, <2>14, <2>15, <2>16, <2>17,
       <2>18, <2>19, <2>20, <2>21, <2>22, <2>23, <2>24, <2>25, <2>26,
       <2>27, <2>28, <2>29, <2>30, <2>31, <2>32, <2>33, <2>34, <2>35,
       <2>36, <2>37, <2>38, Zenon
    DEF Next, JobStep, RequestStep, Arrival
<1> QED
  BY Invariance, <1>0, PTL DEF Spec, RevokedIsFrozen

(* What the owner reviews and submits is the whole file.                   *)
THEOREM ReviewShowsTheWhole == Spec => []ReviewIsWhole
<1>1. DraftInv => ReviewIsWhole
  <2> SUFFICES ASSUME DraftInv, status \in {"review_ready", "submitting", "submitted"}
               PROVE  items = Rows
      BY DEF ReviewIsWhole
  <2>1. items = {r \in Rows : r <= LastRow}
    BY DEF DraftInv, Account, Stored, Verdict, ReadyIsParsed
  <2>2. \A r \in Rows : r <= LastRow
    BY BoundAssumption DEF Rows
  <2> QED
    BY <2>1, <2>2
<1> QED
  BY Invariance, <1>1, PTL
-----------------------------------------------------------------------------
(* A handler at work holds its job, which the board shows as running, and  *)
(* nobody holds a job no handler works on.                                 *)
InHand ==
    \A j \in Jobs :
        /\ holders[j] = IF run[j].pc = "idle" THEN {} ELSE {j}
        /\ run[j].pc # "idle" => phase[j] = "running"

SameHands == \A j \in Jobs : run'[j].pc = "idle" <=> run[j].pc = "idle"

BoardMove == [Board!Next]_(Board!vars)

(* A statement that is not about the board leaves it and its hands alone.  *)
LEMMA QuietStep ==
    ASSUME InHand, UNCHANGED boardVars, SameHands
    PROVE  InHand' /\ BoardMove
  BY DEF InHand, SameHands, boardVars, BoardMove, Board!vars

(* A producer arms a job nobody runs, or leaves a running one alone.       *)
LEMMA EnqueueStep ==
    ASSUME TypeOK, InHand, NEW j \in Jobs, Enqueue(j), SameHands
    PROVE  InHand' /\ BoardMove
<1>1. CASE Board!Arm(j)
  <2>1. BoardMove
    BY <1>1 DEF BoardMove, Board!Next
  <2>2. InHand'
    BY <1>1 DEF Board!Arm, InHand, SameHands, TypeOK
  <2> QED
    BY <2>1, <2>2
<1>2. CASE phase[j] = "running" /\ UNCHANGED boardVars
  BY <1>2, QuietStep
<1> QED
  BY <1>1, <1>2 DEF Enqueue

(* A handler starts with the job in its hands ...                          *)
LEMMA TakeStep ==
    ASSUME TypeOK, InHand, NEW j \in Jobs, Board!Take(j, j), OnlyRun(j),
           run'[j].pc # "idle"
    PROVE  InHand' /\ BoardMove
<1>1. BoardMove
  BY DEF BoardMove, Board!Next, Workers
<1>2. InHand'
  BY DEF Board!Take, InHand, OnlyRun, TypeOK
<1> QED
  BY <1>1, <1>2

(* ... and gives it back however it ends.                                  *)
LEMMA LeaveStep ==
    ASSUME TypeOK, InHand, NEW j \in Jobs, OnlyRun(j), run'[j].pc = "idle",
           Board!Finish(j, j) \/ Board!Fail(j, j) \/ Board!Abandon(j, j)
    PROVE  InHand' /\ BoardMove
<1>1. BoardMove
  BY DEF BoardMove, Board!Next, Workers
<1>2. Board!Release(j, j) /\ \A k \in Jobs \ {j} : phase'[k] = phase[k]
  BY DEF Board!Finish, Board!Fail, Board!Abandon, TypeOK
<1>3. holders'[j] = {} /\ \A k \in Jobs \ {j} : holders'[k] = holders[k]
  BY <1>2 DEF Board!Release, InHand, TypeOK
<1>4. InHand'
  BY <1>2, <1>3 DEF InHand, OnlyRun
<1> QED
  BY <1>1, <1>4

(* Every step is one of the board's, or does not touch it.                 *)
LEMMA BoardStep == TypeOK /\ InHand /\ [Next]_vars => InHand' /\ BoardMove
<1> SUFFICES ASSUME TypeOK, InHand, [Next]_vars PROVE InHand' /\ BoardMove
    OBVIOUS
<1> USE Names
<1> DEFINE Kept == InHand' /\ BoardMove
<1>0. run \in [Jobs -> RunType]
  BY DEF TypeOK
<1>1. ASSUME NEW withSource \in BOOLEAN, Create(withSource) PROVE Kept
  BY <1>1, QuietStep DEF Create, SameHands
<1>2. ASSUME NEW q \in Requests, CompleteCheck(q) PROVE Kept
  BY <1>2, QuietStep DEF CompleteCheck, SameHands
<1>3. ASSUME NEW q \in Requests, CompleteClaim(q) PROVE Kept
  BY <1>3, QuietStep DEF CompleteClaim, SameHands
<1>4. ASSUME NEW q \in Requests, CompleteRefuses(q) PROVE Kept
  BY <1>4, QuietStep DEF CompleteRefuses, SameHands
<1>5. ASSUME NEW q \in Requests, EnqueueScan(q) PROVE Kept
  BY <1>5, EnqueueStep DEF EnqueueScan, SameHands
<1>6. ASSUME Purge PROVE Kept
  BY <1>6, QuietStep DEF Purge, SameHands
<1>7. ASSUME NEW q \in Requests, AttachCheck(q) PROVE Kept
  BY <1>7, QuietStep DEF AttachCheck, SameHands
<1>8. ASSUME NEW q \in Requests, Attach(q) PROVE Kept
  BY <1>8, QuietStep DEF Attach, SameHands
<1>9. ASSUME NEW q \in Requests, AskForParse(q) PROVE Kept
  BY <1>9, EnqueueStep DEF AskForParse, EnqueueParse, SameHands
<1>10. ASSUME NEW q \in Requests, SubmitCheck(q) PROVE Kept
  BY <1>10, QuietStep DEF SubmitCheck, SameHands
<1>11. ASSUME NEW q \in Requests, SubmitClaim(q) PROVE Kept
  BY <1>11, QuietStep DEF SubmitClaim, SameHands
<1>12. ASSUME NEW q \in Requests, AskForIngest(q) PROVE Kept
  BY <1>12, EnqueueStep DEF AskForIngest, SameHands
<1>13. ASSUME NEW q \in Requests, CancelCheck(q) PROVE Kept
  BY <1>13, QuietStep DEF CancelCheck, SameHands
<1>14. ASSUME NEW q \in Requests, Cancel(q) PROVE Kept
  BY <1>14, QuietStep DEF Cancel, SameHands
<1>15. ASSUME Suspend PROVE Kept
  BY <1>15, QuietStep DEF Suspend, SameHands
<1>16. ASSUME GoStale PROVE Kept
  BY <1>16, QuietStep DEF GoStale, SameHands
<1>17. ASSUME NEW q \in Requests, RequestDies(q) PROVE Kept
  BY <1>17, QuietStep DEF RequestDies, SameHands
<1>18. ASSUME ScanStart PROVE Kept
  <2>1. OnlyRun("scan") /\ run'["scan"].pc # "idle"
    BY <1>0, <1>18 DEF ScanStart, Starts, Step, OnlyRun, RunType
  <2> QED
    BY <1>18, <2>1, TakeStep DEF ScanStart, Starts
<1>19. ASSUME ScanRejects PROVE Kept
  <2>1. SameHands
    BY <1>0, <1>19 DEF ScanRejects, Step, At, SameHands, RunType
  <2> QED
    BY <1>19, <2>1, QuietStep DEF ScanRejects
<1>20. ASSUME ScanClears PROVE Kept
  <2>1. SameHands
    BY <1>0, <1>20 DEF ScanClears, Step, At, SameHands, RunType
  <2> QED
    BY <1>20, <2>1, QuietStep DEF ScanClears
<1>21. ASSUME ScanFollows PROVE Kept
  <2>1. SameHands
    BY <1>0, <1>21 DEF ScanFollows, EnqueueParse, Step, At, SameHands, RunType
  <2> QED
    BY <1>21, <2>1, EnqueueStep DEF ScanFollows, EnqueueParse
<1>22. ASSUME ParseStart PROVE Kept
  <2>1. OnlyRun("parse") /\ run'["parse"].pc # "idle"
    BY <1>0, <1>22 DEF ParseStart, Starts, Step, OnlyRun, RunType
  <2> QED
    BY <1>22, <2>1, TakeStep DEF ParseStart, Starts
<1>23. ASSUME ParseReads PROVE Kept
  <2>1. SameHands
    BY <1>0, <1>23 DEF ParseReads, Step, At, SameHands, RunType
  <2> QED
    BY <1>23, <2>1, QuietStep DEF ParseReads
<1>24. ASSUME ParseChunk PROVE Kept
  <2>1. SameHands
    BY <1>0, <1>24 DEF ParseChunk, Step, At, SameHands, RunType
  <2> QED
    BY <1>24, <2>1, QuietStep DEF ParseChunk
<1>25. ASSUME ParseContinues PROVE Kept
  <2>1. SameHands
    BY <1>0, <1>25 DEF ParseContinues, EnqueueParse, Step, At, SameHands, RunType
  <2> QED
    BY <1>25, <2>1, EnqueueStep DEF ParseContinues, EnqueueParse
<1>26. ASSUME ParseEnds PROVE Kept
  <2>1. SameHands
    BY <1>0, <1>26 DEF ParseEnds, Step, At, SameHands, RunType
  <2> QED
    BY <1>26, <2>1, QuietStep DEF ParseEnds
<1>27. ASSUME ParseRejects PROVE Kept
  <2>1. SameHands
    BY <1>0, <1>27 DEF ParseRejects, Step, At, SameHands, RunType
  <2> QED
    BY <1>27, <2>1, QuietStep DEF ParseRejects
<1>28. ASSUME ParseRejectsDraft PROVE Kept
  <2>1. SameHands
    BY <1>0, <1>28 DEF ParseRejectsDraft, Step, At, SameHands, RunType
  <2> QED
    BY <1>28, <2>1, QuietStep DEF ParseRejectsDraft
<1>29. ASSUME IngestStart PROVE Kept
  <2>1. OnlyRun("submit") /\ run'["submit"].pc # "idle"
    BY <1>0, <1>29 DEF IngestStart, Starts, Step, OnlyRun, RunType
  <2> QED
    BY <1>29, <2>1, TakeStep DEF IngestStart, Starts
<1>30. ASSUME NEW room \in 0 .. ChunkSize, IngestReads(room) PROVE Kept
  <2>0. \E r : r.pc # "idle" /\ run' = [run EXCEPT !["submit"] = r]
    <3>1. CASE Unsent = {}
      BY <1>30, <3>1 DEF IngestReads, Stop
    <3>2. CASE Unsent # {} /\ room = 0
      BY <1>30, <3>2 DEF IngestReads, Stop
    <3>3. CASE Unsent # {} /\ room > 0
      <4> DEFINE chunk == FirstOf(ChunkSize, Unsent)
                 r == [pc |-> "chunk", rows |-> FirstOf(room, chunk),
                       stop |-> IF room < Cardinality(chunk) THEN "pool_full" ELSE "none"]
      <4>1. room # 0
        BY <3>3
      <4>2. run' = [run EXCEPT !["submit"] = r]
        BY <1>30, <3>3, <4>1 DEF IngestReads
      <4>3. r.pc # "idle"
        OBVIOUS
      <4> HIDE DEF r
      <4> QED
        BY <4>2, <4>3
    <3> QED
      BY <3>1, <3>2, <3>3
  <2>1. SameHands
    BY <1>0, <1>30, <2>0 DEF IngestReads, At, SameHands
  <2> QED
    BY <1>30, <2>1, QuietStep DEF IngestReads
<1>31. ASSUME IngestFindsClosed PROVE Kept
  <2>1. SameHands
    BY <1>0, <1>31 DEF IngestFindsClosed, Stop, At, SameHands, RunType
  <2> QED
    BY <1>31, <2>1, QuietStep DEF IngestFindsClosed
<1>32. ASSUME IngestChunk PROVE Kept
  <2>1. SameHands
    BY <1>0, <1>32 DEF IngestChunk, AfterChunk, Step, Stop, At, SameHands, RunType
  <2> QED
    BY <1>32, <2>1, QuietStep DEF IngestChunk
<1>33. ASSUME IngestRolledBack PROVE Kept
  <2>1. SameHands
    BY <1>0, <1>33 DEF IngestRolledBack, Step, At, SameHands, RunType
  <2> QED
    BY <1>33, <2>1, QuietStep DEF IngestRolledBack
<1>34. ASSUME Finalize PROVE Kept
  <2>1. SameHands
    BY <1>0, <1>34 DEF Finalize, Step, At, SameHands, RunType
  <2> QED
    BY <1>34, <2>1, QuietStep DEF Finalize
<1>35. ASSUME NEW j \in Jobs, JobEnds(j) PROVE Kept
  <2>1. OnlyRun(j) /\ run'[j].pc = "idle"
    BY <1>0, <1>35 DEF JobEnds, OnlyRun, Idle
  <2> QED
    BY <1>35, <2>1, LeaveStep DEF JobEnds
<1>36. ASSUME NEW j \in Jobs, JobThrows(j) PROVE Kept
  <2>1. OnlyRun(j) /\ run'[j].pc = "idle"
    BY <1>0, <1>36 DEF JobThrows, OnlyRun, Idle
  <2> QED
    BY <1>36, <2>1, LeaveStep DEF JobThrows
<1>37. ASSUME NEW j \in Jobs, WorkerDies(j) PROVE Kept
  <2>1. OnlyRun(j) /\ run'[j].pc = "idle"
    BY <1>0, <1>37 DEF WorkerDies, OnlyRun, Idle
  <2> QED
    BY <1>37, <2>1, LeaveStep DEF WorkerDies
<1>38. ASSUME UNCHANGED vars PROVE Kept
  BY <1>38, QuietStep DEF vars, SameHands
<1> HIDE DEF Kept
<1>39. Kept
  BY <1>1, <1>2, <1>3, <1>4, <1>5, <1>6, <1>7, <1>8, <1>9,
     <1>10, <1>11, <1>12, <1>13, <1>14, <1>15, <1>16, <1>17, <1>18,
     <1>19, <1>20, <1>21, <1>22, <1>23, <1>24, <1>25, <1>26, <1>27,
     <1>28, <1>29, <1>30, <1>31, <1>32, <1>33, <1>34, <1>35, <1>36,
     <1>37, <1>38, Zenon
  DEF Next, JobStep, RequestStep, Arrival
<1> QED
  BY <1>39 DEF Kept

(* The three jobs of an upload use the queue as its board allows, so what  *)
(* JobQueue implements is all they rely on, and a handler that ends can    *)
(* always report it: it still holds its job.                               *)
THEOREM UploadUsesBoard == Spec => Board!Spec /\ []InHand
<1>1. Init => Board!Init /\ InHand
  BY DEF Init, Board!Init, InHand, Idle
<1>2. TypeOK /\ InHand /\ [Next]_vars => InHand' /\ [Board!Next]_(Board!vars)
  BY BoardStep DEF BoardMove
<1>3. Spec => []TypeOK
  BY Invariance, PTL DEF DraftInv
<1> QED
  BY <1>1, <1>2, <1>3, PTL DEF Spec, Board!Spec
=============================================================================
