--------------------------- MODULE NodeSync_proofs ---------------------------
(***************************************************************************)
(* Theorems about NodeSync: types, what a cleared mark means, that inbounds*)
(* which the panel has not imported are left alone, that a clean node has  *)
(* the panel's rows, and that a merge keeps the panel's edits.             *)
(***************************************************************************)
EXTENDS NodeSync, TLAPS

-----------------------------------------------------------------------------
(* Types *)

Op == {"enable", "client", "delete"}

\* A request under way has a tag and the rows its kind calls for.
Shaped(j) ==
  j.pc # "idle" =>
    /\ j.tag \in Tag /\ j.op \in Op /\ j.old \in Content
    /\ j.op # "delete" => j.new \in Content

JobOK == job \in [Editor -> JobType] /\ \A e \in Editor : Shaped(job[e])

SyncOK == sync \in SyncType /\ (sync.pc \in {"pushed", "swept"} => sync.tag \in Tag)

RowsOK == db \in [Tag -> Row] /\ node \in [Tag -> Row] /\ fp \in [Tag -> Row]

MarkOK == dirty \in BOOLEAN /\ dirtyAt \in Nat /\ adopted \in BOOLEAN

SetsOK ==
  /\ ids \subseteq Tag /\ edited \subseteq Tag
  /\ native \subseteq Tag /\ doubt \subseteq Tag

CountsOK == edits \in 0..MaxEdits /\ faults \in 0..MaxFaults

Types == JobOK /\ SyncOK /\ RowsOK /\ MarkOK /\ SetsOK /\ CountsOK

\* The parts of Types cover the type invariant.
LEMMA TypesCover == Types => TypeOK
BY DEF Types, JobOK, SyncOK, RowsOK, MarkOK, SetsOK, CountsOK, TypeOK

LEMMA EmptyRows == Empty \in [Tag -> Row]
BY DEF Empty, Row

\* The idle job and the idle request have their types.
LEMMA IdleTypes == SyncIdle \in SyncType /\ JobIdle \in JobType /\ Shaped(JobIdle)
BY EmptyRows DEF SyncIdle, SyncType, JobIdle, JobType, Shaped, Row

\* A row is a content unless it is missing.
LEMMA RowCases == \A row \in Row : row # None <=> row \in Content
BY NodeSyncAssumption DEF Row, Content

\* The program counters that say nothing of sync.tag.
FreePC == {"idle", "rows", "list", "push", "sweep", "fetch", "flag", "merge", "stamp"}

\* The sync job starts afresh at some step.
LEMMA FreshSync ==
  ASSUME NEW pc \in FreePC
  PROVE  /\ [SyncIdle EXCEPT !.pc = pc] \in SyncType
         /\ [SyncIdle EXCEPT !.pc = pc].pc = pc
         /\ \A n \in Nat, b \in BOOLEAN :
              /\ [SyncIdle EXCEPT !.pc = pc, !.at = n, !.adopted = b] \in SyncType
              /\ [SyncIdle EXCEPT !.pc = pc, !.at = n, !.adopted = b].pc = pc
<1>1. ASSUME NEW s \in SyncType, NEW n \in Nat, NEW b \in BOOLEAN
      PROVE  /\ [s EXCEPT !.pc = pc] \in SyncType
             /\ [s EXCEPT !.pc = pc].pc = pc
             /\ [s EXCEPT !.pc = pc, !.at = n, !.adopted = b] \in SyncType
             /\ [s EXCEPT !.pc = pc, !.at = n, !.adopted = b].pc = pc
  <2>1. pc \in {"idle", "rows", "list", "push", "pushed", "sweep", "swept",
                "fetch", "flag", "merge", "stamp"}
    BY DEF FreePC
  <2> HIDE DEF FreePC
  <2>2. [s EXCEPT !.pc = pc] \in SyncType
    BY <2>1 DEF SyncType
  <2>3. [s EXCEPT !.pc = pc, !.at = n, !.adopted = b] \in SyncType
    BY <2>1 DEF SyncType
  <2>4. [s EXCEPT !.pc = pc].pc = pc /\ [s EXCEPT !.pc = pc, !.at = n, !.adopted = b].pc = pc
    BY DEF SyncType
  <2>5. QED
    BY <2>2, <2>3, <2>4
<1>2. 0 \in Nat /\ FALSE \in BOOLEAN
  OBVIOUS
<1>3. QED
  BY <1>1, <1>2, IdleTypes

\* It starts to merge a snapshot.
LEMMA FreshSnap ==
  ASSUME NEW rows \in [Tag -> Row]
  PROVE  [SyncIdle EXCEPT !.pc = "flag", !.snap = rows] \in SyncType
<1>1. \A s \in SyncType : [s EXCEPT !.pc = "flag", !.snap = rows] \in SyncType
  BY DEF SyncType
<1>2. QED
  BY <1>1, IdleTypes

\* What the sync job is when it starts afresh at some step, with a snapshot or not.
LEMMA IdlePC ==
  /\ SyncIdle.pc = "idle" /\ SyncIdle.adopted = FALSE
  /\ [SyncIdle EXCEPT !.pc = "flag"].pc = "flag"
  /\ [SyncIdle EXCEPT !.pc = "flag"].adopted = FALSE
  /\ \A rows : /\ [SyncIdle EXCEPT !.pc = "flag", !.snap = rows].pc = "flag"
               /\ [SyncIdle EXCEPT !.pc = "flag", !.snap = rows].adopted = FALSE
BY DEF SyncIdle

LEMMA FetchSync ==
  ASSUME Fetch
  PROVE  sync'.pc \in {"flag", "idle"} /\ sync'.adopted = FALSE
<1>1. \/ sync' = SyncIdle
      \/ sync' = [SyncIdle EXCEPT !.pc = "flag"]
      \/ sync' = [SyncIdle EXCEPT !.pc = "flag", !.snap = node]
  BY DEF Fetch
<1>2. QED
  BY <1>1, IdlePC

LEMMA IdleFields ==
  ASSUME NEW s, NEW pc, NEW rows, NEW at, NEW was,
         \/ s = SyncIdle
         \/ s = [SyncIdle EXCEPT !.pc = pc]
         \/ s = [SyncIdle EXCEPT !.pc = pc, !.snap = rows]
         \/ s = [SyncIdle EXCEPT !.pc = pc, !.at = at, !.adopted = was]
  PROVE  s.rows = Empty /\ s.todo = {} /\ (s.adopted = FALSE \/ s.adopted = was)
<1>1. CASE s = SyncIdle
  BY <1>1 DEF SyncIdle
<1>2. CASE s = [SyncIdle EXCEPT !.pc = pc]
  BY <1>2 DEF SyncIdle
<1>3. CASE s = [SyncIdle EXCEPT !.pc = pc, !.snap = rows]
  BY <1>3 DEF SyncIdle
<1>4. CASE s = [SyncIdle EXCEPT !.pc = pc, !.at = at, !.adopted = was]
  BY <1>4 DEF SyncIdle
<1>5. QED
  BY <1>1, <1>2, <1>3, <1>4

\* What an edit leaves as the row of its tag is a row.
LEMMA CommittedRow ==
  ASSUME Types, NEW e \in Editor, job[e].pc # "idle"
  PROVE  Committed(job[e]) \in Row
<1>1. job[e] \in JobType /\ Shaped(job[e]) /\ db \in [Tag -> Row]
  BY DEF Types, JobOK, RowsOK
<1>2. CASE job[e].op # "enable"
  BY <1>1, <1>2 DEF Committed, JobType
<1>3. CASE job[e].op = "enable"
  <2>1. job[e].new \in Content /\ db[job[e].tag] \in Row
    BY <1>1, <1>3 DEF Shaped
  <2>2. db[job[e].tag] # None => [db[job[e].tag] EXCEPT !.on = job[e].new.on] \in Content
    BY <2>1, RowCases DEF Content
  <2>3. QED
    BY <1>3, <2>2 DEF Committed, Row
<1>4. QED
  BY <1>2, <1>3

\* A request leaves a row at the node.
LEMMA AppliedRow ==
  ASSUME Types, NEW e \in Editor, job[e].pc # "idle"
  PROVE  Applied(job[e]) \in Row
<1>1. job[e] \in JobType /\ Shaped(job[e]) /\ node \in [Tag -> Row]
  BY DEF Types, JobOK, RowsOK
<1>2. CASE job[e].op # "client"
  BY <1>1, <1>2 DEF Applied, JobType
<1>3. CASE job[e].op = "client"
  <2>1. job[e].new \in Content /\ job[e].old \in Content /\ node[job[e].tag] \in Row
    BY <1>1, <1>3 DEF Shaped
  <2>2. node[job[e].tag] # None =>
          [node[job[e].tag] EXCEPT !.clients = (@ \ (job[e].old.clients \ job[e].new.clients))
              \cup (job[e].new.clients \ job[e].old.clients)] \in Content
    BY <2>1, RowCases DEF Content
  <2>3. QED
    BY <1>3, <2>2 DEF Applied, Row
<1>4. QED
  BY <1>2, <1>3

\* An edit makes a row of a row.
LEMMA EditedRow ==
  ASSUME NEW row \in Content, NEW op \in Op, NEW new \in Edited(op, row)
  PROVE  new \in Row /\ (op # "delete" => new \in Content)
<1>1. CASE op = "enable"
  BY <1>1 DEF Edited, Content, Row
<1>2. CASE op = "client"
  BY <1>2 DEF Edited, Content, Row
<1>3. CASE op = "delete"
  BY <1>3 DEF Edited, Row
<1>4. QED
  BY <1>1, <1>2, <1>3 DEF Op

\* A step that counts as a fault stays within its bound.
LEMMA FaultCount ==
  ASSUME CountsOK, Fault, edits' = edits
  PROVE  CountsOK'
BY NodeSyncAssumption DEF CountsOK, Fault

LEMMA EditCount ==
  ASSUME CountsOK, edits < MaxEdits, edits' = edits + 1, faults' = faults
  PROVE  CountsOK'
BY NodeSyncAssumption DEF CountsOK

\* An edit of the database keeps the types of what it touches.
LEMMA WriteTypes ==
  ASSUME Types, NEW t \in Tag, NEW row \in Row, NEW except, Write(t, row, except),
         Mark(t), UNCHANGED <<node, fp, adopted, ids>>
  PROVE  RowsOK' /\ MarkOK' /\ SetsOK'
<1>1. RowsOK'
  BY DEF Types, RowsOK, Write
<1>2. MarkOK'
  BY DEF Types, MarkOK, Mark
<1>3. SetsOK'
  BY DEF Types, SetsOK, Write, Mark
<1>4. QED
  BY <1>1, <1>2, <1>3

LEMMA AddTypes ==
  ASSUME Types, NEW t \in Tag, NEW row \in Content, Add(t, row)
  PROVE  Types'
<1> USE DEF Types, Add, cacheVars
<1>1. JobOK' /\ SyncOK'
  BY DEF JobOK, SyncOK
<1>2. CountsOK'
  BY EditCount
<1>3. CASE row.on
  BY <1>1, <1>2, <1>3, WriteTypes, RowCases DEF Row
<1>4. CASE ~row.on
  <2>1. RowsOK'
    BY DEF RowsOK, Write, Row
  <2>2. MarkOK'
    BY <1>4 DEF MarkOK
  <2>3. SetsOK'
    BY <1>4 DEF SetsOK, Write
  <2>4. QED
    BY <1>1, <1>2, <2>1, <2>2, <2>3
<1>5. QED
  BY <1>3, <1>4

LEMMA UpdateTypes ==
  ASSUME Types, NEW t \in Tag, NEW row \in Content, Update(t, row)
  PROVE  Types'
<1> USE DEF Types, Update, cacheVars
<1>1. JobOK' /\ SyncOK'
  BY DEF JobOK, SyncOK
<1>2. CountsOK'
  BY EditCount
<1>3. RowsOK' /\ MarkOK' /\ SetsOK'
  BY WriteTypes DEF Row
<1>4. QED
  BY <1>1, <1>2, <1>3

LEMMA ReadTypes ==
  ASSUME Types, NEW e \in Editor, NEW t \in Tag, NEW op \in Op, Read(e, t, op)
  PROVE  Types'
<1> USE DEF Types, Read, rowVars, cacheVars
<1>1. RowsOK' /\ MarkOK' /\ SetsOK' /\ SyncOK'
  BY DEF RowsOK, MarkOK, SetsOK, SyncOK
<1>2. CountsOK'
  BY EditCount
<1>3. db[t] \in Content
  BY RowCases DEF RowsOK
<1>4. PICK new \in Edited(op, db[t]) :
        job' = [job EXCEPT ![e] =
                  [pc |-> "commit", op |-> op, tag |-> t, old |-> db[t], new |-> new]]
  BY DEF Read
<1>5. new \in Row /\ (op # "delete" => new \in Content)
  BY <1>3, EditedRow
<1>6. [pc |-> "commit", op |-> op, tag |-> t, old |-> db[t], new |-> new] \in JobType
  BY <1>3, <1>5 DEF JobType, Op, Row
<1>7. Shaped([pc |-> "commit", op |-> op, tag |-> t, old |-> db[t], new |-> new])
  BY <1>3, <1>5 DEF Shaped
<1>8. JobOK'
  BY <1>4, <1>6, <1>7 DEF JobOK
<1>9. QED
  BY <1>1, <1>2, <1>8

\* A request that goes on to its next step, or ends, keeps its type.
LEMMA JobMoves ==
  ASSUME JobOK, NEW e \in Editor,
         \/ job' = [job EXCEPT ![e] = JobIdle]
         \/ /\ job[e].pc # "idle"
            /\ \E pc \in {"send", "record"} :
                 job' = [job EXCEPT ![e] = [job[e] EXCEPT !.pc = pc]]
  PROVE  JobOK'
<1>1. CASE job' = [job EXCEPT ![e] = JobIdle]
  BY <1>1, IdleTypes DEF JobOK
<1>2. ASSUME job[e].pc # "idle", NEW pc \in {"send", "record"},
             job' = [job EXCEPT ![e] = [job[e] EXCEPT !.pc = pc]]
      PROVE  JobOK'
  <2>1. [job[e] EXCEPT !.pc = pc] \in JobType
    BY DEF JobOK, JobType
  <2>2. Shaped([job[e] EXCEPT !.pc = pc])
    BY <1>2 DEF JobOK, Shaped, JobType
  <2>3. QED
    BY <1>2, <2>1, <2>2 DEF JobOK
<1>3. QED
  BY <1>1, <1>2

LEMMA CommitTypes ==
  ASSUME Types, NEW e \in Editor, Commit(e)
  PROVE  Types'
<1> USE DEF Types, Commit, cacheVars
<1>1. job[e].tag \in Tag /\ Committed(job[e]) \in Row
  BY CommittedRow DEF JobOK, Shaped
<1>2. RowsOK' /\ MarkOK' /\ SetsOK'
  BY <1>1, WriteTypes
<1>3. SyncOK' /\ CountsOK'
  BY DEF SyncOK, CountsOK
<1>4. JobOK'
  BY JobMoves
<1>5. QED
  BY <1>2, <1>3, <1>4

LEMMA SendTypes ==
  ASSUME Types, NEW e \in Editor, Send(e)
  PROVE  Types'
<1> USE DEF Types, Send, rowVars, cacheVars
<1>1. job[e].tag \in Tag /\ Applied(job[e]) \in Row
  BY AppliedRow DEF JobOK, Shaped
<1>2. RowsOK'
  BY <1>1 DEF RowsOK
<1>3. MarkOK' /\ SyncOK' /\ CountsOK'
  BY DEF MarkOK, SyncOK, CountsOK
<1>4. SetsOK'
  BY <1>1 DEF SetsOK, Resolved, Present
<1>5. JobOK'
  <2>1. CASE Accepted(job[e])
    <3>1. job' = [job EXCEPT ![e] = [job[e] EXCEPT !.pc = "record"]]
      BY <2>1
    <3>2. QED
      BY <3>1, JobMoves
  <2>2. CASE ~Accepted(job[e])
    BY <2>2, JobMoves
  <2>3. QED
    BY <2>1, <2>2
<1>6. QED
  BY <1>2, <1>3, <1>4, <1>5

LEMMA SendLostTypes ==
  ASSUME Types, NEW e \in Editor, SendLost(e)
  PROVE  Types'
<1> USE DEF Types, SendLost, rowVars, cacheVars
<1>1. RowsOK' /\ MarkOK' /\ SetsOK' /\ SyncOK'
  BY DEF RowsOK, MarkOK, SetsOK, SyncOK
<1>2. JobOK' /\ CountsOK'
  BY JobMoves, FaultCount
<1>3. QED
  BY <1>1, <1>2

LEMMA RecordTypes ==
  ASSUME Types, NEW e \in Editor, Record(e)
  PROVE  Types'
<1> USE DEF Types, Record, rowVars
<1>1. job[e].tag \in Tag /\ job[e].new \in Row /\ job[e].op \in Op
  BY DEF JobOK, Shaped, JobType
<1>2. RowsOK'
  BY <1>1 DEF RowsOK, Advance
<1>3. MarkOK' /\ SyncOK' /\ CountsOK'
  BY DEF MarkOK, SyncOK, CountsOK
<1>4. SetsOK'
  BY <1>1 DEF SetsOK, Op
<1>5. JobOK'
  BY JobMoves
<1>6. QED
  BY <1>2, <1>3, <1>4, <1>5

LEMMA AnswerLostTypes ==
  ASSUME Types, NEW e \in Editor, AnswerLost(e)
  PROVE  Types'
<1> USE DEF Types, AnswerLost, rowVars, cacheVars
<1>1. RowsOK' /\ MarkOK' /\ SyncOK'
  BY DEF RowsOK, MarkOK, SyncOK
<1>2. SetsOK'
  BY DEF SetsOK, JobOK, Shaped
<1>3. JobOK' /\ CountsOK'
  BY JobMoves, FaultCount
<1>4. QED
  BY <1>1, <1>2, <1>3

\* A step of the sync job that changes nothing but the job itself.
SyncAlone == UNCHANGED <<rowVars, node, adopted, cacheVars, job, edits, faults, native, doubt>>

LEMMA SyncAloneTypes ==
  ASSUME Types, SyncAlone, SyncOK'
  PROVE  Types'
<1>1. JobOK' /\ RowsOK' /\ MarkOK' /\ SetsOK' /\ CountsOK'
  BY DEF Types, SyncAlone, rowVars, cacheVars, JobOK, RowsOK, MarkOK, SetsOK, CountsOK
<1>2. QED
  BY <1>1 DEF Types

LEMMA BeginTypes ==
  ASSUME Types, Begin
  PROVE  Types'
<1> DEFINE first == IF dirty THEN "rows" ELSE "fetch"
<1>1. first \in FreePC /\ first \notin {"pushed", "swept"}
  BY DEF FreePC
<1>2. sync' = [SyncIdle EXCEPT !.pc = first, !.at = dirtyAt, !.adopted = adopted]
  BY DEF Begin
<1>3. dirtyAt \in Nat /\ adopted \in BOOLEAN
  BY DEF Types, MarkOK
<1> HIDE DEF first
<1>4. SyncOK'
  BY <1>1, <1>2, <1>3, FreshSync DEF SyncOK
<1>5. QED
  BY <1>4, SyncAloneTypes DEF SyncAlone, Begin

LEMMA LoadRowsTypes ==
  ASSUME Types, LoadRows
  PROVE  Types'
<1>1. SyncOK'
  BY DEF Types, RowsOK, SyncOK, LoadRows, SyncType
<1>2. QED
  BY <1>1, SyncAloneTypes DEF SyncAlone, LoadRows

LEMMA SkipTypes ==
  ASSUME Types, NEW t \in Tag, Skip(t)
  PROVE  Types'
<1>1. SyncOK'
  BY DEF Types, SyncOK, Skip, SyncType
<1>2. QED
  BY <1>1, SyncAloneTypes DEF SyncAlone, Skip

LEMMA EndPushTypes ==
  ASSUME Types, EndPush
  PROVE  Types'
<1>1. Unwanted \subseteq Tag
  BY DEF Types, SyncOK, SyncType, Unwanted
<1>2. SyncOK'
  BY <1>1 DEF Types, SyncOK, EndPush, SyncType
<1>3. QED
  BY <1>2, SyncAloneTypes DEF SyncAlone, EndPush

LEMMA ReadFlagTypes ==
  ASSUME Types, ReadFlag
  PROVE  Types'
<1>1. SyncOK'
  BY IdleTypes DEF Types, SyncOK, ReadFlag, SyncType, SyncIdle
<1>2. QED
  BY <1>1, SyncAloneTypes DEF SyncAlone, ReadFlag

LEMMA ListTypes ==
  ASSUME Types, List
  PROVE  Types'
<1> USE DEF Types, List, rowVars
<1>1. ids' \subseteq Tag /\ Present(node) \subseteq Tag /\ Present(sync.rows) \subseteq Tag
  BY DEF Present
<1>2. SyncOK'
  BY <1>1 DEF SyncOK, SyncType
<1>3. SetsOK'
  BY <1>1 DEF SetsOK
<1>4. RowsOK' /\ MarkOK' /\ JobOK'
  BY DEF RowsOK, MarkOK, JobOK
<1>5. CountsOK'
  BY FaultCount DEF CountsOK
<1>6. QED
  BY <1>2, <1>3, <1>4, <1>5

LEMMA ListFailedTypes ==
  ASSUME Types, ListFailed
  PROVE  Types'
<1> USE DEF Types, ListFailed, rowVars, cacheVars
<1>1. SyncOK'
  BY FreshSync DEF SyncOK, FreePC
<1>2. JobOK' /\ RowsOK' /\ MarkOK' /\ SetsOK'
  BY DEF JobOK, RowsOK, MarkOK, SetsOK
<1>3. CountsOK'
  BY FaultCount
<1>4. QED
  BY <1>1, <1>2, <1>3

LEMMA PushTypes ==
  ASSUME Types, NEW t \in Tag, Push(t)
  PROVE  Types'
<1> USE DEF Types, Push, rowVars
<1>1. SyncOK'
  BY DEF SyncOK, SyncType
<1>2. RowsOK'
  BY DEF RowsOK, SyncOK, SyncType
<1>3. SetsOK'
  BY DEF SetsOK, Resolved, Present
<1>4. JobOK' /\ MarkOK' /\ CountsOK'
  BY DEF JobOK, MarkOK, CountsOK
<1>5. QED
  BY <1>1, <1>2, <1>3, <1>4

LEMMA SweepTypes ==
  ASSUME Types, NEW t \in Tag, Sweep(t)
  PROVE  Types'
<1> USE DEF Types, Sweep, rowVars
<1>1. SyncOK'
  <2>1. sync \in SyncType
    BY DEF SyncOK
  <2>2. CASE t \in Resolved(t)
    <3>1. sync' = [sync EXCEPT !.pc = "swept", !.tag = t, !.todo = @ \ {t}]
      BY <2>2
    <3>2. QED
      BY <2>1, <3>1 DEF SyncOK, SyncType
  <2>3. CASE t \notin Resolved(t)
    <3>1. sync' = [sync EXCEPT !.todo = @ \ {t}]
      BY <2>3
    <3>2. QED
      BY <2>1, <3>1 DEF SyncOK, SyncType
  <2>4. QED
    BY <2>2, <2>3
<1>2. RowsOK'
  BY DEF RowsOK, Row
<1>3. SetsOK'
  BY DEF SetsOK, Resolved, Present
<1>4. JobOK' /\ MarkOK' /\ CountsOK'
  BY DEF JobOK, MarkOK, CountsOK
<1>5. QED
  BY <1>1, <1>2, <1>3, <1>4

LEMMA AnsweredTypes ==
  ASSUME Types, Answered
  PROVE  Types'
<1> USE DEF Types, Answered, rowVars
<1>1. sync.tag \in Tag /\ sync.rows \in [Tag -> Row]
  BY DEF SyncOK, SyncType
<1>2. SyncOK'
  <2>1. sync \in SyncType
    BY DEF SyncOK
  <2>2. PICK pc \in {"push", "sweep"} : sync' = [sync EXCEPT !.pc = pc, !.tag = None]
    OBVIOUS
  <2> HIDE DEF Types, Answered
  <2>3. QED
    BY <2>1, <2>2 DEF SyncOK, SyncType
<1>3. RowsOK'
  BY <1>1 DEF RowsOK, Row
<1>4. SetsOK'
  BY <1>1 DEF SetsOK
<1>5. JobOK' /\ MarkOK' /\ CountsOK'
  BY DEF JobOK, MarkOK, CountsOK
<1>6. QED
  BY <1>2, <1>3, <1>4, <1>5

LEMMA SyncErrorTypes ==
  ASSUME Types, SyncError
  PROVE  Types'
<1> USE DEF Types, SyncError, rowVars, cacheVars
<1>1. SyncOK'
  <2>1. sync \in SyncType
    BY DEF SyncOK
  <2>2. CASE sync.pc \in {"push", "sweep"}
    <3>1. PICK t \in sync.todo : sync' = [sync EXCEPT !.err = TRUE, !.todo = @ \ {t}]
      BY <2>2
    <3>2. QED
      BY <2>1, <2>2, <3>1 DEF SyncOK, SyncType
  <2>3. CASE sync.pc \in {"pushed", "swept"}
    <3>1. PICK pc \in {"push", "sweep"} :
            sync' = [sync EXCEPT !.pc = pc, !.err = TRUE, !.tag = None]
      BY <2>3
    <3>2. QED
      BY <2>1, <3>1 DEF SyncOK, SyncType
  <2>4. QED
    BY <2>2, <2>3
<1>2. RowsOK' /\ MarkOK' /\ JobOK'
  BY DEF RowsOK, MarkOK, JobOK
<1>3. SetsOK'
  BY DEF SetsOK, SyncOK
<1>4. CountsOK'
  BY FaultCount DEF CountsOK
<1>5. QED
  BY <1>1, <1>2, <1>3, <1>4

LEMMA ClearTypes ==
  ASSUME Types, Clear
  PROVE  Types'
<1> USE DEF Types, Clear, cacheVars
<1>1. SyncOK'
  BY FreshSync DEF SyncOK, FreePC
<1>2. RowsOK' /\ MarkOK' /\ JobOK' /\ SetsOK' /\ CountsOK'
  BY DEF RowsOK, MarkOK, JobOK, SetsOK, CountsOK
<1>3. QED
  BY <1>1, <1>2

LEMMA FetchTypes ==
  ASSUME Types, Fetch
  PROVE  Types'
<1> USE DEF Types, Fetch, rowVars, cacheVars
<1>1. SyncOK'
  <2>1. sync' \in SyncType
    <3>1. node \in [Tag -> Row] /\ "flag" \in FreePC
      BY DEF RowsOK, FreePC
    <3>2. \/ sync' = SyncIdle
          \/ sync' = [SyncIdle EXCEPT !.pc = "flag"]
          \/ sync' = [SyncIdle EXCEPT !.pc = "flag", !.snap = node]
      BY DEF Fetch
    <3> HIDE DEF Types, Fetch
    <3>3. QED
      BY <3>1, <3>2, IdleTypes, FreshSync, FreshSnap
  <2>2. sync'.pc \in {"flag", "idle"}
    BY FetchSync
  <2>3. QED
    BY <2>1, <2>2 DEF SyncOK
<1>2. RowsOK' /\ MarkOK' /\ JobOK'
  BY DEF RowsOK, MarkOK, JobOK
<1>3. SetsOK'
  BY DEF SetsOK
<1>4. CountsOK'
  BY FaultCount DEF CountsOK
<1>5. QED
  BY <1>1, <1>2, <1>3, <1>4

LEMMA MergeTypes ==
  ASSUME Types, Merge
  PROVE  Types'
<1> USE DEF Types, Merge, cacheVars
<1>1. Merged \in [Tag -> Row]
  BY DEF Merged, RowsOK, SyncOK, SyncType
<1>2. SyncOK'
  BY DEF SyncOK, SyncType, Present
<1>3. RowsOK'
  BY <1>1 DEF RowsOK
<1>4. SetsOK'
  BY DEF SetsOK
<1>5. JobOK' /\ MarkOK' /\ CountsOK'
  BY DEF JobOK, MarkOK, CountsOK
<1>6. QED
  BY <1>2, <1>3, <1>4, <1>5

LEMMA StampTypes ==
  ASSUME Types, Stamp
  PROVE  Types'
<1> USE DEF Types, Stamp, rowVars
<1>1. SyncOK'
  BY IdleTypes DEF SyncOK, SyncIdle
<1>2. RowsOK'
  BY DEF RowsOK, SyncOK, SyncType
<1>3. MarkOK' /\ SetsOK' /\ JobOK' /\ CountsOK'
  BY DEF MarkOK, SetsOK, JobOK, CountsOK
<1>4. QED
  BY <1>1, <1>2, <1>3

LEMMA NodeEditTypes ==
  ASSUME Types, NEW t \in Tag, NEW row \in NodeRow, NodeEdit(t, row)
  PROVE  Types'
<1> USE DEF Types, NodeEdit, rowVars, cacheVars
<1>1. row \in Row
  BY DEF NodeRow, Row, Content
<1>2. RowsOK'
  BY <1>1 DEF RowsOK
<1>3. SetsOK' /\ SyncOK' /\ MarkOK' /\ JobOK'
  BY DEF SetsOK, SyncOK, MarkOK, JobOK
<1>4. CountsOK'
  BY FaultCount
<1>5. QED
  BY <1>2, <1>3, <1>4

LEMMA RestartTypes ==
  ASSUME Types, Restart
  PROVE  Types'
<1> USE DEF Types, Restart, rowVars
<1>1. SyncOK' /\ JobOK'
  BY IdleTypes DEF SyncOK, SyncIdle, JobOK
<1>2. RowsOK' /\ SetsOK' /\ MarkOK'
  BY EmptyRows DEF RowsOK, SetsOK, MarkOK
<1>3. CountsOK'
  BY FaultCount
<1>4. QED
  BY <1>1, <1>2, <1>3

LEMMA TypesInit == Init => Types
<1> SUFFICES ASSUME Init PROVE Types
  OBVIOUS
<1> USE DEF Init
<1>1. JobOK /\ SyncOK
  BY IdleTypes DEF JobOK, SyncOK, SyncIdle
<1>2. RowsOK
  <2>1. [on |-> TRUE, clients |-> {}] \in Row /\ None \in Row
    BY DEF Row, Content
  <2>2. node \in [Tag -> Row]
    BY <2>1
  <2>3. QED
    BY <2>2, EmptyRows DEF RowsOK
<1>3. MarkOK /\ CountsOK
  <2>1. dirty = FALSE /\ dirtyAt = 0 /\ adopted = FALSE /\ edits = 0 /\ faults = 0
    BY DEF Init
  <2> HIDE DEF Init
  <2>2. MarkOK
    BY <2>1 DEF MarkOK
  <2>3. CountsOK
    BY <2>1, NodeSyncAssumption DEF CountsOK
  <2>4. QED
    BY <2>2, <2>3
<1>4. SetsOK
  BY DEF SetsOK, Present
<1>5. QED
  BY <1>1, <1>2, <1>3, <1>4 DEF Types

LEMMA TypesStep == Types /\ [Next]_vars => Types'
<1> SUFFICES ASSUME Types, [Next]_vars PROVE Types'
  OBVIOUS
<1>1. CASE Edit
  <2>1. ASSUME NEW t \in Tag, NEW on \in BOOLEAN, Add(t, [on |-> on, clients |-> {}])
        PROVE  Types'
    <3>1. [on |-> on, clients |-> {}] \in Content
      BY DEF Content
    <3>2. QED
      BY <2>1, <3>1, AddTypes
  <2>2. QED
    BY <1>1, <2>1, UpdateTypes, ReadTypes DEF Edit, Op
<1>2. ASSUME NEW e \in Editor, JobStep(e)
      PROVE  Types'
  BY <1>2, CommitTypes, SendTypes, SendLostTypes, RecordTypes, AnswerLostTypes DEF JobStep
<1>3. CASE SyncStep
  BY <1>3, BeginTypes, LoadRowsTypes, ListTypes, ListFailedTypes, SkipTypes, PushTypes,
     SweepTypes, EndPushTypes, AnsweredTypes, SyncErrorTypes, ClearTypes, FetchTypes,
     ReadFlagTypes, MergeTypes, StampTypes DEF SyncStep
<1>4. CASE (\E t \in Tag, row \in NodeRow : NodeEdit(t, row)) \/ Restart
  BY <1>4, NodeEditTypes, RestartTypes
<1>5. CASE UNCHANGED vars
  BY <1>5 DEF vars, Types, JobOK, SyncOK, RowsOK, MarkOK, SetsOK, CountsOK
<1>6. QED
  BY <1>1, <1>2, <1>3, <1>4, <1>5 DEF Next

\* Types hold for any inbounds, clients, requests and numbers of faults.
THEOREM TypeCorrect == Spec => []TypeOK
<1>1. Spec => []Types
  BY TypesInit, TypesStep, PTL DEF Spec
<1>2. QED
  BY <1>1, TypesCover, PTL

-----------------------------------------------------------------------------
(* A cleared mark *)

Reconciling == sync.pc \in {"rows", "list", "push", "pushed", "sweep", "swept"}

\* While the job reconciles, its stamp is no later than the mark's, and if it is
\* the mark's, the rows that it has loaded are what the marked edits wrote.
MarkInv ==
  Reconciling =>
    /\ sync.at <= dirtyAt
    /\ dirtyAt = sync.at /\ sync.pc # "rows" => \A t \in edited : sync.rows[t] = db[t]

LEMMA MarkInit == Init => MarkInv
BY DEF Init, MarkInv, Reconciling, SyncIdle

\* A marked edit makes the stamp later than that of a reconcile under way.
LEMMA MarkLater ==
  ASSUME Types, MarkInv, NEW t \in Tag, Mark(t), sync' = sync
  PROVE  MarkInv'
BY DEF Types, MarkOK, SyncOK, SyncType, MarkInv, Reconciling, Mark

\* A step of the reconcile leaves the rows, the stamps and the database alone.
ReconcileStep ==
  /\ UNCHANGED <<db, dirtyAt, edited>>
  /\ Reconciling /\ (sync'.pc # "rows" => sync.pc # "rows")
  /\ sync'.rows = sync.rows /\ sync'.at = sync.at

LEMMA ReconcileKeeps ==
  ASSUME MarkInv, ReconcileStep
  PROVE  MarkInv'
BY DEF MarkInv, Reconciling, ReconcileStep

LEMMA ReconcileMoves ==
  ASSUME Types,
         \/ List \/ EndPush \/ Answered \/ SyncError
         \/ \E t \in Tag : Skip(t) \/ Push(t) \/ Sweep(t)
  PROVE  ReconcileStep
<1> USE DEF ReconcileStep, Reconciling, Types, SyncOK, SyncType, rowVars
<1>1. CASE List
  BY <1>1 DEF List
<1>2. CASE EndPush
  BY <1>2 DEF EndPush
<1>3. CASE Answered
  BY <1>3 DEF Answered
<1>4. CASE SyncError
  BY <1>4 DEF SyncError
<1>5. ASSUME NEW t \in Tag, Skip(t) PROVE ReconcileStep
  BY <1>5 DEF Skip
<1>6. ASSUME NEW t \in Tag, Push(t) PROVE ReconcileStep
  BY <1>6 DEF Push
<1>7. ASSUME NEW t \in Tag, Sweep(t) PROVE ReconcileStep
  <2>1. /\ UNCHANGED <<db, dirtyAt, edited>> /\ sync.pc = "sweep"
        /\ \/ sync' = [sync EXCEPT !.pc = "swept", !.tag = t, !.todo = @ \ {t}]
           \/ sync' = [sync EXCEPT !.todo = @ \ {t}]
    BY <1>7 DEF Sweep
  <2>2. sync'.pc # "rows" /\ sync'.rows = sync.rows /\ sync'.at = sync.at
    BY <2>1
  <2>3. QED
    BY <2>1, <2>2
<1>8. QED
  BY <1>1, <1>2, <1>3, <1>4, <1>5, <1>6, <1>7

LEMMA MarkStep == Types /\ MarkInv /\ [Next]_vars => MarkInv'
<1> SUFFICES ASSUME Types, MarkInv, [Next]_vars PROVE MarkInv'
  OBVIOUS
<1>1. ASSUME NEW t \in Tag, NEW row \in Content, Add(t, row) PROVE MarkInv'
  <2>1. CASE row.on
    BY <1>1, <2>1, MarkLater DEF Add
  <2>2. CASE ~row.on
    BY <1>1, <2>2 DEF Add, Write, MarkInv, Reconciling, Types, RowsOK
  <2>3. QED
    BY <2>1, <2>2
<1>2. ASSUME NEW t \in Tag, NEW row \in Content, Update(t, row) PROVE MarkInv'
  BY <1>2, MarkLater DEF Update
<1>3. ASSUME NEW e \in Editor, Commit(e) PROVE MarkInv'
  <2>1. job[e].tag \in Tag
    BY <1>3 DEF Commit, Types, JobOK, Shaped
  <2>2. QED
    BY <1>3, <2>1, MarkLater DEF Commit
<1>4. CASE Begin
  <2>1. sync'.at = dirtyAt /\ (Reconciling' => sync'.pc = "rows")
    BY <1>4 DEF Begin, SyncIdle, Reconciling
  <2>2. QED
    BY <1>4, <2>1 DEF MarkInv, Begin, rowVars, Types, MarkOK
<1>5. CASE LoadRows
  BY <1>5 DEF LoadRows, MarkInv, Reconciling, rowVars, Types, SyncOK, SyncType
<1>6. CASE \/ List \/ EndPush \/ Answered \/ SyncError
           \/ \E t \in Tag : Skip(t) \/ Push(t) \/ Sweep(t)
  BY <1>6, ReconcileMoves, ReconcileKeeps
<1>7. CASE ListFailed \/ Clear \/ Fetch \/ ReadFlag \/ Merge \/ Stamp \/ Restart
  <2>1. sync \in SyncType
    BY DEF Types, SyncOK
  <2>2. ASSUME ListFailed \/ Clear PROVE ~Reconciling'
    <3>1. sync' = [SyncIdle EXCEPT !.pc = "fetch"]
      BY <2>2 DEF ListFailed, Clear
    <3>2. QED
      BY <3>1, FreshSync DEF Reconciling, FreePC
  <2>3. ASSUME Fetch PROVE ~Reconciling'
    BY <2>3, IdlePC DEF Fetch, Reconciling
  <2>4. ASSUME Stamp \/ Restart PROVE ~Reconciling'
    BY <2>4, IdlePC DEF Stamp, Restart, Reconciling
  <2>5. ASSUME ReadFlag \/ Merge PROVE ~Reconciling'
    <3>1. sync'.pc \in {"idle", "merge", "stamp"}
      BY <2>1, <2>5, IdlePC DEF ReadFlag, Merge, SyncType
    <3>2. QED
      BY <3>1 DEF Reconciling
  <2>6. ~Reconciling'
    BY <1>7, <2>2, <2>3, <2>4, <2>5
  <2>7. QED
    BY <2>6 DEF MarkInv
<1>8. ASSUME UNCHANGED <<db, dirtyAt, edited, sync>> PROVE MarkInv'
  BY <1>8 DEF MarkInv, Reconciling
<1>9. ASSUME NEW e \in Editor, NEW t \in Tag, NEW op \in Op, Read(e, t, op)
      PROVE  UNCHANGED <<db, dirtyAt, edited, sync>>
  BY <1>9 DEF Read, rowVars
<1>10. ASSUME NEW e \in Editor, Send(e) \/ SendLost(e) \/ Record(e) \/ AnswerLost(e)
       PROVE  UNCHANGED <<db, dirtyAt, edited, sync>>
  BY <1>10 DEF Send, SendLost, Record, AnswerLost, rowVars
<1>11. ASSUME NEW t \in Tag, NEW row \in NodeRow, NodeEdit(t, row)
       PROVE  UNCHANGED <<db, dirtyAt, edited, sync>>
  BY <1>11 DEF NodeEdit, rowVars
<1>12. CASE UNCHANGED vars
  BY <1>8, <1>12 DEF vars
<1>13. CASE Edit
  <2>1. ASSUME NEW t \in Tag, NEW on \in BOOLEAN, Add(t, [on |-> on, clients |-> {}])
        PROVE  MarkInv'
    <3>1. [on |-> on, clients |-> {}] \in Content
      BY DEF Content
    <3>2. QED
      BY <1>1, <2>1, <3>1
  <2>2. QED
    BY <1>2, <1>8, <1>9, <1>13, <2>1 DEF Edit, Op
<1>14. CASE SyncStep
  BY <1>4, <1>5, <1>6, <1>7, <1>14 DEF SyncStep
<1>15. QED
  BY <1>3, <1>7, <1>8, <1>10, <1>11, <1>12, <1>13, <1>14 DEF Next, JobStep

\* The mark is cleared only by a reconcile without an error, and what that has
\* read of every marked inbound is what the database still has.
THEOREM ClearedWhenReconciled == Spec => ClearOnlyReconciled
<1> DEFINE Cleared ==
      dirty /\ ~dirty' => ~sync.err /\ \A t \in edited : sync.rows[t] = db[t]
<1>1. ASSUME MarkInv, [Next]_vars
      PROVE  Cleared
  <2>1. CASE Clear
    BY <1>1, <2>1 DEF Clear, MarkInv, Reconciling
  <2>2. ASSUME dirty, ~dirty'
        PROVE  Clear
    BY <1>1, <2>2 DEF Next, vars, Edit, Add, Update, Read, Mark, JobStep, Commit, Send,
       SendLost, Record, AnswerLost, SyncStep, Begin, LoadRows, List, ListFailed, Skip, Push,
       Sweep, EndPush, Answered, SyncError, Fetch, ReadFlag, Merge, Stamp, NodeEdit, Restart,
       rowVars
  <2>3. QED
    BY <2>1, <2>2
<1>2. Spec => [](Types /\ MarkInv)
  BY TypesInit, TypesStep, MarkInit, MarkStep, PTL DEF Spec
<1>3. MarkInv /\ [Next]_vars => [Cleared]_vars
  BY <1>1
<1>4. QED
  BY <1>2, <1>3, PTL DEF Spec, ClearOnlyReconciled

-----------------------------------------------------------------------------
(* Inbounds that the panel has not imported *)

\* Inbounds of the node on which the panel has not been misled.
Own == native \ doubt

\* The panel has no row of a native inbound, and no request for one.
NotImported ==
  /\ \A t \in native : db[t] = None /\ sync.rows[t] = None
  /\ \A e \in Editor : job[e].pc # "idle" => job[e].tag \notin native

\* The node has it, and so has a snapshot that is not merged yet.
StillThere ==
  /\ \A t \in Own : node[t] # None
  /\ sync.pc \in {"flag", "merge"} => \A t \in Own : sync.snap[t] # None

\* An adoption has imported all of them.
NoneAfterAdoption ==
  /\ adopted \/ sync.pc = "stamp" => Own = {}
  /\ sync.adopted => adopted

\* What the reconcile has left to push is in the panel, and it sweeps only when
\* the node was adopted.
Todo ==
  /\ sync.pc \in {"push", "pushed"} => \A t \in sync.todo : sync.rows[t] # None
  /\ sync.pc \in {"sweep", "swept"} /\ sync.todo # {} => sync.adopted

NativeInv == NotImported /\ StillThere /\ NoneAfterAdoption /\ Todo

\* Own inbounds only become fewer.
LEMMA OwnShrinks ==
  ASSUME native' \subseteq native, doubt \subseteq doubt'
  PROVE  Own' \subseteq Own
BY DEF Own

\* Requests under way keep their tags.
LEMMA JobTags ==
  ASSUME JobOK, NEW e \in Editor, job[e].pc # "idle",
         \/ job' = [job EXCEPT ![e] = JobIdle]
         \/ \E pc \in {"send", "record"} : job' = [job EXCEPT ![e].pc = pc]
  PROVE  \A f \in Editor :
           job'[f].pc # "idle" => job[f].pc # "idle" /\ job'[f].tag = job[f].tag
BY DEF JobOK, JobType, JobIdle

\* A step that starts the sync job afresh keeps what is known of the panel's rows.
LEMMA FreshNotImported ==
  ASSUME Types, NotImported, UNCHANGED <<db, native>>, sync'.rows = Empty,
         UNCHANGED job \/ job' = [e \in Editor |-> JobIdle]
  PROVE  NotImported'
<1>1. native \subseteq Tag
  BY DEF Types, SetsOK
<1>2. \A t \in native' : db'[t] = None /\ sync'.rows[t] = None
  BY <1>1 DEF NotImported, Empty
<1>3. \A e \in Editor : job'[e].pc # "idle" => job'[e].tag \notin native'
  BY DEF NotImported, JobIdle
<1>4. QED
  BY <1>2, <1>3 DEF NotImported

\* So does a step of a request that leaves the panel's rows alone.
LEMMA RequestNotImported ==
  ASSUME Types, NotImported, UNCHANGED <<db, sync, native>>,
         NEW e \in Editor, job[e].pc # "idle",
         \/ job' = [job EXCEPT ![e] = JobIdle]
         \/ job' = [job EXCEPT ![e].pc = "record"]
  PROVE  NotImported'
<1>1. \A f \in Editor :
        job'[f].pc # "idle" => job[f].pc # "idle" /\ job'[f].tag = job[f].tag
  BY JobTags DEF Types
<1>2. QED
  BY <1>1 DEF NotImported

LEMMA AddNative ==
  ASSUME Types, NativeInv, NEW t \in Tag, NEW row \in Content, Add(t, row)
  PROVE  NativeInv'
<1> USE DEF NativeInv, Own, Add, rowVars, cacheVars, Types
<1>1. NotImported'
  BY DEF NotImported, RowsOK, SyncOK, SyncType, JobOK, Write, Present, SetsOK
<1>2. StillThere'
  BY DEF NotImported, StillThere, RowsOK, SyncOK, SyncType, Write
<1>3. NoneAfterAdoption'
  BY DEF NoneAfterAdoption, SyncOK, SyncType, Write
<1>4. Todo'
  BY DEF Todo, SyncOK, SyncType, Present, Unwanted
<1>5. QED
  BY <1>1, <1>2, <1>3, <1>4

LEMMA UpdateNative ==
  ASSUME Types, NativeInv, NEW t \in Tag, NEW row \in Content, Update(t, row)
  PROVE  NativeInv'
<1> USE DEF NativeInv, Own, Update, rowVars, cacheVars, Types
<1>1. NotImported'
  BY DEF NotImported, RowsOK, SyncOK, SyncType, JobOK, Write, Present, SetsOK
<1>2. StillThere'
  BY DEF NotImported, StillThere, RowsOK, SyncOK, SyncType, Write
<1>3. NoneAfterAdoption'
  BY DEF NoneAfterAdoption, SyncOK, SyncType, Write
<1>4. Todo'
  BY DEF Todo, SyncOK, SyncType, Present, Unwanted
<1>5. QED
  BY <1>1, <1>2, <1>3, <1>4

LEMMA ReadNative ==
  ASSUME Types, NativeInv, NEW e \in Editor, NEW t \in Tag, NEW op \in Op, Read(e, t, op)
  PROVE  NativeInv'
<1> USE DEF NativeInv, Own, Read, rowVars, cacheVars, Types
<1>1. NotImported'
  BY DEF NotImported, RowsOK, SyncOK, SyncType, JobOK, Write, Present, SetsOK
<1>2. StillThere'
  BY DEF NotImported, StillThere, RowsOK, SyncOK, SyncType, Write
<1>3. NoneAfterAdoption'
  BY DEF NoneAfterAdoption, SyncOK, SyncType, Write
<1>4. Todo'
  BY DEF Todo, SyncOK, SyncType, Present, Unwanted
<1>5. QED
  BY <1>1, <1>2, <1>3, <1>4

LEMMA CommitNative ==
  ASSUME Types, NativeInv, NEW e \in Editor, Commit(e)
  PROVE  NativeInv'
<1> USE DEF NativeInv, Own, Commit, rowVars, cacheVars, Types
<1>1. NotImported'
  <2>1. \A f \in Editor :
          job'[f].pc # "idle" => job[f].pc # "idle" /\ job'[f].tag = job[f].tag
    BY JobTags
  <2>2. /\ native' = native \ {job[e].tag} /\ sync' = sync
        /\ db' = [db EXCEPT ![job[e].tag] = Committed(job[e])]
    BY DEF Write
  <2>3. db \in [Tag -> Row] /\ native \subseteq Tag
    BY DEF RowsOK, SetsOK
  <2> HIDE DEF Commit
  <2>4. QED
    BY <2>1, <2>2, <2>3 DEF NotImported
<1>2. StillThere'
  BY DEF NotImported, StillThere, RowsOK, SyncOK, SyncType, Write
<1>3. NoneAfterAdoption'
  BY DEF NoneAfterAdoption, SyncOK, SyncType, Write
<1>4. Todo'
  BY DEF Todo, SyncOK, SyncType, Present, Unwanted
<1>5. QED
  BY <1>1, <1>2, <1>3, <1>4

LEMMA SendNative ==
  ASSUME Types, NativeInv, NEW e \in Editor, Send(e)
  PROVE  NativeInv'
<1> USE DEF NativeInv, Own, Send, rowVars, cacheVars, Types
<1>1. NotImported'
  <2>1. CASE Accepted(job[e])
    <3>1. job' = [job EXCEPT ![e].pc = "record"]
      BY <2>1
    <3>2. QED
      BY <3>1, RequestNotImported
  <2>2. CASE ~Accepted(job[e])
    BY <2>2, RequestNotImported
  <2>3. QED
    BY <2>1, <2>2
<1>2. StillThere'
  <2>1. job[e].tag \notin native /\ native \subseteq Tag /\ node \in [Tag -> Row]
    BY DEF NotImported, SetsOK, RowsOK
  <2>2. node' = [node EXCEPT ![job[e].tag] = Applied(job[e])] \/ node' = node
    OBVIOUS
  <2>3. \A t \in native : node'[t] = node[t]
    BY <2>1, <2>2
  <2>4. Own' \subseteq Own /\ sync' = sync /\ native' = native
    BY OwnShrinks
  <2> HIDE DEF Send
  <2>5. QED
    BY <2>3, <2>4 DEF StillThere
<1>3. NoneAfterAdoption'
  BY DEF NoneAfterAdoption, SyncOK, SyncType, Write
<1>4. Todo'
  BY DEF Todo, SyncOK, SyncType, Present, Unwanted
<1>5. QED
  BY <1>1, <1>2, <1>3, <1>4

LEMMA SendLostNative ==
  ASSUME Types, NativeInv, NEW e \in Editor, SendLost(e)
  PROVE  NativeInv'
<1> USE DEF NativeInv, Own, SendLost, rowVars, cacheVars, Types
<1>1. NotImported'
  BY RequestNotImported
<1>2. StillThere'
  BY DEF NotImported, StillThere, RowsOK, SyncOK, SyncType, Write
<1>3. NoneAfterAdoption'
  BY DEF NoneAfterAdoption, SyncOK, SyncType, Write
<1>4. Todo'
  BY DEF Todo, SyncOK, SyncType, Present, Unwanted
<1>5. QED
  BY <1>1, <1>2, <1>3, <1>4

LEMMA RecordNative ==
  ASSUME Types, NativeInv, NEW e \in Editor, Record(e)
  PROVE  NativeInv'
<1> USE DEF NativeInv, Own, Record, rowVars, cacheVars, Types
<1>1. NotImported'
  BY RequestNotImported
<1>2. StillThere'
  BY DEF NotImported, StillThere, RowsOK, SyncOK, SyncType, Write
<1>3. NoneAfterAdoption'
  BY DEF NoneAfterAdoption, SyncOK, SyncType, Write
<1>4. Todo'
  BY DEF Todo, SyncOK, SyncType, Present, Unwanted
<1>5. QED
  BY <1>1, <1>2, <1>3, <1>4

LEMMA AnswerLostNative ==
  ASSUME Types, NativeInv, NEW e \in Editor, AnswerLost(e)
  PROVE  NativeInv'
<1> USE DEF NativeInv, Own, AnswerLost, rowVars, cacheVars, Types
<1>1. NotImported'
  BY RequestNotImported
<1>2. StillThere'
  BY DEF NotImported, StillThere, RowsOK, SyncOK, SyncType, Write
<1>3. NoneAfterAdoption'
  BY DEF NoneAfterAdoption, SyncOK, SyncType, Write
<1>4. Todo'
  BY DEF Todo, SyncOK, SyncType, Present, Unwanted
<1>5. QED
  BY <1>1, <1>2, <1>3, <1>4

LEMMA BeginNative ==
  ASSUME Types, NativeInv, Begin
  PROVE  NativeInv'
<1> USE DEF NativeInv, Own, Begin, rowVars, cacheVars, Types
<1>1. NotImported'
  <2>1. sync'.rows = Empty
    BY DEF SyncIdle
  <2>2. QED
    BY <2>1, FreshNotImported
<1>2. StillThere'
  BY DEF StillThere, SyncIdle
<1>3. NoneAfterAdoption'
  BY DEF NoneAfterAdoption, SyncIdle
<1>4. Todo'
  BY DEF Todo, SyncIdle
<1>5. QED
  BY <1>1, <1>2, <1>3, <1>4

LEMMA LoadRowsNative ==
  ASSUME Types, NativeInv, LoadRows
  PROVE  NativeInv'
<1> USE DEF NativeInv, Own, LoadRows, rowVars, cacheVars, Types
<1>1. NotImported'
  BY DEF NotImported, RowsOK, SyncOK, SyncType, JobOK, Write, Present, SetsOK
<1>2. StillThere'
  BY DEF NotImported, StillThere, RowsOK, SyncOK, SyncType, Write
<1>3. NoneAfterAdoption'
  BY DEF NoneAfterAdoption, SyncOK, SyncType, Write
<1>4. Todo'
  BY DEF Todo, SyncOK, SyncType, Present, Unwanted
<1>5. QED
  BY <1>1, <1>2, <1>3, <1>4

LEMMA ListNative ==
  ASSUME Types, NativeInv, List
  PROVE  NativeInv'
<1> USE DEF NativeInv, Own, List, rowVars, cacheVars, Types
<1>1. NotImported'
  BY DEF NotImported, RowsOK, SyncOK, SyncType, JobOK, Write, Present, SetsOK
<1>2. StillThere'
  BY DEF NotImported, StillThere, RowsOK, SyncOK, SyncType, Write
<1>3. NoneAfterAdoption'
  BY DEF NoneAfterAdoption, SyncOK, SyncType, Write
<1>4. Todo'
  BY DEF Todo, SyncOK, SyncType, Present, Unwanted
<1>5. QED
  BY <1>1, <1>2, <1>3, <1>4

LEMMA EndPushNative ==
  ASSUME Types, NativeInv, EndPush
  PROVE  NativeInv'
<1> USE DEF NativeInv, Own, EndPush, rowVars, cacheVars, Types
<1>1. NotImported'
  BY DEF NotImported, RowsOK, SyncOK, SyncType, JobOK, Write, Present, SetsOK
<1>2. StillThere'
  BY DEF NotImported, StillThere, RowsOK, SyncOK, SyncType, Write
<1>3. NoneAfterAdoption'
  BY DEF NoneAfterAdoption, SyncOK, SyncType, Write
<1>4. Todo'
  BY DEF Todo, SyncOK, SyncType, Present, Unwanted
<1>5. QED
  BY <1>1, <1>2, <1>3, <1>4

LEMMA AnsweredNative ==
  ASSUME Types, NativeInv, Answered
  PROVE  NativeInv'
<1> USE DEF NativeInv, Own, Answered, rowVars, cacheVars, Types
<1>1. NotImported'
  BY DEF NotImported, RowsOK, SyncOK, SyncType, JobOK, Write, Present, SetsOK
<1>2. StillThere'
  BY DEF NotImported, StillThere, RowsOK, SyncOK, SyncType, Write
<1>3. NoneAfterAdoption'
  BY DEF NoneAfterAdoption, SyncOK, SyncType, Write
<1>4. Todo'
  BY DEF Todo, SyncOK, SyncType, Present, Unwanted
<1>5. QED
  BY <1>1, <1>2, <1>3, <1>4

LEMMA ListFailedNative ==
  ASSUME Types, NativeInv, ListFailed
  PROVE  NativeInv'
<1> USE DEF NativeInv, Own, ListFailed, rowVars, cacheVars, Types
<1>1. NotImported'
  <2>1. sync'.rows = Empty
    BY IdleFields
  <2>2. QED
    BY <2>1, FreshNotImported
<1>2. StillThere'
  BY DEF StillThere, SyncIdle
<1>3. NoneAfterAdoption'
  BY DEF NoneAfterAdoption, SyncIdle
<1>4. Todo'
  BY DEF Todo, SyncIdle
<1>5. QED
  BY <1>1, <1>2, <1>3, <1>4

LEMMA ClearNative ==
  ASSUME Types, NativeInv, Clear
  PROVE  NativeInv'
<1> USE DEF NativeInv, Own, Clear, rowVars, cacheVars, Types
<1>1. NotImported'
  <2>1. sync'.rows = Empty
    BY IdleFields
  <2>2. QED
    BY <2>1, FreshNotImported
<1>2. StillThere'
  BY DEF StillThere, SyncIdle
<1>3. NoneAfterAdoption'
  BY DEF NoneAfterAdoption, SyncIdle
<1>4. Todo'
  BY DEF Todo, SyncIdle
<1>5. QED
  BY <1>1, <1>2, <1>3, <1>4

LEMMA SyncErrorMoves ==
  ASSUME sync \in SyncType, SyncError
  PROVE  /\ sync'.pc \in {"push", "sweep"}
         /\ sync'.pc = "push" => sync.pc \in {"push", "pushed"}
         /\ sync'.pc = "sweep" => sync.pc \in {"sweep", "swept"}
         /\ sync'.rows = sync.rows /\ sync'.adopted = sync.adopted
         /\ sync'.todo \subseteq sync.todo
<1>1. CASE sync.pc \in {"push", "sweep"}
  <2>1. PICK t \in sync.todo : sync' = [sync EXCEPT !.err = TRUE, !.todo = @ \ {t}]
    BY <1>1 DEF SyncError
  <2>2. QED
    BY <1>1, <2>1 DEF SyncType
<1>2. CASE sync.pc \in {"pushed", "swept"}
  <2>1. sync' = [sync EXCEPT !.pc = IF @ = "pushed" THEN "push" ELSE "sweep",
                             !.err = TRUE, !.tag = None]
    BY <1>2 DEF SyncError
  <2>2. QED
    BY <1>2, <2>1 DEF SyncType
<1>3. QED
  BY <1>1, <1>2 DEF SyncError

LEMMA SyncErrorNative ==
  ASSUME Types, NativeInv, SyncError
  PROVE  NativeInv'
<1>1. /\ sync'.pc \in {"push", "sweep"}
      /\ sync'.pc = "push" => sync.pc \in {"push", "pushed"}
      /\ sync'.pc = "sweep" => sync.pc \in {"sweep", "swept"}
      /\ sync'.rows = sync.rows /\ sync'.adopted = sync.adopted
      /\ sync'.todo \subseteq sync.todo
  BY SyncErrorMoves DEF Types, SyncOK
<1>2. UNCHANGED <<db, node, adopted, job, native>> /\ Own' \subseteq Own
  BY OwnShrinks DEF SyncError, rowVars
<1> USE DEF NativeInv
<1>3. NotImported'
  BY <1>1, <1>2 DEF NotImported
<1>4. StillThere'
  BY <1>1, <1>2 DEF StillThere
<1>5. NoneAfterAdoption'
  BY <1>1, <1>2 DEF NoneAfterAdoption
<1>6. Todo'
  BY <1>1, <1>2 DEF Todo
<1>7. QED
  BY <1>3, <1>4, <1>5, <1>6

LEMMA FetchNative ==
  ASSUME Types, NativeInv, Fetch
  PROVE  NativeInv'
<1> USE DEF NativeInv, Own, Fetch, rowVars, cacheVars, Types
<1>1. NotImported'
  <2>1. sync'.rows = Empty
    BY IdleFields
  <2>2. QED
    BY <2>1, FreshNotImported
<1>2. StillThere'
  <2>1. CASE sync' = [SyncIdle EXCEPT !.pc = "flag", !.snap = node]
    <3>1. sync'.snap = node
      BY <2>1 DEF SyncIdle
    <3>2. Own' \subseteq Own /\ node' = node
      BY OwnShrinks
    <3> HIDE DEF Fetch
    <3>3. QED
      BY <3>1, <3>2 DEF StillThere
  <2>2. CASE Fault /\ doubt' = IF adopted THEN doubt ELSE doubt \cup native
    <3>1. Own' = {}
      BY <2>2 DEF NoneAfterAdoption
    <3>2. QED
      BY <3>1 DEF StillThere
  <2>3. CASE sync' = SyncIdle
    BY <2>3, IdlePC, OwnShrinks DEF StillThere
  <2>4. QED
    BY <2>1, <2>2, <2>3
<1>3. NoneAfterAdoption'
  <2>1. sync'.pc # "stamp" /\ sync'.adopted = FALSE
    BY FetchSync
  <2>2. Own' \subseteq Own /\ adopted' = adopted
    BY OwnShrinks
  <2> HIDE DEF Fetch
  <2>3. QED
    BY <2>1, <2>2 DEF NoneAfterAdoption
<1>4. Todo'
  <2>1. sync'.pc \in {"flag", "idle"}
    BY FetchSync
  <2>2. QED
    BY <2>1 DEF Todo
<1>5. QED
  BY <1>1, <1>2, <1>3, <1>4

LEMMA ReadFlagNative ==
  ASSUME Types, NativeInv, ReadFlag
  PROVE  NativeInv'
<1> USE DEF NativeInv, Own, ReadFlag, rowVars, cacheVars, Types
<1>1. NotImported'
  <2>1. CASE dirty
    <3>1. sync'.rows = Empty
      BY <2>1, IdleFields
    <3>2. QED
      BY <3>1, FreshNotImported
  <2>2. CASE ~dirty
    BY <2>2 DEF NotImported, SyncOK, SyncType
  <2>3. QED
    BY <2>1, <2>2
<1>2. StillThere'
  BY DEF StillThere, SyncOK, SyncType, SyncIdle
<1>3. NoneAfterAdoption'
  BY DEF NoneAfterAdoption, SyncOK, SyncType, SyncIdle
<1>4. Todo'
  BY DEF Todo, SyncOK, SyncType, SyncIdle
<1>5. QED
  BY <1>1, <1>2, <1>3, <1>4

LEMMA MergeNative ==
  ASSUME Types, NativeInv, Merge
  PROVE  NativeInv'
<1> USE DEF NativeInv, Own, Merge, rowVars, cacheVars, Types
<1>1. NotImported'
  <2>1. \A t \in native' : t \in native /\ db'[t] = None
    BY DEF SetsOK, Present
  <2>2. sync'.rows = sync.rows /\ job' = job
    BY DEF SyncOK, SyncType
  <2> HIDE DEF Merge
  <2>3. QED
    BY <2>1, <2>2 DEF NotImported
<1>2. StillThere'
  BY DEF NotImported, StillThere, RowsOK, SyncOK, SyncType, Write
<1>3. NoneAfterAdoption'
  <2>1. Own' \subseteq Own /\ Own \subseteq Tag
    BY OwnShrinks DEF SetsOK
  <2>2. CASE sync.snap = Empty
    <3>1. Own = {}
      BY <2>1, <2>2 DEF StillThere, Empty
    <3>2. QED
      BY <2>1, <3>1 DEF NoneAfterAdoption, SyncOK, SyncType
  <2>3. CASE sync.snap # Empty
    <3>1. db' = sync.snap /\ sync.pc = "merge" /\ native' = native \ Present(db')
      BY <2>3 DEF Merged
    <3>2. \A t \in Own : t \in Present(db')
      BY <2>1, <3>1 DEF StillThere, Present
    <3>3. Own' = {}
      BY <2>1, <3>1, <3>2
    <3>4. QED
      BY <3>3 DEF NoneAfterAdoption, SyncOK, SyncType
  <2>4. QED
    BY <2>2, <2>3
<1>4. Todo'
  BY DEF Todo, SyncOK, SyncType, Present, Unwanted
<1>5. QED
  BY <1>1, <1>2, <1>3, <1>4

LEMMA StampNative ==
  ASSUME Types, NativeInv, Stamp
  PROVE  NativeInv'
<1> USE DEF NativeInv, Own, Stamp, rowVars, cacheVars, Types
<1>1. NotImported'
  <2>1. sync'.rows = Empty
    BY IdleFields
  <2>2. QED
    BY <2>1, FreshNotImported
<1>2. StillThere'
  BY DEF StillThere, SyncIdle
<1>3. NoneAfterAdoption'
  BY DEF NoneAfterAdoption, SyncIdle
<1>4. Todo'
  BY DEF Todo, SyncIdle
<1>5. QED
  BY <1>1, <1>2, <1>3, <1>4

LEMMA RestartNative ==
  ASSUME Types, NativeInv, Restart
  PROVE  NativeInv'
<1> USE DEF NativeInv, Own, Restart, rowVars, cacheVars, Types
<1>1. NotImported'
  <2>1. sync'.rows = Empty
    BY IdleFields
  <2>2. QED
    BY <2>1, FreshNotImported
<1>2. StillThere'
  BY DEF StillThere, SyncIdle
<1>3. NoneAfterAdoption'
  BY DEF NoneAfterAdoption, SyncIdle
<1>4. Todo'
  BY DEF Todo, SyncIdle
<1>5. QED
  BY <1>1, <1>2, <1>3, <1>4

LEMMA SkipNative ==
  ASSUME Types, NativeInv, NEW t \in Tag, Skip(t)
  PROVE  NativeInv'
<1> USE DEF NativeInv, Own, Skip, rowVars, cacheVars, Types
<1>1. NotImported'
  BY DEF NotImported, RowsOK, SyncOK, SyncType, JobOK, Write, Present, SetsOK
<1>2. StillThere'
  BY DEF NotImported, StillThere, RowsOK, SyncOK, SyncType, Write
<1>3. NoneAfterAdoption'
  BY DEF NoneAfterAdoption, SyncOK, SyncType, Write
<1>4. Todo'
  BY DEF Todo, SyncOK, SyncType, Present, Unwanted
<1>5. QED
  BY <1>1, <1>2, <1>3, <1>4

LEMMA PushNative ==
  ASSUME Types, NativeInv, NEW t \in Tag, Push(t)
  PROVE  NativeInv'
<1> USE DEF NativeInv, Own, Push, rowVars, cacheVars, Types
<1>1. NotImported'
  BY DEF NotImported, RowsOK, SyncOK, SyncType, JobOK, Write, Present, SetsOK
<1>2. StillThere'
  <2>1. sync.rows[t] # None
    BY DEF Todo
  <2>2. \A u \in Tag : node[u] # None => node'[u] # None
    BY <2>1 DEF RowsOK
  <2>3. sync'.pc = "pushed" /\ Own' \subseteq Own /\ Own \subseteq Tag
    BY OwnShrinks DEF SyncOK, SyncType, SetsOK
  <2> HIDE DEF Push
  <2>4. QED
    BY <2>2, <2>3 DEF StillThere
<1>3. NoneAfterAdoption'
  BY DEF NoneAfterAdoption, SyncOK, SyncType, Write
<1>4. Todo'
  BY DEF Todo, SyncOK, SyncType, Present, Unwanted
<1>5. QED
  BY <1>1, <1>2, <1>3, <1>4

LEMMA SweepNative ==
  ASSUME Types, NativeInv, NEW t \in Tag, Sweep(t)
  PROVE  NativeInv'
<1> USE DEF NativeInv, Own, Sweep, rowVars, cacheVars, Types
<1>1. NotImported'
  BY DEF NotImported, RowsOK, SyncOK, SyncType, JobOK, Write, Present, SetsOK
<1>2. StillThere'
  <2>1. Own = {}
    BY DEF Todo, NoneAfterAdoption
  <2>2. Own' = {}
    BY <2>1, OwnShrinks
  <2> HIDE DEF Sweep
  <2>3. QED
    BY <2>2 DEF StillThere
<1>3. NoneAfterAdoption'
  BY DEF NoneAfterAdoption, SyncOK, SyncType, Write
<1>4. Todo'
  BY DEF Todo, SyncOK, SyncType, Present, Unwanted
<1>5. QED
  BY <1>1, <1>2, <1>3, <1>4

LEMMA NodeEditNative ==
  ASSUME Types, NativeInv, NEW t \in Tag, NEW row \in NodeRow, NodeEdit(t, row)
  PROVE  NativeInv'
<1> USE DEF NativeInv, Own, NodeEdit, rowVars, cacheVars, Types
<1>1. NotImported'
  BY DEF NotImported, RowsOK, SyncOK, SyncType, JobOK, Write, Present, SetsOK
<1>2. StillThere'
  BY DEF NotImported, StillThere, RowsOK, SyncOK, SyncType, Write
<1>3. NoneAfterAdoption'
  BY DEF NoneAfterAdoption, SyncOK, SyncType, Write
<1>4. Todo'
  BY DEF Todo, SyncOK, SyncType, Present, Unwanted
<1>5. QED
  BY <1>1, <1>2, <1>3, <1>4

LEMMA NativeInit == Init => NativeInv
<1> SUFFICES ASSUME Init PROVE NativeInv
  OBVIOUS
<1> USE DEF Init, SyncIdle, JobIdle
<1>1. NotImported
  BY DEF NotImported, Empty, Present
<1>2. StillThere
  BY DEF StillThere, Own, Present
<1>3. NoneAfterAdoption /\ Todo
  BY DEF NoneAfterAdoption, Todo
<1>4. QED
  BY <1>1, <1>2, <1>3 DEF NativeInv

LEMMA NativeStep == Types /\ NativeInv /\ [Next]_vars => NativeInv'
<1> SUFFICES ASSUME Types, NativeInv, [Next]_vars PROVE NativeInv'
  OBVIOUS
<1>1. CASE Edit
  <2>1. ASSUME NEW t \in Tag, NEW on \in BOOLEAN, Add(t, [on |-> on, clients |-> {}])
        PROVE  NativeInv'
    <3>1. [on |-> on, clients |-> {}] \in Content
      BY DEF Content
    <3>2. QED
      BY <2>1, <3>1, AddNative
  <2>2. QED
    BY <1>1, <2>1, UpdateNative, ReadNative DEF Edit, Op
<1>2. ASSUME NEW e \in Editor, JobStep(e)
      PROVE  NativeInv'
  BY <1>2, CommitNative, SendNative, SendLostNative, RecordNative, AnswerLostNative
     DEF JobStep
<1>3. CASE SyncStep
  BY <1>3, BeginNative, LoadRowsNative, ListNative, ListFailedNative, SkipNative,
     PushNative, SweepNative, EndPushNative, AnsweredNative, SyncErrorNative, ClearNative,
     FetchNative, ReadFlagNative, MergeNative, StampNative DEF SyncStep
<1>4. CASE (\E t \in Tag, row \in NodeRow : NodeEdit(t, row)) \/ Restart
  BY <1>4, NodeEditNative, RestartNative
<1>5. CASE UNCHANGED vars
  BY <1>5 DEF vars, NativeInv, NotImported, StillThere, NoneAfterAdoption, Todo, Own
<1>6. QED
  BY <1>1, <1>2, <1>3, <1>4, <1>5 DEF Next

\* The panel neither changes nor deletes an inbound of the node that it has not
\* imported, unless a blank answer has told it that there is none.
THEOREM NativesUntouched == Spec => NativeUntouched
<1> DEFINE Kept == \A t \in (native \cap native') \ doubt : node'[t] = node[t]
<1>1. ASSUME Types, NativeInv, [Next]_vars
      PROVE  Kept
  <2> USE DEF Types, NativeInv
  <2>1. native \subseteq Tag /\ node \in [Tag -> Row]
    BY <1>1 DEF SetsOK, RowsOK
  <2>2. ASSUME NEW e \in Editor, Send(e)
        PROVE  Kept
    <3>1. job[e].tag \notin native
      BY <1>1, <2>2 DEF Send, NotImported
    <3>2. node' = [node EXCEPT ![job[e].tag] = Applied(job[e])] \/ node' = node
      BY <2>2 DEF Send
    <3>3. QED
      BY <2>1, <3>1, <3>2
  <2>3. ASSUME NEW t \in Tag, Push(t)
        PROVE  Kept
    <3>1. t \notin native
      BY <1>1, <2>3 DEF Push, Todo, NotImported
    <3>2. QED
      BY <2>1, <2>3, <3>1 DEF Push
  <2>4. ASSUME NEW t \in Tag, Sweep(t)
        PROVE  Kept
    BY <1>1, <2>4 DEF Sweep, Todo, NoneAfterAdoption, Own
  <2>5. ASSUME NEW t \in Tag, NEW row \in NodeRow, NodeEdit(t, row)
        PROVE  Kept
    BY <2>1, <2>5 DEF NodeEdit
  <2>6. CASE node' = node
    BY <2>6
  <2>7. node' = node \/ (\E e \in Editor : Send(e)) \/ (\E t \in Tag : Push(t) \/ Sweep(t))
          \/ (\E t \in Tag, row \in NodeRow : NodeEdit(t, row))
    BY <1>1 DEF Next, vars, Edit, Add, Update, Read, JobStep, Commit, SendLost, Record,
       AnswerLost, SyncStep, Begin, LoadRows, List, ListFailed, Skip, EndPush, Answered,
       SyncError, Clear, Fetch, ReadFlag, Merge, Stamp, Restart
  <2>8. QED
    BY <2>2, <2>3, <2>4, <2>5, <2>6, <2>7
<1>2. Spec => [](Types /\ NativeInv)
  BY TypesInit, TypesStep, NativeInit, NativeStep, PTL DEF Spec
<1>3. Types /\ NativeInv /\ [Next]_vars => [Kept]_vars
  BY <1>1
<1>4. QED
  BY <1>2, <1>3, PTL DEF Spec, NativeUntouched

-----------------------------------------------------------------------------
(* A clean node has the panel's rows *)

\* Marked edits on which the panel has not been misled.
Sure == edited \ doubt

InHand(e) == job[e].pc \in {"send", "record"}

\* An edit holds the row that it was made from until it commits, and the
\* panel's row after that; at the node, its request has made that row unless
\* the panel knows the node's row to be another one.
JobSure(e) ==
  LET j == job[e] IN
  /\ j.pc # "idle" => j.new \in Edited(j.op, j.old)
  /\ j.tag \notin doubt =>
       /\ j.pc = "commit" => db[j.tag] = j.old
       /\ InHand(e) => db[j.tag] = j.new /\ j.tag \in edited
       /\ j.pc = "record" /\ (j.op # "client" \/ fp[j.tag] \in {j.old, j.new})
            => node[j.tag] = j.new

JobsSure == \A e \in Editor : JobSure(e)

\* Two requests for one inbound, or a request and the sync job, mislead the panel.
Apart ==
  /\ \A d, e \in Editor :
       d # e /\ InHand(d) /\ InHand(e) /\ job[d].tag = job[e].tag => job[e].tag \in doubt
  /\ \A t \in Tag : JobOn(t) /\ SyncOn(t) => t \in doubt

\* The sync job waits for an answer about this inbound.
Awaited(t) == sync.pc \in {"pushed", "swept"} /\ sync.tag = t

\* The fingerprint of an inbound is the node's row, but for a request whose
\* answer is on its way.
PrintSure ==
  \A t \in Tag \ doubt : fp[t] \in {None, node[t]} \/ JobOn(t) \/ Awaited(t)

\* A reconcile goes on only while the node is marked.
Underway == Reconciling => dirty /\ sync.adopted = adopted

Listed ==
  /\ sync.pc \in {"push", "pushed"} => sync.todo \subseteq Present(sync.rows)
  /\ sync.pc \in {"sweep", "swept"} => sync.todo \subseteq sync.list \ Present(sync.rows)

Arrived == sync.pc = "pushed" /\ sync.tag \notin doubt => node[sync.tag] = sync.rows[sync.tag]

\* What the reconcile has sent is at the node, and what it has left to send is
\* on its list, provided that nobody has marked the node since.
Current == dirtyAt = sync.at /\ ~sync.err

Sent ==
  /\ Current /\ sync.pc \in {"push", "pushed"} =>
       \A t \in Sure : IF sync.rows[t] # None
                       THEN t \in sync.todo \/ node[t] = sync.rows[t]
                       ELSE t \in sync.list \/ node[t] = None
  /\ Current /\ sync.pc \in {"sweep", "swept"} =>
       \A t \in Sure : t \in sync.todo \/ node[t] = sync.rows[t]

\* A snapshot that is going to be merged is what the node has still, or blank.
SnapSure ==
  /\ sync.pc = "merge" \/ (sync.pc = "flag" /\ ~dirty) =>
       sync.snap = Empty \/ \A t \in Tag \ doubt : sync.snap[t] = node[t]
  /\ sync.pc = "stamp" => \A t \in sync.todo \ doubt : sync.snap[t] = node[t]

\* A clean panel and its node agree, and so do they while the panel takes the
\* node for clean; an inbound is deleted for good only at an adopted node.
CleanSure ==
  /\ ~dirty \/ sync.pc = "merge" => \A t \in Sure : node[t] = db[t]
  /\ ~adopted => \A t \in Sure : db[t] # None

ReconcileSure == Underway /\ Listed /\ Arrived /\ Sent

EqualInv == JobsSure /\ Apart /\ PrintSure /\ ReconcileSure /\ SnapSure /\ CleanSure

-----------------------------------------------------------------------------
(* Steps that leave a part of the invariant alone *)

\* The node's row, the panel's and the fingerprint of this inbound stay.
SameNode == \A t \in Tag \ doubt' : node'[t] = node[t]
SamePrint == \A t \in Tag \ doubt' : fp'[t] = fp[t]
SameRows == \A t \in Tag \ doubt' : db'[t] = db[t]

\* The inbound of a request under way is one of the tags.
LEMMA JobTag == ASSUME Types, NEW e \in Editor, job[e].pc # "idle" PROVE job[e].tag \in Tag
BY DEF Types, JobOK, Shaped

LEMMA JobFrame ==
  ASSUME Types, JobsSure, SameNode, SamePrint, SameRows, doubt \subseteq doubt', edited' = edited,
         \A e \in Editor : job'[e] = job[e] \/ job'[e].pc = "idle"
  PROVE  JobsSure'
<1> SUFFICES ASSUME NEW e \in Editor PROVE JobSure(e)'
  BY DEF JobsSure
<1>1. JobSure(e)
  BY DEF JobsSure
<1>2. CASE job'[e].pc = "idle"
  BY <1>2 DEF JobSure, InHand
<1>3. CASE job'[e] = job[e] /\ job[e].pc # "idle"
  <2>1. job[e].tag \in Tag
    BY <1>3, JobTag
  <2>2. QED
    BY <1>1, <1>3, <2>1 DEF JobSure, InHand, SameNode, SamePrint, SameRows
<1>4. QED
  BY <1>2, <1>3

LEMMA ApartFrame ==
  ASSUME Apart, doubt \subseteq doubt', \A t \in Tag \ doubt' : SyncOn(t)' => SyncOn(t),
         \A e \in Editor : job'[e] = job[e] \/ job'[e].pc \notin {"send", "record"}
  PROVE  Apart'
<1>1. \A e \in Editor : InHand(e)' => InHand(e) /\ job'[e] = job[e]
  BY DEF InHand
<1>2. \A t \in Tag : JobOn(t)' => JobOn(t)
  BY DEF JobOn
<1>3. QED
  BY <1>1, <1>2 DEF Apart

LEMMA PrintFrame ==
  ASSUME PrintSure, SameNode, SamePrint, doubt \subseteq doubt',
         \A t \in Tag \ doubt' : (JobOn(t) => JobOn(t)') /\ (Awaited(t) => Awaited(t)')
  PROVE  PrintSure'
BY DEF PrintSure, SameNode, SamePrint

LEMMA ReconcileFrame ==
  ASSUME Types, ReconcileSure, SameNode, doubt \subseteq doubt', Sure' \subseteq Sure,
         UNCHANGED <<sync, adopted>>, dirty => dirty', dirtyAt' = dirtyAt
  PROVE  ReconcileSure'
<1> USE DEF ReconcileSure
<1>1. \A t \in Sure' : t \in Tag /\ t \in Sure /\ node'[t] = node[t]
  BY DEF Types, SetsOK, Sure, SameNode
<1>2. Underway' /\ Listed'
  BY DEF Underway, Listed, Reconciling
<1>3. Arrived'
  BY DEF Types, SyncOK, SameNode, Arrived
<1>4. Sent'
  BY <1>1 DEF Sent, Current
<1>5. QED
  BY <1>2, <1>3, <1>4

\* The sync job is not, or no longer, reconciling.
LEMMA ReconcileIdle ==
  ASSUME sync'.pc \in {"idle", "fetch", "flag", "merge", "stamp"}
  PROVE  ReconcileSure'
BY DEF ReconcileSure, Underway, Reconciling, Listed, Arrived, Sent

LEMMA SnapFrame ==
  ASSUME Types, SnapSure, SameNode, doubt \subseteq doubt', sync' = sync, ~dirty' => ~dirty
  PROVE  SnapSure'
<1>1. sync.todo \subseteq Tag
  BY DEF Types, SyncOK, SyncType
<1>2. QED
  BY <1>1 DEF SnapSure, SameNode

LEMMA SnapIdle ==
  ASSUME sync'.pc \notin {"flag", "merge", "stamp"}
  PROVE  SnapSure'
BY DEF SnapSure

LEMMA CleanFrame ==
  ASSUME Types, CleanSure, SameNode, SameRows, Sure' \subseteq Sure, doubt \subseteq doubt',
         ~dirty' => ~dirty, sync'.pc = "merge" => sync.pc = "merge", ~adopted' => ~adopted
  PROVE  CleanSure'
<1>1. \A t \in Sure' : t \in Tag \ doubt' /\ t \in Sure /\ node'[t] = node[t] /\ db'[t] = db[t]
  BY DEF Types, SetsOK, Sure, SameNode, SameRows
<1>2. QED
  BY <1>1 DEF CleanSure

\* A step of the sync job that changes no row keeps what is known of the requests.
LEMMA SyncFrame ==
  ASSUME Types, EqualInv, UNCHANGED <<db, node, fp, edited, job>>, doubt \subseteq doubt',
         \A t \in Tag \ doubt' : (SyncOn(t)' => SyncOn(t)) /\ (Awaited(t) => Awaited(t)')
  PROVE  /\ JobsSure' /\ Apart' /\ PrintSure'
         /\ SameNode /\ SameRows /\ Sure' \subseteq Sure
<1>1. SameNode /\ SamePrint /\ SameRows /\ Sure' \subseteq Sure
  BY DEF SameNode, SamePrint, SameRows, Sure
<1>2. \A t \in Tag : JobOn(t)' = JobOn(t)
  BY DEF JobOn
<1>3. JobsSure'
  BY <1>1, JobFrame DEF EqualInv
<1>4. Apart'
  BY ApartFrame DEF EqualInv
<1>5. PrintSure'
  BY <1>1, <1>2, PrintFrame DEF EqualInv
<1>6. QED
  BY <1>1, <1>3, <1>4, <1>5

\* So does one that neither waits for an answer nor begins to wait.
LEMMA SyncMoves ==
  ASSUME Types, EqualInv, UNCHANGED <<db, node, fp, dirty, edited, adopted, job>>,
         doubt \subseteq doubt', sync.pc \notin {"pushed", "swept"},
         sync'.pc \notin {"pushed", "swept", "stamp", "merge"}
  PROVE  JobsSure' /\ Apart' /\ PrintSure' /\ CleanSure'
<1>1. \A t \in Tag \ doubt' : (SyncOn(t)' => SyncOn(t)) /\ (Awaited(t) => Awaited(t)')
  BY DEF SyncOn, Awaited
<1>2. /\ JobsSure' /\ Apart' /\ PrintSure'
      /\ SameNode /\ SameRows /\ Sure' \subseteq Sure
  BY <1>1, SyncFrame
<1>3. CleanSure'
  BY <1>2, CleanFrame DEF EqualInv
<1>4. QED
  BY <1>2, <1>3

-----------------------------------------------------------------------------
(* Edits of the panel *)

LEMMA WriteFacts ==
  ASSUME Types, NEW t \in Tag, NEW row, NEW except, Write(t, row, except)
  PROVE  /\ doubt \subseteq doubt' /\ doubt' \subseteq doubt \cup {t}
         /\ db'[t] = row /\ \A u \in Tag : u # t => db'[u] = db[u]
         /\ t \notin doubt' => /\ sync.pc # "merge" /\ (row # None \/ adopted)
                               /\ \A e \in Editor \ except : job[e].pc = "idle" \/ job[e].tag # t
BY DEF Types, RowsOK, Write, Misled, InFlight

\* A write to the panel's rows, marked or not: whoever holds the row that it
\* replaces is misled, and so is a merge that has taken the node for clean.
LEMMA WriteEqual ==
  ASSUME Types, MarkInv, EqualInv, NEW t \in Tag, NEW row, NEW except, Write(t, row, except),
         Mark(t) \/ (edited' = edited \ {t} /\ UNCHANGED <<dirty, dirtyAt>>),
         UNCHANGED <<node, adopted, fp, sync>>,
         \A e \in Editor \ except : job'[e] = job[e],
         \A d, e \in Editor \cap except : d = e,
         \A e \in Editor \cap except :
            /\ job[e].pc = "commit" /\ job[e].tag = t /\ JobSure(e)'
            /\ job'[e].pc = "idle" \/ (job'[e].pc = "send" /\ job'[e].tag = t)
  PROVE  EqualInv'
<1>1. /\ doubt \subseteq doubt' /\ doubt' \subseteq doubt \cup {t}
      /\ db'[t] = row /\ \A u \in Tag : u # t => db'[u] = db[u]
      /\ t \notin doubt' => /\ sync.pc # "merge" /\ (row # None \/ adopted)
                            /\ \A e \in Editor \ except : job[e].pc = "idle" \/ job[e].tag # t
  BY WriteFacts
<1>2. \A u \in Tag : u # t => (u \in edited' <=> u \in edited)
  BY DEF Mark
<1>3. \/ dirty' = TRUE /\ dirtyAt' = dirtyAt + 1
      \/ t \notin edited' /\ UNCHANGED <<dirty, dirtyAt>>
  BY DEF Mark
<1>4. edited' \subseteq edited \cup {t} /\ (t \in edited' => dirty')
  BY DEF Mark
<1>5. SameNode /\ SamePrint
  BY DEF SameNode, SamePrint
<1>6. JobsSure'
  <2> SUFFICES ASSUME NEW e \in Editor, e \notin except PROVE JobSure(e)'
    BY DEF JobsSure
  <2>1. JobSure(e) /\ job'[e] = job[e]
    BY DEF EqualInv, JobsSure
  <2>2. CASE job[e].pc = "idle"
    BY <2>1, <2>2 DEF JobSure, InHand
  <2>3. CASE job[e].pc # "idle" /\ job[e].tag = t
    BY <1>1, <2>1, <2>3 DEF JobSure
  <2>4. CASE job[e].pc # "idle" /\ job[e].tag # t
    <3>1. job[e].tag \in Tag
      BY <2>4, JobTag
    <3>2. QED
      BY <1>1, <1>2, <2>1, <2>4, <3>1 DEF JobSure, InHand
  <2>5. QED
    BY <2>2, <2>3, <2>4
<1>7. \A u \in Tag : JobOn(u)' <=> JobOn(u)
  BY DEF JobOn
<1>8. Apart'
  <2>1. ASSUME NEW d \in Editor, NEW e \in Editor, d # e, InHand(d)', InHand(e)',
               job'[d].tag = job'[e].tag, job'[e].tag \notin doubt'
        PROVE  FALSE
    <3>1. CASE d \notin except /\ e \notin except
      BY <1>1, <2>1, <3>1 DEF EqualInv, Apart, InHand
    <3>2. CASE d \in except /\ e \notin except
      BY <1>1, <2>1, <3>2 DEF InHand
    <3>3. CASE e \in except /\ d \notin except
      BY <1>1, <2>1, <3>3 DEF InHand
    <3>4. CASE d \in except /\ e \in except
      BY <2>1, <3>4
    <3>5. QED
      BY <3>1, <3>2, <3>3, <3>4
  <2>2. \A u \in Tag : JobOn(u)' /\ SyncOn(u)' => u \in doubt'
    BY <1>1, <1>7 DEF EqualInv, Apart, SyncOn
  <2>3. QED
    BY <2>1, <2>2 DEF Apart
<1>9. PrintSure'
  BY <1>1, <1>5, <1>7, PrintFrame DEF EqualInv, Awaited
<1>10. ReconcileSure'
  <2>1. CASE dirty' = TRUE /\ dirtyAt' = dirtyAt + 1
    <3>1. Reconciling => dirtyAt' # sync.at
      BY <2>1 DEF MarkInv, Types, MarkOK, SyncOK, SyncType
    <3>2. Underway' /\ Listed'
      BY <2>1 DEF EqualInv, ReconcileSure, Underway, Reconciling, Listed
    <3>3. Arrived'
      BY <1>1 DEF EqualInv, ReconcileSure, Arrived
    <3>4. Sent'
      BY <3>1 DEF Sent, Current, Reconciling
    <3>5. QED
      BY <3>2, <3>3, <3>4 DEF ReconcileSure
  <2>2. CASE t \notin edited' /\ UNCHANGED <<dirty, dirtyAt>>
    <3>1. Sure' \subseteq Sure
      BY <1>1, <1>4, <2>2 DEF Sure
    <3>2. QED
      BY <1>1, <1>5, <2>2, <3>1, ReconcileFrame DEF EqualInv
  <2>3. QED
    BY <1>3, <2>1, <2>2
<1>11. SnapSure'
  BY <1>1, <1>3, <1>5, SnapFrame DEF EqualInv
<1>12. CleanSure'
  <2>1. \A u \in Sure' : u \in Tag /\ (u = t \/ (u \in Sure /\ db'[u] = db[u]))
    BY <1>1, <1>4 DEF Sure, Types, SetsOK
  <2>2. t \in Sure' => dirty' /\ sync'.pc # "merge" /\ (db'[t] # None \/ adopted')
    BY <1>1, <1>4 DEF Sure
  <2>3. ~dirty' => ~dirty
    BY <1>3
  <2>4. QED
    BY <2>1, <2>2, <2>3 DEF EqualInv, CleanSure
<1>13. QED
  BY <1>6, <1>8, <1>9, <1>10, <1>11, <1>12 DEF EqualInv

LEMMA AddEqual ==
  ASSUME Types, MarkInv, EqualInv, NEW t \in Tag, NEW row \in Content, Add(t, row)
  PROVE  EqualInv'
<1>1. Write(t, row, {}) /\ UNCHANGED <<node, adopted, fp, sync, job>>
  BY DEF Add, cacheVars
<1>2. Mark(t) \/ (edited' = edited \ {t} /\ UNCHANGED <<dirty, dirtyAt>>)
  BY DEF Add
<1>3. QED
  BY <1>1, <1>2, WriteEqual

LEMMA UpdateEqual ==
  ASSUME Types, MarkInv, EqualInv, NEW t \in Tag, NEW row \in Content, Update(t, row)
  PROVE  EqualInv'
<1>1. Write(t, row, {}) /\ UNCHANGED <<node, adopted, fp, sync, job>> /\ Mark(t)
  BY DEF Update, cacheVars
<1>2. QED
  BY <1>1, WriteEqual

\* What an edit commits is what it has made of the row that it read.
LEMMA CommittedNew ==
  ASSUME Types, NEW e \in Editor, JobSure(e), job[e].pc = "commit", job[e].tag \notin doubt
  PROVE  Committed(job[e]) = job[e].new
<1>1. db[job[e].tag] = job[e].old /\ job[e].new \in Edited(job[e].op, job[e].old)
  BY DEF JobSure
<1>2. job[e].old \in Content /\ job[e].old # None
  BY NodeSyncAssumption DEF Types, JobOK, Shaped, Content
<1>3. CASE job[e].op = "enable"
  <2>1. job[e].new = [job[e].old EXCEPT !.on = ~@]
    BY <1>1, <1>3 DEF Edited
  <2>2. [job[e].old EXCEPT !.on = job[e].new.on] = job[e].new
    BY <1>2, <2>1 DEF Content
  <2>3. QED
    BY <1>1, <1>2, <1>3, <2>2 DEF Committed
<1>4. CASE job[e].op # "enable"
  BY <1>4 DEF Committed
<1>5. QED
  BY <1>3, <1>4

LEMMA CommitEqual ==
  ASSUME Types, MarkInv, EqualInv, NEW e \in Editor, Commit(e)
  PROVE  EqualInv'
<1> DEFINE t == job[e].tag
<1>1. /\ job[e].pc = "commit" /\ Write(t, Committed(job[e]), {e}) /\ Mark(t)
      /\ UNCHANGED <<node, adopted, fp, sync>>
  BY DEF Commit, cacheVars
<1>2. t \in Tag /\ JobSure(e)
  BY <1>1, JobTag DEF EqualInv, JobsSure
<1>3. PICK next \in {[job[e] EXCEPT !.pc = "send"], JobIdle} : job' = [job EXCEPT ![e] = next]
  BY DEF Commit
<1>4. job'[e] = next /\ \A d \in Editor : d # e => job'[d] = job[d]
  BY <1>3 DEF Types, JobOK
<1>5. next = JobIdle => next.pc = "idle"
  BY DEF JobIdle
<1>6. next = [job[e] EXCEPT !.pc = "send"] =>
        next.pc = "send" /\ next.tag = t /\ next.op = job[e].op /\ next.old = job[e].old
        /\ next.new = job[e].new
  BY DEF Types, JobOK, JobType
<1>7. doubt \subseteq doubt' /\ db'[t] = Committed(job[e]) /\ t \in edited'
  BY <1>1, <1>2, WriteFacts DEF Mark
<1>8. JobSure(e)'
  <2>1. CASE next = JobIdle
    BY <1>4, <1>5, <2>1 DEF JobSure, InHand
  <2>2. CASE next = [job[e] EXCEPT !.pc = "send"]
    <3>1. t \notin doubt' => db'[t] = job[e].new
      BY <1>1, <1>2, <1>7, CommittedNew
    <3>2. job[e].new \in Edited(job[e].op, job[e].old)
      BY <1>1, <1>2 DEF JobSure
    <3>3. QED
      BY <1>4, <1>6, <1>7, <2>2, <3>1, <3>2 DEF JobSure, InHand
  <2>3. QED
    BY <2>1, <2>2
<1>9. job'[e].pc = "idle" \/ (job'[e].pc = "send" /\ job'[e].tag = t)
  BY <1>4, <1>5, <1>6
<1> HIDE DEF t
<1>10. QED
  BY <1>1, <1>2, <1>4, <1>8, <1>9, WriteEqual DEF t

LEMMA ReadEqual ==
  ASSUME Types, EqualInv, NEW e \in Editor, NEW t \in Tag, NEW op \in Op, Read(e, t, op)
  PROVE  EqualInv'
<1>1. UNCHANGED <<db, node, fp, dirty, dirtyAt, edited, adopted, sync, doubt>> /\ job[e].pc = "idle"
  BY DEF Read, rowVars, cacheVars
<1>2. PICK new \in Edited(op, db[t]) :
        job' = [job EXCEPT ![e] = [pc |-> "commit", op |-> op, tag |-> t, old |-> db[t], new |-> new]]
  BY DEF Read
<1>3. /\ job'[e].pc = "commit" /\ job'[e].op = op /\ job'[e].tag = t /\ job'[e].old = db[t]
      /\ job'[e].new = new /\ \A d \in Editor : d # e => job'[d] = job[d]
  BY <1>2 DEF Types, JobOK
<1>4. JobsSure'
  <2>1. JobSure(e)'
    BY <1>1, <1>3 DEF JobSure, InHand
  <2>2. ASSUME NEW d \in Editor, d # e PROVE JobSure(d)'
    <3>1. JobSure(d) /\ job'[d] = job[d]
      BY <1>3, <2>2 DEF EqualInv, JobsSure
    <3>2. QED
      BY <1>1, <3>1 DEF JobSure, InHand
  <2>3. QED
    BY <2>1, <2>2 DEF JobsSure
<1>5. \A u \in Tag : (JobOn(u) <=> JobOn(u)') /\ (SyncOn(u)' <=> SyncOn(u)) /\ (Awaited(u)' <=> Awaited(u))
  BY <1>1, <1>3 DEF JobOn, SyncOn, Awaited
<1>6. SameNode /\ SamePrint /\ SameRows /\ Sure' \subseteq Sure
  BY <1>1 DEF SameNode, SamePrint, SameRows, Sure
<1>7. Apart'
  BY <1>1, <1>3, <1>5, ApartFrame DEF EqualInv
<1>8. PrintSure'
  BY <1>1, <1>5, <1>6, PrintFrame DEF EqualInv
<1>9. ReconcileSure' /\ SnapSure' /\ CleanSure'
  BY <1>1, <1>6, ReconcileFrame, SnapFrame, CleanFrame DEF EqualInv
<1>10. QED
  BY <1>4, <1>7, <1>8, <1>9 DEF EqualInv

-----------------------------------------------------------------------------
(* Requests to the node *)

\* A request ends or goes on: those of the other edits stay.
LEMMA OthersStay ==
  ASSUME Types, NEW e \in Editor, NEW next, job' = [job EXCEPT ![e] = next]
  PROVE  job'[e] = next /\ \A d \in Editor : d # e => job'[d] = job[d]
BY DEF Types, JobOK

\* A request that stays at its step, and whose inbound stays if the node has
\* carried it out.
LEMMA JobKeeps ==
  ASSUME NEW e \in Editor, JobSure(e), job'[e] = job[e], edited' = edited, doubt \subseteq doubt',
         job[e].pc = "idle" \/ job[e].tag \in doubt' \/ db'[job[e].tag] = db[job[e].tag],
         \/ job[e].pc # "record" \/ job[e].tag \in doubt'
         \/ fp'[job[e].tag] = fp[job[e].tag] /\ node'[job[e].tag] = node[job[e].tag]
  PROVE  JobSure(e)'
BY DEF JobSure, InHand

\* The request of an edit makes of the node's row what the edit made of the
\* panel's, if the node had the row before or after the edit.
LEMMA AppliedNew ==
  ASSUME Types, NEW e \in Editor, JobSure(e), job[e].pc # "idle",
         job[e].op # "client" \/ node[job[e].tag] \in {job[e].old, job[e].new}
  PROVE  Applied(job[e]) = job[e].new
<1>1. CASE job[e].op # "client"
  BY <1>1 DEF Applied
<1>2. CASE job[e].op = "client"
  <2>1. /\ job[e].old \in Content /\ job[e].new \in Content
        /\ job[e].old # None /\ job[e].new # None
    BY <1>2, NodeSyncAssumption DEF Types, JobOK, Shaped, Content
  <2>2. /\ job[e].new.on = job[e].old.on
        /\ job[e].new = [on |-> job[e].new.on, clients |-> job[e].new.clients]
    BY <1>2, <2>1 DEF JobSure, Edited, Content
  <2>3. node[job[e].tag] \in Content /\ node[job[e].tag].on = job[e].new.on
    BY <1>2, <2>1, <2>2
  <2>4. (node[job[e].tag].clients \ (job[e].old.clients \ job[e].new.clients))
           \cup (job[e].new.clients \ job[e].old.clients) = job[e].new.clients
    BY <1>2, <2>1
  <2> DEFINE S == (node[job[e].tag].clients \ (job[e].old.clients \ job[e].new.clients))
                    \cup (job[e].new.clients \ job[e].old.clients)
  <2>5. \A n \in Content : \A c : [n EXCEPT !.clients = c] = [on |-> n.on, clients |-> c]
    BY DEF Content
  <2>6. [node[job[e].tag] EXCEPT !.clients = S] = [on |-> job[e].new.on, clients |-> S]
    BY <2>3, <2>5
  <2>7. [node[job[e].tag] EXCEPT !.clients = (@ \ (job[e].old.clients \ job[e].new.clients))
           \cup (job[e].new.clients \ job[e].old.clients)]
          = [on |-> job[e].new.on, clients |-> job[e].new.clients]
    BY <2>4, <2>6
  <2>8. node[job[e].tag] # None
    BY <1>2, <2>1
  <2>9. QED
    BY <1>2, <2>2, <2>7, <2>8 DEF Applied
<1>3. QED
  BY <1>1, <1>2

\* A request that ends without an answer leaves the panel and the node alone,
\* or what it was about is in doubt.
LEMMA GivenUp ==
  ASSUME Types, EqualInv, NEW e \in Editor, job' = [job EXCEPT ![e] = JobIdle],
         UNCHANGED <<db, node, fp, dirty, dirtyAt, edited, adopted, sync>>,
         doubt \subseteq doubt', job[e].pc # "record" \/ job[e].tag \in doubt'
  PROVE  EqualInv'
<1>0. JobIdle.pc = "idle"
  BY DEF JobIdle
<1>1. job'[e].pc = "idle" /\ \A d \in Editor : d # e => job'[d] = job[d]
  BY <1>0, OthersStay
<1>2. SameNode /\ SamePrint /\ SameRows /\ Sure' \subseteq Sure
  BY DEF SameNode, SamePrint, SameRows, Sure
<1>3. \A u \in Tag \ doubt' : (JobOn(u) => JobOn(u)') /\ (SyncOn(u)' => SyncOn(u)) /\ (Awaited(u) => Awaited(u)')
  BY <1>1 DEF JobOn, SyncOn, Awaited
<1>4. JobsSure'
  BY <1>1, <1>2, JobFrame DEF EqualInv
<1>5. Apart'
  BY <1>1, <1>3, ApartFrame DEF EqualInv
<1>6. PrintSure'
  BY <1>2, <1>3, PrintFrame DEF EqualInv
<1>7. ReconcileSure' /\ SnapSure' /\ CleanSure'
  BY <1>2, ReconcileFrame, SnapFrame, CleanFrame DEF EqualInv
<1>8. QED
  BY <1>4, <1>5, <1>6, <1>7 DEF EqualInv

LEMMA SendEqual ==
  ASSUME Types, MarkInv, EqualInv, NEW e \in Editor, Send(e)
  PROVE  EqualInv'
<1> DEFINE j == job[e]
<1> SUFFICES ASSUME NEW t \in Tag, job[e].tag = t PROVE EqualInv'
  BY JobTag DEF Send
<1>1. j.pc = "send" /\ UNCHANGED <<db, fp, dirty, dirtyAt, edited, adopted, sync>>
  BY DEF Send, rowVars
<1>2. JobSure(e) /\ InHand(e)
  BY <1>1 DEF EqualInv, JobsSure, InHand
<1>3. CASE ~Accepted(j)
  BY <1>1, <1>3, GivenUp DEF Send
<1>4. CASE Accepted(j)
  <2>1. /\ node' = [node EXCEPT ![t] = Applied(j)]
        /\ job' = [job EXCEPT ![e] = [job[e] EXCEPT !.pc = "record"]]
        /\ doubt \subseteq doubt' /\ (t \notin doubt' => t \notin doubt /\ ~SyncOn(t))
    BY <1>4 DEF Send
  <2>2. node'[t] = Applied(j) /\ \A u \in Tag : u # t => node'[u] = node[u]
    BY <1>2, <2>1 DEF Types, RowsOK
  <2>3. /\ \A d \in Editor : d # e => job'[d] = job[d]
        /\ job'[e].pc = "record" /\ job'[e].tag = t /\ job'[e].op = j.op
        /\ job'[e].old = j.old /\ job'[e].new = j.new
    BY <2>1, OthersStay DEF Types, JobOK, JobType
  <2>4. t \notin doubt' =>
          /\ db[t] = j.new /\ t \in edited /\ ~JobOn(t) /\ fp[t] \in {None, node[t]}
          /\ \A d \in Editor : d # e /\ InHand(d) => job[d].tag # t
    <3> SUFFICES ASSUME t \notin doubt' PROVE
          /\ db[t] = j.new /\ t \in edited /\ ~JobOn(t) /\ fp[t] \in {None, node[t]}
          /\ \A d \in Editor : d # e /\ InHand(d) => job[d].tag # t
      OBVIOUS
    <3>1. db[t] = j.new /\ t \in edited
      BY <1>2, <2>1 DEF JobSure
    <3>2. \A d \in Editor : d # e /\ InHand(d) => job[d].tag # t
      BY <1>2, <2>1 DEF EqualInv, Apart
    <3>3. ~JobOn(t)
      BY <1>1, <3>2 DEF JobOn, InHand
    <3>4. ~Awaited(t)
      BY <2>1 DEF Awaited, SyncOn
    <3>5. QED
      BY <1>2, <2>1, <3>1, <3>2, <3>3, <3>4 DEF EqualInv, PrintSure
  <2>5. j.op = "client" => j.old # None /\ j.new # None
    BY <1>1, NodeSyncAssumption DEF Types, JobOK, Shaped, Content
  <2>6. t \notin doubt' /\ (j.op # "client" \/ fp[t] \in {j.old, j.new}) => node'[t] = j.new
    BY <1>1, <1>2, <2>2, <2>4, <2>5, AppliedNew
  <2>7. node[t] = j.new => node'[t] = j.new
    BY <1>1, <1>2, <2>2, AppliedNew
  <2>8. j.new = None => node'[t] = j.new
    BY <1>1, <1>2, <2>2, <2>5, AppliedNew
  <2> HIDE DEF j
  <2>9. JobsSure'
    <3>1. JobSure(e)'
      BY <1>1, <1>2, <2>3, <2>4, <2>6 DEF JobSure, InHand, j
    <3>2. ASSUME NEW d \in Editor, d # e PROVE JobSure(d)'
      <4>1. JobSure(d) /\ job'[d] = job[d]
        BY <2>3, <3>2 DEF EqualInv, JobsSure
      <4>2. CASE job[d].pc = "record"
        <5>1. job[d].tag \in Tag /\ InHand(d)
          BY <4>2, JobTag DEF InHand
        <5>2. job[d].tag \in doubt' \/ (node'[job[d].tag] = node[job[d].tag])
          BY <2>2, <2>4, <3>2, <5>1
        <5>3. QED
          BY <1>1, <2>1, <4>1, <5>2, JobKeeps
      <4>3. CASE job[d].pc # "record"
        BY <1>1, <2>1, <4>1, <4>3, JobKeeps
      <4>4. QED
        BY <4>2, <4>3
    <3>3. QED
      BY <3>1, <3>2 DEF JobsSure
  <2>10. \A d \in Editor : (InHand(d)' <=> InHand(d)) /\ (InHand(d) => job'[d].tag = job[d].tag)
    BY <1>2, <2>3 DEF InHand, j
  <2>11. \A u \in Tag : (JobOn(u) => JobOn(u)') /\ (JobOn(u)' => JobOn(u) \/ u = t)
    BY <1>1, <2>3 DEF JobOn, j
  <2>12. Apart'
    <3>1. \A c, d \in Editor :
            c # d /\ InHand(c)' /\ InHand(d)' /\ job'[c].tag = job'[d].tag => job'[d].tag \in doubt'
      BY <2>1, <2>10 DEF EqualInv, Apart
    <3>2. \A u \in Tag : JobOn(u)' /\ SyncOn(u)' => u \in doubt'
      BY <1>1, <2>1, <2>11 DEF EqualInv, Apart, SyncOn
    <3>3. QED
      BY <3>1, <3>2 DEF Apart
  <2>13. JobOn(t)'
    BY <2>3 DEF JobOn
  <2>14. PrintSure'
    BY <1>1, <2>1, <2>2, <2>11, <2>13 DEF EqualInv, PrintSure, Awaited
  <2>15. Sure' \subseteq Sure /\ Sure \subseteq Tag /\ \A u \in Sure' : u # t => node'[u] = node[u]
    BY <1>1, <2>1, <2>2 DEF Sure, Types, SetsOK
  <2>16. t \in Sure' => t \notin doubt' /\ t \in Sure /\ db[t] = j.new
    BY <2>4, <2>15 DEF Sure
  <2>17. ReconcileSure'
    <3> USE DEF EqualInv, ReconcileSure
    <3>1. Underway' /\ Listed'
      BY <1>1 DEF Underway, Listed, Reconciling
    <3>2. Arrived'
      <4>1. sync.pc = "pushed" => sync.tag \in Tag
        BY DEF Types, SyncOK
      <4>2. sync.pc = "pushed" /\ sync.tag = t => t \in doubt'
        BY <2>1 DEF SyncOn
      <4>3. QED
        BY <1>1, <2>1, <2>2, <4>1, <4>2 DEF Arrived
    <3>3. Current /\ Reconciling /\ sync.pc # "rows" /\ t \in Sure' => sync.rows[t] = j.new
      BY <2>15, <2>16 DEF MarkInv, Current, Sure
    <3>4. Sent'
      BY <1>1, <2>7, <2>8, <2>15, <3>3 DEF Sent, Current, Reconciling
    <3>5. QED
      BY <3>1, <3>2, <3>4
  <2>18. t \notin doubt' /\ (~dirty \/ sync.pc = "merge") => node'[t] = node[t]
    BY <2>1, <2>4, <2>7 DEF EqualInv, CleanSure, Sure
  <2>19. SnapSure'
    <3>1. sync.pc = "stamp" /\ t \in sync.todo => t \in doubt'
      BY <2>1 DEF SyncOn
    <3>2. sync.todo \subseteq Tag
      BY DEF Types, SyncOK, SyncType
    <3>3. QED
      BY <1>1, <2>1, <2>2, <2>18, <3>1, <3>2 DEF EqualInv, SnapSure
  <2>20. CleanSure'
    BY <1>1, <2>15, <2>16, <2>18 DEF EqualInv, CleanSure
  <2>21. QED
    BY <2>9, <2>12, <2>14, <2>17, <2>19, <2>20 DEF EqualInv
<1>5. QED
  BY <1>3, <1>4

\* The answer comes back: the fingerprint is the node's row again.
LEMMA RecordEqual ==
  ASSUME Types, EqualInv, NEW e \in Editor, Record(e)
  PROVE  EqualInv'
<1> DEFINE j == job[e]
<1> SUFFICES ASSUME NEW t \in Tag, job[e].tag = t PROVE EqualInv'
  BY JobTag DEF Record
<1>1. /\ j.pc = "record" /\ UNCHANGED <<db, node, dirty, dirtyAt, edited, adopted, sync>>
      /\ doubt' = IF StaleFP(j) THEN doubt \cup {t} ELSE doubt
      /\ fp' = IF j.op = "client" THEN Advance(j) ELSE [fp EXCEPT ![t] = j.new]
      /\ job' = [job EXCEPT ![e] = JobIdle]
  BY DEF Record, rowVars
<1>2. JobSure(e) /\ InHand(e)
  BY <1>1 DEF EqualInv, JobsSure, InHand
<1>0. JobIdle.pc = "idle"
  BY DEF JobIdle
<1>3. job'[e].pc = "idle" /\ \A d \in Editor : d # e => job'[d] = job[d]
  BY <1>0, <1>1, OthersStay
<1>4. \A u \in Tag : u # t => fp'[u] = fp[u]
  BY <1>1, <1>2 DEF Types, RowsOK, Advance
<1>5. doubt \subseteq doubt'
  BY <1>1
<1>6. t \notin doubt' => fp'[t] \in {None, node[t]}
  <2> SUFFICES ASSUME t \notin doubt' PROVE fp'[t] \in {None, node[t]}
    OBVIOUS
  <2>1. t \notin doubt /\ ~StaleFP(j)
    BY <1>1
  <2>2. CASE j.op = "client"
    <3>1. fp[t] \in {None, j.old}
      BY <2>1, <2>2 DEF StaleFP
    <3>2. fp[t] = j.old => node[t] = j.new /\ fp'[t] = j.new
      BY <1>1, <1>2, <2>1, <2>2 DEF JobSure, Advance, Types, RowsOK
    <3>3. fp[t] # j.old => fp'[t] = fp[t]
      BY <1>1, <2>2 DEF Advance
    <3>4. QED
      BY <3>1, <3>2, <3>3
  <2>3. CASE j.op # "client"
    BY <1>1, <1>2, <2>1, <2>3 DEF JobSure, Types, RowsOK
  <2>4. QED
    BY <2>2, <2>3
<1>7. \A d \in Editor : d # e /\ InHand(d) => job[d].tag # t \/ t \in doubt
  BY <1>2 DEF EqualInv, Apart
<1> HIDE DEF j
<1>8. JobsSure'
  <2>1. JobSure(e)'
    BY <1>3 DEF JobSure, InHand
  <2>2. ASSUME NEW d \in Editor, d # e PROVE JobSure(d)'
    <3>1. JobSure(d) /\ job'[d] = job[d]
      BY <1>3, <2>2 DEF EqualInv, JobsSure
    <3>2. CASE job[d].pc = "record"
      <4>1. job[d].tag \in Tag /\ InHand(d)
        BY <3>2, JobTag DEF InHand
      <4>2. job[d].tag \in doubt \/ fp'[job[d].tag] = fp[job[d].tag]
        BY <1>4, <1>7, <2>2, <4>1
      <4>3. QED
        BY <1>1, <1>5, <3>1, <4>2, JobKeeps
    <3>3. CASE job[d].pc # "record"
      BY <1>1, <1>5, <3>1, <3>3, JobKeeps
    <3>4. QED
      BY <3>2, <3>3
  <2>3. QED
    BY <2>1, <2>2 DEF JobsSure
<1>9. \A u \in Tag : /\ u # t /\ JobOn(u) => JobOn(u)'
                     /\ (SyncOn(u)' => SyncOn(u)) /\ (Awaited(u) => Awaited(u)')
  BY <1>1, <1>3 DEF JobOn, SyncOn, Awaited, j
<1>10. Apart'
  BY <1>3, <1>5, <1>9, ApartFrame DEF EqualInv
<1>11. PrintSure'
  BY <1>1, <1>4, <1>5, <1>6, <1>9 DEF EqualInv, PrintSure
<1>12. SameNode /\ SameRows /\ Sure' \subseteq Sure
  BY <1>1, <1>5 DEF SameNode, SameRows, Sure
<1>13. ReconcileSure' /\ SnapSure' /\ CleanSure'
  BY <1>1, <1>5, <1>12, ReconcileFrame, SnapFrame, CleanFrame DEF EqualInv
<1>14. QED
  BY <1>8, <1>10, <1>11, <1>13 DEF EqualInv

-----------------------------------------------------------------------------
(* The sync job *)

LEMMA BeginEqual ==
  ASSUME Types, EqualInv, Begin
  PROVE  EqualInv'
<1>1. /\ sync'.pc = IF dirty THEN "rows" ELSE "fetch"
      /\ sync'.adopted = adopted
  BY DEF Begin, SyncIdle
<1>2. /\ UNCHANGED <<db, node, fp, dirty, edited, adopted, job, doubt>> /\ sync.pc = "idle"
  BY DEF Begin, rowVars, cacheVars
<1>3. JobsSure' /\ Apart' /\ PrintSure' /\ CleanSure'
  BY <1>1, <1>2, SyncMoves
<1>4. ReconcileSure'
  BY <1>1, <1>2 DEF ReconcileSure, Underway, Reconciling, Listed, Arrived, Sent
<1>5. SnapSure'
  BY <1>1, SnapIdle
<1>6. QED
  BY <1>3, <1>4, <1>5 DEF EqualInv

LEMMA LoadRowsEqual ==
  ASSUME Types, EqualInv, LoadRows
  PROVE  EqualInv'
<1>1. sync.pc = "rows" /\ sync'.pc = "list" /\ sync'.adopted = sync.adopted
  BY DEF LoadRows, Types, SyncOK, SyncType
<1>2. UNCHANGED <<db, node, fp, dirty, edited, adopted, job, doubt>>
  BY DEF LoadRows, rowVars, cacheVars
<1>3. JobsSure' /\ Apart' /\ PrintSure' /\ CleanSure'
  BY <1>1, <1>2, SyncMoves
<1>4. ReconcileSure'
  BY <1>1, <1>2 DEF EqualInv, ReconcileSure, Underway, Reconciling, Listed, Arrived, Sent
<1>5. SnapSure'
  BY <1>1, SnapIdle
<1>6. QED
  BY <1>3, <1>4, <1>5 DEF EqualInv

LEMMA ListEqual ==
  ASSUME Types, EqualInv, List
  PROVE  EqualInv'
<1>1. /\ sync.pc = "list" /\ sync'.pc = "push" /\ sync'.adopted = sync.adopted
      /\ sync'.rows = sync.rows /\ sync'.list = ids' /\ sync'.todo = Present(sync.rows)
  BY DEF List, Types, SyncOK, SyncType
<1>2. UNCHANGED <<db, node, fp, dirty, edited, adopted, job>> /\ doubt \subseteq doubt'
  BY DEF List, rowVars
<1>3. JobsSure' /\ Apart' /\ PrintSure' /\ CleanSure'
  BY <1>1, <1>2, SyncMoves
<1>4. \A t \in Tag \ doubt' : sync.rows[t] = None => t \in ids' \/ node[t] = None
  BY DEF List, Present
<1>5. Sure' \subseteq Tag \ doubt'
  BY <1>2 DEF Sure, Types, SetsOK
<1>6. Underway' /\ Listed' /\ Arrived'
  BY <1>1, <1>2 DEF EqualInv, ReconcileSure, Underway, Reconciling, Listed, Arrived
<1>7. Sent'
  BY <1>1, <1>2, <1>4, <1>5 DEF Sent, Present
<1>8. SnapSure'
  BY <1>1, SnapIdle
<1>9. QED
  BY <1>3, <1>6, <1>7, <1>8 DEF EqualInv, ReconcileSure

LEMMA ListFailedEqual ==
  ASSUME Types, EqualInv, ListFailed
  PROVE  EqualInv'
<1>1. sync.pc = "list" /\ sync'.pc = "fetch"
  BY DEF ListFailed, SyncIdle
<1>2. UNCHANGED <<db, node, fp, dirty, edited, adopted, job, doubt>>
  BY DEF ListFailed, rowVars, cacheVars
<1>3. JobsSure' /\ Apart' /\ PrintSure' /\ CleanSure'
  BY <1>1, <1>2, SyncMoves
<1>4. QED
  BY <1>1, <1>3, ReconcileIdle, SnapIdle DEF EqualInv

\* What the reconcile skips is at the node.
LEMMA SkipEqual ==
  ASSUME Types, MarkInv, EqualInv, NEW t \in Tag, Skip(t)
  PROVE  EqualInv'
<1>1. /\ sync.pc = "push" /\ sync'.pc = "push" /\ sync'.adopted = sync.adopted
      /\ sync'.rows = sync.rows /\ sync'.list = sync.list /\ sync'.todo = sync.todo \ {t}
      /\ sync'.at = sync.at /\ sync'.err = sync.err
      /\ t \in sync.todo /\ fp[t] = sync.rows[t]
  BY DEF Skip, Unchanged, Types, SyncOK, SyncType
<1>2. UNCHANGED <<db, node, fp, dirty, dirtyAt, edited, adopted, job, doubt>>
  BY DEF Skip, rowVars, cacheVars
<1>3. JobsSure' /\ Apart' /\ PrintSure' /\ CleanSure'
  BY <1>1, <1>2, SyncMoves
<1>4. sync.rows[t] # None
  BY <1>1 DEF EqualInv, ReconcileSure, Listed, Present
<1>5. Current /\ t \in Sure => node[t] = sync.rows[t]
  <2> SUFFICES ASSUME Current, t \in Sure PROVE node[t] = sync.rows[t]
    OBVIOUS
  <2>1. t \notin doubt /\ sync.rows[t] = db[t]
    BY <1>1 DEF Sure, Current, MarkInv, Reconciling
  <2>2. CASE JobOn(t)
    <3>1. PICK e \in Editor : job[e].pc = "record" /\ job[e].tag = t
      BY <2>2 DEF JobOn
    <3>2. JobSure(e)
      BY DEF EqualInv, JobsSure
    <3>3. QED
      BY <1>1, <2>1, <3>1, <3>2 DEF JobSure, InHand
  <2>3. CASE ~JobOn(t)
    BY <1>1, <1>4, <2>1, <2>3 DEF EqualInv, PrintSure, Awaited
  <2>4. QED
    BY <2>2, <2>3
<1>6. Underway' /\ Listed' /\ Arrived'
  BY <1>1, <1>2 DEF EqualInv, ReconcileSure, Underway, Reconciling, Listed, Arrived
<1>7. Sent'
  BY <1>1, <1>2, <1>4, <1>5 DEF EqualInv, ReconcileSure, Sent, Current, Sure
<1>8. SnapSure'
  BY <1>1, SnapIdle
<1>9. QED
  BY <1>3, <1>6, <1>7, <1>8 DEF EqualInv, ReconcileSure

\* What it does not have to sweep is not at the node.
LEMMA EndPushEqual ==
  ASSUME Types, MarkInv, EqualInv, EndPush
  PROVE  EqualInv'
<1>1. /\ sync.pc = "push" /\ sync'.pc = "sweep" /\ sync'.adopted = sync.adopted
      /\ sync'.rows = sync.rows /\ sync'.list = sync.list /\ sync'.todo = Unwanted
      /\ sync'.at = sync.at /\ sync'.err = sync.err /\ sync.todo = {}
  BY DEF EndPush, Types, SyncOK, SyncType
<1>2. UNCHANGED <<db, node, fp, dirty, dirtyAt, edited, adopted, job, doubt>>
  BY DEF EndPush, rowVars, cacheVars
<1>3. JobsSure' /\ Apart' /\ PrintSure' /\ CleanSure'
  BY <1>1, <1>2, SyncMoves
<1>4. sync.adopted = adopted
  BY <1>1 DEF EqualInv, ReconcileSure, Underway, Reconciling
<1>5. ASSUME Current, NEW t \in Sure PROVE t \in Unwanted \/ node[t] = sync.rows[t]
  <2>1. sync.rows[t] = db[t] /\ t \in Tag
    BY <1>1, <1>5 DEF Current, Sure, MarkInv, Reconciling, Types, SetsOK
  <2>2. sync.rows[t] = None => adopted
    BY <2>1 DEF EqualInv, CleanSure
  <2>3. QED
    BY <1>1, <1>4, <1>5, <2>1, <2>2 DEF EqualInv, ReconcileSure, Sent, Unwanted, Present
<1>6. Underway' /\ Listed' /\ Arrived'
  BY <1>1, <1>2 DEF EqualInv, ReconcileSure, Underway, Reconciling, Listed, Arrived, Unwanted
<1>7. Sent'
  BY <1>1, <1>2, <1>5 DEF Sent, Current, Sure
<1>8. SnapSure'
  BY <1>1, SnapIdle
<1>9. QED
  BY <1>3, <1>6, <1>7, <1>8 DEF EqualInv, ReconcileSure

\* A request of the sync job has reached the node, which has now what the
\* panel's rows say of this inbound; nobody else is waiting for it.
LEMMA Delivered ==
  ASSUME Types, EqualInv, NEW t \in Tag, t \in sync.todo,
         UNCHANGED <<db, fp, dirty, dirtyAt, edited, adopted, job>>,
         node' = [node EXCEPT ![t] = sync.rows[t]], doubt \subseteq doubt',
         JobOn(t) => t \in doubt',
         sync'.tag = t, sync'.todo = sync.todo \ {t}, sync'.adopted = sync.adopted,
         sync'.rows = sync.rows, sync'.list = sync.list, sync'.at = sync.at, sync'.err = sync.err,
         \/ sync.pc = "push" /\ sync'.pc = "pushed"
         \/ sync.pc = "sweep" /\ sync'.pc = "swept"
  PROVE  EqualInv'
<1>1. node'[t] = sync.rows[t] /\ \A u \in Tag : u # t => node'[u] = node[u]
  BY DEF Types, RowsOK
<1>2. JobsSure'
  <2> SUFFICES ASSUME NEW e \in Editor PROVE JobSure(e)'
    BY DEF JobsSure
  <2>1. JobSure(e)
    BY DEF EqualInv, JobsSure
  <2>2. CASE job[e].pc = "record"
    <3>1. job[e].tag \in Tag /\ (job[e].tag = t => t \in doubt')
      BY <2>2, JobTag DEF JobOn
    <3>2. QED
      BY <1>1, <2>1, <3>1, JobKeeps
  <2>3. CASE job[e].pc # "record"
    BY <2>1, <2>3, JobKeeps
  <2>4. QED
    BY <2>2, <2>3
<1>3. \A u \in Tag : /\ JobOn(u)' <=> JobOn(u)
                     /\ ~Awaited(u) /\ (SyncOn(u)' => u = t)
  BY DEF JobOn, Awaited, SyncOn
<1>4. Apart'
  BY <1>3 DEF EqualInv, Apart, InHand
<1>5. PrintSure'
  BY <1>1, <1>3 DEF EqualInv, PrintSure, Awaited
<1>6. Sure' \subseteq Sure /\ Sure \subseteq Tag
  BY DEF Sure, Types, SetsOK
<1>7. Underway' /\ Listed' /\ Arrived' /\ dirty
  BY <1>1 DEF EqualInv, ReconcileSure, Underway, Reconciling, Listed, Arrived
<1>8. sync.pc = "push" => sync.rows[t] # None
  BY DEF EqualInv, ReconcileSure, Listed, Present
<1>9. Sent'
  BY <1>1, <1>6, <1>8 DEF EqualInv, ReconcileSure, Sent, Current
<1>10. CleanSure'
  BY <1>6, <1>7 DEF EqualInv, CleanSure
<1>11. SnapSure'
  BY SnapIdle
<1>12. QED
  BY <1>2, <1>4, <1>5, <1>7, <1>9, <1>10, <1>11 DEF EqualInv, ReconcileSure

LEMMA PushEqual ==
  ASSUME Types, EqualInv, NEW t \in Tag, Push(t)
  PROVE  EqualInv'
<1>1. /\ sync.pc = "push" /\ t \in sync.todo /\ node' = [node EXCEPT ![t] = sync.rows[t]]
      /\ sync' = [sync EXCEPT !.pc = "pushed", !.tag = t, !.todo = @ \ {t}]
      /\ doubt \subseteq doubt' /\ (JobOn(t) => t \in doubt')
      /\ UNCHANGED <<db, fp, dirty, dirtyAt, edited, adopted, job>>
  BY DEF Push, rowVars
<1>2. /\ sync'.pc = "pushed" /\ sync'.tag = t /\ sync'.todo = sync.todo \ {t}
      /\ sync'.adopted = sync.adopted /\ sync'.rows = sync.rows /\ sync'.list = sync.list
      /\ sync'.at = sync.at /\ sync'.err = sync.err
  BY <1>1 DEF Types, SyncOK, SyncType
<1>3. QED
  BY <1>1, <1>2, Delivered

LEMMA SweepEqual ==
  ASSUME Types, EqualInv, NEW t \in Tag, Sweep(t)
  PROVE  EqualInv'
<1>1. sync.pc = "sweep" /\ t \in sync.todo /\ UNCHANGED <<db, fp, dirty, dirtyAt, edited, adopted, job>>
  BY DEF Sweep, rowVars
<1>2. sync.rows[t] = None
  BY <1>1 DEF EqualInv, ReconcileSure, Listed, Present
<1>3. CASE t \in Resolved(t)
  <2>1. /\ node' = [node EXCEPT ![t] = sync.rows[t]]
        /\ sync' = [sync EXCEPT !.pc = "swept", !.tag = t, !.todo = @ \ {t}]
        /\ doubt \subseteq doubt' /\ (JobOn(t) => t \in doubt')
    BY <1>2, <1>3 DEF Sweep
  <2>2. /\ sync'.pc = "swept" /\ sync'.tag = t /\ sync'.todo = sync.todo \ {t}
        /\ sync'.adopted = sync.adopted /\ sync'.rows = sync.rows /\ sync'.list = sync.list
        /\ sync'.at = sync.at /\ sync'.err = sync.err
    BY <2>1 DEF Types, SyncOK, SyncType
  <2>3. QED
    BY <1>1, <2>1, <2>2, Delivered
<1>4. CASE t \notin Resolved(t)
  <2>1. sync' = [sync EXCEPT !.todo = @ \ {t}] /\ UNCHANGED <<node, doubt>>
    BY <1>4 DEF Sweep
  <2>2. /\ sync'.pc = "sweep" /\ sync'.todo = sync.todo \ {t}
        /\ sync'.adopted = sync.adopted /\ sync'.rows = sync.rows /\ sync'.list = sync.list
        /\ sync'.at = sync.at /\ sync'.err = sync.err
    BY <1>1, <2>1 DEF Types, SyncOK, SyncType
  <2>3. node[t] = None
    BY <1>4 DEF Resolved, Present
  <2>4. JobsSure' /\ Apart' /\ PrintSure' /\ CleanSure'
    BY <1>1, <2>1, <2>2, SyncMoves
  <2>5. Underway' /\ Listed' /\ Arrived'
    BY <1>1, <2>1, <2>2 DEF EqualInv, ReconcileSure, Underway, Reconciling, Listed, Arrived
  <2>6. Sent'
    BY <1>1, <1>2, <2>1, <2>2, <2>3 DEF EqualInv, ReconcileSure, Sent, Current, Sure
  <2>7. SnapSure'
    BY <2>2, SnapIdle
  <2>8. QED
    BY <2>4, <2>5, <2>6, <2>7 DEF EqualInv, ReconcileSure
<1>5. QED
  BY <1>3, <1>4

\* The answer to a request of the sync job: the fingerprint is the node's row.
LEMMA AnsweredEqual ==
  ASSUME Types, EqualInv, Answered
  PROVE  EqualInv'
<1> SUFFICES ASSUME NEW t \in Tag, sync.tag = t PROVE EqualInv'
  BY DEF Answered, Types, SyncOK
<1>1. UNCHANGED <<db, node, dirty, dirtyAt, edited, adopted, job, doubt>>
  BY DEF Answered, rowVars
<1>2. /\ sync'.todo = sync.todo /\ sync'.adopted = sync.adopted /\ sync'.rows = sync.rows
      /\ sync'.list = sync.list /\ sync'.at = sync.at /\ sync'.err = sync.err
      /\ \/ sync.pc = "pushed" /\ sync'.pc = "push" /\ fp' = [fp EXCEPT ![t] = sync.rows[t]]
         \/ sync.pc = "swept" /\ sync'.pc = "sweep" /\ fp' = [fp EXCEPT ![t] = None]
  BY DEF Answered, Types, SyncOK, SyncType
<1>3. fp'[t] \in {None, sync.rows[t]} /\ (fp'[t] = None \/ sync.pc = "pushed")
  BY <1>2 DEF Types, RowsOK
<1>4. \A u \in Tag : u # t => fp'[u] = fp[u]
  BY <1>2 DEF Types, RowsOK
<1>5. t \notin doubt => fp'[t] \in {None, node[t]}
  BY <1>3 DEF EqualInv, ReconcileSure, Arrived
<1>6. JobOn(t) => t \in doubt
  BY <1>2 DEF EqualInv, Apart, SyncOn
<1>7. JobsSure'
  <2> SUFFICES ASSUME NEW e \in Editor PROVE JobSure(e)'
    BY DEF JobsSure
  <2>1. JobSure(e)
    BY DEF EqualInv, JobsSure
  <2>2. CASE job[e].pc = "record"
    <3>1. job[e].tag \in Tag /\ (job[e].tag = t => t \in doubt)
      BY <1>6, <2>2, JobTag DEF JobOn
    <3>2. job[e].tag \in doubt' \/ fp'[job[e].tag] = fp[job[e].tag]
      BY <1>1, <1>4, <3>1
    <3>3. QED
      BY <1>1, <2>1, <3>2, JobKeeps
  <2>3. CASE job[e].pc # "record"
    BY <1>1, <2>1, <2>3, JobKeeps
  <2>4. QED
    BY <2>2, <2>3
<1>8. \A u \in Tag : (JobOn(u)' <=> JobOn(u)) /\ ~SyncOn(u)' /\ (Awaited(u) => u = t)
  BY <1>1, <1>2 DEF JobOn, SyncOn, Awaited
<1>9. Apart'
  BY <1>1, <1>8 DEF EqualInv, Apart, InHand
<1>10. PrintSure'
  BY <1>1, <1>4, <1>5, <1>8 DEF EqualInv, PrintSure
<1>11. Underway' /\ Listed' /\ Arrived'
  BY <1>1, <1>2 DEF EqualInv, ReconcileSure, Underway, Reconciling, Listed, Arrived
<1>12. Sent'
  BY <1>1, <1>2 DEF EqualInv, ReconcileSure, Sent, Current, Sure
<1>13. SnapSure'
  BY <1>2, SnapIdle
<1>14. CleanSure'
  BY <1>1, <1>2 DEF EqualInv, CleanSure, Sure
<1>15. QED
  BY <1>7, <1>9, <1>10, <1>11, <1>12, <1>13, <1>14 DEF EqualInv, ReconcileSure

\* A reconcile with an error does not clear the mark, and what it asked for
\* without an answer is in doubt.
LEMMA SyncErrorEqual ==
  ASSUME Types, EqualInv, SyncError
  PROVE  EqualInv'
<1>1. UNCHANGED <<db, node, fp, dirty, dirtyAt, edited, adopted, job>> /\ doubt \subseteq doubt'
  BY DEF SyncError, rowVars, cacheVars
<1> DEFINE Moved ==
      /\ sync'.err = TRUE /\ sync'.adopted = sync.adopted /\ sync'.rows = sync.rows
      /\ sync'.list = sync.list /\ sync'.todo \subseteq sync.todo
      /\ \/ sync.pc \in {"push", "pushed"} /\ sync'.pc = "push"
         \/ sync.pc \in {"sweep", "swept"} /\ sync'.pc = "sweep"
      /\ sync.pc \in {"pushed", "swept"} => sync.tag \in doubt'
<1>2. Moved
  <2>1. ASSUME NEW t \in sync.todo, sync.pc \in {"push", "sweep"},
               sync' = [sync EXCEPT !.err = TRUE, !.todo = @ \ {t}]
        PROVE  Moved
    BY <2>1 DEF Types, SyncOK, SyncType
  <2>2. CASE /\ sync.pc \in {"pushed", "swept"} /\ sync.tag \in doubt'
             /\ sync' = [sync EXCEPT !.pc = IF @ = "pushed" THEN "push" ELSE "sweep",
                                    !.err = TRUE, !.tag = None]
    BY <2>2 DEF Types, SyncOK, SyncType
  <2>3. QED
    BY <2>1, <2>2 DEF SyncError
<1>3. \A t \in Tag \ doubt' : (SyncOn(t)' => SyncOn(t)) /\ (Awaited(t) => Awaited(t)')
  BY <1>2 DEF SyncOn, Awaited
<1>4. /\ JobsSure' /\ Apart' /\ PrintSure'
      /\ SameNode /\ SameRows /\ Sure' \subseteq Sure
  BY <1>1, <1>3, SyncFrame
<1>5. CleanSure'
  BY <1>1, <1>2, <1>4, CleanFrame DEF EqualInv
<1>6. ReconcileSure'
  BY <1>1, <1>2 DEF EqualInv, ReconcileSure, Underway, Reconciling, Listed, Arrived, Sent, Current
<1>7. SnapSure'
  BY <1>2, SnapIdle
<1>8. QED
  BY <1>4, <1>5, <1>6, <1>7 DEF EqualInv

\* The mark is cleared when the node has every row that a marked edit wrote.
LEMMA ClearEqual ==
  ASSUME Types, MarkInv, EqualInv, Clear
  PROVE  EqualInv'
<1>1. /\ sync.pc = "sweep" /\ sync.todo = {}
      /\ UNCHANGED <<db, node, fp, edited, adopted, job, doubt>>
      /\ dirty' \/ (Current \/ ~dirty)
  BY DEF Clear, cacheVars, Current
<1>2. sync'.pc = "fetch"
  BY DEF Clear, SyncIdle
<1>3. /\ JobsSure' /\ Apart' /\ PrintSure'
      /\ SameNode /\ SameRows /\ Sure' \subseteq Sure
  BY <1>1, <1>2, SyncFrame DEF SyncOn, Awaited
<1>4. dirty
  BY <1>1 DEF EqualInv, ReconcileSure, Underway, Reconciling
<1>5. Current => \A t \in Sure : node[t] = db[t]
  <2> SUFFICES ASSUME Current, NEW t \in Sure PROVE node[t] = db[t]
    OBVIOUS
  <2>1. sync.rows[t] = db[t]
    BY <1>1 DEF Current, Sure, MarkInv, Reconciling
  <2>2. node[t] = sync.rows[t]
    BY <1>1 DEF EqualInv, ReconcileSure, Sent
  <2>3. QED
    BY <2>1, <2>2
<1>6. CleanSure'
  BY <1>1, <1>2, <1>4, <1>5 DEF EqualInv, CleanSure, Sure
<1>7. QED
  BY <1>2, <1>3, <1>6, ReconcileIdle, SnapIdle DEF EqualInv

LEMMA FetchEqual ==
  ASSUME Types, EqualInv, Fetch
  PROVE  EqualInv'
<1>1. /\ sync.pc = "fetch" /\ doubt \subseteq doubt'
      /\ UNCHANGED <<db, node, fp, dirty, edited, adopted, job>>
  BY DEF Fetch, rowVars, cacheVars
<1>2. \/ sync' = SyncIdle
      \/ sync' = [SyncIdle EXCEPT !.pc = "flag"]
      \/ sync' = [SyncIdle EXCEPT !.pc = "flag", !.snap = node]
  BY DEF Fetch
<1>3. sync'.pc \in {"flag", "idle"}
  BY FetchSync
<1>4. JobsSure' /\ Apart' /\ PrintSure' /\ CleanSure'
  BY <1>1, <1>3, SyncMoves
<1>5. sync'.snap = Empty \/ sync'.snap = node
  <2>1. /\ SyncIdle.snap = Empty /\ [SyncIdle EXCEPT !.pc = "flag"].snap = Empty
        /\ \A rows : [SyncIdle EXCEPT !.pc = "flag", !.snap = rows].snap = rows
    BY DEF SyncIdle
  <2>2. QED
    BY <1>2, <2>1
<1>6. SnapSure'
  <2>1. Empty' = Empty
    BY DEF Empty
  <2>2. QED
    BY <1>1, <1>3, <1>5, <2>1 DEF SnapSure
<1>7. QED
  BY <1>3, <1>4, <1>6, ReconcileIdle DEF EqualInv

\* The panel takes the node for clean, and the node is clean.
LEMMA ReadFlagEqual ==
  ASSUME Types, EqualInv, ReadFlag
  PROVE  EqualInv'
<1>1. sync.pc = "flag" /\ UNCHANGED <<db, node, fp, dirty, edited, adopted, job, doubt>>
  BY DEF ReadFlag, rowVars, cacheVars
<1>2. CASE dirty
  <2>1. sync'.pc = "idle"
    BY <1>2, IdlePC DEF ReadFlag
  <2>2. JobsSure' /\ Apart' /\ PrintSure' /\ CleanSure'
    BY <1>1, <2>1, SyncMoves
  <2>3. QED
    BY <2>1, <2>2, ReconcileIdle, SnapIdle DEF EqualInv
<1>3. CASE ~dirty
  <2>1. sync'.pc = "merge" /\ sync'.snap = sync.snap
    BY <1>3 DEF ReadFlag, Types, SyncOK, SyncType
  <2>2. JobsSure' /\ Apart' /\ PrintSure'
    BY <1>1, <2>1, SyncFrame DEF SyncOn, Awaited
  <2>3. CleanSure'
    BY <1>1, <1>3 DEF EqualInv, CleanSure, Sure
  <2>4. SnapSure'
    BY <1>1, <1>3, <2>1 DEF EqualInv, SnapSure
  <2>5. QED
    BY <2>1, <2>2, <2>3, <2>4, ReconcileIdle DEF EqualInv
<1>4. QED
  BY <1>2, <1>3

\* The merge takes over what the node has, which are the panel's own rows where
\* an edit has been marked.
LEMMA MergeRows ==
  ASSUME Types, EqualInv, Merge
  PROVE  /\ \A t \in Sure : db'[t] = db[t]
         /\ \A t \in Tag \ doubt : db'[t] # db[t] => sync.snap[t] = node[t]
<1>1. sync.pc = "merge" /\ db' = (IF sync.snap = Empty THEN db ELSE sync.snap)
  BY DEF Merge, Merged
<1>2. sync.snap = Empty \/ \A t \in Tag \ doubt : sync.snap[t] = node[t]
  BY <1>1 DEF EqualInv, SnapSure
<1>3. \A t \in Sure : t \in Tag \ doubt /\ node[t] = db[t]
  BY <1>1 DEF EqualInv, CleanSure, Sure, Types, SetsOK
<1>4. QED
  BY <1>1, <1>2, <1>3

LEMMA MergeEqual ==
  ASSUME Types, EqualInv, Merge
  PROVE  EqualInv'
<1>1. /\ sync.pc = "merge" /\ UNCHANGED <<node, fp, dirty, edited, adopted, job>>
      /\ doubt' = doubt \cup {t \in Tag : db'[t] # db[t] /\ InFlight(t, {})}
  BY DEF Merge, cacheVars
<1>2. /\ sync'.pc = "stamp" /\ sync'.snap = sync.snap
      /\ sync'.todo \subseteq {t \in Tag : db'[t] # db[t]}
  BY DEF Merge, Present, Types, SyncOK, SyncType
<1>3. /\ \A t \in Sure : db'[t] = db[t]
      /\ \A t \in Tag \ doubt : db'[t] # db[t] => sync.snap[t] = node[t]
  BY MergeRows
<1>4. doubt \subseteq doubt' /\ Sure' \subseteq Sure
  BY <1>1 DEF Sure
<1>5. \A e \in Editor : job[e].pc # "idle" =>
        job[e].tag \in Tag /\ (job[e].tag \in doubt' \/ db'[job[e].tag] = db[job[e].tag])
  BY <1>1, JobTag DEF InFlight
<1>6. JobsSure'
  <2> SUFFICES ASSUME NEW e \in Editor PROVE JobSure(e)'
    BY DEF JobsSure
  <2>1. JobSure(e)
    BY DEF EqualInv, JobsSure
  <2>2. QED
    BY <1>1, <1>4, <1>5, <2>1, JobKeeps
<1>7. \A t \in Tag : (JobOn(t)' <=> JobOn(t)) /\ (SyncOn(t)' => db'[t] # db[t])
  BY <1>1, <1>2 DEF JobOn, SyncOn
<1>8. \A t \in Tag : JobOn(t) => InFlight(t, {})
  BY DEF JobOn, InFlight
<1>9. Apart'
  BY <1>1, <1>4, <1>7, <1>8 DEF EqualInv, Apart, InHand
<1>10. PrintSure'
  BY <1>1, <1>4, <1>7 DEF EqualInv, PrintSure, Awaited
<1>11. SnapSure'
  BY <1>1, <1>2, <1>3, <1>4 DEF SnapSure
<1>12. CleanSure'
  BY <1>1, <1>2, <1>3, <1>4 DEF EqualInv, CleanSure
<1>13. QED
  BY <1>2, <1>6, <1>9, <1>10, <1>11, <1>12, ReconcileIdle DEF EqualInv

LEMMA StampEqual ==
  ASSUME Types, EqualInv, Stamp
  PROVE  EqualInv'
<1>1. /\ sync.pc = "stamp" /\ UNCHANGED <<db, node, dirty, edited, job, doubt>> /\ adopted'
      /\ fp' = [t \in Tag |-> IF t \in sync.todo THEN sync.snap[t] ELSE fp[t]]
  BY DEF Stamp, rowVars
<1>2. sync'.pc = "idle"
  BY IdlePC DEF Stamp
<1>3. \A t \in Tag \ doubt : t \in sync.todo => fp'[t] = node[t] /\ ~JobOn(t)
  BY <1>1 DEF EqualInv, SnapSure, Apart, SyncOn
<1>4. \A t \in Tag : t \notin sync.todo => fp'[t] = fp[t]
  BY <1>1
<1>5. JobsSure'
  <2> SUFFICES ASSUME NEW e \in Editor PROVE JobSure(e)'
    BY DEF JobsSure
  <2>1. JobSure(e)
    BY DEF EqualInv, JobsSure
  <2>2. CASE job[e].pc = "record"
    <3>1. job[e].tag \in Tag /\ JobOn(job[e].tag)
      BY <2>2, JobTag DEF JobOn
    <3>2. job[e].tag \in doubt' \/ fp'[job[e].tag] = fp[job[e].tag]
      BY <1>1, <1>3, <1>4, <3>1
    <3>3. QED
      BY <1>1, <2>1, <3>2, JobKeeps
  <2>3. CASE job[e].pc # "record"
    BY <1>1, <2>1, <2>3, JobKeeps
  <2>4. QED
    BY <2>2, <2>3
<1>6. \A t \in Tag : (JobOn(t)' <=> JobOn(t)) /\ ~SyncOn(t)' /\ ~Awaited(t)
  BY <1>1, <1>2 DEF JobOn, SyncOn, Awaited
<1>7. Apart'
  BY <1>1, <1>6, ApartFrame DEF EqualInv
<1>8. PrintSure'
  BY <1>1, <1>3, <1>4, <1>6 DEF EqualInv, PrintSure
<1>9. CleanSure'
  BY <1>1, <1>2 DEF EqualInv, CleanSure, Sure
<1>10. QED
  BY <1>2, <1>5, <1>7, <1>8, <1>9, ReconcileIdle, SnapIdle DEF EqualInv

-----------------------------------------------------------------------------
(* Outside the panel's control *)

LEMMA NodeEditEqual ==
  ASSUME Types, EqualInv, NEW t \in Tag, NEW row \in NodeRow, NodeEdit(t, row)
  PROVE  EqualInv'
<1>1. /\ UNCHANGED <<db, fp, dirty, dirtyAt, edited, adopted, sync, job>>
      /\ doubt' = doubt \cup {t} /\ node' = [node EXCEPT ![t] = row]
  BY DEF NodeEdit, rowVars, cacheVars
<1>2. SameNode /\ SamePrint /\ SameRows /\ Sure' \subseteq Sure /\ doubt \subseteq doubt'
  BY <1>1 DEF SameNode, SamePrint, SameRows, Sure, Types, RowsOK
<1>3. \A u \in Tag : (JobOn(u)' <=> JobOn(u)) /\ (SyncOn(u)' <=> SyncOn(u)) /\ (Awaited(u)' <=> Awaited(u))
  BY <1>1 DEF JobOn, SyncOn, Awaited
<1>4. JobsSure'
  BY <1>1, <1>2, JobFrame DEF EqualInv
<1>5. Apart' /\ PrintSure'
  BY <1>1, <1>2, <1>3, ApartFrame, PrintFrame DEF EqualInv
<1>6. ReconcileSure' /\ SnapSure' /\ CleanSure'
  BY <1>1, <1>2, ReconcileFrame, SnapFrame, CleanFrame DEF EqualInv
<1>7. QED
  BY <1>4, <1>5, <1>6 DEF EqualInv

LEMMA RestartEqual ==
  ASSUME Types, EqualInv, Restart
  PROVE  EqualInv'
<1>1. /\ UNCHANGED <<db, node, dirty, edited, adopted, doubt>>
      /\ sync' = SyncIdle /\ job' = [e \in Editor |-> JobIdle] /\ fp' = Empty
  BY DEF Restart, rowVars
<1>2. JobIdle.pc = "idle"
  BY DEF JobIdle
<1>3. sync'.pc = "idle" /\ \A e \in Editor : job'[e].pc = "idle"
  BY <1>1, <1>2, IdlePC
<1>4. JobsSure' /\ Apart'
  BY <1>3 DEF JobsSure, JobSure, InHand, Apart, JobOn
<1>5. PrintSure'
  BY <1>1 DEF PrintSure, Empty
<1>6. CleanSure'
  BY <1>1, <1>3 DEF EqualInv, CleanSure, Sure
<1>7. QED
  BY <1>3, <1>4, <1>5, <1>6, ReconcileIdle, SnapIdle DEF EqualInv

LEMMA LostEqual ==
  ASSUME Types, EqualInv, NEW e \in Editor, SendLost(e) \/ AnswerLost(e)
  PROVE  EqualInv'
<1>1. /\ job' = [job EXCEPT ![e] = JobIdle] /\ doubt \subseteq doubt'
      /\ UNCHANGED <<db, node, fp, dirty, dirtyAt, edited, adopted, sync>>
      /\ job[e].pc # "record" \/ job[e].tag \in doubt'
  BY DEF SendLost, AnswerLost, rowVars, cacheVars
<1>2. QED
  BY <1>1, GivenUp

LEMMA EqualInit == Init => EqualInv
<1> SUFFICES ASSUME Init PROVE EqualInv
  OBVIOUS
<1>1. JobIdle.pc = "idle" /\ SyncIdle.pc = "idle"
  BY DEF JobIdle, SyncIdle
<1>2. sync.pc = "idle" /\ \A e \in Editor : job[e].pc = "idle"
  BY <1>1 DEF Init
<1>3. JobsSure /\ Apart
  BY <1>2 DEF JobsSure, JobSure, InHand, Apart, JobOn
<1>4. PrintSure
  BY DEF Init, PrintSure, Empty
<1>5. ReconcileSure /\ SnapSure
  BY <1>2 DEF ReconcileSure, Underway, Reconciling, Listed, Arrived, Sent, SnapSure
<1>6. CleanSure
  BY DEF Init, CleanSure, Sure
<1>7. QED
  BY <1>3, <1>4, <1>5, <1>6 DEF EqualInv

LEMMA EqualStep == Types /\ MarkInv /\ EqualInv /\ [Next]_vars => EqualInv'
<1> SUFFICES ASSUME Types, MarkInv, EqualInv, [Next]_vars PROVE EqualInv'
  OBVIOUS
<1>1. CASE Edit
  <2>1. ASSUME NEW t \in Tag, NEW on \in BOOLEAN, Add(t, [on |-> on, clients |-> {}])
        PROVE  EqualInv'
    <3>1. [on |-> on, clients |-> {}] \in Content
      BY DEF Content
    <3>2. QED
      BY <2>1, <3>1, AddEqual
  <2>2. QED
    BY <1>1, <2>1, UpdateEqual, ReadEqual DEF Edit, Op
<1>2. ASSUME NEW e \in Editor, JobStep(e)
      PROVE  EqualInv'
  BY <1>2, CommitEqual, SendEqual, RecordEqual, LostEqual DEF JobStep
<1>3. CASE SyncStep
  BY <1>3, BeginEqual, LoadRowsEqual, ListEqual, ListFailedEqual, SkipEqual, PushEqual,
     SweepEqual, EndPushEqual, AnsweredEqual, SyncErrorEqual, ClearEqual, FetchEqual,
     ReadFlagEqual, MergeEqual, StampEqual DEF SyncStep
<1>4. CASE (\E t \in Tag, row \in NodeRow : NodeEdit(t, row)) \/ Restart
  BY <1>4, NodeEditEqual, RestartEqual
<1>5. CASE UNCHANGED vars
  <2>1. UNCHANGED <<db, node, fp, dirty, dirtyAt, edited, adopted, sync, job, doubt>>
    BY <1>5 DEF vars
  <2>2. SameNode /\ SamePrint /\ SameRows /\ Sure' \subseteq Sure
    BY <2>1 DEF SameNode, SamePrint, SameRows, Sure
  <2>3. JobsSure' /\ Apart' /\ PrintSure'
    BY <2>1, SyncFrame DEF SyncOn, Awaited
  <2>4. ReconcileSure' /\ SnapSure' /\ CleanSure'
    BY <2>1, <2>2, ReconcileFrame, SnapFrame, CleanFrame DEF EqualInv
  <2>5. QED
    BY <2>3, <2>4 DEF EqualInv
<1>6. QED
  BY <1>1, <1>2, <1>3, <1>4, <1>5 DEF Next

LEMMA EqualAlways == Spec => [](Types /\ MarkInv /\ EqualInv)
BY TypesInit, TypesStep, MarkInit, MarkStep, EqualInit, EqualStep, PTL DEF Spec

\* Without a mark the node has what the panel wrote last, whatever requests,
\* reconciles, lost messages and restarts came before.
THEOREM CleanNodeAgrees == Spec => []CleanMeansEqual
<1>1. EqualInv => CleanMeansEqual
  BY DEF EqualInv, CleanSure, CleanMeansEqual, Sure
<1>2. QED
  BY <1>1, EqualAlways, PTL

\* A merge leaves every marked edit in the panel's rows, however old its snapshot.
THEOREM MergeRestoresNothing == Spec => MergeKeepsEdits
<1> DEFINE Stays == sync.pc = "merge" /\ sync'.pc = "stamp" =>
                      \A t \in edited \ doubt : db'[t] = db[t]
<1>1. ASSUME Types, MarkInv, EqualInv, [Next]_vars
      PROVE  Stays
  <2> SUFFICES ASSUME sync.pc = "merge", sync'.pc = "stamp"
               PROVE  \A t \in edited \ doubt : db'[t] = db[t]
    OBVIOUS
  <2>1. SyncStep
    BY <1>1, IdlePC DEF Next, vars, Edit, Add, Update, Read, JobStep, Commit, Send, SendLost, Record,
       AnswerLost, NodeEdit, Restart
  <2>2. Merge
    BY <2>1 DEF SyncStep, Begin, LoadRows, List, ListFailed, Skip, Push, Sweep, EndPush, Answered,
       SyncError, Clear, Fetch, ReadFlag, Stamp
  <2>3. QED
    BY <1>1, <2>2, MergeRows DEF Sure
<1>2. Types /\ MarkInv /\ EqualInv /\ [Next]_vars => [Stays]_vars
  BY <1>1
<1>3. QED
  BY <1>2, EqualAlways, PTL DEF Spec, MergeKeepsEdits
=============================================================================
