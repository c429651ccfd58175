------------------------------ MODULE NodeSync ------------------------------
(***************************************************************************)
(* One remote node and the panel that owns its inbounds.  The panel keeps  *)
(* the desired rows in its database and a dirty mark with a time stamp     *)
(* (NodeService); edits are committed together with a mark and then, or    *)
(* not, pushed to the node over HTTP.  NodeTrafficSyncJob.syncOne pushes   *)
(* the rows of a dirty node again, clears the mark if nobody has marked    *)
(* the node since, and merges what the node reports: a clean panel takes   *)
(* over the node's configuration.                                          *)
(*                                                                         *)
(* Requests and answers can be lost, a node can report no inbound at all,  *)
(* its own operator can edit it, and the panel can be restarted.           *)
(***************************************************************************)
EXTENDS Naturals, FiniteSets

CONSTANTS
  Tag, Client,
  Editor,     \* API requests that can run at the same time
  None,       \* no row
  MaxEdits,   \* bound: edits of the panel
  MaxFaults   \* bound: lost messages, blank lists, node edits and restarts

ASSUME NodeSyncAssumption ==
  /\ MaxEdits \in Nat /\ MaxFaults \in Nat
  /\ None \notin Tag /\ None \notin [on : BOOLEAN, clients : SUBSET Client]

VARIABLES
  db,       \* the panel's inbounds with this node_id
  node,     \* the node's own inbounds
  dirty, dirtyAt, adopted, \* config_dirty, config_dirty_at, inbounds_adopted_at # 0
  fp, ids,  \* Remote.pushedFP and the tags of Remote.remoteIDByTag
  sync,     \* the sync job, which runs once at a time
  job,      \* the edits under way
  edits, faults,
  edited,   \* history: tags whose last edit was marked
  native,   \* history: the node's first inbounds that the panel has not had yet
  doubt     \* history: tags on which the panel may have been misled

rowVars == <<db, dirty, dirtyAt, edited>>
cacheVars == <<fp, ids>>
vars == <<db, node, dirty, dirtyAt, adopted, fp, ids, sync, job,
          edits, faults, edited, native, doubt>>

Content == [on : BOOLEAN, clients : SUBSET Client]
Row == Content \cup {None}
Present(rows) == {t \in Tag : rows[t] # None}
Empty == [t \in Tag |-> None]

SyncIdle ==
  [pc |-> "idle", at |-> 0, adopted |-> FALSE, rows |-> Empty, list |-> {},
   todo |-> {}, tag |-> None, err |-> FALSE, snap |-> Empty]

JobIdle == [pc |-> "idle", op |-> "none", tag |-> None, old |-> None, new |-> None]

Init ==
  /\ db = Empty
  /\ node \in [Tag -> {None, [on |-> TRUE, clients |-> {}]}]
  /\ dirty = FALSE /\ dirtyAt = 0 /\ adopted = FALSE
  /\ fp = Empty /\ ids = {}
  /\ sync = SyncIdle
  /\ job = [e \in Editor |-> JobIdle]
  /\ edits = 0 /\ faults = 0
  /\ edited = {} /\ native = Present(node) /\ doubt = {}

Fault == faults < MaxFaults /\ faults' = faults + 1

-----------------------------------------------------------------------------
(* Edits of the panel *)

InFlight(t, except) == \E e \in Editor \ except : job[e].pc # "idle" /\ job[e].tag = t

\* MarkNodeDirtyTx, in the transaction of the edit; stamps are taken as distinct.
Mark(t) ==
  /\ dirty' = TRUE /\ dirtyAt' = dirtyAt + 1
  /\ edited' = edited \cup {t}

\* Cases in which an edit may be undone although it is marked: the merge has
\* read the mark already, another request on the tag is on its way, or a
\* deletion comes before the node's first adoption.
Misled(t, row, except) ==
  \/ sync.pc = "merge"
  \/ InFlight(t, except)
  \/ row = None /\ ~adopted

Write(t, row, except) ==
  /\ db' = [db EXCEPT ![t] = row]
  /\ native' = native \ {t}
  /\ doubt' = IF Misled(t, row, except) THEN doubt \cup {t} ELSE doubt

\* AddInbound does not push to a node, and marks it for an enabled inbound only.
Add(t, row) ==
  /\ edits < MaxEdits /\ edits' = edits + 1
  /\ db[t] = None
  /\ Write(t, row, {})
  /\ IF row.on THEN Mark(t)
     ELSE edited' = edited \ {t} /\ UNCHANGED <<dirty, dirtyAt>>
  /\ UNCHANGED <<node, adopted, cacheVars, sync, job, faults>>

\* UpdateInbound does not push to a node either.
Update(t, row) ==
  /\ edits < MaxEdits /\ edits' = edits + 1
  /\ db[t] \notin {None, row}
  /\ Write(t, row, {})
  /\ Mark(t)
  /\ UNCHANGED <<node, adopted, cacheVars, sync, job, faults>>

\* What SetInboundEnable, DelInbound and the client edits make of a row.
Edited(op, row) ==
  CASE op = "enable" -> {[row EXCEPT !.on = ~@]}
    [] op = "client" -> {[row EXCEPT !.clients = @ \cup {c}] : c \in Client \ row.clients}
                        \cup {[row EXCEPT !.clients = @ \ {c}] : c \in row.clients}
    [] op = "delete" -> {None}

\* They read the row before their transaction; client edits hold lockInbound.
Read(e, t, op) ==
  /\ job[e].pc = "idle" /\ db[t] # None
  /\ edits < MaxEdits /\ edits' = edits + 1
  /\ op = "client" => \A f \in Editor : ~(job[f].op = "client" /\ job[f].tag = t)
  /\ \E new \in Edited(op, db[t]) :
       job' = [job EXCEPT ![e] =
                 [pc |-> "commit", op |-> op, tag |-> t, old |-> db[t], new |-> new]]
  /\ UNCHANGED <<rowVars, node, adopted, cacheVars, sync, faults, native, doubt>>

\* SetInboundEnable updates one column of a row that is there, the others save
\* or delete the whole row.
Committed(j) ==
  IF j.op # "enable" THEN j.new
  ELSE IF db[j.tag] = None THEN None ELSE [db[j.tag] EXCEPT !.on = j.new.on]

\* nodePushPlan: nothing is pushed to a node that is offline or disabled.
Commit(e) ==
  LET j == job[e] IN
  /\ j.pc = "commit"
  /\ Write(j.tag, Committed(j), {e})
  /\ Mark(j.tag)
  /\ \E next \in {[j EXCEPT !.pc = "send"], JobIdle} : job' = [job EXCEPT ![e] = next]
  /\ UNCHANGED <<node, adopted, cacheVars, sync, edits, faults>>

-----------------------------------------------------------------------------
(* Requests to the node *)

\* resolveRemoteID asks the node for its list if the tag is not cached.
Resolved(t) == IF t \in ids THEN ids ELSE Present(node)

\* An id of a row that is gone is refused by the node.
Refused(t) == t \in ids /\ node[t] = None

\* The per-client requests change the clients of the node's row only.
Applied(j) ==
  IF j.op # "client" THEN j.new
  ELSE IF node[j.tag] = None THEN None
  ELSE [node[j.tag] EXCEPT !.clients = (@ \ (j.old.clients \ j.new.clients))
                                       \cup (j.new.clients \ j.old.clients)]

\* The requests of an edit that count as done: UpdateInbound (or AddInbound
\* for an unknown tag), DelInbound, AddClient, and DeleteUser, which takes
\* "not found" for success.
Accepted(j) ==
  CASE j.op = "enable" -> ~Refused(j.tag)
    [] j.op = "client" -> \/ node[j.tag] # None
                          \/ Refused(j.tag) /\ j.new.clients \subseteq j.old.clients
    [] j.op = "delete" -> j.tag \in Resolved(j.tag)

SyncOn(t) ==
  \/ sync.pc \in {"pushed", "swept"} /\ sync.tag = t
  \/ sync.pc = "stamp" /\ t \in sync.todo

Send(e) ==
  LET j == job[e] IN
  /\ j.pc = "send"
  /\ ids' = Resolved(j.tag)
  /\ IF Accepted(j)
     THEN /\ node' = [node EXCEPT ![j.tag] = Applied(j)]
          /\ job' = [job EXCEPT ![e].pc = "record"]
          /\ doubt' = IF SyncOn(j.tag) THEN doubt \cup {j.tag} ELSE doubt
     ELSE job' = [job EXCEPT ![e] = JobIdle] /\ UNCHANGED <<node, doubt>>
  /\ UNCHANGED <<rowVars, adopted, fp, sync, edits, faults, native>>

\* A request that does not reach the node is logged; the mark stays.
SendLost(e) ==
  /\ job[e].pc = "send" /\ Fault
  /\ job' = [job EXCEPT ![e] = JobIdle]
  /\ UNCHANGED <<rowVars, node, adopted, cacheVars, sync, edits, native, doubt>>

\* Mutant: the fingerprint advances whatever was recorded before.
MutAdvance(j) == [fp EXCEPT ![j.tag] = j.new]

\* AdvancePushedInbound.
Advance(j) == IF fp[j.tag] = j.old THEN [fp EXCEPT ![j.tag] = j.new] ELSE fp

\* The node had another row than the edit was made from, and the fingerprint of
\* that one stays although the node's row has changed.
StaleFP(j) == j.op = "client" /\ fp[j.tag] \notin {None, j.old}

\* recordPushedInbound, AdvancePushedInbound or cacheDel, after the answer.
Record(e) ==
  LET j == job[e] IN
  /\ j.pc = "record"
  /\ doubt' = IF StaleFP(j) THEN doubt \cup {j.tag} ELSE doubt
  /\ fp' = IF j.op = "client" THEN Advance(j) ELSE [fp EXCEPT ![j.tag] = j.new]
  /\ ids' = CASE j.op = "enable" -> ids \cup {j.tag}
              [] j.op = "client" -> ids
              [] j.op = "delete" -> ids \ {j.tag}
  /\ job' = [job EXCEPT ![e] = JobIdle]
  /\ UNCHANGED <<rowVars, node, adopted, sync, edits, faults, native>>

\* The answer is lost: the node has changed and the panel does not know.
AnswerLost(e) ==
  /\ job[e].pc = "record" /\ Fault
  /\ doubt' = doubt \cup {job[e].tag}
  /\ job' = [job EXCEPT ![e] = JobIdle]
  /\ UNCHANGED <<rowVars, node, adopted, cacheVars, sync, edits, native>>

-----------------------------------------------------------------------------
(* The sync job: reconcile *)

\* Run loads the node, then syncOne reconciles it if it is dirty.
Begin ==
  /\ sync.pc = "idle"
  /\ sync' = [SyncIdle EXCEPT !.pc = IF dirty THEN "rows" ELSE "fetch",
                              !.at = dirtyAt, !.adopted = adopted]
  /\ UNCHANGED <<rowVars, node, adopted, cacheVars, job, edits, faults, native, doubt>>

LoadRows ==
  /\ sync.pc = "rows"
  /\ sync' = [sync EXCEPT !.pc = "list", !.rows = db]
  /\ UNCHANGED <<rowVars, node, adopted, cacheVars, job, edits, faults, native, doubt>>

\* ListRemoteTags.  A blank list is believed: what the panel has deleted stays.
List ==
  /\ sync.pc = "list"
  /\ \/ /\ ids' = Present(node)
        /\ UNCHANGED <<faults, doubt>>
     \/ /\ Fault /\ ids' = {}
        /\ doubt' = doubt \cup (Present(node) \ Present(sync.rows))
  /\ sync' = [sync EXCEPT !.pc = "push", !.list = ids', !.todo = Present(sync.rows)]
  /\ UNCHANGED <<rowVars, node, adopted, fp, job, edits, native>>

\* ReconcileNode returns the error of the list; the poll goes on.
ListFailed ==
  /\ sync.pc = "list" /\ Fault
  /\ sync' = [SyncIdle EXCEPT !.pc = "fetch"]
  /\ UNCHANGED <<rowVars, node, adopted, cacheVars, job, edits, native, doubt>>

\* ReconcileInbound sends a row only if it differs from the last push.
Unchanged(t) == t \in sync.list /\ fp[t] = sync.rows[t]

Skip(t) ==
  /\ sync.pc = "push" /\ t \in sync.todo /\ Unchanged(t)
  /\ sync' = [sync EXCEPT !.todo = @ \ {t}]
  /\ UNCHANGED <<rowVars, node, adopted, cacheVars, job, edits, faults, native, doubt>>

JobOn(t) == \E e \in Editor : job[e].pc = "record" /\ job[e].tag = t

\* The node carries the request out; the panel has its answer in Answered.
Push(t) ==
  /\ sync.pc = "push" /\ t \in sync.todo /\ ~Unchanged(t) /\ ~Refused(t)
  /\ ids' = Resolved(t)
  /\ node' = [node EXCEPT ![t] = sync.rows[t]]
  /\ sync' = [sync EXCEPT !.pc = "pushed", !.tag = t, !.todo = @ \ {t}]
  /\ doubt' = IF JobOn(t) THEN doubt \cup {t} ELSE doubt
  /\ UNCHANGED <<rowVars, adopted, fp, job, edits, faults, native>>

\* Mutant: the sweep does not wait for the first adoption.
MutUnwanted == sync.list \ Present(sync.rows)

\* What the panel does not have is deleted at the node, but not before the first
\* adoption.
Unwanted == IF sync.adopted THEN sync.list \ Present(sync.rows) ELSE {}

EndPush ==
  /\ sync.pc = "push" /\ sync.todo = {}
  /\ sync' = [sync EXCEPT !.pc = "sweep", !.todo = Unwanted]
  /\ UNCHANGED <<rowVars, node, adopted, cacheVars, job, edits, faults, native, doubt>>

Sweep(t) ==
  /\ sync.pc = "sweep" /\ t \in sync.todo
  /\ ids' = Resolved(t)
  /\ IF t \in Resolved(t)
     THEN /\ node' = [node EXCEPT ![t] = None]
          /\ sync' = [sync EXCEPT !.pc = "swept", !.tag = t, !.todo = @ \ {t}]
          /\ doubt' = IF JobOn(t) THEN doubt \cup {t} ELSE doubt
     ELSE sync' = [sync EXCEPT !.todo = @ \ {t}] /\ UNCHANGED <<node, doubt>>
  /\ UNCHANGED <<rowVars, adopted, fp, job, edits, faults, native>>

\* recordPushedInbound with cacheSet, or cacheDel.
Answered ==
  /\ \/ /\ sync.pc = "pushed"
        /\ fp' = [fp EXCEPT ![sync.tag] = sync.rows[sync.tag]]
        /\ ids' = ids \cup {sync.tag}
        /\ sync' = [sync EXCEPT !.pc = "push", !.tag = None]
     \/ /\ sync.pc = "swept"
        /\ fp' = [fp EXCEPT ![sync.tag] = None]
        /\ ids' = ids \ {sync.tag}
        /\ sync' = [sync EXCEPT !.pc = "sweep", !.tag = None]
  /\ UNCHANGED <<rowVars, node, adopted, job, edits, faults, native, doubt>>

\* A request that fails is remembered and the others go on.
SyncError ==
  \/ /\ sync.pc \in {"push", "sweep"}
     /\ \E t \in sync.todo :
          /\ \/ sync.pc = "push" /\ ~Unchanged(t) /\ Refused(t) /\ UNCHANGED faults
             \/ ~(sync.pc = "push" /\ Unchanged(t)) /\ Fault
          /\ sync' = [sync EXCEPT !.err = TRUE, !.todo = @ \ {t}]
     /\ UNCHANGED <<rowVars, node, adopted, cacheVars, job, edits, native, doubt>>
  \/ /\ sync.pc \in {"pushed", "swept"} /\ Fault
     /\ sync' = [sync EXCEPT !.pc = IF @ = "pushed" THEN "push" ELSE "sweep",
                             !.err = TRUE, !.tag = None]
     /\ doubt' = doubt \cup {sync.tag}
     /\ UNCHANGED <<rowVars, node, adopted, cacheVars, job, edits, native>>

\* Mutant: the mark is cleared whatever its stamp.
MutClear ==
  /\ sync.pc = "sweep" /\ sync.todo = {}
  /\ dirty' = (dirty /\ sync.err)
  /\ sync' = [SyncIdle EXCEPT !.pc = "fetch"]
  /\ UNCHANGED <<db, edited, dirtyAt, node, adopted, cacheVars, job, edits, faults, native, doubt>>

\* ClearNodeDirty is a compare-and-swap on the stamp, after a clean reconcile.
Clear ==
  /\ sync.pc = "sweep" /\ sync.todo = {}
  /\ dirty' = IF ~sync.err /\ dirtyAt = sync.at THEN FALSE ELSE dirty
  /\ sync' = [SyncIdle EXCEPT !.pc = "fetch"]
  /\ UNCHANGED <<db, edited, dirtyAt, node, adopted, cacheVars, job, edits, faults, native, doubt>>

-----------------------------------------------------------------------------
(* The sync job: poll and merge *)

\* FetchTrafficSnapshot: what the node has, nothing at all, or a failure.
Fetch ==
  /\ sync.pc = "fetch"
  /\ \/ /\ sync' = [SyncIdle EXCEPT !.pc = "flag", !.snap = node]
        /\ UNCHANGED <<faults, doubt>>
     \/ /\ Fault /\ sync' = [SyncIdle EXCEPT !.pc = "flag"]
        /\ doubt' = IF adopted THEN doubt ELSE doubt \cup native
     \/ /\ Fault /\ sync' = SyncIdle
        /\ UNCHANGED doubt
  /\ UNCHANGED <<rowVars, node, adopted, cacheVars, job, edits, native>>

\* NodeSyncState: with a mark set nothing of the configuration is merged.
ReadFlag ==
  /\ sync.pc = "flag"
  /\ sync' = IF dirty THEN SyncIdle ELSE [sync EXCEPT !.pc = "merge"]
  /\ UNCHANGED <<rowVars, node, adopted, cacheVars, job, edits, faults, native, doubt>>

\* Mutant: a blank snapshot deletes like any other.
MutBlank == sync.snap

\* Mutant: rows that the node does not report are kept.
MutKeep == [t \in Tag |-> IF sync.snap[t] = None THEN db[t] ELSE sync.snap[t]]

\* setRemoteTrafficLocked: rows are created, changed and deleted as the node
\* reports; a snapshot without any inbound says nothing.
Merged == IF sync.snap = Empty THEN db ELSE sync.snap

\* The rows whose configuration changed are stamped after the commit.
Merge ==
  /\ sync.pc = "merge"
  /\ db' = Merged
  /\ native' = native \ Present(db')
  /\ sync' = [sync EXCEPT !.pc = "stamp",
                 !.todo = {t \in Present(db) \cap Present(db') : db'[t] # db[t]}]
  /\ doubt' = doubt \cup {t \in Tag : db'[t] # db[t] /\ InFlight(t, {})}
  /\ UNCHANGED <<node, dirty, dirtyAt, edited, adopted, cacheVars, job, edits, faults>>

\* RecordAdoptedInbound and MarkNodeInboundsAdopted.
Stamp ==
  /\ sync.pc = "stamp"
  /\ fp' = [t \in Tag |-> IF t \in sync.todo THEN sync.snap[t] ELSE fp[t]]
  /\ adopted' = TRUE
  /\ sync' = SyncIdle
  /\ UNCHANGED <<rowVars, node, ids, job, edits, faults, native, doubt>>

-----------------------------------------------------------------------------
(* Outside the panel's control *)

\* What the node's operator leaves there: nothing, or a row with no clients or all.
NodeRow == {None} \cup [on : {TRUE}, clients : {{}, Client}]

\* The node's operator creates, changes or deletes an inbound there.
NodeEdit(t, row) ==
  /\ Fault /\ row # node[t]
  /\ node' = [node EXCEPT ![t] = row]
  /\ native' = native \ {t}
  /\ doubt' = doubt \cup {t}
  /\ UNCHANGED <<rowVars, adopted, cacheVars, sync, job, edits>>

\* The panel is restarted: the database is what is left.
Restart ==
  /\ Fault
  /\ sync' = SyncIdle /\ job' = [e \in Editor |-> JobIdle]
  /\ fp' = Empty /\ ids' = {}
  /\ UNCHANGED <<rowVars, node, adopted, edits, native, doubt>>

Edit ==
  \/ \E t \in Tag, on \in BOOLEAN : Add(t, [on |-> on, clients |-> {}])
  \/ \E t \in Tag, row \in Content : Update(t, row)
  \/ \E e \in Editor, t \in Tag, op \in {"enable", "client", "delete"} : Read(e, t, op)

JobStep(e) == Commit(e) \/ Send(e) \/ SendLost(e) \/ Record(e) \/ AnswerLost(e)

SyncStep ==
  \/ Begin \/ LoadRows \/ List \/ ListFailed
  \/ \E t \in Tag : Skip(t) \/ Push(t) \/ Sweep(t)
  \/ EndPush \/ Answered \/ SyncError \/ Clear
  \/ Fetch \/ ReadFlag \/ Merge \/ Stamp

Next ==
  \/ Edit
  \/ \E e \in Editor : JobStep(e)
  \/ SyncStep
  \/ \E t \in Tag, row \in NodeRow : NodeEdit(t, row)
  \/ Restart

\* Requests end, and the job comes round again and again.
Fairness == WF_vars(SyncStep) /\ \A e \in Editor : WF_vars(JobStep(e))

Spec == Init /\ [][Next]_vars /\ Fairness

-----------------------------------------------------------------------------
(* Properties *)

SyncType ==
  [pc : {"idle", "rows", "list", "push", "pushed", "sweep", "swept",
         "fetch", "flag", "merge", "stamp"},
   at : Nat, adopted : BOOLEAN, rows : [Tag -> Row], list : SUBSET Tag,
   todo : SUBSET Tag, tag : Tag \cup {None}, err : BOOLEAN,
   snap : [Tag -> Row]]

JobType ==
  [pc : {"idle", "commit", "send", "record"},
   op : {"none", "enable", "client", "delete"},
   tag : Tag \cup {None}, old : Row, new : Row]

\* Types.  A row, a snapshot, a fingerprint and a request's payload are contents
\* or nothing, and the job and the requests are at a step of their code.
TypeOK ==
  /\ db \in [Tag -> Row] /\ node \in [Tag -> Row] /\ fp \in [Tag -> Row]
  /\ dirty \in BOOLEAN /\ dirtyAt \in Nat /\ adopted \in BOOLEAN
  /\ ids \subseteq Tag
  /\ sync \in SyncType
  /\ job \in [Editor -> JobType]
  /\ edits \in 0..MaxEdits /\ faults \in 0..MaxFaults
  /\ edited \subseteq Tag /\ native \subseteq Tag /\ doubt \subseteq Tag

\* The mark is cleared only by a reconcile that has sent every marked edit: what
\* it read from the database is what is there now (ClearNodeDirty).
ClearOnlyReconciled ==
  [][dirty /\ ~dirty' => ~sync.err /\ \A t \in edited : sync.rows[t] = db[t]]_vars

\* Without a mark, the node has what the panel wrote last: no edit is lost to a
\* request that failed, a reconcile it overlapped, a skipped push or a restart.
CleanMeansEqual == ~dirty => \A t \in edited \ doubt : node[t] = db[t]

\* The poll never undoes an edit, whenever it took its snapshot
\* (setRemoteTrafficLocked).
MergeKeepsEdits ==
  [][sync.pc = "merge" /\ sync'.pc = "stamp" => \A t \in edited \ doubt : db'[t] = db[t]]_vars

\* Inbounds the node had when it was added, and that the panel has not imported
\* yet, are never touched by the panel (ReconcileNode's adoption guard).
NativeUntouched ==
  [][\A t \in (native \cap native') \ doubt : node'[t] = node[t]]_vars

\* In the end no mark is left and both sides have the same inbounds, unless the
\* node reports none: requests that fail are repeated until they succeed.
Agree == <>[](~dirty /\ (db = node \/ node = Empty))

=============================================================================
