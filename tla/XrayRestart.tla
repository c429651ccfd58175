---------------------------- MODULE XrayRestart ----------------------------
(***************************************************************************)
(* The control plane around the Xray core of one panel process             *)
(* (internal/web/service/xray.go): who asks for a restart, how requests    *)
(* are remembered, and how one operation at a time brings the running core *)
(* to the configuration stored in the database.                            *)
(*                                                                         *)
(* A configuration is a function from handler tags to settings.  Hot tags  *)
(* (inbounds, outbounds, routing rules) can be changed through the core's  *)
(* gRPC API; cold tags (log, dns, policy, api, ...) need a new process.    *)
(* Three copies of the configuration exist: db, what GetXrayConfig builds; *)
(* snapshot, the Process.config the panel believes the core runs; core,    *)
(* what the core really runs.                                              *)
(*                                                                         *)
(* Shared-port plans are empty here: module XrayRuntime models the process *)
(* and the frontmux listeners that Stop and Start stand for in this one.   *)
(***************************************************************************)
EXTENDS Naturals

CONSTANTS
  HotTag,      \* handlers the core can add and remove at run time
  ColdTag,     \* sections that only a new process can change
  HotSetting,  \* contents of a hot handler
  ColdSetting, \* contents of a cold section
  Off,         \* no handler under this tag (inbound disabled or deleted)
  Editor,      \* HTTP handlers and jobs that edit the configuration
  Saver,       \* the editors that save the Xray template
  MaxEdits,    \* bound: number of committed edits
  MaxFaults    \* bound: failed API calls, failed starts and stops, crashes

Tag == HotTag \cup ColdTag
Setting == HotSetting \cup ColdSetting
Values(t) == IF t \in HotTag THEN HotSetting \cup {Off} ELSE ColdSetting

ASSUME XrayRestartAssumption ==
  /\ HotTag \cap ColdTag = {}
  /\ Off \notin Setting
  /\ Tag # {}
  /\ Saver \subseteq Editor
  /\ Editor \cap {"cron", "check", "panel", "traffic", "none"} = {}
  /\ MaxEdits \in Nat
  /\ MaxFaults \in Nat

Shape == [Tag -> Setting \cup {Off}]
Config == {c \in Shape : \A t \in Tag : c[t] \in Values(t)}

VARIABLES
  db,         \* the configuration the database asks for
  snapshot,   \* p.GetConfig()
  core,       \* what the live core has, meaningful while running
  running,    \* p.IsRunning()
  manual,     \* isManuallyStopped
  flag,       \* isNeedXrayRestart
  gen,        \* xrayRestartGeneration
  op,         \* the holder of xrayLifecycleMu
  edit,       \* per editor: the edit it is carrying out
  cron,       \* the 30-second job: idle, armed (flag consumed), busy (inside RestartXray)
  check,      \* CheckXrayRunningJob.checkTime, then armed and busy
  edits, faults,   \* counters for the bounds
  covered,    \* history: newest generation a successful RestartXray covered
  overtaken,  \* history: a request arrived between the two halves of finishXrayRestart
  unasked,    \* history: sections saved since the last build that asked for no restart,
              \*   because the core was down when updateSetting looked
  touched     \* history: tags whose live handler was changed behind the snapshot

coreVars == <<snapshot, core, running, touched>>
requestVars == <<flag, gen>>
history == <<covered, overtaken, unasked>>
vars == <<db, coreVars, manual, requestVars, op, edit, cron, check, edits,
          faults, history>>

Diff(c, d) == {t \in Tag : c[t] # d[t]}

Overlay(c, S, d) == [t \in Tag |-> IF t \in S THEN d[t] ELSE c[t]]

Without(c, S) == [t \in Tag |-> IF t \in S THEN Off ELSE c[t]]

NoOp == [pc |-> "idle", caller |-> "none", force |-> FALSE, pending |-> FALSE,
         startGen |-> 0, built |-> [t \in Tag |-> Off],
         wasRunning |-> FALSE]

NoEdit == [pc |-> "idle", kind |-> "none", tag |-> CHOOSE t \in Tag : TRUE,
           val |-> Off, need |-> FALSE]

\* An operation on its way to mark a failure; the rest of its state is dead.
Failed == [NoOp EXCEPT !.pc = "failInc", !.caller = op.caller]

Fault == /\ faults < MaxFaults
         /\ faults' = faults + 1

(***************************************************************************)
(* Initially StartTask's forced restart has completed: the core runs the   *)
(* stored configuration and nothing is pending.                            *)
(***************************************************************************)
Init ==
  /\ db \in Config
  /\ snapshot = db /\ core = db /\ running = TRUE
  /\ manual = FALSE /\ flag = FALSE /\ gen = 0
  /\ op = NoOp
  /\ edit = [e \in Editor |-> NoEdit]
  /\ cron = "idle" /\ check = 0
  /\ edits = 0 /\ faults = 0
  /\ covered = 0 /\ overtaken = FALSE /\ unasked = {} /\ touched = {}

-----------------------------------------------------------------------------
(***************************************************************************)
(* Editors.  An edit commits to the database, pushes the change to the     *)
(* live core through the API after the commit, and, when the push could    *)
(* not be completed, asks for a restart.                                   *)
(***************************************************************************)
Commit(e, kind, t, v, pc) ==
  /\ edit[e].pc = "idle"
  /\ edits < MaxEdits
  /\ edits' = edits + 1
  /\ db' = [db EXCEPT ![t] = v]
  /\ edit' = [edit EXCEPT ![e] = [pc |-> pc, kind |-> kind, tag |-> t,
                                  val |-> v, need |-> FALSE]]
  /\ UNCHANGED <<coreVars, manual, requestVars, op, cron, check, faults, history>>

\* SetInboundEnable: flip the flag, then DelInbound and, when enabling, AddInbound.
SetInboundEnable(e, t, v) ==
  /\ t \in HotTag
  /\ (db[t] = Off) # (v = Off)
  /\ Commit(e, "toggle", t, v, "del")

\* UpdateInbound of a local inbound: an error of its DelInbound is only logged.
UpdateInbound(e, t, v) ==
  /\ t \in HotTag
  /\ db[t] # v
  /\ Commit(e, "update", t, v, "del")

AddInbound(e, t, v) ==
  /\ t \in HotTag
  /\ db[t] = Off /\ v # Off
  /\ Commit(e, "add", t, v, "add")

DelInbound(e, t) ==
  /\ t \in HotTag
  /\ db[t] # Off
  /\ Commit(e, "delete", t, Off, "del")

\* Settings with no run-time API: commit, then SetToNeedRestart.
EditColdSection(e, t, v) ==
  /\ e \notin Saver
  /\ t \in ColdTag
  /\ v # db[t]
  /\ Commit(e, "cold", t, v, "inc")

\* updateSetting: save the template, then reconcile only a running core.
SaveTemplate(e, t, v) ==
  /\ e \in Saver
  /\ t \in ColdTag
  /\ v # db[t]
  /\ Commit(e, "save", t, v, "look")

\* What is left of an edit that asks for a restart is the request.
Settle(e, need) ==
  edit' = [edit EXCEPT ![e] = IF need THEN [NoEdit EXCEPT !.pc = "inc"] ELSE NoEdit]

AfterDel(e, need) ==
  IF edit[e].val = Off
  THEN Settle(e, need)
  ELSE edit' = [edit EXCEPT ![e].pc = "add", ![e].need = need]

\* rt.DelInbound succeeds.
PushDel(e) ==
  LET t == edit[e].tag IN
  /\ edit[e].pc = "del"
  /\ running /\ core[t] # Off
  /\ core' = [core EXCEPT ![t] = Off]
  /\ touched' = touched \cup {t}
  /\ AfterDel(e, edit[e].need)
  /\ UNCHANGED <<db, snapshot, running, manual, requestVars, op, cron, check,
                 edits, faults, history>>

\* The core has no such handler: only DelInbound treats that as a failure.
PushDelNotFound(e) ==
  /\ edit[e].pc = "del"
  /\ running /\ core[edit[e].tag] = Off
  /\ AfterDel(e, edit[e].kind = "delete")
  /\ UNCHANGED <<db, coreVars, manual, requestVars, op, cron, check, edits,
                 faults, history>>

\* No running core, or the call fails: UpdateInbound ignores the error.
PushDelFails(e) ==
  /\ edit[e].pc = "del"
  /\ IF running THEN Fault ELSE UNCHANGED faults
  /\ AfterDel(e, edit[e].kind # "update")
  /\ UNCHANGED <<db, coreVars, manual, requestVars, op, cron, check, edits, history>>

PushAdd(e) ==
  LET t == edit[e].tag IN
  /\ edit[e].pc = "add"
  /\ running /\ core[t] = Off
  /\ core' = [core EXCEPT ![t] = edit[e].val]
  /\ touched' = touched \cup {t}
  /\ Settle(e, edit[e].need)
  /\ UNCHANGED <<db, snapshot, running, manual, requestVars, op, cron, check,
                 edits, faults, history>>

\* No running core, a handler with this tag exists, or the call fails.
PushAddFails(e) ==
  /\ edit[e].pc = "add"
  /\ IF running /\ core[edit[e].tag] = Off THEN Fault ELSE UNCHANGED faults
  /\ Settle(e, TRUE)
  /\ UNCHANGED <<db, coreVars, manual, requestVars, op, cron, check, edits, history>>

\* markXrayRestartNeeded is two atomic operations: Inc the generation ...
MarkInc(e) ==
  /\ edit[e].pc = "inc"
  /\ gen' = gen + 1
  /\ edit' = [edit EXCEPT ![e].pc = "store"]
  /\ UNCHANGED <<db, coreVars, manual, flag, op, cron, check, edits, faults, history>>

\* ... then Store(true).
MarkStore(e) ==
  /\ edit[e].pc = "store"
  /\ flag' = TRUE
  /\ edit' = [edit EXCEPT ![e] = NoEdit]
  /\ UNCHANGED <<db, coreVars, manual, gen, op, cron, check, edits, faults, history>>

\* updateSetting looks at IsXrayRunning without xrayLifecycleMu.
LookRunning(e) ==
  /\ edit[e].pc = "look"
  /\ edit' = [edit EXCEPT ![e] = IF running THEN [@ EXCEPT !.pc = "call"] ELSE NoEdit]
  /\ unasked' = IF running THEN unasked ELSE unasked \cup {edit[e].tag}
  /\ UNCHANGED <<db, coreVars, manual, requestVars, op, cron, check, edits,
                 faults, covered, overtaken>>

-----------------------------------------------------------------------------
(***************************************************************************)
(* restartXray.  xrayLifecycleMu admits one operation at a time; Begin     *)
(* acquires it, loads the generation and clears isManuallyStopped.         *)
(***************************************************************************)
Begin(caller, force, pending) ==
  /\ op.pc = "idle"
  /\ op' = [NoOp EXCEPT !.pc = "build", !.caller = caller, !.force = force,
                        !.pending = pending, !.startGen = gen]
  /\ manual' = FALSE
  /\ UNCHANGED <<db, coreVars, requestVars, edits, faults, history>>

\* "Restart Xray" in the panel or the bot, and the traffic jobs' repair: RestartXray(true).
PanelRestart ==
  /\ Begin("panel", TRUE, TRUE)
  /\ UNCHANGED <<edit, cron, check>>

\* The traffic jobs after disabling clients: ReconcileXray.
TrafficReconcile ==
  /\ Begin("traffic", FALSE, FALSE)
  /\ UNCHANGED <<edit, cron, check>>

SaverRestart(e) ==
  /\ edit[e].pc = "call"
  /\ Begin(e, FALSE, TRUE)
  /\ edit' = [edit EXCEPT ![e].pc = "wait"]
  /\ UNCHANGED <<cron, check>>

\* IsNeedRestartAndSetFalse: CompareAndSwap(true, false).
CronConsume ==
  /\ cron = "idle"
  /\ flag
  /\ flag' = FALSE
  /\ cron' = "armed"
  /\ UNCHANGED <<db, coreVars, manual, gen, op, edit, check, edits, faults, history>>

CronRestart ==
  /\ cron = "armed"
  /\ Begin("cron", FALSE, TRUE)
  /\ cron' = "busy"
  /\ UNCHANGED <<edit, check>>

\* Mutant: the counter never gets past the first miss.
MutCheckResets ==
  /\ check \in {0, 1}
  /\ check' = IF running \/ manual THEN 0 ELSE 1
  /\ check' # check
  /\ UNCHANGED <<db, coreVars, manual, requestVars, op, edit, cron, edits,
                 faults, history>>

\* CheckXrayRunningJob.Run: a crash has to be seen twice in a row.
CheckTick ==
  /\ check \in {0, 1}
  /\ check' = IF running \/ manual THEN 0
              ELSE IF check = 0 THEN 1 ELSE 2
  /\ check' # check
  /\ UNCHANGED <<db, coreVars, manual, requestVars, op, edit, cron, edits,
                 faults, history>>

CheckRestart ==
  /\ check = 2
  /\ Begin("check", FALSE, TRUE)
  /\ check' = 3
  /\ UNCHANGED <<edit, cron>>

\* GetXrayConfig reads the database outside the process lock.
Build ==
  /\ op.pc = "build"
  /\ op' = [op EXCEPT !.pc = "decide", !.built = db]
  /\ unasked' = {}
  /\ UNCHANGED <<db, coreVars, manual, requestVars, edit, cron, check, edits,
                 faults, covered, overtaken>>

BuildFails ==
  /\ op.pc = "build"
  /\ Fault
  /\ op' = Failed
  /\ UNCHANGED <<db, coreVars, manual, requestVars, edit, cron, check, edits, history>>

\* The branches of restartXray under lock.
NextStage ==
  LET changed == Diff(snapshot, op.built) IN
  CASE ~running -> "start"
    [] running /\ ~op.force /\ changed = {} /\ (~op.pending \/ ~flag) -> "finish"
    [] running /\ ~op.force /\ changed # {} /\ changed \cap ColdTag = {} -> "hotRemove"
    [] OTHER -> "stop"

\* Mutant: the generation is loaded after the configuration was built.
MutDecideLoadsGen ==
  /\ op.pc = "decide"
  /\ op' = [op EXCEPT !.pc = NextStage, !.wasRunning = running, !.startGen = gen]
  /\ UNCHANGED <<db, coreVars, manual, requestVars, edit, cron, check, edits,
                 faults, history>>

Decide ==
  /\ op.pc = "decide"
  /\ op' = [op EXCEPT !.pc = NextStage, !.wasRunning = running]
  /\ UNCHANGED <<db, coreVars, manual, requestVars, edit, cron, check, edits,
                 faults, history>>

\* tryHotApply: removals first, then additions; a conflicting handler is replaced.
Removals == {t \in Diff(snapshot, op.built) : snapshot[t] # Off}
Additions == {t \in Diff(snapshot, op.built) : op.built[t] # Off}

HotRemove ==
  /\ op.pc = "hotRemove"
  /\ running
  /\ core' = Without(core, Removals)
  /\ op' = [op EXCEPT !.pc = "hotAdd"]
  /\ UNCHANGED <<db, snapshot, running, touched, manual, requestVars, edit,
                 cron, check, edits, faults, history>>

HotAdd ==
  /\ op.pc = "hotAdd"
  /\ running
  /\ core' = Overlay(core, Additions, op.built)
  /\ snapshot' = op.built
  /\ op' = [op EXCEPT !.pc = "finish"]
  /\ UNCHANGED <<db, running, touched, manual, requestVars, edit, cron, check,
                 edits, faults, history>>

\* Mutant: a failed addition is logged and the snapshot is updated anyway.
MutHotFailsQuietly ==
  /\ op.pc = "hotAdd"
  /\ running
  /\ Fault
  /\ \E S \in SUBSET Additions : core' = Overlay(core, S, op.built)
  /\ snapshot' = op.built
  /\ op' = [op EXCEPT !.pc = "finish"]
  /\ UNCHANGED <<db, running, touched, manual, requestVars, edit, cron, check,
                 edits, history>>

\* A call fails after a part of its phase was applied: fall back to a restart.
HotFails ==
  /\ op.pc \in {"hotRemove", "hotAdd"}
  /\ IF running
     THEN /\ Fault
          /\ \/ /\ op.pc = "hotRemove"
                /\ \E S \in SUBSET Removals : core' = Without(core, S)
             \/ /\ op.pc = "hotAdd"
                /\ \E S \in SUBSET Additions : core' = Overlay(core, S, op.built)
     ELSE UNCHANGED <<core, faults>>
  /\ op' = [op EXCEPT !.pc = "stop"]
  /\ UNCHANGED <<db, snapshot, running, touched, manual, requestVars, edit,
                 cron, check, edits, history>>

CoreRuns(c) ==
  /\ running' = TRUE
  /\ snapshot' = c
  /\ core' = c
  /\ touched' = {}

CoreDown(c) ==
  /\ running' = FALSE
  /\ snapshot' = c
  /\ core' = c
  /\ touched' = {}

StopOld ==
  /\ op.pc = "stop"
  /\ CoreDown(snapshot)
  /\ op' = [op EXCEPT !.pc = "start"]
  /\ UNCHANGED <<db, manual, requestVars, edit, cron, check, edits, faults, history>>

\* stopXrayRuntime fails.  A core that survived is kept; otherwise
\* recoverPreviousXrayRuntime starts the previous configuration again.
StopOldFails ==
  /\ op.pc = "stop"
  /\ Fault
  /\ \/ /\ running
        /\ touched' = touched \cup (Diff(snapshot, op.built) \cap HotTag)
        /\ UNCHANGED <<running, snapshot, core>>
     \/ CoreRuns(snapshot)
     \/ CoreDown(snapshot)
  /\ op' = Failed
  /\ UNCHANGED <<db, manual, requestVars, edit, cron, check, edits, history>>

StartNew ==
  /\ op.pc = "start"
  /\ CoreRuns(op.built)
  /\ op' = [op EXCEPT !.pc = "finish"]
  /\ UNCHANGED <<db, manual, requestVars, edit, cron, check, edits, faults, history>>

\* startXrayRuntime fails.  The previous configuration is restored if the core
\* was running; the restore may fail too, and a replacement that could not be
\* killed is left alone.
StartNewFails ==
  /\ op.pc = "start"
  /\ Fault
  /\ \/ op.wasRunning /\ CoreRuns(snapshot)
     \/ CoreRuns(op.built)
     \/ CoreDown(op.built)
  /\ op' = Failed
  /\ UNCHANGED <<db, manual, requestVars, edit, cron, check, edits, history>>

(***************************************************************************)
(* finishXrayRestart and the return to the caller.                         *)
(***************************************************************************)
Return ==
  /\ op' = NoOp
  /\ cron' = IF op.caller = "cron" THEN "idle" ELSE cron
  /\ check' = IF op.caller = "check" THEN 0 ELSE check
  /\ edit' = [e \in Editor |-> IF op.caller = e THEN NoEdit ELSE edit[e]]

Cover == covered' = IF op.startGen > covered THEN op.startGen ELSE covered

\* Mutant: a successful restart clears the flag without comparing generations.
MutFinishLoad ==
  /\ op.pc = "finish"
  /\ op.pending
  /\ op' = NoOp
  /\ flag' = FALSE
  /\ Cover
  /\ cron' = IF op.caller = "cron" THEN "idle" ELSE cron
  /\ check' = IF op.caller = "check" THEN 0 ELSE check
  /\ UNCHANGED <<db, coreVars, manual, gen, edit, edits, faults, overtaken, unasked>>

\* clearPending (RestartXray) and no newer generation: go on to clear the flag.
FinishLoad ==
  /\ op.pc = "finish"
  /\ op.pending
  /\ gen = op.startGen
  /\ op' = [op EXCEPT !.pc = "clear"]
  /\ UNCHANGED <<db, coreVars, manual, requestVars, edit, cron, check, edits,
                 faults, history>>

FinishClear ==
  /\ op.pc = "clear"
  /\ flag' = FALSE
  /\ Cover
  /\ overtaken' = (overtaken \/ gen # op.startGen)
  /\ Return
  /\ UNCHANGED <<db, coreVars, manual, gen, edits, faults, unasked>>

\* A newer request exists: the flag stays as it is.
FinishKeep ==
  /\ op.pc = "finish"
  /\ op.pending
  /\ gen # op.startGen
  /\ Cover
  /\ Return
  /\ UNCHANGED <<db, coreVars, manual, requestVars, edits, faults, overtaken, unasked>>

\* ReconcileXray never consumes a pending request.
FinishReconcile ==
  /\ op.pc = "finish"
  /\ ~op.pending
  /\ Return
  /\ UNCHANGED <<db, coreVars, manual, requestVars, edits, faults, history>>

\* An error marks a new request, again in two atomic operations.
FailInc ==
  /\ op.pc = "failInc"
  /\ gen' = gen + 1
  /\ op' = [op EXCEPT !.pc = "failStore"]
  /\ UNCHANGED <<db, coreVars, manual, flag, edit, cron, check, edits, faults, history>>

\* Mutant: a failed restart returns its error without scheduling a retry.
MutFailForgets ==
  /\ op.pc = "failStore"
  /\ Return
  /\ UNCHANGED <<db, coreVars, manual, requestVars, edits, faults, history>>

FailStore ==
  /\ op.pc = "failStore"
  /\ flag' = TRUE
  /\ Return
  /\ UNCHANGED <<db, coreVars, manual, gen, edits, faults, history>>

-----------------------------------------------------------------------------
\* StopXray: the mark is set first, then the runtime is stopped.
PanelStop ==
  /\ op.pc = "idle"
  /\ op' = [NoOp EXCEPT !.pc = "halt", !.caller = "panel"]
  /\ manual' = TRUE
  /\ UNCHANGED <<db, coreVars, requestVars, edit, cron, check, edits, faults, history>>

Halt ==
  /\ op.pc = "halt"
  /\ CoreDown(snapshot)
  /\ op' = NoOp
  /\ UNCHANGED <<db, manual, requestVars, edit, cron, check, edits, faults, history>>

HaltFails ==
  /\ op.pc = "halt"
  /\ running
  /\ Fault
  /\ op' = NoOp
  /\ UNCHANGED <<db, coreVars, manual, requestVars, edit, cron, check, edits, history>>

\* The core exits by itself.
Crash ==
  /\ running
  /\ Fault
  /\ CoreDown(snapshot)
  /\ UNCHANGED <<db, manual, requestVars, op, edit, cron, check, edits, history>>

-----------------------------------------------------------------------------
EditorStep(e) ==
  \/ PushDel(e) \/ PushDelNotFound(e) \/ PushDelFails(e)
  \/ PushAdd(e) \/ PushAddFails(e)
  \/ MarkInc(e) \/ MarkStore(e) \/ LookRunning(e)

NewEdit(e) ==
  \E t \in Tag :
    \/ DelInbound(e, t)
    \/ \E v \in Values(t) :
         \/ SetInboundEnable(e, t, v)
         \/ UpdateInbound(e, t, v)
         \/ AddInbound(e, t, v)
         \/ EditColdSection(e, t, v)
         \/ SaveTemplate(e, t, v)

OpStep ==
  \/ Build \/ BuildFails \/ Decide
  \/ HotRemove \/ HotAdd \/ HotFails
  \/ StopOld \/ StopOldFails \/ StartNew \/ StartNewFails
  \/ FinishLoad \/ FinishClear \/ FinishKeep \/ FinishReconcile
  \/ FailInc \/ FailStore
  \/ Halt \/ HaltFails

Next ==
  \/ \E e \in Editor : NewEdit(e) \/ EditorStep(e) \/ SaverRestart(e)
  \/ OpStep
  \/ PanelRestart \/ TrafficReconcile \/ PanelStop
  \/ CronConsume \/ CronRestart
  \/ CheckTick \/ CheckRestart
  \/ Crash

Spec == Init /\ [][Next]_vars

(***************************************************************************)
(* A goroutine that can take a step takes it; cron fires its jobs again    *)
(* and again; sync.Mutex is starvation free, so a waiter gets the          *)
(* lifecycle mutex however often others take it.                           *)
(***************************************************************************)
Fairness ==
  /\ WF_vars(OpStep)
  /\ \A e \in Editor : WF_vars(EditorStep(e)) /\ SF_vars(SaverRestart(e))
  /\ WF_vars(CronConsume) /\ SF_vars(CronRestart)
  /\ WF_vars(CheckTick) /\ SF_vars(CheckRestart)

FairSpec == Spec /\ Fairness

-----------------------------------------------------------------------------
(***************************************************************************)
(* Correctness.                                                            *)
(***************************************************************************)
OpPc == {"idle", "build", "decide", "hotRemove", "hotAdd", "stop", "start",
         "finish", "clear", "failInc", "failStore", "halt"}
Caller == Editor \cup {"cron", "check", "panel", "traffic", "none"}
OpType ==
  [pc : OpPc, caller : Caller, force : BOOLEAN, pending : BOOLEAN,
   startGen : Nat, built : Shape, wasRunning : BOOLEAN]

EditPc == {"idle", "del", "add", "inc", "store", "look", "call", "wait"}
EditKind == {"none", "toggle", "update", "add", "delete", "cold", "save"}
EditType ==
  [pc : EditPc, kind : EditKind, tag : Tag, val : Setting \cup {Off},
   need : BOOLEAN]

\* Every variable stays in its type; the restart counter of the health check
\* never passes "armed" and "busy" (checkTime is reset after each restart).
TypeOK ==
  /\ db \in Shape
  /\ snapshot \in Shape
  /\ core \in Shape
  /\ running \in BOOLEAN /\ manual \in BOOLEAN
  /\ flag \in BOOLEAN /\ gen \in Nat
  /\ op \in OpType
  /\ edit \in [Editor -> EditType]
  /\ cron \in {"idle", "armed", "busy"}
  /\ check \in 0..3
  /\ edits \in 0..MaxEdits /\ faults \in 0..MaxFaults
  /\ covered \in Nat /\ overtaken \in BOOLEAN
  /\ touched \subseteq Tag /\ unasked \subseteq Tag

\* Nobody holds or waits for the lifecycle mutex and no edit is under way.
Quiet ==
  /\ op.pc = "idle"
  /\ cron = "idle"
  /\ \A e \in Editor : edit[e].pc = "idle"

\* Somebody will still see the newest request: it is flagged, about to be
\* flagged, consumed by the cron job that will act on it, or the restart in
\* progress began after it.
RequestInHand ==
  \/ flag
  \/ cron = "armed"
  \/ \E e \in Editor : edit[e].pc = "store"
  \/ op.pc \in {"failInc", "failStore"}
  \/ op.pc # "idle" /\ op.pending /\ op.startGen = gen

\* A restart request (markXrayRestartNeeded) is never dropped before a
\* successful RestartXray that began after it, whatever the interleaving of
\* editors, cron, health check and failing operations, except in the window
\* between the load and the store of finishXrayRestart ("overtaken").
NoRequestLost == gen > covered => RequestInHand \/ overtaken

\* The Process config snapshot describes the live core except where a live
\* API push changed a handler behind it: a hot apply that failed half way
\* never leaves its fragments in a running core (tryHotApply falls back to a
\* full restart, unless stopping the core failed as well).
DriftExplained ==
  running /\ op.pc \notin {"hotAdd", "stop"}
    => Diff(core, snapshot) \subseteq touched

\* An edit of a section without a reload API is in the running core once
\* everything is quiet and no request is pending, whatever was built, stopped
\* or failed meanwhile.  Left out are the saves of updateSetting that found the
\* core down and asked for nothing (xray_setting.go:168) while a restart was
\* about to start it from an older build: that core runs the old section.
ColdEditsReachCore ==
  Quiet /\ running /\ ~flag /\ ~overtaken
    => Diff(core, db) \cap ColdTag \subseteq unasked

\* Every recorded request is eventually covered by a successful restart, with
\* a bounded number of failures and the window of NoRequestLost excepted.
RequestsServed ==
  \A g \in 1..(MaxEdits + MaxFaults) :
    (gen >= g) ~> (covered >= g \/ overtaken)

\* A core that died without a manual stop is running again eventually, or the
\* operator stopped it meanwhile (CheckXrayRunningJob).
CrashRecovered == (~running /\ ~manual) ~> (running \/ manual)
=============================================================================
