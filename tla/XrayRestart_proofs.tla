------------------------- MODULE XrayRestart_proofs -------------------------
(***************************************************************************)
(* Theorems about XrayRestart for every set of tags, contents and editors  *)
(* and all bounds.                                                         *)
(***************************************************************************)
EXTENDS XrayRestart, TLAPS

\* Types of the values the actions are built from.
LEMMA ConstantTypes ==
  /\ NoOp \in OpType
  /\ NoEdit \in EditType
  /\ \A t \in Tag : Values(t) \subseteq Setting \cup {Off}
  /\ Config \subseteq Shape
<1>1. NoOp \in OpType
  BY DEF NoOp, OpType, OpPc, Caller, Shape
<1>2. NoEdit \in EditType
  BY XrayRestartAssumption DEF NoEdit, EditType, EditPc, EditKind
<1>3. QED
  BY <1>1, <1>2 DEF Values, Setting, Config

\* The bound on failures is a bound: Fault counts up to it.
LEMMA FaultTyped == TypeOK /\ Fault => faults' \in 0..MaxFaults
BY XrayRestartAssumption DEF TypeOK, Fault

\* An edit that is settled, or that goes on to its second API call, stays typed.
LEMMA SettleTyped ==
  ASSUME TypeOK, NEW e \in Editor, NEW n \in BOOLEAN
  PROVE  /\ Settle(e, n) => edit' \in [Editor -> EditType]
         /\ AfterDel(e, n) => edit' \in [Editor -> EditType]
<1>1. [NoEdit EXCEPT !.pc = "inc"] \in EditType
  BY ConstantTypes DEF EditType, EditPc
<1>2. Settle(e, n) => edit' \in [Editor -> EditType]
  BY <1>1, ConstantTypes DEF TypeOK, Settle
<1>3. QED
  BY <1>2 DEF TypeOK, AfterDel, EditType, EditPc

\* The commit of any edit keeps the types.
LEMMA CommitTyped ==
  ASSUME TypeOK, NEW e \in Editor, NEW k \in EditKind, NEW t \in Tag,
         NEW v \in Setting \cup {Off}, NEW p \in EditPc, Commit(e, k, t, v, p)
  PROVE  TypeOK'
<1>1. edits' \in 0..MaxEdits
  BY XrayRestartAssumption DEF TypeOK, Commit
<1>2. edit' \in [Editor -> EditType] /\ db' \in Shape
  BY DEF TypeOK, Commit, EditType, Shape
<1>3. QED
  BY <1>1, <1>2 DEF TypeOK, Commit, coreVars, requestVars, history

\* Returning to the caller keeps the types.
LEMMA ReturnTyped ==
  TypeOK /\ Return => /\ op' \in OpType
                     /\ edit' \in [Editor -> EditType]
                     /\ cron' \in {"idle", "armed", "busy"}
                     /\ check' \in 0..3
BY ConstantTypes DEF TypeOK, Return

\* Acquiring the lifecycle mutex keeps the types.
LEMMA BeginTyped ==
  ASSUME TypeOK, NEW c \in Caller, NEW f \in BOOLEAN, NEW p \in BOOLEAN, Begin(c, f, p)
  PROVE  op' \in OpType /\ manual' \in BOOLEAN
BY ConstantTypes DEF TypeOK, Begin, OpType, OpPc

\* The initial states are typed.
LEMMA InitTyped == Init => TypeOK
<1> SUFFICES ASSUME Init PROVE TypeOK
  OBVIOUS
<1>1. /\ db \in Shape /\ core \in Shape /\ snapshot \in Shape
      /\ touched \subseteq Tag /\ unasked \subseteq Tag
  BY ConstantTypes DEF Init
<1>2. edits \in 0..MaxEdits /\ faults \in 0..MaxFaults /\ gen \in Nat
      /\ covered \in Nat /\ check \in 0..3
  BY XrayRestartAssumption DEF Init
<1>3. edit \in [Editor -> EditType] /\ op \in OpType
  BY ConstantTypes DEF Init
<1>4. running \in BOOLEAN /\ manual \in BOOLEAN /\ flag \in BOOLEAN /\ overtaken \in BOOLEAN
      /\ cron \in {"idle", "armed", "busy"}
  BY Zenon DEF Init
<1>5. QED
  BY <1>1, <1>2, <1>3, <1>4 DEF TypeOK

\* Each variable keeps its type in every behaviour; in particular the health
\* check never counts past a restart (CheckXrayRunningJob.Run).
THEOREM TypeCorrect == Spec => []TypeOK
<1>1. Init => TypeOK
  BY InitTyped
<1>2. TypeOK /\ [Next]_vars => TypeOK'
  <2> SUFFICES ASSUME TypeOK, [Next]_vars PROVE TypeOK'
    OBVIOUS
  <2> USE DEF TypeOK, coreVars, requestVars, history
  <2>1. ASSUME NEW e \in Editor, NewEdit(e) PROVE TypeOK'
    <3>1. PICK t \in Tag : DelInbound(e, t) \/ \E v \in Values(t) : SetInboundEnable(e, t, v) \/ UpdateInbound(e, t, v) \/ AddInbound(e, t, v) \/ EditColdSection(e, t, v) \/ SaveTemplate(e, t, v)
      BY <2>1 DEF NewEdit
    <3>2. DelInbound(e, t) => TypeOK'
      BY <2>1, CommitTyped DEF DelInbound, EditKind, EditPc
    <3>3. ASSUME NEW v \in Values(t), SetInboundEnable(e, t, v) \/ UpdateInbound(e, t, v) \/ AddInbound(e, t, v) \/ EditColdSection(e, t, v) \/ SaveTemplate(e, t, v) PROVE TypeOK'
      BY <2>1, <3>3, ConstantTypes, CommitTyped DEF SetInboundEnable, UpdateInbound, AddInbound, EditColdSection, SaveTemplate, EditKind, EditPc
    <3>4. QED
      BY <2>1, <3>1, <3>2, <3>3 DEF TypeOK
  <2>2. ASSUME NEW e \in Editor, PushDel(e) PROVE TypeOK'
    <3>1. edit' \in [Editor -> EditType]
      BY <2>2, SettleTyped DEF PushDel, EditType
    <3>2. core' \in Shape /\ touched' \subseteq Tag
      BY <2>2 DEF PushDel, EditType, Shape
    <3>3. QED
      BY <2>2, <3>1, <3>2 DEF PushDel
  <2>3. ASSUME NEW e \in Editor, PushDelNotFound(e) PROVE TypeOK'
    <3>1. edit' \in [Editor -> EditType]
      BY <2>3, SettleTyped DEF PushDelNotFound
    <3>2. QED
      BY <2>3, <3>1 DEF PushDelNotFound
  <2>4. ASSUME NEW e \in Editor, PushDelFails(e) PROVE TypeOK'
    <3>1. edit' \in [Editor -> EditType]
      BY <2>4, SettleTyped DEF PushDelFails
    <3>2. faults' \in 0..MaxFaults
      BY <2>4, FaultTyped DEF PushDelFails
    <3>3. QED
      BY <2>4, <3>1, <3>2 DEF PushDelFails
  <2>5. ASSUME NEW e \in Editor, PushAdd(e) PROVE TypeOK'
    <3>1. edit' \in [Editor -> EditType]
      BY <2>5, SettleTyped DEF PushAdd, EditType
    <3>2. core' \in Shape /\ touched' \subseteq Tag
      BY <2>5 DEF PushAdd, EditType, Shape
    <3>3. QED
      BY <2>5, <3>1, <3>2 DEF PushAdd
  <2>6. ASSUME NEW e \in Editor, PushAddFails(e) PROVE TypeOK'
    <3>1. edit' \in [Editor -> EditType]
      BY <2>6, SettleTyped DEF PushAddFails
    <3>2. faults' \in 0..MaxFaults
      BY <2>6, FaultTyped DEF PushAddFails
    <3>3. QED
      BY <2>6, <3>1, <3>2 DEF PushAddFails
  <2>7. ASSUME NEW e \in Editor, MarkInc(e) PROVE TypeOK'
    <3>1. edit' \in [Editor -> EditType]
      BY <2>7 DEF MarkInc, EditType, EditPc
    <3>2. QED
      BY <2>7, <3>1 DEF MarkInc
  <2>8. ASSUME NEW e \in Editor, MarkStore(e) PROVE TypeOK'
    <3>1. edit' \in [Editor -> EditType]
      BY <2>8, ConstantTypes DEF MarkStore
    <3>2. QED
      BY <2>8, <3>1 DEF MarkStore
  <2>9. ASSUME NEW e \in Editor, LookRunning(e) PROVE TypeOK'
    <3>1. edit' \in [Editor -> EditType]
      BY <2>9, ConstantTypes DEF LookRunning, EditType, EditPc
    <3>2. edit[e].tag \in Tag
      BY DEF EditType
    <3>3. unasked' \subseteq Tag
      BY <2>9, <3>2 DEF LookRunning
    <3>4. QED
      BY <2>9, <3>1, <3>3 DEF LookRunning
  <2>10. ASSUME NEW e \in Editor, SaverRestart(e) PROVE TypeOK'
    <3>1. op' \in OpType /\ manual' \in BOOLEAN
      BY <2>10, BeginTyped DEF SaverRestart, Caller
    <3>2. edit' \in [Editor -> EditType]
      BY <2>10 DEF SaverRestart, EditType, EditPc
    <3>3. QED
      BY <2>10, <3>1, <3>2 DEF SaverRestart, Begin
  <2>11. CASE Build
    <3>1. op' \in OpType
      BY <2>11 DEF Build, OpType, OpPc
    <3>2. QED
      BY <2>11, <3>1 DEF Build
  <2>12. CASE BuildFails
    <3>1. op' \in OpType
      BY <2>12, ConstantTypes DEF BuildFails, Failed, OpType, OpPc
    <3>2. faults' \in 0..MaxFaults
      BY <2>12, FaultTyped DEF BuildFails
    <3>3. QED
      BY <2>12, <3>1, <3>2 DEF BuildFails
  <2>13. CASE Decide
    <3>1. op' \in OpType
      BY <2>13 DEF Decide, NextStage, OpType, OpPc
    <3>2. QED
      BY <2>13, <3>1 DEF Decide
  <2>14. CASE HotRemove
    <3>1. op' \in OpType
      BY <2>14 DEF HotRemove, OpType, OpPc
    <3>2. core' \in Shape
      BY <2>14 DEF HotRemove, Without, Shape
    <3>3. QED
      BY <2>14, <3>1, <3>2 DEF HotRemove
  <2>15. CASE HotAdd
    <3>1. op' \in OpType
      BY <2>15 DEF HotAdd, OpType, OpPc
    <3>2. core' \in Shape /\ snapshot' \in Shape
      BY <2>15 DEF HotAdd, Overlay, Shape, OpType
    <3>3. QED
      BY <2>15, <3>1, <3>2 DEF HotAdd
  <2>16. CASE HotFails
    <3>1. op' \in OpType
      BY <2>16 DEF HotFails, OpType, OpPc
    <3>2. core' \in Shape
      BY <2>16 DEF HotFails, Overlay, Without, Shape, OpType
    <3>3. faults' \in 0..MaxFaults
      BY <2>16, FaultTyped DEF HotFails
    <3>4. QED
      BY <2>16, <3>1, <3>2, <3>3 DEF HotFails
  <2>17. CASE StopOld
    <3>1. op' \in OpType
      BY <2>17 DEF StopOld, OpType, OpPc
    <3>2. QED
      BY <2>17, <3>1 DEF StopOld, CoreDown
  <2>18. CASE StopOldFails
    <3>1. op' \in OpType
      BY <2>18, ConstantTypes DEF StopOldFails, Failed, OpType, OpPc
    <3>2. faults' \in 0..MaxFaults
      BY <2>18, FaultTyped DEF StopOldFails
    <3>3. running' \in BOOLEAN /\ snapshot' \in Shape /\ core' \in Shape /\ touched' \subseteq Tag
      BY <2>18 DEF StopOldFails, CoreRuns, CoreDown, Diff
    <3>4. QED
      BY <2>18, <3>1, <3>2, <3>3 DEF StopOldFails
  <2>19. CASE StartNew
    <3>1. op' \in OpType
      BY <2>19 DEF StartNew, OpType, OpPc
    <3>2. running' \in BOOLEAN /\ snapshot' \in Shape /\ core' \in Shape /\ touched' \subseteq Tag
      BY <2>19 DEF StartNew, CoreRuns, OpType
    <3>3. QED
      BY <2>19, <3>1, <3>2 DEF StartNew
  <2>20. CASE StartNewFails
    <3>1. op' \in OpType
      BY <2>20, ConstantTypes DEF StartNewFails, Failed, OpType, OpPc
    <3>2. faults' \in 0..MaxFaults
      BY <2>20, FaultTyped DEF StartNewFails
    <3>3. running' \in BOOLEAN /\ snapshot' \in Shape /\ core' \in Shape /\ touched' \subseteq Tag
      BY <2>20 DEF StartNewFails, CoreRuns, CoreDown, OpType
    <3>4. QED
      BY <2>20, <3>1, <3>2, <3>3 DEF StartNewFails
  <2>21. CASE FinishLoad
    <3>1. op' \in OpType
      BY <2>21 DEF FinishLoad, OpType, OpPc
    <3>2. QED
      BY <2>21, <3>1 DEF FinishLoad
  <2>22. CASE FinishClear
    <3>1. covered' \in Nat
      BY <2>22 DEF FinishClear, Cover, OpType
    <3>2. QED
      BY <2>22, <3>1, ReturnTyped DEF FinishClear
  <2>23. CASE FinishKeep
    <3>1. covered' \in Nat
      BY <2>23 DEF FinishKeep, Cover, OpType
    <3>2. QED
      BY <2>23, <3>1, ReturnTyped DEF FinishKeep
  <2>24. CASE FinishReconcile
    BY <2>24, ReturnTyped DEF FinishReconcile
  <2>25. CASE FailInc
    <3>1. op' \in OpType
      BY <2>25 DEF FailInc, OpType, OpPc
    <3>2. QED
      BY <2>25, <3>1 DEF FailInc
  <2>26. CASE FailStore
    BY <2>26, ReturnTyped DEF FailStore
  <2>27. CASE Halt
    <3>1. op' \in OpType
      BY <2>27, ConstantTypes DEF Halt
    <3>2. QED
      BY <2>27, <3>1 DEF Halt, CoreDown
  <2>28. CASE HaltFails
    <3>1. op' \in OpType
      BY <2>28, ConstantTypes DEF HaltFails
    <3>2. faults' \in 0..MaxFaults
      BY <2>28, FaultTyped DEF HaltFails
    <3>3. QED
      BY <2>28, <3>1, <3>2 DEF HaltFails
  <2>29. CASE PanelRestart
    <3>1. op' \in OpType /\ manual' \in BOOLEAN
      BY <2>29, BeginTyped DEF PanelRestart, Caller
    <3>2. QED
      BY <2>29, <3>1 DEF PanelRestart, Begin
  <2>30. CASE TrafficReconcile
    <3>1. op' \in OpType /\ manual' \in BOOLEAN
      BY <2>30, BeginTyped DEF TrafficReconcile, Caller
    <3>2. QED
      BY <2>30, <3>1 DEF TrafficReconcile, Begin
  <2>31. CASE PanelStop
    <3>1. op' \in OpType
      BY <2>31, ConstantTypes DEF PanelStop, OpType, OpPc, Caller
    <3>2. QED
      BY <2>31, <3>1 DEF PanelStop
  <2>32. CASE CronConsume
    BY <2>32 DEF CronConsume
  <2>33. CASE CronRestart
    <3>1. op' \in OpType /\ manual' \in BOOLEAN
      BY <2>33, BeginTyped DEF CronRestart, Caller
    <3>2. QED
      BY <2>33, <3>1 DEF CronRestart, Begin
  <2>34. CASE CheckTick
    BY <2>34 DEF CheckTick
  <2>35. CASE CheckRestart
    <3>1. op' \in OpType /\ manual' \in BOOLEAN
      BY <2>35, BeginTyped DEF CheckRestart, Caller
    <3>2. QED
      BY <2>35, <3>1 DEF CheckRestart, Begin
  <2>36. CASE Crash
    <3>1. faults' \in 0..MaxFaults
      BY <2>36, FaultTyped DEF Crash
    <3>2. QED
      BY <2>36, <3>1 DEF Crash, CoreDown
  <2>37. CASE UNCHANGED vars
    BY <2>37 DEF vars
  <2>38. QED
    BY <2>1, <2>2, <2>3, <2>4, <2>5, <2>6, <2>7, <2>8, <2>9, <2>10, <2>11,
       <2>12, <2>13, <2>14, <2>15, <2>16, <2>17, <2>18, <2>19, <2>20,
       <2>21, <2>22, <2>23, <2>24, <2>25, <2>26, <2>27, <2>28, <2>29,
       <2>30, <2>31, <2>32, <2>33, <2>34, <2>35, <2>36, <2>37 DEF Next,
       EditorStep, OpStep
<1>3. QED
  BY <1>1, <1>2, PTL DEF Spec

-----------------------------------------------------------------------------
\* What NoRequestLost needs to know about the holder of the lifecycle mutex:
\* its caller waits for it, and only a restart carries "honorPending".
Callers ==
  /\ op.caller = "cron" => cron = "busy"
  /\ \A e \in Editor : op.caller = e => edit[e].pc = "wait"
  /\ op.pc = "halt" => ~op.pending
  /\ op.pc = "idle" => op.caller = "none"

\* The literals that are not editors are told apart from the editors.
LEMMA CallerNames ==
  \A e \in Editor : e \notin {"cron", "check", "panel", "traffic", "none"}
BY XrayRestartAssumption

\* Returning to the caller leaves no caller behind and touches nobody else.
LEMMA ReturnCallers ==
  ASSUME TypeOK, Callers, Return
  PROVE  /\ Callers'
         /\ cron = "armed" => cron' = "armed"
         /\ \A e \in Editor : edit[e].pc = "store" => edit'[e].pc = "store"
<1>1. op' = NoOp /\ NoOp.caller = "none" /\ NoOp.pc = "idle" /\ ~NoOp.pending
  BY DEF Return, NoOp
<1>2. Callers'
  BY <1>1, CallerNames DEF Callers
<1>3. QED
  BY <1>2 DEF Return, Callers

\* A successful restart covers at least the generation it started from.
LEMMA CoverBound ==
  TypeOK /\ Cover => covered' \in Nat /\ covered' >= covered /\ covered' >= op.startGen
BY DEF TypeOK, OpType, Cover

\* The caller of the operation in progress waits for it in every step.
LEMMA CallersStep == TypeOK /\ Callers /\ [Next]_vars => Callers'
<1> SUFFICES ASSUME TypeOK, Callers, [Next]_vars PROVE Callers'
  OBVIOUS
<1>1. op \in OpType /\ edit \in [Editor -> EditType]
  BY DEF TypeOK
<1> USE <1>1, CallerNames DEF Callers, requestVars, coreVars
<1>2. ASSUME NEW e \in Editor, NewEdit(e) PROVE Callers'
  BY <1>2 DEF NewEdit, SetInboundEnable, UpdateInbound, AddInbound, DelInbound, EditColdSection, SaveTemplate, Commit
<1>3. ASSUME NEW e \in Editor, PushDel(e) PROVE Callers'
  BY <1>3 DEF PushDel, AfterDel, Settle
<1>4. ASSUME NEW e \in Editor, PushDelNotFound(e) PROVE Callers'
  BY <1>4 DEF PushDelNotFound, AfterDel, Settle
<1>5. ASSUME NEW e \in Editor, PushDelFails(e) PROVE Callers'
  BY <1>5 DEF PushDelFails, AfterDel, Settle
<1>6. ASSUME NEW e \in Editor, PushAdd(e) PROVE Callers'
  BY <1>6 DEF PushAdd, Settle
<1>7. ASSUME NEW e \in Editor, PushAddFails(e) PROVE Callers'
  BY <1>7 DEF PushAddFails, Settle
<1>8. ASSUME NEW e \in Editor, MarkInc(e) PROVE Callers'
  BY <1>8 DEF MarkInc
<1>9. ASSUME NEW e \in Editor, MarkStore(e) PROVE Callers'
  BY <1>9 DEF MarkStore
<1>10. ASSUME NEW e \in Editor, LookRunning(e) PROVE Callers'
  BY <1>10 DEF LookRunning
<1>11. ASSUME NEW e \in Editor, SaverRestart(e) PROVE Callers'
  BY <1>11 DEF SaverRestart, Begin, NoOp
<1>12. CASE Build
  BY <1>12 DEF Build
<1>13. CASE BuildFails
  BY <1>13 DEF BuildFails, Failed, NoOp
<1>14. CASE Decide
  BY <1>14 DEF Decide, NextStage
<1>15. CASE HotRemove
  BY <1>15 DEF HotRemove
<1>16. CASE HotAdd
  BY <1>16 DEF HotAdd
<1>17. CASE HotFails
  BY <1>17 DEF HotFails
<1>18. CASE StopOld
  BY <1>18 DEF StopOld
<1>19. CASE StopOldFails
  BY <1>19 DEF StopOldFails, Failed, NoOp
<1>20. CASE StartNew
  BY <1>20 DEF StartNew
<1>21. CASE StartNewFails
  BY <1>21 DEF StartNewFails, Failed, NoOp
<1>22. CASE FinishLoad
  BY <1>22 DEF FinishLoad
<1>23. CASE FinishClear
  BY <1>23, ReturnCallers DEF FinishClear
<1>24. CASE FinishKeep
  BY <1>24, ReturnCallers DEF FinishKeep
<1>25. CASE FinishReconcile
  BY <1>25, ReturnCallers DEF FinishReconcile
<1>26. CASE FailInc
  BY <1>26 DEF FailInc
<1>27. CASE FailStore
  BY <1>27, ReturnCallers DEF FailStore
<1>28. CASE Halt
  BY <1>28 DEF Halt, NoOp
<1>29. CASE HaltFails
  BY <1>29 DEF HaltFails, NoOp
<1>30. CASE PanelRestart
  BY <1>30 DEF PanelRestart, Begin, NoOp
<1>31. CASE TrafficReconcile
  BY <1>31 DEF TrafficReconcile, Begin, NoOp
<1>32. CASE PanelStop
  BY <1>32 DEF PanelStop, NoOp
<1>33. CASE CronConsume
  BY <1>33 DEF CronConsume
<1>34. CASE CronRestart
  BY <1>34 DEF CronRestart, Begin, NoOp
<1>35. CASE CheckTick
  BY <1>35 DEF CheckTick
<1>36. CASE CheckRestart
  BY <1>36 DEF CheckRestart, Begin, NoOp
<1>37. CASE Crash
  BY <1>37 DEF Crash
<1>38. CASE UNCHANGED vars
  BY <1>38 DEF vars
<1>39. QED
  BY <1>2, <1>3, <1>4, <1>5, <1>6, <1>7, <1>8, <1>9, <1>10, <1>11, <1>12,
     <1>13, <1>14, <1>15, <1>16, <1>17, <1>18, <1>19, <1>20, <1>21, <1>22,
     <1>23, <1>24, <1>25, <1>26, <1>27, <1>28, <1>29, <1>30, <1>31, <1>32,
     <1>33, <1>34, <1>35, <1>36, <1>37, <1>38 DEF Next, EditorStep, OpStep

\* The newest restart request is in somebody's hand in every step.
LEMMA RequestStep ==
  TypeOK /\ Callers /\ NoRequestLost /\ [Next]_vars => NoRequestLost'
<1> SUFFICES ASSUME TypeOK, Callers, NoRequestLost, [Next]_vars PROVE NoRequestLost'
  OBVIOUS
<1>1. op \in OpType /\ edit \in [Editor -> EditType] /\ gen \in Nat /\ covered \in Nat
  BY DEF TypeOK
<1> USE <1>1 DEF NoRequestLost, RequestInHand, Callers, requestVars, coreVars, history
<1>2. ASSUME NEW e \in Editor, NewEdit(e) PROVE NoRequestLost'
  BY <1>2 DEF NewEdit, SetInboundEnable, UpdateInbound, AddInbound, DelInbound, EditColdSection, SaveTemplate, Commit
<1>3. ASSUME NEW e \in Editor, PushDel(e) PROVE NoRequestLost'
  BY <1>3 DEF PushDel, AfterDel, Settle
<1>4. ASSUME NEW e \in Editor, PushDelNotFound(e) PROVE NoRequestLost'
  BY <1>4 DEF PushDelNotFound, AfterDel, Settle
<1>5. ASSUME NEW e \in Editor, PushDelFails(e) PROVE NoRequestLost'
  BY <1>5 DEF PushDelFails, AfterDel, Settle
<1>6. ASSUME NEW e \in Editor, PushAdd(e) PROVE NoRequestLost'
  BY <1>6 DEF PushAdd, Settle
<1>7. ASSUME NEW e \in Editor, PushAddFails(e) PROVE NoRequestLost'
  BY <1>7 DEF PushAddFails, Settle
<1>8. ASSUME NEW e \in Editor, MarkInc(e) PROVE NoRequestLost'
  BY <1>8 DEF MarkInc
<1>9. ASSUME NEW e \in Editor, MarkStore(e) PROVE NoRequestLost'
  BY <1>9 DEF MarkStore
<1>10. ASSUME NEW e \in Editor, LookRunning(e) PROVE NoRequestLost'
  BY <1>10 DEF LookRunning
<1>11. ASSUME NEW e \in Editor, SaverRestart(e) PROVE NoRequestLost'
  BY <1>11 DEF SaverRestart, Begin, NoOp
<1>12. CASE Build
  BY <1>12 DEF Build
<1>13. CASE BuildFails
  BY <1>13 DEF BuildFails, Failed, NoOp
<1>14. CASE Decide
  BY <1>14 DEF Decide, NextStage
<1>15. CASE HotRemove
  BY <1>15 DEF HotRemove
<1>16. CASE HotAdd
  BY <1>16 DEF HotAdd
<1>17. CASE HotFails
  BY <1>17 DEF HotFails
<1>18. CASE StopOld
  BY <1>18 DEF StopOld
<1>19. CASE StopOldFails
  BY <1>19 DEF StopOldFails, Failed, NoOp
<1>20. CASE StartNew
  BY <1>20 DEF StartNew
<1>21. CASE StartNewFails
  BY <1>21 DEF StartNewFails, Failed, NoOp
<1>22. CASE FinishLoad
  BY <1>22 DEF FinishLoad
<1>23. CASE FinishClear
  <2>1. CASE gen = op.startGen
    <3>1. covered' >= gen /\ gen' = gen /\ covered' \in Nat
      BY <1>23, <2>1, CoverBound DEF FinishClear
    <3>2. QED
      BY <3>1
  <2>2. CASE gen # op.startGen
    BY <1>23, <2>2, Zenon DEF FinishClear
  <2>3. QED
    BY <2>1, <2>2
<1>24. CASE FinishKeep
  BY <1>24, ReturnCallers, CoverBound DEF FinishKeep
<1>25. CASE FinishReconcile
  BY <1>25 DEF FinishReconcile, Return
<1>26. CASE FailInc
  BY <1>26 DEF FailInc
<1>27. CASE FailStore
  BY <1>27 DEF FailStore, Return
<1>28. CASE Halt
  BY <1>28 DEF Halt, NoOp
<1>29. CASE HaltFails
  BY <1>29 DEF HaltFails, NoOp
<1>30. CASE PanelRestart
  BY <1>30 DEF PanelRestart, Begin, NoOp
<1>31. CASE TrafficReconcile
  BY <1>31 DEF TrafficReconcile, Begin, NoOp
<1>32. CASE PanelStop
  BY <1>32 DEF PanelStop, NoOp
<1>33. CASE CronConsume
  BY <1>33 DEF CronConsume
<1>34. CASE CronRestart
  BY <1>34 DEF CronRestart, Begin, NoOp
<1>35. CASE CheckTick
  BY <1>35 DEF CheckTick
<1>36. CASE CheckRestart
  BY <1>36 DEF CheckRestart, Begin, NoOp
<1>37. CASE Crash
  BY <1>37 DEF Crash
<1>38. CASE UNCHANGED vars
  BY <1>38 DEF vars
<1>39. QED
  BY <1>2, <1>3, <1>4, <1>5, <1>6, <1>7, <1>8, <1>9, <1>10, <1>11, <1>12,
     <1>13, <1>14, <1>15, <1>16, <1>17, <1>18, <1>19, <1>20, <1>21, <1>22,
     <1>23, <1>24, <1>25, <1>26, <1>27, <1>28, <1>29, <1>30, <1>31, <1>32,
     <1>33, <1>34, <1>35, <1>36, <1>37, <1>38 DEF Next, EditorStep, OpStep

\* A restart request is never dropped before a successful restart that began
\* after it, but for the window inside finishXrayRestart (xray.go:48-70, 1536).
THEOREM NoRequestIsLost == Spec => []NoRequestLost
<1>1. Init => TypeOK /\ Callers /\ NoRequestLost
  BY InitTyped, CallerNames DEF Init, Callers, NoRequestLost, NoOp
<1>2. TypeOK /\ Callers /\ NoRequestLost /\ [Next]_vars => Callers' /\ NoRequestLost'
  BY CallersStep, RequestStep
<1>3. QED
  BY <1>1, <1>2, TypeCorrect, PTL DEF Spec

-----------------------------------------------------------------------------
\* The live core is the snapshot except for pushed changes ("touched"), at
\* every stage of an operation: half way through a hot apply the removed
\* handlers are off, and a hot apply that failed has changed nothing but hot
\* handlers the new configuration changes.
DriftInv ==
  /\ touched \subseteq HotTag
  /\ \A e \in Editor : edit[e].pc \in {"del", "add"} => edit[e].tag \in HotTag
  /\ op.pc \in {"hotRemove", "hotAdd"} => Diff(snapshot, op.built) \subseteq HotTag
  /\ running /\ op.pc = "hotAdd" =>
       \A t \in Tag \ touched : core[t] = IF t \in Removals THEN Off ELSE snapshot[t]
  /\ running /\ op.pc = "stop" =>
       \A t \in Tag \ touched : core[t] # snapshot[t] => t \in HotTag /\ snapshot[t] # op.built[t]
  /\ running /\ op.pc \notin {"hotAdd", "stop"} =>
       \A t \in Tag \ touched : core[t] = snapshot[t]

\* Somebody who saved this section has yet to record a request or to restart.
AskedFor(t) == \E e \in Editor : edit[e].tag = t /\ edit[e].pc \in {"inc", "look", "call"}

\* A request is recorded that no operation in progress will consume.
Recorded ==
  \/ flag \/ overtaken \/ cron = "armed"
  \/ \E e \in Editor : edit[e].pc = "store"
  \/ op.pc \in {"failInc", "failStore"}

HasBuilt == op.pc \in {"decide", "hotRemove", "hotAdd", "stop", "start", "finish", "clear"}

\* A cold section that is newer than what an operation built, or than what the
\* core runs between operations, was saved by somebody who is about to ask, or
\* whose request is newer than the operation, or is recorded.
ColdInv ==
  /\ covered <= gen
  /\ HasBuilt \/ op.pc = "build" => covered <= op.startGen /\ op.startGen <= gen
  /\ op.pc \in {"finish", "clear"} => snapshot = op.built
  /\ HasBuilt =>
       \A t \in ColdTag : op.built[t] # db[t] => t \in unasked \/ AskedFor(t) \/ gen # op.startGen
  /\ op.pc \in {"idle", "halt"} /\ running =>
       \A t \in ColdTag : snapshot[t] # db[t] => t \in unasked \/ AskedFor(t) \/ Recorded

\* An edit that goes on keeps its tag; only a removal goes on to an addition.
LEMMA SameEdits ==
  ASSUME TypeOK, NEW e \in Editor, NEW n \in BOOLEAN, edit[e].pc \in {"del", "add"},
         Settle(e, n) \/ (edit[e].pc = "del" /\ AfterDel(e, n)), DriftInv
  PROVE  \A d \in Editor : edit'[d].pc \in {"del", "add"} => edit'[d].tag \in HotTag
<1>1. edit \in [Editor -> EditType] /\ edit[e] \in EditType
  BY DEF TypeOK
<1>2. edit[e].tag \in HotTag /\ \A d \in Editor : edit[d].pc \in {"del", "add"} => edit[d].tag \in HotTag
  BY DEF DriftInv
<1>3. \A d \in Editor : d # e => edit'[d] = edit[d]
  BY <1>1 DEF Settle, AfterDel
<1>4. CASE Settle(e, n)
  <2>1. edit'[e].pc \in {"inc", "idle"}
    BY <1>1, <1>4 DEF Settle, NoEdit, EditType
  <2>2. QED
    BY <1>2, <1>3, <2>1
<1>5. CASE edit' = [edit EXCEPT ![e].pc = "add", ![e].need = n]
  <2>1. edit'[e].tag = edit[e].tag
    BY <1>1, <1>5 DEF EditType
  <2>2. QED
    BY <1>2, <1>3, <2>1
<1>6. QED
  BY <1>4, <1>5 DEF AfterDel

\* A step of an editor that leaves the core alone.
LEMMA DriftEdit ==
  ASSUME DriftInv, UNCHANGED <<coreVars, op>>,
         \A e \in Editor : edit'[e].pc \in {"del", "add"} => edit'[e].tag \in HotTag
  PROVE  DriftInv'
BY DEF DriftInv, coreVars, Removals, Diff

\* A live push changes one hot handler and says so.
LEMMA DriftPush ==
  ASSUME TypeOK, DriftInv, NEW t \in HotTag, NEW x, core' = [core EXCEPT ![t] = x],
         touched' = touched \cup {t}, UNCHANGED <<snapshot, running, op>>,
         \A e \in Editor : edit'[e].pc \in {"del", "add"} => edit'[e].tag \in HotTag
  PROVE  DriftInv'
<1>1. \A u \in Tag \ touched' : u # t /\ u \in Tag \ touched /\ core'[u] = core[u]
  BY DEF TypeOK, Shape
<1>2. Removals' = Removals /\ Diff(snapshot, op.built)' = Diff(snapshot, op.built)
  BY DEF Removals, Diff
<1>3. touched' \subseteq HotTag
  BY DEF DriftInv
<1>4. QED
  BY <1>1, <1>2, <1>3 DEF DriftInv

\* The core is replaced or goes down, and the snapshot describes it.
LEMMA DriftReset ==
  ASSUME DriftInv, touched' = {}, core' = snapshot', op'.pc \notin {"hotRemove", "hotAdd"},
         \A e \in Editor : edit'[e].pc \in {"del", "add"} => edit'[e].tag \in HotTag
  PROVE  DriftInv'
BY DEF DriftInv

\* The operation moves on outside a hot apply and a stop.
LEMMA DriftMove ==
  ASSUME DriftInv, UNCHANGED coreVars, op.pc \notin {"hotAdd", "stop"},
         op'.pc \notin {"hotRemove", "hotAdd", "stop"},
         \A e \in Editor : edit'[e].pc \in {"del", "add"} => edit'[e].tag \in HotTag
  PROVE  DriftInv'
BY DEF DriftInv, coreVars

\* The caller that gets its answer goes idle.
LEMMA ReturnEdits ==
  ASSUME DriftInv, Return
  PROVE  /\ \A e \in Editor : edit'[e].pc \in {"del", "add"} => edit'[e].tag \in HotTag
         /\ op'.pc = "idle"
BY DEF DriftInv, Return, NoEdit, NoOp

LEMMA CommitEdits ==
  ASSUME TypeOK, DriftInv, NEW e \in Editor, NEW k, NEW t, NEW v, NEW p,
         Commit(e, k, t, v, p), p \in {"del", "add"} => t \in HotTag
  PROVE  DriftInv'
<1>1. \A d \in Editor : edit'[d].pc \in {"del", "add"} => edit'[d].tag \in HotTag
  BY DEF TypeOK, Commit, DriftInv
<1>2. QED
  BY <1>1, DriftEdit DEF Commit

\* The hot apply and its failure: what is half done is a part of the difference
\* between the two configurations, which has hot handlers only.
LEMMA DriftHot ==
  ASSUME TypeOK, DriftInv, Decide \/ HotRemove \/ HotAdd \/ HotFails
  PROVE  DriftInv'
<1> USE DEF coreVars
<1>1. op \in OpType /\ snapshot \in Shape /\ core \in Shape
  BY DEF TypeOK
<1>2. UNCHANGED edit
  BY DEF Decide, HotRemove, HotAdd, HotFails
<1>3. CASE Decide
  <2>1. op'.built = op.built /\ op'.pc = NextStage /\ UNCHANGED coreVars /\ op.pc = "decide"
    BY <1>1, <1>3 DEF Decide, OpType
  <2>2. NextStage \in {"start", "finish", "hotRemove", "stop"}
    BY DEF NextStage
  <2>3. NextStage = "hotRemove" => Diff(snapshot, op.built) \subseteq HotTag
    BY DEF NextStage, Diff, Tag
  <2>4. QED
    BY <1>2, <2>1, <2>2, <2>3 DEF DriftInv, Diff
<1>4. CASE HotRemove
  <2>1. /\ op.pc = "hotRemove" /\ core' = Without(core, Removals) /\ UNCHANGED <<snapshot, touched, running>>
        /\ op'.pc = "hotAdd" /\ op'.built = op.built
    BY <1>1, <1>4 DEF HotRemove, OpType
  <2>2. \A t \in Tag : core'[t] = IF t \in Removals THEN Off ELSE core[t]
    BY <2>1 DEF Without
  <2>3. Removals' = Removals /\ Diff(snapshot, op.built)' = Diff(snapshot, op.built)
    BY <2>1 DEF Removals, Diff
  <2>4. QED
    BY <1>2, <2>1, <2>2, <2>3 DEF DriftInv
<1>5. CASE HotAdd
  <2>1. /\ op.pc = "hotAdd" /\ running /\ core' = Overlay(core, Additions, op.built) /\ snapshot' = op.built
        /\ UNCHANGED <<touched, running>> /\ op'.pc = "finish"
    BY <1>1, <1>5 DEF HotAdd, OpType
  <2>2. \A t \in Tag : core'[t] = IF t \in Additions THEN op.built[t] ELSE core[t]
    BY <2>1 DEF Overlay
  <2>3. \A t \in Tag \ touched : core[t] = IF t \in Removals THEN Off ELSE snapshot[t]
    BY <2>1 DEF DriftInv
  <2>4. \A t \in Tag \ touched : core'[t] = op.built[t]
    BY <2>2, <2>3 DEF Additions, Removals, Diff
  <2>5. QED
    BY <1>2, <2>1, <2>4 DEF DriftInv
<1>6. CASE HotFails
  <2>1. /\ op.pc \in {"hotRemove", "hotAdd"} /\ UNCHANGED <<snapshot, touched, running>>
        /\ op'.pc = "stop" /\ op'.built = op.built
    BY <1>1, <1>6 DEF HotFails, OpType
  <2>2. Diff(snapshot, op.built) \subseteq HotTag
    BY <2>1 DEF DriftInv
  <2>3. ASSUME running, NEW t \in Tag \ touched, core'[t] # snapshot[t]
        PROVE  t \in HotTag /\ snapshot[t] # op.built[t]
    <3>1. CASE op.pc = "hotRemove"
      <4>1. PICK S \in SUBSET Removals : core' = Without(core, S)
        BY <1>6, <2>3, <3>1 DEF HotFails
      <4>2. core[t] = snapshot[t]
        BY <2>3, <3>1 DEF DriftInv
      <4>3. t \in Removals
        BY <2>3, <4>1, <4>2 DEF Without
      <4>4. QED
        BY <2>2, <4>3 DEF Removals, Diff
    <3>2. CASE op.pc = "hotAdd"
      <4>1. PICK S \in SUBSET Additions : core' = Overlay(core, S, op.built)
        BY <1>6, <2>3, <3>2 DEF HotFails
      <4>2. core[t] = IF t \in Removals THEN Off ELSE snapshot[t]
        BY <2>3, <3>2 DEF DriftInv
      <4>3. t \in Removals \cup Additions
        BY <2>3, <4>1, <4>2 DEF Overlay
      <4>4. QED
        BY <2>2, <4>3 DEF Removals, Additions, Diff
    <3>3. QED
      BY <2>1, <3>1, <3>2
  <2>4. QED
    BY <1>2, <2>1, <2>3 DEF DriftInv
<1>7. QED
  BY <1>3, <1>4, <1>5, <1>6

\* A stop that fails and leaves the core alive accounts for what a failed hot
\* apply may have left in it.
LEMMA DriftStops ==
  ASSUME TypeOK, DriftInv, StopOldFails
  PROVE  DriftInv'
<1>1. op.pc = "stop" /\ op'.pc = "failInc" /\ UNCHANGED edit
  BY DEF StopOldFails, Failed, NoOp
<1>2. \A e \in Editor : edit'[e].pc \in {"del", "add"} => edit'[e].tag \in HotTag
  BY <1>1 DEF DriftInv
<1>3. CASE touched' = {} /\ core' = snapshot'
  BY <1>1, <1>2, <1>3, DriftReset
<1>4. CASE /\ touched' = touched \cup (Diff(snapshot, op.built) \cap HotTag)
           /\ running /\ UNCHANGED <<running, snapshot, core>>
  <2>1. \A t \in Tag \ touched' : core[t] = snapshot[t]
    BY <1>1, <1>4 DEF DriftInv, Diff
  <2>2. touched' \subseteq HotTag
    BY <1>4 DEF DriftInv
  <2>3. QED
    BY <1>1, <1>2, <1>4, <2>1, <2>2 DEF DriftInv
<1>5. QED
  BY <1>3, <1>4 DEF StopOldFails, CoreRuns, CoreDown

LEMMA DriftStep == TypeOK /\ DriftInv /\ [Next]_vars => DriftInv'
<1> SUFFICES ASSUME TypeOK, DriftInv, [Next]_vars PROVE DriftInv'
  OBVIOUS
<1> USE DEF coreVars
<1>1. ASSUME NEW e \in Editor, NewEdit(e) PROVE DriftInv'
  BY <1>1, CommitEdits, Zenon DEF NewEdit, SetInboundEnable, UpdateInbound, AddInbound, DelInbound, EditColdSection, SaveTemplate
<1>2. ASSUME NEW e \in Editor, PushDel(e) PROVE DriftInv'
  <2>1. edit[e].tag \in HotTag /\ edit[e].need \in BOOLEAN
    BY <1>2 DEF PushDel, DriftInv, TypeOK, EditType
  <2>2. \A d \in Editor : edit'[d].pc \in {"del", "add"} => edit'[d].tag \in HotTag
    BY <1>2, <2>1, SameEdits DEF PushDel
  <2>3. QED
    BY <1>2, <2>1, <2>2, DriftPush DEF PushDel
<1>3. ASSUME NEW e \in Editor, PushAdd(e) PROVE DriftInv'
  <2>1. edit[e].tag \in HotTag /\ edit[e].need \in BOOLEAN
    BY <1>3 DEF PushAdd, DriftInv, TypeOK, EditType
  <2>2. \A d \in Editor : edit'[d].pc \in {"del", "add"} => edit'[d].tag \in HotTag
    BY <1>3, <2>1, SameEdits DEF PushAdd
  <2>3. QED
    BY <1>3, <2>1, <2>2, DriftPush DEF PushAdd
<1>4. ASSUME NEW e \in Editor, PushDelNotFound(e) \/ PushDelFails(e) \/ PushAddFails(e) PROVE DriftInv'
  <2>1. \A d \in Editor : edit'[d].pc \in {"del", "add"} => edit'[d].tag \in HotTag
    BY <1>4, SameEdits DEF PushDelNotFound, PushDelFails, PushAddFails
  <2>2. QED
    BY <1>4, <2>1, DriftEdit DEF PushDelNotFound, PushDelFails, PushAddFails
<1>5. ASSUME NEW e \in Editor, MarkInc(e) \/ MarkStore(e) \/ LookRunning(e) PROVE DriftInv'
  <2>1. \A d \in Editor : edit'[d].pc \in {"del", "add"} => edit'[d].tag \in HotTag
    BY <1>5 DEF MarkInc, MarkStore, LookRunning, TypeOK, EditType, NoEdit, DriftInv
  <2>2. QED
    BY <1>5, <2>1, DriftEdit DEF MarkInc, MarkStore, LookRunning
<1>6. ASSUME NEW e \in Editor, SaverRestart(e) PROVE DriftInv'
  <2>1. \A d \in Editor : edit'[d].pc \in {"del", "add"} => edit'[d].tag \in HotTag
    BY <1>6 DEF SaverRestart, TypeOK, EditType, DriftInv
  <2>2. QED
    BY <1>6, <2>1, DriftMove DEF SaverRestart, Begin, NoOp
<1>7. ASSUME NEW c, NEW f, NEW p, Begin(c, f, p), UNCHANGED edit PROVE DriftInv'
  BY <1>7, DriftMove DEF Begin, NoOp, DriftInv
<1>8. CASE PanelRestart \/ TrafficReconcile \/ CronRestart \/ CheckRestart
  BY <1>7, <1>8, Zenon DEF PanelRestart, TrafficReconcile, CronRestart, CheckRestart
<1>9. CASE PanelStop \/ CronConsume \/ CheckTick
  <2>1. UNCHANGED <<coreVars, edit>> /\ (UNCHANGED op \/ (op.pc = "idle" /\ op'.pc = "halt"))
    BY <1>9 DEF PanelStop, CronConsume, CheckTick, NoOp
  <2>2. QED
    BY <2>1, DriftEdit, DriftMove DEF DriftInv
<1>10. CASE Build \/ BuildFails
  <2>1. op.pc = "build" /\ op'.pc \in {"decide", "failInc"} /\ UNCHANGED <<coreVars, edit>>
    BY <1>10 DEF Build, BuildFails, Failed, NoOp, TypeOK, OpType
  <2>2. QED
    BY <2>1, DriftMove DEF DriftInv
<1>11. CASE Decide \/ HotRemove \/ HotAdd \/ HotFails
  BY <1>11, DriftHot, Zenon
<1>12. CASE StopOldFails
  BY <1>12, DriftStops
<1>13. CASE StopOld \/ StartNew \/ StartNewFails \/ Halt
  <2>1. op \in OpType
    BY DEF TypeOK
  <2>2. op'.pc \in {"start", "finish", "failInc", "idle"}
    <3>1. StopOld => op'.pc = "start"
      BY <2>1 DEF StopOld, OpType
    <3>2. StartNew => op'.pc = "finish"
      BY <2>1 DEF StartNew, OpType
    <3>3. StartNewFails => op'.pc = "failInc"
      BY DEF StartNewFails, Failed, NoOp
    <3>4. Halt => op'.pc = "idle"
      BY DEF Halt, NoOp
    <3>5. QED
      BY <1>13, <3>1, <3>2, <3>3, <3>4
  <2>3. \E c : (CoreRuns(c) \/ CoreDown(c)) /\ UNCHANGED edit
    BY <1>13, Zenon DEF StopOld, StartNew, StartNewFails, Halt
  <2>4. QED
    BY <2>2, <2>3, DriftReset DEF DriftInv, CoreRuns, CoreDown
<1>14. CASE Crash
  BY <1>14 DEF Crash, CoreDown, DriftInv, Diff, Removals
<1>15. CASE FinishLoad \/ FailInc \/ HaltFails
  <2>1. op \in OpType
    BY DEF TypeOK
  <2>2. op.pc \in {"finish", "failInc", "halt"} /\ op'.pc \in {"clear", "failStore", "idle"}
    BY <1>15, <2>1 DEF FinishLoad, FailInc, HaltFails, NoOp, OpType
  <2>3. UNCHANGED <<coreVars, edit>>
    BY <1>15, Zenon DEF FinishLoad, FailInc, HaltFails
  <2>4. QED
    BY <2>2, <2>3, DriftMove DEF DriftInv
<1>16. CASE FinishClear \/ FinishKeep \/ FinishReconcile \/ FailStore
  <2>1. op.pc \in {"finish", "clear", "failStore"} /\ UNCHANGED coreVars /\ Return
    BY <1>16 DEF FinishClear, FinishKeep, FinishReconcile, FailStore
  <2>2. QED
    BY <2>1, ReturnEdits, DriftMove
<1>17. CASE UNCHANGED vars
  BY <1>17, DriftEdit DEF vars, DriftInv
<1>18. QED
  BY <1>1, <1>2, <1>3, <1>4, <1>5, <1>6, <1>8, <1>9, <1>10, <1>11, <1>12, <1>13,
     <1>14, <1>15, <1>16, <1>17, Zenon DEF Next, EditorStep, OpStep

LEMMA InitDrift == Init => DriftInv
BY DEF Init, DriftInv, NoEdit, NoOp

LEMMA DriftAlways == Spec => []DriftInv
<1>1. TypeOK /\ DriftInv /\ [Next]_vars => DriftInv'
  BY DriftStep
<1>2. QED
  BY <1>1, InitDrift, TypeCorrect, PTL DEF Spec

\* What the panel believes of the core differs from what the core runs only by
\* handlers pushed behind the snapshot, whatever hot applies, stops and starts
\* failed half way, and whenever the core crashed.
THEOREM DriftIsExplained == Spec => []DriftExplained
<1>1. DriftInv => DriftExplained
  BY DEF DriftInv, DriftExplained, Diff
<1>2. QED
  BY <1>1, DriftAlways, PTL

-----------------------------------------------------------------------------
\* A step that changes no configuration, request or operation and forgets
\* nobody who has yet to ask.
LEMMA ColdFrame ==
  ASSUME ColdInv, UNCHANGED <<db, snapshot, running, requestVars, op, history>>,
         \A t \in ColdTag : AskedFor(t) => AskedFor(t)', Recorded => Recorded'
  PROVE  ColdInv'
BY DEF ColdInv, HasBuilt, requestVars, history

\* A hot edit that goes on: it had asked for nothing yet.
LEMMA ColdSettle ==
  ASSUME TypeOK, ColdInv, NEW e \in Editor, NEW n \in BOOLEAN, edit[e].pc \in {"del", "add"},
         Settle(e, n) \/ AfterDel(e, n),
         UNCHANGED <<db, snapshot, running, requestVars, op, cron, history>>
  PROVE  ColdInv'
<1>1. \A d \in Editor : d # e => edit'[d] = edit[d]
  BY DEF TypeOK, Settle, AfterDel
<1>2. \A t \in ColdTag : AskedFor(t) => AskedFor(t)'
  BY <1>1 DEF AskedFor
<1>3. Recorded => Recorded'
  BY <1>1 DEF Recorded, requestVars, history
<1>4. QED
  BY <1>2, <1>3, ColdFrame

\* A commit changes one section; of a cold one the editor has yet to ask.
LEMMA ColdCommit ==
  ASSUME TypeOK, ColdInv, NEW e \in Editor, NEW k, NEW t \in Tag, NEW v, NEW p,
         Commit(e, k, t, v, p), t \in ColdTag => p \in {"inc", "look"}
  PROVE  ColdInv'
<1>1. /\ edit[e].pc = "idle" /\ \A d \in Editor : d # e => edit'[d] = edit[d]
      /\ edit'[e].pc = p /\ edit'[e].tag = t
  BY DEF TypeOK, Commit
<1>2. UNCHANGED <<snapshot, running, flag, gen, op, cron, covered, overtaken, unasked>>
  BY DEF Commit, coreVars, requestVars, history
<1>3. \A u \in ColdTag : AskedFor(u) => AskedFor(u)'
  BY <1>1 DEF AskedFor
<1>4. t \in ColdTag => AskedFor(t)'
  BY <1>1 DEF AskedFor
<1>5. Recorded => Recorded'
  BY <1>1, <1>2 DEF Recorded
<1>6. \A u \in ColdTag : u = t \/ db'[u] = db[u]
  BY DEF TypeOK, Shape, Commit, Tag
<1>7. QED
  BY <1>2, <1>3, <1>4, <1>5, <1>6 DEF ColdInv, HasBuilt

\* A request of an editor makes the generation newer than any operation's; a
\* save that asks for nothing is noted.
LEMMA ColdAsk ==
  ASSUME TypeOK, ColdInv, NEW e \in Editor, MarkInc(e) \/ MarkStore(e) \/ LookRunning(e)
  PROVE  ColdInv'
<1> USE DEF coreVars, requestVars, history
<1>1. gen \in Nat /\ op \in OpType /\ edit \in [Editor -> EditType] /\ covered \in Nat
  BY DEF TypeOK
<1>2. CASE MarkInc(e)
  <2>1. /\ gen' = gen + 1 /\ edit'[e].pc = "store"
        /\ UNCHANGED <<db, snapshot, running, op, covered, overtaken, unasked>>
    BY <1>1, <1>2 DEF MarkInc, EditType
  <2>2. Recorded'
    BY <2>1 DEF Recorded
  <2>3. op.startGen \in Nat
    BY <1>1 DEF OpType
  <2>4. QED
    BY <1>1, <2>1, <2>2, <2>3 DEF ColdInv, HasBuilt
<1>3. CASE MarkStore(e)
  <2>1. /\ flag' = TRUE /\ edit[e].pc = "store" /\ \A d \in Editor : d # e => edit'[d] = edit[d]
        /\ UNCHANGED <<db, snapshot, running, gen, op, covered, overtaken, unasked>>
    BY <1>1, <1>3 DEF MarkStore
  <2>2. Recorded'
    BY <2>1 DEF Recorded
  <2>3. \A t \in ColdTag : AskedFor(t) => AskedFor(t)'
    BY <2>1 DEF AskedFor
  <2>4. QED
    BY <2>1, <2>2, <2>3 DEF ColdInv, HasBuilt
<1>4. CASE LookRunning(e)
  <2>1. /\ edit[e].pc = "look" /\ \A d \in Editor : d # e => edit'[d] = edit[d]
        /\ unasked' = IF running THEN unasked ELSE unasked \cup {edit[e].tag}
        /\ UNCHANGED <<db, snapshot, running, flag, gen, op, cron, covered, overtaken>>
    BY <1>1, <1>4 DEF LookRunning
  <2>2. running => edit'[e].pc = "call" /\ edit'[e].tag = edit[e].tag
    BY <1>1, <1>4 DEF LookRunning, EditType
  <2>3. \A t \in ColdTag : AskedFor(t) => AskedFor(t)' \/ t \in unasked'
    BY <2>1, <2>2 DEF AskedFor
  <2>4. unasked \subseteq unasked'
    BY <2>1
  <2>5. Recorded => Recorded'
    BY <2>1 DEF Recorded
  <2>6. QED
    BY <2>1, <2>3, <2>4, <2>5 DEF ColdInv, HasBuilt
<1>5. QED
  BY <1>2, <1>3, <1>4

\* An operation begins with the newest generation, whoever asked for it.
LEMMA ColdBegin ==
  ASSUME TypeOK, ColdInv, NEW c, NEW f, NEW p, Begin(c, f, p)
  PROVE  ColdInv'
<1>1. op'.pc = "build" /\ op'.startGen = gen /\ UNCHANGED <<gen, covered>>
  BY DEF Begin, NoOp, requestVars, history
<1>2. gen \in Nat
  BY DEF TypeOK
<1>3. QED
  BY <1>1, <1>2 DEF ColdInv, HasBuilt

\* The stages of an operation after its build: "finish" is reached only with
\* the built configuration in the snapshot.
LEMMA ColdStages ==
  ASSUME TypeOK, ColdInv, HasBuilt, HasBuilt',
         op'.built = op.built, op'.startGen = op.startGen,
         UNCHANGED <<db, gen, edit, covered, unasked>>,
         op'.pc \in {"finish", "clear"} => snapshot' = op.built
  PROVE  ColdInv'
<1>1. \A t \in ColdTag : AskedFor(t)' = AskedFor(t)
  BY DEF AskedFor
<1>2. op'.pc \notin {"idle", "halt"}
  BY DEF HasBuilt
<1>3. QED
  BY <1>1, <1>2 DEF ColdInv

\* An operation that goes on to mark its failure.
LEMMA ColdFailed ==
  ASSUME ColdInv, op'.pc \in {"failInc", "failStore"}, covered' <= gen'
  PROVE  ColdInv'
BY DEF ColdInv, HasBuilt

\* The core goes down, or was down, and the operation in progress stays.
LEMMA ColdDown ==
  ASSUME ColdInv, ~running', UNCHANGED <<db, snapshot, gen, op, edit, covered, unasked>>
  PROVE  ColdInv'
BY DEF ColdInv, HasBuilt, AskedFor

\* Back to the caller: whoever has yet to ask or to flag is not the caller.
LEMMA ReturnAsked ==
  ASSUME TypeOK, Callers, Return
  PROVE  /\ \A t \in ColdTag : AskedFor(t) => AskedFor(t)'
         /\ op'.pc = "idle"
<1>1. \A d \in Editor : edit[d].pc \in {"inc", "look", "call"} => edit'[d] = edit[d]
  BY DEF Return, Callers
<1>2. QED
  BY <1>1 DEF AskedFor, Return, NoOp

\* Back to the caller with a core that runs what the operation built, or with a
\* request recorded.
LEMMA ColdReturn ==
  ASSUME TypeOK, ColdInv, Callers, Return, UNCHANGED <<db, snapshot, running, gen, unasked>>,
         covered' <= gen,
         \/ Recorded'
         \/ op.pc \in {"finish", "clear"} /\ (gen # op.startGen => Recorded')
  PROVE  ColdInv'
<1>1. op'.pc = "idle" /\ \A t \in ColdTag : AskedFor(t) => AskedFor(t)'
  BY ReturnAsked
<1>2. CASE Recorded'
  BY <1>1, <1>2 DEF ColdInv, HasBuilt
<1>3. CASE op.pc \in {"finish", "clear"} /\ (gen # op.startGen => Recorded')
  BY <1>1, <1>3 DEF ColdInv, HasBuilt
<1>4. QED
  BY <1>2, <1>3

\* A request newer than a finished operation is still in somebody's hand, and
\* stays there when the operation returns (NoRequestLost).
LEMMA NewerIsRecorded ==
  ASSUME TypeOK, ColdInv, Callers, NoRequestLost, Return, op.pc = "finish",
         gen # op.startGen, flag' = flag, overtaken' = overtaken
  PROVE  Recorded'
<1>1. gen > covered
  BY DEF TypeOK, OpType, ColdInv, HasBuilt
<1>2. flag \/ overtaken \/ cron = "armed" \/ \E e \in Editor : edit[e].pc = "store"
  BY <1>1 DEF NoRequestLost, RequestInHand
<1>3. cron = "armed" => cron' = "armed"
  BY DEF Return, Callers
<1>4. \A e \in Editor : edit[e].pc = "store" => edit'[e].pc = "store"
  BY DEF Return, Callers
<1>5. QED
  BY <1>2, <1>3, <1>4 DEF Recorded

\* The halves of finishXrayRestart, and the end of a failure.
LEMMA ColdFinish ==
  ASSUME TypeOK, ColdInv, Callers, NoRequestLost,
         FinishClear \/ FinishKeep \/ FinishReconcile \/ FailStore
  PROVE  ColdInv'
<1>1. /\ UNCHANGED <<db, snapshot, running, gen, unasked>> /\ Return
      /\ op.pc \in {"finish", "clear", "failStore"}
  BY Zenon DEF FinishClear, FinishKeep, FinishReconcile, FailStore, coreVars, requestVars, history
<1>2. gen \in Nat /\ covered \in Nat /\ op.startGen \in Nat
  BY DEF TypeOK, OpType
<1>3. op.pc \in {"finish", "clear"} => covered <= op.startGen /\ op.startGen <= gen
  BY DEF ColdInv, HasBuilt
<1>4. Cover /\ op.pc \in {"finish", "clear"} => covered' <= gen
  BY <1>2, <1>3 DEF Cover
<1>5. CASE FinishClear
  <2>1. gen # op.startGen => Recorded'
    BY <1>5 DEF FinishClear, Recorded
  <2>2. op.pc = "clear" /\ covered' <= gen
    BY <1>4, <1>5 DEF FinishClear
  <2>3. QED
    BY <1>1, <2>1, <2>2, ColdReturn
<1>6. CASE FinishKeep
  <2>1. op.pc = "finish" /\ covered' <= gen /\ gen # op.startGen /\ flag' = flag /\ overtaken' = overtaken
    BY <1>4, <1>6 DEF FinishKeep, requestVars
  <2>2. Recorded'
    BY <1>1, <2>1, NewerIsRecorded
  <2>3. QED
    BY <1>1, <2>1, <2>2, ColdReturn
<1>7. CASE FinishReconcile
  <2>1. op.pc = "finish" /\ covered' = covered /\ flag' = flag /\ overtaken' = overtaken
    BY <1>7 DEF FinishReconcile, requestVars, history
  <2>2. gen # op.startGen => Recorded'
    BY <1>1, <2>1, NewerIsRecorded
  <2>3. covered' <= gen
    BY <2>1 DEF ColdInv
  <2>4. QED
    BY <1>1, <2>1, <2>2, <2>3, ColdReturn
<1>8. CASE FailStore
  <2>1. flag' = TRUE /\ covered' = covered
    BY <1>8 DEF FailStore, history
  <2>2. Recorded'
    BY <2>1 DEF Recorded
  <2>3. covered' <= gen
    BY <2>1 DEF ColdInv
  <2>4. QED
    BY <1>1, <2>2, <2>3, ColdReturn
<1>9. QED
  BY <1>5, <1>6, <1>7, <1>8

LEMMA ColdStep ==
  TypeOK /\ Callers /\ NoRequestLost /\ ColdInv /\ [Next]_vars => ColdInv'
<1> SUFFICES ASSUME TypeOK, Callers, NoRequestLost, ColdInv, [Next]_vars PROVE ColdInv'
  OBVIOUS
<1> USE DEF coreVars, requestVars, history
<1>0. op \in OpType /\ gen \in Nat /\ covered \in Nat /\ covered <= gen
  BY DEF TypeOK, ColdInv
<1>1. ASSUME NEW e \in Editor, NewEdit(e) PROVE ColdInv'
  <2>1. PICK t \in Tag : DelInbound(e, t) \/ \E v \in Values(t) : SetInboundEnable(e, t, v) \/ UpdateInbound(e, t, v) \/ AddInbound(e, t, v) \/ EditColdSection(e, t, v) \/ SaveTemplate(e, t, v)
    BY <1>1 DEF NewEdit
  <2>2. t \in HotTag => t \notin ColdTag
    BY XrayRestartAssumption
  <2>3. QED
    BY <2>1, <2>2, ColdCommit, Zenon DEF DelInbound, SetInboundEnable, UpdateInbound, AddInbound, EditColdSection, SaveTemplate
<1>2. ASSUME NEW e \in Editor, PushDel(e) \/ PushDelNotFound(e) \/ PushDelFails(e) PROVE ColdInv'
  <2>1. /\ edit[e].pc = "del" /\ edit[e].need \in BOOLEAN /\ (edit[e].kind = "delete") \in BOOLEAN
        /\ UNCHANGED <<db, snapshot, running, requestVars, op, cron, history>>
    BY <1>2 DEF TypeOK, EditType, PushDel, PushDelNotFound, PushDelFails
  <2>2. \E n \in BOOLEAN : AfterDel(e, n)
    BY <1>2, <2>1 DEF PushDel, PushDelNotFound, PushDelFails
  <2>3. QED
    BY <2>1, <2>2, ColdSettle
<1>3. ASSUME NEW e \in Editor, PushAdd(e) \/ PushAddFails(e) PROVE ColdInv'
  <2>1. /\ edit[e].pc = "add" /\ edit[e].need \in BOOLEAN
        /\ UNCHANGED <<db, snapshot, running, requestVars, op, cron, history>>
    BY <1>3 DEF TypeOK, EditType, PushAdd, PushAddFails
  <2>2. \E n \in BOOLEAN : Settle(e, n)
    BY <1>3, <2>1 DEF PushAdd, PushAddFails
  <2>3. QED
    BY <2>1, <2>2, ColdSettle
<1>4. ASSUME NEW e \in Editor, MarkInc(e) \/ MarkStore(e) \/ LookRunning(e) PROVE ColdInv'
  BY <1>4, ColdAsk
<1>5. ASSUME NEW e \in Editor, SaverRestart(e) PROVE ColdInv'
  BY <1>5, ColdBegin DEF SaverRestart
<1>6. CASE PanelRestart \/ TrafficReconcile \/ CronRestart \/ CheckRestart
  BY <1>6, ColdBegin, Zenon DEF PanelRestart, TrafficReconcile, CronRestart, CheckRestart
<1>7. CASE PanelStop
  <2>1. op.pc = "idle" /\ op'.pc = "halt" /\ UNCHANGED <<db, snapshot, running, flag, gen, edit, cron, covered, overtaken, unasked>>
    BY <1>7 DEF PanelStop, NoOp
  <2>2. QED
    BY <2>1 DEF ColdInv, HasBuilt, AskedFor, Recorded
<1>8. CASE CronConsume
  <2>1. cron' = "armed" /\ UNCHANGED <<db, snapshot, running, gen, op, edit, covered, overtaken, unasked>>
    BY <1>8 DEF CronConsume
  <2>2. QED
    BY <2>1 DEF ColdInv, HasBuilt, AskedFor, Recorded
<1>9. CASE CheckTick
  BY <1>9, ColdFrame DEF CheckTick, AskedFor, Recorded
<1>10. CASE Build
  <2>1. /\ op.pc = "build" /\ op'.pc = "decide" /\ op'.built = db /\ op'.startGen = op.startGen
        /\ UNCHANGED <<db, gen, covered>>
    BY <1>0, <1>10 DEF Build, OpType
  <2>2. QED
    BY <2>1 DEF ColdInv, HasBuilt
<1>11. CASE BuildFails \/ StopOldFails \/ StartNewFails
  <2>1. op'.pc = "failInc" /\ UNCHANGED <<gen, covered>>
    BY <1>11 DEF BuildFails, StopOldFails, StartNewFails, Failed, NoOp
  <2>2. QED
    BY <1>0, <2>1, ColdFailed
<1>12. CASE Decide
  <2>1. /\ op.pc = "decide" /\ op'.pc = NextStage /\ op'.built = op.built /\ op'.startGen = op.startGen
        /\ UNCHANGED <<db, snapshot, gen, edit, covered, unasked>>
    BY <1>0, <1>12 DEF Decide, OpType
  <2>2. NextStage \in {"start", "finish", "hotRemove", "stop"} /\ (NextStage = "finish" => Diff(snapshot, op.built) = {})
    BY DEF NextStage
  <2>3. Diff(snapshot, op.built) = {} => snapshot = op.built
    BY <1>0 DEF Diff, TypeOK, Shape, OpType
  <2>4. QED
    BY <2>1, <2>2, <2>3, ColdStages DEF HasBuilt
<1>13. CASE HotRemove \/ HotFails \/ StopOld
  <2>1. /\ op.pc \in {"hotRemove", "hotAdd", "stop"} /\ op'.pc \in {"hotAdd", "stop", "start"}
        /\ op'.built = op.built /\ op'.startGen = op.startGen
    BY <1>0, <1>13 DEF HotRemove, HotFails, StopOld, OpType
  <2>2. UNCHANGED <<db, gen, edit, covered, unasked>>
    BY <1>13, Zenon DEF HotRemove, HotFails, StopOld
  <2>3. QED
    BY <2>1, <2>2, ColdStages DEF HasBuilt
<1>14. CASE HotAdd \/ StartNew
  <2>1. /\ op.pc \in {"hotAdd", "start"} /\ op'.pc = "finish"
        /\ op'.built = op.built /\ op'.startGen = op.startGen
    BY <1>0, <1>14 DEF HotAdd, StartNew, OpType
  <2>2. snapshot' = op.built /\ UNCHANGED <<db, gen, edit, covered, unasked>>
    BY <1>14, Zenon DEF HotAdd, StartNew, CoreRuns
  <2>3. QED
    BY <2>1, <2>2, ColdStages DEF HasBuilt
<1>15. CASE FinishLoad
  <2>1. /\ op.pc = "finish" /\ op'.pc = "clear" /\ op'.built = op.built /\ op'.startGen = op.startGen
        /\ UNCHANGED <<db, snapshot, gen, edit, covered, unasked>>
    BY <1>0, <1>15 DEF FinishLoad, OpType
  <2>2. snapshot' = op.built
    BY <2>1 DEF ColdInv
  <2>3. QED
    BY <2>1, <2>2, ColdStages DEF HasBuilt
<1>16. CASE FinishClear \/ FinishKeep \/ FinishReconcile \/ FailStore
  BY <1>16, ColdFinish, Zenon
<1>17. CASE FailInc
  <2>1. op'.pc = "failStore" /\ gen' = gen + 1 /\ covered' = covered
    BY <1>0, <1>17 DEF FailInc, OpType
  <2>2. QED
    BY <1>0, <2>1, ColdFailed
<1>18. CASE Halt
  <2>1. op'.pc = "idle" /\ ~running' /\ UNCHANGED <<gen, covered>>
    BY <1>18 DEF Halt, CoreDown, NoOp
  <2>2. QED
    BY <2>1 DEF ColdInv, HasBuilt
<1>19. CASE HaltFails
  <2>1. op.pc = "halt" /\ op'.pc = "idle" /\ UNCHANGED <<db, snapshot, running, flag, gen, edit, cron, covered, overtaken, unasked>>
    BY <1>19 DEF HaltFails, NoOp
  <2>2. QED
    BY <2>1 DEF ColdInv, HasBuilt, AskedFor, Recorded
<1>20. CASE Crash
  BY <1>20, ColdDown DEF Crash, CoreDown
<1>21. CASE UNCHANGED vars
  BY <1>21, ColdFrame DEF vars, AskedFor, Recorded
<1>22. QED
  BY <1>1, <1>2, <1>3, <1>4, <1>5, <1>6, <1>7, <1>8, <1>9, <1>10, <1>11, <1>12, <1>13,
     <1>14, <1>15, <1>16, <1>17, <1>18, <1>19, <1>20, <1>21, Zenon DEF Next, EditorStep, OpStep

LEMMA ColdAlways == Spec => []ColdInv
<1>1. Init => ColdInv
  BY DEF Init, ColdInv, HasBuilt, NoOp
<1>2. TypeOK /\ Callers /\ NoRequestLost /\ ColdInv /\ [Next]_vars => ColdInv'
  BY ColdStep
<1>3. Init => TypeOK /\ Callers /\ NoRequestLost
  BY InitTyped, CallerNames DEF Init, Callers, NoRequestLost, NoOp
<1>4. TypeOK /\ Callers /\ NoRequestLost /\ [Next]_vars => Callers' /\ NoRequestLost'
  BY CallersStep, RequestStep
<1>5. QED
  BY <1>1, <1>2, <1>3, <1>4, TypeCorrect, PTL DEF Spec

\* A cold section that was saved is in the running core once nothing is under
\* way and nothing is pending, whatever was built, stopped or failed meanwhile,
\* the saves of updateSetting that asked for nothing excepted: what the core
\* has of it is what the snapshot has (DriftInv), and the snapshot is what the
\* database asks for (ColdInv).
THEOREM ColdSectionsApplied == Spec => []ColdEditsReachCore
<1>1. DriftInv /\ ColdInv => ColdEditsReachCore
  <2> SUFFICES ASSUME DriftInv, ColdInv, Quiet, running, ~flag, ~overtaken,
                      NEW t \in ColdTag, core[t] # db[t]
               PROVE  t \in unasked
    BY DEF ColdEditsReachCore, Diff
  <2>1. op.pc = "idle" /\ ~Recorded /\ ~AskedFor(t)
    BY DEF Quiet, Recorded, AskedFor
  <2>2. core[t] = snapshot[t]
    BY <2>1, XrayRestartAssumption DEF DriftInv, Tag
  <2>3. QED
    BY <2>1, <2>2 DEF ColdInv
<1>2. QED
  BY <1>1, DriftAlways, ColdAlways, PTL
=============================================================================
