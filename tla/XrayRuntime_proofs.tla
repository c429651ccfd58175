-------------------------- MODULE XrayRuntime_proofs --------------------------
(***************************************************************************)
(* Proofs about XrayRuntime for every set of plans and every bound: types, *)
(* the owner of the published listeners, that no process is launched next  *)
(* to one that is wanted, and that a restart survives a single failure.    *)
(***************************************************************************)
EXTENDS XrayRuntime, TLAPS

Typed ==
  /\ proc \in [Slot -> ProcType]
  /\ p \in Slot
  /\ front \in Slot \cup {None}
  /\ op \in OpType
  /\ manual \in BOOLEAN
  /\ faults \in 0..MaxFaults

\* A process that runs has a goroutine that waits for it.
Waited == \A i \in Slot : proc[i].os = "up" => proc[i].waiter = "wait" /\ ~proc[i].done

\* Listeners are published for a plan; a live process behind them is current.
FrontPlan == front # None => proc[front].plan # Empty
FrontOwner == IsRunning(front) => front = p

\* While an operation starts a process the current one is dead.
Starting ==
  \/ op.pc \in {"launch", "ready", "publish", "startFailed"}
  \/ op.pc \in {"signal", "await", "stopped"} /\ op.why = "undo"
  \/ op.pc = "stopped" /\ op.why = "restart" /\ ~op.err
CurrentDead == Starting => ~IsRunning(p)

\* What the operation in progress knows of its subject and of the current one.
Subject ==
  /\ op.pc \in {"ready", "publish", "signal", "await", "startFailed"} => op.subject \in Slot
  /\ op.pc \in {"ready", "publish"} => proc[op.subject].plan = op.plan
  /\ op.pc = "stopFront" => op.why # "undo"
  /\ op.pc = "stopped" /\ op.why = "undo" => op.subject \in Slot
  /\ op.pc = "await" => proc[op.subject].intent
  /\ op.pc \in {"stopFront", "signal", "await", "stopped"} /\ op.why # "undo"
       => op.subject = p
  /\ op.pc \in {"stopFront", "signal", "await", "stopped"} /\ op.why = "restart"
       => op.prev = proc[p].plan
  /\ op.pc \in {"recover", "republish"} => op.prev = proc[p].plan

\* A process whose callback runs or may still run is current or about to be.
Watched(j) == proc[j].waiter = "callback" \/ (proc[j].waiter = "wait" /\ ~proc[j].intent)
Owner(j) == j = p \/ (op.pc \in {"ready", "publish", "signal", "await"} /\ j = op.subject)
Wanted == \A j \in Slot : Watched(j) => ~proc[j].done /\ Owner(j)

IInv == Typed /\ Waited /\ FrontPlan /\ FrontOwner /\ CurrentDead /\ Subject /\ Wanted

\* What the proofs use of the assumption on the constants.
LEMMA ConstantFacts == Empty \in Config /\ None \notin Slot /\ MaxFaults \in Nat /\ 1 \in Slot
BY XrayRuntimeAssumption DEF Slot, None, Config

\* The bound on failures.
LEMMA FaultTyped ==
  ASSUME Typed, Fault
  PROVE  faults' \in 0..MaxFaults
BY ConstantFacts DEF Typed, Fault

\* Counting the failure of a step changes no other field of op.
LEMMA MovesTo ==
  ASSUME Typed, NEW o \in OpType, NEW failed \in BOOLEAN, Moves(o, failed)
  PROVE  /\ op' \in OpType
         /\ faults' \in 0..MaxFaults
         /\ op'.pc = o.pc /\ op'.why = o.why /\ op'.subject = o.subject
         /\ op'.plan = o.plan /\ op'.prev = o.prev /\ op'.err = o.err
<1>1. CASE failed
  BY <1>1, FaultTyped DEF Moves, OpType
<1>2. CASE ~failed
  BY <1>2 DEF Moves, OpType, Typed
<1>3. QED
  BY <1>1, <1>2

\* The record of a process object, dead or started.
LEMMA FreshTyped ==
  ASSUME NEW c \in Config
  PROVE  /\ [NoProc EXCEPT !.plan = c] \in ProcType
         /\ Fresh(c) \in ProcType
         /\ [NoProc EXCEPT !.plan = c].os = "none"
         /\ [NoProc EXCEPT !.plan = c].waiter = "none"
         /\ [NoProc EXCEPT !.plan = c].plan = c
         /\ Fresh(c).waiter = "wait" /\ ~Fresh(c).done /\ Fresh(c).plan = c
BY ConstantFacts DEF Fresh, NoProc, ProcType

\* Process and goroutine steps: each keeps done FALSE until the goroutine is through.
LEMMA CrashStep ==
  ASSUME IInv, NEW i \in Slot, Crash(i)
  PROVE  IInv'
<1> USE ConstantFacts DEF IInv, Crash, IsRunning, Fault, ProcType, OpType, Starting
<1>1. Typed'
  <2>1. faults' \in 0..MaxFaults
    BY FaultTyped
  <2>2. op' \in OpType
    BY DEF Typed
  <2>3. proc' \in [Slot -> ProcType]
    <3>1. proc[i] \in ProcType /\ proc \in [Slot -> ProcType]
      BY DEF Typed
    <3>2. PICK clean \in BOOLEAN :
            proc' = [proc EXCEPT ![i] = [proc[i] EXCEPT !.os = "exited", !.clean = clean]]
      BY <3>1
    <3>3. [proc[i] EXCEPT !.os = "exited", !.clean = clean] \in ProcType
      BY <3>1, <3>2
    <3> HIDE DEF ProcType
    <3>4. QED
      BY <3>1, <3>2, <3>3
  <2>4. QED
    BY <2>1, <2>2, <2>3 DEF Typed
<1>2. Waited'
  BY DEF Typed, Waited
<1>3. FrontPlan'
  BY DEF Typed, FrontPlan, Subject
<1>4. FrontOwner'
  BY DEF Typed, FrontOwner, CurrentDead
<1>5. CurrentDead'
  BY DEF Typed, Waited, CurrentDead, Subject
<1>6. Subject'
  BY DEF Typed, Subject
<1>7. Wanted'
  BY DEF Typed, Waited, CurrentDead, Subject, Wanted, Watched, Owner
<1>8. QED
  BY <1>1, <1>2, <1>3, <1>4, <1>5, <1>6, <1>7

LEMMA DieStep ==
  ASSUME IInv, NEW i \in Slot, Die(i)
  PROVE  IInv'
<1> USE ConstantFacts DEF IInv, Die, IsRunning, ProcType, OpType, Starting
<1>1. Typed'
  <2>1. proc' \in [Slot -> ProcType]
    <3>1. proc[i] \in ProcType /\ proc \in [Slot -> ProcType]
      BY DEF Typed
    <3>2. proc' = [proc EXCEPT ![i] = [proc[i] EXCEPT !.os = "exited", !.clean = TRUE]]
      BY <3>1
    <3>3. [proc[i] EXCEPT !.os = "exited", !.clean = TRUE] \in ProcType
      BY <3>1
    <3> HIDE DEF ProcType
    <3>4. QED
      BY <3>1, <3>2, <3>3
  <2>2. QED
    BY <2>1 DEF Typed
<1>2. Waited'
  BY DEF Typed, Waited
<1>3. FrontPlan'
  BY DEF Typed, FrontPlan, Subject
<1>4. FrontOwner'
  BY DEF Typed, FrontOwner, CurrentDead
<1>5. CurrentDead'
  BY DEF Typed, Waited, CurrentDead, Subject
<1>6. Subject'
  BY DEF Typed, Subject
<1>7. Wanted'
  BY DEF Typed, Waited, CurrentDead, Subject, Wanted, Watched, Owner
<1>8. QED
  BY <1>1, <1>2, <1>3, <1>4, <1>5, <1>6, <1>7

LEMMA WaitReturnsStep ==
  ASSUME IInv, NEW i \in Slot, WaitReturns(i)
  PROVE  IInv'
<1> USE ConstantFacts DEF IInv, WaitReturns, IsRunning, ProcType, OpType, Starting
<1>1. Typed'
  BY DEF Typed
<1>2. Waited'
  BY DEF Typed, Waited
<1>3. FrontPlan'
  BY DEF Typed, FrontPlan, Subject
<1>4. FrontOwner'
  BY DEF Typed, FrontOwner, CurrentDead
<1>5. CurrentDead'
  BY DEF Typed, Waited, CurrentDead, Subject
<1>6. Subject'
  BY DEF Typed, Subject
<1>7. Wanted'
  BY DEF Typed, Waited, CurrentDead, Subject, Wanted, Watched, Owner
<1>8. QED
  BY <1>1, <1>2, <1>3, <1>4, <1>5, <1>6, <1>7

LEMMA CallbackStep ==
  ASSUME IInv, NEW i \in Slot, Callback(i)
  PROVE  IInv'
<1> USE ConstantFacts DEF IInv, Callback, IsRunning, ProcType, OpType, Starting
<1>1. Typed'
  BY DEF Typed
<1>2. Waited'
  BY DEF Typed, Waited
<1>3. FrontPlan'
  BY DEF Typed, FrontPlan, Subject
<1>4. FrontOwner'
  BY DEF Typed, FrontOwner, CurrentDead
<1>5. CurrentDead'
  BY DEF Typed, Waited, CurrentDead, Subject
<1>6. Subject'
  BY DEF Typed, Subject
<1>7. Wanted'
  BY DEF Typed, Waited, CurrentDead, Subject, Wanted, Watched, Owner
<1>8. QED
  BY <1>1, <1>2, <1>3, <1>4, <1>5, <1>6, <1>7

LEMMA CloseDoneStep ==
  ASSUME IInv, NEW i \in Slot, CloseDone(i)
  PROVE  IInv'
<1> USE ConstantFacts DEF IInv, CloseDone, IsRunning, ProcType, OpType, Starting
<1>1. Typed'
  <2>1. proc' \in [Slot -> ProcType]
    <3>1. proc[i] \in ProcType /\ proc \in [Slot -> ProcType]
      BY DEF Typed
    <3>2. proc' = [proc EXCEPT ![i] = [proc[i] EXCEPT !.waiter = "none", !.done = TRUE]]
      BY <3>1
    <3>3. [proc[i] EXCEPT !.waiter = "none", !.done = TRUE] \in ProcType
      BY <3>1
    <3> HIDE DEF ProcType
    <3>4. QED
      BY <3>1, <3>2, <3>3
  <2>2. QED
    BY <2>1 DEF Typed
<1>2. Waited'
  BY DEF Typed, Waited
<1>3. FrontPlan'
  BY DEF Typed, FrontPlan, Subject
<1>4. FrontOwner'
  BY DEF Typed, FrontOwner, CurrentDead
<1>5. CurrentDead'
  BY DEF Typed, Waited, CurrentDead, Subject
<1>6. Subject'
  BY DEF Typed, Subject
<1>7. Wanted'
  BY DEF Typed, Waited, CurrentDead, Subject, Wanted, Watched, Owner
<1>8. QED
  BY <1>1, <1>2, <1>3, <1>4, <1>5, <1>6, <1>7

\* The steps of restartXray and stopXrayRuntime, one lemma per action.
LEMMA BeginStep ==
  ASSUME IInv, NEW c \in Config, NEW force \in BOOLEAN, Begin(c, force)
  PROVE  IInv'
<1> USE ConstantFacts DEF IInv, Begin, IsRunning, NoOp, Doomed, ProcType, OpType, Starting
<1>1. Typed'
  <2>1. op' \in OpType
    <3> HIDE DEF IInv, IsRunning, Doomed, OpType, NoOp, ProcType, Starting
    <3>1. \E n \in {0, 1} :
            op' = [NoOp EXCEPT !.pc = "decide", !.plan = c, !.force = force, !.faults = n]
      OBVIOUS
    <3>2. ASSUME NEW r \in OpType, NEW n \in Nat
          PROVE  [r EXCEPT !.pc = "decide", !.plan = c, !.force = force, !.faults = n] \in OpType
      <4> HIDE DEF Begin
      <4>1. QED
        BY DEF OpType
    <3>3. NoOp \in OpType
      BY DEF OpType, NoOp
    <3>4. QED
      BY <3>1, <3>2, <3>3
  <2> HIDE DEF OpType, ProcType, NoOp
  <2>2. QED
    BY <2>1 DEF Typed
<1>2. Waited'
  BY DEF Typed, Waited
<1>3. FrontPlan'
  BY DEF Typed, FrontPlan, Subject
<1>4. FrontOwner'
  BY DEF Typed, FrontOwner, CurrentDead
<1>5. CurrentDead'
  BY DEF Typed, Waited, CurrentDead, Subject
<1>6. Subject'
  BY DEF Typed, Subject
<1>7. Wanted'
  BY DEF Typed, Waited, CurrentDead, Subject, Wanted, Watched, Owner
<1>8. QED
  BY <1>1, <1>2, <1>3, <1>4, <1>5, <1>6, <1>7

LEMMA DecideStep ==
  ASSUME IInv, Decide
  PROVE  IInv'
<1> USE ConstantFacts DEF IInv, Decide, IsRunning, ProcType, OpType, Starting
<1>1. Typed'
  BY DEF Typed
<1>2. Waited'
  BY DEF Typed, Waited
<1>3. FrontPlan'
  BY DEF Typed, FrontPlan, Subject
<1>4. FrontOwner'
  BY DEF Typed, FrontOwner, CurrentDead
<1>5. CurrentDead'
  BY DEF Typed, Waited, CurrentDead, Subject
<1>6. Subject'
  BY DEF Typed, Subject
<1>7. Wanted'
  BY DEF Typed, Waited, CurrentDead, Subject, Wanted, Watched, Owner
<1>8. QED
  BY <1>1, <1>2, <1>3, <1>4, <1>5, <1>6, <1>7

LEMMA StopFrontStep ==
  ASSUME IInv, StopFront
  PROVE  IInv'
<1> USE ConstantFacts
<1>1. op \in OpType
  BY DEF IInv, Typed
<1>2. PICK failed \in BOOLEAN :
        Moves([op EXCEPT !.pc = IF IsRunning(op.subject) THEN "signal" ELSE "stopped",
                         !.err = @ \/ failed], failed)
  BY DEF StopFront
<1>3. /\ op' \in OpType /\ faults' \in 0..MaxFaults
      /\ op'.pc = IF IsRunning(op.subject) THEN "signal" ELSE "stopped"
      /\ op'.why = op.why /\ op'.plan = op.plan /\ op'.subject = op.subject /\ op'.prev = op.prev
      /\ op.subject \in Slot \cup {None}
  <2> DEFINE o == [op EXCEPT !.pc = IF IsRunning(op.subject) THEN "signal" ELSE "stopped",
                             !.err = @ \/ failed]
  <2>1. o \in OpType
    BY <1>1 DEF OpType
  <2>2. /\ op' \in OpType /\ faults' \in 0..MaxFaults
        /\ op'.pc = o.pc /\ op'.why = o.why /\ op'.subject = o.subject
        /\ op'.plan = o.plan /\ op'.prev = o.prev /\ op'.err = o.err
    BY <1>2, <2>1, MovesTo DEF IInv
  <2>3. QED
    BY <1>1, <2>2 DEF OpType
<1>4. Typed'
  BY <1>3 DEF Typed, IInv, StopFront, IsRunning
<1>5. Waited'
  BY <1>3 DEF Typed, Waited, IInv, StopFront, IsRunning
<1>6. FrontPlan'
  BY <1>3 DEF Typed, FrontPlan, Subject, IInv, StopFront, IsRunning
<1>7. FrontOwner'
  BY <1>3 DEF Typed, FrontOwner, CurrentDead, Starting, IInv, StopFront, IsRunning
<1>8. CurrentDead'
  BY <1>3 DEF Typed, Waited, CurrentDead, Subject, Starting, IInv, StopFront, IsRunning
<1>9. Subject'
  BY <1>3 DEF Typed, Subject, IInv, StopFront, IsRunning
<1>10. Wanted'
  BY <1>3 DEF Typed, Waited, CurrentDead, Subject, Wanted, Starting, Watched, Owner, IInv, StopFront, IsRunning
<1>11. QED
  BY <1>4, <1>5, <1>6, <1>7, <1>8, <1>9, <1>10 DEF IInv

LEMMA SignalStep ==
  ASSUME IInv, Signal
  PROVE  IInv'
<1> USE ConstantFacts
<1>1. op \in OpType /\ proc \in [Slot -> ProcType] /\ op.subject \in Slot
  BY DEF IInv, Typed, Subject, Signal
<1>2. CASE IsRunning(op.subject)
  <2>1. /\ proc' = [proc EXCEPT ![op.subject].intent = TRUE]
        /\ op' = [op EXCEPT !.pc = "await"]
    BY <1>2 DEF Signal
  <2>2. /\ op' \in OpType /\ op'.pc = "await" /\ op'.why = op.why /\ op'.plan = op.plan
        /\ op'.subject = op.subject /\ op'.prev = op.prev /\ op'.err = op.err
    BY <1>1, <2>1 DEF OpType
  <2>3. /\ proc' \in [Slot -> ProcType]
        /\ \A j \in Slot \ {op.subject} : proc'[j] = proc[j]
        /\ proc'[op.subject].intent
        /\ proc'[op.subject].os = proc[op.subject].os
        /\ proc'[op.subject].waiter = proc[op.subject].waiter
        /\ proc'[op.subject].plan = proc[op.subject].plan
        /\ proc'[op.subject].done <=> proc[op.subject].done
    <3> DEFINE r == [proc[op.subject] EXCEPT !.intent = TRUE]
    <3>1. proc[op.subject] \in ProcType /\ proc' = [proc EXCEPT ![op.subject] = r]
      BY <1>1, <2>1
    <3>2. /\ r \in ProcType /\ r.intent /\ r.os = proc[op.subject].os
          /\ r.waiter = proc[op.subject].waiter /\ r.plan = proc[op.subject].plan
          /\ r.done <=> proc[op.subject].done
      BY <3>1 DEF ProcType
    <3> HIDE DEF r
    <3>3. QED
      BY <1>1, <3>1, <3>2
  <2>4. Typed'
    BY <2>2, <2>3 DEF Typed, IInv, Signal, IsRunning
  <2>5. Waited'
    <3>1. ASSUME NEW j \in Slot
          PROVE  proc'[j].os = "up" => proc'[j].waiter = "wait" /\ ~proc'[j].done
      BY <2>2, <2>3 DEF IInv, Waited
    <3>2. QED
      BY <3>1 DEF Waited
  <2>6. FrontPlan'
    BY <2>2, <2>3 DEF Typed, FrontPlan, Subject, IInv, Signal, IsRunning
  <2>7. FrontOwner'
    BY <2>2, <2>3 DEF Typed, FrontOwner, CurrentDead, Starting, IInv, Signal, IsRunning
  <2>8. CurrentDead'
    BY <2>2, <2>3 DEF Typed, Waited, CurrentDead, Subject, Starting, IInv, Signal, IsRunning
  <2>9. Subject'
    BY <2>2, <2>3 DEF Typed, Subject, IInv, Signal, IsRunning
  <2>10. Wanted'
    <3>1. ASSUME NEW j \in Slot
          PROVE  Watched(j)' => ~proc'[j].done /\ Owner(j)'
      BY <2>2, <2>3 DEF Typed, Waited, CurrentDead, Subject, Wanted, Starting, Watched, Owner, IInv, Signal, IsRunning
    <3>2. QED
      BY <3>1 DEF Wanted
  <2>11. QED
    BY <2>4, <2>5, <2>6, <2>7, <2>8, <2>9, <2>10 DEF IInv
<1>3. CASE ~IsRunning(op.subject)
  <2>1. op' = [op EXCEPT !.pc = "stopped", !.err = TRUE] /\ UNCHANGED proc
    BY <1>3 DEF Signal
  <2>2. /\ op' \in OpType /\ op'.pc = "stopped" /\ op'.why = op.why /\ op'.plan = op.plan
        /\ op'.subject = op.subject /\ op'.prev = op.prev /\ op'.err = TRUE
    BY <1>1, <2>1 DEF OpType
  <2>3. Typed'
    BY <1>1, <1>3, <2>1, <2>2 DEF Typed, IInv, Signal, IsRunning
  <2>4. Waited'
    BY <1>1, <1>3, <2>1, <2>2 DEF Typed, Waited, IInv, Signal, IsRunning
  <2>5. FrontPlan'
    BY <1>1, <1>3, <2>1, <2>2 DEF Typed, FrontPlan, Subject, IInv, Signal, IsRunning
  <2>6. FrontOwner'
    BY <1>1, <1>3, <2>1, <2>2 DEF Typed, FrontOwner, CurrentDead, Starting, IInv, Signal, IsRunning
  <2>7. CurrentDead'
    BY <1>1, <1>3, <2>1, <2>2 DEF Typed, Waited, CurrentDead, Subject, Starting, IInv, Signal, IsRunning
  <2>8. Subject'
    BY <1>1, <1>3, <2>1, <2>2 DEF Typed, Subject, IInv, Signal, IsRunning
  <2>9. Wanted'
    BY <1>1, <1>3, <2>1, <2>2 DEF Typed, Waited, CurrentDead, Subject, Wanted, Starting, Watched, Owner, IInv, Signal, IsRunning
  <2>10. QED
    BY <2>3, <2>4, <2>5, <2>6, <2>7, <2>8, <2>9 DEF IInv
<1>4. QED
  BY <1>2, <1>3

LEMMA AwaitStep ==
  ASSUME IInv, Await
  PROVE  IInv'
<1> USE ConstantFacts
<1>1. op \in OpType
  BY DEF IInv, Typed
<1>2. CASE ~IsRunning(op.subject) /\ Moves([op EXCEPT !.pc = "stopped"], FALSE)
  <2>1. Moves([op EXCEPT !.pc = "stopped"], FALSE)
    BY <1>2
  <2>2. /\ op' \in OpType /\ faults' \in 0..MaxFaults
        /\ op'.pc = "stopped" /\ op'.why = op.why /\ op'.plan = op.plan
        /\ op'.subject = op.subject /\ op'.prev = op.prev /\ op'.err = op.err
    <3> DEFINE o == [op EXCEPT !.pc = "stopped"]
    <3>1. o \in OpType
      BY <1>1 DEF OpType
    <3>2. /\ op' \in OpType /\ faults' \in 0..MaxFaults
          /\ op'.pc = o.pc /\ op'.why = o.why /\ op'.subject = o.subject
          /\ op'.plan = o.plan /\ op'.prev = o.prev /\ op'.err = o.err
      BY <2>1, <3>1, MovesTo DEF IInv
    <3>3. QED
      BY <1>1, <3>2 DEF OpType
  <2>3. Typed'
    BY <1>2, <2>2 DEF Typed, IInv, Await, IsRunning
  <2>4. Waited'
    BY <1>2, <2>2 DEF Typed, Waited, IInv, Await, IsRunning
  <2>5. FrontPlan'
    BY <1>2, <2>2 DEF Typed, FrontPlan, Subject, IInv, Await, IsRunning
  <2>6. FrontOwner'
    BY <1>2, <2>2 DEF Typed, FrontOwner, CurrentDead, Starting, IInv, Await, IsRunning
  <2>7. CurrentDead'
    BY <1>2, <2>2 DEF Typed, Waited, CurrentDead, Subject, Starting, IInv, Await, IsRunning
  <2>8. Subject'
    BY <1>2, <2>2 DEF Typed, Subject, IInv, Await, IsRunning
  <2>9. Wanted'
    BY <1>2, <2>2 DEF Typed, Waited, CurrentDead, Subject, Wanted, Starting, Watched, Owner, IInv, Await, IsRunning
  <2>10. QED
    BY <2>3, <2>4, <2>5, <2>6, <2>7, <2>8, <2>9 DEF IInv
<1>3. CASE Moves([op EXCEPT !.pc = "stopped", !.err = TRUE], TRUE)
  <2>1. Moves([op EXCEPT !.pc = "stopped", !.err = TRUE], TRUE)
    BY <1>3
  <2>2. /\ op' \in OpType /\ faults' \in 0..MaxFaults
        /\ op'.pc = "stopped" /\ op'.why = op.why /\ op'.plan = op.plan
        /\ op'.subject = op.subject /\ op'.prev = op.prev /\ op'.err = TRUE
    <3> DEFINE o == [op EXCEPT !.pc = "stopped", !.err = TRUE]
    <3>1. o \in OpType
      BY <1>1 DEF OpType
    <3>2. /\ op' \in OpType /\ faults' \in 0..MaxFaults
          /\ op'.pc = o.pc /\ op'.why = o.why /\ op'.subject = o.subject
          /\ op'.plan = o.plan /\ op'.prev = o.prev /\ op'.err = o.err
      BY <2>1, <3>1, MovesTo DEF IInv
    <3>3. QED
      BY <1>1, <3>2 DEF OpType
  <2>3. Typed'
    BY <2>2 DEF Typed, IInv, Await, IsRunning
  <2>4. Waited'
    BY <2>2 DEF Typed, Waited, IInv, Await, IsRunning
  <2>5. FrontPlan'
    BY <2>2 DEF Typed, FrontPlan, Subject, IInv, Await, IsRunning
  <2>6. FrontOwner'
    BY <2>2 DEF Typed, FrontOwner, CurrentDead, Starting, IInv, Await, IsRunning
  <2>7. CurrentDead'
    BY <2>2 DEF Typed, Waited, CurrentDead, Subject, Starting, IInv, Await, IsRunning
  <2>8. Subject'
    BY <2>2 DEF Typed, Subject, IInv, Await, IsRunning
  <2>9. Wanted'
    BY <2>2 DEF Typed, Waited, CurrentDead, Subject, Wanted, Starting, Watched, Owner, IInv, Await, IsRunning
  <2>10. QED
    BY <2>3, <2>4, <2>5, <2>6, <2>7, <2>8, <2>9 DEF IInv
<1>4. QED
  BY <1>2, <1>3 DEF Await

LEMMA StoppedStep ==
  ASSUME IInv, Stopped
  PROVE  IInv'
<1> USE ConstantFacts
<1>1. op \in OpType
  BY DEF IInv, Typed
<1>2. PICK pc \in {"recover", "launch", "startFailed", "rollback", "finish"} :
        /\ op' = [op EXCEPT !.pc = pc]
        /\ pc = "recover" => op.why = "restart"
        /\ pc = "launch" => op.why = "restart" /\ ~op.err
        /\ pc = "startFailed" => op.why = "undo"
  BY <1>1 DEF Stopped, OpType
<1>3. /\ op' \in OpType /\ op'.pc = pc /\ op'.why = op.why /\ op'.plan = op.plan
      /\ op'.subject = op.subject /\ op'.prev = op.prev /\ op'.err = op.err
  BY <1>1, <1>2 DEF OpType
<1>4. Typed'
  BY <1>2, <1>3 DEF Typed, IInv, Stopped, IsRunning
<1>5. Waited'
  BY <1>2, <1>3 DEF Typed, Waited, IInv, Stopped, IsRunning
<1>6. FrontPlan'
  BY <1>2, <1>3 DEF Typed, FrontPlan, Subject, IInv, Stopped, IsRunning
<1>7. FrontOwner'
  BY <1>2, <1>3 DEF Typed, FrontOwner, CurrentDead, Starting, IInv, Stopped, IsRunning
<1>8. CurrentDead'
  BY <1>2, <1>3 DEF Typed, Waited, CurrentDead, Subject, Starting, IInv, Stopped, IsRunning
<1>9. Subject'
  BY <1>2, <1>3 DEF Typed, Subject, IInv, Stopped, IsRunning
<1>10. Wanted'
  BY <1>2, <1>3 DEF Typed, Waited, CurrentDead, Subject, Wanted, Starting, Watched, Owner, IInv, Stopped, IsRunning
<1>11. QED
  BY <1>4, <1>5, <1>6, <1>7, <1>8, <1>9, <1>10 DEF IInv

LEMMA RecoverStep ==
  ASSUME IInv, Recover
  PROVE  IInv'
<1> USE ConstantFacts DEF IInv, Recover, IsRunning, Restore, ProcType, OpType, Starting
<1>1. Typed'
  BY DEF Typed
<1>2. Waited'
  BY DEF Typed, Waited
<1>3. FrontPlan'
  BY DEF Typed, FrontPlan, Subject
<1>4. FrontOwner'
  BY DEF Typed, FrontOwner, CurrentDead
<1>5. CurrentDead'
  BY DEF Typed, Waited, CurrentDead, Subject
<1>6. Subject'
  BY DEF Typed, Subject
<1>7. Wanted'
  BY DEF Typed, Waited, CurrentDead, Subject, Wanted, Watched, Owner
<1>8. QED
  BY <1>1, <1>2, <1>3, <1>4, <1>5, <1>6, <1>7

LEMMA LaunchStep ==
  ASSUME IInv, Launch
  PROVE  IInv'
<1> USE ConstantFacts
<1>1. op \in OpType /\ proc \in [Slot -> ProcType] /\ op.plan \in Config
  BY DEF IInv, Typed, OpType
<1>2. PICK i \in Slot, failed \in BOOLEAN :
        /\ Free(i)
        /\ proc' = [proc EXCEPT ![i] = IF failed THEN [NoProc EXCEPT !.plan = op.plan]
                                      ELSE Fresh(op.plan)]
        /\ Moves([op EXCEPT !.pc = IF failed THEN "startFailed" ELSE "ready",
                            !.subject = i], failed)
  BY DEF Launch
<1>3. /\ op' \in OpType /\ faults' \in 0..MaxFaults
      /\ op'.pc = IF failed THEN "startFailed" ELSE "ready"
      /\ op'.plan = op.plan /\ op'.subject = i
  <2> DEFINE o == [op EXCEPT !.pc = IF failed THEN "startFailed" ELSE "ready", !.subject = i]
  <2>1. o \in OpType
    BY <1>1 DEF OpType
  <2>2. /\ op' \in OpType /\ faults' \in 0..MaxFaults
        /\ op'.pc = o.pc /\ op'.subject = o.subject /\ op'.plan = o.plan
    BY <1>2, <2>1, MovesTo DEF IInv
  <2>3. QED
    BY <1>1, <2>2 DEF OpType
<1>4. /\ proc' \in [Slot -> ProcType]
      /\ \A j \in Slot \ {i} : proc'[j] = proc[j]
      /\ proc'[i].plan = op.plan
      /\ failed => proc'[i].os = "none" /\ proc'[i].waiter = "none"
      /\ ~failed => proc'[i].waiter = "wait" /\ ~proc'[i].done
  BY <1>1, <1>2, FreshTyped
<1>5. i # p /\ i # front
  BY <1>2 DEF Free
<1>6. Typed'
  BY <1>3, <1>4, <1>5 DEF Typed, IInv, Launch, IsRunning
<1>7. Waited'
  <2>1. ASSUME NEW j \in Slot
        PROVE  proc'[j].os = "up" => proc'[j].waiter = "wait" /\ ~proc'[j].done
    BY <1>3, <1>4, <1>5 DEF IInv, Waited
  <2>2. QED
    BY <2>1 DEF Waited
<1>8. FrontPlan'
  BY <1>3, <1>4, <1>5 DEF Typed, FrontPlan, Subject, IInv, Launch, IsRunning
<1>9. FrontOwner'
  BY <1>3, <1>4, <1>5 DEF Typed, FrontOwner, CurrentDead, Starting, IInv, Launch, IsRunning
<1>10. CurrentDead'
  BY <1>3, <1>4, <1>5 DEF Typed, Waited, CurrentDead, Subject, Starting, IInv, Launch, IsRunning
<1>11. Subject'
  BY <1>3, <1>4, <1>5 DEF Typed, Subject, IInv, Launch, IsRunning
<1>12. Wanted'
  <2>1. ASSUME NEW j \in Slot
        PROVE  Watched(j)' => ~proc'[j].done /\ Owner(j)'
    <3>1. CASE j = i
      BY <1>3, <1>4, <3>1 DEF Watched, Owner
    <3>2. CASE j # i
      <4>1. proc'[j] = proc[j] /\ p' = p /\ op.pc = "launch"
        BY <1>4, <3>2 DEF Launch
      <4>2. SUFFICES ASSUME Watched(j)
                     PROVE  ~proc[j].done /\ Owner(j)'
        BY <4>1 DEF Watched
      <4>3. QED
        BY <4>1, <4>2 DEF IInv, Wanted, Owner
    <3>3. QED
      BY <3>1, <3>2
  <2>2. QED
    BY <2>1 DEF Wanted
<1>13. QED
  BY <1>6, <1>7, <1>8, <1>9, <1>10, <1>11, <1>12 DEF IInv

LEMMA BackendsReadyStep ==
  ASSUME IInv, BackendsReady
  PROVE  IInv'
<1> USE ConstantFacts DEF IInv, BackendsReady, IsRunning, ProcType, OpType, Starting
<1>1. Typed'
  BY DEF Typed
<1>2. Waited'
  BY DEF Typed, Waited
<1>3. FrontPlan'
  BY DEF Typed, FrontPlan, Subject
<1>4. FrontOwner'
  BY DEF Typed, FrontOwner, CurrentDead
<1>5. CurrentDead'
  BY DEF Typed, Waited, CurrentDead, Subject
<1>6. Subject'
  BY DEF Typed, Subject
<1>7. Wanted'
  BY DEF Typed, Waited, CurrentDead, Subject, Wanted, Watched, Owner
<1>8. QED
  BY <1>1, <1>2, <1>3, <1>4, <1>5, <1>6, <1>7

LEMMA BackendsFailStep ==
  ASSUME IInv, BackendsFail
  PROVE  IInv'
<1> USE ConstantFacts
<1> DEFINE o == [op EXCEPT !.pc = "signal", !.why = "undo"]
<1>1. op \in OpType /\ o \in OpType
  BY DEF IInv, Typed, OpType
<1>2. PICK failed \in BOOLEAN : Moves(o, failed)
  BY DEF BackendsFail
<1>3. /\ op' \in OpType /\ faults' \in 0..MaxFaults
      /\ op'.pc = "signal" /\ op'.why = "undo" /\ op'.plan = op.plan
      /\ op'.subject = op.subject /\ op'.prev = op.prev
  <2>1. /\ op' \in OpType /\ faults' \in 0..MaxFaults
        /\ op'.pc = o.pc /\ op'.why = o.why /\ op'.subject = o.subject
        /\ op'.plan = o.plan /\ op'.prev = o.prev /\ op'.err = o.err
    BY <1>1, <1>2, MovesTo DEF IInv
  <2>2. QED
    BY <1>1, <2>1 DEF OpType
<1> HIDE DEF o
<1>4. Typed'
  BY <1>3 DEF Typed, IInv, BackendsFail, IsRunning
<1>5. Waited'
  BY <1>3 DEF Typed, Waited, IInv, BackendsFail, IsRunning
<1>6. FrontPlan'
  BY <1>3 DEF Typed, FrontPlan, Subject, IInv, BackendsFail, IsRunning
<1>7. FrontOwner'
  BY <1>3 DEF Typed, FrontOwner, CurrentDead, Starting, IInv, BackendsFail, IsRunning
<1>8. CurrentDead'
  BY <1>3 DEF Typed, Waited, CurrentDead, Subject, Starting, IInv, BackendsFail, IsRunning
<1>9. Subject'
  BY <1>3 DEF Typed, Subject, IInv, BackendsFail, IsRunning
<1>10. Wanted'
  BY <1>3 DEF Typed, Waited, CurrentDead, Subject, Wanted, Starting, Watched, Owner, IInv, BackendsFail, IsRunning
<1>11. QED
  BY <1>4, <1>5, <1>6, <1>7, <1>8, <1>9, <1>10 DEF IInv

LEMMA PublishStep ==
  ASSUME IInv, Publish
  PROVE  IInv'
<1> USE ConstantFacts DEF IInv, Publish, IsRunning, Started, ProcType, OpType, Starting
<1>1. Typed'
  BY DEF Typed, Subject
<1>2. Waited'
  BY DEF Typed, Waited
<1>3. FrontPlan'
  BY DEF Typed, FrontPlan, Subject
<1>4. FrontOwner'
  BY DEF Typed, FrontOwner, CurrentDead
<1>5. CurrentDead'
  BY DEF Typed, Waited, CurrentDead, Subject
<1>6. Subject'
  BY DEF Typed, Subject
<1>7. Wanted'
  BY DEF Typed, Waited, CurrentDead, Subject, Wanted, Watched, Owner
<1>8. QED
  BY <1>1, <1>2, <1>3, <1>4, <1>5, <1>6, <1>7

LEMMA PublishFailsStep ==
  ASSUME IInv, PublishFails
  PROVE  IInv'
<1> USE ConstantFacts
<1> DEFINE o == [op EXCEPT !.pc = "signal", !.why = "undo"]
<1>1. op \in OpType /\ o \in OpType
  BY DEF IInv, Typed, OpType
<1>2. PICK failed \in BOOLEAN : Moves(o, failed)
  BY DEF PublishFails
<1>3. /\ op' \in OpType /\ faults' \in 0..MaxFaults
      /\ op'.pc = "signal" /\ op'.why = "undo" /\ op'.plan = op.plan
      /\ op'.subject = op.subject /\ op'.prev = op.prev
  <2>1. /\ op' \in OpType /\ faults' \in 0..MaxFaults
        /\ op'.pc = o.pc /\ op'.why = o.why /\ op'.subject = o.subject
        /\ op'.plan = o.plan /\ op'.prev = o.prev /\ op'.err = o.err
    BY <1>1, <1>2, MovesTo DEF IInv
  <2>2. QED
    BY <1>1, <2>1 DEF OpType
<1> HIDE DEF o
<1>4. Typed'
  BY <1>3 DEF Typed, IInv, PublishFails, IsRunning
<1>5. Waited'
  BY <1>3 DEF Typed, Waited, IInv, PublishFails, IsRunning
<1>6. FrontPlan'
  BY <1>3 DEF Typed, FrontPlan, Subject, IInv, PublishFails, IsRunning
<1>7. FrontOwner'
  BY <1>3 DEF Typed, FrontOwner, CurrentDead, Starting, IInv, PublishFails, IsRunning
<1>8. CurrentDead'
  BY <1>3 DEF Typed, Waited, CurrentDead, Subject, Starting, IInv, PublishFails, IsRunning
<1>9. Subject'
  BY <1>3 DEF Typed, Subject, IInv, PublishFails, IsRunning
<1>10. Wanted'
  BY <1>3 DEF Typed, Waited, CurrentDead, Subject, Wanted, Starting, Watched, Owner, IInv, PublishFails, IsRunning
<1>11. QED
  BY <1>4, <1>5, <1>6, <1>7, <1>8, <1>9, <1>10 DEF IInv

LEMMA RepublishStep ==
  ASSUME IInv, Republish
  PROVE  IInv'
<1> USE ConstantFacts
<1> DEFINE o == [op EXCEPT !.pc = "finish"]
<1>1. op \in OpType /\ o \in OpType
  BY DEF IInv, Typed, OpType
<1>2. PICK failed \in BOOLEAN : Moves(o, failed)
  BY DEF Republish
<1>3. op' \in OpType /\ faults' \in 0..MaxFaults /\ op'.pc = "finish"
  <2>1. op' \in OpType /\ faults' \in 0..MaxFaults /\ op'.pc = o.pc
    BY <1>1, <1>2, MovesTo DEF IInv
  <2>2. QED
    BY <1>1, <2>1 DEF OpType
<1> HIDE DEF o
<1>4. Typed'
  BY <1>3 DEF Typed, IInv, Republish, IsRunning
<1>5. Waited'
  BY <1>3 DEF Typed, Waited, IInv, Republish, IsRunning
<1>6. FrontPlan'
  BY <1>3 DEF Typed, FrontPlan, Subject, IInv, Republish, IsRunning
<1>7. FrontOwner'
  BY <1>3 DEF Typed, FrontOwner, CurrentDead, Starting, IInv, Republish, IsRunning
<1>8. CurrentDead'
  BY <1>3 DEF Typed, Waited, CurrentDead, Subject, Starting, IInv, Republish, IsRunning
<1>9. Subject'
  BY <1>3 DEF Typed, Subject, IInv, Republish, IsRunning
<1>10. Wanted'
  BY <1>3 DEF Typed, Waited, CurrentDead, Subject, Wanted, Starting, Watched, Owner, IInv, Republish, IsRunning
<1>11. QED
  BY <1>4, <1>5, <1>6, <1>7, <1>8, <1>9, <1>10 DEF IInv

LEMMA StartFailedStep ==
  ASSUME IInv, StartFailed
  PROVE  IInv'
<1> USE ConstantFacts
<1>1. op \in OpType /\ op.subject \in Slot
  BY DEF IInv, Typed, Subject, StartFailed
<1>2. CASE op.stage = "restore"
  <2>1. op' \in OpType /\ op'.pc = "finish" /\ UNCHANGED p
    <3>1. op' = [op EXCEPT !.pc = "finish", !.err = TRUE] /\ UNCHANGED p
      BY <1>2 DEF StartFailed
    <3>2. QED
      BY <1>1, <3>1 DEF OpType
  <2>2. Typed'
    BY <2>1 DEF Typed, IInv, StartFailed, IsRunning
  <2>3. Waited'
    BY <2>1 DEF Typed, Waited, IInv, StartFailed, IsRunning
  <2>4. FrontPlan'
    BY <2>1 DEF Typed, FrontPlan, Subject, IInv, StartFailed, IsRunning
  <2>5. FrontOwner'
    BY <2>1 DEF Typed, FrontOwner, CurrentDead, Starting, IInv, StartFailed, IsRunning
  <2>6. CurrentDead'
    BY <2>1 DEF Typed, Waited, CurrentDead, Subject, Starting, IInv, StartFailed, IsRunning
  <2>7. Subject'
    BY <2>1 DEF Typed, Subject, IInv, StartFailed, IsRunning
  <2>8. Wanted'
    BY <2>1 DEF Typed, Waited, CurrentDead, Subject, Wanted, Starting, Watched, Owner, IInv, StartFailed, IsRunning
  <2>9. QED
    BY <2>2, <2>3, <2>4, <2>5, <2>6, <2>7, <2>8 DEF IInv
<1>3. CASE op.stage # "restore"
  <2>1. /\ op' \in OpType /\ p' = op.subject /\ op'.subject = op.subject
        /\ \/ op'.pc = "stopFront" /\ op'.why = "cleanup"
           \/ op'.pc = "rollback"
    <3>1. CASE IsRunning(op.subject)
      <4>1. op' = [op EXCEPT !.pc = "stopFront", !.why = "cleanup", !.err = TRUE]
        BY <1>3, <3>1 DEF StartFailed
      <4>2. QED
        BY <1>1, <1>3, <4>1 DEF OpType, StartFailed
    <3>2. CASE ~IsRunning(op.subject)
      <4>1. op' = [op EXCEPT !.pc = "rollback", !.err = TRUE]
        BY <1>3, <3>2 DEF StartFailed
      <4>2. QED
        BY <1>1, <1>3, <4>1 DEF OpType, StartFailed
    <3>3. QED
      BY <3>1, <3>2
  <2>2. Typed'
    BY <1>1, <2>1 DEF Typed, IInv, StartFailed, IsRunning
  <2>3. Waited'
    BY <1>1, <2>1 DEF Typed, Waited, IInv, StartFailed, IsRunning
  <2>4. FrontPlan'
    BY <1>1, <2>1 DEF Typed, FrontPlan, Subject, IInv, StartFailed, IsRunning
  <2>5. FrontOwner'
    BY <1>1, <2>1 DEF Typed, FrontOwner, CurrentDead, Starting, IInv, StartFailed, IsRunning
  <2>6. CurrentDead'
    BY <1>1, <2>1 DEF Typed, Waited, CurrentDead, Subject, Starting, IInv, StartFailed, IsRunning
  <2>7. Subject'
    BY <1>1, <2>1 DEF Typed, Subject, IInv, StartFailed, IsRunning
  <2>8. Wanted'
    BY <1>1, <2>1 DEF Typed, Waited, CurrentDead, Subject, Wanted, Starting, Watched, Owner, IInv, StartFailed, IsRunning
  <2>9. QED
    BY <2>2, <2>3, <2>4, <2>5, <2>6, <2>7, <2>8 DEF IInv
<1>4. QED
  BY <1>2, <1>3

LEMMA RollbackStep ==
  ASSUME IInv, Rollback
  PROVE  IInv'
<1> USE ConstantFacts DEF IInv, Rollback, IsRunning, Restore, ProcType, OpType, Starting
<1>1. Typed'
  BY DEF Typed
<1>2. Waited'
  BY DEF Typed, Waited
<1>3. FrontPlan'
  BY DEF Typed, FrontPlan, Subject
<1>4. FrontOwner'
  BY DEF Typed, FrontOwner, CurrentDead
<1>5. CurrentDead'
  BY DEF Typed, Waited, CurrentDead, Subject
<1>6. Subject'
  BY DEF Typed, Subject
<1>7. Wanted'
  BY DEF Typed, Waited, CurrentDead, Subject, Wanted, Watched, Owner
<1>8. QED
  BY <1>1, <1>2, <1>3, <1>4, <1>5, <1>6, <1>7

LEMMA FinishStep ==
  ASSUME IInv, Finish
  PROVE  IInv'
<1> USE ConstantFacts DEF IInv, Finish, IsRunning, NoOp, ProcType, OpType, Starting
<1>1. Typed'
  BY DEF Typed
<1>2. Waited'
  BY DEF Typed, Waited
<1>3. FrontPlan'
  BY DEF Typed, FrontPlan, Subject
<1>4. FrontOwner'
  BY DEF Typed, FrontOwner, CurrentDead
<1>5. CurrentDead'
  BY DEF Typed, Waited, CurrentDead, Subject
<1>6. Subject'
  BY DEF Typed, Subject
<1>7. Wanted'
  BY DEF Typed, Waited, CurrentDead, Subject, Wanted, Watched, Owner
<1>8. QED
  BY <1>1, <1>2, <1>3, <1>4, <1>5, <1>6, <1>7

LEMMA StopXrayStep ==
  ASSUME IInv, StopXray
  PROVE  IInv'
<1> USE ConstantFacts DEF IInv, StopXray, IsRunning, NoOp, ProcType, OpType, Starting
<1>1. Typed'
  BY DEF Typed
<1>2. Waited'
  BY DEF Typed, Waited
<1>3. FrontPlan'
  BY DEF Typed, FrontPlan, Subject
<1>4. FrontOwner'
  BY DEF Typed, FrontOwner, CurrentDead
<1>5. CurrentDead'
  BY DEF Typed, Waited, CurrentDead, Subject
<1>6. Subject'
  BY DEF Typed, Subject
<1>7. Wanted'
  BY DEF Typed, Waited, CurrentDead, Subject, Wanted, Watched, Owner
<1>8. QED
  BY <1>1, <1>2, <1>3, <1>4, <1>5, <1>6, <1>7

\* The invariant is inductive.
LEMMA InitHolds == Init => IInv
<1> SUFFICES ASSUME Init PROVE IInv
  OBVIOUS
<1>1. PICK c \in Config, up \in BOOLEAN :
        /\ proc = [i \in Slot |-> IF i = 1 /\ up THEN Fresh(c) ELSE NoProc]
        /\ front = IF up /\ c # Empty THEN 1 ELSE None
  BY DEF Init
<1>2. NoProc \in ProcType /\ NoProc.os = "none" /\ NoProc.waiter = "none"
  BY ConstantFacts DEF NoProc, ProcType
<1>3. op \in OpType /\ op.pc = "idle" /\ p = 1
  BY ConstantFacts DEF Init, NoOp, OpType
<1>4. Typed
  <2>1. proc \in [Slot -> ProcType]
    BY <1>1, <1>2, FreshTyped
  <2>2. front \in Slot \cup {None} /\ 0 \in 0..MaxFaults
    BY <1>1, ConstantFacts
  <2>3. QED
    BY <1>3, <2>1, <2>2, ConstantFacts DEF Init, Typed
<1>5. Waited /\ FrontPlan
  BY <1>1, <1>2, FreshTyped, ConstantFacts DEF Waited, FrontPlan
<1>6. FrontOwner /\ CurrentDead /\ Subject
  BY <1>1, <1>3 DEF FrontOwner, CurrentDead, Starting, Subject, IsRunning
<1>7. Wanted
  BY <1>1, <1>2, <1>3, FreshTyped DEF Wanted, Watched, Owner
<1>8. QED
  BY <1>4, <1>5, <1>6, <1>7 DEF IInv

LEMMA StepHolds == IInv /\ [Next]_vars => IInv'
<1> SUFFICES ASSUME IInv, [Next]_vars PROVE IInv'
  OBVIOUS
<1>1. CASE \E i \in Slot : Crash(i) \/ Die(i) \/ WaiterStep(i)
  BY <1>1, CrashStep, DieStep, WaitReturnsStep, CallbackStep, CloseDoneStep DEF WaiterStep
<1>2. CASE Restart \/ HealthRestart
  BY <1>2, BeginStep DEF Restart, HealthRestart
<1>3. CASE StopXray
  BY <1>3, StopXrayStep
<1>4. CASE OpStep
  BY <1>4, DecideStep, StopFrontStep, SignalStep, AwaitStep, StoppedStep, RecoverStep,
     LaunchStep, BackendsReadyStep, BackendsFailStep, PublishStep, PublishFailsStep,
     RepublishStep, StartFailedStep, RollbackStep, FinishStep DEF OpStep
<1>5. CASE UNCHANGED vars
  BY <1>5 DEF vars, IInv, Typed, Waited, FrontPlan, FrontOwner, CurrentDead, Starting, Subject,
              Wanted, Watched, Owner, IsRunning
<1>6. QED
  BY <1>1, <1>2, <1>3, <1>4, <1>5 DEF Next

LEMMA InvariantHolds == Spec => []IInv
BY InitHolds, StepHolds, PTL DEF Spec

\* Every variable stays in its type, and the manager never runs an empty plan,
\* whatever the number of process objects and of failures.
THEOREM TypeCorrect == Spec => []TypeOK
<1>1. IInv => TypeOK
  BY DEF IInv, Typed, FrontPlan, TypeOK
<1>2. QED
  BY <1>1, InvariantHolds, PTL

\* Published listeners with a live process behind them belong to the process
\* that the package variable p holds: no restart, rollback or recovery in
\* startXrayRuntime and its callers forgets a process that serves the public.
THEOREM ListenersAreCurrent == Spec => []ListenersOfCurrent
<1>1. IInv => ListenersOfCurrent
  BY DEF IInv, FrontOwner, ListenersOfCurrent
<1>2. QED
  BY <1>1, InvariantHolds, PTL

\* Only process.Start brings a process up.
LEMMA OnlyLaunchStarts ==
  ASSUME IInv, Next, NEW i \in Slot, proc[i].os # "up", proc'[i].os = "up"
  PROVE  Launch
<1>1. ASSUME NEW k \in Slot, Crash(k) \/ Die(k) \/ WaiterStep(k)
      PROVE  FALSE
  BY <1>1 DEF IInv, Typed, ProcType, Crash, Die, WaiterStep, WaitReturns, Callback, CloseDone
<1>2. ~(Restart \/ HealthRestart \/ StopXray)
  BY DEF Restart, HealthRestart, Begin, StopXray
<1>3. ~Signal
  BY DEF Signal, IInv, Typed, ProcType
<1>4. QED
  BY <1>1, <1>2, <1>3 DEF Next, OpStep, Decide, StopFront, Await, Stopped, Recover, BackendsReady,
     BackendsFail, Publish, PublishFails, Republish, StartFailed, Rollback, Finish

\* startXrayRuntime, at a first start, a restart, a rollback or a recovery, never
\* starts a process next to the current one or next to one that was not told to
\* stop.
THEOREM NoSecondProcessEver == Spec => NoSecondProcess
<1>1. ASSUME IInv, [Next]_vars
      PROVE  \A i, j \in Slot : proc[i].os # "up" /\ proc'[i].os = "up" /\ proc[j].os = "up"
               => j # p /\ proc[j].intent
  <2> SUFFICES ASSUME NEW i \in Slot, NEW j \in Slot,
                      proc[i].os # "up", proc'[i].os = "up", proc[j].os = "up"
               PROVE  j # p /\ proc[j].intent
    OBVIOUS
  <2>1. Launch
    BY <1>1, OnlyLaunchStarts DEF vars
  <2>2. op.pc = "launch" /\ ~IsRunning(p)
    BY <1>1, <2>1 DEF Launch, IInv, CurrentDead, Starting
  <2>3. proc[j].waiter = "wait" /\ ~proc[j].done /\ j # None
    BY <1>1, ConstantFacts DEF IInv, Waited
  <2>4. j # p
    BY <2>2, <2>3 DEF IsRunning
  <2>5. ~Owner(j)
    BY <2>2, <2>4 DEF Owner
  <2>6. QED
    BY <1>1, <2>3, <2>4, <2>5 DEF IInv, Wanted, Watched
<1>2. QED
  BY <1>1, InvariantHolds, PTL DEF Spec, NoSecondProcess

\* The crash callback of a process never closes the listeners of another live
\* process.
THEOREM CallbacksCloseOwn == Spec => CallbackOwnListeners
<1>1. ASSUME IInv, [Next]_vars
      PROVE  \A i \in Slot : proc[i].waiter = "callback" /\ proc'[i].waiter # "callback"
               => front = i \/ ~IsRunning(front)
  <2> SUFFICES ASSUME NEW i \in Slot, proc[i].waiter = "callback", IsRunning(front)
               PROVE  front = i
    OBVIOUS
  <2>1. front = p /\ IsRunning(p)
    BY <1>1 DEF IInv, FrontOwner
  <2>2. Owner(i) /\ ~Starting
    BY <1>1, <2>1 DEF IInv, Wanted, Watched, CurrentDead
  <2>3. i = p
    BY <1>1, <2>2 DEF Owner, Starting, IInv, Subject
  <2>4. QED
    BY <2>1, <2>3
<1>2. QED
  BY <1>1, InvariantHolds, PTL DEF Spec, CallbackOwnListeners

-----------------------------------------------------------------------------
(* A single failure in a restart *)

\* A process object that no process was started for counts as stopped.
Booted == \A i \in Slot : proc[i].os = "none" => proc[i].done

\* A restart that begins without a failure has found no process at its end.
Sound ==
  op.pc = "decide" =>
    /\ ~op.wasRunning /\ ~op.err /\ op.stage = "new"
    /\ op.faults = 0 => \A i \in Slot : ~Doomed(i)

\* A restart of a running core that has met at most one failure.
Single == op.wasRunning /\ op.faults <= 1

\* Nobody has touched this process.
Intact(i) == proc[i].os = "up" /\ ~proc[i].intent

\* The current process was told to stop, and its end will not be taken for a crash.
Quiet == proc[p].intent /\ proc[p].waiter # "callback"

\* Stopping the current process: an error and a process that is no longer
\* intact are a failure each.
Stopping ==
  op.pc \in {"stopFront", "signal", "await", "stopped"} /\ op.why # "undo" =>
    /\ op.why = "restart" /\ op.stage = "new"
    /\ op.pc # "stopFront" => front = None
    /\ op.pc = "stopFront" => ~op.err
    /\ op.err => op.faults = 1
    /\ op.pc \in {"stopFront", "signal"} => Intact(p) \/ (op.faults = 1 /\ ~op.err)
    /\ op.pc = "await" /\ op.err => Quiet
    /\ op.pc = "stopped" /\ op.err => Quiet \/ ~IsRunning(p)

\* Recovering what a failed stop has left.
Recovering ==
  op.pc \in {"recover", "republish"} =>
    /\ front = None /\ op.err /\ op.faults = 1
    /\ Quiet \/ (op.pc = "recover" /\ ~IsRunning(p))

\* Starting a process: the new one without an error so far, or the previous
\* configuration after the one failure, which leaves none for this start.
Launching ==
  op.pc \in {"launch", "ready", "publish"} =>
    /\ front = None
    /\ op.stage = "new" => ~op.err
    /\ op.stage = "restore" => op.err /\ op.faults = 1 /\ op.plan = op.prev
    /\ op.pc # "launch" => Intact(op.subject) \/ (op.stage = "new" /\ op.faults = 1)

\* Giving up a process that was started: the one failure was its own.
Undoing ==
  /\ op.pc \in {"signal", "await", "stopped"} /\ op.why = "undo" =>
       /\ front = None /\ op.stage = "new" /\ op.faults = 1
       /\ op.pc = "stopped" => ~IsRunning(op.subject)
  /\ op.pc = "startFailed" =>
       front = None /\ op.stage = "new" /\ op.faults = 1 /\ ~IsRunning(op.subject)
  /\ op.pc = "rollback" =>
       front = None /\ op.stage = "new" /\ op.err /\ op.faults = 1 /\ ~IsRunning(p)

\* The end: what SingleFaultRollsBack says, and nobody is about to close the listeners.
Restored ==
  op.pc = "finish" /\ op.err =>
    /\ proc[p].plan = op.prev /\ op.faults = 1
    /\ front = IF op.prev = Empty THEN None ELSE p
    /\ Quiet \/ proc[p].os = "up"

RollInv ==
  /\ Booted /\ Sound
  /\ Single => Stopping /\ Recovering /\ Launching /\ Undoing /\ Restored

\* A step that counts a failure counts one, and changes no other field of op.
LEMMA MovesCounts ==
  ASSUME NEW o \in OpType, NEW failed \in BOOLEAN, Moves(o, failed)
  PROVE  /\ op'.pc = o.pc /\ op'.why = o.why /\ op'.subject = o.subject /\ op'.plan = o.plan
         /\ op'.prev = o.prev /\ op'.stage = o.stage /\ op'.wasRunning = o.wasRunning
         /\ op'.err = o.err /\ op'.faults = IF failed THEN o.faults + 1 ELSE o.faults
BY DEF Moves, OpType

\* What an operation that goes on to another step has in its fields.
LEMMA OpFields ==
  ASSUME NEW o \in OpType, NEW pc, NEW why, NEW err
  PROVE  /\ LET n == [o EXCEPT !.pc = pc] IN
              /\ n.pc = pc /\ n.why = o.why /\ n.err = o.err /\ n.subject = o.subject
              /\ n.plan = o.plan /\ n.prev = o.prev /\ n.stage = o.stage
              /\ n.wasRunning = o.wasRunning /\ n.faults = o.faults
         /\ LET n == [o EXCEPT !.pc = pc, !.err = err] IN
              /\ n.pc = pc /\ n.why = o.why /\ n.err = err /\ n.subject = o.subject
              /\ n.plan = o.plan /\ n.prev = o.prev /\ n.stage = o.stage
              /\ n.wasRunning = o.wasRunning /\ n.faults = o.faults
         /\ LET n == [o EXCEPT !.pc = pc, !.why = why] IN
              /\ n.pc = pc /\ n.why = why /\ n.err = o.err /\ n.subject = o.subject
              /\ n.plan = o.plan /\ n.prev = o.prev /\ n.stage = o.stage
              /\ n.wasRunning = o.wasRunning /\ n.faults = o.faults
BY DEF OpType

\* The previous configuration is the one to start.
LEMMA RestoreFields ==
  ASSUME NEW o \in OpType
  PROVE  /\ Restore(o).pc = "launch" /\ Restore(o).stage = "restore" /\ Restore(o).plan = o.prev
         /\ Restore(o).prev = o.prev /\ Restore(o).err = o.err
         /\ Restore(o).wasRunning = o.wasRunning /\ Restore(o).faults = o.faults
BY DEF Restore, OpType

\* What holds of a restart with a single failure.
RollParts == Stopping /\ Recovering /\ Launching /\ Undoing /\ Restored

-----------------------------------------------------------------------------
\* A crash is a failure: what has met one already has met two.
LEMMA CrashRoll ==
  ASSUME IInv, RollInv, NEW i \in Slot, Crash(i)
  PROVE  RollInv'
<1>1. proc \in [Slot -> ProcType] /\ op \in OpType /\ op.faults \in Nat
  BY DEF IInv, Typed, OpType
<1>2. PICK clean \in BOOLEAN : proc' = [proc EXCEPT ![i].os = "exited", ![i].clean = clean]
  BY DEF Crash
<1>3. /\ \A j \in Slot : j # i => proc'[j] = proc[j]
      /\ proc'[i].os = "exited" /\ proc'[i].intent = proc[i].intent /\ proc'[i].done = proc[i].done
      /\ proc'[i].waiter = proc[i].waiter /\ proc'[i].plan = proc[i].plan
  <2>1. proc[i] \in ProcType
    BY <1>1
  <2>2. proc' = [proc EXCEPT ![i] = [proc[i] EXCEPT !.os = "exited", !.clean = clean]]
    BY <1>2
  <2>3. LET r == [proc[i] EXCEPT !.os = "exited", !.clean = clean] IN
          /\ r.os = "exited" /\ r.intent = proc[i].intent /\ r.done = proc[i].done
          /\ r.waiter = proc[i].waiter /\ r.plan = proc[i].plan
    BY <2>1 DEF ProcType
  <2>4. QED
    BY <1>1, <2>2, <2>3
<1>4. /\ op'.pc = op.pc /\ op'.why = op.why /\ op'.subject = op.subject /\ op'.plan = op.plan
      /\ op'.prev = op.prev /\ op'.stage = op.stage /\ op'.wasRunning = op.wasRunning
      /\ op'.err = op.err /\ (op.pc # "idle" => op'.faults = op.faults + 1)
      /\ UNCHANGED <<p, front>>
  BY <1>1 DEF Crash, OpType
<1>5. Booted'
  BY <1>3 DEF RollInv, Booted
<1>6. Sound'
  BY <1>1, <1>4 DEF RollInv, Sound
<1>7. ASSUME Single'
      PROVE  RollParts'
  <2>1. op.pc # "idle" => Single /\ op.faults = 0 /\ op'.faults = 1
    BY <1>1, <1>4, <1>7 DEF Single
  <2>2. Stopping'
    BY <1>4, <2>1 DEF RollInv, Stopping, Quiet
  <2>3. Recovering' /\ Undoing' /\ Restored'
    BY <1>4, <2>1 DEF RollInv, Recovering, Undoing, Restored
  <2>4. Launching'
    <3>1. op.stage \in {"new", "restore"}
      BY <1>1 DEF OpType
    <3>2. QED
      BY <1>4, <2>1, <3>1 DEF RollInv, Launching
  <2>5. QED
    BY <2>2, <2>3, <2>4 DEF RollParts
<1>8. QED
  BY <1>5, <1>6, <1>7 DEF RollInv, RollParts

\* What an exit after a signal and the steps of a goroutine may do.
LEMMA CalmRoll ==
  ASSUME IInv, RollInv, UNCHANGED <<p, op>>,
         \A j \in Slot : /\ proc'[j].intent = proc[j].intent /\ proc'[j].plan = proc[j].plan
                         /\ proc[j].done => proc'[j].done
                         /\ proc'[j].os = "none" => proc[j].os = "none"
                         /\ Doomed(j)' => Doomed(j)
                         /\ Intact(j) => Intact(j)'
                         /\ proc[j].os = "up" => proc'[j].os = "up" \/ proc[j].intent
                         /\ proc[j].intent /\ proc[j].waiter # "callback"
                              => proc'[j].waiter # "callback",
         \/ front' = front
         \/ front' = None /\ (op.pc = "finish" => ~Quiet /\ proc[p].os # "up")
  PROVE  RollInv'
<1>1. p \in Slot /\ \A j \in Slot : proc[j].os = "up" => proc[j].waiter = "wait"
  BY DEF IInv, Typed, Waited
<1>2. Booted' /\ Sound'
  BY DEF RollInv, Booted, Sound
<1>3. (Single' <=> Single) /\ (Quiet => Quiet')
  BY <1>1 DEF Single, Quiet
<1>4. \A j \in Slot : ~IsRunning(j) => ~IsRunning(j)'
  BY ConstantFacts DEF IsRunning
<1>5. ASSUME Single
      PROVE  RollParts'
  <2>1. Stopping' /\ Recovering'
    BY <1>1, <1>3, <1>4, <1>5 DEF RollInv, Stopping, Recovering
  <2>2. op.pc \in {"ready", "publish"} \/ (op.why = "undo" /\ op.pc = "stopped")
          \/ op.pc = "startFailed" => op.subject \in Slot
    BY DEF IInv, Subject
  <2>3. Launching' /\ Undoing'
    BY <1>1, <1>4, <1>5, <2>2 DEF RollInv, Launching, Undoing
  <2>4. Restored'
    BY <1>1, <1>3, <1>5 DEF RollInv, Restored, Quiet
  <2>5. QED
    BY <2>1, <2>3, <2>4 DEF RollParts
<1>6. QED
  BY <1>2, <1>3, <1>5 DEF RollInv, RollParts

LEMMA DieRoll ==
  ASSUME IInv, RollInv, NEW i \in Slot, Die(i)
  PROVE  RollInv'
<1>1. proc \in [Slot -> ProcType] /\ proc[i] \in ProcType /\ UNCHANGED <<p, op, front>>
  BY DEF IInv, Typed, Die
<1>2. proc[i].waiter = "wait" /\ ~proc[i].done /\ proc[i].intent
  BY DEF IInv, Waited, Die
<1>3. /\ \A j \in Slot : j # i => proc'[j] = proc[j]
      /\ proc'[i].os = "exited" /\ proc'[i].intent = proc[i].intent /\ proc'[i].done = proc[i].done
      /\ proc'[i].waiter = proc[i].waiter /\ proc'[i].plan = proc[i].plan
  <2>1. proc' = [proc EXCEPT ![i] = [proc[i] EXCEPT !.os = "exited", !.clean = TRUE]]
    BY DEF Die
  <2>2. LET r == [proc[i] EXCEPT !.os = "exited", !.clean = TRUE] IN
          /\ r.os = "exited" /\ r.intent = proc[i].intent /\ r.done = proc[i].done
          /\ r.waiter = proc[i].waiter /\ r.plan = proc[i].plan
    BY <1>1 DEF ProcType
  <2>3. QED
    BY <1>1, <2>1, <2>2
<1>4. QED
  BY <1>1, <1>2, <1>3, CalmRoll DEF Doomed, Intact

LEMMA WaiterRoll ==
  ASSUME IInv, RollInv, NEW i \in Slot, WaiterStep(i)
  PROVE  RollInv'
<1>1. proc \in [Slot -> ProcType] /\ proc[i] \in ProcType /\ UNCHANGED <<p, op>> /\ p \in Slot
  BY DEF IInv, Typed, WaiterStep, WaitReturns, Callback, CloseDone
<1>2. /\ proc[i].os # "up"
      /\ \A j \in Slot : j # i => proc'[j] = proc[j]
      /\ proc'[i].os = proc[i].os /\ proc'[i].intent = proc[i].intent /\ proc'[i].plan = proc[i].plan
      /\ proc[i].done => proc'[i].done
      /\ proc[i].intent => proc'[i].waiter # "callback"
  <2>1. CASE WaitReturns(i)
    BY <1>1, <2>1 DEF WaitReturns, ProcType
  <2>2. CASE Callback(i)
    BY <1>1, <2>2 DEF Callback, ProcType, IInv, Waited
  <2>3. CASE CloseDone(i)
    <3>1. proc[i].os # "up"
      BY <2>3 DEF CloseDone, IInv, Waited
    <3>2. proc' = [proc EXCEPT ![i] = [proc[i] EXCEPT !.waiter = "none", !.done = TRUE]]
      BY <2>3 DEF CloseDone
    <3>3. LET r == [proc[i] EXCEPT !.waiter = "none", !.done = TRUE] IN
            /\ r.os = proc[i].os /\ r.intent = proc[i].intent /\ r.plan = proc[i].plan
            /\ r.done /\ r.waiter = "none"
      BY <1>1 DEF ProcType
    <3>4. QED
      BY <1>1, <3>1, <3>2, <3>3
  <2>4. QED
    BY <2>1, <2>2, <2>3 DEF WaiterStep
<1>3. \/ front' = front
      \/ front' = None /\ (op.pc = "finish" => ~Quiet /\ proc[p].os # "up")
  <2>1. CASE Callback(i)
    <3>1. Owner(i)
      BY <2>1 DEF Callback, IInv, Wanted, Watched
    <3>2. QED
      BY <1>2, <2>1, <3>1 DEF Callback, Owner, Quiet
  <2>2. CASE ~Callback(i)
    BY <2>2 DEF WaiterStep, WaitReturns, CloseDone
  <2>3. QED
    BY <2>1, <2>2
<1>4. QED
  BY <1>1, <1>2, <1>3, CalmRoll DEF Doomed, Intact

-----------------------------------------------------------------------------
\* The first step of an operation, and an operation that restarts nothing.
LEMMA OtherRoll ==
  ASSUME IInv, RollInv, UNCHANGED proc, ~op'.wasRunning,
         op'.pc = "decide" => /\ ~op'.err /\ op'.stage = "new"
                              /\ op'.faults = 0 => \A i \in Slot : ~Doomed(i)
  PROVE  RollInv'
BY DEF RollInv, Booted, Sound, Doomed, Single

LEMMA BeginRoll ==
  ASSUME IInv, RollInv, NEW c \in Config, NEW force \in BOOLEAN, Begin(c, force)
  PROVE  RollInv'
<1>1. UNCHANGED proc
  BY DEF Begin
<1>2. /\ ~op'.wasRunning /\ ~op'.err /\ op'.stage = "new"
      /\ op'.faults = IF \E i \in Slot : Doomed(i) THEN 1 ELSE 0
  BY DEF Begin, NoOp
<1>3. QED
  BY <1>1, <1>2, OtherRoll

LEMMA StopXrayRoll ==
  ASSUME IInv, RollInv, StopXray
  PROVE  RollInv'
<1>1. UNCHANGED proc
  BY DEF StopXray
<1>2. ~op'.wasRunning /\ op'.pc # "decide"
  BY DEF StopXray, NoOp
<1>3. QED
  BY <1>1, <1>2, OtherRoll

LEMMA FinishRoll ==
  ASSUME IInv, RollInv, Finish
  PROVE  RollInv'
<1>1. UNCHANGED proc
  BY DEF Finish
<1>2. ~op'.wasRunning /\ op'.pc # "decide"
  BY DEF Finish, NoOp
<1>3. QED
  BY <1>1, <1>2, OtherRoll

\* The core that is to be stopped is intact, or its end is a failure.
LEMMA DecideRoll ==
  ASSUME IInv, RollInv, Decide
  PROVE  RollInv'
<1>1. /\ op \in OpType /\ p \in Slot /\ proc[p] \in ProcType /\ op.pc = "decide"
      /\ UNCHANGED <<proc, p, front>>
  BY DEF IInv, Typed, Decide
<1>2. ~op.wasRunning /\ ~op.err /\ op.stage = "new" /\ op.faults \in Nat
  BY <1>1 DEF RollInv, Sound, OpType
<1>3. CASE ~IsRunning(p) \/ (~op.force /\ proc[p].plan = op.plan)
  <2>1. op' = [op EXCEPT !.pc = "launch"] \/ op' = [op EXCEPT !.pc = "finish"]
    BY <1>3 DEF Decide
  <2>2. op'.pc \in {"launch", "finish"} /\ op'.wasRunning = op.wasRunning
    BY <1>1, <2>1 DEF OpType
  <2>3. QED
    BY <1>1, <1>2, <2>2, OtherRoll
<1>4. CASE IsRunning(p) /\ ~(~op.force /\ proc[p].plan = op.plan)
  <2>1. op' = [op EXCEPT !.pc = "stopFront", !.why = "restart", !.subject = p,
                         !.wasRunning = TRUE, !.prev = proc[p].plan]
    BY <1>4 DEF Decide
  <2>2. /\ op'.pc = "stopFront" /\ op'.why = "restart" /\ op'.stage = "new" /\ ~op'.err
        /\ op'.faults = op.faults
    BY <1>1, <1>2, <2>1 DEF OpType
  <2>3. op.faults = 0 => Intact(p)
    BY <1>1, <1>4 DEF IsRunning, RollInv, Sound, Booted, Doomed, Intact, ProcType
  <2>4. Single' => op.faults = 0 \/ op.faults = 1
    BY <1>2, <2>2 DEF Single
  <2>5. Single' => Stopping'
    BY <1>1, <2>2, <2>3, <2>4 DEF Stopping, Intact
  <2>6. Recovering' /\ Launching' /\ Undoing' /\ Restored'
    BY <2>2 DEF Recovering, Launching, Undoing, Restored
  <2>7. Booted' /\ Sound'
    BY <1>1, <2>2 DEF RollInv, Booted, Sound
  <2>8. QED
    BY <2>5, <2>6, <2>7 DEF RollInv
<1>5. QED
  BY <1>3, <1>4

\* What a later step has to show: processes that were started stay so, and what
\* holds of a single failure is kept.
LEMMA LaterRoll ==
  ASSUME RollInv, Booted', op'.pc # "decide", op'.wasRunning => op.wasRunning,
         op.faults <= op'.faults, op.faults \in Nat, op'.faults \in Nat,
         Single /\ Single' /\ RollParts => RollParts'
  PROVE  RollInv'
<1>1. Single' => Single
  BY DEF Single
<1>2. QED
  BY <1>1 DEF RollInv, RollParts, Sound

\* A listener that does not close is the one failure, or the core's own end is.
LEMMA StopFrontRoll ==
  ASSUME IInv, RollInv, StopFront
  PROVE  RollInv'
<1>1. op \in OpType /\ op.faults \in Nat /\ p \in Slot /\ op.pc = "stopFront"
  BY DEF IInv, Typed, OpType, StopFront
<1>2. PICK failed \in BOOLEAN :
        Moves([op EXCEPT !.pc = IF IsRunning(op.subject) THEN "signal" ELSE "stopped",
                         !.err = @ \/ failed], failed)
  BY DEF StopFront
<1> DEFINE pc == IF IsRunning(op.subject) THEN "signal" ELSE "stopped"
           o == [op EXCEPT !.pc = pc, !.err = op.err \/ failed]
<1>3. o \in OpType /\ Moves(o, failed)
  BY <1>1, <1>2 DEF OpType
<1>4. /\ o.pc = pc /\ o.why = op.why /\ o.err = (op.err \/ failed)
      /\ o.stage = op.stage /\ o.wasRunning = op.wasRunning /\ o.faults = op.faults
      /\ o.subject = op.subject
  BY <1>1, OpFields
<1> HIDE DEF o
<1>5. /\ op'.pc = pc /\ op'.why = op.why /\ op'.err = (op.err \/ failed) /\ op'.stage = op.stage
      /\ op'.wasRunning = op.wasRunning
      /\ op'.faults = IF failed THEN op.faults + 1 ELSE op.faults
  BY <1>3, <1>4, MovesCounts
<1>6. UNCHANGED <<proc, p>> /\ front' = None
  BY DEF StopFront
<1>7. ASSUME Single, Single', RollParts
      PROVE  RollParts'
  <2>1. op.subject = p /\ op.why # "undo"
    BY <1>1 DEF IInv, Subject
  <2>2. op'.faults <= 1
    BY <1>7 DEF Single
  <2>3. IsRunning(p) \/ ~Intact(p)
    BY <1>1, ConstantFacts DEF IsRunning, Intact, IInv, Waited
  <2>4. Stopping'
    BY <1>1, <1>5, <1>6, <1>7, <2>1, <2>2, <2>3 DEF RollParts, Stopping, Intact, Quiet, IsRunning
  <2>5. Recovering' /\ Launching' /\ Undoing' /\ Restored'
    BY <1>1, <1>5, <2>1 DEF Recovering, Launching, Undoing, Restored
  <2>6. QED
    BY <2>4, <2>5 DEF RollParts
<1>8. Booted' /\ op'.faults \in Nat /\ op.faults <= op'.faults
  BY <1>1, <1>5, <1>6 DEF RollInv, Booted
<1>9. QED
  BY <1>1, <1>5, <1>7, <1>8, LaterRoll

LEMMA SignalRoll ==
  ASSUME IInv, RollInv, Signal
  PROVE  RollInv'
<1>1. /\ op \in OpType /\ op.faults \in Nat /\ p \in Slot /\ op.pc = "signal"
      /\ op.subject \in Slot /\ (op.why # "undo" => op.subject = p)
      /\ proc \in [Slot -> ProcType] /\ UNCHANGED <<p, front>>
  BY DEF IInv, Typed, Subject, OpType, Signal
<1>2. CASE IsRunning(op.subject)
  <2>1. op' = [op EXCEPT !.pc = "await"] /\ proc' = [proc EXCEPT ![op.subject].intent = TRUE]
    BY <1>2 DEF Signal
  <2>2. /\ op'.pc = "await" /\ op'.why = op.why /\ op'.err = op.err /\ op'.stage = op.stage
        /\ op'.wasRunning = op.wasRunning /\ op'.faults = op.faults
    BY <1>1, <2>1, OpFields
  <2>3. /\ \A j \in Slot : proc'[j].os = proc[j].os /\ proc'[j].done = proc[j].done
                           /\ proc'[j].waiter = proc[j].waiter
        /\ proc'[op.subject].intent
    BY <1>1, <2>1 DEF ProcType
  <2>4. ASSUME Single, RollParts
        PROVE  RollParts'
    <3>1. Intact(p) => proc[p].waiter = "wait"
      BY <1>1 DEF Intact, IInv, Waited
    <3>2. Stopping'
      BY <1>1, <2>2, <2>3, <2>4, <3>1 DEF RollParts, Stopping, Quiet
    <3>3. Undoing'
      BY <1>1, <2>2, <2>4 DEF RollParts, Undoing
    <3>4. Recovering' /\ Launching' /\ Restored'
      BY <2>2 DEF Recovering, Launching, Restored
    <3>5. QED
      BY <3>2, <3>3, <3>4 DEF RollParts
  <2>5. Booted'
    BY <2>3 DEF RollInv, Booted
  <2>6. QED
    BY <1>1, <2>2, <2>4, <2>5, LaterRoll
<1>3. CASE ~IsRunning(op.subject)
  <2>1. op' = [op EXCEPT !.pc = "stopped", !.err = TRUE] /\ UNCHANGED proc
    BY <1>3 DEF Signal
  <2>2. /\ op'.pc = "stopped" /\ op'.why = op.why /\ op'.err = TRUE /\ op'.stage = op.stage
        /\ op'.wasRunning = op.wasRunning /\ op'.faults = op.faults /\ op'.subject = op.subject
    BY <1>1, <2>1, OpFields
  <2>3. ASSUME Single, RollParts
        PROVE  RollParts'
    <3>1. op.subject = p => ~Intact(p)
      BY <1>1, <1>3, ConstantFacts DEF Intact, IInv, Waited, IsRunning
    <3>2. Stopping'
      BY <1>1, <1>3, <2>1, <2>2, <2>3, <3>1 DEF RollParts, Stopping, IsRunning
    <3>3. Undoing'
      BY <1>1, <1>3, <2>1, <2>2, <2>3 DEF RollParts, Undoing, IsRunning
    <3>4. Recovering' /\ Launching' /\ Restored'
      BY <2>2 DEF Recovering, Launching, Restored
    <3>5. QED
      BY <3>2, <3>3, <3>4 DEF RollParts
  <2>4. Booted'
    BY <2>1 DEF RollInv, Booted
  <2>5. QED
    BY <1>1, <2>2, <2>3, <2>4, LaterRoll
<1>4. QED
  BY <1>2, <1>3

\* The process is gone, or that it is not is the one failure.
LEMMA AwaitRoll ==
  ASSUME IInv, RollInv, Await
  PROVE  RollInv'
<1>1. /\ op \in OpType /\ op.faults \in Nat /\ p \in Slot /\ op.pc = "await"
      /\ op.subject \in Slot /\ (op.why # "undo" => op.subject = p) /\ proc[op.subject].intent
      /\ UNCHANGED <<proc, p, front>>
  BY DEF IInv, Typed, Subject, OpType, Await
<1>2. Booted'
  BY <1>1 DEF RollInv, Booted
<1>3. CASE ~IsRunning(op.subject) /\ Moves([op EXCEPT !.pc = "stopped"], FALSE)
  <2>1. [op EXCEPT !.pc = "stopped"] \in OpType
    BY <1>1 DEF OpType
  <2>2. op' = [op EXCEPT !.pc = "stopped"]
    BY <1>3 DEF Moves
  <2>3. /\ op'.pc = "stopped" /\ op'.why = op.why /\ op'.err = op.err /\ op'.stage = op.stage
        /\ op'.wasRunning = op.wasRunning /\ op'.faults = op.faults /\ op'.subject = op.subject
    BY <1>1, <2>2, OpFields
  <2>4. ASSUME Single, RollParts
        PROVE  RollParts'
    <3>1. Stopping'
      BY <1>1, <1>3, <2>3, <2>4 DEF RollParts, Stopping, IsRunning
    <3>2. Undoing'
      BY <1>1, <1>3, <2>3, <2>4 DEF RollParts, Undoing, IsRunning
    <3>3. Recovering' /\ Launching' /\ Restored'
      BY <2>3 DEF Recovering, Launching, Restored
    <3>4. QED
      BY <3>1, <3>2, <3>3 DEF RollParts
  <2>5. QED
    BY <1>1, <1>2, <2>3, <2>4, LaterRoll
<1>4. CASE proc[op.subject].os = "up" /\ Moves([op EXCEPT !.pc = "stopped", !.err = TRUE], TRUE)
  <2> DEFINE o == [op EXCEPT !.pc = "stopped", !.err = TRUE]
  <2>1. o \in OpType
    BY <1>1 DEF OpType
  <2>2. /\ o.pc = "stopped" /\ o.why = op.why /\ o.err = TRUE /\ o.stage = op.stage
        /\ o.wasRunning = op.wasRunning /\ o.faults = op.faults /\ o.subject = op.subject
    BY <1>1, OpFields
  <2> HIDE DEF o
  <2>3. /\ op'.pc = "stopped" /\ op'.why = op.why /\ op'.err = TRUE /\ op'.stage = op.stage
        /\ op'.wasRunning = op.wasRunning /\ op'.faults = op.faults + 1
    BY <1>4, <2>1, <2>2, MovesCounts DEF o
  <2>4. ASSUME Single', Single, RollParts
        PROVE  RollParts'
    <3>1. op.faults = 0
      BY <1>1, <2>3, <2>4 DEF Single
    <3>2. op.why # "undo" => Quiet
      BY <1>1, <1>4 DEF Quiet, IInv, Waited
    <3>3. Stopping'
      BY <1>1, <2>3, <2>4, <3>1, <3>2 DEF RollParts, Stopping, Quiet
    <3>4. Undoing'
      BY <1>1, <2>3, <2>4, <3>1 DEF RollParts, Undoing
    <3>5. Recovering' /\ Launching' /\ Restored'
      BY <2>3 DEF Recovering, Launching, Restored
    <3>6. QED
      BY <3>3, <3>4, <3>5 DEF RollParts
  <2>5. QED
    BY <1>1, <1>2, <2>3, <2>4, LaterRoll
<1>5. QED
  BY <1>3, <1>4 DEF Await

LEMMA StoppedRoll ==
  ASSUME IInv, RollInv, Stopped
  PROVE  RollInv'
<1>1. /\ op \in OpType /\ op.faults \in Nat /\ op.pc = "stopped" /\ UNCHANGED <<proc, p, front>>
  BY DEF IInv, Typed, OpType, Stopped
<1>2. PICK pc : op' = [op EXCEPT !.pc = pc] /\
        \/ op.why = "restart" /\ pc = IF op.err THEN "recover" ELSE "launch"
        \/ op.why = "undo" /\ pc = "startFailed"
        \/ op.why = "cleanup" /\ pc = "rollback"
        \/ op.why = "halt" /\ pc = "finish"
  BY DEF Stopped
<1>3. /\ op'.pc = pc /\ op'.why = op.why /\ op'.err = op.err /\ op'.stage = op.stage
      /\ op'.wasRunning = op.wasRunning /\ op'.faults = op.faults /\ op'.subject = op.subject
  BY <1>1, <1>2, OpFields
<1>4. ASSUME Single, RollParts
      PROVE  RollParts'
  <2>1. Stopping'
    BY <1>2, <1>3 DEF Stopping
  <2>2. Recovering'
    BY <1>1, <1>2, <1>3, <1>4 DEF RollParts, Stopping, Recovering, Quiet, IsRunning
  <2>3. Launching'
    BY <1>1, <1>2, <1>3, <1>4 DEF RollParts, Stopping, Launching
  <2>4. Undoing'
    BY <1>1, <1>2, <1>3, <1>4 DEF RollParts, Stopping, Undoing, IsRunning
  <2>5. Restored'
    BY <1>1, <1>2, <1>3, <1>4 DEF RollParts, Stopping, Restored
  <2>6. QED
    BY <2>1, <2>2, <2>3, <2>4, <2>5 DEF RollParts
<1>5. Booted' /\ op'.pc # "decide"
  BY <1>1, <1>2, <1>3 DEF RollInv, Booted
<1>6. QED
  BY <1>1, <1>3, <1>4, <1>5, LaterRoll

LEMMA RecoverRoll ==
  ASSUME IInv, RollInv, Recover
  PROVE  RollInv'
<1>1. /\ op \in OpType /\ op.faults \in Nat /\ op.pc = "recover" /\ UNCHANGED <<proc, p, front>>
  BY DEF IInv, Typed, OpType, Recover
<1>2. Booted'
  BY <1>1 DEF RollInv, Booted
<1>3. CASE IsRunning(p)
  <2>1. op' = [op EXCEPT !.pc = "republish"]
    BY <1>3 DEF Recover
  <2>2. /\ op'.pc = "republish" /\ op'.err = op.err /\ op'.wasRunning = op.wasRunning
        /\ op'.faults = op.faults
    BY <1>1, <2>1, OpFields
  <2>3. ASSUME Single, RollParts
        PROVE  RollParts'
    <3>1. Recovering'
      BY <1>1, <1>3, <2>2, <2>3 DEF RollParts, Recovering, Quiet
    <3>2. Stopping' /\ Launching' /\ Undoing' /\ Restored'
      BY <2>2 DEF Stopping, Launching, Undoing, Restored
    <3>3. QED
      BY <3>1, <3>2 DEF RollParts
  <2>4. QED
    BY <1>1, <1>2, <2>2, <2>3, LaterRoll
<1>4. CASE ~IsRunning(p)
  <2>1. op' = Restore(op)
    BY <1>4 DEF Recover
  <2>2. /\ op'.pc = "launch" /\ op'.stage = "restore" /\ op'.plan = op.prev /\ op'.prev = op.prev
        /\ op'.err = op.err /\ op'.wasRunning = op.wasRunning /\ op'.faults = op.faults
    BY <1>1, <2>1, RestoreFields
  <2>3. ASSUME Single, RollParts
        PROVE  RollParts'
    <3>1. Launching'
      BY <1>1, <2>2, <2>3 DEF RollParts, Recovering, Launching
    <3>2. Stopping' /\ Recovering' /\ Undoing' /\ Restored'
      BY <2>2 DEF Stopping, Recovering, Undoing, Restored
    <3>3. QED
      BY <3>1, <3>2 DEF RollParts
  <2>4. QED
    BY <1>1, <1>2, <2>2, <2>3, LaterRoll
<1>5. QED
  BY <1>3, <1>4

\* A start that fails is the one failure; one that restores has none left.
LEMMA LaunchRoll ==
  ASSUME IInv, RollInv, Launch
  PROVE  RollInv'
<1>1. /\ op \in OpType /\ op.faults \in Nat /\ op.pc = "launch" /\ op.stage \in {"new", "restore"}
      /\ op.plan \in Config /\ proc \in [Slot -> ProcType] /\ UNCHANGED <<p, front>>
  BY DEF IInv, Typed, OpType, Launch
<1>2. PICK i \in Slot, failed \in BOOLEAN :
        /\ Free(i)
        /\ proc' = [proc EXCEPT ![i] = IF failed THEN [NoProc EXCEPT !.plan = op.plan]
                                       ELSE Fresh(op.plan)]
        /\ Moves([op EXCEPT !.pc = IF failed THEN "startFailed" ELSE "ready", !.subject = i], failed)
  BY DEF Launch
<1> DEFINE o == [op EXCEPT !.pc = IF failed THEN "startFailed" ELSE "ready", !.subject = i]
<1>3. /\ o \in OpType /\ Moves(o, failed)
      /\ o.pc = (IF failed THEN "startFailed" ELSE "ready") /\ o.subject = i
      /\ o.stage = op.stage /\ o.wasRunning = op.wasRunning /\ o.faults = op.faults
      /\ o.err = op.err /\ o.plan = op.plan /\ o.prev = op.prev
  BY <1>1, <1>2 DEF OpType
<1> HIDE DEF o
<1>4. /\ op'.pc = (IF failed THEN "startFailed" ELSE "ready") /\ op'.subject = i
      /\ op'.stage = op.stage /\ op'.wasRunning = op.wasRunning
      /\ op'.err = op.err /\ op'.plan = op.plan /\ op'.prev = op.prev
      /\ op'.faults = IF failed THEN op.faults + 1 ELSE op.faults
  BY <1>3, MovesCounts
<1>5. /\ [NoProc EXCEPT !.plan = op.plan].done
      /\ Fresh(op.plan).os = "up" /\ ~Fresh(op.plan).intent
  BY DEF NoProc, Fresh
<1>6. /\ \A j \in Slot : j # i => proc'[j] = proc[j]
      /\ failed => proc'[i].done
      /\ ~failed => proc'[i].os = "up" /\ ~proc'[i].intent
  BY <1>1, <1>2, <1>5
<1>7. Booted'
  BY <1>6 DEF RollInv, Booted
<1>8. ASSUME Single, Single', RollParts
      PROVE  RollParts'
  <2>1. front = None /\ (op.stage = "restore" => ~failed)
    BY <1>1, <1>4, <1>8 DEF RollParts, Launching, Single
  <2>2. failed => op'.faults = 1
    BY <1>1, <1>4, <1>8 DEF Single
  <2>3. Launching'
    BY <1>1, <1>4, <1>6, <1>8, <2>1 DEF RollParts, Launching, Intact
  <2>4. Undoing'
    BY <1>1, <1>4, <1>6, <2>1, <2>2 DEF Undoing, IsRunning
  <2>5. Stopping' /\ Recovering' /\ Restored'
    BY <1>4 DEF Stopping, Recovering, Restored
  <2>6. QED
    BY <2>3, <2>4, <2>5 DEF RollParts
<1>9. QED
  BY <1>1, <1>4, <1>7, <1>8, LaterRoll

LEMMA BackendsReadyRoll ==
  ASSUME IInv, RollInv, BackendsReady
  PROVE  RollInv'
<1>1. /\ op \in OpType /\ op.faults \in Nat /\ op.pc = "ready" /\ UNCHANGED <<proc, p, front>>
      /\ op' = [op EXCEPT !.pc = "publish"]
  BY DEF IInv, Typed, OpType, BackendsReady
<1>2. /\ op'.pc = "publish" /\ op'.err = op.err /\ op'.stage = op.stage /\ op'.plan = op.plan
      /\ op'.prev = op.prev /\ op'.subject = op.subject
      /\ op'.wasRunning = op.wasRunning /\ op'.faults = op.faults
  BY <1>1, OpFields
<1>3. Booted'
  BY <1>1 DEF RollInv, Booted
<1>4. ASSUME Single, RollParts
      PROVE  RollParts'
  <2>1. Launching'
    BY <1>1, <1>2, <1>4 DEF RollParts, Launching, Intact
  <2>2. Stopping' /\ Recovering' /\ Undoing' /\ Restored'
    BY <1>2 DEF Stopping, Recovering, Undoing, Restored
  <2>3. QED
    BY <2>1, <2>2 DEF RollParts
<1>5. QED
  BY <1>1, <1>2, <1>3, <1>4, LaterRoll

\* A process that cannot be published is given up: that is the one failure, or
\* its end was.
LEMMA GiveUpRoll ==
  ASSUME IInv, RollInv, op.pc \in {"ready", "publish"}, UNCHANGED <<proc, p, front>>,
         NEW failed \in BOOLEAN, Moves([op EXCEPT !.pc = "signal", !.why = "undo"], failed),
         Single => failed \/ proc[op.subject].os # "up"
  PROVE  RollInv'
<1>1. op \in OpType /\ op.faults \in Nat /\ op.stage \in {"new", "restore"}
  BY DEF IInv, Typed, OpType
<1> DEFINE o == [op EXCEPT !.pc = "signal", !.why = "undo"]
<1>2. o \in OpType
  BY <1>1 DEF OpType
<1>3. /\ o.pc = "signal" /\ o.why = "undo" /\ o.stage = op.stage
      /\ o.wasRunning = op.wasRunning /\ o.faults = op.faults
  BY <1>1, OpFields
<1> HIDE DEF o
<1>4. /\ op'.pc = "signal" /\ op'.why = "undo" /\ op'.stage = op.stage
      /\ op'.wasRunning = op.wasRunning
      /\ op'.faults = IF failed THEN op.faults + 1 ELSE op.faults
  BY <1>2, <1>3, MovesCounts DEF o
<1>5. Booted'
  BY DEF RollInv, Booted
<1>6. ASSUME Single, Single', RollParts
      PROVE  RollParts'
  <2>1. front = None /\ op.stage = "new" /\ op'.faults = 1
    <3>1. op'.faults <= 1
      BY <1>6 DEF Single
    <3>2. CASE failed
      BY <1>1, <1>4, <1>6, <3>1, <3>2 DEF RollParts, Launching
    <3>3. CASE ~failed
      BY <1>1, <1>4, <1>6, <3>1, <3>3 DEF RollParts, Launching, Intact
    <3>4. QED
      BY <3>2, <3>3
  <2>2. Undoing'
    BY <1>4, <2>1 DEF Undoing
  <2>3. Stopping' /\ Recovering' /\ Launching' /\ Restored'
    BY <1>4 DEF Stopping, Recovering, Launching, Restored
  <2>4. QED
    BY <2>2, <2>3 DEF RollParts
<1>7. QED
  BY <1>1, <1>4, <1>5, <1>6, LaterRoll

LEMMA BackendsFailRoll ==
  ASSUME IInv, RollInv, BackendsFail
  PROVE  RollInv'
<1> DEFINE failed == proc[op.subject].os = "up"
<1>1. /\ op.pc = "ready" /\ UNCHANGED <<proc, p, front>>
      /\ Moves([op EXCEPT !.pc = "signal", !.why = "undo"], failed)
  BY DEF BackendsFail
<1>2. failed \in BOOLEAN
  OBVIOUS
<1>3. failed \/ proc[op.subject].os # "up"
  OBVIOUS
<1> HIDE DEF failed
<1>4. QED
  BY <1>1, <1>2, <1>3, GiveUpRoll

LEMMA PublishFailsRoll ==
  ASSUME IInv, RollInv, PublishFails
  PROVE  RollInv'
<1> DEFINE failed == front = None
<1>1. /\ op.pc = "publish" /\ UNCHANGED <<proc, p, front>>
      /\ Moves([op EXCEPT !.pc = "signal", !.why = "undo"], failed)
  BY DEF PublishFails
<1>2. failed \in BOOLEAN
  OBVIOUS
<1>3. Single => failed
  BY <1>1 DEF RollInv, Launching
<1> HIDE DEF failed
<1>4. QED
  BY <1>1, <1>2, <1>3, GiveUpRoll

\* What is published is the previous configuration, after a failure.
LEMMA PublishRoll ==
  ASSUME IInv, RollInv, Publish
  PROVE  RollInv'
<1>1. /\ op \in OpType /\ op.faults \in Nat /\ op.pc = "publish" /\ op.stage \in {"new", "restore"}
      /\ p' = op.subject /\ proc[op.subject].plan = op.plan /\ UNCHANGED proc
      /\ front' = (IF op.plan = Empty THEN None ELSE op.subject)
      /\ op' = [op EXCEPT !.pc = "finish", !.err = @ \/ op.stage = "restore"]
  BY DEF IInv, Typed, OpType, Subject, Publish, Started
<1>2. /\ op'.pc = "finish" /\ op'.err = (op.err \/ op.stage = "restore") /\ op'.prev = op.prev
      /\ op'.wasRunning = op.wasRunning /\ op'.faults = op.faults
  BY <1>1, OpFields
<1>3. Booted'
  BY <1>1 DEF RollInv, Booted
<1>4. ASSUME Single, RollParts
      PROVE  RollParts'
  <2>1. Restored'
    BY <1>1, <1>2, <1>4 DEF RollParts, Launching, Restored, Intact
  <2>2. Stopping' /\ Recovering' /\ Launching' /\ Undoing'
    BY <1>2 DEF Stopping, Recovering, Launching, Undoing
  <2>3. QED
    BY <2>1, <2>2 DEF RollParts
<1>5. QED
  BY <1>1, <1>2, <1>3, <1>4, LaterRoll

LEMMA RepublishRoll ==
  ASSUME IInv, RollInv, Republish
  PROVE  RollInv'
<1>1. /\ op \in OpType /\ op.faults \in Nat /\ op.pc = "republish" /\ op.prev = proc[p].plan
      /\ UNCHANGED <<proc, p>>
  BY DEF IInv, Typed, OpType, Subject, Republish
<1>2. PICK failed \in BOOLEAN :
        /\ Moves([op EXCEPT !.pc = "finish"], failed)
        /\ \/ ~failed /\ front = None /\ front' = IF op.prev = Empty THEN None ELSE p
           \/ failed = (front = None) /\ UNCHANGED front
  BY DEF Republish
<1> DEFINE o == [op EXCEPT !.pc = "finish"]
<1>3. o \in OpType
  BY <1>1 DEF OpType
<1>4. /\ o.pc = "finish" /\ o.err = op.err /\ o.prev = op.prev
      /\ o.wasRunning = op.wasRunning /\ o.faults = op.faults
  BY <1>1, OpFields
<1> HIDE DEF o
<1>5. /\ op'.pc = "finish" /\ op'.err = op.err /\ op'.prev = op.prev
      /\ op'.wasRunning = op.wasRunning
      /\ op'.faults = IF failed THEN op.faults + 1 ELSE op.faults
  BY <1>2, <1>3, <1>4, MovesCounts DEF o
<1>6. Booted'
  BY <1>1 DEF RollInv, Booted
<1>7. ASSUME Single, Single', RollParts
      PROVE  RollParts'
  <2>1. front = None /\ op.faults = 1 /\ Quiet /\ ~failed
    BY <1>1, <1>5, <1>7 DEF RollParts, Recovering, Single
  <2>2. Restored'
    BY <1>1, <1>2, <1>5, <2>1 DEF Restored, Quiet
  <2>3. Stopping' /\ Recovering' /\ Launching' /\ Undoing'
    BY <1>5 DEF Stopping, Recovering, Launching, Undoing
  <2>4. QED
    BY <2>2, <2>3 DEF RollParts
<1>8. QED
  BY <1>1, <1>5, <1>6, <1>7, LaterRoll

\* After a single failure the replacement is dead and the restore has not failed.
LEMMA StartFailedRoll ==
  ASSUME IInv, RollInv, StartFailed
  PROVE  RollInv'
<1>1. /\ op \in OpType /\ op.faults \in Nat /\ op.pc = "startFailed" /\ UNCHANGED <<proc, front>>
  BY DEF IInv, Typed, OpType, StartFailed
<1>2. PICK pc \in {"finish", "stopFront", "rollback"} :
        /\ op' = [op EXCEPT !.pc = pc, !.err = TRUE]
           \/ op' = [op EXCEPT !.pc = pc, !.why = "cleanup", !.err = TRUE]
        /\ op.stage # "restore" /\ ~IsRunning(op.subject) =>
             /\ pc = "rollback" /\ p' = op.subject
             /\ op' = [op EXCEPT !.pc = pc, !.err = TRUE]
  BY DEF StartFailed
<1>3. /\ op'.pc = pc /\ op'.stage = op.stage /\ op'.wasRunning = op.wasRunning
      /\ op'.faults = op.faults /\ op'.err
  BY <1>1, <1>2 DEF OpType
<1>4. Booted'
  BY <1>1 DEF RollInv, Booted
<1>5. ASSUME Single, RollParts
      PROVE  RollParts'
  <2>1. op.stage = "new" /\ front = None /\ op.faults = 1 /\ ~IsRunning(op.subject)
    BY <1>1, <1>5 DEF RollParts, Undoing
  <2>2. pc = "rollback" /\ p' = op.subject
    BY <1>2, <2>1
  <2>3. Undoing'
    BY <1>1, <1>3, <2>1, <2>2 DEF Undoing, IsRunning
  <2>4. Stopping' /\ Recovering' /\ Launching' /\ Restored'
    BY <1>3, <2>2 DEF Stopping, Recovering, Launching, Restored
  <2>5. QED
    BY <2>3, <2>4 DEF RollParts
<1>6. QED
  BY <1>1, <1>3, <1>4, <1>5, LaterRoll

LEMMA RollbackRoll ==
  ASSUME IInv, RollInv, Rollback
  PROVE  RollInv'
<1>1. /\ op \in OpType /\ op.faults \in Nat /\ op.pc = "rollback" /\ UNCHANGED <<proc, p, front>>
      /\ op' = IF op.wasRunning /\ ~IsRunning(p) THEN Restore(op) ELSE [op EXCEPT !.pc = "finish"]
  BY DEF IInv, Typed, OpType, Rollback
<1>2. /\ op'.pc \in {"launch", "finish"} /\ op'.wasRunning = op.wasRunning
      /\ op'.faults = op.faults
  BY <1>1, OpFields, RestoreFields
<1>3. Booted'
  BY <1>1 DEF RollInv, Booted
<1>4. ASSUME Single, RollParts
      PROVE  RollParts'
  <2>1. op' = Restore(op) /\ front = None /\ op.faults = 1 /\ op.err
    BY <1>1, <1>4 DEF RollParts, Undoing, Single
  <2>2. /\ op'.pc = "launch" /\ op'.stage = "restore" /\ op'.plan = op'.prev /\ op'.err = op.err
    BY <1>1, <2>1, RestoreFields
  <2>3. Launching'
    BY <1>1, <1>2, <2>1, <2>2 DEF Launching
  <2>4. Stopping' /\ Recovering' /\ Undoing' /\ Restored'
    BY <2>2 DEF Stopping, Recovering, Undoing, Restored
  <2>5. QED
    BY <2>3, <2>4 DEF RollParts
<1>5. QED
  BY <1>1, <1>2, <1>3, <1>4, LaterRoll

LEMMA RollInit == Init => RollInv
<1> SUFFICES ASSUME Init PROVE RollInv
  OBVIOUS
<1>1. NoProc.done /\ \A c \in Config : Fresh(c).os = "up"
  BY DEF NoProc, Fresh
<1>2. Booted
  BY <1>1 DEF Init, Booted
<1>3. op.pc = "idle"
  BY DEF Init, NoOp
<1>4. QED
  BY <1>2, <1>3 DEF RollInv, Sound, Stopping, Recovering, Launching, Undoing, Restored

LEMMA RollStep == IInv /\ RollInv /\ [Next]_vars => RollInv'
<1> SUFFICES ASSUME IInv, RollInv, [Next]_vars PROVE RollInv'
  OBVIOUS
<1>1. CASE \E i \in Slot : Crash(i) \/ Die(i) \/ WaiterStep(i)
  BY <1>1, CrashRoll, DieRoll, WaiterRoll
<1>2. CASE Restart \/ HealthRestart
  BY <1>2, BeginRoll DEF Restart, HealthRestart
<1>3. CASE StopXray
  BY <1>3, StopXrayRoll
<1>4. CASE OpStep
  BY <1>4, DecideRoll, StopFrontRoll, SignalRoll, AwaitRoll, StoppedRoll, RecoverRoll,
     LaunchRoll, BackendsReadyRoll, BackendsFailRoll, PublishRoll, PublishFailsRoll,
     RepublishRoll, StartFailedRoll, RollbackRoll, FinishRoll DEF OpStep
<1>5. CASE UNCHANGED vars
  <2>1. UNCHANGED <<proc, p, op, front>>
    BY <1>5 DEF vars
  <2>2. QED
    BY <2>1, CalmRoll DEF Doomed, Intact
<1>6. QED
  BY <1>1, <1>2, <1>3, <1>4, <1>5 DEF Next

\* A restart that meets a single failure, wherever it does, ends with the
\* previous configuration current, its process up or told to stop, and its
\* listeners published: what restartXray and recoverPreviousXrayRuntime promise.
THEOREM OneFailureRollsBack == Spec => []SingleFaultRollsBack
<1>1. IInv /\ RollInv => SingleFaultRollsBack
  <2> SUFFICES ASSUME IInv, RollInv, op.pc = "finish", op.wasRunning, op.err, op.faults <= 1
               PROVE  /\ proc[p].plan = op.prev
                      /\ IsRunning(p) \/ proc[p].intent
                      /\ front = IF op.prev = Empty THEN None ELSE p
    BY DEF SingleFaultRollsBack
  <2>1. Restored
    BY DEF RollInv, Single
  <2>2. proc[p].os = "up" => IsRunning(p)
    BY ConstantFacts DEF IInv, Typed, Waited, IsRunning
  <2>3. QED
    BY <2>1, <2>2 DEF Restored, Quiet
<1>2. Spec => [](IInv /\ RollInv)
  BY InvariantHolds, RollInit, RollStep, InitHolds, StepHolds, PTL DEF Spec
<1>3. QED
  BY <1>1, <1>2, PTL

=============================================================================
