---------------------------- MODULE XrayRuntime ----------------------------
(***************************************************************************)
(* The runtime that restartXray and StopXray operate: Xray processes       *)
(* (internal/xray/process.go), the public shared-port listeners of the     *)
(* frontmux manager (internal/frontmux/manager.go), and the functions that *)
(* start, stop, recover and restore both (internal/web/service/            *)
(* xray_frontmux_runtime.go).  Next to them runs waitForCommand, one       *)
(* goroutine per process, whose crash callback stops the listeners.        *)
(*                                                                         *)
(* Why and when an operation is requested is the subject of module         *)
(* XrayRestart; here every operation may come at any time, with any plan.  *)
(* A configuration is its shared-port plan; a change of anything else that *)
(* the core API cannot apply takes the path of a forced restart.           *)
(***************************************************************************)
EXTENDS Naturals

CONSTANTS
  Plan,      \* configurations with a non-empty shared-port plan
  Empty,     \* a configuration without shared ports
  Slots,     \* bound: process objects that exist at the same time
  MaxFaults  \* bound: crashes, failed starts, stops, binds and timeouts

ASSUME XrayRuntimeAssumption ==
  /\ Empty \notin Plan
  /\ Slots \in Nat \ {0}
  /\ MaxFaults \in Nat

Slot == 1..Slots
Config == Plan \cup {Empty}
None == 0

VARIABLES
  proc,    \* per slot: an xray.process with its waitForCommand goroutine
  p,       \* the current process
  front,   \* frontmux.Manager.running: the process its plan was started for
  op,      \* the operation that holds xrayLifecycleMu
  manual,  \* isManuallyStopped
  faults   \* counter for the bound

vars == <<proc, p, front, op, manual, faults>>

NoProc == [os |-> "none", waiter |-> "none", done |-> TRUE, intent |-> FALSE,
           clean |-> FALSE, plan |-> Empty]

\* A process that runs configuration c.
Fresh(c) == [NoProc EXCEPT !.os = "up", !.waiter = "wait", !.done = FALSE, !.plan = c]

\* op.faults is a history: the failures that this operation has met.
NoOp == [pc |-> "idle", why |-> "none", subject |-> None, plan |-> Empty,
         prev |-> Empty, stage |-> "new", wasRunning |-> FALSE, force |-> FALSE,
         err |-> FALSE, faults |-> 0]

\* process.IsRunning: done is not closed yet.
IsRunning(i) == i # None /\ ~proc[i].done

Fault == /\ faults < MaxFaults
         /\ faults' = faults + 1

\* op' with its failures counted when the step is one.
Moves(o, failed) ==
  IF failed THEN /\ Fault
                 /\ op' = [o EXCEPT !.faults = @ + 1]
            ELSE /\ op' = o
                 /\ UNCHANGED faults

\* A running core, or a panel that has not started one yet.
Init ==
  /\ \E c \in Config, up \in BOOLEAN :
       /\ proc = [i \in Slot |-> IF i = 1 /\ up THEN Fresh(c) ELSE NoProc]
       /\ front = IF up /\ c # Empty THEN 1 ELSE None
  /\ p = 1
  /\ op = NoOp /\ manual = FALSE /\ faults = 0

-----------------------------------------------------------------------------
(***************************************************************************)
(* Processes.                                                              *)
(***************************************************************************)
\* The process ends by itself; it may end with exit status 0.
Crash(i) ==
  /\ proc[i].os = "up"
  /\ Fault
  /\ \E clean \in BOOLEAN :
       proc' = [proc EXCEPT ![i].os = "exited", ![i].clean = clean]
  /\ op' = [op EXCEPT !.faults = IF op.pc = "idle" THEN 0 ELSE @ + 1]
  /\ UNCHANGED <<p, front, manual>>

\* The signal of Stop takes effect.
Die(i) ==
  /\ proc[i].os = "up" /\ proc[i].intent
  /\ proc' = [proc EXCEPT ![i].os = "exited", ![i].clean = TRUE]
  /\ UNCHANGED <<p, front, op, manual, faults>>

\* Mutant: done is closed before the crash callback runs.
MutWaitReturns(i) ==
  /\ proc[i].waiter = "wait" /\ proc[i].os = "exited"
  /\ proc' = [proc EXCEPT ![i].done = TRUE,
                          ![i].waiter = IF proc[i].clean \/ proc[i].intent
                                        THEN "none" ELSE "callback"]
  /\ UNCHANGED <<p, front, op, manual, faults>>

\* waitForCommand: no callback for a clean exit or an intentional stop.
WaitReturns(i) ==
  /\ proc[i].waiter = "wait" /\ proc[i].os = "exited"
  /\ proc' = [proc EXCEPT ![i].waiter = IF proc[i].clean \/ proc[i].intent
                                        THEN "close" ELSE "callback"]
  /\ UNCHANGED <<p, front, op, manual, faults>>

\* OnCrash: StopSharedPortFrontMuxAfterXrayCrash.
Callback(i) ==
  /\ proc[i].waiter = "callback"
  /\ front' = None
  /\ proc' = [proc EXCEPT ![i].waiter = "close"]
  /\ UNCHANGED <<p, op, manual, faults>>

CloseDone(i) ==
  /\ proc[i].waiter = "close"
  /\ proc' = [proc EXCEPT ![i].waiter = "none", ![i].done = TRUE]
  /\ UNCHANGED <<p, front, op, manual, faults>>

-----------------------------------------------------------------------------
(***************************************************************************)
(* restartXray, from the acquisition of the lifecycle mutex.               *)
(***************************************************************************)
\* It has ended, or has been told to, and does not count as stopped yet.
Doomed(i) == ~proc[i].done /\ (proc[i].os = "exited" \/ proc[i].intent)

Begin(c, force) ==
  /\ op.pc = "idle"
  /\ op' = [NoOp EXCEPT !.pc = "decide", !.plan = c, !.force = force,
                        !.faults = IF \E i \in Slot : Doomed(i) THEN 1 ELSE 0]
  /\ manual' = FALSE
  /\ UNCHANGED <<proc, p, front, faults>>

Restart == \E c \in Config, force \in BOOLEAN : Begin(c, force)

\* Mutant: a core that left with exit status 0 does not count as crashed.
MutHealthRestart ==
  /\ ~IsRunning(p) /\ ~manual /\ ~proc[p].clean
  /\ \E c \in Config : Begin(c, FALSE)

\* CheckXrayRunningJob, and the cron job after a failed restart.
HealthRestart ==
  /\ ~IsRunning(p) /\ ~manual
  /\ \E c \in Config : Begin(c, FALSE)

Decide ==
  /\ op.pc = "decide"
  /\ op' = IF ~IsRunning(p) THEN [op EXCEPT !.pc = "launch"]
           ELSE IF ~op.force /\ proc[p].plan = op.plan THEN [op EXCEPT !.pc = "finish"]
           ELSE [op EXCEPT !.pc = "stopFront", !.why = "restart", !.subject = p,
                           !.wasRunning = TRUE, !.prev = proc[p].plan]
  /\ UNCHANGED <<proc, p, front, manual, faults>>

\* stopXrayRuntime: frontMuxManager.Stop; closing a listener may fail, the
\* manager is stopped all the same.
StopFront ==
  /\ op.pc = "stopFront"
  /\ \E failed \in {FALSE} \cup {front # None} :
       Moves([op EXCEPT !.pc = IF IsRunning(op.subject) THEN "signal" ELSE "stopped",
                        !.err = @ \/ failed], failed)
  /\ front' = None
  /\ UNCHANGED <<proc, p, manual>>

\* process.Stop: an error if the process has ended meanwhile.
Signal ==
  /\ op.pc = "signal"
  /\ IF IsRunning(op.subject)
     THEN /\ proc' = [proc EXCEPT ![op.subject].intent = TRUE]
          /\ op' = [op EXCEPT !.pc = "await"]
     ELSE /\ op' = [op EXCEPT !.pc = "stopped", !.err = TRUE]
          /\ UNCHANGED proc
  /\ UNCHANGED <<p, front, manual, faults>>

\* waitForExit: done is closed, or the timeouts for SIGTERM and SIGKILL expire
\* on a process that has not died.  (When it has, its goroutine closes done
\* well within the seconds that the timeouts leave.)
Await ==
  /\ op.pc = "await"
  /\ \/ /\ ~IsRunning(op.subject)
        /\ Moves([op EXCEPT !.pc = "stopped"], FALSE)
     \/ /\ proc[op.subject].os = "up"
        /\ Moves([op EXCEPT !.pc = "stopped", !.err = TRUE], TRUE)
  /\ UNCHANGED <<proc, p, front, manual>>

\* Mutant: a failed stop goes on to the new process.
MutStopped ==
  /\ op.pc = "stopped"
  /\ \/ op.why = "restart" /\ op' = [op EXCEPT !.pc = "launch"]
     \/ op.why = "undo" /\ op' = [op EXCEPT !.pc = "startFailed"]
     \/ op.why = "cleanup" /\ op' = [op EXCEPT !.pc = "rollback"]
     \/ op.why = "halt" /\ op' = [op EXCEPT !.pc = "finish"]
  /\ UNCHANGED <<proc, p, front, manual, faults>>

\* Where the caller of Stop goes on.
Stopped ==
  /\ op.pc = "stopped"
  /\ \/ op.why = "restart" /\ op' = [op EXCEPT !.pc = IF op.err THEN "recover" ELSE "launch"]
     \/ op.why = "undo" /\ op' = [op EXCEPT !.pc = "startFailed"]
     \/ op.why = "cleanup" /\ op' = [op EXCEPT !.pc = "rollback"]
     \/ op.why = "halt" /\ op' = [op EXCEPT !.pc = "finish"]
  /\ UNCHANGED <<proc, p, front, manual, faults>>

Restore(o) == [o EXCEPT !.pc = "launch", !.stage = "restore", !.plan = o.prev]

\* recoverPreviousXrayRuntime: republish for a surviving process, else restore.
Recover ==
  /\ op.pc = "recover"
  /\ op' = IF IsRunning(p) THEN [op EXCEPT !.pc = "republish"] ELSE Restore(op)
  /\ UNCHANGED <<proc, p, front, manual, faults>>

\* A slot that nothing refers to.
Free(i) == /\ i # p /\ i # front
           /\ proc[i].done /\ proc[i].waiter = "none"

\* startXrayRuntime: process.Start.
Launch ==
  /\ op.pc = "launch"
  /\ \E i \in Slot, failed \in BOOLEAN :
       /\ Free(i) /\ \A j \in 1..(i - 1) : ~Free(j)
       /\ proc' = [proc EXCEPT ![i] =
            IF failed THEN [NoProc EXCEPT !.plan = op.plan]
            ELSE Fresh(op.plan)]
       /\ Moves([op EXCEPT !.pc = IF failed THEN "startFailed" ELSE "ready",
                           !.subject = i], failed)
  /\ UNCHANGED <<p, front, manual>>

\* waitForFrontMuxBackends: nothing to wait for, all backends accept, or the
\* deadline passes (it does when the process is dead).
BackendsReady ==
  /\ op.pc = "ready"
  /\ op.plan = Empty \/ proc[op.subject].os = "up"
  /\ op' = [op EXCEPT !.pc = "publish"]
  /\ UNCHANGED <<proc, p, front, manual, faults>>

BackendsFail ==
  /\ op.pc = "ready"
  /\ op.plan # Empty
  /\ Moves([op EXCEPT !.pc = "signal", !.why = "undo"], proc[op.subject].os = "up")
  /\ UNCHANGED <<proc, p, front, manual>>

Started == [op EXCEPT !.pc = "finish", !.err = @ \/ op.stage = "restore"]

\* Mutant: the restored process is not stored in the package variable.
MutPublishForgets ==
  /\ op.pc = "publish"
  /\ front = None
  /\ front' = IF op.plan = Empty THEN None ELSE op.subject
  /\ op' = Started
  /\ p' = IF op.stage = "restore" THEN p ELSE op.subject
  /\ UNCHANGED <<proc, manual, faults>>

\* frontMuxManager.Start succeeds: startXrayRuntime returns the process.
Publish ==
  /\ op.pc = "publish"
  /\ front = None
  /\ front' = IF op.plan = Empty THEN None ELSE op.subject
  /\ op' = Started
  /\ p' = op.subject
  /\ UNCHANGED <<proc, manual, faults>>

\* It is running already, or a listener cannot be bound: stop the process again.
PublishFails ==
  /\ op.pc = "publish"
  /\ front # None \/ op.plan # Empty
  /\ Moves([op EXCEPT !.pc = "signal", !.why = "undo"], front = None)
  /\ UNCHANGED <<proc, p, front, manual>>

\* recoverPreviousXrayRuntime with a surviving process.
Republish ==
  /\ op.pc = "republish"
  /\ \/ /\ front = None
        /\ front' = IF op.prev = Empty THEN None ELSE p
        /\ Moves([op EXCEPT !.pc = "finish"], FALSE)
     \/ /\ front # None \/ op.prev # Empty
        /\ Moves([op EXCEPT !.pc = "finish"], front = None)
        /\ UNCHANGED front
  /\ UNCHANGED <<proc, p, manual>>

\* startXrayRuntime returned an error.  A replacement becomes p and a survivor
\* is stopped once more; a failed restore leaves p alone.
StartFailed ==
  /\ op.pc = "startFailed"
  /\ IF op.stage = "restore"
     THEN /\ op' = [op EXCEPT !.pc = "finish", !.err = TRUE]
          /\ UNCHANGED p
     ELSE /\ p' = op.subject
          /\ op' = IF IsRunning(op.subject)
                   THEN [op EXCEPT !.pc = "stopFront", !.why = "cleanup", !.err = TRUE]
                   ELSE [op EXCEPT !.pc = "rollback", !.err = TRUE]
  /\ UNCHANGED <<proc, front, manual, faults>>

\* Mutant: the rollback does not ask whether the replacement still runs.
MutRollback ==
  /\ op.pc = "rollback"
  /\ op' = IF op.wasRunning THEN Restore(op) ELSE [op EXCEPT !.pc = "finish"]
  /\ UNCHANGED <<proc, p, front, manual, faults>>

\* The previous runtime is restored unless the replacement still runs.
Rollback ==
  /\ op.pc = "rollback"
  /\ op' = IF op.wasRunning /\ ~IsRunning(p) THEN Restore(op) ELSE [op EXCEPT !.pc = "finish"]
  /\ UNCHANGED <<proc, p, front, manual, faults>>

Finish ==
  /\ op.pc = "finish"
  /\ op' = NoOp
  /\ UNCHANGED <<proc, p, front, manual, faults>>

\* StopXray.
StopXray ==
  /\ op.pc = "idle"
  /\ manual' = TRUE
  /\ op' = IF IsRunning(p) \/ front # None
           THEN [NoOp EXCEPT !.pc = "stopFront", !.why = "halt", !.subject = p]
           ELSE NoOp
  /\ UNCHANGED <<proc, p, front, faults>>

-----------------------------------------------------------------------------
OpStep ==
  \/ Decide \/ StopFront \/ Signal \/ Await \/ Stopped \/ Recover \/ Launch
  \/ BackendsReady \/ BackendsFail \/ Publish \/ PublishFails \/ Republish
  \/ StartFailed \/ Rollback \/ Finish

WaiterStep(i) == WaitReturns(i) \/ Callback(i) \/ CloseDone(i)

Next ==
  \/ \E i \in Slot : Crash(i) \/ Die(i) \/ WaiterStep(i)
  \/ Restart \/ HealthRestart \/ StopXray
  \/ OpStep

Spec == Init /\ [][Next]_vars

(***************************************************************************)
(* Goroutines run, a killed process dies, and the health check, which runs *)
(* every second, gets the lifecycle mutex again and again.                 *)
(***************************************************************************)
FairSpec ==
  /\ Spec
  /\ WF_vars(OpStep)
  /\ \A i \in Slot : WF_vars(Die(i)) /\ WF_vars(WaiterStep(i))
  /\ SF_vars(HealthRestart)

-----------------------------------------------------------------------------
(***************************************************************************)
(* Correctness.                                                            *)
(***************************************************************************)
ProcType == [os : {"none", "up", "exited"}, waiter : {"none", "wait", "callback", "close"},
             done : BOOLEAN, intent : BOOLEAN, clean : BOOLEAN, plan : Config]

OpType == [pc : {"idle", "decide", "stopFront", "signal", "await", "stopped", "recover",
                 "launch", "ready", "publish", "republish", "startFailed", "rollback",
                 "finish"},
           why : {"none", "restart", "undo", "cleanup", "halt"},
           subject : Slot \cup {None}, plan : Config, prev : Config,
           stage : {"new", "restore"}, wasRunning : BOOLEAN, force : BOOLEAN,
           err : BOOLEAN, faults : Nat]

\* Every variable stays in its type; the manager never runs an empty plan.
TypeOK ==
  /\ proc \in [Slot -> ProcType]
  /\ p \in Slot
  /\ front \in Slot \cup {None}
  /\ front # None => proc[front].plan # Empty
  /\ op \in OpType
  /\ manual \in BOOLEAN
  /\ faults \in 0..MaxFaults

\* Between operations published listeners with a live process behind them are
\* those of the current process: no start, rollback or recovery leaves them to
\* a process that the panel has forgotten.
ListenersOfCurrent == op.pc = "idle" /\ IsRunning(front) => front = p

\* A crash callback never closes the listeners of another live process: done
\* is closed after it, so no later start can have published in between.  (It
\* may close stale listeners, which heals them.)
CallbackOwnListeners ==
  [][\A i \in Slot : proc[i].waiter = "callback" /\ proc'[i].waiter # "callback"
       => front = i \/ ~IsRunning(front)]_vars

\* A process is launched only when the current one is dead ("never launch the
\* rollback process while that replacement still owns listener sockets",
\* xray.go:1336), and any other that is alive has been told to stop: what is
\* left is a failed restore whose stop timed out.
NoSecondProcess ==
  [][\A i, j \in Slot : proc[i].os # "up" /\ proc'[i].os = "up" /\ proc[j].os = "up"
       => j # p /\ proc[j].intent]_vars

\* One failure in a restart does not take down what was running: when it ends
\* the previous configuration is current again with its listeners published,
\* and its process runs, unless a late effect of the signal has ended it.
SingleFaultRollsBack ==
  op.pc = "finish" /\ op.wasRunning /\ op.err /\ op.faults <= 1
    => /\ proc[p].plan = op.prev
       /\ IsRunning(p) \/ proc[p].intent
       /\ front = IF op.prev = Empty THEN None ELSE p

\* Listeners without a process behind them, which no callback will close.
StaleListeners == front # None /\ ~IsRunning(front)

\* A runtime that is down without a manual stop comes back, unless stale
\* listeners are in the way.
RecoversUnlessStale ==
  (~IsRunning(p) /\ ~manual) ~> (IsRunning(p) \/ manual \/ StaleListeners)

=============================================================================
