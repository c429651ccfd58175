--------------------------- MODULE TrafficWriter ---------------------------
(***************************************************************************)
(* The serial traffic writer (internal/web/service/traffic_writer.go): one *)
(* goroutine applies the database writes that many goroutines submit, and  *)
(* StartTrafficWriter and StopTrafficWriter replace that goroutine, each   *)
(* cycle with a fresh queue, context and done channel (a "generation").    *)
(*                                                                         *)
(* A submitter has at most one write outstanding, so a request is named by *)
(* its submitter.  What a write does, and whether it returns an error, is  *)
(* left out: "ok" stands for the answer of the write itself.               *)
(***************************************************************************)
EXTENDS Naturals, Sequences

CONSTANTS
  Submitter,   \* goroutines that call submitTrafficWrite
  Controller,  \* goroutines that call StartTrafficWriter and StopTrafficWriter
  Free,        \* nobody holds twMu
  QueueSize,   \* trafficWriterQueueSize
  MaxGen,      \* bound: number of StartTrafficWriter calls that start a writer
  MaxWrites    \* bound: number of submitted writes

ASSUME TrafficWriterAssumption ==
  /\ Free \notin Submitter
  /\ QueueSize \in Nat \ {0}
  /\ MaxGen \in Nat \ {0}
  /\ MaxWrites \in Nat

Gen == 1..MaxGen
NoGen == 0          \* the package variables are nil

VARIABLES
  twMu,       \* Free, or the submitter that blocks on a full queue holding it
  current,    \* the generation in twQueue, twCtx, twCancel, twDone
  started,    \* generations created so far
  cancelled,  \* generations whose twCancel was called
  closed,     \* generations whose twDone is closed
  queue,      \* per generation: requests in the channel
  writer,     \* per generation: runTrafficWriter's program counter
  applying,   \* per generation: the requests it is applying (none or one)
  call,       \* per submitter: progress of submitTrafficWrite
  writeGen,   \* per submitter: the generation whose channels it captured
  replied,    \* submitters whose req.done holds an answer
  applied,    \* history: how often the submitter's current write was applied
  ctl,        \* per controller: progress of StopTrafficWriter
  stopGen,    \* per controller: the generation it stops
  writes      \* counter for the bound

writerVars == <<queue, writer, applying>>
callVars == <<call, writeGen, replied, applied, writes>>
ctlVars == <<ctl, stopGen>>
genVars == <<current, started, cancelled>>
vars == <<twMu, genVars, closed, writerVars, callVars, ctlVars>>

\* server.start has started the first writer before anybody can submit.
Init ==
  /\ twMu = Free
  /\ current = 1 /\ started = 1
  /\ cancelled = {} /\ closed = {}
  /\ queue = [g \in Gen |-> <<>>]
  /\ writer = [g \in Gen |-> IF g = 1 THEN "poll" ELSE "none"]
  /\ applying = [g \in Gen |-> {}]
  /\ call = [s \in Submitter |-> "idle"]
  /\ writeGen = [s \in Submitter |-> NoGen]
  /\ replied = {} /\ applied = [s \in Submitter |-> 0]
  /\ ctl = [c \in Controller |-> "idle"]
  /\ stopGen = [c \in Controller |-> NoGen]
  /\ writes = 0

-----------------------------------------------------------------------------
(***************************************************************************)
(* submitTrafficWrite.                                                     *)
(***************************************************************************)
Submit(s) ==
  /\ call[s] = "idle"
  /\ writes < MaxWrites
  /\ writes' = writes + 1
  /\ call' = [call EXCEPT ![s] = "lock"]
  /\ applied' = [applied EXCEPT ![s] = 0]
  /\ replied' = replied \ {s}
  /\ UNCHANGED <<twMu, genVars, closed, writerVars, writeGen, ctlVars>>

InService == current # NoGen /\ current \notin cancelled

\* No writer, or its context is cancelled: apply the write on this goroutine.
GoInline(s) ==
  /\ call[s] = "lock"
  /\ twMu = Free
  /\ ~InService
  /\ call' = [call EXCEPT ![s] = "inline"]
  /\ UNCHANGED <<twMu, genVars, closed, writerVars, writeGen, replied, applied,
                 writes, ctlVars>>

InlineDone(s) ==
  /\ call[s] = "inline"
  /\ applied' = [applied EXCEPT ![s] = @ + 1]
  /\ call' = [call EXCEPT ![s] = "ok"]
  /\ UNCHANGED <<twMu, genVars, closed, writerVars, writeGen, replied, writes, ctlVars>>

Send(s) ==
  /\ queue' = [queue EXCEPT ![current] = Append(@, s)]
  /\ call' = [call EXCEPT ![s] = "wait"]
  /\ writeGen' = [writeGen EXCEPT ![s] = current]
  /\ twMu' = Free
  /\ UNCHANGED <<genVars, closed, writer, applying, replied, applied, writes, ctlVars>>

\* Mutant: the cancelled context is not looked at before the send.
MutEnqueueIgnoresCancel(s) ==
  /\ call[s] = "lock"
  /\ twMu = Free
  /\ current # NoGen
  /\ Len(queue[current]) < QueueSize
  /\ Send(s)

Enqueue(s) ==
  /\ call[s] = "lock"
  /\ twMu = Free
  /\ InService
  /\ Len(queue[current]) < QueueSize
  /\ Send(s)

\* The channel is full: block on the send with twMu held ...
BlockOnFull(s) ==
  /\ call[s] = "lock"
  /\ twMu = Free
  /\ InService
  /\ Len(queue[current]) >= QueueSize
  /\ twMu' = s
  /\ call' = [call EXCEPT ![s] = "send"]
  /\ UNCHANGED <<genVars, closed, writerVars, writeGen, replied, applied, writes, ctlVars>>

\* ... until the writer makes room ...
Unblock(s) ==
  /\ call[s] = "send"
  /\ Len(queue[current]) < QueueSize
  /\ Send(s)

\* ... or the submit timeout fires: "traffic writer queue full".
SendTimeout(s) ==
  /\ call[s] = "send"
  /\ twMu' = Free
  /\ call' = [call EXCEPT ![s] = "full"]
  /\ UNCHANGED <<genVars, closed, writerVars, writeGen, replied, applied, writes, ctlVars>>

ReceiveReply(s) ==
  /\ call[s] = "wait"
  /\ s \in replied
  /\ call' = [call EXCEPT ![s] = "ok"]
  /\ UNCHANGED <<twMu, genVars, closed, writerVars, writeGen, replied, applied,
                 writes, ctlVars>>

\* Mutant: twDone wins the select and an answer in req.done is not looked for.
MutSeeClosedDropsReply(s) ==
  /\ call[s] = "wait"
  /\ writeGen[s] \in closed
  /\ call' = [call EXCEPT ![s] = "stopped"]
  /\ UNCHANGED <<twMu, genVars, closed, writerVars, writeGen, replied, applied,
                 writes, ctlVars>>

\* twDone is closed: take an answer if there is one, else report that the
\* writer "stopped before write completed".
SeeClosed(s) ==
  /\ call[s] = "wait"
  /\ writeGen[s] \in closed
  /\ call' = [call EXCEPT ![s] = IF s \in replied THEN "ok" ELSE "stopped"]
  /\ UNCHANGED <<twMu, genVars, closed, writerVars, writeGen, replied, applied,
                 writes, ctlVars>>

Return(s) ==
  /\ call[s] \in {"ok", "full", "stopped"}
  /\ call' = [call EXCEPT ![s] = "idle"]
  /\ UNCHANGED <<twMu, genVars, closed, writerVars, writeGen, replied, applied,
                 writes, ctlVars>>

-----------------------------------------------------------------------------
(***************************************************************************)
(* runTrafficWriter.                                                       *)
(***************************************************************************)
\* Receive a request; with a cancelled context either branch may be taken.
Take(g) ==
  /\ writer[g] \in {"poll", "drain"}
  /\ applying[g] = {}
  /\ queue[g] # <<>>
  /\ applying' = [applying EXCEPT ![g] = {Head(queue[g])}]
  /\ queue' = [queue EXCEPT ![g] = Tail(@)]
  /\ UNCHANGED <<twMu, genVars, closed, writer, callVars, ctlVars>>

\* The write returns, or its panic is recovered: answer on req.done.
ApplyDone(g) ==
  \E s \in applying[g] :
    /\ applying' = [applying EXCEPT ![g] = {}]
    /\ applied' = [applied EXCEPT ![s] = @ + 1]
    /\ replied' = replied \cup {s}
    /\ UNCHANGED <<twMu, genVars, closed, queue, writer, call, writeGen, writes, ctlVars>>

SeeCancel(g) ==
  /\ writer[g] = "poll"
  /\ applying[g] = {}
  /\ g \in cancelled
  /\ writer' = [writer EXCEPT ![g] = "drain"]
  /\ UNCHANGED <<twMu, genVars, closed, queue, applying, callVars, ctlVars>>

\* Mutant: the goroutine returns without closing twDone.
MutExitSilent(g) ==
  /\ writer[g] = "drain"
  /\ applying[g] = {}
  /\ queue[g] = <<>>
  /\ writer' = [writer EXCEPT ![g] = "dead"]
  /\ UNCHANGED <<twMu, genVars, closed, queue, applying, callVars, ctlVars>>

Exit(g) ==
  /\ writer[g] = "drain"
  /\ applying[g] = {}
  /\ queue[g] = <<>>
  /\ writer' = [writer EXCEPT ![g] = "dead"]
  /\ closed' = closed \cup {g}
  /\ UNCHANGED <<twMu, genVars, queue, applying, callVars, ctlVars>>

-----------------------------------------------------------------------------
(***************************************************************************)
(* StartTrafficWriter and StopTrafficWriter.                               *)
(***************************************************************************)
\* A writer that is in service or still draining makes the call a no-op.
Start(c) ==
  /\ ctl[c] = "idle"
  /\ twMu = Free
  /\ current = NoGen \/ current \in closed
  /\ started < MaxGen
  /\ started' = started + 1
  /\ current' = started'
  /\ writer' = [writer EXCEPT ![started'] = "poll"]
  /\ UNCHANGED <<twMu, cancelled, closed, queue, applying, callVars, ctlVars>>

Stop(c) ==
  /\ ctl[c] = "idle"
  /\ twMu = Free
  /\ current # NoGen
  /\ cancelled' = cancelled \cup {current}
  /\ ctl' = [ctl EXCEPT ![c] = "await"]
  /\ stopGen' = [stopGen EXCEPT ![c] = current]
  /\ UNCHANGED <<twMu, current, started, closed, writerVars, callVars>>

StopAwaited(c) ==
  /\ ctl[c] = "await"
  /\ stopGen[c] \in closed
  /\ ctl' = [ctl EXCEPT ![c] = "clear"]
  /\ UNCHANGED <<twMu, genVars, closed, writerVars, callVars, stopGen>>

StopClear(c) ==
  /\ ctl[c] = "clear"
  /\ twMu = Free
  /\ current' = IF current = stopGen[c] THEN NoGen ELSE current
  /\ ctl' = [ctl EXCEPT ![c] = "idle"]
  /\ UNCHANGED <<twMu, started, cancelled, closed, writerVars, callVars, stopGen>>

-----------------------------------------------------------------------------
LockStep(s) == GoInline(s) \/ Enqueue(s) \/ BlockOnFull(s)

CallStep(s) ==
  \/ InlineDone(s) \/ Unblock(s) \/ SendTimeout(s)
  \/ ReceiveReply(s) \/ SeeClosed(s) \/ Return(s)

WriterStep(g) == Take(g) \/ ApplyDone(g) \/ SeeCancel(g) \/ Exit(g)

Next ==
  \/ \E s \in Submitter : Submit(s) \/ LockStep(s) \/ CallStep(s)
  \/ \E g \in Gen : WriterStep(g)
  \/ \E c \in Controller : Start(c) \/ Stop(c) \/ StopAwaited(c) \/ StopClear(c)

Spec == Init /\ [][Next]_vars

(***************************************************************************)
(* Goroutines run; a write ends; sync.Mutex does not starve its waiters.   *)
(* Nothing makes anybody submit, start or stop.                            *)
(***************************************************************************)
Fairness ==
  /\ \A s \in Submitter : SF_vars(LockStep(s)) /\ WF_vars(CallStep(s))
  /\ \A g \in Gen : WF_vars(WriterStep(g))
  /\ \A c \in Controller : WF_vars(StopAwaited(c)) /\ SF_vars(StopClear(c))

FairSpec == Spec /\ Fairness

-----------------------------------------------------------------------------
(***************************************************************************)
(* Correctness.                                                            *)
(***************************************************************************)
\* Every variable stays in its type; the queue never exceeds its capacity.
TypeOK ==
  /\ twMu \in Submitter \cup {Free}
  /\ current \in 0..MaxGen /\ started \in 0..MaxGen
  /\ cancelled \subseteq Gen /\ closed \subseteq Gen
  /\ queue \in [Gen -> Seq(Submitter)]
  /\ \A g \in Gen : Len(queue[g]) <= QueueSize
  /\ writer \in [Gen -> {"none", "poll", "drain", "dead"}]
  /\ applying \in [Gen -> SUBSET Submitter]
  /\ call \in [Submitter -> {"idle", "lock", "inline", "send", "wait", "ok",
                             "full", "stopped"}]
  /\ writeGen \in [Submitter -> 0..MaxGen]
  /\ replied \subseteq Submitter
  /\ applied \in [Submitter -> Nat]
  /\ ctl \in [Controller -> {"idle", "await", "clear"}]
  /\ stopGen \in [Controller -> 0..MaxGen]
  /\ writes \in 0..MaxWrites

\* Nobody is ever told that the writer stopped before his write completed
\* (submitTrafficWrite's last branch): sends and cancellation exclude each
\* other through twMu, so the drain finds every request that was queued.
NoWriteAbandoned == \A s \in Submitter : call[s] # "stopped"

Live(g) == writer[g] \in {"poll", "drain"}

\* Start and Stop, from however many goroutines, never leave two writers
\* alive, and a writer that nobody cancelled is the one in the package
\* variables: no Stop clears the state of a writer it did not stop.
OneWriter ==
  \A g \in Gen : Live(g) =>
    /\ \A k \in Gen : Live(k) => k = g
    /\ g = current

\* Every submitTrafficWrite returns: through a Stop, through a Start after it,
\* and when the queue is full (the comment on StartTrafficWriter tells of the
\* deadlock an earlier version had); and StopTrafficWriter returns although
\* others keep submitting.
CallsReturn ==
  /\ \A s \in Submitter : (call[s] # "idle") ~> (call[s] = "idle")
  /\ \A c \in Controller : (ctl[c] # "idle") ~> (ctl[c] = "idle")

(***************************************************************************)
(* What submitTrafficWrite promises its caller is the specification        *)
(* WriteOnce: the write is applied once and then answered, or it is        *)
(* refused and not applied at all.                                         *)
(***************************************************************************)
Phase(s) ==
  CASE call[s] = "idle" -> "idle"
    [] call[s] = "ok" -> IF applied[s] = 1 THEN "ok" ELSE "wrong"
    [] call[s] \in {"full", "stopped"} -> IF applied[s] = 0 THEN "refused" ELSE "wrong"
    [] OTHER -> CASE applied[s] = 0 -> "asked"
                  [] applied[s] = 1 -> "applied"
                  [] OTHER -> "wrong"

Abstract == INSTANCE WriteOnce WITH Client <- Submitter,
                                    phase <- [s \in Submitter |-> Phase(s)]

\* Every behaviour of the writer is one of WriteOnce.
AppliedOnce == Abstract!Spec
=============================================================================
