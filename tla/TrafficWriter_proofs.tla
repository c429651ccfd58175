------------------------ MODULE TrafficWriter_proofs ------------------------
(***************************************************************************)
(* Theorems about TrafficWriter for every set of submitters and            *)
(* controllers, every queue size and all bounds.                           *)
(***************************************************************************)
EXTENDS TrafficWriter, TLAPS

\* The queue holds a request of s.
Queued(g, s) == \E i \in 1..Len(queue[g]) : queue[g][i] = s

\* A submitter that holds twMu blocks on the queue of a writer in service.
SendInv ==
  \A s \in Submitter : call[s] = "send" => twMu = s /\ InService

\* A closed twDone means that the writer has drained its queue and is gone.
ClosedInv ==
  \A g \in Gen :
    /\ g \in closed <=> writer[g] = "dead"
    /\ writer[g] = "dead" => g \in cancelled /\ queue[g] = <<>> /\ applying[g] = {}
    /\ writer[g] = "drain" => g \in cancelled
    /\ g > started => writer[g] = "none"

\* A submitter that waits is still going to be answered by its writer.
WaitInv ==
  \A s \in Submitter : call[s] = "wait" =>
    /\ writeGen[s] \in Gen
    /\ \/ s \in replied
       \/ s \in applying[writeGen[s]]
       \/ Queued(writeGen[s], s)

\* A Stop that has seen its writer end only clears the state of a dead writer.
StopInv == \A c \in Controller : ctl[c] = "clear" => stopGen[c] \in closed

LiveInv == \A g \in Gen : Live(g) => g = current

\* A writer applies one request at a time.
SoleInv == \A g \in Gen : \A s \in applying[g] : applying[g] = {s}

Inv == SoleInv /\ SendInv /\ ClosedInv /\ WaitInv /\ StopInv /\ LiveInv
       /\ NoWriteAbandoned

\* A send into a queue with room keeps the types.
LEMMA SendTyped ==
  ASSUME TypeOK, NEW s \in Submitter, Send(s), Len(queue[current]) < QueueSize
  PROVE  TypeOK'
<1> USE TrafficWriterAssumption
<1>1. ASSUME NEW g \in Gen
      PROVE  queue'[g] \in Seq(Submitter) /\ Len(queue'[g]) <= QueueSize
  <2>1. CASE g = current
    <3>1. queue'[g] = Append(queue[g], s)
      BY <2>1 DEF Send, TypeOK
    <3>2. queue[g] \in Seq(Submitter) /\ Len(queue[g]) < QueueSize
      BY <2>1 DEF TypeOK
    <3>3. QED
      BY <3>1, <3>2
  <2>2. CASE g # current
    BY <2>2 DEF Send, TypeOK
  <2>3. QED
    BY <2>1, <2>2
<1>2. queue' \in [Gen -> Seq(Submitter)]
  BY <1>1 DEF Send, TypeOK
<1>3. QED
  BY <1>1, <1>2 DEF Send, TypeOK, genVars, ctlVars

\* Every variable keeps its type and the queue its capacity, for every number
\* of submitters, controllers and restarts (traffic_writer.go:26-64).
THEOREM TypeCorrect == Spec => []TypeOK
<1> USE TrafficWriterAssumption
<1>1. Init => TypeOK
  BY DEF Init, TypeOK, Gen, NoGen
<1>2. TypeOK /\ [Next]_vars => TypeOK'
  <2> SUFFICES ASSUME TypeOK, [Next]_vars PROVE TypeOK'
    OBVIOUS
  <2> USE DEF TypeOK, genVars, writerVars, callVars, ctlVars
  <2>1. ASSUME NEW s \in Submitter, Submit(s) PROVE TypeOK'
    BY <2>1 DEF Submit
  <2>2. ASSUME NEW s \in Submitter, GoInline(s) PROVE TypeOK'
    BY <2>2 DEF GoInline
  <2>3. ASSUME NEW s \in Submitter, InlineDone(s) PROVE TypeOK'
    BY <2>3 DEF InlineDone
  <2>4. ASSUME NEW s \in Submitter, Enqueue(s) PROVE TypeOK'
    BY <2>4, SendTyped DEF Enqueue
  <2>5. ASSUME NEW s \in Submitter, BlockOnFull(s) PROVE TypeOK'
    BY <2>5 DEF BlockOnFull
  <2>6. ASSUME NEW s \in Submitter, Unblock(s) PROVE TypeOK'
    BY <2>6, SendTyped DEF Unblock
  <2>7. ASSUME NEW s \in Submitter, SendTimeout(s) PROVE TypeOK'
    BY <2>7 DEF SendTimeout
  <2>8. ASSUME NEW s \in Submitter, ReceiveReply(s) PROVE TypeOK'
    BY <2>8 DEF ReceiveReply
  <2>9. ASSUME NEW s \in Submitter, SeeClosed(s) PROVE TypeOK'
    BY <2>9 DEF SeeClosed
  <2>10. ASSUME NEW s \in Submitter, Return(s) PROVE TypeOK'
    BY <2>10 DEF Return
  <2>11. ASSUME NEW g \in Gen, Take(g) PROVE TypeOK'
    <3>1. queue[g] \in Seq(Submitter) /\ queue[g] # <<>>
      BY <2>11 DEF Take
    <3>2. /\ Head(queue[g]) \in Submitter /\ Tail(queue[g]) \in Seq(Submitter)
          /\ Len(Tail(queue[g])) <= QueueSize
      BY <3>1
    <3>3. /\ applying' \in [Gen -> SUBSET Submitter]
          /\ queue' \in [Gen -> Seq(Submitter)]
          /\ \A h \in Gen : Len(queue'[h]) <= QueueSize
      BY <2>11, <3>2 DEF Take
    <3>4. QED
      BY <2>11, <3>3 DEF Take
  <2>12. ASSUME NEW g \in Gen, ApplyDone(g) PROVE TypeOK'
    BY <2>12 DEF ApplyDone
  <2>13. ASSUME NEW g \in Gen, SeeCancel(g) PROVE TypeOK'
    BY <2>13 DEF SeeCancel
  <2>14. ASSUME NEW g \in Gen, Exit(g) PROVE TypeOK'
    BY <2>14 DEF Exit
  <2>15. ASSUME NEW c \in Controller, Start(c) PROVE TypeOK'
    <3>1. started' \in 0..MaxGen /\ current' \in 0..MaxGen
      BY <2>15 DEF Start
    <3>2. QED
      BY <2>15, <3>1 DEF Start
  <2>16. ASSUME NEW c \in Controller, Stop(c) PROVE TypeOK'
    <3>1. current \in Gen
      BY <2>16 DEF Stop, Gen, NoGen
    <3>2. QED
      BY <2>16, <3>1 DEF Stop
  <2>17. ASSUME NEW c \in Controller, StopAwaited(c) PROVE TypeOK'
    BY <2>17 DEF StopAwaited
  <2>18. ASSUME NEW c \in Controller, StopClear(c) PROVE TypeOK'
    BY <2>18 DEF StopClear, NoGen
  <2>19. CASE UNCHANGED vars
    BY <2>19 DEF vars
  <2>20. QED
    BY <2>1, <2>2, <2>3, <2>4, <2>5, <2>6, <2>7, <2>8, <2>9, <2>10, <2>11,
       <2>12, <2>13, <2>14, <2>15, <2>16, <2>17, <2>18, <2>19
       DEF Next, LockStep, CallStep, WriterStep
<1>3. QED
  BY <1>1, <1>2, PTL DEF Spec

-----------------------------------------------------------------------------
\* A request that is sent is queued, and the queue of a dead writer stays empty.
LEMMA SendStep ==
  ASSUME TypeOK, Inv, InService, NEW s \in Submitter, Send(s)
  PROVE  ClosedInv' /\ WaitInv'
<1>1. current \in Gen /\ current \notin cancelled
  BY DEF TypeOK, InService, Gen, NoGen
<1>2. writer[current] # "dead"
  BY <1>1 DEF Inv, ClosedInv
<1>3. /\ queue' = [queue EXCEPT ![current] = Append(@, s)]
      /\ call' = [call EXCEPT ![s] = "wait"]
      /\ writeGen' = [writeGen EXCEPT ![s] = current]
      /\ UNCHANGED <<started, cancelled, closed, writer, applying, replied>>
  BY DEF Send, genVars
<1>4. ClosedInv'
  BY <1>1, <1>2, <1>3 DEF TypeOK, Inv, ClosedInv
<1>5. ASSUME NEW g \in Gen, NEW t \in Submitter, Queued(g, t) PROVE Queued(g, t)'
  <2>1. CASE g = current
    <3>1. queue'[g] = Append(queue[g], s) /\ queue[g] \in Seq(Submitter)
      BY <2>1, <1>3 DEF TypeOK
    <3>2. QED
      BY <3>1, <1>5 DEF Queued
  <2>2. CASE g # current
    BY <2>2, <1>3, <1>5 DEF TypeOK, Queued
  <2>3. QED
    BY <2>1, <2>2
<1>6. Queued(current, s)'
  <2>1. queue'[current] = Append(queue[current], s) /\ queue[current] \in Seq(Submitter)
    BY <1>1, <1>3 DEF TypeOK
  <2>2. Len(queue'[current]) \in 1..Len(queue'[current])
        /\ queue'[current][Len(queue'[current])] = s
    BY <2>1
  <2>3. current' = current
    BY DEF Send, genVars
  <2>4. QED
    BY <2>2, <2>3 DEF Queued
<1>7. WaitInv'
  <2> SUFFICES ASSUME NEW t \in Submitter, call'[t] = "wait"
               PROVE  /\ writeGen'[t] \in Gen
                      /\ \/ t \in replied'
                         \/ t \in applying'[writeGen'[t]]
                         \/ \E i \in 1..Len(queue'[writeGen'[t]]) : queue'[writeGen'[t]][i] = t
    BY DEF WaitInv, Queued
  <2>1. CASE t = s
    <3>1. writeGen'[t] = current /\ current' = current
      BY <2>1, <1>3 DEF TypeOK, Send, genVars
    <3>2. QED
      BY <2>1, <3>1, <1>1, <1>6 DEF Queued
  <2>2. CASE t # s
    <3>1. call[t] = "wait" /\ writeGen'[t] = writeGen[t]
      BY <2>2, <1>3 DEF TypeOK
    <3>2. writeGen[t] \in Gen
      BY <3>1 DEF Inv, WaitInv
    <3>3. CASE Queued(writeGen[t], t)
      <4>1. Queued(writeGen[t], t)'
        BY <3>2, <3>3, <1>5, <1>3, <3>1 DEF Queued
      <4>2. QED
        BY <4>1, <3>1, <3>2 DEF Queued
    <3>4. QED
      BY <3>1, <3>2, <3>3, <1>3 DEF Inv, WaitInv
  <2>3. QED
    BY <2>1, <2>2
<1>8. QED
  BY <1>4, <1>7

\* A request that is taken off the queue is the one that is applied.
LEMMA TakeStep ==
  ASSUME TypeOK, Inv, NEW g \in Gen, Take(g)
  PROVE  WaitInv'
<1>1. /\ applying' = [applying EXCEPT ![g] = {Head(queue[g])}]
      /\ applying[g] = {}
      /\ queue' = [queue EXCEPT ![g] = Tail(@)]
      /\ queue[g] # <<>> /\ queue[g] \in Seq(Submitter)
      /\ UNCHANGED <<call, writeGen, replied>>
  BY DEF Take, TypeOK, callVars
<1>2. SUFFICES ASSUME NEW s \in Submitter, call[s] = "wait"
               PROVE  /\ writeGen[s] \in Gen
                      /\ \/ s \in replied
                         \/ s \in applying'[writeGen[s]]
                         \/ \E i \in 1..Len(queue'[writeGen[s]]) : queue'[writeGen[s]][i] = s
  BY <1>1 DEF WaitInv, Queued
<1>3. writeGen[s] \in Gen
  BY <1>2 DEF Inv, WaitInv
<1>4. CASE writeGen[s] = g /\ Queued(g, s)
  <2>1. PICK i \in 1..Len(queue[g]) : queue[g][i] = s
    BY <1>4 DEF Queued
  <2>2. CASE i = 1
    BY <2>1, <2>2, <1>1, <1>4 DEF TypeOK
  <2>3. CASE i # 1
    <3>1. queue'[g] = Tail(queue[g])
      BY <1>1 DEF TypeOK
    <3>2. i - 1 \in 1..Len(queue'[g]) /\ queue'[g][i - 1] = s
      BY <2>1, <2>3, <3>1, <1>1
    <3>3. QED
      BY <3>2, <1>3, <1>4
  <2>4. QED
    BY <2>2, <2>3
<1>5. CASE writeGen[s] # g
  BY <1>1, <1>2, <1>3, <1>5 DEF TypeOK, Inv, WaitInv, Queued
<1>6. QED
  BY <1>1, <1>2, <1>3, <1>4, <1>5 DEF Inv, WaitInv

\* Every step keeps the invariant.
LEMMA InvStep == TypeOK /\ Inv /\ [Next]_vars => Inv'
<1> SUFFICES ASSUME TypeOK, Inv, [Next]_vars PROVE Inv'
  OBVIOUS
<1> USE DEF Inv, TypeOK, genVars, writerVars, callVars, ctlVars
<1>1. ASSUME NEW s \in Submitter, Submit(s) PROVE Inv'
  <2>1. SoleInv' /\ SendInv' /\ StopInv'
    BY <1>1 DEF Submit, SoleInv, SendInv, InService, StopInv
  <2>2. ClosedInv' /\ LiveInv'
    BY <1>1 DEF Submit, ClosedInv, InService, LiveInv, Live
  <2>3. WaitInv' /\ NoWriteAbandoned'
    BY <1>1 DEF Submit, WaitInv, Queued, NoWriteAbandoned
  <2>4. QED
    BY <2>1, <2>2, <2>3
<1>2. ASSUME NEW s \in Submitter, GoInline(s) PROVE Inv'
  <2>1. SoleInv' /\ SendInv' /\ StopInv'
    BY <1>2 DEF GoInline, SoleInv, SendInv, InService, StopInv
  <2>2. ClosedInv' /\ LiveInv'
    BY <1>2 DEF GoInline, ClosedInv, InService, LiveInv, Live
  <2>3. WaitInv' /\ NoWriteAbandoned'
    BY <1>2 DEF GoInline, WaitInv, Queued, NoWriteAbandoned
  <2>4. QED
    BY <2>1, <2>2, <2>3
<1>3. ASSUME NEW s \in Submitter, InlineDone(s) PROVE Inv'
  <2>1. SoleInv' /\ SendInv' /\ StopInv'
    BY <1>3 DEF InlineDone, SoleInv, SendInv, InService, StopInv
  <2>2. ClosedInv' /\ LiveInv'
    BY <1>3 DEF InlineDone, ClosedInv, InService, LiveInv, Live
  <2>3. WaitInv' /\ NoWriteAbandoned'
    BY <1>3 DEF InlineDone, WaitInv, Queued, NoWriteAbandoned
  <2>4. QED
    BY <2>1, <2>2, <2>3
<1>4. ASSUME NEW s \in Submitter, Enqueue(s) PROVE Inv'
  <2>1. SoleInv' /\ SendInv' /\ StopInv'
    BY <1>4 DEF Enqueue, Send, SoleInv, SendInv, InService, StopInv
  <2>2. LiveInv'
    BY <1>4 DEF Enqueue, Send, LiveInv, Live
  <2>3. NoWriteAbandoned'
    BY <1>4 DEF Enqueue, Send, NoWriteAbandoned
  <2>4. ClosedInv'
    BY <1>4, SendStep DEF Enqueue
  <2>5. WaitInv'
    BY <1>4, SendStep DEF Enqueue
  <2>6. QED
    BY <2>1, <2>2, <2>3, <2>4, <2>5
<1>5. ASSUME NEW s \in Submitter, BlockOnFull(s) PROVE Inv'
  <2>1. SoleInv' /\ SendInv' /\ StopInv'
    BY <1>5, TrafficWriterAssumption DEF BlockOnFull, SoleInv, SendInv, InService, StopInv
  <2>2. ClosedInv' /\ LiveInv'
    BY <1>5 DEF BlockOnFull, ClosedInv, InService, LiveInv, Live
  <2>3. WaitInv' /\ NoWriteAbandoned'
    BY <1>5 DEF BlockOnFull, WaitInv, Queued, NoWriteAbandoned
  <2>4. QED
    BY <2>1, <2>2, <2>3
<1>6. ASSUME NEW s \in Submitter, Unblock(s) PROVE Inv'
  <2>1. SoleInv' /\ SendInv' /\ StopInv'
    BY <1>6 DEF Unblock, Send, SoleInv, SendInv, InService, StopInv
  <2>2. LiveInv'
    BY <1>6 DEF Unblock, Send, LiveInv, Live
  <2>3. NoWriteAbandoned'
    BY <1>6 DEF Unblock, Send, NoWriteAbandoned
  <2>4. ClosedInv'
    BY <1>6, SendStep DEF Unblock, SendInv
  <2>5. WaitInv'
    BY <1>6, SendStep DEF Unblock, SendInv
  <2>6. QED
    BY <2>1, <2>2, <2>3, <2>4, <2>5
<1>7. ASSUME NEW s \in Submitter, SendTimeout(s) PROVE Inv'
  <2>1. SoleInv' /\ SendInv' /\ StopInv'
    BY <1>7 DEF SendTimeout, SoleInv, SendInv, InService, StopInv
  <2>2. ClosedInv' /\ LiveInv'
    BY <1>7 DEF SendTimeout, ClosedInv, InService, LiveInv, Live
  <2>3. WaitInv' /\ NoWriteAbandoned'
    BY <1>7 DEF SendTimeout, WaitInv, Queued, NoWriteAbandoned
  <2>4. QED
    BY <2>1, <2>2, <2>3
<1>8. ASSUME NEW s \in Submitter, ReceiveReply(s) PROVE Inv'
  <2>1. SoleInv' /\ SendInv' /\ StopInv'
    BY <1>8 DEF ReceiveReply, SoleInv, SendInv, InService, StopInv
  <2>2. ClosedInv' /\ LiveInv'
    BY <1>8 DEF ReceiveReply, ClosedInv, InService, LiveInv, Live
  <2>3. WaitInv' /\ NoWriteAbandoned'
    BY <1>8 DEF ReceiveReply, WaitInv, Queued, NoWriteAbandoned
  <2>4. QED
    BY <2>1, <2>2, <2>3
<1>9. ASSUME NEW s \in Submitter, SeeClosed(s) PROVE Inv'
  <2>1. SoleInv' /\ SendInv' /\ StopInv'
    BY <1>9 DEF SeeClosed, SoleInv, SendInv, InService, StopInv
  <2>2. ClosedInv' /\ LiveInv'
    BY <1>9 DEF SeeClosed, ClosedInv, InService, LiveInv, Live
  <2>3. WaitInv'
    BY <1>9 DEF SeeClosed, WaitInv, Queued
  <2>4. NoWriteAbandoned'
    <3>1. CASE s \in replied
      BY <1>9, <3>1 DEF SeeClosed, NoWriteAbandoned
    <3>2. writeGen[s] \in Gen /\ queue[writeGen[s]] = <<>> /\ applying[writeGen[s]] = {}
      BY <1>9 DEF SeeClosed, ClosedInv
    <3>3. ~Queued(writeGen[s], s)
      BY <3>2 DEF Queued
    <3>4. QED
      BY <1>9, <3>1, <3>2, <3>3 DEF SeeClosed, WaitInv
  <2>5. QED
    BY <2>1, <2>2, <2>3, <2>4
<1>10. ASSUME NEW s \in Submitter, Return(s) PROVE Inv'
  <2>1. SoleInv' /\ SendInv' /\ StopInv'
    BY <1>10 DEF Return, SoleInv, SendInv, InService, StopInv
  <2>2. ClosedInv' /\ LiveInv'
    BY <1>10 DEF Return, ClosedInv, InService, LiveInv, Live
  <2>3. WaitInv' /\ NoWriteAbandoned'
    BY <1>10 DEF Return, WaitInv, Queued, NoWriteAbandoned
  <2>4. QED
    BY <2>1, <2>2, <2>3
<1>11. ASSUME NEW g \in Gen, Take(g) PROVE Inv'
  <2>1. SoleInv' /\ SendInv' /\ StopInv'
    BY <1>11 DEF Take, SoleInv, SendInv, InService, StopInv
  <2>2. ClosedInv' /\ LiveInv'
    BY <1>11 DEF Take, ClosedInv, InService, LiveInv, Live
  <2>3. NoWriteAbandoned'
    BY <1>11 DEF Take, NoWriteAbandoned
  <2>4. WaitInv'
    BY <1>11, TakeStep
  <2>5. QED
    BY <2>1, <2>2, <2>3, <2>4
<1>12. ASSUME NEW g \in Gen, ApplyDone(g) PROVE Inv'
  <2>1. SoleInv' /\ SendInv' /\ StopInv'
    BY <1>12 DEF ApplyDone, SoleInv, SendInv, InService, StopInv
  <2>2. ClosedInv' /\ LiveInv'
    BY <1>12 DEF ApplyDone, ClosedInv, InService, LiveInv, Live
  <2>3. NoWriteAbandoned'
    BY <1>12 DEF ApplyDone, NoWriteAbandoned
  <2>4. WaitInv'
    <3>1. PICK s \in applying[g] : applying' = [applying EXCEPT ![g] = {}]
                                /\ replied' = replied \cup {s}
      BY <1>12 DEF ApplyDone
    <3>2. applying[g] = {s}
      BY <3>1 DEF SoleInv
    <3>3. UNCHANGED <<call, writeGen, queue>>
      BY <1>12 DEF ApplyDone
    <3>4. QED
      BY <3>1, <3>2, <3>3 DEF WaitInv, Queued
  <2>5. QED
    BY <2>1, <2>2, <2>3, <2>4
<1>13. ASSUME NEW g \in Gen, SeeCancel(g) PROVE Inv'
  <2>1. SoleInv' /\ SendInv' /\ StopInv'
    BY <1>13 DEF SeeCancel, SoleInv, SendInv, InService, StopInv
  <2>2. ClosedInv' /\ LiveInv'
    BY <1>13 DEF SeeCancel, ClosedInv, InService, LiveInv, Live
  <2>3. WaitInv' /\ NoWriteAbandoned'
    BY <1>13 DEF SeeCancel, WaitInv, Queued, NoWriteAbandoned
  <2>4. QED
    BY <2>1, <2>2, <2>3
<1>14. ASSUME NEW g \in Gen, Exit(g) PROVE Inv'
  <2>1. SoleInv' /\ SendInv' /\ StopInv'
    BY <1>14 DEF Exit, SoleInv, SendInv, InService, StopInv
  <2>2. ClosedInv' /\ LiveInv'
    BY <1>14 DEF Exit, ClosedInv, InService, LiveInv, Live
  <2>3. WaitInv' /\ NoWriteAbandoned'
    BY <1>14 DEF Exit, WaitInv, Queued, NoWriteAbandoned
  <2>4. QED
    BY <2>1, <2>2, <2>3
<1>15. ASSUME NEW c \in Controller, Start(c) PROVE Inv'
  <2>1. SoleInv' /\ SendInv' /\ StopInv'
    BY <1>15, TrafficWriterAssumption DEF Start, SoleInv, SendInv, InService, StopInv
  <2>2. WaitInv' /\ NoWriteAbandoned'
    BY <1>15 DEF Start, WaitInv, Queued, NoWriteAbandoned
  <2>3. ClosedInv'
    <3>1. /\ started' = started + 1 /\ started' \in Gen
          /\ writer' = [writer EXCEPT ![started'] = "poll"]
          /\ UNCHANGED <<closed, cancelled, queue, applying>>
      BY <1>15, TrafficWriterAssumption DEF Start, Gen
    <3>2. writer[started'] = "none" /\ started' \notin closed
      BY <3>1 DEF ClosedInv
    <3>3. QED
      BY <3>1, <3>2 DEF ClosedInv, Gen
  <2>4. LiveInv'
    <3>1. \A g \in Gen : ~Live(g)
      BY <1>15 DEF Start, LiveInv, Live, ClosedInv, Gen, NoGen
    <3>2. started' \in Gen /\ current' = started'
          /\ writer' = [writer EXCEPT ![started'] = "poll"]
      BY <1>15, TrafficWriterAssumption DEF Start, Gen
    <3>3. QED
      BY <3>1, <3>2 DEF LiveInv, Live
  <2>5. QED
    BY <2>1, <2>2, <2>3, <2>4
<1>16. ASSUME NEW c \in Controller, Stop(c) PROVE Inv'
  <2>1. SoleInv' /\ SendInv' /\ StopInv'
    BY <1>16, TrafficWriterAssumption DEF Stop, SoleInv, SendInv, InService, StopInv
  <2>2. ClosedInv' /\ LiveInv'
    BY <1>16 DEF Stop, ClosedInv, InService, LiveInv, Live
  <2>3. WaitInv' /\ NoWriteAbandoned'
    BY <1>16 DEF Stop, WaitInv, Queued, NoWriteAbandoned
  <2>4. QED
    BY <2>1, <2>2, <2>3
<1>17. ASSUME NEW c \in Controller, StopAwaited(c) PROVE Inv'
  <2>1. SoleInv' /\ SendInv' /\ StopInv'
    BY <1>17 DEF StopAwaited, SoleInv, SendInv, InService, StopInv
  <2>2. ClosedInv' /\ LiveInv'
    BY <1>17 DEF StopAwaited, ClosedInv, InService, LiveInv, Live
  <2>3. WaitInv' /\ NoWriteAbandoned'
    BY <1>17 DEF StopAwaited, WaitInv, Queued, NoWriteAbandoned
  <2>4. QED
    BY <2>1, <2>2, <2>3
<1>18. ASSUME NEW c \in Controller, StopClear(c) PROVE Inv'
  <2>1. SoleInv' /\ SendInv' /\ StopInv'
    BY <1>18, TrafficWriterAssumption DEF StopClear, SoleInv, SendInv, InService, StopInv
  <2>2. ClosedInv'
    BY <1>18 DEF StopClear, ClosedInv, InService
  <2>3. WaitInv' /\ NoWriteAbandoned'
    BY <1>18 DEF StopClear, WaitInv, Queued, NoWriteAbandoned
  <2>4. LiveInv'
    <3>1. stopGen[c] \in Gen /\ writer[stopGen[c]] = "dead"
      BY <1>18 DEF StopClear, StopInv, ClosedInv
    <3>2. QED
      BY <1>18, <3>1 DEF StopClear, LiveInv, Live
  <2>5. QED
    BY <2>1, <2>2, <2>3, <2>4
<1>19. CASE UNCHANGED vars
  BY <1>19 DEF vars, SoleInv, SendInv, InService, ClosedInv, WaitInv, Queued, StopInv,
     LiveInv, Live, NoWriteAbandoned
<1>20. QED
  BY <1>1, <1>2, <1>3, <1>4, <1>5, <1>6, <1>7, <1>8, <1>9, <1>10,
     <1>11, <1>12, <1>13, <1>14, <1>15, <1>16, <1>17, <1>18, <1>19
     DEF Next, LockStep, CallStep, WriterStep

\* The invariant holds in every behaviour.
LEMMA Invariance == Spec => []Inv
<1>1. Init => Inv
  BY DEF Init, Inv, SoleInv, SendInv, ClosedInv, WaitInv, StopInv, LiveInv, Live,
         NoWriteAbandoned, Gen
<1>2. QED
  BY <1>1, InvStep, TypeCorrect, PTL DEF Spec

\* No submitter is told that the writer stopped before his write completed:
\* sending and cancelling exclude each other through twMu (traffic_writer.go:145-182).
THEOREM WritesNotAbandoned == Spec => []NoWriteAbandoned
<1>1. Inv => NoWriteAbandoned
  BY DEF Inv
<1>2. QED
  BY <1>1, Invariance, PTL

\* However many goroutines start and stop it, there is one writer at most, and
\* one that was not cancelled is never forgotten (traffic_writer.go:41-87).
THEOREM OneWriterAlways == Spec => []OneWriter
<1>1. Inv => OneWriter
  BY DEF Inv, LiveInv, OneWriter
<1>2. QED
  BY <1>1, Invariance, PTL

-----------------------------------------------------------------------------
(* The writer implements WriteOnce.                                        *)

\* The write of s waits for its writer: it is not answered yet.
Owed(s) == call[s] = "wait" /\ s \notin replied

\* What is queued or being applied is owed to its submitter ...
OwedInv ==
  \A g \in Gen :
    /\ \A i \in 1..Len(queue[g]) : Owed(queue[g][i])
    /\ \A s \in applying[g] : Owed(s)

\* ... and is in one place only, over all the writers there ever were.
OnceInv ==
  \A g, h \in Gen :
    /\ \A i \in 1..Len(queue[g]), j \in 1..Len(queue[h]) :
         queue[g][i] = queue[h][j] => g = h /\ i = j
    /\ \A s \in applying[g] :
         /\ \A i \in 1..Len(queue[h]) : queue[h][i] # s
         /\ s \in applying[h] => g = h

\* How often a write was applied follows from how far its call has come.
CountInv ==
  \A s \in Submitter :
    /\ call[s] \in {"lock", "send", "inline"} => applied[s] = 0 /\ s \notin replied
    /\ call[s] = "full" => applied[s] = 0
    /\ call[s] = "wait" => applied[s] = IF s \in replied THEN 1 ELSE 0
    /\ call[s] = "ok" => applied[s] = 1

AnswerInv == OwedInv /\ OnceInv /\ CountInv

\* A step that leaves the queues alone, and every debt, keeps what is owed.
LEMMA DebtsKept ==
  ASSUME TypeOK, OwedInv, OnceInv, UNCHANGED <<queue, applying>>,
         \A t \in Submitter : Owed(t) => Owed(t)'
  PROVE  OwedInv' /\ OnceInv'
<1>1. OwedInv'
  <2> SUFFICES ASSUME NEW g \in Gen
               PROVE  /\ \A i \in 1..Len(queue[g]) : Owed(queue[g][i])'
                      /\ \A s \in applying[g] : Owed(s)'
    BY DEF OwedInv
  <2>1. queue[g] \in Seq(Submitter) /\ applying[g] \subseteq Submitter
    BY DEF TypeOK
  <2>2. ASSUME NEW i \in 1..Len(queue[g]) PROVE Owed(queue[g][i])'
    <3>1. queue[g][i] \in Submitter /\ Owed(queue[g][i])
      BY <2>1 DEF OwedInv
    <3>2. QED
      BY <3>1
  <2>3. ASSUME NEW s \in applying[g] PROVE Owed(s)'
    BY <2>1 DEF OwedInv
  <2>4. QED
    BY <2>2, <2>3
<1>2. OnceInv'
  BY DEF OnceInv
<1>3. QED
  BY <1>1, <1>2

\* The step of one call that owes nothing before it.
LEMMA CallerStep ==
  ASSUME TypeOK, AnswerInv, NEW s \in Submitter, ~Owed(s), UNCHANGED <<queue, applying>>,
         \A t \in Submitter \ {s} : call'[t] = call[t] /\ (t \in replied' <=> t \in replied)
  PROVE  OwedInv' /\ OnceInv'
<1>1. \A t \in Submitter : Owed(t) => Owed(t)'
  BY DEF Owed
<1>2. QED
  BY <1>1, DebtsKept DEF AnswerInv

\* A request that is sent is in no other place.
LEMMA SendOnce ==
  ASSUME TypeOK, AnswerInv, InService, NEW s \in Submitter, call[s] \in {"lock", "send"}, Send(s)
  PROVE  AnswerInv'
<1>1. current \in Gen
  BY DEF TypeOK, InService, Gen, NoGen
<1>2. /\ queue' = [queue EXCEPT ![current] = Append(queue[current], s)]
      /\ call' = [call EXCEPT ![s] = "wait"]
      /\ UNCHANGED <<applying, replied, applied>>
      /\ s \notin replied /\ applied[s] = 0
  BY DEF Send, AnswerInv, CountInv
<1>3. ~Owed(s) /\ Owed(s)' /\ \A t \in Submitter : Owed(t) => Owed(t)'
  BY <1>2 DEF Owed, TypeOK
<1>4. ASSUME NEW g \in Gen, NEW i \in 1..Len(queue'[g])
      PROVE  \/ i \in 1..Len(queue[g]) /\ queue'[g][i] = queue[g][i]
             \/ g = current /\ i = Len(queue[g]) + 1 /\ queue'[g][i] = s
  <2>1. CASE g = current
    <3>1. queue'[g] = Append(queue[g], s) /\ queue[g] \in Seq(Submitter)
      BY <2>1, <1>2 DEF TypeOK
    <3>2. QED
      BY <2>1, <3>1
  <2>2. CASE g # current
    BY <2>2, <1>2 DEF TypeOK
  <2>3. QED
    BY <2>1, <2>2
<1>5. ASSUME NEW g \in Gen, NEW i \in 1..Len(queue[g])
      PROVE  queue[g][i] \in Submitter /\ Owed(queue[g][i]) /\ queue[g][i] # s
  <2>1. queue[g] \in Seq(Submitter)
    BY DEF TypeOK
  <2>2. queue[g][i] \in Submitter /\ Owed(queue[g][i])
    BY <2>1 DEF AnswerInv, OwedInv
  <2>3. QED
    BY <2>2, <1>3
<1>6. ASSUME NEW g \in Gen, NEW t \in applying[g]
      PROVE  t \in Submitter /\ Owed(t) /\ t # s
  <2>1. t \in Submitter /\ Owed(t)
    BY DEF AnswerInv, OwedInv, TypeOK
  <2>2. QED
    BY <2>1, <1>3
<1>7. OwedInv'
  <2>1. ASSUME NEW g \in Gen, NEW i \in 1..Len(queue'[g])
        PROVE  call'[queue'[g][i]] = "wait" /\ queue'[g][i] \notin replied'
    <3>1. CASE i \in 1..Len(queue[g]) /\ queue'[g][i] = queue[g][i]
      <4>1. queue[g][i] \in Submitter /\ Owed(queue[g][i]) /\ queue[g][i] # s
        BY <3>1, <1>5
      <4>2. QED
        BY <3>1, <4>1, <1>2 DEF Owed, TypeOK
    <3>2. CASE queue'[g][i] = s
      BY <3>2, <1>2 DEF TypeOK
    <3>3. QED
      BY <3>1, <3>2, <1>4
  <2>2. ASSUME NEW g \in Gen, NEW t \in applying'[g] PROVE Owed(t)'
    BY <1>2, <1>3, <1>6
  <2>3. QED
    BY <2>1, <2>2 DEF OwedInv, Owed
<1>8. OnceInv'
  <2>1. ASSUME NEW g \in Gen, NEW h \in Gen, NEW i \in 1..Len(queue'[g]),
               NEW j \in 1..Len(queue'[h]), queue'[g][i] = queue'[h][j]
        PROVE  g = h /\ i = j
    <3>1. CASE queue'[g][i] = s
      <4>1. g = current /\ i = Len(queue[g]) + 1
        BY <3>1, <1>4, <1>5
      <4>2. h = current /\ j = Len(queue[h]) + 1
        BY <2>1, <3>1, <1>4, <1>5
      <4>3. QED
        BY <4>1, <4>2
    <3>2. CASE queue'[g][i] # s
      <4>1. i \in 1..Len(queue[g]) /\ j \in 1..Len(queue[h]) /\ queue[g][i] = queue[h][j]
        BY <2>1, <3>2, <1>4
      <4>2. QED
        BY <4>1 DEF AnswerInv, OnceInv
    <3>3. QED
      BY <3>1, <3>2
  <2>2. ASSUME NEW g \in Gen, NEW h \in Gen, NEW t \in applying'[g]
        PROVE  /\ \A i \in 1..Len(queue'[h]) : queue'[h][i] # t
               /\ t \in applying'[h] => g = h
    BY <1>2, <1>4, <1>6 DEF AnswerInv, OnceInv
  <2>3. QED
    BY <2>1, <2>2 DEF OnceInv
<1>9. CountInv'
  BY <1>2 DEF AnswerInv, CountInv, TypeOK
<1>10. QED
  BY <1>7, <1>8, <1>9 DEF AnswerInv

\* A request that is taken leaves the queue.
LEMMA TakeOnce ==
  ASSUME TypeOK, AnswerInv, NEW g \in Gen, Take(g)
  PROVE  AnswerInv'
<1>1. /\ applying' = [applying EXCEPT ![g] = {Head(queue[g])}]
      /\ applying[g] = {}
      /\ queue' = [queue EXCEPT ![g] = Tail(queue[g])]
      /\ queue[g] # <<>> /\ queue[g] \in Seq(Submitter)
      /\ UNCHANGED <<call, replied, applied>>
  BY DEF Take, TypeOK, callVars
<1>2. 1 \in 1..Len(queue[g]) /\ Head(queue[g]) = queue[g][1]
  BY <1>1
<1>3. ASSUME NEW h \in Gen, NEW i \in 1..Len(queue'[h])
      PROVE  \/ h # g /\ i \in 1..Len(queue[h]) /\ queue'[h][i] = queue[h][i]
             \/ h = g /\ i + 1 \in 1..Len(queue[h]) /\ queue'[h][i] = queue[h][i + 1]
  <2>1. CASE h = g
    <3>1. queue'[h] = Tail(queue[h]) /\ queue[h] \in Seq(Submitter) /\ queue[h] # <<>>
      BY <2>1, <1>1 DEF TypeOK
    <3>2. Len(queue'[h]) = Len(queue[h]) - 1 /\ i \in 1..(Len(queue[h]) - 1)
      BY <3>1, <1>3
    <3>3. queue'[h][i] = queue[h][i + 1] /\ i + 1 \in 1..Len(queue[h])
      BY <3>1, <3>2
    <3>4. QED
      BY <2>1, <3>3
  <2>2. CASE h # g
    <3>1. queue'[h] = queue[h]
      BY <2>2, <1>1 DEF TypeOK
    <3>2. QED
      BY <2>2, <3>1, <1>3
  <2>3. QED
    BY <2>1, <2>2
<1>4. ASSUME NEW h \in Gen, NEW t \in applying'[h]
      PROVE  \/ h # g /\ t \in applying[h]
             \/ h = g /\ t = queue[g][1]
  <2>1. CASE h = g
    <3>1. applying'[h] = {Head(queue[g])}
      BY <2>1, <1>1 DEF TypeOK
    <3>2. QED
      BY <2>1, <3>1, <1>2, <1>4
  <2>2. CASE h # g
    <3>1. applying'[h] = applying[h]
      BY <2>2, <1>1 DEF TypeOK
    <3>2. QED
      BY <2>2, <3>1, <1>4
  <2>3. QED
    BY <2>1, <2>2
<1>5. OwedInv'
  <2>1. ASSUME NEW h \in Gen, NEW i \in 1..Len(queue'[h]) PROVE Owed(queue'[h][i])
    BY <1>3 DEF AnswerInv, OwedInv
  <2>2. ASSUME NEW h \in Gen, NEW t \in applying'[h] PROVE Owed(t)
    BY <1>2, <1>4 DEF AnswerInv, OwedInv
  <2>3. QED
    BY <2>1, <2>2, <1>1 DEF OwedInv, Owed
<1>6. OnceInv'
  <2>1. ASSUME NEW h \in Gen, NEW k \in Gen, NEW i \in 1..Len(queue'[h]),
               NEW j \in 1..Len(queue'[k]), queue'[h][i] = queue'[k][j]
        PROVE  h = k /\ i = j
    <3>1. i \in Nat /\ j \in Nat
      OBVIOUS
    <3>2. QED
      BY <2>1, <3>1, <1>3 DEF AnswerInv, OnceInv
  <2>2. ASSUME NEW h \in Gen, NEW k \in Gen, NEW t \in applying'[h],
               NEW i \in 1..Len(queue'[k])
        PROVE  queue'[k][i] # t
    <3>1. CASE h # g /\ t \in applying[h]
      BY <3>1, <1>3 DEF AnswerInv, OnceInv
    <3>2. CASE h = g /\ t = queue[g][1]
      <4>1. i \in Nat /\ i >= 1
        OBVIOUS
      <4>2. QED
        BY <3>2, <4>1, <1>2, <1>3 DEF AnswerInv, OnceInv
    <3>3. QED
      BY <3>1, <3>2, <1>4
  <2>3. ASSUME NEW h \in Gen, NEW k \in Gen, NEW t \in applying'[h], t \in applying'[k]
        PROVE  h = k
    BY <2>3, <1>2, <1>4 DEF AnswerInv, OnceInv
  <2>4. QED
    BY <2>1, <2>2, <2>3 DEF OnceInv
<1>7. CountInv'
  BY <1>1 DEF AnswerInv, CountInv
<1>8. QED
  BY <1>5, <1>6, <1>7 DEF AnswerInv

\* The write that is applied was owed; it is answered and in no place any more.
LEMMA ApplyOnce ==
  ASSUME TypeOK, Inv, AnswerInv, NEW g \in Gen, NEW s \in applying[g],
         applying' = [applying EXCEPT ![g] = {}],
         applied' = [applied EXCEPT ![s] = @ + 1],
         replied' = replied \cup {s}, UNCHANGED <<queue, call>>
  PROVE  AnswerInv'
<1>1. s \in Submitter /\ Owed(s) /\ applying[g] = {s}
  BY DEF TypeOK, AnswerInv, OwedInv, Inv, SoleInv
<1>2. OwedInv'
  <2>1. ASSUME NEW h \in Gen, NEW i \in 1..Len(queue[h])
        PROVE  Owed(queue[h][i]) /\ queue[h][i] # s
    BY DEF AnswerInv, OwedInv, OnceInv
  <2>2. ASSUME NEW h \in Gen, NEW t \in applying'[h]
        PROVE  Owed(t) /\ t # s
    BY <1>1 DEF TypeOK, AnswerInv, OwedInv, OnceInv
  <2>3. QED
    BY <2>1, <2>2 DEF OwedInv, Owed
<1>3. OnceInv'
  <2>1. \A h \in Gen : applying'[h] \subseteq applying[h]
    BY DEF TypeOK
  <2>2. QED
    BY <2>1 DEF AnswerInv, OnceInv
<1>4. CountInv'
  BY <1>1 DEF TypeOK, AnswerInv, CountInv, Owed
<1>5. QED
  BY <1>2, <1>3, <1>4 DEF AnswerInv

LEMMA AnswerStep == TypeOK /\ Inv /\ NoWriteAbandoned' /\ AnswerInv /\ [Next]_vars => AnswerInv'
<1> SUFFICES ASSUME TypeOK, Inv, NoWriteAbandoned', AnswerInv, [Next]_vars PROVE AnswerInv'
  OBVIOUS
<1> USE DEF genVars, writerVars, callVars, ctlVars
<1>1. ASSUME NEW s \in Submitter, Submit(s) PROVE AnswerInv'
  <2>1. OwedInv' /\ OnceInv'
    BY <1>1, CallerStep DEF Submit, Owed, TypeOK
  <2>2. CountInv'
    BY <1>1 DEF Submit, AnswerInv, CountInv, TypeOK
  <2>3. QED
    BY <2>1, <2>2 DEF AnswerInv
<1>2. ASSUME NEW s \in Submitter, GoInline(s) PROVE AnswerInv'
  <2>1. OwedInv' /\ OnceInv'
    BY <1>2, CallerStep DEF GoInline, Owed, TypeOK
  <2>2. CountInv'
    BY <1>2 DEF GoInline, AnswerInv, CountInv, TypeOK
  <2>3. QED
    BY <2>1, <2>2 DEF AnswerInv
<1>3. ASSUME NEW s \in Submitter, InlineDone(s) PROVE AnswerInv'
  <2>1. OwedInv' /\ OnceInv'
    BY <1>3, CallerStep DEF InlineDone, Owed, TypeOK
  <2>2. CountInv'
    BY <1>3 DEF InlineDone, AnswerInv, CountInv, TypeOK
  <2>3. QED
    BY <2>1, <2>2 DEF AnswerInv
<1>5. ASSUME NEW s \in Submitter, BlockOnFull(s) PROVE AnswerInv'
  <2>1. OwedInv' /\ OnceInv'
    BY <1>5, CallerStep DEF BlockOnFull, Owed, TypeOK
  <2>2. CountInv'
    BY <1>5 DEF BlockOnFull, AnswerInv, CountInv, TypeOK
  <2>3. QED
    BY <2>1, <2>2 DEF AnswerInv
<1>7. ASSUME NEW s \in Submitter, SendTimeout(s) PROVE AnswerInv'
  <2>1. OwedInv' /\ OnceInv'
    BY <1>7, CallerStep DEF SendTimeout, Owed, TypeOK
  <2>2. CountInv'
    BY <1>7 DEF SendTimeout, AnswerInv, CountInv, TypeOK
  <2>3. QED
    BY <2>1, <2>2 DEF AnswerInv
<1>8. ASSUME NEW s \in Submitter, ReceiveReply(s) PROVE AnswerInv'
  <2>1. OwedInv' /\ OnceInv'
    BY <1>8, CallerStep DEF ReceiveReply, Owed, TypeOK
  <2>2. CountInv'
    BY <1>8 DEF ReceiveReply, AnswerInv, CountInv, TypeOK
  <2>3. QED
    BY <2>1, <2>2 DEF AnswerInv
<1>10. ASSUME NEW s \in Submitter, Return(s) PROVE AnswerInv'
  <2>1. OwedInv' /\ OnceInv'
    BY <1>10, CallerStep DEF Return, Owed, TypeOK
  <2>2. CountInv'
    BY <1>10 DEF Return, AnswerInv, CountInv, TypeOK
  <2>3. QED
    BY <2>1, <2>2 DEF AnswerInv
<1>4. ASSUME NEW s \in Submitter, Enqueue(s) PROVE AnswerInv'
  BY <1>4, SendOnce DEF Enqueue
<1>6. ASSUME NEW s \in Submitter, Unblock(s) PROVE AnswerInv'
  <2>1. InService
    BY <1>6 DEF Unblock, Inv, SendInv
  <2>2. QED
    BY <1>6, <2>1, SendOnce DEF Unblock
<1>9. ASSUME NEW s \in Submitter, SeeClosed(s) PROVE AnswerInv'
  <2>1. s \in replied
    BY <1>9 DEF SeeClosed, NoWriteAbandoned, TypeOK
  <2>2. OwedInv' /\ OnceInv'
    BY <1>9, <2>1, CallerStep DEF SeeClosed, Owed, TypeOK
  <2>3. CountInv'
    BY <1>9, <2>1 DEF SeeClosed, AnswerInv, CountInv, TypeOK
  <2>4. QED
    BY <2>2, <2>3 DEF AnswerInv
<1>11. ASSUME NEW g \in Gen, Take(g) PROVE AnswerInv'
  BY <1>11, TakeOnce
<1>12. ASSUME NEW g \in Gen, ApplyDone(g) PROVE AnswerInv'
  BY <1>12, ApplyOnce DEF ApplyDone
<1>13. ASSUME UNCHANGED <<queue, applying, call, replied, applied>> PROVE AnswerInv'
  BY <1>13 DEF AnswerInv, OwedInv, OnceInv, CountInv, Owed
<1>14. ASSUME NEW g \in Gen, SeeCancel(g) \/ Exit(g) PROVE AnswerInv'
  BY <1>13, <1>14 DEF SeeCancel, Exit
<1>15. ASSUME NEW c \in Controller, Start(c) \/ Stop(c) \/ StopAwaited(c) \/ StopClear(c)
       PROVE  AnswerInv'
  BY <1>13, <1>15 DEF Start, Stop, StopAwaited, StopClear
<1>16. CASE UNCHANGED vars
  BY <1>13, <1>16 DEF vars
<1>17. QED
  BY <1>1, <1>2, <1>3, <1>4, <1>5, <1>6, <1>7, <1>8, <1>9, <1>10,
     <1>11, <1>12, <1>14, <1>15, <1>16
     DEF Next, LockStep, CallStep, WriterStep

\* In every behaviour each write is in one place and applied once.
LEMMA AnswersCount == Spec => []AnswerInv
<1>1. Init => AnswerInv
  BY DEF Init, AnswerInv, OwedInv, OnceInv, CountInv
<1>2. Inv => NoWriteAbandoned
  BY DEF Inv
<1>3. QED
  BY <1>1, <1>2, AnswerStep, Invariance, TypeCorrect, PTL DEF Spec

Phases == [s \in Submitter |-> Phase(s)]

\* A step of one submitter's call is the Move of its phase, or none.
LEMMA PhaseMoves ==
  ASSUME NEW s \in Submitter,
         \A t \in Submitter \ {s} : call'[t] = call[t] /\ applied'[t] = applied[t]
  PROVE  /\ Abstract!Move(s, Phase(s), Phase(s)')
         /\ Phase(s)' = Phase(s) => UNCHANGED Phases
<1>1. ASSUME NEW t \in Submitter, t # s PROVE Phase(t)' = Phase(t)
  BY <1>1 DEF Phase
<1>2. Phases' = [Phases EXCEPT ![s] = Phase(s)']
  BY <1>1 DEF Phases
<1>3. Phase(s)' = Phase(s) => UNCHANGED Phases
  BY <1>1 DEF Phases
<1>4. QED
  BY <1>2, <1>3 DEF Abstract!Move, Phases

\* Every step is a step of WriteOnce or changes nothing in it.
LEMMA StepImplements ==
  TypeOK /\ Inv /\ AnswerInv /\ NoWriteAbandoned' /\ [Next]_vars => [Abstract!Next]_Phases
<1> SUFFICES ASSUME TypeOK, Inv, AnswerInv, NoWriteAbandoned', [Next]_vars
             PROVE  Abstract!Next \/ UNCHANGED Phases
  OBVIOUS
<1> USE DEF genVars, writerVars, callVars, ctlVars
<1>1. ASSUME NEW s \in Submitter, Submit(s) PROVE Abstract!Next
  <2>1. Phase(s) = "idle" /\ Phase(s)' = "asked"
    BY <1>1 DEF Submit, Phase, TypeOK
  <2>2. Abstract!Ask(s)
    BY <1>1, <2>1, PhaseMoves DEF Submit, TypeOK, Abstract!Ask
  <2>3. QED
    BY <2>2 DEF Abstract!Next
<1>2. ASSUME NEW s \in Submitter, GoInline(s) \/ BlockOnFull(s) PROVE UNCHANGED Phases
  <2>1. Phase(s)' = Phase(s)
    BY <1>2 DEF GoInline, BlockOnFull, Phase, TypeOK
  <2>2. QED
    BY <1>2, <2>1, PhaseMoves DEF GoInline, BlockOnFull, TypeOK
<1>3. ASSUME NEW s \in Submitter, InlineDone(s) PROVE Abstract!Next
  <2>1. applied[s] = 0
    BY <1>3 DEF InlineDone, AnswerInv, CountInv
  <2>2. Phase(s) = "asked" /\ Phase(s)' = "ok"
    BY <1>3, <2>1 DEF InlineDone, Phase, TypeOK
  <2>3. Abstract!ApplyInline(s)
    BY <1>3, <2>2, PhaseMoves DEF InlineDone, TypeOK, Abstract!ApplyInline
  <2>4. QED
    BY <2>3 DEF Abstract!Next
<1>4. ASSUME NEW s \in Submitter, Enqueue(s) \/ Unblock(s) PROVE UNCHANGED Phases
  <2>1. Send(s) /\ call[s] \in {"lock", "send"}
    BY <1>4 DEF Enqueue, Unblock
  <2>2. Phase(s)' = Phase(s)
    BY <2>1 DEF Send, Phase, TypeOK
  <2>3. QED
    BY <2>1, <2>2, PhaseMoves DEF Send, TypeOK
<1>5. ASSUME NEW s \in Submitter, SendTimeout(s) PROVE Abstract!Next
  <2>1. applied[s] = 0
    BY <1>5 DEF SendTimeout, AnswerInv, CountInv
  <2>2. Phase(s) = "asked" /\ Phase(s)' = "refused"
    BY <1>5, <2>1 DEF SendTimeout, Phase, TypeOK
  <2>3. Abstract!Refuse(s)
    BY <1>5, <2>2, PhaseMoves DEF SendTimeout, TypeOK, Abstract!Refuse
  <2>4. QED
    BY <2>3 DEF Abstract!Next
<1>6. ASSUME NEW s \in Submitter, ReceiveReply(s) \/ SeeClosed(s) PROVE Abstract!Next
  <2>1. call[s] = "wait" /\ call' = [call EXCEPT ![s] = "ok"] /\ s \in replied
        /\ UNCHANGED applied
    BY <1>6 DEF ReceiveReply, SeeClosed, NoWriteAbandoned, TypeOK
  <2>2. applied[s] = 1
    BY <2>1 DEF AnswerInv, CountInv
  <2>3. Phase(s) = "applied" /\ Phase(s)' = "ok"
    BY <2>1, <2>2 DEF Phase, TypeOK
  <2>4. Abstract!Answer(s)
    BY <2>1, <2>3, PhaseMoves DEF TypeOK, Abstract!Answer
  <2>5. QED
    BY <2>4 DEF Abstract!Next
<1>7. ASSUME NEW s \in Submitter, Return(s) PROVE Abstract!Next
  <2>1. call[s] # "stopped"
    BY DEF Inv, NoWriteAbandoned
  <2>2. Phase(s) \in {"ok", "refused"} /\ Phase(s)' = "idle"
    BY <1>7, <2>1 DEF Return, Phase, TypeOK, AnswerInv, CountInv
  <2>3. Abstract!Return(s)
    BY <1>7, <2>2, PhaseMoves DEF Return, TypeOK, Abstract!Return
  <2>4. QED
    BY <2>3 DEF Abstract!Next
<1>8. ASSUME NEW g \in Gen, ApplyDone(g) PROVE Abstract!Next
  <2>1. PICK s \in applying[g] : applied' = [applied EXCEPT ![s] = @ + 1] /\ UNCHANGED call
    BY <1>8 DEF ApplyDone
  <2>2. s \in Submitter /\ call[s] = "wait" /\ applied[s] = 0
    BY DEF TypeOK, AnswerInv, OwedInv, Owed, CountInv
  <2>3. Phase(s) = "asked" /\ Phase(s)' = "applied"
    BY <2>1, <2>2 DEF Phase, TypeOK
  <2>4. Abstract!Apply(s)
    BY <2>1, <2>2, <2>3, PhaseMoves DEF TypeOK, Abstract!Apply
  <2>5. QED
    BY <2>2, <2>4 DEF Abstract!Next
<1>9. ASSUME UNCHANGED <<call, applied>> PROVE UNCHANGED Phases
  BY <1>9 DEF Phases, Phase
<1>10. ASSUME NEW g \in Gen, Take(g) \/ SeeCancel(g) \/ Exit(g) PROVE UNCHANGED Phases
  BY <1>9, <1>10 DEF Take, SeeCancel, Exit
<1>11. ASSUME NEW c \in Controller, Start(c) \/ Stop(c) \/ StopAwaited(c) \/ StopClear(c)
       PROVE  UNCHANGED Phases
  BY <1>9, <1>11 DEF Start, Stop, StopAwaited, StopClear
<1>12. CASE UNCHANGED vars
  BY <1>9, <1>12 DEF vars
<1>13. QED
  BY <1>1, <1>2, <1>3, <1>4, <1>5, <1>6, <1>7, <1>8, <1>10, <1>11, <1>12
     DEF Next, LockStep, CallStep, WriterStep

\* The writer implements the contract of submitTrafficWrite: in every
\* behaviour each write is applied exactly once and then answered, or refused
\* without having been applied (traffic_writer.go:142-183 against
\* WriteOnce).
THEOREM WriterImplementsOnce == Spec => AppliedOnce
<1>1. Init => Abstract!Init
  BY DEF Init, Phase, Abstract!Init
<1>2. Inv => NoWriteAbandoned
  BY DEF Inv
<1>3. TypeOK /\ Inv /\ AnswerInv /\ NoWriteAbandoned' /\ [Next]_vars
        => [Abstract!Next]_[s \in Submitter |-> Phase(s)]
  BY StepImplements DEF Phases
<1>4. QED
  BY <1>1, <1>2, <1>3, AnswersCount, Invariance, TypeCorrect, PTL
     DEF Spec, AppliedOnce, Abstract!Spec
=============================================================================
