--------------------------- MODULE TaskQueueProofs ---------------------------
(* Proofs about TaskQueue for every number of callers and pushes, every    *)
(* capacity and every width of Idx.                                        *)
EXTENDS TaskQueue, SequenceTheorems, WellFoundedInduction, TLAPS

USE CapacityAssumption, IdxAssumption, BoundAssumption, AlarmAssumption

-----------------------------------------------------------------------------
(* Sequences *)

(* Appending to the last part of a concatenation appends to the whole.     *)
LEMMA AppendLast ==
    ASSUME NEW S, NEW s \in Seq(S), NEW t \in Seq(S), NEW e \in S
    PROVE  s \o Append(t, e) = Append(s \o t, e)
  <1>1. <<e>> \in Seq(S)
    OBVIOUS
  <1>2. Append(t, e) = t \o <<e>> /\ Append(s \o t, e) = (s \o t) \o <<e>>
    BY AppendIsConcat, ConcatProperties
  <1>3. QED
    BY <1>1, <1>2, ConcatAssociative

(* A nonempty sequence is its head followed by its tail.                   *)
LEMMA HeadFirst ==
    ASSUME NEW S, NEW s \in Seq(S), s # <<>>
    PROVE  <<Head(s)>> \o Tail(s) = s
  <1>1. /\ Head(s) \in S /\ Tail(s) \in Seq(S) /\ Len(Tail(s)) = Len(s) - 1
        /\ \A i \in 1 .. Len(Tail(s)) : Tail(s)[i] = s[i + 1]
    BY HeadTailProperties
  <1>2. <<Head(s)>> \in Seq(S) /\ Len(<<Head(s)>>) = 1 /\ <<Head(s)>>[1] = Head(s)
    BY <1>1
  <1>3. Len(s) \in Nat \ {0} /\ Head(s) = s[1]
    BY EmptySeq, LenProperties
  <1>4. Len(<<Head(s)>> \o Tail(s)) = Len(s)
    BY <1>1, <1>2, <1>3, ConcatProperties
  <1>5. ASSUME NEW i \in 1 .. Len(s)
        PROVE  (<<Head(s)>> \o Tail(s))[i] = s[i]
    <2>1. (<<Head(s)>> \o Tail(s))[i]
            = IF i <= 1 THEN <<Head(s)>>[i] ELSE Tail(s)[i - 1]
      BY <1>1, <1>2, <1>3, ConcatProperties
    <2>2. QED
      BY <2>1, <1>1, <1>2, <1>3
  <1>6. <<Head(s)>> \o Tail(s) \in Seq(S)
    BY <1>1, <1>2, ConcatProperties
  <1>7. QED
    BY <1>4, <1>5, <1>6, SeqEqual

-----------------------------------------------------------------------------
(* Types *)

(* A caller inside PushAsync or PushSync owns an allocated task.           *)
LEMMA MineAllocated ==
    ASSUME TypeOK, NEW c \in Callers, pc[c] # "idle"
    PROVE  mine[c] \in Tasks /\ mine[c] \in 1 .. made
  BY SMTT(30) DEF TypeOK, Tasks, NoTask

(* A sender that has not stored its Idx has a task accepted.               *)
LEMMA StoredCounts == TypeOK => Stored \in Nat
  <1> SUFFICES ASSUME TypeOK PROVE Stored \in Nat
    OBVIOUS
  <1>1. Len(accepted) \in Nat
    BY LenProperties DEF TypeOK
  <1>2. QED
    BY <1>1 DEF TypeOK, Stored

(* Every step of the queue preserves the types.                            *)
LEMMA TypeStep == TypeOK /\ [Next]_vars => TypeOK'
  <1> SUFFICES ASSUME TypeOK, [Next]_vars PROVE TypeOK'
    OBVIOUS
  <1>0. Len(queue) \in Nat /\ Len(accepted) \in Nat
    BY LenProperties DEF TypeOK
  <1>1. ASSUME NEW c \in Callers, NEW s \in Subjects, PushUndefined(c, s)
        PROVE  TypeOK'
    BY <1>1 DEF PushUndefined, TypeOK, workerVars
  <1>2. ASSUME NEW c \in Callers, NEW s \in Subjects, NEW b \in BOOLEAN,
               PushRead(c, s, b)
        PROVE  TypeOK'
    <2>1. NextIdx \in 0 .. IdxMod - 1
      BY DEF NextIdx, TypeOK
    <2>2. made + 1 \in Tasks /\ made' \in 0 .. MaxPushes
      BY <1>2 DEF PushRead, TypeOK, Tasks
    <2>3. mine' \in [Callers -> 0 .. made']
            /\ \A d \in Callers : pc'[d] # "idle" => mine'[d] # NoTask
      BY <1>2 DEF PushRead, TypeOK, NoTask
    <2>4. taskIdx' \in [Tasks -> 0 .. IdxMod - 1] /\ seen' \in [Tasks -> Nat]
      BY <1>0, <1>2, <2>1, <2>2, StoredCounts DEF PushRead, TypeOK
    <2>5. QED
      BY <1>2, <2>2, <2>3, <2>4 DEF PushRead, TypeOK, workerVars
  <1>3. ASSUME NEW c \in Callers, PushSend(c) PROVE TypeOK'
    <2>1. mine[c] \in Tasks
      BY <1>3, MineAllocated DEF PushSend, HasRoom
    <2>2. queue' \in Seq(Tasks) /\ Len(queue') <= Capacity
            /\ accepted' \in Seq(Tasks) /\ Len(accepted') > 0
      BY <1>0, <1>3, <2>1, AppendProperties DEF PushSend, HasRoom, TypeOK
    <2>3. QED
      BY <1>3, <2>2 DEF PushSend, HasRoom, TypeOK, workerVars
  <1>3s. ASSUME NEW c \in Callers, PushStore(c) PROVE TypeOK'
    BY <1>3s, MineAllocated DEF PushStore, TypeOK, workerVars
  <1>4. ASSUME NEW c \in Callers, PushWrap(c) PROVE TypeOK'
    <2>1. ringPos' \in Slots
      BY <1>4 DEF PushWrap, NextPos, TypeOK, Slots
    <2>2. ring' \in [Slots -> Tasks \cup {NoTask}]
      BY <1>4, MineAllocated DEF PushWrap, NextPos, TypeOK
    <2>3. idx' \in 0 .. IdxMod - 1
      BY <1>4 DEF PushWrap, NextPos, TypeOK
    <2>4. QED
      BY <1>4, <2>1, <2>2, <2>3 DEF PushWrap, NextPos, TypeOK, workerVars
  <1>5. ASSUME NEW c \in Callers, PushFull(c) PROVE TypeOK'
    BY <1>5 DEF PushFull, TypeOK, workerVars
  <1>6. ASSUME NEW c \in Callers, SyncReturn(c) PROVE TypeOK'
    BY <1>6, MineAllocated DEF SyncReturn, TypeOK, workerVars
  <1>7. CASE Receive
    <2>1. Head(queue) \in Tasks /\ Tail(queue) \in Seq(Tasks)
            /\ Len(Tail(queue)) = Len(queue) - 1
      BY <1>7, HeadTailProperties DEF Receive, TypeOK
    <2>2. Len(queue') <= Capacity
      BY <1>0, <1>7, <2>1 DEF Receive, TypeOK
    <2>3. timer' \in [Tasks -> {"off", "armed", "fired", "stopped"}]
      BY <1>7, <2>1 DEF Receive, TypeOK
    <2>4. Head(queue) # NoTask
      BY <2>1 DEF Tasks, NoTask
    <2>5. QED
      BY <1>7, <2>1, <2>2, <2>3, <2>4 DEF Receive, TypeOK, callerVars
  <1>8. ASSUME NEW r \in Results, Handle(r) PROVE TypeOK'
    BY <1>8 DEF Handle, TypeOK, callerVars
  <1>9. CASE StopTimer
    BY <1>9 DEF StopTimer, TypeOK, callerVars
  <1>10. CASE SendDone
    <2>1. wtask \in Tasks /\ werr \in Results
      BY <1>10 DEF SendDone, SentResult, TypeOK
    <2>2. finished' \in Seq(Tasks)
      BY <1>10, <2>1, AppendProperties DEF SendDone, SentResult, TypeOK
    <2>3. done' \in [Tasks -> Results \cup {"open", "read"}]
      BY <1>10, <2>1 DEF SendDone, SentResult, TypeOK
    <2>4. QED
      BY <1>10, <2>2, <2>3 DEF SendDone, SentResult, TypeOK, callerVars
  <1>11. ASSUME NEW t \in Tasks, AlarmFires(t) PROVE TypeOK'
    BY <1>11 DEF AlarmFires, TypeOK, callerVars, workerVars
  <1>12. ASSUME NEW t \in Tasks, AlarmHandler(t) PROVE TypeOK'
    BY <1>12 DEF AlarmHandler, AlarmTask, TypeOK, callerVars, workerVars
  <1>13. CASE UNCHANGED vars
    BY <1>13 DEF vars, TypeOK, callerVars, workerVars
  <1>14. QED
    BY <1>1, <1>2, <1>3, <1>3s, <1>4, <1>5, <1>6, <1>7, <1>8, <1>9, <1>10, <1>11,
       <1>12, <1>13 DEF Next, CallerStep, WorkerStep, AlarmStep

(* The types of the queue's variables, and the bound on the channel.       *)
THEOREM TypeCorrect == Spec => []TypeOK
  <1>1. Init => TypeOK
    BY DEF Init, TypeOK, Tasks, Slots, NoTask
  <1>2. QED
    BY <1>1, TypeStep, PTL DEF Spec

-----------------------------------------------------------------------------
(* Order of execution *)

(* Where the tasks of the concatenation in Fifo stand.                     *)
LEMMA FifoPositions ==
    ASSUME TypeOK, Fifo
    PROVE  /\ Len(accepted) = Len(finished) + Len(Running) + Len(queue)
           /\ \A i \in 1 .. Len(finished) :
                i \in 1 .. Len(accepted) /\ accepted[i] = finished[i]
           /\ wpc # "recv" => /\ Len(finished) + 1 \in 1 .. Len(accepted)
                              /\ accepted[Len(finished) + 1] = wtask
           /\ \A i \in 1 .. Len(queue) :
                /\ Len(finished) + Len(Running) + i \in 1 .. Len(accepted)
                /\ accepted[Len(finished) + Len(Running) + i] = queue[i]
  <1>1. /\ finished \in Seq(Tasks) /\ queue \in Seq(Tasks)
        /\ Len(finished) \in Nat /\ Len(queue) \in Nat
    BY LenProperties DEF TypeOK
  <1>2. /\ Running \in Seq(Tasks) /\ Len(Running) \in {0, 1}
        /\ wpc # "recv" => Len(Running) = 1 /\ Running[1] = wtask
    BY DEF TypeOK, Running
  <1>3. /\ finished \o Running \in Seq(Tasks)
        /\ Len(finished \o Running) = Len(finished) + Len(Running)
        /\ \A i \in 1 .. Len(finished) + Len(Running) : (finished \o Running)[i]
             = IF i <= Len(finished) THEN finished[i] ELSE Running[i - Len(finished)]
    BY <1>1, <1>2, ConcatProperties
  <1>4. /\ Len(accepted) = Len(finished \o Running) + Len(queue)
        /\ \A i \in 1 .. Len(finished \o Running) + Len(queue) : accepted[i]
             = IF i <= Len(finished \o Running) THEN (finished \o Running)[i]
               ELSE queue[i - Len(finished \o Running)]
    BY <1>1, <1>3, ConcatProperties DEF Fifo
  <1>5. ASSUME NEW i \in 1 .. Len(finished)
        PROVE  i \in 1 .. Len(accepted) /\ accepted[i] = finished[i]
    BY <1>1, <1>2, <1>3, <1>4
  <1>6. ASSUME wpc # "recv"
        PROVE  /\ Len(finished) + 1 \in 1 .. Len(accepted)
               /\ accepted[Len(finished) + 1] = wtask
    <2>1. Len(Running) = 1 /\ Running[(Len(finished) + 1) - Len(finished)] = wtask
      BY <1>1, <1>2, <1>6
    <2>2. (finished \o Running)[Len(finished) + 1] = wtask
      BY <1>1, <1>3, <2>1
    <2>3. QED
      BY <1>1, <1>3, <1>4, <2>1, <2>2
  <1>7. ASSUME NEW i \in 1 .. Len(queue)
        PROVE  /\ Len(finished) + Len(Running) + i \in 1 .. Len(accepted)
               /\ accepted[Len(finished) + Len(Running) + i] = queue[i]
    BY <1>1, <1>2, <1>3, <1>4
  <1>8. QED
    BY <1>3, <1>4, <1>5, <1>6, <1>7

(* The task the worker holds has not finished.                             *)
LEMMA WorkerTaskUnfinished ==
    ASSUME TypeOK, Fifo, AcceptedOnce, wpc # "recv"
    PROVE  \A i \in 1 .. Len(finished) : finished[i] # wtask
  <1> SUFFICES ASSUME NEW i \in 1 .. Len(finished), finished[i] = wtask PROVE FALSE
    OBVIOUS
  <1>1. accepted[i] = accepted[Len(finished) + 1]
          /\ i \in 1 .. Len(accepted) /\ Len(finished) + 1 \in 1 .. Len(accepted)
    BY FifoPositions
  <1>2. i = Len(finished) + 1
    BY <1>1 DEF AcceptedOnce
  <1>3. QED
    BY <1>2, LenProperties DEF TypeOK

(* Steps that touch neither the channel nor the worker nor the histories.  *)
LEMMA FifoFrame ==
    ASSUME Fifo, UNCHANGED <<accepted, finished, queue, wtask>>,
           (wpc' = "recv") <=> (wpc = "recv")
    PROVE  Fifo'
  BY DEF Fifo, Running

(* Every step keeps the accepted tasks equal to the finished ones, the     *)
(* running one and the channel, in this order.                             *)
LEMMA FifoStep == TypeOK /\ Fifo /\ [Next]_vars => Fifo'
  <1> SUFFICES ASSUME TypeOK, Fifo, [Next]_vars PROVE Fifo'
    OBVIOUS
  <1>0. /\ finished \in Seq(Tasks) /\ queue \in Seq(Tasks)
        /\ Running \in Seq(Tasks) /\ <<>> \in Seq(Tasks)
    BY DEF TypeOK, Running
  <1>1. ASSUME NEW c \in Callers, PushSend(c) PROVE Fifo'
    <2>1. mine[c] \in Tasks
      BY <1>1, MineAllocated DEF PushSend, HasRoom
    <2>2. finished \o Running \in Seq(Tasks)
      BY <1>0, ConcatProperties
    <2>3. (finished \o Running) \o Append(queue, mine[c])
            = Append((finished \o Running) \o queue, mine[c])
      BY <1>0, <2>1, <2>2, AppendLast
    <2>4. Running' = Running
      BY <1>1 DEF PushSend, HasRoom, Running, workerVars
    <2>5. QED
      BY <1>1, <2>3, <2>4 DEF PushSend, HasRoom, Fifo
  <1>2. CASE Receive
    <2>1. Head(queue) \in Tasks /\ Tail(queue) \in Seq(Tasks)
      BY <1>0, <1>2, HeadTailProperties DEF Receive
    <2>2. <<Head(queue)>> \in Seq(Tasks)
      BY <2>1
    <2>3. Running = <<>> /\ Running' = <<Head(queue)>>
      BY <1>2 DEF Receive, Running
    <2>4. accepted = finished \o queue
      BY <1>0, <2>3, ConcatEmptySeq DEF Fifo
    <2>5. queue = <<Head(queue)>> \o Tail(queue)
      BY <1>0, <1>2, HeadFirst DEF Receive
    <2>6. finished \o (<<Head(queue)>> \o Tail(queue))
            = (finished \o <<Head(queue)>>) \o Tail(queue)
      BY <1>0, <2>1, <2>2, ConcatAssociative, SMTT(30)
    <2>7. QED
      BY <1>2, <2>3, <2>4, <2>5, <2>6 DEF Receive, Fifo
  <1>3. CASE SendDone
    <2>1. wtask \in Tasks
      BY <1>3 DEF SendDone, SentResult, TypeOK
    <2>2. Append(finished, wtask) = finished \o <<wtask>>
            /\ Append(finished, wtask) \in Seq(Tasks)
      BY <1>0, <2>1, AppendIsConcat, AppendProperties
    <2>3. Append(finished, wtask) \o <<>> = Append(finished, wtask)
      BY <2>2, ConcatEmptySeq
    <2>4. Running = <<wtask>> /\ Running' = <<>>
      BY <1>3 DEF SendDone, SentResult, Running
    <2>5. QED
      BY <1>3, <2>2, <2>3, <2>4 DEF SendDone, SentResult, Fifo
  <1>4. ASSUME NEW c \in Callers, NEW s \in Subjects, PushUndefined(c, s) PROVE Fifo'
    BY <1>4, FifoFrame DEF PushUndefined, workerVars
  <1>5. ASSUME NEW c \in Callers, NEW s \in Subjects, NEW b \in BOOLEAN, PushRead(c, s, b)
        PROVE  Fifo'
    BY <1>5, FifoFrame DEF PushRead, workerVars
  <1>6. ASSUME NEW c \in Callers, PushStore(c) \/ PushWrap(c) \/ PushFull(c) \/ SyncReturn(c)
        PROVE  Fifo'
    BY <1>6, FifoFrame DEF PushStore, PushWrap, NextPos, PushFull, SyncReturn, workerVars
  <1>7. ASSUME NEW r \in Results, Handle(r) PROVE Fifo'
    BY <1>7, FifoFrame DEF Handle
  <1>8. CASE StopTimer
    BY <1>8, FifoFrame DEF StopTimer
  <1>9. ASSUME NEW t \in Tasks, AlarmStep(t) PROVE Fifo'
    BY <1>9, FifoFrame DEF AlarmStep, AlarmFires, AlarmHandler, workerVars
  <1>10. CASE UNCHANGED vars
    BY <1>10, FifoFrame DEF vars, workerVars
  <1>11. QED
    BY <1>1, <1>2, <1>3, <1>4, <1>5, <1>6, <1>7, <1>8, <1>9, <1>10
       DEF Next, CallerStep, WorkerStep

-----------------------------------------------------------------------------
(* Each push enters the channel at most once *)

(* Every step preserves the ownership of tasks, and with it that no task   *)
(* is accepted twice.                                                      *)
LEMMA OwnersStep ==
    TypeOK /\ AcceptedOnce /\ TaskOwners /\ [Next]_vars => AcceptedOnce' /\ TaskOwners'
  <1> SUFFICES ASSUME TypeOK, AcceptedOnce, TaskOwners, [Next]_vars
               PROVE  AcceptedOnce' /\ TaskOwners'
    OBVIOUS
  <1>0. /\ Len(accepted) \in Nat
        /\ \A i \in 1 .. Len(accepted) : accepted[i] \in Tasks
        /\ made \in Nat
    BY LenProperties, ElementOfSeq DEF TypeOK
  <1>1. ASSUME NEW c \in Callers, PushSend(c) PROVE AcceptedOnce' /\ TaskOwners'
    <2>1. mine[c] \in Tasks /\ mine[c] \in 1 .. made
      BY <1>1, MineAllocated DEF PushSend, HasRoom
    <2>2. /\ Len(accepted') = Len(accepted) + 1
          /\ \A i \in 1 .. Len(accepted) : accepted'[i] = accepted[i]
          /\ accepted'[Len(accepted) + 1] = mine[c]
      BY <1>1, <2>1, AppendProperties DEF PushSend, HasRoom, TypeOK
    <2>3. \A i \in 1 .. Len(accepted) : accepted[i] # mine[c]
      BY <1>1 DEF PushSend, HasRoom, TaskOwners
    <2>4. AcceptedOnce'
      BY <1>0, <2>2, <2>3 DEF AcceptedOnce
    <2>5. ASSUME NEW d \in Callers, pc'[d] = "lock", NEW i \in 1 .. Len(accepted')
          PROVE  accepted'[i] # mine'[d]
      <3>1. d # c /\ pc[d] = "lock" /\ mine' = mine
        BY <1>1, <2>5 DEF PushSend, HasRoom, TypeOK
      <3>2. mine[d] # mine[c]
        BY <2>1, <3>1 DEF TaskOwners, NoTask
      <3>3. QED
        BY <1>0, <2>2, <2>5, <3>1, <3>2 DEF TaskOwners
    <2>6. ASSUME NEW i \in 1 .. Len(accepted') PROVE accepted'[i] <= made'
      <3>1. made' = made /\ mine[c] <= made
        BY <1>0, <1>1, <2>1 DEF PushSend, HasRoom
      <3>2. CASE i = Len(accepted) + 1
        BY <2>2, <3>1, <3>2
      <3>3. CASE i \in 1 .. Len(accepted)
        BY <2>2, <3>1, <3>3 DEF TaskOwners
      <3>4. QED
        BY <1>0, <2>2, <3>2, <3>3
    <2>7. QED
      BY <1>1, <2>4, <2>5, <2>6 DEF PushSend, HasRoom, TaskOwners
  <1>2. ASSUME NEW c \in Callers, NEW s \in Subjects, NEW b \in BOOLEAN, PushRead(c, s, b)
        PROVE  AcceptedOnce' /\ TaskOwners'
    <2>1. /\ accepted' = accepted /\ made' = made + 1
          /\ mine' \in [Callers -> Nat] /\ mine'[c] = made + 1
          /\ \A d \in Callers \ {c} : mine'[d] = mine[d] /\ pc'[d] = pc[d]
      BY <1>0, <1>2 DEF PushRead, TypeOK
    <2>2. \A d \in Callers : mine[d] \in 0 .. made
      BY DEF TypeOK
    <2>3. \A i \in 1 .. Len(accepted) : accepted[i] \in Nat /\ accepted[i] <= made
      BY <1>0 DEF TaskOwners, Tasks
    <2>4. ASSUME NEW d \in Callers, pc'[d] = "lock", NEW i \in 1 .. Len(accepted)
          PROVE  accepted[i] # mine'[d]
      BY <1>0, <2>1, <2>3, <2>4 DEF TaskOwners
    <2>5. ASSUME NEW d \in Callers, NEW e \in Callers, d # e, mine'[d] # NoTask
          PROVE  mine'[d] # mine'[e]
      BY <1>0, <2>1, <2>2, <2>5 DEF TaskOwners
    <2>6. QED
      BY <1>0, <2>1, <2>3, <2>4, <2>5 DEF AcceptedOnce, TaskOwners
  <1>3. ASSUME UNCHANGED <<made, mine, accepted>>,
               \A c \in Callers : pc'[c] = "lock" => pc[c] = "lock"
        PROVE  AcceptedOnce' /\ TaskOwners'
    BY <1>3 DEF AcceptedOnce, TaskOwners
  <1>4. ASSUME NEW c \in Callers, NEW s \in Subjects, PushUndefined(c, s)
        PROVE  AcceptedOnce' /\ TaskOwners'
    BY <1>3, <1>4 DEF PushUndefined
  <1>5. ASSUME NEW c \in Callers, PushStore(c) \/ PushWrap(c) \/ PushFull(c) \/ SyncReturn(c)
        PROVE  AcceptedOnce' /\ TaskOwners'
    BY <1>3, <1>5 DEF PushStore, PushWrap, NextPos, PushFull, SyncReturn, TypeOK
  <1>6. CASE WorkerStep
    BY <1>3, <1>6 DEF WorkerStep, Receive, Handle, StopTimer, SendDone, SentResult, callerVars
  <1>7. ASSUME NEW t \in Tasks, AlarmStep(t) PROVE AcceptedOnce' /\ TaskOwners'
    BY <1>3, <1>7 DEF AlarmStep, AlarmFires, AlarmHandler, callerVars
  <1>8. CASE UNCHANGED vars
    BY <1>3, <1>8 DEF vars, callerVars
  <1>9. QED
    BY <1>1, <1>2, <1>4, <1>5, <1>6, <1>7, <1>8 DEF Next, CallerStep

-----------------------------------------------------------------------------
(* Results *)

(* Every step preserves what the done channels hold and what PushSync      *)
(* returned: the worker never writes the result of a finished task again.  *)
LEMMA ResultStep ==
    IInv /\ [Next]_vars => DoneOfFinished' /\ SyncResult'
  <1> SUFFICES ASSUME IInv, [Next]_vars PROVE DoneOfFinished' /\ SyncResult'
    OBVIOUS
  <1> USE DEF IInv
  <1>0. /\ Len(finished) \in Nat
        /\ wpc # "recv" => \A i \in 1 .. Len(finished) : finished[i] # wtask
    BY LenProperties, WorkerTaskUnfinished DEF TypeOK
  <1>1. CASE Receive
    <2>1. Len(queue) \in Nat /\ queue \in Seq(Tasks) /\ Len(queue) # 0
      BY <1>1, EmptySeq, LenProperties DEF Receive, TypeOK
    <2>2. Head(queue) = queue[1] /\ Len(Running) = 0
      BY <1>1, <2>1 DEF Receive, Running
    <2>3. /\ Len(finished) + 1 \in 1 .. Len(accepted)
          /\ accepted[Len(finished) + 1] = Head(queue)
      BY <1>0, <2>1, <2>2, FifoPositions
    <2>4. \A i \in 1 .. Len(finished) : finished[i] # Head(queue)
      <3> SUFFICES ASSUME NEW i \in 1 .. Len(finished), finished[i] = Head(queue)
                   PROVE  FALSE
        OBVIOUS
      <3>1. accepted[i] = Head(queue) /\ i \in 1 .. Len(accepted)
        BY FifoPositions
      <3>2. i = Len(finished) + 1
        BY <2>3, <3>1 DEF AcceptedOnce
      <3>3. QED
        BY <1>0, <3>2
    <2>5. Head(queue) \in Tasks
      BY <1>1, HeadTailProperties DEF Receive, TypeOK
    <2>6. done[Head(queue)] = "open"
      BY <2>4, <2>5 DEF DoneOfFinished
    <2>7. QED
      BY <1>1, <2>6 DEF Receive, DoneOfFinished, SyncResult, callerVars
  <1>2. ASSUME NEW r \in Results, Handle(r) PROVE DoneOfFinished' /\ SyncResult'
    <2>1. wtask \in Tasks /\ done[wtask] = "open"
      BY <1>2 DEF Handle, TypeOK, SyncResult
    <2>2. "open" \notin Results
      BY ResultsAssumption
    <2>3. \A t \in Tasks : t # wtask => result'[t] = result[t]
      BY <1>2 DEF Handle, TypeOK
    <2>4. result'[wtask] = r
      BY <1>2, <2>1 DEF Handle, TypeOK
    <2>5. DoneOfFinished'
      BY <1>2, <2>1, <2>2, <2>3, <2>4 DEF Handle, DoneOfFinished
    <2>6. ASSUME NEW c \in Callers, sync'[c], ret'[c] \in Results
          PROVE  /\ ret'[c] = result'[mine'[c]]
                 /\ \E i \in 1 .. Len(finished') : finished'[i] = mine'[c]
      <3>1. sync' = sync /\ ret' = ret /\ mine' = mine /\ finished' = finished
        BY <1>2 DEF Handle, callerVars
      <3>2. PICK i \in 1 .. Len(finished) : finished[i] = mine[c]
        BY <2>6, <3>1 DEF SyncResult
      <3>3. mine[c] # wtask /\ mine[c] \in Tasks
        BY <1>0, <1>2, <3>2, ElementOfSeq DEF Handle, TypeOK
      <3>4. QED
        BY <2>3, <2>6, <3>1, <3>2, <3>3 DEF SyncResult
    <2>7. QED
      BY <1>2, <2>1, <2>5, <2>6 DEF Handle, SyncResult
  <1>3. CASE StopTimer
    BY <1>3 DEF StopTimer, DoneOfFinished, SyncResult, callerVars
  <1>4. CASE SendDone
    <2>1. wtask \in Tasks /\ werr = result[wtask] /\ werr \in Results
      BY <1>4 DEF SendDone, SentResult, TypeOK, DoneOfFinished
    <2>2. /\ Len(finished') = Len(finished) + 1
          /\ \A i \in 1 .. Len(finished) : finished'[i] = finished[i]
          /\ finished'[Len(finished) + 1] = wtask
      BY <1>4, <2>1, AppendProperties DEF SendDone, SentResult, TypeOK
    <2>3. \A t \in Tasks : (\E i \in 1 .. Len(finished) : finished[i] = t) =>
              \E i \in 1 .. Len(finished') : finished'[i] = t
      BY <1>0, <2>2
    <2>4. done' \in [Tasks -> Results \cup {"open", "read"}] /\ done'[wtask] = werr
            /\ \A t \in Tasks : t # wtask => done'[t] = done[t]
      BY <1>4, <2>1 DEF SendDone, SentResult, TypeOK
    <2>5. \E i \in 1 .. Len(finished') : finished'[i] = wtask
      BY <1>0, <2>2
    <2>6. DoneOfFinished'
      BY <1>4, <2>1, <2>3, <2>4, <2>5 DEF SendDone, SentResult, DoneOfFinished
    <2>7. ASSUME NEW c \in Callers, sync'[c], ret'[c] \in Results
          PROVE  /\ ret'[c] = result'[mine'[c]]
                 /\ \E i \in 1 .. Len(finished') : finished'[i] = mine'[c]
      <3>1. sync' = sync /\ ret' = ret /\ mine' = mine /\ result' = result
        BY <1>4 DEF SendDone, SentResult, callerVars
      <3>2. PICK i \in 1 .. Len(finished) : finished[i] = mine[c]
        BY <2>7, <3>1 DEF SyncResult
      <3>3. QED
        BY <1>0, <2>2, <2>7, <3>1, <3>2 DEF SyncResult
    <2>8. QED
      BY <1>4, <2>6, <2>7 DEF SendDone, SentResult, SyncResult
  <1>5. ASSUME NEW c \in Callers, SyncReturn(c) PROVE DoneOfFinished' /\ SyncResult'
    <2>1. mine[c] \in Tasks
      BY <1>5, MineAllocated DEF SyncReturn
    <2>2. PICK i \in 1 .. Len(finished) : finished[i] = mine[c]
      BY <1>5, <2>1, ResultsAssumption DEF SyncReturn, DoneOfFinished
    <2>3. "read" \notin Results /\ "open" \notin Results
      BY ResultsAssumption
    <2>4. done'[mine[c]] = "read" /\ \A t \in Tasks : t # mine[c] => done'[t] = done[t]
      BY <1>5, <2>1 DEF SyncReturn, TypeOK
    <2>5. DoneOfFinished'
      BY <1>5, <2>2, <2>3, <2>4 DEF SyncReturn, DoneOfFinished, workerVars
    <2>6. ret'[c] = result[mine[c]] /\ \A d \in Callers : d # c => ret'[d] = ret[d]
      BY <1>5, <2>1 DEF SyncReturn, DoneOfFinished, TypeOK
    <2>7. wpc # "recv" => mine[c] # wtask /\ wtask \in Tasks
      BY <1>0, <2>2 DEF TypeOK
    <2>8. QED
      BY <1>5, <2>2, <2>4, <2>5, <2>6, <2>7 DEF SyncReturn, SyncResult, workerVars
  <1>6. ASSUME NEW c \in Callers, NEW s \in Subjects, PushUndefined(c, s)
        PROVE  DoneOfFinished' /\ SyncResult'
    BY <1>6, SMTT(30) DEF PushUndefined, DoneOfFinished, SyncResult, TypeOK, workerVars
  <1>7. ASSUME NEW c \in Callers, NEW s \in Subjects, NEW b \in BOOLEAN, PushRead(c, s, b)
        PROVE  DoneOfFinished' /\ SyncResult'
    <2>1. "none" \notin Results
      BY ResultsAssumption
    <2>2. ret'[c] = "none" /\ \A d \in Callers \ {c} :
              sync'[d] = sync[d] /\ ret'[d] = ret[d] /\ mine'[d] = mine[d]
      BY <1>7 DEF PushRead, TypeOK
    <2>3. UNCHANGED <<done, result, finished, wpc, wtask, werr>>
      BY <1>7 DEF PushRead, workerVars
    <2>4. QED
      BY <2>1, <2>2, <2>3 DEF DoneOfFinished, SyncResult
  <1>8. ASSUME NEW c \in Callers, PushSend(c) \/ PushStore(c)
        PROVE  DoneOfFinished' /\ SyncResult'
    BY <1>8 DEF PushSend, PushStore, HasRoom, DoneOfFinished, SyncResult, workerVars
  <1>9. ASSUME NEW c \in Callers, PushWrap(c) \/ PushFull(c)
        PROVE  DoneOfFinished' /\ SyncResult'
    <2>1. "queued" \notin Results /\ "refused" \notin Results
      BY ResultsAssumption
    <2>2. ret'[c] \in {"queued", "refused"} /\ \A d \in Callers \ {c} :
              sync'[d] = sync[d] /\ ret'[d] = ret[d] /\ mine'[d] = mine[d]
      BY <1>9 DEF PushWrap, NextPos, PushFull, TypeOK
    <2>3. UNCHANGED <<done, result, finished, wpc, wtask, werr>>
      BY <1>9 DEF PushWrap, NextPos, PushFull, workerVars
    <2>4. QED
      BY <2>1, <2>2, <2>3 DEF DoneOfFinished, SyncResult
  <1>10. ASSUME NEW t \in Tasks, AlarmStep(t) PROVE DoneOfFinished' /\ SyncResult'
    BY <1>10 DEF AlarmStep, AlarmFires, AlarmHandler, DoneOfFinished, SyncResult,
                 callerVars, workerVars
  <1>11. CASE UNCHANGED vars
    BY <1>11 DEF vars, DoneOfFinished, SyncResult, callerVars, workerVars
  <1>12. QED
    BY <1>1, <1>2, <1>3, <1>4, <1>5, <1>6, <1>7, <1>8, <1>9, <1>10, <1>11
       DEF Next, CallerStep, WorkerStep

-----------------------------------------------------------------------------
(* The invariant *)

(* The inductive invariant holds of every behaviour: Fifo alone does not   *)
(* say that the task the worker holds is unfinished, AcceptedOnce needs    *)
(* the ownership of tasks, and SyncResult the contents of done channels.   *)
THEOREM Invariant == Spec => []IInv
  <1>1. Init => IInv
    <2> SUFFICES ASSUME Init PROVE IInv
      OBVIOUS
    <2>1. TypeOK
      BY DEF Init, TypeOK, Tasks, Slots, NoTask
    <2>2. Len(accepted) = 0 /\ Len(finished) = 0
      BY DEF Init
    <2>3. Fifo
      BY EmptySeq, ConcatEmptySeq DEF Init, Fifo, Running
    <2>4. AcceptedOnce /\ TaskOwners
      BY <2>2 DEF Init, AcceptedOnce, TaskOwners, NoTask
    <2>5. DoneOfFinished /\ SyncResult
      BY ResultsAssumption DEF Init, DoneOfFinished, SyncResult
    <2>6. QED
      BY <2>1, <2>3, <2>4, <2>5 DEF IInv
  <1>2. IInv /\ [Next]_vars => IInv'
    BY TypeStep, FifoStep, OwnersStep, ResultStep DEF IInv
  <1>3. QED
    BY <1>1, <1>2, PTL DEF Spec

(* Tasks run one at a time in the order of acceptance, none is lost and    *)
(* none is run twice, however the callers' pushes interleave.              *)
THEOREM ExactlyOnceInOrder == Spec => [](Fifo /\ AcceptedOnce)
  <1>1. IInv => Fifo /\ AcceptedOnce
    BY DEF IInv
  <1>2. QED
    BY <1>1, Invariant, PTL

(* PushSync returns its own task's result, and the worker never blocks on  *)
(* a done channel nobody reads.                                            *)
THEOREM SyncCorrect == Spec => []SyncResult
  <1>1. IInv => SyncResult
    BY DEF IInv
  <1>2. QED
    BY <1>1, Invariant, PTL

-----------------------------------------------------------------------------
(* The alarm timers *)

(* A timer leaves "off" only with its task's turn, so a task that is       *)
(* received has a fresh timer: without this a second arming could follow   *)
(* the alarm.                                                              *)
TimersOfReceived ==
    \A t \in Tasks : timer[t] # "off" =>
        \/ wpc # "recv" /\ t = wtask
        \/ \E i \in 1 .. Len(finished) : finished[i] = t

(* The inductive invariant behind AlarmForItsTask.                         *)
AlarmInv == AlarmForItsTask /\ TimersOfReceived

(* Steps that leave the timers, the worker and the finished tasks alone.   *)
LEMMA AlarmFrame ==
    ASSUME AlarmInv, UNCHANGED <<timer, rang, wpc, wtask, finished>>
    PROVE  AlarmInv'
  BY DEF AlarmInv, AlarmForItsTask, TimersOfReceived

(* The task at the head of the channel has not finished.                   *)
LEMMA HeadUnfinished ==
    ASSUME TypeOK, Fifo, AcceptedOnce, queue # <<>>
    PROVE  \A i \in 1 .. Len(finished) : finished[i] # Head(queue)
  <1> SUFFICES ASSUME NEW i \in 1 .. Len(finished), finished[i] = Head(queue) PROVE FALSE
    OBVIOUS
  <1>0. Len(finished) \in Nat /\ Len(Running) \in Nat
    BY LenProperties DEF TypeOK, Running
  <1>1. 1 \in 1 .. Len(queue) /\ Head(queue) = queue[1]
    BY EmptySeq, LenProperties DEF TypeOK
  <1> DEFINE j == Len(finished) + Len(Running) + 1
  <1>2. j \in 1 .. Len(accepted) /\ accepted[j] = Head(queue)
    BY <1>1, FifoPositions
  <1>3. i \in 1 .. Len(accepted) /\ accepted[i] = Head(queue)
    BY FifoPositions
  <1>4. i = j
    BY <1>2, <1>3 DEF AcceptedOnce
  <1>5. QED
    BY <1>0, <1>4

(* Every step keeps the timers in line with the worker.                    *)
LEMMA AlarmStepKeeps == IInv /\ AlarmInv /\ [Next]_vars => AlarmInv'
  <1> SUFFICES ASSUME IInv, AlarmInv, [Next]_vars PROVE AlarmInv'
    OBVIOUS
  <1>0. TypeOK /\ Fifo /\ AcceptedOnce
    BY DEF IInv
  <1>t. /\ timer \in [Tasks -> {"off", "armed", "fired", "stopped"}] /\ rang \subseteq Tasks
        /\ wpc # "recv" => wtask \in Tasks
        /\ finished \in Seq(Tasks) /\ Len(finished) \in Nat
    BY <1>0, LenProperties DEF TypeOK
  <1>1. ASSUME NEW c \in Callers, CallerStep(c) PROVE AlarmInv'
    BY <1>1, AlarmFrame DEF CallerStep, PushUndefined, PushRead, PushSend, PushStore,
       PushWrap, PushFull, SyncReturn, workerVars
  <1>2. CASE Receive
    <2>1. Head(queue) \in Tasks /\ \A i \in 1 .. Len(finished) : finished[i] # Head(queue)
      BY <1>0, <1>2, HeadUnfinished, HeadTailProperties DEF Receive, TypeOK
    <2>2. timer[Head(queue)] = "off"
      BY <1>2, <2>1 DEF Receive, AlarmInv, TimersOfReceived
    <2>3. \A t \in Tasks : timer[t] # "armed"
      BY <1>2 DEF Receive, AlarmInv, AlarmForItsTask
    <2>4. AlarmForItsTask'
      BY <1>2, <1>t, <2>1, <2>2, <2>3 DEF Receive, AlarmInv, AlarmForItsTask
    <2>5. TimersOfReceived'
      BY <1>2, <1>t, <2>1 DEF Receive, AlarmInv, TimersOfReceived
    <2>6. QED
      BY <2>4, <2>5 DEF AlarmInv
  <1>3. ASSUME NEW r \in Results, Handle(r) PROVE AlarmInv'
    BY <1>3 DEF Handle, AlarmInv, AlarmForItsTask, TimersOfReceived
  <1>4. CASE StopTimer
    <2>1. AlarmForItsTask'
      BY <1>4, <1>t DEF StopTimer, AlarmInv, AlarmForItsTask
    <2>2. TimersOfReceived'
      BY <1>4, <1>t DEF StopTimer, AlarmInv, TimersOfReceived
    <2>3. QED
      BY <2>1, <2>2 DEF AlarmInv
  <1>5. CASE SendDone
    <2>1. /\ Len(finished') = Len(finished) + 1
          /\ finished'[Len(finished) + 1] = wtask
          /\ \A i \in 1 .. Len(finished) : finished'[i] = finished[i]
      BY <1>5, <1>t, AppendProperties DEF SendDone
    <2>2. AlarmForItsTask'
      BY <1>5 DEF SendDone, AlarmInv, AlarmForItsTask
    <2>3. TimersOfReceived'
      BY <1>5, <1>t, <2>1 DEF SendDone, AlarmInv, TimersOfReceived
    <2>4. QED
      BY <2>2, <2>3 DEF AlarmInv
  <1>6. ASSUME NEW t \in Tasks, AlarmFires(t) PROVE AlarmInv'
    <2>1. AlarmForItsTask'
      BY <1>6, <1>t DEF AlarmFires, AlarmInv, AlarmForItsTask, workerVars
    <2>2. TimersOfReceived'
      BY <1>6, <1>t DEF AlarmFires, AlarmInv, TimersOfReceived, workerVars
    <2>3. QED
      BY <2>1, <2>2 DEF AlarmInv
  <1>7. ASSUME NEW t \in Tasks, AlarmHandler(t) PROVE AlarmInv'
    BY <1>7, <1>t
       DEF AlarmHandler, AlarmTask, AlarmInv, AlarmForItsTask, TimersOfReceived, workerVars
  <1>8. CASE UNCHANGED vars
    BY <1>8, AlarmFrame DEF vars, workerVars
  <1>9. QED
    BY <1>1, <1>2, <1>3, <1>4, <1>5, <1>6, <1>7, <1>8 DEF Next, WorkerStep, AlarmStep

(* The alarm handler hears only of tasks whose own timer expired, and no   *)
(* timer outlives its task's turn, with any number of tasks in flight.     *)
THEOREM AlarmsForTheirTasks == Spec => []AlarmForItsTask
  <1>1. Init => AlarmInv
    BY DEF Init, AlarmInv, AlarmForItsTask, TimersOfReceived
  <1>2. AlarmInv => AlarmForItsTask
    BY DEF AlarmInv
  <1>3. QED
    BY <1>1, <1>2, AlarmStepKeeps, Invariant, PTL DEF Spec

-----------------------------------------------------------------------------
(* The debug ring *)

(* The i-th element from the one q.ring points at, without the modulus.    *)
Slot(i) == IF ringPos + i - 1 < Capacity THEN ringPos + i - 1 ELSE ringPos + i - 1 - Capacity

(* The tasks the ring has taken: the sender under the lock is still to     *)
(* record its own.                                                         *)
Recorded == IF Locked THEN Len(accepted) - 1 ELSE Len(accepted)

(* The mutex admits one sender, whose task is the one accepted last.       *)
Holds(c) == pc[c] \in {"store", "wrap"}
OneSender ==
    /\ \A c, d \in Callers : Holds(c) /\ Holds(d) => c = d
    /\ \A c \in Callers : Holds(c) =>
        Len(accepted) > 0 /\ mine[c] = accepted[Len(accepted)]

(* Read from q.ring on, the ring holds the last Capacity recorded tasks,   *)
(* behind nils while there are fewer.                                      *)
RingHolds ==
    \A i \in 1 .. Capacity :
        ring[Slot(i)] = IF Recorded - Capacity + i >= 1
                        THEN accepted[Recorded - Capacity + i] ELSE NoTask

(* The inductive invariant behind DebuggerSeesLastTasks.                   *)
RingInv == OneSender /\ RingHolds

(* Slot takes the modulus of RingAt.                                       *)
LEMMA SlotIsModulus ==
    ASSUME TypeOK, NEW i \in 1 .. Capacity
    PROVE  Slot(i) \in Slots /\ RingAt(i) = ring[Slot(i)]
  <1>1. ringPos \in 0 .. Capacity - 1 /\ Capacity \in Nat \ {0}
    BY DEF TypeOK, Slots
  <1>2. Slot(i) \in 0 .. Capacity - 1
    BY <1>1 DEF Slot
  <1>3. (ringPos + i - 1) % Capacity = Slot(i)
    <2>1. CASE ringPos + i - 1 < Capacity
      BY <1>1, <2>1 DEF Slot
    <2>2. CASE ~(ringPos + i - 1 < Capacity)
      <3>1. ringPos + i - 1 = 1 * Capacity + Slot(i)
        BY <1>1, <2>2 DEF Slot
      <3>2. QED
        BY <1>1, <1>2, <3>1
    <2>3. QED
      BY <2>1, <2>2
  <1>4. QED
    BY <1>2, <1>3 DEF RingAt, Slots

(* Steps that leave the ring, the lock and the accepted tasks alone.       *)
LEMMA RingFrame ==
    ASSUME RingInv, UNCHANGED <<ring, ringPos, accepted>>,
           \A c \in Callers : Holds(c)' <=> Holds(c),
           \A c \in Callers : Holds(c) => mine'[c] = mine[c]
    PROVE  RingInv'
  <1>1. Locked' = Locked
    BY DEF Locked, Holds
  <1>2. Recorded' = Recorded
    BY <1>1 DEF Recorded
  <1>3. OneSender'
    BY DEF RingInv, OneSender
  <1>4. RingHolds'
    BY <1>2 DEF RingInv, RingHolds, Slot
  <1>5. QED
    BY <1>3, <1>4 DEF RingInv

(* Every step keeps the ring at the last tasks.                            *)
LEMMA RingStep == TypeOK /\ RingInv /\ [Next]_vars => RingInv'
  <1> SUFFICES ASSUME TypeOK, RingInv, [Next]_vars PROVE RingInv'
    OBVIOUS
  <1>t. /\ accepted \in Seq(Tasks) /\ Len(accepted) \in Nat
        /\ pc \in [Callers -> {"idle", "lock", "store", "wrap", "wait"}]
        /\ ring \in [Slots -> Tasks \cup {NoTask}] /\ ringPos \in 0 .. Capacity - 1
        /\ Capacity \in Nat \ {0}
    BY LenProperties DEF TypeOK, Slots
  <1>1. ASSUME NEW c \in Callers, PushSend(c) PROVE RingInv'
    <2>1. mine[c] \in Tasks
      BY <1>1, MineAllocated DEF PushSend
    <2>2. /\ Len(accepted') = Len(accepted) + 1
          /\ accepted'[Len(accepted) + 1] = mine[c]
          /\ \A i \in 1 .. Len(accepted) : accepted'[i] = accepted[i]
      BY <1>1, <1>t, <2>1, AppendProperties DEF PushSend
    <2>3. \A d \in Callers : Holds(d)' <=> d = c
      BY <1>1, <1>t DEF PushSend, Locked, Holds
    <2>4. ~Locked /\ Locked'
      BY <1>1, <2>3 DEF PushSend, Locked, Holds
    <2>5. Recorded' = Recorded /\ Recorded = Len(accepted)
      BY <2>2, <2>4, <1>t DEF Recorded
    <2>6. OneSender'
      BY <1>1, <2>2, <2>3, <1>t DEF PushSend, OneSender
    <2>7. RingHolds'
      <3> SUFFICES ASSUME NEW i \in 1 .. Capacity
                   PROVE  ring[Slot(i)] = IF Recorded - Capacity + i >= 1
                                THEN accepted'[Recorded - Capacity + i] ELSE NoTask
        BY <1>1, <2>5 DEF PushSend, RingHolds, Slot
      <3>1. Recorded - Capacity + i >= 1 => Recorded - Capacity + i \in 1 .. Len(accepted)
        BY <2>5, <1>t
      <3>2. QED
        BY <3>1, <2>2 DEF RingInv, RingHolds
    <2>8. QED
      BY <2>6, <2>7 DEF RingInv
  <1>2. ASSUME NEW c \in Callers, PushWrap(c) PROVE RingInv'
    <2>1. /\ pc[c] = "wrap" /\ Len(accepted) > 0 /\ mine[c] = accepted[Len(accepted)]
          /\ accepted' = accepted
      BY <1>2 DEF PushWrap, RingInv, OneSender, Holds
    <2>2. \A d \in Callers : ~Holds(d)'
      BY <1>2, <1>t DEF PushWrap, RingInv, OneSender, Holds
    <2>3. Locked /\ ~Locked'
      BY <2>1, <2>2 DEF Locked, Holds
    <2>4. Recorded = Len(accepted) - 1 /\ Recorded' = Recorded + 1
      BY <2>1, <2>3, <1>t DEF Recorded
    <2>5. ringPos' = IF ringPos + 1 < Capacity THEN ringPos + 1 ELSE 0
      <3>1. ringPos + 1 < Capacity => (ringPos + 1) % Capacity = ringPos + 1
        BY <1>t
      <3>2. ringPos + 1 = Capacity => (ringPos + 1) % Capacity = 0
        BY <1>t
      <3>3. QED
        BY <1>2, <1>t, <3>1, <3>2 DEF PushWrap, NextPos
    <2>6. ring' = [ring EXCEPT ![ringPos] = mine[c]]
      BY <1>2 DEF PushWrap
    <2>7. RingHolds'
      <3> SUFFICES ASSUME NEW i \in 1 .. Capacity
                   PROVE  ring'[Slot(i)'] = IF Recorded + 1 - Capacity + i >= 1
                                THEN accepted[Recorded + 1 - Capacity + i] ELSE NoTask
        BY <2>1, <2>4 DEF RingHolds
      <3>1. CASE i = Capacity
        <4>1. Slot(i)' = ringPos
          BY <3>1, <2>5, <1>t DEF Slot
        <4>2. ring'[ringPos] = accepted[Len(accepted)]
          BY <2>1, <2>6, <1>t DEF Slots
        <4>3. Recorded + 1 - Capacity + i = Len(accepted)
          BY <3>1, <2>4, <1>t
        <4>4. QED
          BY <4>1, <4>2, <4>3, <2>1
      <3>2. CASE i # Capacity
        <4>1. i + 1 \in 1 .. Capacity
          BY <3>2, <1>t
        <4>2. Slot(i)' = Slot(i + 1) /\ Slot(i + 1) # ringPos /\ Slot(i + 1) \in Slots
          BY <3>2, <2>5, <1>t DEF Slot, Slots
        <4>3. ring'[Slot(i)'] = ring[Slot(i + 1)]
          BY <4>2, <2>6, <1>t
        <4>4. ring[Slot(i + 1)] = IF Recorded - Capacity + (i + 1) >= 1
                     THEN accepted[Recorded - Capacity + (i + 1)] ELSE NoTask
          BY <4>1 DEF RingInv, RingHolds
        <4>5. Recorded - Capacity + (i + 1) = Recorded + 1 - Capacity + i
          BY <2>4, <1>t
        <4>6. QED
          BY <4>3, <4>4, <4>5
      <3>3. QED
        BY <3>1, <3>2
    <2>8. QED
      BY <2>2, <2>7 DEF RingInv, OneSender
  <1>3. ASSUME NEW c \in Callers, NEW s \in Subjects, PushUndefined(c, s) PROVE RingInv'
    BY <1>3, RingFrame DEF PushUndefined, Holds
  <1>3s. ASSUME NEW c \in Callers, PushStore(c) PROVE RingInv'
    <2>1. UNCHANGED <<ring, ringPos, accepted, mine>>
      BY <1>3s DEF PushStore
    <2>2. \A d \in Callers : Holds(d)' <=> Holds(d)
      BY <1>3s, <1>t DEF PushStore, Holds
    <2>3. QED
      BY <2>1, <2>2, RingFrame
  <1>4. ASSUME NEW c \in Callers, NEW s \in Subjects, NEW b \in BOOLEAN, PushRead(c, s, b)
        PROVE  RingInv'
    <2>1. /\ UNCHANGED <<ring, ringPos, accepted>>
          /\ \A d \in Callers : Holds(d)' <=> Holds(d)
      BY <1>4, <1>t DEF PushRead, Holds
    <2>2. \A d \in Callers : Holds(d) => mine'[d] = mine[d]
      BY <1>4 DEF PushRead, TypeOK, Holds
    <2>3. QED
      BY <2>1, <2>2, RingFrame
  <1>5. ASSUME NEW c \in Callers, PushFull(c) \/ SyncReturn(c) PROVE RingInv'
    <2>1. UNCHANGED <<ring, ringPos, accepted, mine>>
      BY <1>5 DEF PushFull, SyncReturn
    <2>2. \A d \in Callers : Holds(d)' <=> Holds(d)
      BY <1>5, <1>t DEF PushFull, SyncReturn, Holds
    <2>3. QED
      BY <2>1, <2>2, RingFrame
  <1>6. CASE WorkerStep
    BY <1>6, RingFrame DEF WorkerStep, Receive, Handle, StopTimer, SendDone, callerVars, Holds
  <1>7. ASSUME NEW t \in Tasks, AlarmStep(t) PROVE RingInv'
    BY <1>7, RingFrame DEF AlarmStep, AlarmFires, AlarmHandler, callerVars, Holds
  <1>8. CASE UNCHANGED vars
    BY <1>8, RingFrame DEF vars, callerVars, Holds
  <1>9. QED
    BY <1>1, <1>2, <1>3, <1>3s, <1>4, <1>5, <1>6, <1>7, <1>8 DEF Next, CallerStep

(* Every nonempty set of naturals has a smallest element.                  *)
LEMMA SmallestOf ==
    ASSUME NEW T, T \subseteq Nat, T # {}
    PROVE  \E x \in T : \A y \in T : x <= y
  <1>1. PICK x \in T : \A y \in T : ~(<<y, x>> \in OpToRel(<, Nat))
    BY NatLessThanWellFounded, WFMin
  <1>2. \A y \in T : ~(y < x)
    BY <1>1 DEF OpToRel
  <1>3. QED
    BY <1>2

(* f collects what q.ring.Do has appended after each element.              *)
Collects(f) ==
    f = [i \in 0 .. Capacity |->
            IF i = 0 THEN <<>>
            ELSE IF RingAt(i) = NoTask THEN f[i - 1] ELSE Append(f[i - 1], RingAt(i))]

(* Two such functions end alike: the smallest place where they differ      *)
(* would be neither 0 nor the successor of another.                        *)
LEMMA CollectsUnique ==
    ASSUME NEW f, NEW g, Collects(f), Collects(g)
    PROVE  f[Capacity] = g[Capacity]
  <1>0. Capacity \in Nat /\ 0 \in 0 .. Capacity /\ Capacity \in 0 .. Capacity
    OBVIOUS
  <1> DEFINE Body(h, i) == IF i = 0 THEN <<>>
                           ELSE IF RingAt(i) = NoTask THEN h[i - 1]
                           ELSE Append(h[i - 1], RingAt(i))
  <1>1. \A i \in 0 .. Capacity : f[i] = Body(f, i) /\ g[i] = Body(g, i)
    BY Zenon DEF Collects
  <1>2. Body(f, 0) = Body(g, 0)
    OBVIOUS
  <1>3. ASSUME NEW i \in 1 .. Capacity, f[i - 1] = g[i - 1] PROVE Body(f, i) = Body(g, i)
    BY <1>3
  <1> HIDE DEF Body
  <1> DEFINE T == {i \in 0 .. Capacity : f[i] # g[i]}
  <1>4. T \subseteq Nat /\ 0 \notin T /\ \A i \in 0 .. Capacity : i \notin T => f[i] = g[i]
    BY <1>0, <1>1, <1>2
  <1>5. \A i \in 1 .. Capacity : i - 1 \notin T => i \notin T
    <2> SUFFICES ASSUME NEW i \in 1 .. Capacity, i - 1 \notin T PROVE i \notin T
      OBVIOUS
    <2>1. i - 1 \in 0 .. Capacity /\ i \in 0 .. Capacity
      BY <1>0
    <2>2. f[i - 1] = g[i - 1]
      BY <2>1, <1>4
    <2>3. QED
      BY <2>1, <2>2, <1>1, <1>3
  <1>6. \A i \in T : i \in 0 .. Capacity
    OBVIOUS
  <1> HIDE DEF T
  <1>7. CASE T = {}
    BY <1>0, <1>4, <1>7
  <1>8. CASE T # {}
    <2>1. PICK m \in T : \A k \in T : m <= k
      BY <1>4, <1>8, SmallestOf
    <2>2. m \in 1 .. Capacity /\ m - 1 \notin T
      BY <2>1, <1>0, <1>4, <1>6
    <2>3. QED
      BY <2>1, <2>2, <1>5
  <1>9. QED
    BY <1>7, <1>8

(* If some function collects, RingDump is its last value.                  *)
LEMMA DumpCollects ==
    ASSUME NEW f, Collects(f)
    PROVE  RingDump = f[Capacity]
  <1> DEFINE g == CHOOSE h : Collects(h)
  <1>1. RingDump = g[Capacity]
    BY DEF RingDump, Collects
  <1>2. Collects(g)
    <2>1. \E h : Collects(h)
      OBVIOUS
    <2>2. QED
      BY <2>1, Zenon
  <1> HIDE DEF g
  <1>3. QED
    BY <1>1, <1>2, CollectsUnique

(* A ring that holds the last tasks is dumped as those tasks: the prefixes *)
(* of LastTasks, behind the nils, are what Do collects.                    *)
LEMMA DumpOfRing ==
    ASSUME TypeOK, RingHolds, ~Locked
    PROVE  RingDump = LastTasks
  <1>t. /\ accepted \in Seq(Tasks) /\ Len(accepted) \in Nat /\ Capacity \in Nat \ {0}
        /\ \A i \in 1 .. Len(accepted) : accepted[i] \in Tasks
    BY LenProperties, ElementOfSeq DEF TypeOK
  <1> DEFINE L == Len(accepted)
             first == IF L > Capacity THEN L - Capacity + 1 ELSE 1
             Part(n) == SubSeq(accepted, first, n)
             f == [i \in 0 .. Capacity |-> Part(L - Capacity + i)]
  <1>1. \A i \in 1 .. Capacity :
          RingAt(i) = IF L - Capacity + i >= 1 THEN accepted[L - Capacity + i] ELSE NoTask
    BY SlotIsModulus DEF RingHolds, Recorded
  <1>2. first \in Nat \ {0} /\ L - Capacity < first /\ L - Capacity \in Int
    BY <1>t
  <1>3. first = 1 \/ first = L - Capacity + 1
    OBVIOUS
  <1>4. Part(L) = LastTasks
    BY Zenon DEF LastTasks
  <1> HIDE DEF first
  <1>5. \A n \in Int : n < first => Part(n) = <<>>
    BY <1>2, SubSeqEmpty
  <1>6. ASSUME NEW n \in 1 .. L, first <= n
        PROVE  Part(n) = Append(Part(n - 1), accepted[n])
    <2>1. first \in 1 .. Len(accepted) /\ n \in first .. Len(accepted)
      BY <1>2, <1>6, <1>t
    <2>2. Part(n) = Part(n - 1) \o <<accepted[n]>>
      BY <2>1, <1>t, SubSeqRecursiveSecond
    <2>3. Part(n - 1) \in Seq(Tasks) /\ accepted[n] \in Tasks
      <3>1. \A i \in first .. n - 1 : accepted[i] \in Tasks
        BY <1>t, <2>1
      <3>2. first \in Int /\ n - 1 \in Int
        BY <1>2, <1>t
      <3>3. QED
        BY <3>1, <3>2, <1>t, SubSeqProperties
    <2>4. QED
      BY <2>2, <2>3, AppendIsConcat
  <1> HIDE DEF Part
  <1>7. \A i \in 0 .. Capacity : f[i] = Part(L - Capacity + i)
    OBVIOUS
  <1>8. f = [i \in 0 .. Capacity |->
                IF i = 0 THEN <<>>
                ELSE IF RingAt(i) = NoTask THEN f[i - 1] ELSE Append(f[i - 1], RingAt(i))]
    <2> SUFFICES ASSUME NEW i \in 0 .. Capacity
                 PROVE  Part(L - Capacity + i) =
                          IF i = 0 THEN <<>>
                          ELSE IF RingAt(i) = NoTask THEN f[i - 1]
                          ELSE Append(f[i - 1], RingAt(i))
      BY Zenon
    <2> HIDE DEF f
    <2>1. CASE i = 0
      <3>1. Part(L - Capacity) = <<>> /\ L - Capacity + i = L - Capacity
        BY <2>1, <1>2, <1>5
      <3>2. QED
        BY <2>1, <3>1
    <2>2. CASE i # 0 /\ L - Capacity + i < 1
      <3>1. i \in 1 .. Capacity /\ i - 1 \in 0 .. Capacity
        BY <2>2, <1>t
      <3>2. RingAt(i) = NoTask
        BY <2>2, <3>1, <1>1, <1>t
      <3>3. Part(L - Capacity + i) = <<>> /\ Part(L - Capacity + (i - 1)) = <<>>
        BY <2>2, <3>1, <1>2, <1>5, <1>t
      <3>4. f[i - 1] = <<>>
        BY <3>1, <3>3, <1>7
      <3>5. QED
        BY <2>2, <3>2, <3>3, <3>4
    <2>3. CASE i # 0 /\ L - Capacity + i >= 1
      <3>1. i \in 1 .. Capacity /\ i - 1 \in 0 .. Capacity /\ L - Capacity + i \in 1 .. L
        BY <2>3, <1>t
      <3>2. first <= L - Capacity + i
        BY <3>1, <1>3, <1>t
      <3>3. RingAt(i) = accepted[L - Capacity + i] /\ RingAt(i) \in Tasks
        BY <2>3, <3>1, <1>1, <1>t
      <3>4. RingAt(i) # NoTask
        BY <3>3 DEF Tasks, NoTask
      <3>5. Part(L - Capacity + i) = Append(Part(L - Capacity + i - 1), RingAt(i))
        BY <3>1, <3>2, <3>3, <1>6
      <3>6. L - Capacity + i - 1 = L - Capacity + (i - 1)
        BY <1>t
      <3>7. f[i - 1] = Part(L - Capacity + i - 1)
        BY <3>1, <3>6, <1>7
      <3>8. QED
        BY <2>3, <3>4, <3>5, <3>7
    <2>4. QED
      BY <2>1, <2>2, <2>3, <1>t
  <1>9. Collects(f)
    BY <1>8, Zenon DEF Collects
  <1>10. f[Capacity] = LastTasks
    <2>1. Capacity \in 0 .. Capacity /\ L - Capacity + Capacity = L
      BY <1>t
    <2>2. QED
      BY <2>1, <1>4, <1>7
  <1>11. QED
    BY <1>9, <1>10, DumpCollects, Zenon

(* The empty ring and the free lock satisfy the invariant.                 *)
LEMMA InitRing == Init => RingInv
  <1> SUFFICES ASSUME Init PROVE RingInv
    OBVIOUS
  <1>1. Len(accepted) = 0 /\ ~Locked
    BY DEF Init, Locked
  <1>2. \A i \in 1 .. Capacity : Slot(i) \in Slots
    BY DEF Init, Slot, Slots
  <1>3. QED
    BY <1>1, <1>2 DEF Init, RingInv, OneSender, RingHolds, Recorded, Holds

(* The dump handed to the debugger is the last Capacity accepted tasks in  *)
(* order, for every capacity and any number of wraps of the ring.          *)
THEOREM DumpIsLastTasks == Spec => []DebuggerSeesLastTasks
  <1>1. TypeOK /\ RingInv => DebuggerSeesLastTasks
    BY DumpOfRing DEF RingInv, DebuggerSeesLastTasks
  <1>2. QED
    BY <1>1, InitRing, RingStep, TypeCorrect, PTL DEF Spec

-----------------------------------------------------------------------------
(* The Idx of consecutive tasks *)

(* q.idx is the Idx of the task stored last, or 0 once that was the        *)
(* largest Idx; a push carries another Idx than the task stored last when  *)
(* it read q.idx.                                                          *)
IdxOfLast ==
    Stored > 0 =>
        \/ idx = taskIdx[accepted[Stored]]
        \/ idx = 0 /\ taskIdx[accepted[Stored]] = IdxMod - 1
SeenInPast == \A t \in Tasks : seen[t] <= Stored
ReadDiffers ==
    \A t \in 1 .. made : seen[t] > 0 => taskIdx[t] # taskIdx[accepted[seen[t]]]

(* The inductive invariant behind IdxDiffersWithoutOverlap.                *)
IdxInv == IdxOfLast /\ SeenInPast /\ ReadDiffers

(* Steps that neither read nor write q.idx.                                *)
LEMMA IdxFrame ==
    ASSUME IdxInv, UNCHANGED <<made, idx, taskIdx, accepted, seen>>,
           \A c \in Callers : pc'[c] = "store" <=> pc[c] = "store"
    PROVE  IdxInv'
  <1>1. Stored' = Stored
    BY DEF Stored
  <1>2. QED
    BY <1>1 DEF IdxInv, IdxOfLast, SeenInPast, ReadDiffers

(* The Idx computed from q.idx differs from q.idx, and from the largest    *)
(* Idx when q.idx has been reset to 0.                                     *)
LEMMA NextIdxDiffers ==
    ASSUME TypeOK
    PROVE  NextIdx # idx /\ (idx = 0 => NextIdx # IdxMod - 1)
  <1>1. idx \in 0 .. IdxMod - 1 /\ IdxMod \in Nat /\ IdxMod > 2
    BY DEF TypeOK
  <1>2. idx + 1 < IdxMod => (idx + 1) % IdxMod = idx + 1
    BY <1>1
  <1>3. idx + 1 = IdxMod => (idx + 1) % IdxMod = 0
    BY <1>1
  <1>4. QED
    BY <1>1, <1>2, <1>3 DEF NextIdx

(* Every step keeps the Idx of a push apart from the one it read.          *)
LEMMA IdxStep == IInv /\ RingInv /\ IdxInv /\ [Next]_vars => IdxInv'
  <1> SUFFICES ASSUME IInv, RingInv, IdxInv, [Next]_vars PROVE IdxInv'
    OBVIOUS
  <1>0. TypeOK /\ TaskOwners /\ OneSender
    BY DEF IInv, RingInv
  <1>t. /\ idx \in 0 .. IdxMod - 1 /\ taskIdx \in [Tasks -> 0 .. IdxMod - 1]
        /\ seen \in [Tasks -> Nat] /\ accepted \in Seq(Tasks) /\ Len(accepted) \in Nat
        /\ \A i \in 1 .. Len(accepted) : accepted[i] \in 1 .. made
        /\ made \in 0 .. MaxPushes
        /\ pc \in [Callers -> {"idle", "lock", "store", "wrap", "wait"}]
    <2>1. \A i \in 1 .. Len(accepted) : accepted[i] \in Tasks
      BY <1>0, ElementOfSeq DEF TypeOK
    <2>2. \A i \in 1 .. Len(accepted) : accepted[i] \in 1 .. made
      <3>1. made \in Nat /\ \A i \in 1 .. Len(accepted) : accepted[i] <= made
        BY <1>0 DEF TypeOK, TaskOwners
      <3>2. QED
        BY <2>1, <3>1 DEF Tasks
    <2>3. QED
      BY <1>0, <2>2, LenProperties DEF TypeOK
  <1>s. Stored \in 0 .. Len(accepted)
    <2>1. (\E c \in Callers : pc[c] = "store") => Len(accepted) > 0
      BY <1>0 DEF OneSender, Holds
    <2>2. QED
      BY <2>1, <1>t DEF Stored
  <1>m. \A t \in 1 .. made : t \in Tasks /\ seen[t] \in 0 .. Len(accepted)
    BY <1>s, <1>t DEF IdxInv, SeenInPast, Tasks
  <1>1. ASSUME NEW c \in Callers, NEW s \in Subjects, NEW b \in BOOLEAN, PushRead(c, s, b)
        PROVE  IdxInv'
    <2>1. made + 1 \in Tasks
      BY <1>1, <1>t DEF PushRead, Tasks
    <2>2. /\ taskIdx'[made + 1] = NextIdx /\ seen'[made + 1] = Stored
          /\ \A t \in 1 .. made : taskIdx'[t] = taskIdx[t] /\ seen'[t] = seen[t]
          /\ accepted' = accepted /\ idx' = idx /\ made' = made + 1
      BY <1>1, <1>t, <2>1 DEF PushRead, Tasks
    <2>3. Stored' = Stored
      <3>1. \A d \in Callers : pc'[d] = "store" <=> pc[d] = "store"
        BY <1>1, <1>t DEF PushRead
      <3>2. QED
        BY <2>2, <3>1 DEF Stored
    <2>4. \A i \in 1 .. Len(accepted) : taskIdx'[accepted[i]] = taskIdx[accepted[i]]
      BY <2>2, <1>t
    <2>5. IdxOfLast'
      BY <2>2, <2>3, <2>4, <1>s, <1>t DEF IdxInv, IdxOfLast
    <2>6. SeenInPast'
      BY <1>1, <2>1, <2>3, <1>s, <1>t DEF PushRead, IdxInv, SeenInPast
    <2>7. ReadDiffers'
      <3> SUFFICES ASSUME NEW t \in 1 .. made + 1, seen'[t] > 0
                   PROVE  taskIdx'[t] # taskIdx'[accepted[seen'[t]]]
        BY <2>2 DEF ReadDiffers
      <3>1. CASE t = made + 1
        <4>1. Stored \in 1 .. Len(accepted) /\ seen'[t] = Stored
          BY <3>1, <2>2, <1>s
        <4>2. NextIdx # taskIdx[accepted[Stored]]
          BY <4>1, <1>0, NextIdxDiffers DEF IdxInv, IdxOfLast
        <4>3. QED
          BY <3>1, <4>1, <4>2, <2>2, <2>4
      <3>2. CASE t \in 1 .. made
        <4>1. seen[t] \in 1 .. Len(accepted) /\ seen'[t] = seen[t]
          BY <3>2, <2>2, <1>m
        <4>2. QED
          BY <3>2, <4>1, <2>2, <2>4 DEF IdxInv, ReadDiffers
      <3>3. QED
        BY <3>1, <3>2, <1>t
    <2>8. QED
      BY <2>5, <2>6, <2>7 DEF IdxInv
  <1>2. ASSUME NEW c \in Callers, PushSend(c) PROVE IdxInv'
    <2>1. mine[c] \in Tasks
      BY <1>2, <1>0, MineAllocated DEF PushSend
    <2>2. /\ Len(accepted') = Len(accepted) + 1
          /\ \A i \in 1 .. Len(accepted) : accepted'[i] = accepted[i]
      BY <1>2, <1>t, <2>1, AppendProperties DEF PushSend
    <2>3. idx' = idx /\ taskIdx' = taskIdx /\ seen' = seen /\ made' = made
      BY <1>2 DEF PushSend
    <2>4. Stored = Len(accepted) /\ Stored' = Len(accepted)
      <3>1. pc'[c] = "store" /\ \A d \in Callers : pc[d] # "store"
        BY <1>2, <1>t DEF PushSend, Locked
      <3>2. QED
        BY <3>1, <2>2, <1>t DEF Stored
    <2>5. IdxOfLast' /\ SeenInPast'
      BY <2>2, <2>3, <2>4, <1>t DEF IdxInv, IdxOfLast, SeenInPast
    <2>6. ReadDiffers'
      BY <2>2, <2>3, <1>m DEF IdxInv, ReadDiffers
    <2>7. QED
      BY <2>5, <2>6 DEF IdxInv
  <1>3. ASSUME NEW c \in Callers, PushStore(c) PROVE IdxInv'
    <2>1. idx' = taskIdx[mine[c]] /\ UNCHANGED <<taskIdx, seen, made, accepted>>
      BY <1>3 DEF PushStore
    <2>2. mine[c] = accepted[Len(accepted)] /\ Len(accepted) > 0
      BY <1>3, <1>0 DEF PushStore, OneSender, Holds
    <2>3. Stored = Len(accepted) - 1 /\ Stored' = Len(accepted)
      <3>1. \A d \in Callers : pc[d] = "store" <=> d = c
        BY <1>3, <1>0 DEF PushStore, OneSender, Holds
      <3>2. \A d \in Callers : pc'[d] # "store"
        BY <1>3, <3>1, <1>t DEF PushStore
      <3>3. QED
        BY <2>1, <3>1, <3>2 DEF Stored
    <2>4. IdxOfLast'
      BY <2>1, <2>2, <2>3 DEF IdxOfLast
    <2>5. SeenInPast'
      BY <2>1, <2>3, <1>t DEF IdxInv, SeenInPast
    <2>6. QED
      BY <2>1, <2>4, <2>5 DEF IdxInv, ReadDiffers
  <1>4. ASSUME NEW c \in Callers, PushWrap(c) PROVE IdxInv'
    <2>1. /\ UNCHANGED <<taskIdx, accepted, seen, made>>
          /\ idx' = IF idx > IdxMod - 2 THEN 0 ELSE idx
          /\ \A d \in Callers : pc'[d] = "store" <=> pc[d] = "store"
      BY <1>4, <1>t DEF PushWrap
    <2>2. Stored' = Stored
      BY <2>1 DEF Stored
    <2>3. IdxOfLast'
      BY <2>1, <2>2, <1>s, <1>t DEF IdxInv, IdxOfLast
    <2>4. QED
      BY <2>1, <2>2, <2>3 DEF IdxInv, SeenInPast, ReadDiffers
  <1>5. ASSUME NEW c \in Callers, NEW s \in Subjects, PushUndefined(c, s) PROVE IdxInv'
    BY <1>5, IdxFrame DEF PushUndefined
  <1>6. ASSUME NEW c \in Callers, PushFull(c) \/ SyncReturn(c) PROVE IdxInv'
    BY <1>6, <1>t, IdxFrame DEF PushFull, SyncReturn
  <1>7. CASE WorkerStep
    BY <1>7, IdxFrame DEF WorkerStep, Receive, Handle, StopTimer, SendDone, callerVars
  <1>8. ASSUME NEW t \in Tasks, AlarmStep(t) PROVE IdxInv'
    BY <1>8, IdxFrame DEF AlarmStep, AlarmFires, AlarmHandler, callerVars
  <1>9. CASE UNCHANGED vars
    BY <1>9, IdxFrame DEF vars, callerVars
  <1>10. QED
    BY <1>1, <1>2, <1>3, <1>4, <1>5, <1>6, <1>7, <1>8, <1>9 DEF Next, CallerStep

(* Whatever the width of Idx and however many callers race: a push that    *)
(* read q.idx after the push before it had stored its own, and that nobody *)
(* overtook, carries another Idx than the task accepted before it.         *)
THEOREM IdxTellsApart == Spec => []IdxDiffersWithoutOverlap
  <1>1. Init => IdxInv
    <2> SUFFICES ASSUME Init PROVE IdxInv
      OBVIOUS
    <2>1. Stored = 0 /\ made = 0
      BY DEF Init, Stored
    <2>2. QED
      BY <2>1 DEF Init, IdxInv, IdxOfLast, SeenInPast, ReadDiffers
  <1>2. IInv /\ IdxInv => IdxDiffersWithoutOverlap
    <2> SUFFICES ASSUME IInv, IdxInv, NEW i \in 1 .. Len(accepted) - 1,
                        seen[accepted[i + 1]] = i
                 PROVE  taskIdx[accepted[i + 1]] # taskIdx[accepted[i]]
      BY DEF IdxDiffersWithoutOverlap
    <2>1. accepted \in Seq(Tasks) /\ Len(accepted) \in Nat /\ made \in Nat
      BY LenProperties DEF IInv, TypeOK
    <2>2. i + 1 \in 1 .. Len(accepted) /\ i > 0
      BY <2>1
    <2>3. accepted[i + 1] \in Tasks /\ accepted[i + 1] <= made
      BY <2>1, <2>2, ElementOfSeq DEF IInv, TaskOwners
    <2>4. accepted[i + 1] \in 1 .. made
      BY <2>1, <2>3 DEF Tasks
    <2>5. QED
      BY <2>2, <2>4 DEF IdxInv, ReadDiffers
  <1>3. QED
    BY <1>1, <1>2, IdxStep, InitRing, RingStep, Invariant, TypeCorrect, PTL DEF Spec

-----------------------------------------------------------------------------
(* Refinement *)

(* A step that leaves the channel, the worker's task, the done channels    *)
(* and the results alone is a stutter of the serial executor.              *)
LEMMA ExecutorStutter ==
    ASSUME UNCHANGED <<queue, wtask, done, result>>, (wpc' = "recv") <=> (wpc = "recv")
    PROVE  UNCHANGED Executor!vars
  BY DEF Executor!vars, Running

(* Every step of the queue is a step of the serial executor or a stutter.  *)
LEMMA ExecutorStep == IInv /\ [Next]_vars => [Executor!Next]_(Executor!vars)
  <1> SUFFICES ASSUME IInv, [Next]_vars PROVE [Executor!Next]_(Executor!vars)
    OBVIOUS
  <1> USE DEF IInv
  <1>0. /\ queue \in Seq(Tasks) /\ Running \in Seq(Tasks) /\ <<>> \in Seq(Tasks)
        /\ Len(queue) \in Nat /\ Len(Running) \in {0, 1}
    BY LenProperties DEF TypeOK, Running
  <1>1. ASSUME NEW c \in Callers, PushSend(c) PROVE Executor!Next
    <2>1. mine[c] \in Tasks
      BY <1>1, MineAllocated DEF PushSend, HasRoom
    <2>2. Running' = Running
      BY <1>1 DEF PushSend, HasRoom, Running, workerVars
    <2>3. Running' \o queue' = Append(Running \o queue, mine[c])
      BY <1>0, <1>1, <2>1, <2>2, AppendLast DEF PushSend, HasRoom
    <2>3a. Len(Running \o queue) = Len(Running) + Len(queue)
      BY <1>0, ConcatProperties
    <2>4. \A i \in 1 .. Len(Running) + Len(queue) : (Running \o queue)[i]
            = IF i <= Len(Running) THEN Running[i] ELSE queue[i - Len(Running)]
      BY <1>0, ConcatProperties
    <2>5. Len(Running \o queue) < Capacity + 1
      <3>1. Len(queue) < Capacity
        BY <1>1 DEF PushSend, HasRoom
      <3>2. \A m \in {0, 1}, n \in Nat : n < Capacity => m + n < Capacity + 1
        OBVIOUS
      <3>3. Len(Running) + Len(queue) < Capacity + 1
        BY <1>0, <3>1, <3>2
      <3>4. QED
        BY <2>3a, <3>3
    <2>6. \A i \in 1 .. Len(accepted) : accepted[i] # mine[c]
      BY <1>1 DEF PushSend, HasRoom, TaskOwners
    <2>7. ASSUME NEW i \in 1 .. Len(Running \o queue)
          PROVE  (Running \o queue)[i] # mine[c]
      <3>1. CASE i <= Len(Running)
        <4>1. wpc # "recv" /\ i = 1 /\ Running[1] = wtask
          BY <1>0, <2>3a, <2>4, <3>1 DEF Running
        <4>2. QED
          BY <1>0, <2>3a, <2>4, <2>6, <3>1, <4>1, FifoPositions
      <3>2. CASE ~(i <= Len(Running))
        <4>1. i - Len(Running) \in 1 .. Len(queue)
          BY <1>0, <2>3a, <2>4, <3>2
        <4>2. QED
          BY <2>3a, <2>4, <2>6, <3>2, <4>1, FifoPositions
      <3>3. QED
        BY <3>1, <3>2
    <2>8. done[mine[c]] = "open"
      <3> SUFFICES ASSUME done[mine[c]] # "open" PROVE FALSE
        OBVIOUS
      <3>1. PICK i \in 1 .. Len(finished) : finished[i] = mine[c]
        BY <2>1 DEF DoneOfFinished
      <3>2. QED
        BY <2>6, <3>1, FifoPositions
    <2>9. Executor!Submit(mine[c])
      BY <1>1, <2>1, <2>3, <2>5, <2>7, <2>8 DEF Executor!Submit, PushSend, HasRoom
    <2>10. QED
      BY <2>1, <2>9 DEF Executor!Next
  <1>2. CASE Receive
    <2>1. Running = <<>> /\ Running' = <<Head(queue)>>
      BY <1>2 DEF Receive, Running
    <2>2. Running \o queue = queue
      BY <1>0, <2>1, ConcatEmptySeq
    <2>3. Running' \o queue' = queue
      BY <1>0, <1>2, <2>1, HeadFirst DEF Receive
    <2>4. QED
      BY <1>2, <2>2, <2>3 DEF Receive, Executor!vars
  <1>3. ASSUME NEW r \in Results, Handle(r) PROVE UNCHANGED Executor!vars
    <2>1. wtask \in Tasks /\ done[wtask] = "open"
      BY <1>3 DEF Handle, TypeOK, SyncResult
    <2>2. \A t \in Tasks : t # wtask => result'[t] = result[t]
      BY <1>3 DEF Handle, TypeOK
    <2>3. Running' = Running /\ queue' = queue /\ done' = done
      BY <1>3 DEF Handle, Running
    <2>4. QED
      BY <2>1, <2>2, <2>3 DEF Executor!vars
  <1>4. CASE StopTimer
    BY <1>4, ExecutorStutter DEF StopTimer
  <1>5. CASE SendDone
    <2>1. wtask \in Tasks /\ werr = result[wtask] /\ werr \in Results
      BY <1>5 DEF SendDone, SentResult, TypeOK, DoneOfFinished
    <2>2. Running = <<wtask>> /\ Running' = <<>> /\ queue' = queue
      BY <1>5 DEF SendDone, SentResult, Running
    <2>3. Running' \o queue' = queue
      BY <1>0, <2>2, ConcatEmptySeq
    <2>4. /\ Running \o queue \in Seq(Tasks)
          /\ Len(Running \o queue) = 1 + Len(queue)
          /\ \A i \in 1 .. 1 + Len(queue) : (Running \o queue)[i]
               = IF i <= 1 THEN Running[i] ELSE queue[i - 1]
      BY <1>0, <2>2, ConcatProperties
    <2>5. Running \o queue # <<>> /\ Head(Running \o queue) = wtask
      BY <1>0, <2>2, <2>4
    <2>6. Tail(Running \o queue) = queue
      <3>1. /\ Tail(Running \o queue) \in Seq(Tasks)
            /\ Len(Tail(Running \o queue)) = Len(queue)
            /\ \A i \in 1 .. Len(queue) : Tail(Running \o queue)[i] = (Running \o queue)[i + 1]
        BY <1>0, <2>4, <2>5, HeadTailProperties
      <3>2. \A i \in 1 .. Len(queue) : Tail(Running \o queue)[i] = queue[i]
        BY <1>0, <2>4, <3>1
      <3>3. QED
        BY <1>0, <3>1, <3>2, SeqEqual
    <2>7. [t \in Tasks |-> IF done[t] = "open" THEN "none" ELSE result[t]]'
            = [[t \in Tasks |-> IF done[t] = "open" THEN "none" ELSE result[t]]
                EXCEPT ![wtask] = werr]
      <3>1. result' = result /\ done' = [done EXCEPT ![wtask] = werr] /\ werr # "open"
        BY <1>5, <2>1, ResultsAssumption DEF SendDone, SentResult
      <3>2. QED
        BY <2>1, <3>1 DEF TypeOK
    <2>8. PICK r \in Results : r = werr
      BY <2>1
    <2>9. Executor!Finish(r)
      BY <2>3, <2>5, <2>6, <2>7, <2>8 DEF Executor!Finish
    <2>10. QED
      BY <2>9 DEF Executor!Next
  <1>6. ASSUME NEW c \in Callers, SyncReturn(c) PROVE UNCHANGED Executor!vars
    <2>1. mine[c] \in Tasks /\ done[mine[c]] # "open"
      BY <1>6, MineAllocated, ResultsAssumption DEF SyncReturn
    <2>2. done'[mine[c]] = "read" /\ \A t \in Tasks : t # mine[c] => done'[t] = done[t]
      BY <1>6, <2>1 DEF SyncReturn, TypeOK
    <2>3. Running' = Running /\ queue' = queue /\ result' = result
      BY <1>6 DEF SyncReturn, Running, workerVars
    <2>4. QED
      BY <2>1, <2>2, <2>3 DEF Executor!vars
  <1>7. ASSUME NEW c \in Callers, NEW s \in Subjects, PushUndefined(c, s)
        PROVE  UNCHANGED Executor!vars
    BY <1>7, ExecutorStutter DEF PushUndefined, workerVars
  <1>8. ASSUME NEW c \in Callers, NEW s \in Subjects, NEW b \in BOOLEAN, PushRead(c, s, b)
        PROVE  UNCHANGED Executor!vars
    BY <1>8, ExecutorStutter DEF PushRead, workerVars
  <1>9. ASSUME NEW c \in Callers, PushStore(c) \/ PushWrap(c) \/ PushFull(c)
        PROVE  UNCHANGED Executor!vars
    BY <1>9, ExecutorStutter DEF PushStore, PushWrap, NextPos, PushFull, workerVars
  <1>10. ASSUME NEW t \in Tasks, AlarmStep(t) PROVE UNCHANGED Executor!vars
    BY <1>10, ExecutorStutter DEF AlarmStep, AlarmFires, AlarmHandler, workerVars
  <1>11. CASE UNCHANGED vars
    BY <1>11, ExecutorStutter DEF vars, workerVars
  <1>12. QED
    BY <1>1, <1>2, <1>3, <1>4, <1>5, <1>6, <1>7, <1>8, <1>9, <1>10, <1>11
       DEF Next, CallerStep, WorkerStep

(* The safety part of SerialExecution, for every queue: the task queue     *)
(* implements the serial executor with room for Capacity + 1 tasks.        *)
THEOREM QueueImplementsExecutor == Spec => Executor!Spec
  <1>1. Init => Executor!Init
    BY EmptySeq, ConcatEmptySeq DEF Init, Executor!Init, Running
  <1>2. QED
    BY <1>1, ExecutorStep, Invariant, PTL DEF Spec, Executor!Spec
=============================================================================
