------------------------------ MODULE TaskQueue ------------------------------
(***************************************************************************)
(* taskqueue/taskqueue.go: callers push tasks into a bounded channel and   *)
(* one worker goroutine runs them.  Every control operation of the agent   *)
(* (config, exit, start and stop of NATS, transport and controller) goes   *)
(* through one instance of this queue.                                     *)
(*                                                                         *)
(* A task is the number of the PushAsync call that allocated it.  PushAsync*)
(* reads q.idx before it takes q.mu (line 58), so the read, the send, the  *)
(* store into q.idx and its wrap are four separate steps.                  *)
(***************************************************************************)
EXTENDS Naturals, Sequences

CONSTANTS
    Callers,        \* goroutines that call PushAsync or PushSync
    Subjects,       \* subjects the callers use
    Handled,        \* the keys of q.handlers
    Capacity,       \* q.capacity
    IdxMod,         \* 2^8 for the uint8 of q.idx
    Alarm,          \* TRUE iff WithAlarm was given
    Results,        \* what a handler may return
    MaxPushes       \* bound: PushAsync calls with a known subject

ASSUME CapacityAssumption == Capacity \in Nat \ {0}
ASSUME IdxAssumption == IdxMod \in Nat /\ IdxMod > 2
ASSUME HandledAssumption == Handled \subseteq Subjects
ASSUME AlarmAssumption == Alarm \in BOOLEAN
ASSUME BoundAssumption == MaxPushes \in Nat
ASSUME ResultsAssumption ==
    Results \cap {"none", "refused", "queued", "open", "read"} = {}

Tasks == 1 .. MaxPushes
Slots == 0 .. Capacity - 1
NoTask == 0

VARIABLES
    made,       \* number of tasks allocated so far
    idx,        \* q.idx
    queue,      \* q.queue: the buffered channel
    ring,       \* q.ring: slot -> task, NoTask for nil
    ringPos,    \* the slot q.ring points at
    taskIdx,    \* task -> its Idx
    done,       \* task -> its done channel: open, a result, or read
    pc,         \* caller -> idle, lock, store and wrap (hold q.mu), wait
    mine,       \* caller -> the task of its current or last call
    sync,       \* caller -> TRUE inside PushSync
    ret,        \* caller -> what its last call returned; refused is any ErrTaskQueue
    wpc,        \* the worker: recv, handle, stop, done
    wtask,      \* the worker's loop variable
    werr,       \* the worker's err
    timer,      \* task -> its alarm timer: off, armed, fired, stopped
    rang,       \* tasks alarmHandler was called with
    accepted,   \* history: tasks in the order they entered the channel
    finished,   \* history: tasks in the order done was sent
    result,     \* history: task -> what its handler returned
    seen        \* history: task -> how many tasks were Stored when it read q.idx

callerVars == <<pc, mine, sync, ret>>
workerVars == <<wpc, wtask, werr>>
vars == <<made, idx, queue, ring, ringPos, taskIdx, done, callerVars,
          workerVars, timer, rang, accepted, finished, result, seen>>

Init ==
    /\ made = 0
    /\ idx = 0
    /\ queue = <<>>
    /\ ring = [s \in Slots |-> NoTask]
    /\ ringPos = 0
    /\ taskIdx = [t \in Tasks |-> 0]
    /\ done = [t \in Tasks |-> "open"]
    /\ pc = [c \in Callers |-> "idle"]
    /\ mine = [c \in Callers |-> NoTask]
    /\ sync = [c \in Callers |-> FALSE]
    /\ ret = [c \in Callers |-> "none"]
    /\ wpc = "recv"
    /\ wtask = NoTask
    /\ werr = "none"
    /\ timer = [t \in Tasks |-> "off"]
    /\ rang = {}
    /\ accepted = <<>>
    /\ finished = <<>>
    /\ result = [t \in Tasks |-> "none"]
    /\ seen = [t \in Tasks |-> 0]

-----------------------------------------------------------------------------
(* Callers *)

Locked == \E c \in Callers : pc[c] \in {"store", "wrap"}

(* How many of the accepted tasks have put their Idx into q.idx.           *)
Stored ==
    IF \E c \in Callers : pc[c] = "store" THEN Len(accepted) - 1 ELSE Len(accepted)

(* PushAsync of a subject without a handler. *)
PushUndefined(c, s) ==
    /\ pc[c] = "idle"
    /\ s \notin Handled
    /\ ret' = [ret EXCEPT ![c] = "refused"]
    /\ sync' = [sync EXCEPT ![c] = FALSE]
    /\ UNCHANGED <<made, idx, queue, ring, ringPos, taskIdx, done, pc, mine,
                   workerVars, timer, rang, accepted, finished, result, seen>>

(* Mutant of NextIdx: the increment is missing. *)
NextIdxSame == idx % IdxMod

(* The uint8 value the new task carries. *)
NextIdx == (idx + 1) % IdxMod

(* The task is allocated, with an Idx computed outside the lock. *)
PushRead(c, s, blocking) ==
    /\ pc[c] = "idle"
    /\ s \in Handled
    /\ made < MaxPushes
    /\ made' = made + 1
    /\ mine' = [mine EXCEPT ![c] = made + 1]
    /\ taskIdx' = [taskIdx EXCEPT ![made + 1] = NextIdx]
    /\ seen' = [seen EXCEPT ![made + 1] = Stored]
    /\ sync' = [sync EXCEPT ![c] = blocking]
    /\ ret' = [ret EXCEPT ![c] = "none"]
    /\ pc' = [pc EXCEPT ![c] = "lock"]
    /\ UNCHANGED <<idx, queue, ring, ringPos, done, workerVars, timer, rang,
                   accepted, finished, result>>

(* Mutant of HasRoom: the channel has no capacity. *)
HasRoomAlways == TRUE

(* The select of PushAsync: the send on the channel does not block. *)
HasRoom == Len(queue) < Capacity

(* Mutant of PushSend: the push is retried though its send succeeded. *)
PushSendAgain(c) ==
    /\ pc[c] = "lock"
    /\ ~Locked
    /\ HasRoom
    /\ queue' = Append(queue, mine[c])
    /\ accepted' = Append(accepted, mine[c])
    /\ UNCHANGED <<made, idx, ring, ringPos, taskIdx, done, callerVars,
                   workerVars, timer, rang, finished, result, seen>>

(* The lock is taken and the channel has room. *)
PushSend(c) ==
    /\ pc[c] = "lock"
    /\ ~Locked
    /\ HasRoom
    /\ queue' = Append(queue, mine[c])
    /\ accepted' = Append(accepted, mine[c])
    /\ pc' = [pc EXCEPT ![c] = "store"]
    /\ UNCHANGED <<made, idx, ring, ringPos, taskIdx, done, mine, sync, ret,
                   workerVars, timer, rang, finished, result, seen>>

(* q.idx takes the Idx of the task, which the worker may be running by now.*)
PushStore(c) ==
    /\ pc[c] = "store"
    /\ idx' = taskIdx[mine[c]]
    /\ pc' = [pc EXCEPT ![c] = "wrap"]
    /\ UNCHANGED <<made, queue, ring, ringPos, taskIdx, done, mine, sync, ret,
                   workerVars, timer, rang, accepted, finished, result, seen>>

(* Mutant of NextPos: the ring is not moved on. *)
NextPosSame == ringPos

(* q.ring.Next(). *)
NextPos == (ringPos + 1) % Capacity

(* Still under the lock: q.idx wraps, the debug ring takes the task. *)
PushWrap(c) ==
    /\ pc[c] = "wrap"
    /\ idx' = IF idx > IdxMod - 2 THEN 0 ELSE idx
    /\ ring' = [ring EXCEPT ![ringPos] = mine[c]]
    /\ ringPos' = NextPos
    /\ ret' = [ret EXCEPT ![c] = "queued"]
    /\ pc' = [pc EXCEPT ![c] = IF sync[c] THEN "wait" ELSE "idle"]
    /\ UNCHANGED <<made, queue, taskIdx, done, mine, sync, workerVars, timer,
                   rang, accepted, finished, result, seen>>

(* The lock is taken and the channel is full: the debugger gets RingDump.  *)
PushFull(c) ==
    /\ pc[c] = "lock"
    /\ ~Locked
    /\ ~HasRoom
    /\ ret' = [ret EXCEPT ![c] = "refused"]
    /\ pc' = [pc EXCEPT ![c] = "idle"]
    /\ UNCHANGED <<made, idx, queue, ring, ringPos, taskIdx, done, mine, sync,
                   workerVars, timer, rang, accepted, finished, result, seen>>

(* What q.ring.Do collects for the debugger, element by element from the   *)
(* one q.ring points at.                                                   *)
RingAt(i) == ring[(ringPos + i - 1) % Capacity]
RingDump ==
    LET Do[i \in 0 .. Capacity] ==
            IF i = 0 THEN <<>>
            ELSE IF RingAt(i) = NoTask THEN Do[i - 1] ELSE Append(Do[i - 1], RingAt(i))
    IN  Do[Capacity]

(* PushSync receives from the done channel of its own task. *)
SyncReturn(c) ==
    /\ pc[c] = "wait"
    /\ done[mine[c]] \in Results
    /\ ret' = [ret EXCEPT ![c] = done[mine[c]]]
    /\ done' = [done EXCEPT ![mine[c]] = "read"]
    /\ pc' = [pc EXCEPT ![c] = "idle"]
    /\ UNCHANGED <<made, idx, queue, ring, ringPos, taskIdx, mine, sync,
                   workerVars, timer, rang, accepted, finished, result, seen>>

-----------------------------------------------------------------------------
(* The worker goroutine, runQueue *)

(* Mutant of Receive: the newest task is served first. *)
ReceiveNewest ==
    /\ wpc = "recv"
    /\ queue # <<>>
    /\ wtask' = queue[Len(queue)]
    /\ queue' = SubSeq(queue, 1, Len(queue) - 1)
    /\ timer' = [timer EXCEPT ![queue[Len(queue)]] = IF Alarm THEN "armed" ELSE "off"]
    /\ wpc' = "handle"
    /\ UNCHANGED <<made, idx, ring, ringPos, taskIdx, done, callerVars, werr,
                   rang, accepted, finished, result, seen>>

(* The next task is received and its alarm timer armed. *)
Receive ==
    /\ wpc = "recv"
    /\ queue # <<>>
    /\ wtask' = Head(queue)
    /\ queue' = Tail(queue)
    /\ timer' = [timer EXCEPT ![Head(queue)] = IF Alarm THEN "armed" ELSE "off"]
    /\ wpc' = "handle"
    /\ UNCHANGED <<made, idx, ring, ringPos, taskIdx, done, callerVars, werr,
                   rang, accepted, finished, result, seen>>

(* The handler returns r. *)
Handle(r) ==
    /\ wpc = "handle"
    /\ werr' = r
    /\ result' = [result EXCEPT ![wtask] = r]
    /\ wpc' = "stop"
    /\ UNCHANGED <<made, idx, queue, ring, ringPos, taskIdx, done, callerVars,
                   wtask, timer, rang, accepted, finished, seen>>

(* alarmTimer.Stop: no effect on a timer that has fired. *)
StopTimer ==
    /\ wpc = "stop"
    /\ timer' = [timer EXCEPT ![wtask] = IF @ = "armed" THEN "stopped" ELSE @]
    /\ wpc' = "done"
    /\ UNCHANGED <<made, idx, queue, ring, ringPos, taskIdx, done, callerVars,
                   wtask, werr, rang, accepted, finished, result, seen>>

(* Mutant of SentResult: the handler's error is lost. *)
SentResultFixed == CHOOSE r \in Results : TRUE

(* What is sent on the done channel. *)
SentResult == werr

(* Mutant of SendDone: nothing is sent. *)
SendDoneForgets ==
    /\ wpc = "done"
    /\ finished' = Append(finished, wtask)
    /\ wpc' = "recv"
    /\ UNCHANGED <<made, idx, queue, ring, ringPos, taskIdx, done, callerVars,
                   wtask, werr, timer, rang, accepted, result, seen>>

(* The result is sent on the done channel, which has room for one value.   *)
SendDone ==
    /\ wpc = "done"
    /\ done[wtask] = "open"
    /\ done' = [done EXCEPT ![wtask] = SentResult]
    /\ finished' = Append(finished, wtask)
    /\ wpc' = "recv"
    /\ UNCHANGED <<made, idx, queue, ring, ringPos, taskIdx, callerVars,
                   wtask, werr, timer, rang, accepted, result, seen>>

-----------------------------------------------------------------------------
(* The alarm timer's goroutines *)

AlarmFires(t) ==
    /\ timer[t] = "armed"
    /\ timer' = [timer EXCEPT ![t] = "fired"]
    /\ UNCHANGED <<made, idx, queue, ring, ringPos, taskIdx, done, callerVars,
                   workerVars, rang, accepted, finished, result, seen>>

(* Mutant of AlarmTask: the closure reads the loop variable. *)
AlarmTaskLoop(t) == wtask

(* The closure of the timer keeps the task it was armed for. *)
AlarmTask(t) == t

AlarmHandler(t) ==
    /\ timer[t] = "fired"
    /\ t \notin rang
    /\ rang' = rang \cup {AlarmTask(t)}
    /\ UNCHANGED <<made, idx, queue, ring, ringPos, taskIdx, done, callerVars,
                   workerVars, timer, accepted, finished, result, seen>>

-----------------------------------------------------------------------------
CallerStep(c) ==
    \/ \E s \in Subjects : PushUndefined(c, s)
    \/ \E s \in Subjects, b \in BOOLEAN : PushRead(c, s, b)
    \/ PushSend(c)
    \/ PushStore(c)
    \/ PushWrap(c)
    \/ PushFull(c)
    \/ SyncReturn(c)

WorkerStep ==
    \/ Receive
    \/ \E r \in Results : Handle(r)
    \/ StopTimer
    \/ SendDone

AlarmStep(t) == AlarmFires(t) \/ AlarmHandler(t)

Next ==
    \/ \E c \in Callers : CallerStep(c)
    \/ WorkerStep
    \/ \E t \in Tasks : AlarmStep(t)

(* The worker keeps running and handlers return; a caller that started a   *)
(* push gets the mutex (sync.Mutex is starvation-free) and is scheduled.   *)
(* Nobody is obliged to push, and no timer is obliged to fire.             *)
Fairness ==
    /\ WF_vars(WorkerStep)
    /\ \A c \in Callers :
        /\ SF_vars(PushSend(c) \/ PushFull(c))
        /\ WF_vars(PushStore(c) \/ PushWrap(c))
        /\ WF_vars(SyncReturn(c))

Spec == Init /\ [][Next]_vars
FairSpec == Spec /\ Fairness

-----------------------------------------------------------------------------
(* Properties *)

(* Types of the queue's state: no more than Capacity tasks in the channel, *)
(* every stored task allocated by PushAsync.                               *)
TypeOK ==
    /\ made \in 0 .. MaxPushes
    /\ idx \in 0 .. IdxMod - 1
    /\ queue \in Seq(Tasks) /\ Len(queue) <= Capacity
    /\ ring \in [Slots -> Tasks \cup {NoTask}]
    /\ ringPos \in Slots
    /\ taskIdx \in [Tasks -> 0 .. IdxMod - 1]
    /\ done \in [Tasks -> Results \cup {"open", "read"}]
    /\ pc \in [Callers -> {"idle", "lock", "store", "wrap", "wait"}]
    /\ mine \in [Callers -> 0 .. made]
    /\ \A c \in Callers : pc[c] # "idle" => mine[c] # NoTask
    /\ sync \in [Callers -> BOOLEAN]
    /\ ret \in [Callers -> Results \cup {"none", "refused", "queued"}]
    /\ wpc \in {"recv", "handle", "stop", "done"}
    /\ wtask \in Tasks \cup {NoTask}
    /\ wpc # "recv" => wtask # NoTask
    /\ werr \in Results \cup {"none"}
    /\ wpc \in {"stop", "done"} => werr \in Results
    /\ timer \in [Tasks -> {"off", "armed", "fired", "stopped"}]
    /\ rang \subseteq Tasks
    /\ accepted \in Seq(Tasks)
    /\ \A c \in Callers : pc[c] = "store" => Len(accepted) > 0
    /\ finished \in Seq(Tasks)
    /\ result \in [Tasks -> Results \cup {"none"}]
    /\ seen \in [Tasks -> Nat]

Running == IF wpc = "recv" THEN <<>> ELSE <<wtask>>

(* runQueue and the channel: every accepted task is in exactly one of the  *)
(* finished tasks, the worker and the channel, in the order of acceptance. *)
Fifo == accepted = (finished \o Running) \o queue

(* No task enters the channel twice, whatever Idx the race at line 58 gave *)
(* it: with Fifo, no handler runs twice for one push.                      *)
AcceptedOnce ==
    \A i, j \in 1 .. Len(accepted) : accepted[i] = accepted[j] => i = j

(* PushSync returns the result of its own task, after the task finished,   *)
(* and the send on the done channel can neither block the worker nor hit a *)
(* channel that already had its value.                                     *)
SyncResult ==
    /\ \A c \in Callers :
        sync[c] /\ ret[c] \in Results =>
            /\ ret[c] = result[mine[c]]
            /\ \E i \in 1 .. Len(finished) : finished[i] = mine[c]
    /\ wpc # "recv" => done[wtask] = "open"

(* The debugger's dump, taken under the lock when the queue overflows, is  *)
(* the last Capacity accepted tasks, oldest first (lines 69-80).           *)
LastTasks ==
    SubSeq(accepted,
           IF Len(accepted) > Capacity THEN Len(accepted) - Capacity + 1 ELSE 1,
           Len(accepted))
DebuggerSeesLastTasks == ~Locked => RingDump = LastTasks

(* A push that read q.idx after the push before it had stored its own, and *)
(* that no other push overtook before its send, never carries the Idx of   *)
(* that task, at the uint8 wrap too (lines 58, 64-66): the Idx the API     *)
(* hands out for the status poll tells the two apart.  A read between the  *)
(* send and the store of the push before (lines 63, 64) is an overlap and  *)
(* can repeat its Idx.                                                     *)
IdxDiffersWithoutOverlap ==
    \A i \in 1 .. Len(accepted) - 1 :
        seen[accepted[i + 1]] = i =>
            taskIdx[accepted[i + 1]] # taskIdx[accepted[i]]

(* "create closure to prevent the race condition": the alarm handler is    *)
(* called only with a task whose own timer expired, though the loop        *)
(* variable may have moved on, and a timer never outlives its task's turn. *)
AlarmForItsTask ==
    /\ \A t \in rang : timer[t] = "fired"
    /\ \A t \in Tasks : timer[t] = "armed" => wpc \in {"handle", "stop"} /\ t = wtask

(* Every caller of PushAsync or PushSync comes back: PushSync waits on a   *)
(* done channel that the worker is sure to fill.                           *)
PushReturns == \A c \in Callers : pc[c] # "idle" ~> pc[c] = "idle"

-----------------------------------------------------------------------------
(* Refinement: the queue is a serial executor.  A task is outstanding from *)
(* the send on the channel to the send on its done channel.                *)
Executor == INSTANCE SerialExecutor WITH
    Limit <- Capacity + 1,
    waiting <- Running \o queue,
    outcome <- [t \in Tasks |-> IF done[t] = "open" THEN "none" ELSE result[t]]

(* The task queue implements the serial executor, its liveness included:   *)
(* every task PushAsync accepts is carried out once, in order, and gets    *)
(* its handler's result.                                                   *)
SerialExecution == Executor!FairSpec

-----------------------------------------------------------------------------
(* Parts of the inductive invariant *)

(* A task belongs to the call that allocated it and is not in the channel  *)
(* before that call sends it.                                              *)
TaskOwners ==
    /\ \A c \in Callers : pc[c] = "lock" =>
        \A i \in 1 .. Len(accepted) : accepted[i] # mine[c]
    /\ \A c, d \in Callers : c # d /\ mine[c] # NoTask => mine[c] # mine[d]
    /\ \A i \in 1 .. Len(accepted) : accepted[i] <= made

(* A done channel is filled when its task finishes, with its result.       *)
DoneOfFinished ==
    /\ \A t \in Tasks : done[t] # "open" =>
        \E i \in 1 .. Len(finished) : finished[i] = t
    /\ \A t \in Tasks : done[t] \in Results => done[t] = result[t]
    /\ wpc \in {"stop", "done"} => werr = result[wtask]

IInv ==
    TypeOK /\ Fifo /\ AcceptedOnce /\ TaskOwners /\ DoneOfFinished /\ SyncResult
=============================================================================
