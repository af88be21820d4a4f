------------------------- MODULE AgentServiceProofs -------------------------
(* Proofs about AgentService: what holds between the agent's tasks, for    *)
(* any configurations, capacity of the queue and number of tasks.          *)
EXTENDS AgentService, SequenceTheorems, TLAPS

-----------------------------------------------------------------------------
(* What can be left of a task *)

(* config up to the load, and what it does to the server and the transport *)
(* after it.                                                               *)
C1 == <<"noteTransport", "stopTransport", "load", "compareNats", "clear">>
C2 == <<"stopTransport", "load", "compareNats", "clear">>
C3 == <<"load", "compareNats", "clear">>
C4 == <<"compareNats", "clear">>
N1 == <<"stopNats", "startNats", "startTransport", "clear">>
N2 == <<"stopNats", "startNats", "clear">>
N3 == <<"startNats", "startTransport", "clear">>
N4 == <<"startNats", "clear">>
N5 == <<"startTransport", "clear">>
N6 == <<"clear">>

(* resetNats, and the steps that it, startNats, stopNats and               *)
(* startTransport share.                                                   *)
R0 == <<"resetNats">>
R1 == <<"stopNats">>
R2 == <<"stopNats", "startNats">>
R3 == <<"stopNats", "startNats", "startTransport">>
R4 == <<"startNats">>
R5 == <<"startNats", "startTransport">>
R6 == <<"startTransport">>

(* exit.                                                                   *)
E1 == <<"exitHandler", "stopController", "stopTransport", "stopNats", "quit">>
E2 == <<"stopController", "stopTransport", "stopNats", "quit">>
E3 == <<"stopTransport", "stopNats", "quit">>
E4 == <<"stopNats", "quit">>
E5 == <<"quit">>

(* The task of an unauthorized client, and the other tasks of one step.    *)
U1 == <<"stopTransport", "stopped">>
U2 == <<"stopped">>
S1 == <<"startController">>
S2 == <<"stopController">>
S3 == <<"stopTransport">>

(* What config does first, and what is left after it.                      *)
LEMMA ConfigTable ==
    /\ C1 # <<>> /\ Head(C1) = "noteTransport" /\ Tail(C1) = C2
    /\ C2 # <<>> /\ Head(C2) = "stopTransport" /\ Tail(C2) = C3
    /\ C3 # <<>> /\ Head(C3) = "load" /\ Tail(C3) = C4
    /\ C4 # <<>> /\ Head(C4) = "compareNats" /\ Tail(C4) = N6
    /\ N1 # <<>> /\ Head(N1) = "stopNats" /\ Tail(N1) = N3
    /\ N2 # <<>> /\ Head(N2) = "stopNats" /\ Tail(N2) = N4
    /\ N3 # <<>> /\ Head(N3) = "startNats" /\ Tail(N3) = N5
    /\ N4 # <<>> /\ Head(N4) = "startNats" /\ Tail(N4) = N6
    /\ N5 # <<>> /\ Head(N5) = "startTransport" /\ Tail(N5) = N6
    /\ N6 # <<>> /\ Head(N6) = "clear" /\ Tail(N6) = <<>>
  BY DEF C1, C2, C3, C4, N1, N2, N3, N4, N5, N6

(* The same for resetNats and the steps it shares.                         *)
LEMMA ResetTable ==
    /\ R0 # <<>> /\ Head(R0) = "resetNats" /\ Tail(R0) = <<>>
    /\ R1 # <<>> /\ Head(R1) = "stopNats" /\ Tail(R1) = <<>>
    /\ R2 # <<>> /\ Head(R2) = "stopNats" /\ Tail(R2) = R4
    /\ R3 # <<>> /\ Head(R3) = "stopNats" /\ Tail(R3) = R5
    /\ R4 # <<>> /\ Head(R4) = "startNats" /\ Tail(R4) = <<>>
    /\ R5 # <<>> /\ Head(R5) = "startNats" /\ Tail(R5) = R6
    /\ R6 # <<>> /\ Head(R6) = "startTransport" /\ Tail(R6) = <<>>
  BY DEF R0, R1, R2, R3, R4, R5, R6

(* The same for the other tasks.                                           *)
LEMMA OtherTable ==
    /\ E1 # <<>> /\ Head(E1) = "exitHandler" /\ Tail(E1) = E2
    /\ E2 # <<>> /\ Head(E2) = "stopController" /\ Tail(E2) = E3
    /\ E3 # <<>> /\ Head(E3) = "stopTransport" /\ Tail(E3) = E4
    /\ E4 # <<>> /\ Head(E4) = "stopNats" /\ Tail(E4) = E5
    /\ E5 # <<>> /\ Head(E5) = "quit" /\ Tail(E5) = <<>>
    /\ U1 # <<>> /\ Head(U1) = "stopTransport" /\ Tail(U1) = U2
    /\ U2 # <<>> /\ Head(U2) = "stopped" /\ Tail(U2) = <<>>
    /\ S1 # <<>> /\ Head(S1) = "startController" /\ Tail(S1) = <<>>
    /\ S2 # <<>> /\ Head(S2) = "stopController" /\ Tail(S2) = <<>>
    /\ S3 # <<>> /\ Head(S3) = "stopTransport" /\ Tail(S3) = <<>>
  BY DEF E1, E2, E3, E4, E5, U1, U2, S1, S2, S3

(* A step that puts nothing before the rest leaves the rest.               *)
LEMMA NothingFirst ==
    ASSUME NEW s \in {C1, C2, C3, C4, N1, N2, N3, N4, N5, N6, R0, R1, R2, R3, R4, R5, R6,
                      E1, E2, E3, E4, E5, U1, U2, S1, S2, S3}
    PROVE  <<>> \o Tail(s) = Tail(s)
  BY DEF C1, C2, C3, C4, N1, N2, N3, N4, N5, N6, R0, R1, R2, R3, R4, R5, R6,
         E1, E2, E3, E4, E5, U1, U2, S1, S2, S3

-----------------------------------------------------------------------------
(* The inductive invariant *)

(* The task that the transport's client pushes when it is not authorized.  *)
Unauthorized == [subject |-> "unauthorized", conf |-> InitConf]

(* Types, in two parts: the Boolean variables are for another prover.      *)
AgentTypes ==
    /\ queue \in Seq(Tasks \cup {Unauthorized}) /\ Len(queue) <= Capacity
    /\ pushed \in 0 .. MaxTasks
    /\ task \in Tasks \cup {Unauthorized}
    /\ conf \in Confs
    /\ server \in {"none", "half", "up"}
    /\ quit \in {0, 1}
    /\ outcome \in {"running", "crashed", "hung", "exited"}
AgentFlags ==
    /\ canCancel \in BOOLEAN /\ transport \in BOOLEAN /\ controller \in BOOLEAN
    /\ stopPushed \in BOOLEAN /\ failed \in BOOLEAN /\ awaiting \in BOOLEAN
    /\ isTransportRunning \in BOOLEAN /\ before.transport \in BOOLEAN

(* At every step, not only between tasks: a running transport has a server *)
(* and the connections of the loaded configuration.                        *)
Coherent == transport => server # "none" /\ clients = conf.conns

(* What config and resetNats have achieved when no step is left.           *)
ConfigDone ==
    /\ transport => conf.enabled /\ conf.configured
    /\ before.transport /\ CanStart /\ ~failed => transport
ResetDone ==
    ~failed =>
        /\ (server # "none") <=> (before.server # "none")
        /\ transport => before.transport
        /\ before.transport /\ conf.conns # "none" => transport

(* What each task has achieved with the steps left to it: config has       *)
(* stopped the transport before it loads, and knows whether it ran;        *)
(* resetNats owes what it noted; exit has stopped one part after another.  *)
ConfigPlan ==
    /\ task.subject \in {"config", "malformed"}
    /\ \/ todo = C1 /\ (transport <=> before.transport)
       \/ todo = C2 /\ (isTransportRunning <=> before.transport)
       \/ todo = C3 /\ (isTransportRunning <=> before.transport) /\ ~transport
LoadedPlan ==
    /\ task.subject = "config"
    /\ \/ todo = C4 /\ (isTransportRunning <=> before.transport) /\ ~transport
       \/ todo \in {N1, N3, N5} /\ conf.enabled /\ ~transport
       \/ todo \in {N2, N4} /\ ~conf.enabled /\ ~transport
       \/ todo = N6 /\ ConfigDone
       \/ todo \in {R0, R1, R2, R4} /\ ~conf.configured /\ ~transport
ResetPlan ==
    /\ task.subject = "resetNats"
    /\ \/ todo = R0 /\ (transport <=> before.transport) /\ server = before.server
       \/ todo = R1 /\ server = "none" /\ before.server = "none" /\ ~before.transport
       \/ todo = R2 /\ before.server # "none" /\ ~before.transport
       \/ todo = R3 /\ before.server # "none" /\ before.transport
       \/ todo = R4 /\ before.server # "none" /\ ~before.transport /\ server = "none"
       \/ todo = R5 /\ before.server # "none" /\ before.transport /\ server = "none"
       \/ /\ todo = R6 /\ before.server # "none" /\ before.transport /\ ~transport
          /\ failed \/ server # "none"
ExitPlan ==
    /\ task.subject = "exit"
    /\ \/ todo \in {E1, E2}
       \/ todo = E3 /\ ~controller
       \/ todo = E4 /\ ~controller /\ ~transport
       \/ todo = E5 /\ ~controller /\ ~transport /\ server = "none"
OtherPlan ==
    /\ task.subject \notin {"config", "resetNats"}
    /\ todo \in {R1, R4, R6, S1, S2, S3, U1, U2}
IdlePlan ==
    /\ todo = <<>>
    /\ task.subject = "config" => ConfigDone
    /\ task.subject = "resetNats" => ResetDone

(* While the agent runs, its task is in one of these states.               *)
Plan == IdlePlan \/ ConfigPlan \/ LoadedPlan \/ ResetPlan \/ ExitPlan \/ OtherPlan
PlanKept == outcome = "running" => Plan

(* The inductive invariant of AgentService.                                *)
AgentInv == AgentTypes /\ AgentFlags /\ Coherent /\ PlanKept

-----------------------------------------------------------------------------
(* Steps *)

(* Pushes touch the queue only.                                            *)
LEMMA PushSteps ==
    ASSUME AgentInv, (\E t \in Tasks : Push(t)) \/ PushOnUnauthorized
    PROVE  AgentInv'
  <1>1. PICK t \in Tasks \cup {Unauthorized} :
          /\ Len(queue) < Capacity /\ queue' = Append(queue, t)
          /\ pushed' \in 0 .. MaxTasks
    <2>1. CASE \E t \in Tasks : Push(t)
      BY <2>1, CapacityAssumption DEF Push, AgentInv, AgentTypes
    <2>2. CASE PushOnUnauthorized
      BY <2>2 DEF PushOnUnauthorized, Unauthorized, AgentInv, AgentTypes
    <2>3. QED
      BY <2>1, <2>2
  <1>2. /\ UNCHANGED <<task, todo, conf, isTransportRunning, natsChk0, server, canCancel,
                       transport, clients, controller, quit, outcome, failed, before, awaiting>>
        /\ stopPushed' = stopPushed \/ stopPushed' = TRUE
    BY DEF Push, PushOnUnauthorized, locals, natsVars, history
  <1>3. queue' \in Seq(Tasks \cup {Unauthorized}) /\ Len(queue') <= Capacity
    <2>1. /\ queue' \in Seq(Tasks \cup {Unauthorized}) /\ Len(queue') = Len(queue) + 1
          /\ Len(queue) \in Nat
      BY <1>1, AppendProperties, LenProperties DEF AgentInv, AgentTypes
    <2>2. QED
      BY <1>1, <2>1, CapacityAssumption
  <1>4. AgentTypes' /\ AgentFlags'
    <2>1. AgentTypes'
      BY <1>1, <1>2, <1>3 DEF AgentInv, AgentTypes
    <2>2. stopPushed' \in BOOLEAN
      BY <1>2, Zenon DEF AgentInv, AgentFlags
    <2>3. QED
      BY <1>2, <2>1, <2>2 DEF AgentInv, AgentFlags
  <1>5. Coherent' /\ PlanKept'
    BY <1>2 DEF AgentInv, Coherent, PlanKept, Plan, IdlePlan, ConfigPlan, LoadedPlan,
                ResetPlan, ExitPlan, OtherPlan, ConfigDone, ResetDone, CanStart
  <1>6. QED
    BY <1>4, <1>5 DEF AgentInv

(* The steps of a received task.                                           *)
LEMMA StepsOfTasks ==
    ASSUME NEW t \in Tasks \cup {Unauthorized}
    PROVE  \/ t.subject \in {"config", "malformed"} /\ StepsOf(t) = C1
           \/ t.subject = "resetNats" /\ StepsOf(t) = R0
           \/ t.subject = "exit" /\ StepsOf(t) = E1
           \/ /\ t.subject \notin {"config", "resetNats"}
              /\ StepsOf(t) \in {R1, R4, R6, S1, S2, S3, U1}
  <1>1. t.subject \in Subjects \cup {"config", "malformed", "unauthorized"}
    BY DEF Tasks, Unauthorized, Malformed
  <1>2. CASE t.subject \in {"config", "malformed"}
    BY <1>2, Zenon DEF StepsOf, ConfigSteps, C1
  <1>3. CASE t.subject = "exit"
    BY <1>3, Zenon DEF StepsOf, ExitSteps, E1
  <1>4. CASE t.subject = "resetNats"
    BY <1>4, Zenon DEF StepsOf, R0
  <1>5. CASE t.subject = "unauthorized"
    BY <1>5, Zenon DEF StepsOf, U1
  <1>6. CASE t.subject \in {"startController", "stopController", "startNats", "stopNats",
                            "startTransport", "stopTransport"}
    <2>1. t.subject \notin {"config", "malformed", "exit", "resetNats", "unauthorized"}
      BY <1>6
    <2>2. StepsOf(t) = <<t.subject>>
      BY <2>1, Zenon DEF StepsOf
    <2>3. QED
      BY <1>6, <2>1, <2>2 DEF R1, R4, R6, S1, S2, S3
  <1>7. QED
    BY <1>1, <1>2, <1>3, <1>4, <1>5, <1>6 DEF Subjects

(* A task is received: nothing is done yet, and its history starts.        *)
LEMMA ReceiveStep ==
    ASSUME AgentInv, Receive
    PROVE  AgentInv'
  <1>1. /\ UNCHANGED <<pushed, conf, isTransportRunning, natsChk0, server, canCancel,
                       transport, clients, controller, stopPushed, quit, outcome>>
        /\ task' = Head(queue) /\ queue' = Tail(queue) /\ todo' = StepsOf(Head(queue))
        /\ failed' = FALSE /\ queue # <<>>
        /\ before'.server = server /\ before'.transport = transport
    BY DEF Receive, locals, natsVars
  <1>2. /\ Head(queue) \in Tasks \cup {Unauthorized}
        /\ queue' \in Seq(Tasks \cup {Unauthorized}) /\ Len(queue') <= Capacity
    <2>1. /\ Head(queue) \in Tasks \cup {Unauthorized}
          /\ queue' \in Seq(Tasks \cup {Unauthorized}) /\ Len(queue') = Len(queue) - 1
          /\ Len(queue) \in Nat
      BY <1>1, HeadTailProperties, LenProperties DEF AgentInv, AgentTypes
    <2>2. QED
      BY <2>1, CapacityAssumption DEF AgentInv, AgentTypes
  <1>3. AgentTypes'
    BY <1>1, <1>2 DEF AgentInv, AgentTypes
  <1>4. AgentFlags'
    <2>1. awaiting' \in BOOLEAN /\ failed' \in BOOLEAN
      BY Zenon DEF Receive
    <2>2. QED
      BY <1>1, <2>1 DEF AgentInv, AgentFlags
  <1>5. Coherent'
    BY <1>1 DEF AgentInv, Coherent
  <1>6. Plan'
    BY <1>1, <1>2, StepsOfTasks DEF Plan, ConfigPlan, ResetPlan, ExitPlan, OtherPlan
  <1>7. QED
    BY <1>3, <1>4, <1>5, <1>6 DEF AgentInv, PlanKept

(* A step whose rest is what was behind it.                                *)
LEMMA StepTakes ==
    ASSUME AgentInv, NEW s, Step(s, <<>>)
    PROVE  /\ outcome = "running" /\ todo # <<>> /\ Head(todo) = s /\ todo' = Tail(todo)
           /\ UNCHANGED <<queue, pushed, task, before>>
  <1>1. /\ outcome = "running" /\ todo # <<>> /\ Head(todo) = s /\ todo' = <<>> \o Tail(todo)
        /\ UNCHANGED <<queue, pushed, task, before>>
    BY DEF Step
  <1>2. Plan
    BY <1>1 DEF AgentInv, PlanKept
  <1>3. <<>> \o Tail(todo) = Tail(todo)
    BY <1>1, <1>2, NothingFirst
       DEF Plan, IdlePlan, ConfigPlan, LoadedPlan, ResetPlan, ExitPlan, OtherPlan
  <1>4. QED
    BY <1>1, <1>3

(* stopTransport keeps the plan of the task it is a step of.               *)
LEMMA StopTransportStep ==
    ASSUME AgentInv, StopTransport
    PROVE  AgentInv'
  <1>1. /\ outcome = "running" /\ Head(todo) = "stopTransport" /\ todo' = Tail(todo)
        /\ todo # <<>> /\ UNCHANGED <<queue, pushed, task, before>>
    BY StepTakes DEF StopTransport
  <1>2. /\ transport' = FALSE
        /\ UNCHANGED <<conf, isTransportRunning, natsChk0, server, canCancel, clients,
                       controller, stopPushed, quit, outcome, failed, awaiting>>
    BY DEF StopTransport, locals
  <1>3. AgentTypes' /\ AgentFlags' /\ Coherent'
    BY <1>1, <1>2 DEF AgentInv, AgentTypes, AgentFlags, Coherent
  <1>4. Plan
    BY <1>1 DEF AgentInv, PlanKept
  <1>5. CASE IdlePlan \/ LoadedPlan \/ ResetPlan
    BY <1>1, <1>5, ConfigTable, ResetTable DEF IdlePlan, LoadedPlan, ResetPlan
  <1>6. CASE ConfigPlan
    <2>1. todo = C2
      BY <1>1, <1>6, ConfigTable DEF ConfigPlan
    <2>2. ConfigPlan'
      BY <1>1, <1>2, <1>6, <2>1, ConfigTable DEF ConfigPlan
    <2>3. QED
      BY <1>3, <2>2 DEF AgentInv, PlanKept, Plan
  <1>7. CASE ExitPlan
    <2>1. todo = E3 /\ ~controller
      BY <1>1, <1>7, OtherTable DEF ExitPlan
    <2>2. ExitPlan'
      BY <1>1, <1>2, <1>7, <2>1, OtherTable DEF ExitPlan
    <2>3. QED
      BY <1>3, <2>2 DEF AgentInv, PlanKept, Plan
  <1>8. CASE OtherPlan
    <2>1. todo = S3 \/ todo = U1
      BY <1>1, <1>8, OtherTable, ResetTable DEF OtherPlan
    <2>2. todo' = <<>> \/ todo' = U2
      BY <1>1, <2>1, OtherTable
    <2>3. Plan'
      BY <1>1, <1>8, <2>2 DEF OtherPlan, IdlePlan, Plan
    <2>4. QED
      BY <1>3, <2>3 DEF AgentInv, PlanKept
  <1>9. QED
    BY <1>4, <1>5, <1>6, <1>7, <1>8 DEF Plan

(* The unauthorized client's task ends with its flag reset.                *)
LEMMA StoppedStep ==
    ASSUME AgentInv, Stopped
    PROVE  AgentInv'
  <1>1. /\ outcome = "running" /\ Head(todo) = "stopped" /\ todo' = Tail(todo)
        /\ todo # <<>> /\ UNCHANGED <<queue, pushed, task, before>>
    BY StepTakes DEF Stopped
  <1>2. /\ stopPushed' = FALSE /\ awaiting' = TRUE
        /\ UNCHANGED <<conf, isTransportRunning, natsChk0, server, canCancel, transport,
                       clients, controller, quit, outcome, failed>>
    BY DEF Stopped, locals, natsVars
  <1>3. AgentTypes' /\ AgentFlags' /\ Coherent'
    BY <1>1, <1>2 DEF AgentInv, AgentTypes, AgentFlags, Coherent
  <1>4. Plan
    BY <1>1 DEF AgentInv, PlanKept
  <1>5. OtherPlan /\ todo = U2
    BY <1>1, <1>4, ConfigTable, ResetTable, OtherTable, ZenonT(60)
       DEF Plan, IdlePlan, ConfigPlan, LoadedPlan, ResetPlan, ExitPlan, OtherPlan
  <1>6. IdlePlan'
    BY <1>1, <1>5, OtherTable DEF OtherPlan, IdlePlan
  <1>7. QED
    BY <1>3, <1>6 DEF AgentInv, PlanKept, Plan

(* startTransport fails or takes the connections of the loaded             *)
(* configuration, with a server.                                           *)
LEMMA StartTransportStep ==
    ASSUME AgentInv, NEW ok \in BOOLEAN, StartTransport(ok)
    PROVE  AgentInv'
  <1>1. /\ outcome = "running" /\ Head(todo) = "startTransport" /\ todo' = Tail(todo)
        /\ todo # <<>> /\ UNCHANGED <<queue, pushed, task, before>>
    BY StepTakes DEF StartTransport
  <1> DEFINE starts == conf.configured /\ conf.conns # "none"
  <1>2. UNCHANGED <<conf, isTransportRunning, natsChk0, server, canCancel, controller,
                    stopPushed, quit, outcome, awaiting>>
    BY DEF StartTransport, locals
  <1>3. /\ transport' \in BOOLEAN /\ failed' \in BOOLEAN
        /\ starts => /\ transport' => server # "none"
                     /\ clients' = conf.conns
                     /\ ~failed' => transport'
        /\ ~starts => transport' = transport /\ clients' = clients
        /\ ~failed' => ~failed /\ conf.configured
    BY Zenon DEF StartTransport, ClientsAfter, AgentInv, AgentFlags
  <1>4. AgentTypes' /\ AgentFlags'
    BY <1>1, <1>2, <1>3 DEF AgentInv, AgentTypes, AgentFlags
  <1>5. Coherent'
    BY <1>2, <1>3 DEF AgentInv, Coherent
  <1>6. Plan
    BY <1>1 DEF AgentInv, PlanKept
  <1>7. CASE IdlePlan \/ ConfigPlan \/ ExitPlan
    BY <1>1, <1>7, ConfigTable, OtherTable DEF IdlePlan, ConfigPlan, ExitPlan
  <1>8. CASE LoadedPlan
    <2>1. todo = N5 /\ conf.enabled /\ ~transport
      BY <1>1, <1>8, ConfigTable, ResetTable DEF LoadedPlan
    <2>2. ConfigDone'
      BY <1>1, <1>2, <1>3, <2>1 DEF ConfigDone, CanStart
    <2>3. LoadedPlan'
      BY <1>1, <1>8, <2>1, <2>2, ConfigTable DEF LoadedPlan
    <2>4. QED
      BY <1>4, <1>5, <2>3 DEF AgentInv, PlanKept, Plan
  <1>9. CASE ResetPlan
    <2>1. /\ todo = R6 /\ before.server # "none" /\ before.transport /\ ~transport
          /\ failed \/ server # "none"
      BY <1>1, <1>9, ResetTable DEF ResetPlan
    <2>2. ResetDone'
      BY <1>1, <1>2, <1>3, <2>1 DEF ResetDone
    <2>3. IdlePlan'
      BY <1>1, <1>9, <2>1, <2>2, ResetTable DEF ResetPlan, IdlePlan
    <2>4. QED
      BY <1>4, <1>5, <2>3 DEF AgentInv, PlanKept, Plan
  <1>10. CASE OtherPlan
    <2>1. IdlePlan'
      BY <1>1, <1>10, ResetTable, OtherTable DEF OtherPlan, IdlePlan
    <2>2. QED
      BY <1>4, <1>5, <2>1 DEF AgentInv, PlanKept, Plan
  <1>11. QED
    BY <1>6, <1>7, <1>8, <1>9, <1>10 DEF Plan

(* stopNats crashes when the server has no cancel function; otherwise the  *)
(* server and its transport are gone.                                      *)
LEMMA StopNatsStep ==
    ASSUME AgentInv, StopNats
    PROVE  AgentInv'
  <1>1. /\ outcome = "running" /\ Head(todo) = "stopNats" /\ todo' = Tail(todo)
        /\ todo # <<>> /\ UNCHANGED <<queue, pushed, task, before>>
    BY StepTakes DEF StopNats
  <1>2. UNCHANGED <<conf, isTransportRunning, natsChk0, canCancel, clients, controller,
                    stopPushed, quit, failed, awaiting>>
    BY DEF StopNats, locals
  <1>3. CASE server # "none" /\ ~canCancel
    <2>1. outcome' = "crashed" /\ UNCHANGED <<server, transport>>
      BY <1>3 DEF StopNats
    <2>2. QED
      BY <1>1, <1>2, <2>1 DEF AgentInv, AgentTypes, AgentFlags, Coherent, PlanKept
  <1>4. CASE ~(server # "none" /\ ~canCancel)
    <2>1. server' = "none" /\ outcome' = outcome
      BY <1>4 DEF StopNats
    <2>2. transport' = FALSE
      <3>1. transport' = (transport /\ server = "none")
        BY <1>4 DEF StopNats
      <3>2. ~(transport /\ server = "none")
        BY DEF AgentInv, Coherent
      <3>3. QED
        BY <3>1, <3>2
    <2>3. AgentTypes' /\ AgentFlags' /\ Coherent'
      BY <1>1, <1>2, <2>1, <2>2 DEF AgentInv, AgentTypes, AgentFlags, Coherent
    <2>4. Plan
      BY <1>1 DEF AgentInv, PlanKept
    <2>5. CASE IdlePlan \/ ConfigPlan
      BY <1>1, <2>5, ConfigTable DEF IdlePlan, ConfigPlan
    <2>6. CASE LoadedPlan
      <3> SUFFICES Plan'
        BY <2>3 DEF AgentInv, PlanKept
      <3>1. \/ todo = N1 /\ conf.enabled
            \/ todo = N2 /\ ~conf.enabled
            \/ todo \in {R1, R2} /\ ~conf.configured
        BY <1>1, <2>6, ConfigTable, ResetTable DEF LoadedPlan
      <3>2. CASE todo = N1 /\ conf.enabled
        BY <1>1, <1>2, <2>2, <2>6, <3>2, ConfigTable DEF LoadedPlan, Plan
      <3>3. CASE todo = N2 /\ ~conf.enabled
        BY <1>1, <1>2, <2>2, <2>6, <3>3, ConfigTable DEF LoadedPlan, Plan
      <3>4. CASE todo \in {R1, R2} /\ ~conf.configured
        <4>1. ConfigDone'
          BY <1>2, <2>2, <3>4 DEF ConfigDone, CanStart
        <4>2. todo' = <<>> \/ todo' = R4
          BY <1>1, <3>4, ResetTable
        <4>3. QED
          BY <1>1, <1>2, <2>2, <2>6, <3>4, <4>1, <4>2 DEF LoadedPlan, IdlePlan, Plan
      <3>5. QED
        BY <3>1, <3>2, <3>3, <3>4
    <2>7. CASE ResetPlan
      <3> SUFFICES Plan'
        BY <2>3 DEF AgentInv, PlanKept
      <3>1. \/ todo = R1 /\ before.server = "none" /\ ~before.transport
            \/ todo = R2 /\ before.server # "none" /\ ~before.transport
            \/ todo = R3 /\ before.server # "none" /\ before.transport
        BY <1>1, <2>7, ResetTable DEF ResetPlan
      <3>2. CASE todo = R1 /\ before.server = "none" /\ ~before.transport
        <4>1. ResetDone'
          BY <1>1, <2>1, <2>2, <3>2 DEF ResetDone
        <4>2. IdlePlan'
          BY <1>1, <2>7, <3>2, <4>1, ResetTable DEF ResetPlan, IdlePlan
        <4>3. QED
          BY <4>2 DEF Plan
      <3>3. CASE todo = R2 /\ before.server # "none" /\ ~before.transport
        BY <1>1, <2>1, <2>7, <3>3, ResetTable DEF ResetPlan, Plan
      <3>4. CASE todo = R3 /\ before.server # "none" /\ before.transport
        BY <1>1, <2>1, <2>7, <3>4, ResetTable DEF ResetPlan, Plan
      <3>5. QED
        BY <3>1, <3>2, <3>3, <3>4
    <2>8. CASE ExitPlan
      <3>1. todo = E4 /\ ~controller
        BY <1>1, <2>8, OtherTable DEF ExitPlan
      <3>2. ExitPlan'
        BY <1>1, <1>2, <2>1, <2>2, <2>8, <3>1, OtherTable DEF ExitPlan
      <3>3. QED
        BY <2>3, <3>2 DEF AgentInv, PlanKept, Plan
    <2>9. CASE OtherPlan
      <3>1. IdlePlan'
        BY <1>1, <2>9, ResetTable, OtherTable DEF OtherPlan, IdlePlan
      <3>2. QED
        BY <2>3, <3>1 DEF AgentInv, PlanKept, Plan
    <2>10. QED
      BY <2>4, <2>5, <2>6, <2>7, <2>8, <2>9 DEF Plan
  <1>5. QED
    BY <1>3, <1>4

(* startNats keeps a server that is there, or brings it up as far as it    *)
(* gets; only a complete start does not count as failed.                   *)
LEMMA StartNatsStep ==
    ASSUME AgentInv, NEW upTo \in {"newServer", "connect", "defineStream", "publisher"},
           StartNats(upTo)
    PROVE  AgentInv'
  <1>1. /\ outcome = "running" /\ Head(todo) = "startNats" /\ todo' = Tail(todo)
        /\ todo # <<>> /\ UNCHANGED <<queue, pushed, task, before>>
    BY StepTakes DEF StartNats
  <1>2. UNCHANGED <<conf, isTransportRunning, natsChk0, transport, clients, controller,
                    stopPushed, quit, outcome, awaiting>>
    BY DEF StartNats, locals
  <1>3. /\ server' \in {"none", "half", "up"}
        /\ server # "none" => server' = server /\ failed' = failed
        /\ ~failed' => ~failed /\ server' # "none"
    <2>1. CASE server # "none"
      BY <2>1 DEF StartNats, AgentInv, AgentTypes
    <2>2. CASE server = "none"
      <3>1. /\ server' = CASE upTo = "newServer" -> "none"
                           [] upTo = "publisher" -> "up"
                           [] OTHER              -> "half"
            /\ failed' = (failed \/ upTo # "publisher")
        BY <2>2 DEF StartNats
      <3>2. server' \in {"none", "half", "up"} /\ (upTo = "publisher" => server' = "up")
        BY <3>1, Zenon
      <3>3. ~failed' => ~failed /\ upTo = "publisher"
        BY <3>1, Zenon
      <3>4. QED
        BY <2>2, <3>2, <3>3
    <2>3. QED
      BY <2>1, <2>2
  <1>4. failed' \in BOOLEAN /\ canCancel' \in BOOLEAN
    BY Zenon DEF StartNats, AgentInv, AgentFlags
  <1>5. AgentTypes' /\ AgentFlags'
    BY <1>1, <1>2, <1>3, <1>4 DEF AgentInv, AgentTypes, AgentFlags
  <1>6. Coherent'
    BY <1>2, <1>3 DEF AgentInv, Coherent
  <1>7. Plan
    BY <1>1 DEF AgentInv, PlanKept
  <1>8. CASE IdlePlan \/ ConfigPlan \/ ExitPlan
    BY <1>1, <1>8, ConfigTable, OtherTable DEF IdlePlan, ConfigPlan, ExitPlan
  <1>9. CASE LoadedPlan
    <2> SUFFICES Plan'
      BY <1>5, <1>6 DEF AgentInv, PlanKept
    <2>1. \/ todo = N3 /\ conf.enabled /\ ~transport
          \/ todo = N4 /\ ~conf.enabled /\ ~transport
          \/ todo = R4 /\ ~conf.configured /\ ~transport
      BY <1>1, <1>9, ConfigTable, ResetTable DEF LoadedPlan
    <2>2. CASE todo = N3 /\ conf.enabled /\ ~transport
      BY <1>1, <1>2, <1>9, <2>2, ConfigTable DEF LoadedPlan, Plan
    <2>3. CASE todo = N4 /\ ~conf.enabled /\ ~transport
      <3>1. ConfigDone'
        BY <1>2, <2>3 DEF ConfigDone, CanStart
      <3>2. QED
        BY <1>1, <1>9, <2>3, <3>1, ConfigTable DEF LoadedPlan, Plan
    <2>4. CASE todo = R4 /\ ~conf.configured /\ ~transport
      <3>1. ConfigDone'
        BY <1>2, <2>4 DEF ConfigDone, CanStart
      <3>2. QED
        BY <1>1, <1>9, <2>4, <3>1, ResetTable DEF LoadedPlan, IdlePlan, Plan
    <2>5. QED
      BY <2>1, <2>2, <2>3, <2>4
  <1>10. CASE ResetPlan
    <2> SUFFICES Plan'
      BY <1>5, <1>6 DEF AgentInv, PlanKept
    <2>1. \/ todo = R4 /\ before.server # "none" /\ ~before.transport /\ server = "none"
          \/ todo = R5 /\ before.server # "none" /\ before.transport /\ server = "none"
      BY <1>1, <1>10, ResetTable DEF ResetPlan
    <2>2. ~transport
      BY <2>1 DEF AgentInv, Coherent
    <2>3. CASE todo = R4 /\ before.server # "none" /\ ~before.transport /\ server = "none"
      <3>1. ResetDone'
        BY <1>1, <1>2, <1>3, <2>2, <2>3 DEF ResetDone
      <3>2. IdlePlan'
        BY <1>1, <1>10, <2>3, <3>1, ResetTable DEF ResetPlan, IdlePlan
      <3>3. QED
        BY <3>2 DEF Plan
    <2>4. CASE todo = R5 /\ before.server # "none" /\ before.transport /\ server = "none"
      <3>1. ResetPlan'
        BY <1>1, <1>2, <1>3, <1>10, <2>2, <2>4, ResetTable DEF ResetPlan
      <3>2. QED
        BY <3>1 DEF Plan
    <2>5. QED
      BY <2>1, <2>3, <2>4
  <1>11. CASE OtherPlan
    <2>1. IdlePlan'
      BY <1>1, <1>11, ResetTable, OtherTable DEF OtherPlan, IdlePlan
    <2>2. QED
      BY <1>5, <1>6, <2>1 DEF AgentInv, PlanKept, Plan
  <1>12. QED
    BY <1>7, <1>8, <1>9, <1>10, <1>11 DEF Plan

(* Concatenations of the steps put in front.                               *)
Steps == {"stopNats", "startNats", "startTransport", "clear", "resetNats"}

(* One step in front of another.                                           *)
LEMMA OneAndOne ==
    ASSUME NEW a \in Steps, NEW b \in Steps
    PROVE  <<a>> \o <<b>> = <<a, b>>
  <1> DEFINE s == <<a>>
             t == <<a, b>>
  <1>1. s \in Seq(Steps) /\ Len(s) = 1 /\ s[1] = a
    OBVIOUS
  <1>2. t \in Seq(Steps) /\ Len(t) = 2 /\ t[1] = a /\ t[2] = b
    OBVIOUS
  <1> HIDE DEF s, t
  <1>3. /\ Append(s, b) \in Seq(Steps) /\ Len(Append(s, b)) = Len(s) + 1
        /\ \A i \in 1 .. Len(s) : Append(s, b)[i] = s[i]
        /\ Append(s, b)[Len(s) + 1] = b
    <2>1. s \in Seq(Steps)
      BY <1>1
    <2>2. QED
      BY <2>1, AppendProperties
  <1>4. \A i \in 1 .. Len(t) : Append(s, b)[i] = t[i]
    BY <1>1, <1>2, <1>3
  <1>5. Append(s, b) = t
    BY <1>1, <1>2, <1>3, <1>4, SeqEqual
  <1>6. s \o <<b>> = t
    BY <1>1, <1>5, AppendIsConcat
  <1>7. QED
    BY <1>6 DEF s, t

(* As above, with two steps in front.                                      *)
LEMMA TwoAndOne ==
    ASSUME NEW a \in Steps, NEW b \in Steps, NEW c \in Steps
    PROVE  <<a, b>> \o <<c>> = <<a, b, c>>
  <1> DEFINE s == <<a, b>>
             t == <<a, b, c>>
  <1>1. s \in Seq(Steps) /\ Len(s) = 2 /\ s[1] = a /\ s[2] = b
    OBVIOUS
  <1>2. t \in Seq(Steps) /\ Len(t) = 3 /\ t[1] = a /\ t[2] = b /\ t[3] = c
    OBVIOUS
  <1> HIDE DEF s, t
  <1>3. /\ Append(s, c) \in Seq(Steps) /\ Len(Append(s, c)) = Len(s) + 1
        /\ \A i \in 1 .. Len(s) : Append(s, c)[i] = s[i]
        /\ Append(s, c)[Len(s) + 1] = c
    <2>1. s \in Seq(Steps)
      BY <1>1
    <2>2. QED
      BY <2>1, AppendProperties
  <1>4. \A i \in 1 .. Len(t) : Append(s, c)[i] = t[i]
    BY <1>1, <1>2, <1>3
  <1>5. Append(s, c) = t
    BY <1>1, <1>2, <1>3, <1>4, SeqEqual
  <1>6. s \o <<c>> = t
    BY <1>1, <1>5, AppendIsConcat
  <1>7. QED
    BY <1>6 DEF s, t

(* As above, with three steps in front.                                    *)
LEMMA ThreeAndOne ==
    ASSUME NEW a \in Steps, NEW b \in Steps, NEW c \in Steps, NEW d \in Steps
    PROVE  <<a, b, c>> \o <<d>> = <<a, b, c, d>>
  <1> DEFINE s == <<a, b, c>>
             t == <<a, b, c, d>>
  <1>1. s \in Seq(Steps) /\ Len(s) = 3 /\ s[1] = a /\ s[2] = b /\ s[3] = c
    OBVIOUS
  <1>2. t \in Seq(Steps) /\ Len(t) = 4 /\ t[1] = a /\ t[2] = b /\ t[3] = c /\ t[4] = d
    OBVIOUS
  <1> HIDE DEF s, t
  <1>3. /\ Append(s, d) \in Seq(Steps) /\ Len(Append(s, d)) = Len(s) + 1
        /\ \A i \in 1 .. Len(s) : Append(s, d)[i] = s[i]
        /\ Append(s, d)[Len(s) + 1] = d
    <2>1. s \in Seq(Steps)
      BY <1>1
    <2>2. QED
      BY <2>1, AppendProperties
  <1>4. \A i \in 1 .. Len(t) : Append(s, d)[i] = t[i]
    BY <1>1, <1>2, <1>3
  <1>5. Append(s, d) = t
    BY <1>1, <1>2, <1>3, <1>4, SeqEqual
  <1>6. s \o <<d>> = t
    BY <1>1, <1>5, AppendIsConcat
  <1>7. QED
    BY <1>6 DEF s, t

(* What compareNats leaves to do.                                          *)
LEMMA AfterCompareSteps ==
    /\ natsChk0 # conf.nats /\ conf.enabled => AfterCompare \o N6 = N1
    /\ natsChk0 # conf.nats /\ ~conf.enabled => AfterCompare \o N6 = N2
    /\ natsChk0 = conf.nats /\ conf.enabled /\ isTransportRunning => AfterCompare \o N6 = N5
    /\ natsChk0 = conf.nats /\ ~(conf.enabled /\ isTransportRunning) => AfterCompare \o N6 = N6
  <1>1. <<"stopNats", "startNats">> \o <<"startTransport">>
          = <<"stopNats", "startNats", "startTransport">>
    BY TwoAndOne DEF Steps
  <1>2. <<"stopNats", "startNats", "startTransport">> \o <<"clear">> = N1
    BY ThreeAndOne DEF N1, Steps
  <1>3. <<"stopNats", "startNats">> \o <<"clear">> = N2
    BY TwoAndOne DEF N2, Steps
  <1>4. <<"startTransport">> \o <<"clear">> = N5
    BY OneAndOne DEF N5, Steps
  <1>5. <<"stopNats", "startNats">> \o <<>> = <<"stopNats", "startNats">>
          /\ <<>> \o N6 = N6
    <2>1. <<"stopNats", "startNats">> \in Seq(Steps) /\ N6 \in Seq(Steps)
      BY DEF N6, Steps
    <2>2. QED
      BY <2>1, ConcatEmptySeq
  <1>6. N6 = <<"clear">>
    BY DEF N6
  <1>7. ASSUME natsChk0 # conf.nats, conf.enabled PROVE AfterCompare \o N6 = N1
    BY <1>1, <1>2, <1>6, <1>7, Zenon DEF AfterCompare
  <1>8. ASSUME natsChk0 # conf.nats, ~conf.enabled PROVE AfterCompare \o N6 = N2
    BY <1>3, <1>5, <1>6, <1>8, Zenon DEF AfterCompare
  <1>9. ASSUME natsChk0 = conf.nats, conf.enabled, isTransportRunning
        PROVE  AfterCompare \o N6 = N5
    BY <1>4, <1>6, <1>9, Zenon DEF AfterCompare
  <1>10. ASSUME natsChk0 = conf.nats, ~(conf.enabled /\ isTransportRunning)
         PROVE  AfterCompare \o N6 = N6
    BY <1>5, <1>10, Zenon DEF AfterCompare
  <1>11. QED
    BY <1>7, <1>8, <1>9, <1>10

(* What resetNats leaves to do.                                            *)
LEMMA ResetStepsAre ==
    /\ server = "none" /\ ~transport => ResetSteps \o <<>> = R1
    /\ server # "none" /\ ~transport => ResetSteps \o <<>> = R2
    /\ server # "none" /\ transport => ResetSteps \o <<>> = R3
  <1>1. <<"stopNats">> \o <<"startNats">> = R2
    BY OneAndOne DEF R2, Steps
  <1>2. <<"stopNats", "startNats">> \o <<"startTransport">> = R3
    BY TwoAndOne DEF R3, Steps
  <1>3. <<"stopNats">> \o <<>> = R1 /\ R1 \o <<>> = R1 /\ R2 \o <<>> = R2 /\ R3 \o <<>> = R3
    <2>1. R1 \in Seq(Steps) /\ R2 \in Seq(Steps) /\ R3 \in Seq(Steps)
      BY DEF R1, R2, R3, Steps
    <2>2. R1 \o <<>> = R1 /\ R2 \o <<>> = R2 /\ R3 \o <<>> = R3
      BY <2>1, ConcatEmptySeq
    <2>3. QED
      BY <2>2, Zenon DEF R1
  <1>4. R2 \o <<"startTransport">> = R3
    BY <1>2, Zenon DEF R2
  <1>5. ASSUME server = "none", ~transport PROVE ResetSteps \o <<>> = R1
    BY <1>3, <1>5, Zenon DEF ResetSteps
  <1>6. ASSUME server # "none", ~transport PROVE ResetSteps \o <<>> = R2
    BY <1>1, <1>3, <1>6, Zenon DEF ResetSteps
  <1>7. ASSUME server # "none", transport PROVE ResetSteps \o <<>> = R3
    BY <1>1, <1>3, <1>4, <1>7, Zenon DEF ResetSteps
  <1>8. QED
    BY <1>5, <1>6, <1>7

(* The steps of config.                                                    *)
LEMMA NoteTransportStep ==
    ASSUME AgentInv, NoteTransport
    PROVE  AgentInv'
  <1>1. /\ outcome = "running" /\ Head(todo) = "noteTransport" /\ todo' = Tail(todo)
        /\ todo # <<>> /\ UNCHANGED <<queue, pushed, task, before>>
    BY StepTakes DEF NoteTransport
  <1>2. /\ isTransportRunning' = transport
        /\ UNCHANGED <<conf, server, canCancel, transport, clients, controller, stopPushed,
                       quit, outcome, failed, awaiting>>
    BY DEF NoteTransport, natsVars
  <1>3. AgentTypes' /\ AgentFlags' /\ Coherent'
    BY <1>1, <1>2 DEF AgentInv, AgentTypes, AgentFlags, Coherent
  <1>4. Plan
    BY <1>1 DEF AgentInv, PlanKept
  <1>5. ConfigPlan /\ todo = C1 /\ (transport <=> before.transport)
    BY <1>1, <1>4, ConfigTable, ResetTable, OtherTable, ZenonT(60)
       DEF Plan, IdlePlan, ConfigPlan, LoadedPlan, ResetPlan, ExitPlan, OtherPlan
  <1>6. ConfigPlan'
    BY <1>1, <1>2, <1>5, ConfigTable DEF ConfigPlan
  <1>7. QED
    BY <1>3, <1>6 DEF AgentInv, PlanKept, Plan

(* A malformed configuration ends the task, with the transport stopped.    *)
LEMMA LoadStep ==
    ASSUME AgentInv, Load
    PROVE  AgentInv'
  <1>1. /\ outcome = "running" /\ Head(todo) = "load" /\ todo # <<>>
        /\ UNCHANGED <<queue, pushed, task, before, isTransportRunning, natsChk0, server,
                       canCancel, transport, clients, controller, stopPushed, quit, outcome,
                       failed, awaiting>>
    BY DEF Load, locals, natsVars
  <1>2. Plan
    BY <1>1 DEF AgentInv, PlanKept
  <1>3. ConfigPlan /\ todo = C3 /\ (isTransportRunning <=> before.transport) /\ ~transport
    BY <1>1, <1>2, ConfigTable, ResetTable, OtherTable, ZenonT(60)
       DEF Plan, IdlePlan, ConfigPlan, LoadedPlan, ResetPlan, ExitPlan, OtherPlan
  <1>4. conf' \in Confs
    <2>1. task.conf \in Confs
      BY InitAssumption DEF AgentInv, AgentTypes, Tasks, Malformed, Unauthorized
    <2>2. QED
      BY <2>1 DEF Load, AgentInv, AgentTypes
  <1>5. AgentTypes' /\ AgentFlags' /\ Coherent'
    BY <1>1, <1>3, <1>4 DEF AgentInv, AgentTypes, AgentFlags, Coherent
  <1>6. CASE task.subject = "malformed"
    <2>1. todo' = <<>>
      BY <1>6 DEF Load
    <2>2. IdlePlan'
      BY <1>1, <1>6, <2>1 DEF IdlePlan
    <2>3. QED
      BY <1>5, <2>2 DEF AgentInv, PlanKept, Plan
  <1>7. CASE task.subject # "malformed"
    <2>1. todo' = C4 /\ task.subject = "config"
      BY <1>3, <1>7, ConfigTable DEF Load, ConfigPlan
    <2>2. LoadedPlan'
      BY <1>1, <1>3, <2>1 DEF LoadedPlan
    <2>3. QED
      BY <1>5, <2>2 DEF AgentInv, PlanKept, Plan
  <1>8. QED
    BY <1>6, <1>7

(* config decides what to start again.                                     *)
LEMMA CompareNatsStep ==
    ASSUME AgentInv, CompareNats
    PROVE  AgentInv'
  <1>1. /\ outcome = "running" /\ Head(todo) = "compareNats" /\ todo # <<>>
        /\ todo' = AfterCompare \o Tail(todo)
        /\ UNCHANGED <<queue, pushed, task, before, conf, isTransportRunning, natsChk0, server,
                       canCancel, transport, clients, controller, stopPushed, quit, outcome,
                       failed, awaiting>>
    BY DEF CompareNats, Step, locals, natsVars
  <1>2. AgentTypes' /\ AgentFlags' /\ Coherent'
    BY <1>1 DEF AgentInv, AgentTypes, AgentFlags, Coherent
  <1>3. Plan
    BY <1>1 DEF AgentInv, PlanKept
  <1>4. /\ LoadedPlan /\ task.subject = "config" /\ todo = C4
        /\ (isTransportRunning <=> before.transport) /\ ~transport
    BY <1>1, <1>3, ConfigTable, ResetTable, OtherTable, ZenonT(60)
       DEF Plan, IdlePlan, ConfigPlan, LoadedPlan, ResetPlan, ExitPlan, OtherPlan
  <1>5. todo' = AfterCompare \o N6
    BY <1>1, <1>4, ConfigTable
  <1>6. \/ todo' = N1 /\ conf.enabled
        \/ todo' = N2 /\ ~conf.enabled
        \/ todo' = N5 /\ conf.enabled
        \/ todo' = N6 /\ ~(conf.enabled /\ isTransportRunning)
    BY <1>5, AfterCompareSteps, Zenon
  <1>7. todo' = N6 /\ ~(conf.enabled /\ isTransportRunning) => ConfigDone'
    BY <1>1, <1>4 DEF ConfigDone, CanStart
  <1>8. LoadedPlan'
    BY <1>1, <1>4, <1>6, <1>7 DEF LoadedPlan
  <1>9. QED
    BY <1>2, <1>8 DEF AgentInv, PlanKept, Plan

(* An incomplete configuration throws the queue away.                      *)
LEMMA ClearStep ==
    ASSUME AgentInv, Clear
    PROVE  AgentInv'
  <1>1. /\ outcome = "running" /\ Head(todo) = "clear" /\ todo # <<>>
        /\ todo' = (IF conf.configured THEN <<>> ELSE <<"resetNats">>) \o Tail(todo)
        /\ UNCHANGED <<queue, pushed, task, before, conf, isTransportRunning, natsChk0, server,
                       canCancel, transport, clients, controller, stopPushed, quit, outcome,
                       failed, awaiting>>
    BY DEF Clear, Step, locals, natsVars
  <1>2. AgentTypes' /\ AgentFlags' /\ Coherent'
    BY <1>1 DEF AgentInv, AgentTypes, AgentFlags, Coherent
  <1>3. Plan
    BY <1>1 DEF AgentInv, PlanKept
  <1>4. task.subject = "config" /\ todo = N6 /\ ConfigDone
    BY <1>1, <1>3, ConfigTable, ResetTable, OtherTable, ZenonT(60)
       DEF Plan, IdlePlan, ConfigPlan, LoadedPlan, ResetPlan, ExitPlan, OtherPlan
  <1>5. Tail(todo) = <<>>
    BY <1>4, ConfigTable
  <1>6. <<>> \o <<>> = <<>> /\ <<"resetNats">> \o <<>> = R0
    <2>1. <<>> \in Seq(Steps) /\ R0 \in Seq(Steps)
      BY DEF R0, Steps
    <2>2. <<>> \o <<>> = <<>> /\ R0 \o <<>> = R0
      BY <2>1, ConcatEmptySeq
    <2>3. QED
      BY <2>2, Zenon DEF R0
  <1>7. todo' = IF conf.configured THEN <<>> ELSE R0
    BY <1>1, <1>5, <1>6, Zenon
  <1>8. ConfigDone'
    BY <1>1, <1>4 DEF ConfigDone, CanStart
  <1>9. CASE conf.configured
    BY <1>1, <1>2, <1>4, <1>7, <1>8, <1>9 DEF IdlePlan, AgentInv, PlanKept, Plan
  <1>10. CASE ~conf.configured
    <2>1. ~transport
      BY <1>4, <1>10 DEF ConfigDone
    <2>2. LoadedPlan'
      BY <1>1, <1>4, <1>7, <1>10, <2>1 DEF LoadedPlan
    <2>3. QED
      BY <1>2, <2>2 DEF AgentInv, PlanKept, Plan
  <1>11. QED
    BY <1>9, <1>10

(* resetNats notes what runs.                                              *)
LEMMA ResetNatsStep ==
    ASSUME AgentInv, ResetNats
    PROVE  AgentInv'
  <1>1. /\ outcome = "running" /\ Head(todo) = "resetNats" /\ todo # <<>>
        /\ todo' = ResetSteps \o Tail(todo)
        /\ UNCHANGED <<queue, pushed, task, before, conf, isTransportRunning, natsChk0, server,
                       canCancel, transport, clients, controller, stopPushed, quit, outcome,
                       failed, awaiting>>
    BY DEF ResetNats, Step, locals, natsVars
  <1>2. AgentTypes' /\ AgentFlags' /\ Coherent'
    BY <1>1 DEF AgentInv, AgentTypes, AgentFlags, Coherent
  <1>3. Plan
    BY <1>1 DEF AgentInv, PlanKept
  <1>4. /\ todo = R0
        /\ \/ task.subject = "config" /\ ~conf.configured /\ ~transport
           \/ task.subject = "resetNats" /\ (transport <=> before.transport)
                /\ server = before.server
    BY <1>1, <1>3, ConfigTable, ResetTable, OtherTable, ZenonT(60)
       DEF Plan, IdlePlan, ConfigPlan, LoadedPlan, ResetPlan, ExitPlan, OtherPlan
  <1>5. todo' = ResetSteps \o <<>>
    BY <1>1, <1>4, ResetTable
  <1>6. \/ todo' = R1 /\ server = "none" /\ ~transport
        \/ todo' = R2 /\ server # "none" /\ ~transport
        \/ todo' = R3 /\ server # "none" /\ transport
    BY <1>5, ResetStepsAre DEF AgentInv, Coherent
  <1>7. CASE task.subject = "config" /\ ~conf.configured /\ ~transport
    <2>1. LoadedPlan'
      BY <1>1, <1>6, <1>7 DEF LoadedPlan
    <2>2. QED
      BY <1>2, <2>1 DEF AgentInv, PlanKept, Plan
  <1>8. CASE task.subject = "resetNats" /\ (transport <=> before.transport)
               /\ server = before.server
    <2>1. ResetPlan'
      BY <1>1, <1>6, <1>8 DEF ResetPlan
    <2>2. QED
      BY <1>2, <2>1 DEF AgentInv, PlanKept, Plan
  <1>9. QED
    BY <1>4, <1>7, <1>8

(* Start and stop of the controller.                                       *)
LEMMA ControllerStep ==
    ASSUME AgentInv, (\E ok \in BOOLEAN : ControllerStarts(ok)) \/ ControllerStops
    PROVE  AgentInv'
  <1>1. \/ Step("startController", <<>>)
        \/ Step("stopController", <<>>) /\ controller' = FALSE
    BY DEF ControllerStarts, ControllerStops
  <1>2. /\ outcome = "running" /\ todo' = Tail(todo) /\ todo # <<>>
        /\ UNCHANGED <<queue, pushed, task, before>>
        /\ \/ Head(todo) = "startController"
           \/ Head(todo) = "stopController" /\ controller' = FALSE
    BY <1>1, StepTakes
  <1>3. UNCHANGED <<conf, isTransportRunning, natsChk0, server, canCancel, transport, clients,
                    stopPushed, quit, outcome, failed, awaiting>>
    BY DEF ControllerStarts, ControllerStops, locals, natsVars
  <1>4. controller' \in BOOLEAN
    BY Zenon DEF ControllerStarts, ControllerStops, AgentInv, AgentFlags
  <1>5. AgentTypes' /\ AgentFlags' /\ Coherent'
    BY <1>2, <1>3, <1>4 DEF AgentInv, AgentTypes, AgentFlags, Coherent
  <1>6. Plan
    BY <1>2 DEF AgentInv, PlanKept
  <1>7. \/ ExitPlan /\ todo = E2 /\ controller' = FALSE
        \/ OtherPlan /\ todo \in {S1, S2}
    BY <1>2, <1>6, ConfigTable, ResetTable, OtherTable
       DEF Plan, IdlePlan, ConfigPlan, LoadedPlan, ResetPlan, ExitPlan, OtherPlan
  <1>8. CASE ExitPlan /\ todo = E2 /\ controller' = FALSE
    <2>1. ExitPlan'
      BY <1>2, <1>8, OtherTable DEF ExitPlan
    <2>2. QED
      BY <1>5, <2>1 DEF AgentInv, PlanKept, Plan
  <1>9. CASE OtherPlan /\ todo \in {S1, S2}
    <2>1. IdlePlan'
      BY <1>2, <1>9, OtherTable DEF OtherPlan, IdlePlan
    <2>2. QED
      BY <1>5, <2>1 DEF AgentInv, PlanKept, Plan
  <1>10. QED
    BY <1>7, <1>8, <1>9

(* The steps of exit, and the end of the process.                          *)
LEMMA ExitStep ==
    ASSUME AgentInv, (\E returns \in BOOLEAN : ExitHandler(returns)) \/ Quit \/ MainReturns
    PROVE  AgentInv'
  <1>1. CASE \E returns \in BOOLEAN : ExitHandler(returns)
    <2>1. /\ outcome = "running" /\ Head(todo) = "exitHandler" /\ todo' = Tail(todo)
          /\ todo # <<>> /\ UNCHANGED <<queue, pushed, task, before>>
      BY <1>1, StepTakes DEF ExitHandler
    <2>2. /\ UNCHANGED <<conf, isTransportRunning, natsChk0, server, canCancel, transport,
                         clients, controller, stopPushed, quit, failed, awaiting>>
          /\ outcome' \in {"running", "hung"}
      BY <1>1, <2>1 DEF ExitHandler, locals, natsVars
    <2>3. AgentTypes' /\ AgentFlags' /\ Coherent'
      BY <2>1, <2>2 DEF AgentInv, AgentTypes, AgentFlags, Coherent
    <2>4. Plan
      BY <2>1 DEF AgentInv, PlanKept
    <2>5. ExitPlan /\ todo = E1
      BY <2>1, <2>4, ConfigTable, ResetTable, OtherTable, ZenonT(60)
         DEF Plan, IdlePlan, ConfigPlan, LoadedPlan, ResetPlan, ExitPlan, OtherPlan
    <2>6. ExitPlan'
      BY <2>1, <2>5, OtherTable DEF ExitPlan
    <2>7. QED
      BY <2>3, <2>6 DEF AgentInv, PlanKept, Plan
  <1>2. CASE Quit
    <2>1. /\ outcome = "running" /\ Head(todo) = "quit" /\ todo' = Tail(todo)
          /\ todo # <<>> /\ UNCHANGED <<queue, pushed, task, before>>
      BY <1>2, StepTakes DEF Quit
    <2>2. /\ UNCHANGED <<conf, isTransportRunning, natsChk0, server, canCancel, transport,
                         clients, controller, stopPushed, outcome, failed, awaiting>>
          /\ quit' = 1
      BY <1>2 DEF Quit, locals, natsVars
    <2>3. AgentTypes' /\ AgentFlags' /\ Coherent'
      BY <2>1, <2>2 DEF AgentInv, AgentTypes, AgentFlags, Coherent
    <2>4. Plan
      BY <2>1 DEF AgentInv, PlanKept
    <2>5. ExitPlan /\ todo = E5
      BY <2>1, <2>4, ConfigTable, ResetTable, OtherTable, ZenonT(60)
         DEF Plan, IdlePlan, ConfigPlan, LoadedPlan, ResetPlan, ExitPlan, OtherPlan
    <2>6. IdlePlan'
      BY <2>1, <2>5, OtherTable DEF ExitPlan, IdlePlan
    <2>7. QED
      BY <2>3, <2>6 DEF AgentInv, PlanKept, Plan
  <1>3. CASE MainReturns
    BY <1>3 DEF MainReturns, AgentInv, AgentTypes, AgentFlags, Coherent, PlanKept,
                locals, natsVars, history
  <1>4. QED
    BY <1>1, <1>2, <1>3

(* Every step preserves the invariant.                                     *)
LEMMA AgentStep == AgentInv /\ [Next]_vars => AgentInv'
  <1> SUFFICES ASSUME AgentInv, [Next]_vars PROVE AgentInv'
    OBVIOUS
  <1>1. CASE Next
    BY <1>1, PushSteps, ReceiveStep, StopTransportStep, StoppedStep, StartTransportStep,
       StopNatsStep, StartNatsStep, NoteTransportStep, LoadStep, CompareNatsStep, ClearStep,
       ResetNatsStep, ControllerStep, ExitStep
       DEF Next, WorkerStep
  <1>2. CASE UNCHANGED vars
    <2>1. AgentTypes' /\ AgentFlags' /\ Coherent'
      BY <1>2 DEF vars, locals, natsVars, history, AgentInv, AgentTypes, AgentFlags, Coherent
    <2>2. PlanKept'
      BY <1>2 DEF vars, locals, natsVars, history, AgentInv, PlanKept, Plan, IdlePlan,
                  ConfigPlan, LoadedPlan, ResetPlan, ExitPlan, OtherPlan, ConfigDone,
                  ResetDone, CanStart
    <2>3. QED
      BY <2>1, <2>2 DEF AgentInv
  <1>3. QED
    BY <1>1, <1>2

(* The invariant holds from the start.                                     *)
LEMMA AgentInit == Init => AgentInv
  <1> SUFFICES ASSUME Init PROVE AgentInv
    OBVIOUS
  <1>1. AgentTypes
    <2>1. Malformed \in Tasks
      BY DEF Tasks
    <2>2. queue \in Seq(Tasks \cup {Unauthorized}) /\ Len(queue) = 0
      BY DEF Init
    <2>3. QED
      BY <2>1, <2>2, CapacityAssumption, InitAssumption DEF Init, AgentTypes
  <1>2. AgentFlags
    BY DEF Init, AgentFlags
  <1>3. Coherent /\ IdlePlan
    BY DEF Init, Coherent, IdlePlan, Malformed
  <1>4. QED
    BY <1>1, <1>2, <1>3 DEF AgentInv, PlanKept, Plan

(* No shape of remaining steps is empty, so between tasks IdlePlan holds.  *)
LEMMA BetweenTasks ==
    ASSUME AgentInv, outcome = "running", todo = <<>>
    PROVE  IdlePlan
  BY ConfigTable, ResetTable, OtherTable
     DEF AgentInv, PlanKept, Plan, ConfigPlan, LoadedPlan, ResetPlan, ExitPlan, OtherPlan

(* After every task, whatever tasks and failures came before it, the       *)
(* transport is what the loaded configuration and the transport before the *)
(* task ask for, on a server that runs.                                    *)
THEOREM TransportFollows == Spec => []TransportFollowsConfig
  <1>1. AgentInv => TransportFollowsConfig
    <2> SUFFICES ASSUME AgentInv PROVE TransportFollowsConfig
      OBVIOUS
    <2>1. TypeOK
      BY DEF AgentInv, AgentTypes, AgentFlags, TypeOK
    <2>2. TransportNeedsServer
      BY DEF AgentInv, Coherent, TransportNeedsServer
    <2>3. RunsOnLoadedConfig
      BY BetweenTasks DEF AgentInv, Coherent, RunsOnLoadedConfig, Ended, IdlePlan, ConfigDone
    <2>4. ConfigKeepsTransport /\ ResetRestores
      BY BetweenTasks
         DEF ConfigKeepsTransport, ResetRestores, Ended, IdlePlan, ConfigDone, ResetDone
    <2>5. QED
      BY <2>1, <2>2, <2>3, <2>4 DEF TransportFollowsConfig
  <1>2. QED
    BY <1>1, AgentInit, AgentStep, PTL DEF Spec

(* The quit signal is sent only when the controller, the transport and the *)
(* server have stopped: the safety part of QuitsStopped.                   *)
THEOREM QuitComesLast == Spec => QuitAfterStops
  <1>1. AgentInv /\ [Next]_vars
          => [quit' # quit => ~controller /\ ~transport /\ server = "none"]_vars
    <2> SUFFICES ASSUME AgentInv, Next, quit' # quit
                 PROVE  ~controller /\ ~transport /\ server = "none"
      OBVIOUS
    <2>1. Quit
      BY DEF Next, WorkerStep, Push, PushOnUnauthorized, Receive, StopTransport, Stopped,
             StartTransport, StopNats, StartNats, ControllerStarts, ControllerStops,
             NoteTransport, Load, CompareNats, Clear, ResetNats, ExitHandler, MainReturns
    <2>2. outcome = "running" /\ Head(todo) = "quit" /\ todo # <<>>
      BY <2>1, StepTakes DEF Quit
    <2>3. Plan
      BY <2>2 DEF AgentInv, PlanKept
    <2>4. QED
      BY <2>2, <2>3, ConfigTable, ResetTable, OtherTable, ZenonT(60)
         DEF Plan, IdlePlan, ConfigPlan, LoadedPlan, ResetPlan, ExitPlan, OtherPlan
  <1>2. QED
    BY <1>1, AgentInit, AgentStep, PTL DEF Spec, QuitAfterStops
=============================================================================
