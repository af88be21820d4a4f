---------------------------- MODULE AgentService ----------------------------
(***************************************************************************)
(* services/agent.go: the tasks of the agent (config, exit, reset, start   *)
(* and stop of controller, NATS and transport), run one at a time by the   *)
(* worker of the task queue, on the state of nats/nats.go: the server, its *)
(* publisher and the dispatcher connection.                                *)
(*                                                                         *)
(* The running task is the sequence of its remaining steps, so that a step *)
(* may put further steps in front or end the task.  Statuses are read from *)
(* the state itself (services.go: expvar functions).  The controller is    *)
(* here only up or down.                                                   *)
(***************************************************************************)
EXTENDS Naturals, Sequences, SequencesExt

CONSTANTS
    Confs,          \* configurations LoadConnectorDTO accepts:
                    \*   [enabled, configured, nats, conns], conns = "none" is no enabled connection
    InitConf,       \* the configuration at start
    Rejected,       \* values of conns for which Groundwork answers Unauthorized
    Capacity,       \* taskQueueCapacity: 8
    MaxTasks        \* bound: tasks pushed

ASSUME ConfsAssumption ==
    Confs \subseteq [enabled : BOOLEAN, configured : BOOLEAN, nats : Nat, conns : STRING]
ASSUME InitAssumption == InitConf \in Confs
ASSUME CapacityAssumption == Capacity \in Nat \ {0} /\ MaxTasks \in Nat

Subjects == {"exit", "resetNats", "startController", "stopController", "startNats",
             "stopNats", "startTransport", "stopTransport"}
Malformed == [subject |-> "malformed", conf |-> InitConf]
Tasks == {[subject |-> s, conf |-> InitConf] : s \in Subjects}
         \cup {[subject |-> "config", conf |-> k] : k \in Confs} \cup {Malformed}

VARIABLES
    queue,          \* tasks waiting for the worker
    pushed,         \* tasks pushed so far
    task,           \* the running or last task
    todo,           \* its remaining steps
    conf,           \* the loaded configuration
    isTransportRunning, natsChk0,   \* locals of config
    server,         \* s.server: none, half (started, but no publisher), up
    canCancel,      \* s.cancel # nil
    transport,      \* s.ncDispatcher # nil
    clients,        \* conns of service.gwClients
    controller,     \* controller.srv # nil
    stopPushed,     \* a fetch goroutine waits for its StopTransport
    quit,           \* values in quitChan
    outcome,        \* running, crashed (a nil s.cancel), hung (exitHandler panicked), exited
    failed,         \* history: a start step of the task failed
    before,         \* history: server and transport when the task began
    awaiting        \* history: the fetch goroutine stopped the transport, nobody acted since

natsVars == <<server, canCancel, transport, clients>>
locals == <<isTransportRunning, natsChk0>>
history == <<failed, before, awaiting>>
vars == <<queue, pushed, task, todo, conf, locals, natsVars, controller,
          stopPushed, quit, outcome, history>>

Init ==
    /\ queue = <<>>
    /\ pushed = 0
    /\ task = Malformed
    /\ todo = <<>>
    /\ conf = InitConf
    /\ isTransportRunning = FALSE
    /\ natsChk0 = 0
    /\ server = "none"
    /\ canCancel = FALSE
    /\ transport = FALSE
    /\ clients = "none"
    /\ controller = FALSE
    /\ stopPushed = FALSE
    /\ quit = 0
    /\ outcome = "running"
    /\ failed = FALSE
    /\ before = [server |-> "none", transport |-> FALSE, awaiting |-> FALSE]
    /\ awaiting = FALSE

-----------------------------------------------------------------------------
(* Pushes: the API of the controller, the connectors, the interrupt hook   *)

Push(t) ==
    /\ outcome = "running"
    /\ pushed < MaxTasks
    /\ Len(queue) < Capacity
    /\ pushed' = pushed + 1
    /\ queue' = Append(queue, t)
    /\ UNCHANGED <<task, todo, conf, locals, natsVars, controller, stopPushed,
                   quit, outcome, history>>

(* Groundwork rejects the credentials: the durable's handler pushes        *)
(* StopTransport and waits for it.                                         *)
PushOnUnauthorized ==
    /\ outcome = "running"
    /\ transport
    /\ clients \in Rejected
    /\ ~stopPushed
    /\ Len(queue) < Capacity
    /\ queue' = Append(queue, [subject |-> "unauthorized", conf |-> InitConf])
    /\ stopPushed' = TRUE
    /\ UNCHANGED <<pushed, task, todo, conf, locals, natsVars, controller, quit,
                   outcome, history>>

-----------------------------------------------------------------------------
(* The worker *)

(* Mutant of ConfigSteps: config looks at the transport after it stopped it. *)
ConfigStepsStopFirst == <<"stopTransport", "noteTransport", "load", "compareNats", "clear">>

ConfigSteps == <<"noteTransport", "stopTransport", "load", "compareNats", "clear">>
ExitSteps == <<"exitHandler", "stopController", "stopTransport", "stopNats", "quit">>

(* The steps of a task's handler. *)
StepsOf(t) ==
    CASE t.subject \in {"config", "malformed"} -> ConfigSteps
      [] t.subject = "exit" -> ExitSteps
      [] t.subject = "resetNats" -> <<"resetNats">>
      [] t.subject = "unauthorized" -> <<"stopTransport", "stopped">>
      [] OTHER -> <<t.subject>>

Receive ==
    /\ outcome = "running"
    /\ todo = <<>>
    /\ queue # <<>>
    /\ task' = Head(queue)
    /\ queue' = Tail(queue)
    /\ todo' = StepsOf(Head(queue))
    /\ failed' = FALSE
    /\ before' = [server |-> server, transport |-> transport, awaiting |-> awaiting]
    /\ awaiting' = (awaiting /\ Head(queue).subject \notin {"startTransport", "stopTransport", "exit"})
    /\ UNCHANGED <<pushed, conf, locals, natsVars, controller, stopPushed, quit, outcome>>

(* The step s of the task is taken, the steps "first" go before the rest.  *)
Step(s, first) ==
    /\ outcome = "running"
    /\ todo # <<>>
    /\ Head(todo) = s
    /\ todo' = first \o Tail(todo)
    /\ UNCHANGED <<queue, pushed, task, before>>

(* stopTransport: StopDispatcher unless the status is stopped. *)
StopTransport ==
    /\ Step("stopTransport", <<>>)
    /\ transport' = FALSE
    /\ UNCHANGED <<conf, locals, server, canCancel, clients, controller,
                   stopPushed, quit, outcome, failed, awaiting>>

(* The fetch goroutine's PushSync returns. *)
Stopped ==
    /\ Step("stopped", <<>>)
    /\ stopPushed' = FALSE
    /\ awaiting' = TRUE
    /\ UNCHANGED <<conf, locals, natsVars, controller, quit, outcome, failed>>

ClientsAfter(starts) == IF starts THEN conf.conns ELSE clients

(* startTransport: refused unless configured, nothing without connections, *)
(* else StartDispatcher: stop, then connect.                               *)
StartTransport(ok) ==
    LET starts == conf.configured /\ conf.conns # "none"
    IN  /\ Step("startTransport", <<>>)
        /\ transport' = IF starts THEN ok /\ server # "none" ELSE transport
        /\ clients' = ClientsAfter(starts)
        /\ failed' = (failed \/ ~conf.configured \/ (starts /\ ~transport'))
        /\ UNCHANGED <<conf, locals, server, canCancel, controller, stopPushed,
                       quit, outcome, awaiting>>

(* stopNats: nothing when stopped, else stopTransport and StopServer, which *)
(* calls s.cancel.                                                         *)
StopNats ==
    /\ Step("stopNats", <<>>)
    /\ IF server # "none" /\ ~canCancel
       THEN outcome' = "crashed" /\ UNCHANGED <<server, transport>>
       ELSE /\ server' = "none"
            /\ transport' = (transport /\ server = "none")
            /\ UNCHANGED outcome
    /\ UNCHANGED <<conf, locals, canCancel, clients, controller, stopPushed,
                   quit, failed, awaiting>>

(* startNats: nothing when started, else StartServer, which may fail before *)
(* it has a server, at Connect, or at defineStream.                        *)
StartNats(upTo) ==
    /\ Step("startNats", <<>>)
    /\ IF server # "none"
       THEN UNCHANGED <<server, canCancel, failed>>
       ELSE /\ server' = CASE upTo = "newServer" -> "none"
                           [] upTo = "publisher" -> "up"
                           [] OTHER              -> "half"
            /\ canCancel' = (canCancel \/ upTo \in {"defineStream", "publisher"})
            /\ failed' = (failed \/ upTo # "publisher")
    /\ UNCHANGED <<conf, locals, transport, clients, controller, stopPushed,
                   quit, outcome, awaiting>>

ControllerStarts(ok) ==
    /\ Step("startController", <<>>)
    /\ controller' = (controller \/ ok)
    /\ UNCHANGED <<conf, locals, natsVars, stopPushed, quit, outcome, failed, awaiting>>

ControllerStops ==
    /\ Step("stopController", <<>>)
    /\ controller' = FALSE
    /\ UNCHANGED <<conf, locals, natsVars, stopPushed, quit, outcome, failed, awaiting>>

-----------------------------------------------------------------------------
(* config *)

NoteTransport ==
    /\ Step("noteTransport", <<>>)
    /\ natsChk0' = conf.nats
    /\ isTransportRunning' = transport
    /\ UNCHANGED <<conf, natsVars, controller, stopPushed, quit,
                   outcome, failed, awaiting>>

(* LoadConnectorDTO: an error ends the task. *)
Load ==
    /\ outcome = "running"
    /\ todo # <<>>
    /\ Head(todo) = "load"
    /\ IF task.subject = "malformed"
       THEN todo' = <<>> /\ UNCHANGED conf
       ELSE todo' = Tail(todo) /\ conf' = task.conf
    /\ UNCHANGED <<queue, pushed, task, before, locals, natsVars, controller,
                   stopPushed, quit, outcome, failed, awaiting>>

(* NATS is restarted when its configuration changed. *)
AfterCompare ==
    IF natsChk0 # conf.nats
    THEN <<"stopNats", "startNats">> \o IF conf.enabled THEN <<"startTransport">> ELSE <<>>
    ELSE IF conf.enabled /\ isTransportRunning THEN <<"startTransport">> ELSE <<>>

CompareNats ==
    /\ Step("compareNats", AfterCompare)
    /\ UNCHANGED <<conf, locals, natsVars, controller, stopPushed, quit,
                   outcome, failed, awaiting>>

(* Without AgentID or AppType the queue is thrown away. *)
Clear ==
    /\ Step("clear", IF conf.configured THEN <<>> ELSE <<"resetNats">>)
    /\ UNCHANGED <<conf, locals, natsVars, controller, stopPushed, quit,
                   outcome, failed, awaiting>>

-----------------------------------------------------------------------------
(* resetNats and exit *)

(* The statuses are read before stopNats. *)
ResetSteps ==
    <<"stopNats">> \o (IF server # "none" THEN <<"startNats">> ELSE <<>>)
                   \o (IF transport THEN <<"startTransport">> ELSE <<>>)

ResetNats ==
    /\ Step("resetNats", ResetSteps)
    /\ UNCHANGED <<conf, locals, natsVars, controller, stopPushed, quit,
                   outcome, failed, awaiting>>

(* exit waits for a value the exitHandler's goroutine sends after it       *)
(* returned; a panic is recovered, without the value.                      *)
ExitHandler(returns) ==
    /\ Step("exitHandler", <<>>)
    /\ outcome' = IF returns THEN outcome ELSE "hung"
    /\ UNCHANGED <<conf, locals, natsVars, controller, stopPushed, quit, failed, awaiting>>

QuitDropped ==
    /\ Step("quit", <<>>)
    /\ UNCHANGED <<conf, locals, natsVars, controller, stopPushed, quit, outcome, failed, awaiting>>

(* quitChan holds one value; the send blocks until the main loop took it.  *)
Quit ==
    /\ quit = 0
    /\ Step("quit", <<>>)
    /\ quit' = 1
    /\ UNCHANGED <<conf, locals, natsVars, controller, stopPushed, outcome, failed, awaiting>>

(* A connector's main function returns after the quit signal. *)
MainReturns ==
    /\ outcome = "running"
    /\ quit = 1
    /\ outcome' = "exited"
    /\ UNCHANGED <<queue, pushed, task, todo, conf, locals, natsVars, controller,
                   stopPushed, quit, history>>

-----------------------------------------------------------------------------
WorkerStep ==
    \/ Receive
    \/ StopTransport \/ Stopped
    \/ \E ok \in BOOLEAN : StartTransport(ok)
    \/ StopNats
    \/ \E upTo \in {"newServer", "connect", "defineStream", "publisher"} : StartNats(upTo)
    \/ \E ok \in BOOLEAN : ControllerStarts(ok)
    \/ ControllerStops
    \/ NoteTransport \/ Load \/ CompareNats \/ Clear
    \/ ResetNats
    \/ \E returns \in BOOLEAN : ExitHandler(returns)
    \/ Quit

Next ==
    \/ \E t \in Tasks : Push(t)
    \/ PushOnUnauthorized
    \/ WorkerStep
    \/ MainReturns

Spec == Init /\ [][Next]_vars
FairSpec == Spec /\ WF_vars(WorkerStep)

-----------------------------------------------------------------------------
(* Properties *)

(* Types of the agent's state. *)
TypeOK ==
    /\ Len(queue) <= Capacity
    /\ pushed \in 0 .. MaxTasks
    /\ conf \in Confs
    /\ server \in {"none", "half", "up"}
    /\ {canCancel, transport, controller, stopPushed, failed, awaiting,
        isTransportRunning} \subseteq BOOLEAN
    /\ quit \in {0, 1}
    /\ outcome \in {"running", "crashed", "hung", "exited"}

(* The dispatcher never outlives the server it is connected to, whatever   *)
(* mix of tasks and failed starts came before.                             *)
TransportNeedsServer == transport => server # "none"

Ended(s) == outcome = "running" /\ todo = <<>> /\ task.subject = s

(* A running transport works with the connections of the configuration     *)
(* that was loaded last, whenever the worker is between tasks, and config  *)
(* leaves it running only if enabled and configured.                       *)
RunsOnLoadedConfig ==
    /\ outcome = "running" /\ todo = <<>> /\ transport => clients = conf.conns
    /\ Ended("config") /\ transport => conf.enabled /\ conf.configured

CanStart == conf.enabled /\ conf.configured /\ conf.conns # "none"

(* config gives back what it stopped: a transport that ran before runs     *)
(* after, if the new configuration allows it and nothing failed, also when *)
(* the NATS server is replaced meanwhile.                                  *)
ConfigKeepsTransport ==
    Ended("config") /\ before.transport /\ CanStart /\ ~failed => transport

(* resetNats brings back what ran, and nothing else.                       *)
ResetRestores ==
    Ended("resetNats") /\ ~failed =>
        /\ (server # "none") <=> (before.server # "none")
        /\ transport => before.transport
        /\ before.transport /\ conf.conns # "none" => transport

(* After every task the transport is what the loaded configuration and the *)
(* transport before the task ask for, on a server that runs.               *)
TransportFollowsConfig ==
    TypeOK /\ TransportNeedsServer /\ RunsOnLoadedConfig /\ ConfigKeepsTransport /\ ResetRestores

(* The quit signal comes after everything has stopped.                     *)
QuitAfterStops ==
    [][quit' # quit => ~controller /\ ~transport /\ server = "none"]_vars

(* Every exit that was pushed is followed by the quit signal, unless a     *)
(* panic stopped the process or the exitHandler's goroutine.               *)
ExitQuits ==
    (\E i \in 1 .. Len(queue) : queue[i].subject = "exit") ~> quit = 1 \/ outcome # "running"

(* The agent quits when it is told to, and then nothing is left running.   *)
QuitsStopped == QuitAfterStops /\ ExitQuits

(* "it looks like an issue with credentialed user so, wait for             *)
(* configuration update": once the fetch goroutine has stopped the         *)
(* transport for bad credentials, the next configuration that is enabled,  *)
(* complete and accepted brings the transport back.                        *)
ResumesAfterConfig ==
    Ended("config") /\ before.awaiting /\ CanStart /\ server = "up" /\ ~failed => transport
=============================================================================
