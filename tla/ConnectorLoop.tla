---------------------------- MODULE ConnectorLoop ----------------------------
(***************************************************************************)
(* The life of a connector: Run and configHandler of connectors/*/cmd.go,  *)
(* StartPeriodic and Start of connectors.go.  Run, the config task of the  *)
(* agent's queue, the periodic loops and the handlers they start are       *)
(* goroutines that share package variables without a lock.                 *)
(***************************************************************************)
EXTENDS Integers, Sequences, FiniteSets

CONSTANTS
    Connectors,     \* the connectors under check
    Configs,        \* configurations, numbered from 1, with an inventory each
    Handlers,       \* goroutines that run periodicHandler
    MaxLpPushes,      \* bound: configurations pushed
    MaxTicks        \* bound: ticks of all loops

ASSUME KindsAssumption ==
    Connectors \subseteq {"server", "k8s", "apm", "azure", "office", "oracle", "elastic", "snmp", "events"}
ASSUME LpAssumption ==
    Configs \subseteq Nat \ {0} /\ MaxLpPushes \in Nat /\ MaxTicks \in Nat

VARIABLES
    connectorKind,  \* which connector this process is
    runPc,          \* "start", "demanded", "up", "gone"
    loaded,         \* configuration that periodicHandler collects for: extConfig,
                    \* metricsProfile or connector
    cfgChksum,      \* checksum of the configuration seen last (snmp)
    mState,         \* state the inventory is hashed of: elastic's is made by
                    \* LoadConfig, snmp's is emptied by it and filled by collecting
    version,        \* configVersion
    chksum,         \* checksum of the inventory sent last, 0 for nil
    ctxCancel,      \* number of the current context
    cancelled,      \* contexts that are cancelled
    loops,          \* context -> number of its periodic loops
    task,           \* the configHandler that runs: configuration and steps left
    handler,        \* goroutine -> its configuration, checksum and steps left
    pushes, ticks,
    exited,
    announced,      \* history: configurations whose inventory was sent
    refused,        \* history: configurations whose inventory could not be sent
    unannounced,    \* history: configurations whose samples came before that
    overlapped      \* history: two of the goroutines ran at once

lpVars == <<connectorKind, runPc, loaded, cfgChksum, mState, version, chksum, ctxCancel, cancelled, loops, task,
            handler, pushes, ticks, exited, announced, refused, unannounced, overlapped>>

(* The steps of each configHandler that change shared state or may return, *)
(* once the data is parsed.  mayReturn may end it, mayLoad may fail.       *)
serverConfigHandler == <<"load", "announce", "renew", "start">>
k8sConfigHandler == <<"renew", "replace", "mayReturn", "start">>
apmConfigHandler == <<"load", "mayReturn", "renew", "start">>
azureConfigHandler == <<"load", "renew", "start">>
officeConfigHandler == <<"load", "renew", "start">>
oracleConfigHandler == <<"load", "bump", "renew", "mayReturn", "start">>
elasticConfigHandler == <<"mayLoad", "renew", "start">>

\* Mutant of snmpConfigHandler: the old loop is left running.
snmpConfigHandlerNoCancel == <<"loadChanged", "forget", "start">>

snmpConfigHandler == <<"loadChanged", "forget", "renew", "start">>
eventsConfigHandler == <<"load", "mayReturn", "renew">>

configHandler ==
    [server |-> serverConfigHandler, k8s |-> k8sConfigHandler, apm |-> apmConfigHandler,
     azure |-> azureConfigHandler, office |-> officeConfigHandler, oracle |-> oracleConfigHandler,
     elastic |-> elasticConfigHandler, snmp |-> snmpConfigHandler, events |-> eventsConfigHandler]

(* The steps of each periodicHandler. *)
serverPeriodicHandler == <<"collect", "send">>

k8sPeriodicHandler == <<"collect", "compareAndSet", "send">>
apmPeriodicHandler == <<"collect", "send">>
azurePeriodicHandler == <<"collect", "send">>
officePeriodicHandler == <<"collect", "announce", "send">>
oraclePeriodicHandler == <<"collect", "version", "checkVersion", "send">>
elasticPeriodicHandler == <<"collect", "hash", "compare", "set", "send">>
snmpPeriodicHandler == <<"collect", "hash", "compare", "set", "send">>

periodicHandler ==
    [server |-> serverPeriodicHandler, k8s |-> k8sPeriodicHandler, apm |-> apmPeriodicHandler,
     azure |-> azurePeriodicHandler, office |-> officePeriodicHandler, oracle |-> oraclePeriodicHandler,
     elastic |-> elasticPeriodicHandler, snmp |-> snmpPeriodicHandler, events |-> <<>>]

(* Connectors that announce hosts by an inventory of their own. *)
Announcing == {"server", "k8s", "office", "elastic", "snmp"}
(* Run of these waits for a configuration to start the loop. *)
StartsByConfig == {"oracle", "events"}

Contexts == 0..MaxLpPushes
Idle == [cfg |-> 0, sum |-> 0, steps |-> <<>>, on |-> FALSE]
NoConfigTask == [cfg |-> 0, steps |-> <<>>]
Busy == {h \in Handlers : handler[h].on}

LpInit ==
    /\ connectorKind \in Connectors
    /\ runPc = "start" /\ task = NoConfigTask /\ handler = [h \in Handlers |-> Idle]
    /\ loaded = 0 /\ cfgChksum = 0 /\ mState = 0 /\ version = 0 /\ chksum = 0
    /\ ctxCancel = 0 /\ cancelled = {} /\ loops = [c \in Contexts |-> 0]
    /\ pushes = 0 /\ ticks = 0 /\ exited = FALSE
    /\ announced = {} /\ refused = {} /\ unannounced = {} /\ overlapped = FALSE

(* A handler of the loop starts; one more goroutine for every call, beside *)
(* the others and what is left of configHandler.  The bound on goroutines  *)
(* is the model's.                                                         *)
StartHandler(h, left) ==
    /\ ~handler[h].on
    /\ handler' = [handler EXCEPT ![h] =
                     [cfg |-> 0, sum |-> 0, steps |-> periodicHandler[connectorKind], on |-> TRUE]]
    /\ overlapped' = (overlapped \/ Busy # {} \/ left # <<>>)

(* StartPeriodic: a loop on the context, and the handler at once. *)
StartPeriodic(h, left) ==
    /\ loops' = [loops EXCEPT ![ctxCancel] = @ + 1]
    /\ StartHandler(h, left)

(* SendInventory, if it is due: an error is logged, and no more. *)
SendInventory(c, due) ==
    \/ announced' = (IF due THEN announced \cup {c} ELSE announced) /\ refused' = refused
    \/ due /\ announced' = announced /\ refused' = refused \cup {c}

-----------------------------------------------------------------------------
(* Run: DemandConfig starts the controller, by which configurations come;  *)
(* Start starts NATS, and a failure of either ends the process.            *)
DemandConfig ==
    /\ runPc = "start" /\ runPc' \in {"demanded", "gone"}
    /\ UNCHANGED <<connectorKind, loaded, cfgChksum, mState, version, chksum, ctxCancel, cancelled, loops, task,
                   handler, pushes, ticks, exited, announced, refused, unannounced, overlapped>>

RunStarts ==
    /\ runPc = "demanded"
    /\ \/ runPc' = "gone" /\ UNCHANGED <<loops, handler, overlapped>>
       \/ connectorKind \in StartsByConfig /\ runPc' = "up" /\ UNCHANGED <<loops, handler, overlapped>>
       \/ connectorKind \notin StartsByConfig /\ runPc' = "up" /\ \E h \in Handlers : StartPeriodic(h, task.steps)
    /\ UNCHANGED <<connectorKind, loaded, cfgChksum, mState, version, chksum, ctxCancel, cancelled, task,
                   pushes, ticks, exited, announced, refused, unannounced>>

(* The agent's queue runs the configHandler of one configuration. *)
ConfigArrives ==
    /\ runPc \in {"demanded", "up"} /\ ~exited /\ task = NoConfigTask /\ pushes < MaxLpPushes
    /\ pushes' = pushes + 1
    /\ \E c \in Configs : task' = [cfg |-> c, steps |-> configHandler[connectorKind]]
    /\ overlapped' = (overlapped \/ Busy # {})
    /\ UNCHANGED <<connectorKind, runPc, loaded, cfgChksum, mState, version, chksum, ctxCancel, cancelled, loops,
                   handler, ticks, exited, announced, refused, unannounced>>

(* One step of it.  snmp loads a configuration that has changed, and keeps *)
(* its devices when it names no server.                                    *)
ConfigStep ==
    /\ task.steps # <<>> /\ runPc # "gone"
    /\ LET step == Head(task.steps)
           rest == Tail(task.steps)
       IN  /\ \/ step = "mayReturn" /\ task' = NoConfigTask
              \/ task' = IF rest = <<>> THEN NoConfigTask ELSE [cfg |-> task.cfg, steps |-> rest]
           /\ \/ step \in {"load", "replace", "mayLoad", "loadChanged"} /\ loaded' = task.cfg
              \/ step \notin {"load", "replace", "loadChanged"} /\ loaded' = loaded
           /\ cfgChksum' = IF step = "loadChanged" THEN task.cfg ELSE cfgChksum
           /\ \/ connectorKind # "snmp" /\ mState' = loaded'
              \/ step = "loadChanged" /\ cfgChksum # task.cfg /\ mState' = 0
              \/ connectorKind = "snmp" /\ mState' = mState
           /\ version' = IF step = "bump" THEN version + 1 ELSE version
           /\ chksum' = IF step \in {"forget", "replace"} THEN 0
                        ELSE IF step = "announce" THEN task.cfg ELSE chksum
           /\ SendInventory(task.cfg, step = "announce" /\ chksum # task.cfg)
           /\ ctxCancel' = IF step = "renew" THEN ctxCancel + 1 ELSE ctxCancel
           /\ cancelled' = IF step = "renew" THEN cancelled \cup {ctxCancel} ELSE cancelled
           /\ IF step = "start" THEN \E h \in Handlers : StartPeriodic(h, rest)
                                ELSE UNCHANGED <<loops, handler, overlapped>>
    /\ UNCHANGED <<connectorKind, runPc, pushes, ticks, exited, unannounced>>

\* Mutant of Exit: the handler of Run is never registered again.
ExitFirstContext ==
    /\ runPc \in {"demanded", "up"} /\ task = NoConfigTask /\ ~exited
    /\ exited' = TRUE /\ cancelled' = cancelled \cup {0}
    /\ UNCHANGED <<connectorKind, runPc, loaded, cfgChksum, mState, version, chksum, ctxCancel, loops, task, handler,
                   pushes, ticks, announced, refused, unannounced, overlapped>>

(* The exit task runs the exit handler registered last: cancel. *)
Exit ==
    /\ runPc \in {"demanded", "up"} /\ task = NoConfigTask /\ ~exited
    /\ exited' = TRUE /\ cancelled' = cancelled \cup {ctxCancel}
    /\ UNCHANGED <<connectorKind, runPc, loaded, cfgChksum, mState, version, chksum, ctxCancel, loops, task, handler,
                   pushes, ticks, announced, refused, unannounced, overlapped>>

-----------------------------------------------------------------------------
(* The loop selects between its ticker and its context, at random when     *)
(* both are ready.                                                         *)
Tick ==
    /\ (\E c \in Contexts : loops[c] > 0) /\ ticks < MaxTicks /\ runPc # "gone"
    /\ ticks' = ticks + 1
    /\ \E h \in Handlers : StartHandler(h, task.steps)
    /\ UNCHANGED <<connectorKind, runPc, loaded, cfgChksum, mState, version, chksum, ctxCancel, cancelled, loops, task,
                   pushes, exited, announced, refused, unannounced>>

LoopEnds(c) ==
    /\ loops[c] > 0 /\ c \in cancelled
    /\ loops' = [loops EXCEPT ![c] = @ - 1]
    /\ UNCHANGED <<connectorKind, runPc, loaded, cfgChksum, mState, version, chksum, ctxCancel, cancelled, task, handler,
                   pushes, ticks, exited, announced, refused, unannounced, overlapped>>

(* A handler is done, or it has nothing to collect for, fails or panics    *)
(* while it collects, and StartPeriodic recovers.                          *)
HandlerEnds(h) ==
    /\ handler[h].on /\ handler[h].steps \in {<<>>, periodicHandler[connectorKind]}
    /\ handler' = [handler EXCEPT ![h] = Idle]
    /\ UNCHANGED <<connectorKind, runPc, loaded, cfgChksum, mState, version, chksum, ctxCancel, cancelled, loops, task,
                   pushes, ticks, exited, announced, refused, unannounced, overlapped>>

HandlerStep(h) ==
    /\ handler[h].on /\ handler[h].steps # <<>>
    /\ LET me == handler[h]
           step == Head(me.steps)
           stale == step = "checkVersion" /\ version # me.sum
           announces == \/ step = "announce"
                        \/ step = "compareAndSet" /\ chksum # me.cfg
                        \/ step = "compare" /\ chksum # me.sum
       IN  /\ step = "collect" => loaded # 0
           /\ handler' = [handler EXCEPT ![h] =
                IF stale THEN Idle
                ELSE [cfg |-> IF step = "collect" THEN loaded ELSE me.cfg,
                      sum |-> IF step = "hash" THEN (IF mState = 0 THEN -1 ELSE mState)
                              ELSE IF step = "version" THEN version ELSE me.sum,
                      steps |-> Tail(me.steps), on |-> TRUE]]
           /\ mState' = IF step = "collect" /\ connectorKind = "snmp" THEN loaded ELSE mState
           /\ chksum' = IF step = "compareAndSet" THEN me.cfg
                        ELSE IF step = "set" THEN me.sum ELSE chksum
           /\ SendInventory(me.cfg, announces)
           /\ unannounced' = IF step = "send" /\ me.cfg \notin announced
                             THEN unannounced \cup {me.cfg} ELSE unannounced
    /\ UNCHANGED <<connectorKind, runPc, loaded, cfgChksum, version, ctxCancel, cancelled, loops, task,
                   pushes, ticks, exited, overlapped>>

LpNext ==
    \/ DemandConfig \/ RunStarts \/ ConfigArrives \/ ConfigStep \/ Exit \/ Tick
    \/ \E c \in Contexts : LoopEnds(c)
    \/ \E h \in Handlers : HandlerEnds(h) \/ HandlerStep(h)

LpSpec == LpInit /\ [][LpNext]_lpVars

-----------------------------------------------------------------------------
(* Types of the loops' state. *)
LpTypeOK ==
    /\ runPc \in {"start", "demanded", "up", "gone"}
    /\ loaded \in Configs \cup {0} /\ chksum \in Configs \cup {-1, 0} /\ cfgChksum \in Configs \cup {0}
    /\ version \in 0..MaxLpPushes /\ ctxCancel \in Contexts /\ cancelled \subseteq Contexts
    /\ loops \in [Contexts -> Nat] /\ DOMAIN handler = Handlers

(* A new configuration leaves no loop behind: every loop that will go on   *)
(* is on the current context, where the exit handler reaches it, and there *)
(* are at most two of them, Run's and the configuration's.                 *)
OneContextRuns ==
    \A c \in Contexts \ cancelled : loops[c] > 0 => c = ctxCancel /\ loops[c] <= 2

(* As long as no two goroutines of the connector run at once, hosts are    *)
(* announced by their inventory before metrics are sent for them, unless   *)
(* that inventory could not be sent: its checksum is kept all the same.    *)
AnnouncedWithoutOverlap ==
    connectorKind \in Announcing /\ ~overlapped => unannounced \subseteq {0} \cup refused

(* The loops and the inventories of a connector follow its configuration.  *)
LoopsFollowConfig == LpTypeOK /\ OneContextRuns /\ AnnouncedWithoutOverlap

(* After the exit task no loop goes on. *)
ExitReachesLoops == exited => \A c \in Contexts \ cancelled : loops[c] = 0
=============================================================================
