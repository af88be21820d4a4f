------------------------- MODULE ConnectorLoopProofs -------------------------
(* Proofs about ConnectorLoop for every connector, any configurations,     *)
(* goroutines and number of pushes and ticks, and about Config, which the  *)
(* connectors are configured from, for any environments, pushed            *)
(* configurations and number of config tasks and starts.                   *)
EXTENDS ConnectorLoop, Config, TLAPS

-----------------------------------------------------------------------------
(* What can be left of a configHandler *)

(* Before its context is renewed.                                          *)
A1 == <<"load", "announce", "renew", "start">>
A2 == <<"announce", "renew", "start">>
K1 == <<"renew", "replace", "mayReturn", "start">>
M1 == <<"load", "mayReturn", "renew", "start">>
M2 == <<"mayReturn", "renew", "start">>
L1 == <<"load", "renew", "start">>
V1 == <<"load", "bump", "renew", "mayReturn", "start">>
V2 == <<"bump", "renew", "mayReturn", "start">>
V3 == <<"renew", "mayReturn", "start">>
E1 == <<"mayLoad", "renew", "start">>
S1 == <<"loadChanged", "forget", "renew", "start">>
S2 == <<"forget", "renew", "start">>
N1 == <<"load", "mayReturn", "renew">>
N2 == <<"mayReturn", "renew">>
N3 == <<"renew">>
RS == <<"renew", "start">>

(* After it, before the loop is started.                                   *)
K2 == <<"replace", "mayReturn", "start">>
MS == <<"mayReturn", "start">>
ST == <<"start">>

(* What is left before the version is bumped, before the context is        *)
(* renewed, and between that and the start of the loop.                    *)
BeforeBump == {V1, V2}
BeforeRenew == {A1, A2, K1, M1, M2, L1, V1, V2, V3, E1, S1, S2, N1, N2, N3, RS}
BeforeStart == {K2, MS, ST}
ConfigPlans == BeforeRenew \cup BeforeStart

(* What is done first, and what is left after it.                          *)
LEMMA ConfigSteps ==
    /\ A1 # <<>> /\ Head(A1) = "load" /\ Tail(A1) = A2
    /\ A2 # <<>> /\ Head(A2) = "announce" /\ Tail(A2) = RS
    /\ K1 # <<>> /\ Head(K1) = "renew" /\ Tail(K1) = K2
    /\ M1 # <<>> /\ Head(M1) = "load" /\ Tail(M1) = M2
    /\ M2 # <<>> /\ Head(M2) = "mayReturn" /\ Tail(M2) = RS
    /\ L1 # <<>> /\ Head(L1) = "load" /\ Tail(L1) = RS
    /\ V1 # <<>> /\ Head(V1) = "load" /\ Tail(V1) = V2
    /\ V2 # <<>> /\ Head(V2) = "bump" /\ Tail(V2) = V3
    /\ V3 # <<>> /\ Head(V3) = "renew" /\ Tail(V3) = MS
    /\ E1 # <<>> /\ Head(E1) = "mayLoad" /\ Tail(E1) = RS
    /\ S1 # <<>> /\ Head(S1) = "loadChanged" /\ Tail(S1) = S2
    /\ S2 # <<>> /\ Head(S2) = "forget" /\ Tail(S2) = RS
    /\ N1 # <<>> /\ Head(N1) = "load" /\ Tail(N1) = N2
    /\ N2 # <<>> /\ Head(N2) = "mayReturn" /\ Tail(N2) = N3
    /\ N3 # <<>> /\ Head(N3) = "renew" /\ Tail(N3) = <<>>
    /\ RS # <<>> /\ Head(RS) = "renew" /\ Tail(RS) = ST
    /\ K2 # <<>> /\ Head(K2) = "replace" /\ Tail(K2) = MS
    /\ MS # <<>> /\ Head(MS) = "mayReturn" /\ Tail(MS) = ST
    /\ ST # <<>> /\ Head(ST) = "start" /\ Tail(ST) = <<>>
  BY DEF A1, A2, K1, M1, M2, L1, V1, V2, V3, E1, S1, S2, N1, N2, N3, RS, K2, MS, ST

(* No plan is empty.                                                       *)
LEMMA PlansAreLeft == <<>> \notin ConfigPlans \cup BeforeRenew \cup BeforeStart \cup BeforeBump
  BY ConfigSteps DEF ConfigPlans, BeforeRenew, BeforeStart, BeforeBump

(* What a step of configHandler leaves: a context is renewed once, and     *)
(* before the loop is started, which comes last.                           *)
LEMMA ConfigTable ==
    ASSUME NEW s \in ConfigPlans
    PROVE  /\ s # <<>>
           /\ Tail(s) \in ConfigPlans \cup {<<>>}
           /\ Head(s) = "renew" => s \in BeforeRenew /\ Tail(s) \in BeforeStart \cup {<<>>}
           /\ Head(s) # "renew" /\ Tail(s) \in BeforeRenew => s \in BeforeRenew
           /\ Head(s) # "renew" /\ Tail(s) \in BeforeStart => s \in BeforeStart
           /\ Head(s) = "start" => s \in BeforeStart /\ Tail(s) = <<>>
           /\ Head(s) = "bump" => s \in BeforeBump /\ Tail(s) \notin BeforeBump
           /\ Tail(s) \in BeforeBump => s \in BeforeBump
           /\ Tail(s) # S1 /\ (Head(s) = "loadChanged" => s = S1)
           /\ <<>> \notin ConfigPlans
           /\ BeforeRenew \cap BeforeStart = {}
  <1> USE ConfigSteps DEF ConfigPlans, BeforeRenew, BeforeStart, BeforeBump
  <1>1. s # <<>> /\ <<>> \notin ConfigPlans
    OBVIOUS
  <1>2. Tail(s) \in ConfigPlans \cup {<<>>}
    BY ZenonT(60)
  <1>3. MS # M2 /\ MS # N2
    OBVIOUS
  <1>4. BeforeRenew \cap BeforeStart = {}
    BY <1>3
  <1>5. Head(s) = "renew" => s \in BeforeRenew /\ Tail(s) \in BeforeStart \cup {<<>>}
    BY ZenonT(60)
  <1>6. s \in BeforeRenew /\ Head(s) # "renew" => Tail(s) \in BeforeRenew
    BY ZenonT(60)
  <1>7. s \in BeforeStart => Tail(s) \in BeforeStart \cup {<<>>}
    BY ZenonT(60)
  <1>8. \/ s = V1 \/ Tail(s) = <<>>
        \/ Head(Tail(s)) \in {"announce", "renew", "replace", "mayReturn", "start", "forget"}
    BY ZenonT(60)
  <1>9. Head(s) = "start" => s \in BeforeStart /\ Tail(s) = <<>>
    OBVIOUS
  <1>10. Head(s) = "bump" => s \in BeforeBump /\ Tail(s) \notin BeforeBump
    OBVIOUS
  <1>11. /\ Head(V1) = "load" /\ Head(V2) = "bump" /\ V1 # <<>> /\ V2 # <<>>
         /\ Head(S1) = "loadChanged" /\ S1 # <<>> /\ Tail(V1) = V2
         /\ Head(s) = "loadChanged" => s = S1
    OBVIOUS
  <1> HIDE ConfigSteps DEF ConfigPlans, BeforeRenew, BeforeStart
  <1>12. (Tail(s) \in BeforeBump => s \in BeforeBump) /\ Tail(s) # S1
    BY <1>8, <1>11
  <1> HIDE DEF BeforeBump
  <1>13. BeforeRenew \cup BeforeStart = ConfigPlans
    BY DEF ConfigPlans
  <1>14. QED
    BY <1>1, <1>2, <1>4, <1>5, <1>6, <1>7, <1>9, <1>10, <1>11, <1>12, <1>13

-----------------------------------------------------------------------------
(* What can be left of a periodicHandler *)

(* One letter for each form of periodicHandler: only collected (P),        *)
(* compared and set in one step (Q), announced every time (O), version     *)
(* checked (W), inventory hashed, compared and set (H).                    *)
P1 == <<"collect", "send">>
Q1 == <<"collect", "compareAndSet", "send">>
Q2 == <<"compareAndSet", "send">>
O1 == <<"collect", "announce", "send">>
O2 == <<"announce", "send">>
W1 == <<"collect", "version", "checkVersion", "send">>
W2 == <<"version", "checkVersion", "send">>
W3 == <<"checkVersion", "send">>
H1 == <<"collect", "hash", "compare", "set", "send">>
H2 == <<"hash", "compare", "set", "send">>
H3 == <<"compare", "set", "send">>
H4 == <<"set", "send">>
PS == <<"send">>

(* Everything that can be left, and what a handler may begin with.         *)
HandlerPlans == {P1, Q1, Q2, O1, O2, W1, W2, W3, H1, H2, H3, H4, PS}
Starts == {P1, Q1, O1, W1, H1}

(* What is done first, and what is left after it.                          *)
LEMMA HandlerSteps ==
    /\ P1 # <<>> /\ Head(P1) = "collect" /\ Tail(P1) = PS
    /\ Q1 # <<>> /\ Head(Q1) = "collect" /\ Tail(Q1) = Q2
    /\ Q2 # <<>> /\ Head(Q2) = "compareAndSet" /\ Tail(Q2) = PS
    /\ O1 # <<>> /\ Head(O1) = "collect" /\ Tail(O1) = O2
    /\ O2 # <<>> /\ Head(O2) = "announce" /\ Tail(O2) = PS
    /\ W1 # <<>> /\ Head(W1) = "collect" /\ Tail(W1) = W2
    /\ W2 # <<>> /\ Head(W2) = "version" /\ Tail(W2) = W3
    /\ W3 # <<>> /\ Head(W3) = "checkVersion" /\ Tail(W3) = PS
    /\ H1 # <<>> /\ Head(H1) = "collect" /\ Tail(H1) = H2
    /\ H2 # <<>> /\ Head(H2) = "hash" /\ Tail(H2) = H3
    /\ H3 # <<>> /\ Head(H3) = "compare" /\ Tail(H3) = H4
    /\ H4 # <<>> /\ Head(H4) = "set" /\ Tail(H4) = PS
    /\ PS # <<>> /\ Head(PS) = "send" /\ Tail(PS) = <<>>
  BY DEF P1, Q1, Q2, O1, O2, W1, W2, W3, H1, H2, H3, H4, PS

(* What a step of a periodicHandler leaves: what is compared was hashed,   *)
(* and what is set was compared.                                           *)
LEMMA HandlerTable ==
    ASSUME NEW s \in HandlerPlans
    PROVE  /\ s # <<>> /\ Tail(s) \in HandlerPlans \cup {<<>>}
           /\ Head(s) = "set" => s = H4
           /\ Tail(s) = H3 => s = H2 /\ Head(s) = "hash"
           /\ Tail(s) = H4 => s = H3 /\ Head(s) = "compare"
  <1> USE HandlerSteps DEF HandlerPlans
  <1>1. s # <<>> /\ Tail(s) \in HandlerPlans \cup {<<>>}
    BY ZenonT(60)
  <1>2. Head(s) = "set" => s = H4
    OBVIOUS
  <1>3. \/ s = H2 \/ Tail(s) = <<>>
        \/ Head(Tail(s)) \in {"send", "compareAndSet", "announce", "version", "checkVersion",
                             "hash", "set"}
    BY ZenonT(60)
  <1>4. \/ s = H3 \/ Tail(s) = <<>>
        \/ Head(Tail(s)) \in {"send", "compareAndSet", "announce", "version", "checkVersion",
                             "hash", "compare"}
    BY ZenonT(60)
  <1> HIDE DEF HandlerPlans
  <1>5. QED
    BY <1>1, <1>2, <1>3, <1>4

(* What the handlers of a connector begin with.                            *)
LEMMA PlansOfKinds ==
    ASSUME connectorKind \in Connectors
    PROVE  /\ configHandler[connectorKind] \in BeforeRenew
           /\ connectorKind = "server" => configHandler[connectorKind] = A1
           /\ configHandler[connectorKind] = S1 => connectorKind = "snmp"
           /\ periodicHandler[connectorKind] \in Starts \cup {<<>>}
           /\ connectorKind = "server" => periodicHandler[connectorKind] = P1
           /\ connectorKind = "k8s" => periodicHandler[connectorKind] = Q1
           /\ connectorKind = "office" => periodicHandler[connectorKind] = O1
           /\ connectorKind \in {"elastic", "snmp"} => periodicHandler[connectorKind] = H1
  <1>1. /\ configHandler["server"] = A1 /\ configHandler["k8s"] = K1
        /\ configHandler["apm"] = M1 /\ configHandler["azure"] = L1
        /\ configHandler["office"] = L1 /\ configHandler["oracle"] = V1
        /\ configHandler["elastic"] = E1 /\ configHandler["snmp"] = S1
        /\ configHandler["events"] = N1
    BY DEF configHandler, serverConfigHandler, k8sConfigHandler, apmConfigHandler,
           azureConfigHandler, officeConfigHandler, oracleConfigHandler, elasticConfigHandler,
           snmpConfigHandler, eventsConfigHandler, A1, K1, M1, L1, V1, E1, S1, N1
  <1>2. /\ periodicHandler["server"] = P1 /\ periodicHandler["k8s"] = Q1
        /\ periodicHandler["apm"] = P1 /\ periodicHandler["azure"] = P1
        /\ periodicHandler["office"] = O1 /\ periodicHandler["oracle"] = W1
        /\ periodicHandler["elastic"] = H1 /\ periodicHandler["snmp"] = H1
        /\ periodicHandler["events"] = <<>>
    BY DEF periodicHandler, serverPeriodicHandler, k8sPeriodicHandler, apmPeriodicHandler,
           azurePeriodicHandler, officePeriodicHandler, oraclePeriodicHandler,
           elasticPeriodicHandler, snmpPeriodicHandler, P1, Q1, O1, W1, H1
  <1>3. QED
    <2>1. S1 \notin {A1, K1, M1, L1, V1, E1, N1}
      BY ConfigSteps
    <2>2. QED
      BY <1>1, <1>2, <2>1, KindsAssumption DEF BeforeRenew, Starts

-----------------------------------------------------------------------------
(* The inductive invariant *)

(* Types beyond LpTypeOK, and that an idle config task is NoConfigTask.          *)
LpTypes ==
    /\ connectorKind \in Connectors
    /\ runPc \in {"start", "demanded", "up", "gone"}
    /\ loaded \in Configs \cup {0} /\ cfgChksum \in Configs \cup {0}
    /\ mState \in Configs \cup {0} /\ chksum \in Configs \cup {-1, 0}
    /\ pushes \in 0 .. MaxLpPushes
    /\ task \in [cfg : Configs \cup {0}, steps : ConfigPlans \cup {<<>>}]
    /\ task.steps = <<>> => task = NoConfigTask
    /\ task.steps # <<>> => task.cfg \in Configs
    /\ exited \in BOOLEAN /\ overlapped \in BOOLEAN

(* The goroutines: the checksum of one that has hashed is an inventory's.  *)
HandlerTypes ==
    /\ handler \in [Handlers -> [cfg : Configs \cup {0}, sum : Int,
                                 steps : HandlerPlans \cup {<<>>}, on : BOOLEAN]]
    /\ \A h \in Handlers : handler[h].steps \in {H3, H4} => handler[h].sum \in Configs \cup {-1}

(* One renewal and one new version for each configuration pushed.          *)
OnePerPush ==
    /\ version \in 0 .. pushes /\ (task.steps \in BeforeBump => version < pushes)
    /\ ctxCancel \in 0 .. pushes /\ (task.steps \in BeforeRenew => ctxCancel < pushes)

(* Every context but the current one is cancelled, and the current one has *)
(* room for the loops that Run and the config task have yet to start.      *)
LoopsOfContexts ==
    /\ cancelled \subseteq 0 .. ctxCancel
    /\ \A c \in 0 .. ctxCancel : c < ctxCancel => c \in cancelled
    /\ loops \in [Contexts -> Nat]
    /\ \A c \in Contexts : loops[c] > 0 => c <= ctxCancel
    /\ loops[ctxCancel] <= 2
    /\ runPc \in {"start", "demanded"} => loops[ctxCancel] <= 1
    /\ task.steps \in BeforeStart =>
         /\ runPc = "demanded" => loops[ctxCancel] = 0
         /\ runPc = "up" => loops[ctxCancel] <= 1
    /\ task.steps # <<>> => runPc # "start"
    /\ exited => ctxCancel \in cancelled /\ task.steps = <<>>

(* What keeps the loops on the current context.                            *)
LpLoopInv == LpTypes /\ HandlerTypes /\ OnePerPush /\ LoopsOfContexts

(* The plans of the connectors that announce their hosts, and the state    *)
(* their inventory is hashed of.                                           *)
PlansFit ==
    /\ connectorKind = "server" => task.steps \in {A1, A2, RS, ST, <<>>}
    /\ task.steps = S1 => connectorKind = "snmp"
    /\ \A h \in Handlers :
         /\ connectorKind = "server" => handler[h].steps \in {P1, PS, <<>>}
         /\ connectorKind = "k8s" => handler[h].steps \in {Q1, Q2, PS, <<>>}
         /\ connectorKind = "office" => handler[h].steps \in {O1, O2, PS, <<>>}
         /\ connectorKind \in {"elastic", "snmp"} =>
              handler[h].steps \in {H1, H2, H3, H4, PS, <<>>}
    /\ connectorKind # "snmp" => mState = loaded

(* Without overlap, one goroutine at a time.                               *)
OneAtATime ==
    \A h \in Handlers : handler[h].on =>
        task.steps = <<>> /\ \A g \in Handlers : handler[g].on => g = h

(* The configurations whose inventory SendInventory was called with.       *)
Tried == announced \cup refused

(* What SendInventory leaves.                                              *)
LEMMA InventoryTried ==
    ASSUME NEW c, NEW due \in BOOLEAN, SendInventory(c, due)
    PROVE  /\ Tried' = IF due THEN Tried \cup {c} ELSE Tried
           /\ refused \subseteq refused'
  BY DEF SendInventory, Tried

(* SendInventory was called with the inventory whose checksum is kept; the *)
(* server's is sent by the task that loads its configuration.              *)
InventorySent ==
    /\ chksum = 0 \/ chksum \in Tried
    /\ connectorKind = "server" =>
         IF task.steps = A2 THEN loaded = task.cfg ELSE loaded \in Tried \cup {0}

(* A handler hashes what it has collected, and has announced it before it  *)
(* sends.                                                                  *)
HandlerAnnounces ==
    \A h \in Handlers : handler[h].on =>
        /\ handler[h].steps \in {Q2, H2, H3} => handler[h].cfg # 0
        /\ handler[h].steps = H2 => mState = handler[h].cfg
        /\ handler[h].steps \in {H3, H4} => handler[h].sum = handler[h].cfg
        /\ handler[h].steps \in {H4, PS} => handler[h].cfg \in Tried

(* What keeps hosts announced before their metrics, for the connectors     *)
(* that announce them, as long as nothing has overlapped.                  *)
Announces ==
    OneAtATime /\ InventorySent /\ HandlerAnnounces /\ unannounced \subseteq {0} \cup refused
AnnounceInv ==
    PlansFit /\ (connectorKind \in Announcing /\ ~overlapped => Announces)

-----------------------------------------------------------------------------
(* The loops and the contexts *)

(* A handler starts at the beginning of its plan, beside those that run.   *)
LEMMA HandlerStarts ==
    ASSUME LpTypes, HandlerTypes, NEW h \in Handlers, NEW left, StartHandler(h, left)
    PROVE  /\ HandlerTypes' /\ overlapped' \in BOOLEAN
           /\ ~handler[h].on
           /\ handler'[h] = [cfg |-> 0, sum |-> 0, steps |-> periodicHandler[connectorKind],
                             on |-> TRUE]
           /\ \A g \in Handlers \ {h} : handler'[g] = handler[g]
           /\ ~overlapped' => ~overlapped /\ Busy = {} /\ left = <<>>
  <1>1. periodicHandler[connectorKind] \in Starts \cup {<<>>}
    BY PlansOfKinds DEF LpTypes
  <1>2. /\ periodicHandler[connectorKind] \in HandlerPlans \cup {<<>>}
        /\ periodicHandler[connectorKind] \notin {H3, H4}
    BY <1>1, HandlerSteps DEF Starts, HandlerPlans
  <1>3. /\ handler' = [handler EXCEPT ![h] = [cfg |-> 0, sum |-> 0,
                          steps |-> periodicHandler[connectorKind], on |-> TRUE]]
        /\ ~handler[h].on
    BY DEF StartHandler
  <1>4. overlapped' \in BOOLEAN /\ (~overlapped' => ~overlapped /\ Busy = {} /\ left = <<>>)
    BY Zenon DEF StartHandler
  <1>5. /\ handler'[h] = [cfg |-> 0, sum |-> 0, steps |-> periodicHandler[connectorKind],
                          on |-> TRUE]
        /\ \A g \in Handlers \ {h} : handler'[g] = handler[g]
    BY <1>3 DEF HandlerTypes
  <1>6. HandlerTypes'
    BY <1>2, <1>3 DEF HandlerTypes
  <1>7. QED
    BY <1>3, <1>4, <1>5, <1>6

(* Run.                                                                    *)
LEMMA LoopRunSteps ==
    ASSUME LpLoopInv, DemandConfig \/ RunStarts
    PROVE  LpLoopInv'
  <1> USE LpAssumption DEF LpLoopInv
  <1>1. CASE DemandConfig
    BY <1>1, PlansAreLeft DEF DemandConfig, LpTypes, HandlerTypes, OnePerPush, LoopsOfContexts
  <1>2. CASE RunStarts
    <2>1. /\ runPc = "demanded" /\ runPc' \in {"up", "gone"}
          /\ UNCHANGED <<connectorKind, loaded, cfgChksum, mState, version, chksum, ctxCancel,
                         cancelled, task, pushes, exited>>
      BY <1>2 DEF RunStarts
    <2>2. OnePerPush'
      BY <2>1 DEF OnePerPush
    <2>3. CASE UNCHANGED <<loops, handler, overlapped>>
      BY <2>1, <2>2, <2>3 DEF LpTypes, HandlerTypes, LoopsOfContexts
    <2>4. ASSUME NEW h \in Handlers, StartPeriodic(h, task.steps), runPc' = "up" PROVE LpLoopInv'
      <3>1. HandlerTypes' /\ overlapped' \in BOOLEAN
        BY <2>4, HandlerStarts DEF StartPeriodic
      <3>2. LpTypes'
        BY <2>1, <3>1 DEF LpTypes
      <3>3. ctxCancel \in Contexts
        BY DEF OnePerPush, LpTypes, Contexts
      <3>4. /\ loops' \in [Contexts -> Nat] /\ loops'[ctxCancel] = loops[ctxCancel] + 1
            /\ \A c \in Contexts \ {ctxCancel} : loops'[c] = loops[c]
            /\ loops[ctxCancel] \in Nat
        BY <2>4, <3>3 DEF StartPeriodic, LoopsOfContexts
      <3>5. LoopsOfContexts'
        BY <2>1, <2>4, <3>3, <3>4 DEF LoopsOfContexts, OnePerPush, LpTypes
      <3>6. QED
        BY <2>2, <3>1, <3>2, <3>5
    <2>5. QED
      BY <1>2, <2>3, <2>4 DEF RunStarts
  <1>3. QED
    BY <1>1, <1>2

(* A configuration arrives: its task will renew the context once.          *)
LEMMA LoopArrives ==
    ASSUME LpLoopInv, ConfigArrives
    PROVE  LpLoopInv'
  <1> USE LpAssumption DEF LpLoopInv
  <1>1. /\ runPc \in {"demanded", "up"} /\ ~exited /\ pushes < MaxLpPushes /\ pushes' = pushes + 1
        /\ UNCHANGED <<connectorKind, runPc, loaded, cfgChksum, mState, version, chksum,
                       ctxCancel, cancelled, loops, handler, exited>>
    BY DEF ConfigArrives
  <1>2. PICK c \in Configs : task' = [cfg |-> c, steps |-> configHandler[connectorKind]]
    BY DEF ConfigArrives
  <1>3. overlapped' \in BOOLEAN
    BY Zenon DEF ConfigArrives
  <1>4. configHandler[connectorKind] \in BeforeRenew
    BY PlansOfKinds DEF LpTypes
  <1>5. /\ configHandler[connectorKind] \in ConfigPlans
        /\ configHandler[connectorKind] # <<>>
        /\ configHandler[connectorKind] \notin BeforeStart
    BY <1>4, ConfigTable DEF ConfigPlans
  <1>6. LpTypes' /\ HandlerTypes'
    BY <1>1, <1>2, <1>3, <1>5 DEF LpTypes, HandlerTypes
  <1>7. OnePerPush'
    BY <1>1 DEF OnePerPush, LpTypes
  <1>8. LoopsOfContexts'
    BY <1>1, <1>2, <1>5 DEF LoopsOfContexts
  <1>9. QED
    BY <1>6, <1>7, <1>8

(* What a step of the config task does to the task itself.                 *)
LEMMA TaskStep ==
    ASSUME LpTypes, ConfigStep
    PROVE  /\ task.steps \in ConfigPlans /\ task.cfg \in Configs /\ runPc # "gone"
           /\ \/ task' = NoConfigTask
              \/ task' = [cfg |-> task.cfg, steps |-> Tail(task.steps)] /\ Tail(task.steps) # <<>>
           /\ UNCHANGED <<connectorKind, runPc, pushes, exited, unannounced>>
  BY DEF ConfigStep, LpTypes

(* The steps of the config task.                                           *)
LEMMA LoopConfigStep ==
    ASSUME LpLoopInv, ConfigStep
    PROVE  LpLoopInv'
  <1> USE LpAssumption DEF LpLoopInv
  <1> DEFINE step == Head(task.steps)
  <1>1. /\ task.steps \in ConfigPlans /\ task.cfg \in Configs /\ runPc # "gone"
        /\ \/ task' = NoConfigTask
           \/ task' = [cfg |-> task.cfg, steps |-> Tail(task.steps)] /\ Tail(task.steps) # <<>>
        /\ UNCHANGED <<connectorKind, runPc, pushes, exited>>
    BY TaskStep
  <1>2. /\ loaded' \in {task.cfg, loaded} /\ cfgChksum' \in {task.cfg, cfgChksum}
        /\ mState' \in {loaded', 0, mState} /\ chksum' \in {0, task.cfg, chksum}
        /\ version' = IF step = "bump" THEN version + 1 ELSE version
        /\ ctxCancel' = IF step = "renew" THEN ctxCancel + 1 ELSE ctxCancel
        /\ cancelled' = IF step = "renew" THEN cancelled \cup {ctxCancel} ELSE cancelled
    BY DEF ConfigStep
  <1>3. \/ step = "start" /\ \E h \in Handlers : StartPeriodic(h, Tail(task.steps))
        \/ step # "start" /\ UNCHANGED <<loops, handler, overlapped>>
    BY DEF ConfigStep
  <1> HIDE DEF step
  <1> DEFINE left == Tail(task.steps)
  <1>4. /\ task.steps # <<>> /\ left \in ConfigPlans \cup {<<>>}
        /\ step = "renew" => task.steps \in BeforeRenew /\ left \in BeforeStart \cup {<<>>}
        /\ step # "renew" /\ left \in BeforeRenew => task.steps \in BeforeRenew
        /\ step # "renew" /\ left \in BeforeStart => task.steps \in BeforeStart
        /\ step = "start" => task.steps \in BeforeStart /\ left = <<>>
        /\ step = "bump" => task.steps \in BeforeBump /\ left \notin BeforeBump
        /\ left \in BeforeBump => task.steps \in BeforeBump
        /\ <<>> \notin ConfigPlans /\ BeforeRenew \cap BeforeStart = {}
    BY <1>1, ConfigTable DEF step
  <1> HIDE DEF left
  <1>5. /\ task' = NoConfigTask \/ (task' = [cfg |-> task.cfg, steps |-> left] /\ left # <<>>)
        /\ task' \in [cfg : Configs \cup {0}, steps : ConfigPlans \cup {<<>>}]
        /\ (task'.steps = <<>> => task' = NoConfigTask) /\ (task'.steps # <<>> => task'.cfg \in Configs)
        /\ task'.steps \in {left, <<>>}
    <2>1. task' = NoConfigTask \/ (task' = [cfg |-> task.cfg, steps |-> left] /\ left # <<>>)
      BY <1>1 DEF left
    <2>2. QED
      BY <2>1, <1>4, <1>1 DEF NoConfigTask
  <1>6. HandlerTypes' /\ overlapped' \in BOOLEAN
    BY <1>3, HandlerStarts DEF StartPeriodic, HandlerTypes, LpTypes
  <1>7. LpTypes'
    BY <1>1, <1>2, <1>5, <1>6 DEF LpTypes
  <1>8. /\ step = "renew" => /\ task.steps \in BeforeRenew
                             /\ task'.steps \in BeforeStart \cup {<<>>}
                             /\ task'.steps \notin BeforeRenew
        /\ step # "renew" => /\ task'.steps \in BeforeRenew => task.steps \in BeforeRenew
                             /\ task'.steps \in BeforeStart => task.steps \in BeforeStart
        /\ step = "start" => task.steps \in BeforeStart /\ task'.steps = <<>>
        /\ step = "bump" => task.steps \in BeforeBump /\ task'.steps \notin BeforeBump
        /\ task'.steps \in BeforeBump => task.steps \in BeforeBump
        /\ <<>> \notin BeforeRenew \cup BeforeStart
    BY <1>4, <1>5, PlansAreLeft
  <1>9. OnePerPush'
    BY <1>1, <1>2, <1>8 DEF OnePerPush, LpTypes
  <1>10. LoopsOfContexts'
    <2>1. ctxCancel \in Contexts /\ ctxCancel' \in Contexts /\ Contexts \subseteq Nat
      BY <1>9, <1>1, <1>7 DEF OnePerPush, LpTypes, Contexts
    <2>2. ~exited /\ runPc # "start"
      BY <1>4, <1>1 DEF LoopsOfContexts, LpTypes
    <2>3. CASE step = "renew"
      BY <1>1, <1>2, <1>3, <1>8, <2>1, <2>2, <2>3 DEF LoopsOfContexts, OnePerPush
    <2>4. CASE step = "start"
      <3>1. /\ loops' \in [Contexts -> Nat] /\ loops'[ctxCancel] = loops[ctxCancel] + 1
            /\ \A c \in Contexts \ {ctxCancel} : loops'[c] = loops[c]
            /\ loops[ctxCancel] \in Nat
        BY <1>3, <2>1, <2>4 DEF StartPeriodic, LoopsOfContexts
      <3>2. QED
        BY <1>1, <1>2, <1>8, <2>1, <2>2, <2>4, <3>1 DEF LoopsOfContexts, LpTypes
    <2>5. CASE step \notin {"renew", "start"}
      BY <1>1, <1>2, <1>3, <1>8, <2>1, <2>2, <2>5 DEF LoopsOfContexts
    <2>6. QED
      BY <2>3, <2>4, <2>5
  <1>11. QED
    BY <1>6, <1>7, <1>9, <1>10

(* The exit task, the loops and the handlers.                              *)
LEMMA LoopOtherSteps ==
    ASSUME LpLoopInv,
           \/ Exit \/ Tick \/ (\E c \in Contexts : LoopEnds(c))
           \/ \E h \in Handlers : HandlerEnds(h) \/ HandlerStep(h)
    PROVE  LpLoopInv'
  <1> USE LpAssumption DEF LpLoopInv
  <1>1. CASE Exit
    <2>1. LpTypes' /\ HandlerTypes' /\ OnePerPush'
      BY <1>1 DEF Exit, LpTypes, HandlerTypes, OnePerPush
    <2>2. LoopsOfContexts'
      BY <1>1 DEF Exit, LoopsOfContexts, OnePerPush, LpTypes, NoConfigTask
    <2>3. QED
      BY <2>1, <2>2
  <1>2. CASE Tick
    <2>1. HandlerTypes' /\ overlapped' \in BOOLEAN
      BY <1>2, HandlerStarts DEF Tick
    <2>2. LpTypes' /\ OnePerPush' /\ LoopsOfContexts'
      BY <1>2, <2>1 DEF Tick, LpTypes, OnePerPush, LoopsOfContexts
    <2>3. QED
      BY <2>1, <2>2
  <1>3. ASSUME NEW c \in Contexts, LoopEnds(c) PROVE LpLoopInv'
    <2>1. LpTypes' /\ HandlerTypes' /\ OnePerPush'
      BY <1>3 DEF LoopEnds, LpTypes, HandlerTypes, OnePerPush
    <2>2. /\ loops' \in [Contexts -> Nat]
          /\ \A d \in Contexts : loops[d] \in Nat /\ loops'[d] <= loops[d]
          /\ ctxCancel \in Contexts
      <3>1. ctxCancel \in Contexts /\ loops \in [Contexts -> Nat]
        BY DEF LoopsOfContexts, OnePerPush, LpTypes, Contexts
      <3>2. loops' = [loops EXCEPT ![c] = @ - 1] /\ loops[c] > 0
        BY <1>3 DEF LoopEnds
      <3>3. QED
        BY <3>1, <3>2
    <2>3. loops'[ctxCancel] \in Nat /\ \A d \in Contexts : loops'[d] \in Nat
      BY <2>2
    <2>4. UNCHANGED <<cancelled, ctxCancel, runPc, task, exited>>
      BY <1>3 DEF LoopEnds
    <2>5. LoopsOfContexts'
      BY <2>2, <2>3, <2>4 DEF LoopsOfContexts
    <2>6. QED
      BY <2>1, <2>5
  <1>4. ASSUME NEW h \in Handlers, HandlerEnds(h) PROVE LpLoopInv'
    <2>1. HandlerTypes'
      BY <1>4, HandlerSteps, SMTT(30) DEF HandlerEnds, HandlerTypes, Idle
    <2>2. LpTypes' /\ OnePerPush' /\ LoopsOfContexts'
      BY <1>4 DEF HandlerEnds, LpTypes, OnePerPush, LoopsOfContexts
    <2>3. QED
      BY <2>1, <2>2
  <1>5. ASSUME NEW h \in Handlers, HandlerStep(h) PROVE LpLoopInv'
    <2> DEFINE me == handler[h]
               step == Head(me.steps)
    <2>1. /\ me \in [cfg : Configs \cup {0}, sum : Int, steps : HandlerPlans \cup {<<>>},
                     on : BOOLEAN]
          /\ me.steps \in HandlerPlans /\ me.steps # <<>>
      BY <1>5 DEF HandlerStep, HandlerTypes
    <2>2. PICK next : /\ handler' = [handler EXCEPT ![h] = next]
                      /\ \/ next = Idle
                         \/ next = [cfg |-> IF step = "collect" THEN loaded ELSE me.cfg,
                                    sum |-> IF step = "hash" THEN (IF mState = 0 THEN -1 ELSE mState)
                                            ELSE IF step = "version" THEN version ELSE me.sum,
                                    steps |-> Tail(me.steps), on |-> TRUE]
      BY <1>5 DEF HandlerStep
    <2>3. /\ mState' \in {loaded, mState}
          /\ chksum' = IF step = "compareAndSet" THEN me.cfg
                       ELSE IF step = "set" THEN me.sum ELSE chksum
          /\ UNCHANGED <<connectorKind, runPc, loaded, cfgChksum, version, ctxCancel, cancelled,
                         loops, task, pushes, exited, overlapped>>
      BY <1>5 DEF HandlerStep
    <2>4. /\ Tail(me.steps) \in HandlerPlans \cup {<<>>}
          /\ step = "set" => me.steps = H4
          /\ Tail(me.steps) = H3 => step = "hash"
          /\ Tail(me.steps) = H4 => me.steps = H3 /\ step = "compare"
      BY <2>1, HandlerTable
    <2>5. version \in Int /\ mState \in Int /\ loaded \in Configs \cup {0}
          /\ mState \in Configs \cup {0}
      BY DEF OnePerPush, LpTypes
    <2>6. me.steps \in {H3, H4} => me.sum \in Configs \cup {-1}
      BY <1>5 DEF HandlerTypes
    <2> HIDE DEF step, me
    <2>7. /\ next \in [cfg : Configs \cup {0}, sum : Int, steps : HandlerPlans \cup {<<>>},
                       on : BOOLEAN]
          /\ next.steps \in {H3, H4} => next.sum \in Configs \cup {-1}
      <3>1. CASE next = Idle
        BY <3>1, HandlerSteps DEF Idle
      <3>2. CASE next # Idle
        <4> DEFINE cfg == IF step = "collect" THEN loaded ELSE me.cfg
                   sum == IF step = "hash" THEN (IF mState = 0 THEN -1 ELSE mState)
                          ELSE IF step = "version" THEN version ELSE me.sum
        <4>1. next = [cfg |-> cfg, sum |-> sum, steps |-> Tail(me.steps), on |-> TRUE]
          BY <2>2, <3>2, Zenon
        <4>2. cfg \in Configs \cup {0} /\ sum \in Int
          BY <2>1, <2>5
        <4>3. Tail(me.steps) \in {H3, H4} => sum \in Configs \cup {-1}
          BY <2>4, <2>5, <2>6
        <4> HIDE DEF cfg, sum
        <4>4. QED
          BY <2>4, <4>1, <4>2, <4>3
      <3>3. QED
        BY <3>1, <3>2
    <2>8. HandlerTypes'
      BY <2>2, <2>7 DEF HandlerTypes
    <2>9. chksum' \in Configs \cup {-1, 0}
      BY <2>1, <2>3, <2>4, <2>6 DEF LpTypes
    <2>10. LpTypes' /\ OnePerPush' /\ LoopsOfContexts'
      BY <2>3, <2>5, <2>9 DEF LpTypes, OnePerPush, LoopsOfContexts
    <2>11. QED
      BY <2>8, <2>10
  <1>6. QED
    BY <1>1, <1>2, <1>3, <1>4, <1>5

(* Every step keeps the contexts and the loops in step.                    *)
LEMMA LoopStep == LpLoopInv /\ [LpNext]_lpVars => LpLoopInv'
  <1> SUFFICES ASSUME LpLoopInv, [LpNext]_lpVars PROVE LpLoopInv'
    OBVIOUS
  <1>1. CASE UNCHANGED lpVars
    BY <1>1 DEF lpVars, LpLoopInv, LpTypes, HandlerTypes, OnePerPush, LoopsOfContexts
  <1>2. QED
    BY <1>1, LoopRunSteps, LoopArrives, LoopConfigStep, LoopOtherSteps DEF LpNext

(* Initially nothing runs.                                                 *)
LEMMA LoopInit == LpInit => LpLoopInv
  <1> SUFFICES ASSUME LpInit PROVE LpLoopInv
    OBVIOUS
  <1> USE LpAssumption, PlansAreLeft DEF LpInit
  <1>1. LpTypes
    <2>1. NoConfigTask \in [cfg : Configs \cup {0}, steps : ConfigPlans \cup {<<>>}]
      BY DEF NoConfigTask
    <2>2. task = NoConfigTask /\ task.steps = <<>>
      BY DEF NoConfigTask
    <2>3. exited \in BOOLEAN /\ overlapped \in BOOLEAN
      OBVIOUS
    <2>4. QED
      BY <2>1, <2>2, <2>3 DEF LpTypes
  <1>2. HandlerTypes
    BY HandlerSteps DEF HandlerTypes, Idle
  <1>3. OnePerPush /\ LoopsOfContexts
    BY DEF OnePerPush, LoopsOfContexts, Contexts, NoConfigTask
  <1>4. QED
    BY <1>1, <1>2, <1>3 DEF LpLoopInv

(* After the exit task no loop goes on, whatever configurations came       *)
(* before it and even if Run starts its loop after it.                     *)
THEOREM ExitStopsLoops == LpSpec => []ExitReachesLoops
  <1>1. LpLoopInv => ExitReachesLoops
    <2> SUFFICES ASSUME LpLoopInv, exited, NEW c \in Contexts \ cancelled PROVE loops[c] = 0
      BY DEF ExitReachesLoops
    <2>1. c \in Nat /\ ctxCancel \in Nat /\ loops[c] \in Nat
      BY LpAssumption DEF LpLoopInv, LoopsOfContexts, OnePerPush, LpTypes, Contexts
    <2>2. ctxCancel \in cancelled /\ (c < ctxCancel => c \in cancelled)
      BY <2>1 DEF LpLoopInv, LoopsOfContexts
    <2>3. c > ctxCancel
      BY <2>1, <2>2
    <2>4. QED
      BY <2>1, <2>3 DEF LpLoopInv, LoopsOfContexts
  <1>2. QED
    BY <1>1, LoopInit, LoopStep, PTL DEF LpSpec

-----------------------------------------------------------------------------
(* The inventories *)

(* A handler that starts has nothing collected, and is alone without       *)
(* overlap.                                                                *)
LEMMA AnnounceStarts ==
    ASSUME LpLoopInv, AnnounceInv, NEW h \in Handlers, NEW left, StartHandler(h, left),
           UNCHANGED <<connectorKind, loaded, chksum, mState, announced, refused, unannounced>>,
           left = <<>> => task'.steps = <<>>,
           connectorKind = "server" => task'.steps \in {A1, A2, RS, ST, <<>>},
           task'.steps = S1 => connectorKind = "snmp",
           left = <<>> /\ connectorKind = "server" => task.steps # A2
    PROVE  AnnounceInv'
  <1>1. /\ ~handler[h].on /\ handler'[h].steps = periodicHandler[connectorKind]
        /\ \A g \in Handlers \ {h} : handler'[g] = handler[g]
        /\ ~overlapped' => ~overlapped /\ Busy = {} /\ left = <<>>
    BY HandlerStarts DEF LpLoopInv
  <1>2. PlansFit'
    BY <1>1, PlansOfKinds DEF AnnounceInv, PlansFit, LpLoopInv, LpTypes
  <1>3. ASSUME connectorKind \in Announcing, ~overlapped' PROVE Announces'
    <2>1. Announces /\ ~overlapped /\ left = <<>> /\ \A g \in Handlers : ~handler[g].on
      BY <1>1, <1>3 DEF AnnounceInv, Busy
    <2>2. OneAtATime'
      BY <1>1, <2>1 DEF OneAtATime
    <2>3. InventorySent'
      BY <2>1, ConfigSteps DEF Announces, InventorySent, Tried
    <2>4. periodicHandler[connectorKind] \notin {Q2, H2, H3, H4, PS}
      BY PlansOfKinds, HandlerSteps, SMTT(30) DEF LpLoopInv, LpTypes, Starts
    <2>5. HandlerAnnounces'
      BY <1>1, <2>1, <2>4 DEF HandlerAnnounces
    <2>6. QED
      BY <2>1, <2>2, <2>3, <2>5 DEF Announces
  <1>4. QED
    BY <1>2, <1>3 DEF AnnounceInv

(* The steps of Run, of a new configuration, of the exit task and of the   *)
(* loops announce nothing.                                                 *)
LEMMA AnnounceOtherSteps ==
    ASSUME LpLoopInv, AnnounceInv,
           \/ DemandConfig \/ RunStarts \/ ConfigArrives \/ Exit \/ Tick
           \/ \E c \in Contexts : LoopEnds(c)
    PROVE  AnnounceInv'
  <1>1. ASSUME UNCHANGED <<connectorKind, loaded, chksum, mState, announced, refused, unannounced, task,
                           handler, overlapped>>
        PROVE  AnnounceInv'
    BY <1>1 DEF AnnounceInv, PlansFit, Announces, OneAtATime, InventorySent, HandlerAnnounces, Tried
  <1>2. ASSUME NEW h \in Handlers, StartHandler(h, task.steps),
               UNCHANGED <<connectorKind, loaded, chksum, mState, announced, refused, unannounced, task>>
        PROVE  AnnounceInv'
    BY <1>2, AnnounceStarts, ConfigSteps DEF AnnounceInv, PlansFit
  <1>3. CASE DemandConfig \/ Exit \/ \E c \in Contexts : LoopEnds(c)
    BY <1>1, <1>3 DEF DemandConfig, Exit, LoopEnds
  <1>4. CASE RunStarts \/ Tick
    BY <1>1, <1>2, <1>4 DEF RunStarts, Tick, StartPeriodic
  <1>5. CASE ConfigArrives
    <2>1. /\ UNCHANGED <<connectorKind, loaded, chksum, mState, announced, refused, unannounced, handler>>
          /\ task'.steps = configHandler[connectorKind] /\ task = NoConfigTask
      BY <1>5 DEF ConfigArrives
    <2>2. ~overlapped' => ~overlapped /\ Busy = {}
      BY <1>5, Zenon DEF ConfigArrives
    <2>3. PlansFit'
      BY <2>1, PlansOfKinds DEF AnnounceInv, PlansFit, LpLoopInv, LpTypes
    <2>4. ASSUME connectorKind \in Announcing, ~overlapped' PROVE Announces'
      <3>1. Announces /\ \A g \in Handlers : ~handler[g].on
        BY <2>2, <2>4 DEF AnnounceInv, Busy
      <3>2. OneAtATime' /\ HandlerAnnounces'
        BY <2>1, <3>1 DEF OneAtATime, HandlerAnnounces
      <3>3. InventorySent'
        BY <2>1, <3>1, PlansOfKinds, ConfigSteps
           DEF Announces, InventorySent, Tried, LpLoopInv, LpTypes, NoConfigTask
      <3>4. QED
        BY <2>1, <3>1, <3>2, <3>3 DEF Announces
    <2>5. QED
      BY <2>1, <2>3, <2>4 DEF AnnounceInv
  <1>6. QED
    BY <1>3, <1>4, <1>5

(* The config task: the server's announces what it has loaded before its   *)
(* loop is renewed and started.                                            *)
LEMMA AnnounceConfigStep ==
    ASSUME LpLoopInv, AnnounceInv, ConfigStep
    PROVE  AnnounceInv'
  <1> DEFINE step == Head(task.steps)
             left == Tail(task.steps)
  <1>1. /\ task.steps \in ConfigPlans /\ task.cfg \in Configs
        /\ task' = NoConfigTask \/ (task' = [cfg |-> task.cfg, steps |-> left] /\ left # <<>>)
        /\ UNCHANGED <<connectorKind, unannounced>>
    BY TaskStep DEF LpLoopInv
  <1>2. /\ step \notin {"mayReturn"} /\ left # <<>> => task' = [cfg |-> task.cfg, steps |-> left]
        /\ step = "load" => loaded' = task.cfg
        /\ step \in {"announce", "renew", "start"} => loaded' = loaded
        /\ \/ connectorKind # "snmp" /\ mState' = loaded'
           \/ step = "loadChanged"
           \/ connectorKind = "snmp" /\ mState' = mState
        /\ chksum' = IF step \in {"forget", "replace"} THEN 0
                     ELSE IF step = "announce" THEN task.cfg ELSE chksum
        /\ SendInventory(task.cfg, step = "announce" /\ chksum # task.cfg)
    BY DEF ConfigStep
  <1>a. /\ Tried' = IF step = "announce" /\ chksum # task.cfg THEN Tried \cup {task.cfg} ELSE Tried
        /\ refused \subseteq refused'
    BY <1>2, InventoryTried
  <1>3. \/ step = "start" /\ \E h \in Handlers : StartPeriodic(h, left)
        \/ step # "start" /\ UNCHANGED <<handler, overlapped>>
    BY DEF ConfigStep
  <1>4. /\ task.steps # <<>> /\ left # S1 /\ <<>> # S1
        /\ step = "loadChanged" => task.steps = S1
        /\ step = "start" => left = <<>> /\ task.steps # A2
    BY <1>1, ConfigTable, ConfigSteps
  <1>5. /\ connectorKind = "server" => task'.steps \in {A1, A2, RS, ST, <<>>}
        /\ task'.steps # S1
        /\ left = <<>> => task'.steps = <<>>
    <2>1. task'.steps \in {left, <<>>} /\ (left = <<>> => task'.steps = <<>>)
      <3> HIDE DEF left
      <3>1. QED
        BY <1>1 DEF NoConfigTask
    <2>2. connectorKind = "server" => left \in {A2, RS, ST, <<>>}
      BY <1>4, ConfigSteps DEF AnnounceInv, PlansFit
    <2> HIDE DEF left
    <2>3. QED
      BY <1>4, <2>1, <2>2
  <1>6. connectorKind # "snmp" => mState' = loaded'
    BY <1>2, <1>4 DEF AnnounceInv, PlansFit
  <1>7. CASE step = "start"
    <2>1. UNCHANGED <<loaded, chksum, announced, refused>>
      BY <1>2, <1>7 DEF SendInventory
    <2>2. UNCHANGED mState
      BY <1>2, <1>6, <1>7, <2>1 DEF AnnounceInv, PlansFit
    <2>3. PICK h \in Handlers : StartHandler(h, left)
      BY <1>3, <1>7 DEF StartPeriodic
    <2> HIDE DEF step, left
    <2>4. QED
      BY <1>1, <1>4, <1>5, <1>7, <2>1, <2>2, <2>3, AnnounceStarts
  <1>8. CASE step # "start"
    <2>1. PlansFit'
      BY <1>1, <1>3, <1>5, <1>6, <1>8 DEF AnnounceInv, PlansFit
    <2>2. ASSUME connectorKind \in Announcing, ~overlapped' PROVE Announces'
      <3>1. Announces /\ (\A g \in Handlers : ~handler[g].on) /\ UNCHANGED handler
        BY <1>3, <1>4, <1>8, <2>2 DEF AnnounceInv, Announces, OneAtATime
      <3>2. OneAtATime' /\ HandlerAnnounces'
        BY <3>1 DEF OneAtATime, HandlerAnnounces
      <3>3. chksum' = 0 \/ chksum' \in Tried'
        BY <1>2, <1>a, <3>1 DEF Announces, InventorySent
      <3>4. ASSUME connectorKind = "server"
            PROVE  IF task'.steps = A2 THEN loaded' = task'.cfg
                   ELSE loaded' \in Tried' \cup {0}
        <4>1. task.steps \in {A1, A2, RS}
          BY <1>4, <1>8, <3>4, ConfigSteps DEF AnnounceInv, PlansFit
        <4>2. CASE task.steps = A1
          <5>1. step = "load" /\ left = A2 /\ A2 # <<>>
            BY <4>2, ConfigSteps
          <5> HIDE DEF step, left
          <5>2. loaded' = task.cfg /\ task'.steps = A2 /\ task'.cfg = task.cfg
            BY <1>2, <5>1
          <5>3. QED
            BY <5>2
        <4>3. CASE task.steps = A2
          <5>1. loaded = task.cfg
            BY <3>1, <3>4, <4>3 DEF Announces, InventorySent
          <5>2. step = "announce" /\ left = RS /\ RS # <<>> /\ RS # A2
            BY <4>3, ConfigSteps
          <5> HIDE DEF step, left
          <5>3. task'.steps # A2 /\ loaded' = task.cfg /\ task.cfg \in Tried'
            BY <1>1, <1>2, <3>3, <5>1, <5>2, LpAssumption
          <5>4. QED
            BY <5>3
        <4>4. CASE task.steps = RS
          <5>1. loaded \in Tried \cup {0}
            BY <3>1, <3>4, <4>4, ConfigSteps DEF Announces, InventorySent
          <5>2. step = "renew" /\ left = ST /\ ST # <<>> /\ ST # A2
            BY <4>4, ConfigSteps
          <5> HIDE DEF step, left
          <5>3. loaded' = loaded /\ Tried' = Tried /\ task'.steps # A2
            BY <1>2, <1>a, <5>2
          <5>4. QED
            BY <5>1, <5>3
        <4>5. QED
          BY <4>1, <4>2, <4>3, <4>4
      <3>5. InventorySent'
        BY <1>1, <3>3, <3>4 DEF InventorySent
      <3>6. QED
        BY <1>1, <1>a, <3>1, <3>2, <3>5 DEF Announces
    <2>3. QED
      BY <1>1, <2>1, <2>2 DEF AnnounceInv
  <1>9. QED
    BY <1>7, <1>8

(* A handler announces what it has collected unless the inventory sent     *)
(* last is the same, and sends it after that.                              *)
LEMMA AnnounceHandlerStep ==
    ASSUME LpLoopInv, AnnounceInv, NEW h \in Handlers, HandlerStep(h)
    PROVE  AnnounceInv'
  <1> DEFINE me == handler[h]
             step == Head(me.steps)
             cfg == IF step = "collect" THEN loaded ELSE me.cfg
             sum == IF step = "hash" THEN (IF mState = 0 THEN -1 ELSE mState)
                    ELSE IF step = "version" THEN version ELSE me.sum
  <1>1. /\ me.on /\ me.steps \in HandlerPlans
        /\ handler'[h] = Idle \/ handler'[h].steps = Tail(me.steps)
        /\ \A g \in Handlers \ {h} : handler'[g] = handler[g]
        /\ UNCHANGED <<connectorKind, loaded, task, overlapped>>
    BY DEF HandlerStep, LpLoopInv, HandlerTypes
  <1>2. /\ step = "collect" => loaded # 0
        /\ mState' = IF step = "collect" /\ connectorKind = "snmp" THEN loaded ELSE mState
        /\ chksum' = IF step = "compareAndSet" THEN me.cfg
                     ELSE IF step = "set" THEN me.sum ELSE chksum
        /\ SendInventory(me.cfg, \/ step = "announce"
                                 \/ step = "compareAndSet" /\ chksum # me.cfg
                                 \/ step = "compare" /\ chksum # me.sum)
        /\ unannounced' = IF step = "send" /\ me.cfg \notin announced
                          THEN unannounced \cup {me.cfg} ELSE unannounced
    BY DEF HandlerStep
  <1>a. /\ Tried' = IF \/ step = "announce"
                       \/ step = "compareAndSet" /\ chksum # me.cfg
                       \/ step = "compare" /\ chksum # me.sum
                    THEN Tried \cup {me.cfg} ELSE Tried
        /\ refused \subseteq refused'
    BY <1>2, InventoryTried
  <1>3. step # "checkVersion" =>
          handler'[h] = [cfg |-> cfg, sum |-> sum, steps |-> Tail(me.steps), on |-> TRUE]
    BY DEF HandlerStep, LpLoopInv, HandlerTypes
  <1>4. PlansFit'
    <2>1. handler'[h].steps \in {Tail(me.steps), <<>>}
      <3>1. Idle.steps = <<>>
        BY DEF Idle
      <3> HIDE DEF me
      <3>2. QED
        BY <1>1, <3>1
    <2>2. /\ connectorKind = "server" => Tail(me.steps) \in {PS, <<>>}
          /\ connectorKind = "k8s" => Tail(me.steps) \in {Q2, PS, <<>>}
          /\ connectorKind = "office" => Tail(me.steps) \in {O2, PS, <<>>}
          /\ connectorKind \in {"elastic", "snmp"} => Tail(me.steps) \in {H2, H3, H4, PS, <<>>}
      BY <1>1, HandlerTable, HandlerSteps DEF AnnounceInv, PlansFit
    <2> HIDE DEF me, step
    <2>3. QED
      BY <1>1, <1>2, <2>1, <2>2 DEF AnnounceInv, PlansFit
  <1>5. ASSUME connectorKind \in Announcing, ~overlapped PROVE Announces'
    <2>1. /\ task.steps = <<>> /\ \A g \in Handlers \ {h} : ~handler[g].on
          /\ chksum = 0 \/ chksum \in Tried
          /\ connectorKind = "server" => loaded \in Tried \cup {0}
          /\ unannounced \subseteq {0} \cup refused
      BY <1>1, <1>5, ConfigSteps DEF AnnounceInv, Announces, OneAtATime, InventorySent
    <2>2. /\ me.steps \in {Q2, H2, H3} => me.cfg # 0
          /\ me.steps = H2 => mState = me.cfg
          /\ me.steps \in {H3, H4} => me.sum = me.cfg
          /\ me.steps \in {H4, PS} => me.cfg \in Tried
      BY <1>1, <1>5 DEF AnnounceInv, Announces, HandlerAnnounces
    <2>3. /\ me.steps \in {P1, Q1, Q2, O1, O2, H1, H2, H3, H4, PS}
          /\ me.steps = P1 => connectorKind = "server"
          /\ me.steps = H1 => connectorKind = "snmp" \/ mState = loaded
      BY <1>1, <1>5, HandlerTable, HandlerSteps, ZenonT(60) DEF AnnounceInv, PlansFit, Announcing
    <2>4. SUFFICES /\ chksum' = 0 \/ chksum' \in Tried'
                   /\ Tried \subseteq Tried'
                   /\ unannounced' \subseteq unannounced \cup refused
                   /\ handler'[h].steps \in {Q2, H2, H3} => handler'[h].cfg # 0
                   /\ handler'[h].steps = H2 => mState' = handler'[h].cfg
                   /\ handler'[h].steps \in {H3, H4} => handler'[h].sum = handler'[h].cfg
                   /\ handler'[h].steps \in {H4, PS} => handler'[h].cfg \in Tried'
      <3>1. OneAtATime'
        BY <1>1, <2>1 DEF OneAtATime
      <3>2. InventorySent'
        BY <1>1, <2>1, <2>4, ConfigSteps DEF InventorySent
      <3>3. HandlerAnnounces'
        BY <1>1, <2>1, <2>4 DEF HandlerAnnounces
      <3>4. QED
        BY <1>a, <2>1, <2>4, <3>1, <3>2, <3>3 DEF Announces
    <2>5. CASE me.steps \in {P1, Q1, O1, H1}
      <3>1. step = "collect" /\ Tail(me.steps) \in {PS, Q2, O2, H2}
            /\ (Tail(me.steps) = PS => me.steps = P1) /\ (Tail(me.steps) = H2 => me.steps = H1)
        BY <2>5, HandlerSteps
      <3>2. handler'[h] = [cfg |-> loaded, sum |-> sum, steps |-> Tail(me.steps), on |-> TRUE]
        BY <1>3, <3>1
      <3>3. PS \notin {H2, H3, H4} /\ Q2 \notin {H2, H3, H4, PS} /\ O2 \notin {H2, H3, H4, PS}
            /\ H2 \notin {H3, H4, PS}
        BY HandlerSteps
      <3> HIDE DEF me, step, cfg, sum
      <3>4. /\ UNCHANGED <<chksum, unannounced>> /\ Tried' = Tried /\ loaded # 0
            /\ me.steps = H1 => mState' = loaded
            /\ me.steps = P1 => loaded \in Tried
        BY <1>2, <1>a, <2>1, <2>3, <3>1
      <3>5. handler'[h].cfg = loaded /\ handler'[h].steps = Tail(me.steps)
        BY <3>2
      <3>6. handler'[h].steps \in {PS, Q2, O2, H2}
        BY <3>1, <3>5
      <3>7. QED
        BY <2>1, <3>1, <3>3, <3>4, <3>5, <3>6
    <2>6. CASE me.steps \in {Q2, O2}
      <3>1. step \in {"compareAndSet", "announce"} /\ Tail(me.steps) = PS
            /\ (step = "compareAndSet" => me.steps = Q2)
        BY <2>6, HandlerSteps
      <3>2. handler'[h] = [cfg |-> me.cfg, sum |-> sum, steps |-> PS, on |-> TRUE]
        BY <1>3, <3>1
      <3>3. PS \notin {H2, H3, H4, Q2}
        BY HandlerSteps
      <3> HIDE DEF me, step, cfg, sum
      <3>4. QED
        BY <1>2, <1>a, <2>1, <2>2, <3>1, <3>2, <3>3
    <2>7. CASE me.steps = H2
      <3>1. step = "hash" /\ Tail(me.steps) = H3 /\ sum = me.cfg /\ cfg = me.cfg
        BY <2>2, <2>7, HandlerSteps
      <3>2. handler'[h] = [cfg |-> me.cfg, sum |-> me.cfg, steps |-> H3, on |-> TRUE]
        BY <1>3, <3>1
      <3>3. H3 \notin {Q2, H2, H4, PS}
        BY HandlerSteps
      <3> HIDE DEF me, step, cfg, sum
      <3>4. QED
        BY <1>2, <1>a, <2>1, <2>2, <2>7, <3>1, <3>2, <3>3
    <2>8. CASE me.steps \in {H3, H4}
      <3>1. /\ step \in {"compare", "set"} /\ cfg = me.cfg /\ sum = me.sum
            /\ step = "compare" => me.steps = H3 /\ Tail(me.steps) = H4
            /\ step = "set" => me.steps = H4 /\ Tail(me.steps) = PS
        BY <2>8, HandlerSteps
      <3>2. handler'[h] = [cfg |-> me.cfg, sum |-> me.sum, steps |-> Tail(me.steps), on |-> TRUE]
        BY <1>3, <3>1
      <3>3. H4 \notin {Q2, H2, H3, PS} /\ PS \notin {Q2, H2, H3, H4}
        BY HandlerSteps
      <3> HIDE DEF me, step, cfg, sum
      <3>4. /\ handler'[h].cfg = me.cfg /\ handler'[h].sum = me.sum
            /\ handler'[h].steps = Tail(me.steps)
        BY <3>2
      <3>5. CASE step = "compare"
        <4>1. /\ UNCHANGED <<chksum, unannounced>> /\ Tried \subseteq Tried'
              /\ me.cfg \in Tried'
          BY <1>2, <1>a, <2>1, <2>2, <3>1, <3>5
        <4>2. QED
          BY <2>1, <2>2, <3>1, <3>3, <3>4, <3>5, <4>1
      <3>6. CASE step = "set"
        <4>1. UNCHANGED unannounced /\ Tried' = Tried /\ chksum' = me.cfg /\ me.cfg \in Tried
          BY <1>2, <1>a, <2>2, <3>1, <3>6
        <4>2. QED
          BY <3>1, <3>3, <3>4, <3>6, <4>1
      <3>7. QED
        BY <3>1, <3>5, <3>6
    <2>9. CASE me.steps = PS
      <3>1. step = "send" /\ Tail(me.steps) = <<>> /\ <<>> \notin {Q2, H2, H3, H4, PS}
        BY <2>9, HandlerSteps
      <3>2. handler'[h] = [cfg |-> cfg, sum |-> sum, steps |-> <<>>, on |-> TRUE]
        BY <1>3, <3>1
      <3> HIDE DEF me, step, cfg, sum
      <3>3. handler'[h].steps = <<>>
        BY <3>2
      <3>4. QED
        BY <1>2, <1>a, <2>1, <2>2, <2>9, <3>1, <3>3 DEF Tried
    <2>10. QED
      BY <2>3, <2>5, <2>6, <2>7, <2>8, <2>9
  <1>6. QED
    BY <1>1, <1>4, <1>5 DEF AnnounceInv

(* A handler that ends leaves the others as they are.                      *)
LEMMA AnnounceHandlerEnds ==
    ASSUME LpLoopInv, AnnounceInv, NEW h \in Handlers, HandlerEnds(h)
    PROVE  AnnounceInv'
  <1>1. /\ handler'[h].steps = <<>> /\ ~handler'[h].on
        /\ \A g \in Handlers \ {h} : handler'[g] = handler[g]
        /\ UNCHANGED <<connectorKind, loaded, chksum, mState, announced, refused, unannounced, task,
                       overlapped>>
    BY DEF HandlerEnds, Idle, LpLoopInv, HandlerTypes
  <1>2. PlansFit'
    BY <1>1 DEF AnnounceInv, PlansFit
  <1>3. Announces => Announces'
    BY <1>1 DEF Announces, OneAtATime, InventorySent, HandlerAnnounces, Tried
  <1>4. QED
    BY <1>1, <1>2, <1>3 DEF AnnounceInv

(* Every loop that goes on is on the current context, at most two of them, *)
(* and as long as the goroutines of the connector do not overlap, metrics  *)
(* for hosts that are not announced are sent only after a SendInventory    *)
(* that failed (Run, configHandler and periodicHandler of every            *)
(* connector).                                                             *)
THEOREM LoopsFollow == LpSpec => []LoopsFollowConfig
  <1>1. LpInit => AnnounceInv
    <2> SUFFICES ASSUME LpInit PROVE AnnounceInv
      OBVIOUS
    <2>1. PlansFit
      BY ConfigSteps DEF LpInit, PlansFit, NoConfigTask, Idle
    <2>2. Announces
      BY ConfigSteps
         DEF LpInit, Announces, OneAtATime, InventorySent, HandlerAnnounces, NoConfigTask, Idle
    <2>3. QED
      BY <2>1, <2>2 DEF AnnounceInv
  <1>2. LpLoopInv /\ AnnounceInv /\ [LpNext]_lpVars => AnnounceInv'
    <2> SUFFICES ASSUME LpLoopInv, AnnounceInv, [LpNext]_lpVars PROVE AnnounceInv'
      OBVIOUS
    <2>1. CASE UNCHANGED lpVars
      BY <2>1 DEF lpVars, AnnounceInv, PlansFit, Announces, OneAtATime, InventorySent, Tried,
                  HandlerAnnounces
    <2>2. QED
      BY <2>1, AnnounceOtherSteps, AnnounceConfigStep, AnnounceHandlerStep, AnnounceHandlerEnds
         DEF LpNext
  <1>3. LpLoopInv /\ AnnounceInv => LoopsFollowConfig
    <2> SUFFICES ASSUME LpLoopInv, AnnounceInv PROVE LoopsFollowConfig
      OBVIOUS
    <2>1. LpTypeOK
      <3>1. version \in 0 .. MaxLpPushes /\ ctxCancel \in Contexts /\ cancelled \subseteq Contexts
        BY LpAssumption DEF LpLoopInv, LpTypes, OnePerPush, LoopsOfContexts, Contexts
      <3>2. QED
        BY <3>1 DEF LpLoopInv, LpTypes, HandlerTypes, LoopsOfContexts, LpTypeOK
    <2>2. OneContextRuns
      BY LpAssumption
         DEF LpLoopInv, LpTypes, OnePerPush, LoopsOfContexts, Contexts, OneContextRuns
    <2>3. AnnouncedWithoutOverlap
      BY DEF AnnounceInv, Announces, AnnouncedWithoutOverlap
    <2>4. QED
      BY <2>1, <2>2, <2>3 DEF LoopsFollowConfig
  <1>4. QED
    BY <1>1, <1>2, <1>3, LoopInit, LoopStep, PTL DEF LpSpec

-----------------------------------------------------------------------------
(* The configuration *)

(* What an option in the file may be: its default or what was pushed; and  *)
(* what it is there, unsealed.                                             *)
FileValues(o) == {defaults[o]} \cup {dto[o] : dto \in {d \in CfgDTOs : o \in PushedOptions}}
Plain(f, o) == IF o = "password" THEN f[o][2] ELSE f[o]
(* The configuration of a process that starts now.                         *)
Restarted == PrepareConnections(applyEnv(ReadFile))
NeverPushed == {"natsMaxPayload", "gwEncode", "httpEncode"}

(* The file has nothing of the environment in it, whole or torn, and what  *)
(* is sealed in it was sealed with the key the process has.                *)
FileIsPushed ==
    /\ \A o \in DOMAIN cfgFile : Plain(cfgFile, o) \in FileValues(o)
    /\ "password" \in DOMAIN cfgFile => cfgFile["password"][1] = SecKey
(* A configuration on its way has nothing of the environment either.       *)
NewIsPushed ==
    /\ \A o \in FileOptions : cfgNew[o] \in FileValues(o)
    /\ \A o \in NeverPushed : cfgNew[o] = defaults[o]
(* What was saved is what a new process will run on.                       *)
SavedIsLive ==
    /\ cfgPc = "saved" => cfgFile = MarshalYAML(cfgNew)
    /\ cfgSaved => \A o \in Options \ {"isDynamicInventory"} : Restarted[o] = cfgLive[o]
(* The environment is in force, in every configuration that is.            *)
EnvIsLive == ~cfgBare => \A o \in DOMAIN cfgEnv \cap EnvOptions : cfgLive[o] = cfgEnv[o]

(* The inductive invariant.                                                *)
CfgInv ==
    /\ CfgTypeOK /\ cfgEnv \in CfgEnvs
    /\ FileIsPushed /\ NewIsPushed /\ SavedIsLive /\ EnvIsLive

(* What GetConfig and LoadConnectorDTO read.                               *)
LEMMA FileRead ==
    ASSUME DOMAIN cfgFile \subseteq FileOptions, FileIsPushed
    PROVE  /\ DOMAIN ReadFile = Options
           /\ \A o \in Options : ReadFile[o] = IF o \in DOMAIN cfgFile THEN Plain(cfgFile, o)
                                               ELSE defaults[o]
  BY DEF ReadFile, Override, UnmarshalYAML, Plain, defaults, FileIsPushed

(* What becomes of a configuration when it is put in force ...             *)
LEMMA LiveOf ==
    ASSUME NEW c, DOMAIN c = Options
    PROVE  LET l == PrepareConnections(applyEnv(c)) IN
           /\ DOMAIN l = Options
           /\ \A o \in Options \ {"httpEncode"} : l[o] = IF o \in DOMAIN cfgEnv THEN cfgEnv[o]
                   ELSE c[o]
           /\ l["httpEncode"] = IF (IF "gwEncode" \in DOMAIN cfgEnv THEN cfgEnv["gwEncode"]
                   ELSE c["gwEncode"]) = "force"
                                THEN "on" ELSE "off"
  BY DEF PrepareConnections, applyEnv, Override, Options, EnvOptions

(* ... it has what the environment gives ...                               *)
LEMMA LiveHasEnv ==
    ASSUME NEW c, DOMAIN c = Options
    PROVE  \A o \in DOMAIN cfgEnv \cap EnvOptions : PrepareConnections(applyEnv(c))[o] = cfgEnv[o]
  BY LiveOf DEF Options, EnvOptions, FileOptions, PushedOptions

(* ... and the flag of the dynamic inventory has no part in the rest.      *)
LEMMA LiveAgrees ==
    ASSUME NEW c, NEW d, DOMAIN c = Options, DOMAIN d = Options,
           \A o \in Options \ {"isDynamicInventory"} : c[o] = d[o]
    PROVE  \A o \in Options \ {"isDynamicInventory"} :
               PrepareConnections(applyEnv(c))[o] = PrepareConnections(applyEnv(d))[o]
  BY LiveOf DEF Options, EnvOptions, FileOptions, PushedOptions

(* What is written can be read again.                                      *)
LEMMA FileWritten ==
    ASSUME DOMAIN cfgNew = Options, NewIsPushed
    PROVE  LET f == MarshalYAML(cfgNew) IN
           /\ DOMAIN f = FileOptions
           /\ \A o \in FileOptions : Plain(f, o) = cfgNew[o]
           /\ f["password"][1] = SecKey
           /\ \A o \in FileOptions : Plain(f, o) \in FileValues(o)
  BY DEF MarshalYAML, Only, Plain, NewIsPushed, FileOptions, PushedOptions

(* A part of it has nothing of the environment either.                     *)
LEMMA TornIsPushed ==
    ASSUME DOMAIN cfgNew = Options, NewIsPushed, NEW os \in SUBSET FileOptions,
           cfgFile' = Torn(os), cfgEnv' = cfgEnv
    PROVE  DOMAIN cfgFile' = os /\ FileIsPushed'
  <1>1. DOMAIN cfgFile' = os /\ \A o \in os : cfgFile'[o] = MarshalYAML(cfgNew)[o]
    BY DEF Torn
  <1>2. SecKey' = SecKey
    BY DEF SecKey
  <1>3. QED
    BY <1>1, <1>2, FileWritten DEF FileIsPushed, Plain, FileValues

(* The defaults may be in the file.                                        *)
LEMMA DefaultsArePushed ==
    /\ DOMAIN defaults = Options
    /\ \A o \in FileOptions : defaults[o] \in FileValues(o)
  BY DEF defaults, FileValues

(* Every step of the configuration keeps the invariant, a crash in the     *)
(* middle of the write too.                                                *)
LEMMA CfgStep == CfgInv /\ [CfgNext]_cfgVars => CfgInv'
  <1> SUFFICES ASSUME CfgInv, [CfgNext]_cfgVars PROVE CfgInv'
    OBVIOUS
  <1> USE DEF CfgInv
  <1>1. CASE GetConfig
    <2>1. /\ cfgPc' = "up" /\ cfgLive' = PrepareConnections(applyEnv(ReadFile))
          /\ UNCHANGED <<cfgFile, cfgNew, cfgEnv, cfgSaved>>
      BY <1>1 DEF GetConfig
    <2>2. DOMAIN ReadFile = Options
      BY FileRead DEF CfgTypeOK
    <2>3. DOMAIN cfgLive' = Options /\ EnvIsLive'
      BY <2>1, <2>2, LiveOf, LiveHasEnv DEF EnvIsLive
    <2>4. SavedIsLive'
      BY <2>1 DEF SavedIsLive, Restarted, ReadFile, UnmarshalYAML, SecKey, applyEnv
    <2>5. QED
      BY <2>1, <2>3, <2>4 DEF CfgTypeOK, FileIsPushed, NewIsPushed, SecKey
  <1>2. ASSUME NEW dto \in CfgDTOs, LoadDTO(dto) PROVE CfgInv'
    <2>1. /\ cfgPc' = "write" /\ cfgNew' = loadDynamicInventoryFlag(loadConnector(ReadFile, dto))
          /\ UNCHANGED <<cfgFile, cfgLive, cfgEnv, cfgSaved, cfgBare>>
      BY <1>2 DEF LoadDTO
    <2>2. /\ DOMAIN cfgNew' = Options
          /\ \A o \in Options \ {"isDynamicInventory"} :
               cfgNew'[o] = IF o \in PushedOptions THEN dto[o] ELSE ReadFile[o]
      BY <2>1, FileRead, CfgAssumption DEF loadDynamicInventoryFlag, loadConnector, Override,
            CfgTypeOK
    <2>3. NewIsPushed'
      <3>1. \A o \in FileOptions : cfgNew'[o] \in FileValues(o)
        BY <2>2, FileRead DEF FileValues, FileIsPushed, CfgTypeOK, FileOptions, PushedOptions,
              EnvOptions, Options
      <3>2. \A o \in NeverPushed : cfgNew'[o] = defaults[o]
        BY <2>2, FileRead DEF NeverPushed, CfgTypeOK, FileOptions, PushedOptions, EnvOptions,
              Options
      <3>3. QED
        BY <3>1, <3>2 DEF NewIsPushed, FileValues
    <2>4. SavedIsLive'
      BY <2>1 DEF SavedIsLive, Restarted, ReadFile, UnmarshalYAML, SecKey, applyEnv
    <2>5. QED
      BY <2>1, <2>2, <2>3, <2>4 DEF CfgTypeOK, FileIsPushed, SecKey, EnvIsLive
  <1>3. CASE WriteConfig
    <2>1. CASE cfgFile' = MarshalYAML(cfgNew) /\ cfgPc' = "saved" /\ cfgSaved' = FALSE
      <3>1. UNCHANGED <<cfgNew, cfgLive, cfgEnv, cfgBare>>
        BY <1>3 DEF WriteConfig
      <3>2. MarshalYAML(cfgNew)' = MarshalYAML(cfgNew)
        BY <3>1 DEF MarshalYAML, SecKey, Only
      <3>3. FileIsPushed' /\ DOMAIN cfgFile' = FileOptions
        BY <2>1, <3>1, FileWritten DEF FileIsPushed, CfgTypeOK, SecKey, FileValues, Plain
      <3>4. QED
        BY <2>1, <3>1, <3>2, <3>3 DEF CfgTypeOK, SavedIsLive, NewIsPushed, EnvIsLive
    <2>4. ASSUME NEW os \in SUBSET FileOptions, cfgFile' = Torn(os), cfgPc' = "unsaved", cfgSaved' = FALSE
          PROVE  CfgInv'
      <3>1. UNCHANGED <<cfgNew, cfgLive, cfgEnv, cfgBare>>
        BY <1>3 DEF WriteConfig
      <3>2. DOMAIN cfgFile' = os /\ FileIsPushed'
        BY <2>4, <3>1, TornIsPushed DEF CfgTypeOK
      <3>3. QED
        BY <2>4, <3>1, <3>2 DEF CfgTypeOK, SavedIsLive, NewIsPushed, EnvIsLive
    <2>2. CASE cfgPc' \in {"unsaved", "unsealed"} /\ UNCHANGED <<cfgFile, cfgSaved>>
      <3>1. UNCHANGED <<cfgNew, cfgLive, cfgEnv, cfgBare>>
        BY <1>3 DEF WriteConfig
      <3>2. QED
        BY <2>2, <3>1 DEF CfgTypeOK, FileIsPushed, NewIsPushed, EnvIsLive, SecKey, SavedIsLive,
              Restarted, ReadFile,
              UnmarshalYAML, applyEnv
    <2>3. QED
      BY <1>3, <2>1, <2>2, <2>4 DEF WriteConfig
  <1>4. CASE ApplyConfig
    <2>1. /\ cfgPc \in {"saved", "unsaved", "unsealed"} /\ cfgPc' = "up" /\ cfgSaved' = (cfgPc = "saved")
          /\ cfgBare' = (cfgPc = "unsealed")
          /\ cfgPc # "unsealed" => cfgLive' = PrepareConnections(applyEnv(cfgNew))
          /\ cfgPc = "unsealed" => cfgLive' = PrepareConnections(cfgNew)
          /\ UNCHANGED <<cfgFile, cfgNew, cfgEnv>>
      BY <1>4 DEF ApplyConfig
    <2>2. DOMAIN cfgLive' = Options /\ EnvIsLive'
      <3>1. DOMAIN cfgNew = Options
        BY DEF CfgTypeOK
      <3>2. CASE cfgPc = "unsealed"
        BY <2>1, <3>1, <3>2 DEF EnvIsLive, PrepareConnections
      <3>3. CASE cfgPc # "unsealed"
        BY <2>1, <3>1, <3>3, LiveOf, LiveHasEnv DEF EnvIsLive
      <3>4. QED
        BY <3>2, <3>3
    <2>3. SavedIsLive'
      <3>1. SUFFICES ASSUME cfgPc = "saved"
                     PROVE  \A o \in Options \ {"isDynamicInventory"} : Restarted'[o] =
                             cfgLive'[o]
        BY <2>1 DEF SavedIsLive
      <3>2. cfgFile = MarshalYAML(cfgNew)
        BY <3>1 DEF SavedIsLive
      <3>3. \A o \in Options \ {"isDynamicInventory"} : ReadFile[o] = cfgNew[o]
        BY <3>2, FileRead, FileWritten DEF CfgTypeOK, NewIsPushed, NeverPushed, FileOptions,
              PushedOptions, EnvOptions, Options
      <3>4. \A o \in Options \ {"isDynamicInventory"} : Restarted[o] = cfgLive'[o]
        <4>1. cfgLive' = PrepareConnections(applyEnv(cfgNew))
          BY <2>1, <3>1
        <4>2. QED
          BY <4>1, <3>3, FileRead, LiveAgrees DEF CfgTypeOK, Restarted
      <3>5. Restarted' = Restarted
        BY <2>1 DEF Restarted, ReadFile, UnmarshalYAML, SecKey, applyEnv
      <3>6. QED
        BY <3>4, <3>5
    <2>4. QED
      BY <2>1, <2>2, <2>3 DEF CfgTypeOK, FileIsPushed, NewIsPushed, SecKey
  <1>5. CASE CfgCrash
    <2>1. cfgPc' = "down" /\ cfgNew' = defaults /\ UNCHANGED <<cfgLive, cfgEnv, cfgBare>>
      BY <1>5 DEF CfgCrash
    <2>2. NewIsPushed' /\ DOMAIN cfgNew' = Options
      BY <2>1, DefaultsArePushed DEF NewIsPushed, FileValues
    <2>3. CASE UNCHANGED <<cfgFile, cfgSaved>>
      BY <2>1, <2>2, <2>3 DEF CfgTypeOK, FileIsPushed, EnvIsLive, SecKey, SavedIsLive,
            Restarted, ReadFile,
              UnmarshalYAML, applyEnv
    <2>4. ASSUME NEW os \in SUBSET FileOptions, cfgFile' = Torn(os), cfgSaved' = FALSE
          PROVE  CfgInv'
      <3>1. DOMAIN cfgFile' = os /\ FileIsPushed'
        BY <2>1, <2>4, TornIsPushed DEF CfgTypeOK
      <3>2. QED
        BY <2>1, <2>2, <2>4, <3>1 DEF CfgTypeOK, EnvIsLive, SavedIsLive
    <2>5. QED
      BY <1>5, <2>3, <2>4 DEF CfgCrash
  <1>6. CASE UNCHANGED cfgVars
    BY <1>6 DEF cfgVars, CfgTypeOK, FileIsPushed, NewIsPushed, EnvIsLive, SecKey, SavedIsLive,
          Restarted, ReadFile,
              UnmarshalYAML, applyEnv, MarshalYAML
  <1>7. QED
    BY <1>1, <1>2, <1>3, <1>4, <1>5, <1>6 DEF CfgNext

(* Whatever is pushed and whatever the environment gives: what it gives is *)
(* in force and never in the file, and a process that starts again runs on *)
(* the configuration of the one before if its file was written             *)
(* (GetConfig, LoadConnectorDTO of config.go).                             *)
THEOREM ConfigKept == CfgSpec => ConfigSurvives
  <1>1. CfgInit => CfgInv
    <2> SUFFICES ASSUME CfgInit PROVE CfgInv
      OBVIOUS
    <2>1. DOMAIN cfgFile \subseteq FileOptions /\ FileIsPushed
      <3>1. CASE cfgFile = <<>>
        <4>1. DOMAIN cfgFile = {}
          BY <3>1
        <4>2. QED
          BY <4>1 DEF FileIsPushed
      <3>2. CASE cfgFile = MarshalYAML(defaults)
        <4>1. cfgNew = defaults
          BY DEF CfgInit
        <4>2. NewIsPushed
          BY <4>1, DefaultsArePushed DEF NewIsPushed
        <4>3. QED
          BY <3>2, <4>1, <4>2, FileWritten, DefaultsArePushed DEF FileIsPushed
      <3>3. QED
        BY <3>1, <3>2 DEF CfgInit
    <2>2. DOMAIN cfgLive = Options /\ EnvIsLive
      BY <2>1, FileRead, LiveOf, LiveHasEnv DEF CfgInit, EnvIsLive
    <2>3. NewIsPushed /\ DOMAIN cfgNew = Options
      BY DefaultsArePushed DEF CfgInit, NewIsPushed
    <2>4. QED
      BY <2>1, <2>2, <2>3 DEF CfgInit, CfgInv, CfgTypeOK, SavedIsLive, Restarted
  <1>2. CfgInv => CfgTypeOK /\ EnvInForceOnly
    <2> SUFFICES ASSUME CfgInv PROVE EnvInForceOnly
      BY DEF CfgInv
    <2>1. ASSUME NEW o \in DOMAIN cfgFile \cap DOMAIN cfgEnv PROVE Plain(cfgFile, o) # cfgEnv[o]
      BY CfgAssumption DEF CfgInv, CfgTypeOK, FileIsPushed, FileValues
    <2>2. QED
      BY <2>1 DEF CfgInv, EnvIsLive, EnvInForceOnly, Plain
  <1>3. CfgInv /\ [CfgNext]_cfgVars =>
          [cfgPc = "down" /\ cfgPc' = "up" /\ cfgSaved =>
             \A o \in Options \ {"isDynamicInventory"} : cfgLive'[o] = cfgLive[o]]_cfgVars
    <2> SUFFICES ASSUME CfgInv, CfgNext, cfgPc = "down", cfgPc' = "up", cfgSaved
                 PROVE  \A o \in Options \ {"isDynamicInventory"} : cfgLive'[o] = cfgLive[o]
      OBVIOUS
    <2>1. GetConfig
      BY DEF CfgNext, WriteConfig, ApplyConfig, CfgCrash, LoadDTO
    <2>2. QED
      BY <2>1 DEF GetConfig, CfgInv, SavedIsLive, Restarted
  <1>4. QED
    BY <1>1, <1>2, <1>3, CfgStep, PTL DEF CfgSpec, ConfigSurvives, RestartKeepsConfig
=============================================================================
