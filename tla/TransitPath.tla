---------------------------- MODULE TransitPath ----------------------------
(***************************************************************************)
(* The way of a payload: a handler of services/controller.go, an operation *)
(* of services/transit.go, Put2Nats, the stream, makeDurable/adaptClient   *)
(* of services/nats.go and an operation of sdk/clients/gwClient.go.  A     *)
(* payload is what the way looks at: its operation, its length, its length *)
(* with gzip and its tracer context.  The stream is taken as one queue per *)
(* subject; batching, retries and the publisher have modules of their own. *)
(***************************************************************************)
EXTENDS Integers, Sequences, SequencesExt

CONSTANTS
    TpAgents,       \* configurations of the connector
    Sizes,          \* lengths of payloads: <<plain, with gzip>>
    MaxPuts,        \* bound: requests
    MaxTpConfigs    \* bound: config tasks

Limits == {a.limit : a \in TpAgents}   \* values of natsMaxPayload

ASSUME TpAssumption == Sizes \subseteq Nat \X Nat /\ Limits \subseteq Nat

VARIABLES
    tpAgent,        \* agentService.Connector: agentID, appType, suppress, httpEncode, dynamic, limit
    tpServer,       \* s.config.MaxPayload of the running server
    tpStream,       \* messages of the stream, in order
    tpWire,         \* requests Groundwork received
    tpReply,        \* last reply of the API
    tpPuts, tpConfigs, tpPanic

tpVars == <<tpAgent, tpServer, tpStream, tpWire, tpReply, tpPuts, tpConfigs, tpPanic>>

Ops == {"downtime-clear", "downtime-set", "events", "events-ack", "events-unack", "metrics",
        "states", "inventory"}

(* The type a TransitOperation puts into the header, its subject, and the  *)
(* option of config.Suppress that holds it back.                           *)
PayloadType(op) ==
    CASE op = "downtime-clear" -> "clearInDowntime"
      [] op = "downtime-set" -> "setInDowntime"
      [] op = "events-ack" -> "eventsAck"
      [] op = "events-unack" -> "eventsUnack"
      [] op \in {"metrics", "states"} -> "metrics"
      [] OTHER -> op
Subject(op) ==
    CASE op \in {"downtime-clear", "downtime-set"} -> "tcg.downtimes"
      [] op \in {"events", "events-ack", "events-unack"} -> "tcg.events"
      [] OTHER -> "tcg.metrics"
SuppressedBy(op) ==
    CASE Subject(op) = "tcg.downtimes" -> "downtimes"
      [] Subject(op) = "tcg.events" -> "events"
      [] OTHER -> op

(* A tracer context: the agent and its type, each known, empty or to do. *)
Todo == "#traceOnDemand#"
ContextFields == {"agentID", "appType"}
ContextValues ==
    {"", "agent", Todo} \cup {a.agentID : a \in TpAgents} \cup {a.appType : a \in TpAgents}
NoContext == [f \in ContextFields |-> ""]
TypeToDo == [f \in ContextFields |-> IF f = "agentID" THEN "agent" ELSE Todo]

Payloads(op) ==
    [op : {op}, size : Sizes,
     context : {NoContext} \cup (IF Subject(op) = "tcg.metrics" THEN {TypeToDo} ELSE {})]

isConfiguredAgentID(id) == id \notin {"", "AGENT_ID", Todo}
isConfiguredAppType(t) == t \notin {"", Todo}
isConnectorConfigured == isConfiguredAgentID(tpAgent.agentID) /\ isConfiguredAppType(tpAgent.appType)

(* Placeholders for what is not configured yet; the deployment placeholder *)
(* AGENT_ID is taken for an agent.                                         *)
MakeTracerContext ==
    [f \in ContextFields |-> IF tpAgent[f] = "" THEN Todo ELSE tpAgent[f]]

WithContext(p, context) == [op |-> p.op, size |-> p.size, context |-> context]
mixTracerContext(p) == IF p.context # NoContext THEN p ELSE WithContext(p, MakeTracerContext)
TodoTracerCtx(p) == \E f \in ContextFields : p.context[f] = Todo

\* Mutant of fixTracerContext: only the agent is replaced.
fixTracerContextHalf(p) ==
    IF ~isConnectorConfigured THEN p
    ELSE [p EXCEPT !.context.agentID = IF @ = Todo THEN tpAgent.agentID ELSE @]
fixTracerContext(p) ==
    IF ~isConnectorConfigured THEN p
    ELSE WithContext(p, [f \in ContextFields |-> IF p.context[f] = Todo THEN tpAgent[f]
                                                 ELSE p.context[f]])

(* The message a payload is published as, none if it is too long: first    *)
(* for the agent's limit, with gzip, then for the server's.                *)
Put2Nats(op, p) ==
    LET gzip == p.size[1] > tpAgent.limit IN
    IF (gzip /\ p.size[2] > tpAgent.limit) \/ (IF gzip THEN p.size[2] ELSE p.size[1]) > tpServer THEN <<>>
    ELSE <<[subject |-> Subject(op), type |-> PayloadType(op), compressed |-> gzip,
            todo |-> Subject(op) = "tcg.metrics" /\ TodoTracerCtx(p), format |-> "json", payload |-> p]>>

(* The operations of TransitService: suppressed operations do nothing and  *)
(* succeed; the others succeed if the message is published.                *)
TransitOperation(op, p) ==
    LET put == Put2Nats(op, p)
    IN IF SuppressedBy(op) \in tpAgent.suppress
       THEN tpReply' = 200 /\ UNCHANGED tpStream
       ELSE /\ tpStream' = tpStream \o put
            /\ tpReply' = IF put = <<>> THEN 500 ELSE 200

(* Downtimes and events go as they are; metrics, states and inventory get  *)
(* a context and a note in the header if it is not complete.               *)
InDowntime(op, p) == TransitOperation(op, p)
SendEvents(op, p) == TransitOperation(op, p)
SendMetrics(op, p) == TransitOperation(op, mixTracerContext(p))
SendStates(op, p) == TransitOperation(op, mixTracerContext(p))
SynchronizeInventory(op, p) == TransitOperation(op, mixTracerContext(p))

(* A handler of the private API: the body cannot be read, or the operation *)
(* answers for it.                                                         *)
Handle(Operation(_, _), op, p) ==
    /\ tpPuts < MaxPuts /\ ~tpPanic
    /\ tpPuts' = tpPuts + 1
    /\ \/ op # "states" /\ tpReply' = 400 /\ UNCHANGED tpStream
       \/ Operation(op, p)
    /\ UNCHANGED <<tpAgent, tpServer, tpWire, tpConfigs, tpPanic>>

Downtimes == \E op \in {"downtime-clear", "downtime-set"} : \E p \in Payloads(op) :
                 Handle(InDowntime, op, p)
Events == \E op \in {"events", "events-ack", "events-unack"} : \E p \in Payloads(op) :
              Handle(SendEvents, op, p)
Metrics == \E p \in Payloads("metrics") : Handle(SendMetrics, "metrics", p)
Inventory == \E p \in Payloads("inventory") : Handle(SynchronizeInventory, "inventory", p)
(* SendStates is called by connectors. *)
States == \E p \in Payloads("states") : Handle(SendStates, "states", p)

(* SyncExt sends the inventory, then the states it was split into, unless  *)
(* the inventory failed; SynchronizeInventoryExt parses a payload for it.  *)
SyncExt(p, size) ==
    LET inventory == Put2Nats("inventory", mixTracerContext(p))
        states == Put2Nats("states", [op |-> "states", size |-> size, context |-> MakeTracerContext])
        failed == "inventory" \notin tpAgent.suppress /\ inventory = <<>>
        sent(op, put) == IF op \in tpAgent.suppress THEN <<>> ELSE put
    IN
    /\ tpPuts < MaxPuts /\ ~tpPanic
    /\ tpPuts' = tpPuts + 1
    /\ tpStream' = tpStream \o sent("inventory", inventory)
                            \o (IF failed THEN <<>> ELSE sent("states", states))
    /\ tpReply' = (IF failed \/ ("states" \notin tpAgent.suppress /\ states = <<>>) THEN 500 ELSE 200)
    /\ UNCHANGED <<tpAgent, tpServer, tpWire, tpConfigs, tpPanic>>

(* The config task.  A new limit takes effect in Put2Nats at once and in   *)
(* the server when it is started again, which follows in the same task.    *)
Configure(c) ==
    /\ tpConfigs < MaxTpConfigs /\ tpServer = tpAgent.limit
    /\ tpConfigs' = tpConfigs + 1
    /\ tpAgent' = c
    /\ UNCHANGED <<tpServer, tpStream, tpWire, tpReply, tpPuts, tpPanic>>

RestartServer ==
    /\ tpServer # tpAgent.limit
    /\ tpServer' = tpAgent.limit
    /\ UNCHANGED <<tpAgent, tpStream, tpWire, tpReply, tpPuts, tpConfigs, tpPanic>>

Entrypoint(type) ==
    CASE type = "events" -> "/api/events"
      [] type = "eventsAck" -> "/api/events/ack"
      [] type = "eventsUnack" -> "/api/events/unack"
      [] type = "clearInDowntime" -> "/api/biz/clearindowntime"
      [] type = "setInDowntime" -> "/api/biz/setindowntime"
      [] type = "inventory" -> "/api/synchronizer"
      [] type = "metrics" -> IF tpAgent.dynamic THEN "/api/monitoring?dynamic=true"
                             ELSE "/api/monitoring"

(* SynchronizeInventory and SendResourcesWithMetrics compress on request   *)
(* and say so; the other operations send what they get.                    *)
GWRequest(type, m, p) ==
    LET encodes == type \in {"inventory", "metrics"}
        gzip == m.compressed \/ (encodes /\ tpAgent.httpEncode)
    IN [entrypoint |-> Entrypoint(type), encoding |-> IF encodes /\ gzip THEN "gzip" ELSE "",
        gzipped |-> gzip, compressed |-> m.compressed, format |-> m.format, payload |-> p]

(* The client of a durable: fills in the context, unless it is compressed, *)
(* and picks the operation by the type in the header.                      *)
adaptClient(type, m) ==
    GWRequest(type, m, IF m.todo /\ ~m.compressed THEN fixTracerContext(m.payload) ELSE m.payload)

(* The type a wrapped message begins with (v1) or names in its json (v2);  *)
(* other messages are not unmarshalled.                                    *)
Unmarshal(m) == IF m.format \in {"v1", "v2"} THEN PayloadType(m.payload.op) ELSE "error"

(* The handler of a durable.  A message of the versions that wrapped type  *)
(* and payload has no headers, and setting the type on them panics.  With  *)
(* headers but no type the type is taken from the wrapping; the client     *)
(* gets the message as it came, wrapped.                                   *)
Dispatch(s) ==
    LET at == SelectInSeq(tpStream, LAMBDA m : m.subject = s)
        m == tpStream[at]
    IN
    /\ at # 0 /\ isConnectorConfigured /\ ~tpPanic
    /\ IF Unmarshal(m) # "error" /\ m.type = "nil"
       THEN tpPanic' = TRUE /\ UNCHANGED <<tpStream, tpWire>>
       ELSE /\ tpStream' = RemoveAt(tpStream, at)
            /\ tpWire' = Append(tpWire, adaptClient(IF m.type = "" THEN Unmarshal(m) ELSE m.type, m))
            /\ UNCHANGED tpPanic
    /\ UNCHANGED <<tpAgent, tpServer, tpReply, tpPuts, tpConfigs>>

TpInit ==
    /\ tpAgent \in {a \in TpAgents : a.agentID = ""}
    /\ tpServer = tpAgent.limit
    /\ tpStream = <<>> /\ tpWire = <<>>
    /\ tpReply = 0
    /\ tpPuts = 0 /\ tpConfigs = 0 /\ tpPanic = FALSE

TpNext ==
    \/ Downtimes \/ Events \/ Metrics \/ States \/ Inventory
    \/ \E p \in Payloads("inventory"), size \in Sizes : SyncExt(p, size)
    \/ \E a \in TpAgents : Configure(a)
    \/ RestartServer
    \/ \E s \in {"tcg.downtimes", "tcg.events", "tcg.metrics"} : Dispatch(s)

TpSpec == TpInit /\ [][TpNext]_tpVars

(* An installation that was upgraded: its stream still holds a message of  *)
(* the old format.                                                         *)
LegacyMessages ==
    [subject : {"tcg.events"}, type : {"nil", ""}, compressed : {FALSE}, todo : {FALSE},
     format : {"v1", "v2"}, payload : [op : {"events"}, size : Sizes, context : {NoContext}]]

UpgradedInit ==
    /\ \E m \in LegacyMessages : tpStream = <<m>>
    /\ tpAgent \in {a \in TpAgents : a.agentID = "agent"} /\ tpServer = tpAgent.limit
    /\ tpWire = <<>> /\ tpReply = 0
    /\ tpPuts = 0 /\ tpConfigs = 0 /\ tpPanic = FALSE

UpgradedSpec == UpgradedInit /\ [][TpNext]_tpVars

(* Types of the path's state. *)
TpTypeOK ==
    /\ tpAgent \in TpAgents /\ tpServer \in Limits /\ tpPanic \in BOOLEAN
    /\ \A i \in 1..Len(tpStream) : tpStream[i].payload \in [op : Ops, size : Sizes,
           context : [ContextFields -> ContextValues]]
    /\ tpReply \in {0, 200, 400, 500}

(* What Groundwork gets can be read there: inventory and metrics say how   *)
(* they are encoded, the placeholders of a context made before the agent   *)
(* was configured are replaced, unless the message was compressed for the  *)
(* stream (the TODO in adaptClient), and no operation arrives at the       *)
(* entrypoint of another.                                                  *)
WireIsReadable ==
    /\ TpTypeOK
    /\ \A i \in 1..Len(tpWire) : LET r == tpWire[i] IN
        /\ Subject(r.payload.op) = "tcg.metrics" =>
             /\ r.gzipped <=> r.encoding = "gzip"
             /\ r.compressed \/ ~TodoTracerCtx(r.payload)
        /\ \A j \in 1..Len(tpWire) : r.entrypoint = tpWire[j].entrypoint =>
             PayloadType(r.payload.op) = PayloadType(tpWire[j].payload.op)

(* A message in the format of older versions is delivered without its      *)
(* wrapping, as the comment in makeDurable says.                           *)
LegacyIsUnwrapped == ~tpPanic /\ \A i \in 1..Len(tpWire) : tpWire[i].format = "json"
=============================================================================
