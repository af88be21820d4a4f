----------------------------- MODULE Kubernetes -----------------------------
(***************************************************************************)
(* The Kubernetes connector (connectors/k8s).  A round lists nodes, pods   *)
(* and metrics by separate calls while the cluster goes on changing and    *)
(* configurations replace the connector.  What rounds collect is their     *)
(* own, so one round stands for those that overlap it: a connector that    *)
(* was replaced is initialized again by another one.                       *)
(***************************************************************************)
EXTENDS Mapping

CONSTANTS
    NodeViews, PodViews,    \* metric definitions of the two views
    HostNames, HostGroups,  \* mappings for host names and host groups
    AuthTypes,              \* configurations of the connection
    Nodes,                  \* nodes: name -> [labels, conditions, cpu]
    PodSpecs,               \* pods that may run: name -> pod
    MaxChurn                \* bound: changes of the cluster

ASSUME KAssumption ==
    IsFiniteSet(DOMAIN Nodes) /\ IsFiniteSet(DOMAIN PodSpecs)
        /\ IsFiniteSet(UNION {PodSpecs[p].containers : p \in DOMAIN PodSpecs})

VARIABLES
    kConfig,        \* ExtConfig: mappings that compile, type of authentication
    kapi,           \* the connector is initialized
    running,        \* pods of the cluster
    churn,
    kPhase,         \* next call of the round
    kState,          \* MonitoredState.State: key -> resource
    kGroups,         \* MonitoredState.Groups: name -> sequence of host names
    mismatched,     \* keys of hosts without a name
    reservation,    \* node -> reserved cpu; <<>> when pods could not be listed
    kReserved,      \* history: pods the reservations were made of
    kMeasured,      \* history: keys of containers that had metrics
    iChksum,
    kSent           \* history: [inventory, monitored, groups] sent last

kVars == <<kConfig, kapi, running, churn, kPhase, kState, kGroups, mismatched, reservation, kReserved, kMeasured,
           iChksum, kSent>>

NoFun == [x \in {} |-> x]
Update(f, g) == [x \in DOMAIN f \cup DOMAIN g |-> IF x \in DOMAIN g THEN g[x] ELSE f[x]]

(* Prepare keeps the mappings that compile. *)
Prepare(p) == SelectSeq(p, LAMBDA m : m.valid)

(* Labels of a node, a pod and a container; a namespace wins over a label. *)
GetLabels(base, labels, namespace) ==
    Update(Update([cluster |-> "default", namespace |-> "default"], Update(base, labels)),
           IF namespace = "" THEN NoFun ELSE [namespace |-> namespace])

NodeLabels(n) == GetLabels([node_name |-> n], Nodes[n].labels, "")
ContainerLabels(p, c) == GetLabels([pod_name |-> p, container_name |-> c], PodSpecs[p].labels, PodSpecs[p].namespace)

NodeKey(n) == <<"node", NodeLabels(n)["namespace"], n>>
ContainerKey(p, c) == <<"pod", ContainerLabels(p, c)["namespace"], p, c>>

HostName(labels, name) == IF kConfig.hostName = <<>> THEN Mapped(name) ELSE ApplyOR(kConfig.hostName, labels)
Misses(m) == ~m.ok \/ m.value = ""
NodeName(n) == HostName(NodeLabels(n), n).value
ContainerName(x) == HostName(ContainerLabels(x[1], x[2]), x[2]).value
GroupName(labels, prefix) ==
    LET m == ApplyOR(kConfig.hostGroup, labels)
    IN  IF Misses(m) THEN <<prefix, labels["namespace"]>> ELSE <<"mapped", m.value>>
NodeGroup(n) == GroupName(NodeLabels(n), "nodes")
ContainerGroup(x) == GroupName(ContainerLabels(x[1], x[2]), "pods")

(* The worst condition; Ready counts the other way round. *)
calculateNodeStatus(n) ==
    LET c == Nodes[n].conditions
    IN  CASE "NotReady" \in c -> "HOST_UNSCHEDULED_DOWN"
          [] c \ {"NotReady"} # {} -> "HOST_WARNING"
          [] OTHER -> "HOST_UP"
calculatePodStatus(p) == IF PodSpecs[p].healthy THEN "HOST_UP" ELSE "HOST_UNSCHEDULED_DOWN"

(* One group entry for a host.  Pods are entered once for every name. *)
AddRef(gs, g, name) == Update(gs, [x \in {g} |-> Append(IF g \in DOMAIN gs THEN gs[g] ELSE <<>>, name)])

(* BuildServiceForMetric of a node. *)
Service(values) == [metrics |-> values]
Host(name, status, services) == [name |-> name, status |-> status, services |-> services]
ServedBy(host, services) == Host(host.name, host.status, services)

-----------------------------------------------------------------------------
KInit ==
    /\ kConfig = [hostName |-> <<>>, hostGroup |-> <<>>, auth |-> "none"]
    /\ kapi = FALSE /\ running \in SUBSET DOMAIN PodSpecs /\ churn = 0 /\ kPhase = "idle"
    /\ kState = NoFun /\ kGroups = NoFun /\ mismatched = {} /\ reservation = <<>> /\ kReserved = {}
    /\ kMeasured = {} /\ iChksum = <<>> /\ kSent = <<>>

(* configHandler, at any time: a new connector in the place of the one     *)
(* that a round may be using, not initialized and without checksum.        *)
KConfigHandler ==
    /\ \E hn \in HostNames, hg \in HostGroups, a \in AuthTypes :
        kConfig' = [hostName |-> Prepare(hn), hostGroup |-> Prepare(hg), auth |-> a]
    /\ kapi' = FALSE /\ iChksum' = <<>> /\ kSent' = <<>>
    /\ UNCHANGED <<running, churn, kPhase, kState, kGroups, mismatched, reservation, kReserved, kMeasured>>

(* Initialize: an invalid file, or the server does not answer. *)
Initialize ==
    /\ ~kapi /\ kConfig.auth # "none"
    /\ kConfig.auth # "InvalidFile"
    /\ kapi' = TRUE
    /\ UNCHANGED <<kConfig, running, churn, kPhase, kState, kGroups, mismatched, reservation, kReserved, kMeasured,
                   iChksum, kSent>>

(* The cluster starts or ends a pod at any time. *)
Churn ==
    /\ churn < MaxChurn /\ churn' = churn + 1
    /\ \E p \in DOMAIN PodSpecs : running' = (running \ {p}) \cup ({p} \ running)
    /\ UNCHANGED <<kConfig, kapi, kPhase, kState, kGroups, mismatched, reservation, kReserved, kMeasured, iChksum, kSent>>

(* Nodes are listed, then pods for their reservations; either may fail. *)
buildNodeReservationMap ==
    /\ kPhase = "idle" /\ kapi
    /\ kState' = NoFun /\ kGroups' = NoFun /\ mismatched' = {} /\ kMeasured' = {}
    /\ \/ reservation' = <<>> /\ kReserved' = {}
       \/ /\ kReserved' = {p \in running : PodSpecs[p].phase \notin {"Succeeded", "Failed"}}
          /\ reservation' = [n \in DOMAIN Nodes |->
                MapThenSumSet(LAMBDA p : PodSpecs[p].cpu, {p \in kReserved' : PodSpecs[p].node = n})]
    /\ kPhase' = "nodes"
    /\ UNCHANGED <<kConfig, kapi, running, churn, iChksum, kSent>>

(* The nodes are entered in the order they are listed. *)
NodeGroups(nodes) ==
    LET order == SetToSeq(nodes)
        added[i \in 0 .. Len(order)] ==
            IF i = 0 THEN NoFun ELSE AddRef(added[i - 1], NodeGroup(order[i]), NodeName(order[i]))
    IN  added[Len(order)]

collectNodeInventory ==
    /\ kPhase = "nodes"
    /\ LET named == {n \in DOMAIN Nodes : ~Misses(HostName(NodeLabels(n), n))}
           total(n) == IF "cpu.total" \in NodeViews THEN [x \in {"cpu.total"} |-> Service(<<Nodes[n].cpu>>)] ELSE NoFun
           reserved(n) == IF "cpu.reserved" \in NodeViews /\ reservation # <<>>
                          THEN [x \in {"cpu.reserved"} |-> Service(<<reservation[n]>>)] ELSE NoFun
       IN  /\ kState' = [k \in {NodeKey(n) : n \in named} |->
                            Host(NodeName(k[3]), calculateNodeStatus(k[3]), Update(total(k[3]), reserved(k[3])))]
           /\ kGroups' = NodeGroups(named)
           /\ mismatched' = {NodeKey(n) : n \in DOMAIN Nodes \ named}
    /\ kPhase' = "pods"
    /\ UNCHANGED <<kConfig, kapi, running, churn, reservation, kReserved, kMeasured, iChksum, kSent>>

\* Mutant of AddResource: a name is looked up in its own group only.
AddResourceByGroup(gs, seen, x) ==
    IF ContainerGroup(x) \in DOMAIN gs /\ ContainerName(x) \in ToSet(gs[ContainerGroup(x)]) THEN gs
    ELSE AddRef(gs, ContainerGroup(x), ContainerName(x))

AddResource(gs, seen, x) ==
    IF ContainerName(x) \in seen THEN gs ELSE AddRef(gs, ContainerGroup(x), ContainerName(x))

PodGroups(groups, containers) ==
    LET order == SetToSeq(containers)
        added[i \in 0 .. Len(order)] ==
            IF i = 0 THEN [gs |-> groups, seen |-> {}]
            ELSE [gs |-> AddResource(added[i - 1].gs, added[i - 1].seen, order[i]),
                  seen |-> added[i - 1].seen \cup {ContainerName(order[i])}]
    IN  added[Len(order)].gs

(* collectPodInventory: a host for every container, except the pause one. *)
collectPodInventory ==
    /\ kPhase = "pods" /\ kapi
    /\ LET containers == UNION {{<<p, c>> : c \in PodSpecs[p].containers \ {"POD"}} : p \in running}
           named == {x \in containers : ~Misses(HostName(ContainerLabels(x[1], x[2]), x[2]))}
       IN  /\ kState' = Update(kState, [k \in {ContainerKey(x[1], x[2]) : x \in named} |->
                            Host(ContainerName(<<k[3], k[4]>>), calculatePodStatus(k[3]), NoFun)])
           /\ kGroups' = PodGroups(kGroups, named)
           /\ mismatched' = mismatched \cup {ContainerKey(x[1], x[2]) : x \in containers \ named}
    /\ kPhase' \in {"nodeMetrics", "idle"}
    /\ UNCHANGED <<kConfig, kapi, running, churn, reservation, kReserved, kMeasured, iChksum, kSent>>

(* An error of the metrics API is logged and the round goes on. *)
collectNodeMetrics ==
    /\ kPhase = "nodeMetrics" /\ kapi /\ kPhase' = "podMetrics"
    /\ \/ UNCHANGED kState
       \/ kState' = [k \in DOMAIN kState |-> IF k[1] = "node" /\ "cpu" \in NodeViews
                        THEN ServedBy(kState[k], Update(kState[k].services, [x \in {"cpu"} |-> Service(<<"usage">>)]))
                        ELSE kState[k]]
    /\ UNCHANGED <<kConfig, kapi, running, churn, kGroups, mismatched, reservation, kReserved, kMeasured, iChksum, kSent>>

(* The service that a container gets: the one the first container of the   *)
(* same host name got, and its own metric.                                 *)
ReplicaService(first, own) == Service(Append(first, own))

collectPodMetricsPerContainer ==
    /\ kPhase = "podMetrics" /\ kapi /\ kPhase' = "send"
    /\ \/ UNCHANGED <<kState, kMeasured>>
       \/ LET measured == {k \in DOMAIN kState : k[1] = "pod" /\ k[3] \in running}
              order == SetToSeq(measured)
              first(i) == LET same == {j \in DOMAIN order : kState[order[j]].name = kState[order[i]].name}
                          IN  IF Min(same) = i THEN <<>> ELSE <<order[Min(same)]>>
              service(k) == LET i == CHOOSE i \in DOMAIN order : order[i] = k IN ReplicaService(first(i), k)
          IN  /\ kMeasured' = measured
              /\ kState' = [k \in DOMAIN kState |-> IF k \in measured
                            THEN ServedBy(kState[k], [v \in PodViews |-> service(k)])
                            ELSE kState[k]]
    /\ UNCHANGED <<kConfig, kapi, running, churn, kGroups, mismatched, reservation, kReserved, iChksum, kSent>>

(* A call of a round meets a connector without API, which panics:          *)
(* StartPeriodic recovers and the round is over.                           *)
NoApi ==
    /\ kPhase \in {"pods", "nodeMetrics", "podMetrics"} /\ ~kapi /\ kPhase' = "idle"
    /\ kState' = NoFun /\ kGroups' = NoFun /\ mismatched' = {} /\ reservation' = <<>> /\ kReserved' = {}
    /\ UNCHANGED <<kConfig, kapi, running, churn, kMeasured, iChksum, kSent>>

(* The end of Collect and of periodicHandler.  The checksum is set before  *)
(* the inventory is sent, which may fail.                                  *)
KSend ==
    /\ kPhase = "send" /\ kPhase' = "idle"
    /\ LET inventory == [k \in DOMAIN kState |-> <<kState[k].name, DOMAIN kState[k].services>>]
           chk == <<inventory, kGroups>>
       IN  /\ iChksum' = chk
           /\ kSent' = <<[inventory |-> IF chk # iChksum \/ kSent = <<>> THEN inventory ELSE kSent[1].inventory,
                        monitored |-> kState, groups |-> kGroups]>>
    /\ kState' = NoFun /\ kGroups' = NoFun /\ mismatched' = {} /\ reservation' = <<>> /\ kReserved' = {}
    /\ UNCHANGED <<kConfig, kapi, running, churn, kMeasured>>

KNext ==
    \/ KConfigHandler \/ Initialize \/ Churn \/ buildNodeReservationMap \/ collectNodeInventory
    \/ collectPodInventory \/ collectNodeMetrics \/ collectPodMetricsPerContainer \/ NoApi \/ KSend

KSpec == KInit /\ [][KNext]_kVars

-----------------------------------------------------------------------------
(* Every host that is sent is in a group, and a host made of containers is *)
(* in one only, however many replicas it has and also when the mappings    *)
(* are replaced between the nodes and the pods.                            *)
HostsAreGrouped ==
    \A sent \in ToSet(kSent) :
        LET refs(name) == {r \in UNION {{g} \X DOMAIN sent.groups[g] : g \in DOMAIN sent.groups} :
                            sent.groups[r[1]][r[2]] = name}
            nodes == {sent.monitored[k].name : k \in {k \in DOMAIN sent.monitored : k[1] = "node"}}
        IN  \A k \in DOMAIN sent.monitored :
                LET name == sent.monitored[k].name
                IN  refs(name) # {} /\ (name \notin nodes => Cardinality(refs(name)) = 1)

(* The metric of every replica is sent, although replicas share a host and *)
(* a service, and although the pods changed since they were listed.        *)
ReplicasReported ==
    \A sent \in ToSet(kSent) : kPhase = "idle" =>
        \A k \in kMeasured \cap DOMAIN sent.monitored :
            \A v \in DOMAIN sent.monitored[k].services :
                k \in ToSet(sent.monitored[k].services[v].metrics)

(* Each host is reported in its group with the metrics of all replicas.    *)
ReplicasGrouped == HostsAreGrouped /\ ReplicasReported
=============================================================================
