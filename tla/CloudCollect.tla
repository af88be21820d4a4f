---------------------------- MODULE CloudCollect ----------------------------
(* The Oracle and Azure connectors: one pass of collectMetrics while the   *)
(* task queue's worker runs the configuration handler                      *)
(* (src/connectors/oracle, src/connectors/azure).                          *)
(*                                                                         *)
(* The Oracle pass works on the configuration, its version and the context *)
(* it read at its start, the Azure pass reads the global configuration     *)
(* whenever it needs it.  The configuration is a pointer: what the handler *)
(* does to it after publishing it is seen by the pass.                     *)
EXTENDS Mapping

CONSTANTS
    CcConfigs,     \* pushed configurations
    CcKind,        \* connectors: subset of {"oracle", "azure"}
    CcItems,       \* answers to one metric query: sets of items
    CcResources,   \* resources: [name, compartment, lifecycle]
    CcNow,         \* the time a sample without data is given
    MaxCcConfigs   \* bound on the configurations pushed

(* An item has finitely many data points.                                  *)
ASSUME CcAssumption ==
    /\ CcNow \in Int
    /\ \A ds \in CcItems : \A d \in ds : \A item \in d.items :
         IsFiniteSet(item.points) /\ \A p \in item.points : p.t \in Int

VARIABLES
    ccKind,        \* the connector that runs
    ccPushed,      \* the configurations pushed, mappings as Prepare left them
    ccExtConfig,   \* extConfig: index of the configuration in force
    configVersion,
    ccContext,     \* index of the configuration whose context is live
    ccHandler,     \* what the configuration handler has still to do
    ccPass,        \* the pass: [pc, cfg, version, ctx, torn]
    ccTodo,        \* answers the pass has not looked at
    ccSeen,        \* samples it has looked at
    metricsByOCID, \* the sample kept for a resource, a service and a series
    ccSent,        \* the last payload sent
    ccCrashed      \* the pass dereferenced a matcher that is not compiled

ccVars == <<ccKind, ccPushed, ccExtConfig, configVersion, ccContext, ccHandler, ccPass, ccTodo,
            ccSeen, metricsByOCID, ccSent, ccCrashed>>
ccConfiguration == <<ccKind, ccPushed, ccExtConfig, configVersion, ccContext, ccHandler>>

Nowhere == [x \in {} |-> x]
NoExtConfig == [host |-> <<>>, service |-> <<>>, credentials |-> FALSE, hostGroup |-> ""]
PassAt(pc, cfg, version, ctx, torn) ==
    [pc |-> pc, cfg |-> cfg, version |-> version, ctx |-> ctx, torn |-> torn]
IdlePass == PassAt("idle", 0, 0, 0, FALSE)
NothingSent == [cfg |-> 0, hosts |-> {}, groups |-> Nowhere]

CcInit ==
    /\ ccKind \in CcKind
    /\ ccPushed = <<NoExtConfig>>
    /\ ccExtConfig = 1 /\ configVersion = 1 /\ ccContext = 1 /\ ccHandler = <<>>
    /\ ccPass = IdlePass /\ ccTodo = {} /\ ccSeen = {} /\ metricsByOCID = Nowhere
    /\ ccSent = NothingSent /\ ccCrashed = FALSE

-----------------------------------------------------------------------------
(* The configuration handlers. *)

(* Expressions that do not compile are left out.                           *)
CcPrepare(p) == SelectSeq([i \in DOMAIN p |-> [p[i] EXCEPT !.compiled = p[i].valid]], LAMBDA m : m.valid)
Prepared(c) ==
    [host |-> CcPrepare(c.host), service |-> CcPrepare(c.service), credentials |-> c.credentials,
     hostGroup |-> c.hostGroup]

CcConfigHandler(c) ==
    /\ ccHandler = <<>> /\ Len(ccPushed) < MaxCcConfigs
    /\ ccPushed' = Append(ccPushed, c)
    /\ ccExtConfig' = Len(ccPushed')
    /\ ccHandler' = IF ccKind = "oracle" THEN <<"bump", "prepare", "renew">> ELSE <<"prepare", "renew">>
    /\ UNCHANGED <<ccKind, configVersion, ccContext>>
    /\ UNCHANGED <<ccPass, ccTodo, ccSeen, metricsByOCID, ccSent, ccCrashed>>

CcConfigStep ==
    /\ ccHandler # <<>>
    /\ ccHandler' = Tail(ccHandler)
    /\ configVersion' = IF Head(ccHandler) = "bump" THEN configVersion + 1 ELSE configVersion
    /\ ccPushed' = IF Head(ccHandler) = "prepare"
                   THEN [ccPushed EXCEPT ![ccExtConfig] = Prepared(@)]
                   ELSE ccPushed
    /\ ccContext' = IF Head(ccHandler) = "renew" THEN ccExtConfig ELSE ccContext
    /\ UNCHANGED <<ccKind, ccExtConfig, ccPass, ccTodo, ccSeen, metricsByOCID, ccSent, ccCrashed>>

-----------------------------------------------------------------------------
(* Samples. *)

(* The value of the latest data point that is complete.                    *)
getValue(points) ==
    LET complete == {p \in points : p.complete}
    IN  IF complete = {} THEN [v |-> 0, t |-> CcNow, ok |-> FALSE]
        ELSE LET last == CHOOSE p \in complete : \A q \in complete : q.t <= p.t
             IN  [v |-> last.v, t |-> last.t, ok |-> TRUE]

SampleOf(item, service) ==
    LET value == getValue(item.points)
    IN  [resource |-> item.resource, service |-> service, series |-> item.series,
         value |-> value.v, end |-> value.t, noData |-> ~value.ok]

(* No item is one sample without data of the definition's own resource.    *)
ListSamples(definition) ==
    IF definition.items = {}
    THEN {SampleOf([resource |-> definition.resource, series |-> {}, points |-> {}], definition.name)}
    ELSE {SampleOf(item, IF item.name = "" THEN definition.name ELSE item.name) : item \in definition.items}

SeriesKey(s) == <<s.resource, s.service, s.series>>

Replaces(s, kept) == s.end > kept.end \/ (s.end = kept.end /\ kept.noData /\ ~s.noData)

(* A sample of no resource, or of one outside the inventory, is left out.  *)
InInventory(s) == s.resource \in {r.id : r \in CcResources}

Keep(s) ==
    LET k == SeriesKey(s)
    IN  IF ~InInventory(s) \/ (k \in DOMAIN metricsByOCID /\ ~Replaces(s, metricsByOCID[k])) THEN metricsByOCID
        ELSE [x \in DOMAIN metricsByOCID \cup {k} |-> IF x = k THEN s ELSE metricsByOCID[x]]

-----------------------------------------------------------------------------
(* What is sent of a pass. *)

mapLifecycleStateToHostStatus(state) ==
    CASE state \in {"RUNNING", "AVAILABLE", "ACTIVE"} -> "HOST_UP"
      [] state \in {"STOPPING", "STARTING", "PROVISIONING", "CREATING", "UPDATING",
                    "TERMINATING", "DELETING", "PENDING"} -> "HOST_PENDING"
      [] state \in {"STOPPED", "TERMINATED", "DELETED", "FAILED", "INACTIVE"} -> "HOST_UNSCHEDULED_DOWN"
      [] OTHER -> "HOST_UP"

(* A service has one metric for each series; a host without metrics is     *)
(* sent all the same.                                                      *)
buildServices(resource) ==
    {<<k[2], k[3], metricsByOCID[k].value>> : k \in {x \in DOMAIN metricsByOCID : x[1] = resource}}

OracleHosts(cfg) ==
    {[name |-> r.name, status |-> mapLifecycleStateToHostStatus(r.lifecycle), services |-> buildServices(r.id)] :
        r \in {x \in CcResources : MatchString(cfg.host, x.name)}}

(* The compartment's name, else its identifier.                            *)
OracleGroups(cfg) ==
    LET listed == {r \in CcResources : MatchString(cfg.host, r.name) /\ r.compartment # ""}
    IN  [g \in {r.compartment : r \in listed} |-> {r.name : r \in {x \in listed : x.compartment = g}}]

(* The last data point of the first series, whichever that is: 0 when it   *)
(* has no aggregate or there is no point.                                  *)
CreateMetricBuilder(d) ==
    LET Latest(points) == CHOOSE p \in points : \A q \in points : q.t <= p.t
        Value(points) == IF points = {} \/ ~Latest(points).complete THEN 0 ELSE Latest(points).v
    IN  {[resource |-> d.resource, service |-> d.name, value |-> v] :
            v \in IF d.items = {} THEN {0} ELSE {Value(item.points) : item \in d.items}}

AzureHosts ==
    {[name |-> r.name, status |-> "HOST_UP",
      services |-> {<<s.service, s.value>> : s \in {x \in ccSeen : x.resource = r.id}}] :
        r \in {x \in CcResources : \E s \in ccSeen : s.resource = x.id}}
AzureGroups(cfg) ==
    [g \in {IF cfg.hostGroup = "" THEN "TCG-AZURE" ELSE cfg.hostGroup} |-> {h.name : h \in AzureHosts}]

-----------------------------------------------------------------------------
(* The pass. *)

ConfigAt(i) == ccPushed[i]
PassConfig == IF ccKind = "oracle" THEN ccPass.cfg ELSE ccExtConfig
PassTo(pc) == ccPass' = PassAt(pc, ccPass.cfg, ccPass.version, ccPass.ctx, ccPass.torn)
GiveUp == ccPass' = IdlePass /\ ccTodo' = {} /\ ccSeen' = {} /\ metricsByOCID' = Nowhere

(* Matching with an expression that is not compiled is a nil dereference.  *)
MatchPanics(p) == \E i \in DOMAIN p : ~p[i].compiled

(* cfg, cfgVersion and ctx are read one after the other.                   *)
ReadConfig ==
    /\ ccPass.pc = "idle" /\ ~ccCrashed
    /\ ccPass' = PassAt(IF ccKind = "oracle" THEN "version" ELSE "list", ccExtConfig, 0, 0, FALSE)
    /\ UNCHANGED <<ccConfiguration, ccTodo, ccSeen, metricsByOCID, ccSent, ccCrashed>>
ReadVersion ==
    /\ ccPass.pc = "version"
    /\ ccPass' = PassAt("ctx", ccPass.cfg, configVersion, 0, ccPass.cfg # ccExtConfig)
    /\ UNCHANGED <<ccConfiguration, ccTodo, ccSeen, metricsByOCID, ccSent, ccCrashed>>
ReadCtx ==
    /\ ccPass.pc = "ctx"
    /\ ccPass' = PassAt("list", ccPass.cfg, ccPass.version, ccContext, ccPass.torn)
    /\ UNCHANGED <<ccConfiguration, ccTodo, ccSeen, metricsByOCID, ccSent, ccCrashed>>

(* Every request of the Oracle pass is made with the context it read.      *)
Canceled == ccKind = "oracle" /\ ccPass.ctx # ccContext

NameOf(id) == (CHOOSE r \in CcResources : r.id = id).name
Listed(cfg, d) ==
    IF ccKind = "oracle" THEN MatchString(cfg.service, d.name) ELSE MatchString(cfg.host, NameOf(d.resource))

(* The credentials are missing or the lists fail; otherwise the metric     *)
(* queries are known: Oracle's are of the services that match, Azure's of  *)
(* the resources that do.  Oracle needs mappings of both kinds.            *)
List ==
    LET cfg == ConfigAt(PassConfig)
        ready == cfg.credentials /\ (ccKind = "oracle" => cfg.host # <<>> /\ cfg.service # <<>>)
    IN  /\ ccPass.pc = "list"
        /\ \/ GiveUp /\ UNCHANGED ccCrashed
           \/ /\ ready /\ ~Canceled
              /\ ccCrashed' = MatchPanics(IF ccKind = "oracle" THEN cfg.service ELSE cfg.host)
              /\ PassTo("samples")
              /\ ccTodo' \in {{d \in ds : Listed(cfg, d)} : ds \in CcItems}
              /\ UNCHANGED <<ccSeen, metricsByOCID>>
        /\ UNCHANGED <<ccConfiguration, ccSent>>

(* The answer to one query of the Oracle pass, sample by sample.  A query  *)
(* that fails is left out.                                                 *)
OracleSamples(d) ==
    \/ Canceled /\ GiveUp
    \/ /\ ~Canceled
       /\ ccTodo' = ccTodo \ {d}
       /\ UNCHANGED <<ccPass, ccSeen, metricsByOCID>>
    \/ /\ ~Canceled
       /\ \E s \in ListSamples(d) \ ccSeen :
             /\ ccSeen' = ccSeen \cup {s}
             /\ metricsByOCID' = Keep(s)
             /\ ccTodo' = IF ListSamples(d) \subseteq ccSeen' THEN ccTodo \ {d} ELSE ccTodo
       /\ UNCHANGED ccPass

(* A metric that does not match is not asked for, one without a value is   *)
(* left out, and a query that fails loses all metrics of the resource.     *)
MetricsList(d, service) ==
    /\ \/ /\ ccTodo' = ccTodo \ {d}
          /\ UNCHANGED ccSeen
       \/ /\ MatchString(service, d.name)
          /\ \E s \in CreateMetricBuilder(d) : ccSeen' = ccSeen \cup {s}
          /\ ccTodo' = ccTodo \ {d}
       \/ /\ ccTodo' = {x \in ccTodo : x.resource # d.resource}
          /\ ccSeen' = {x \in ccSeen : x.resource # d.resource}
    /\ UNCHANGED <<ccPass, metricsByOCID>>

Samples ==
    LET service == ConfigAt(PassConfig).service
    IN  /\ ccPass.pc = "samples" /\ ~ccCrashed
        /\ ccCrashed' = (ccKind = "azure" /\ MatchPanics(service))
        /\ \E d \in ccTodo : IF ccKind = "oracle" THEN OracleSamples(d) ELSE MetricsList(d, service)
        /\ UNCHANGED <<ccConfiguration, ccSent>>

\* Mutant of Stale: the version is not looked at again.
NeverStale == FALSE

Stale == ccPass.version # configVersion

(* The Oracle pass matches the hosts, and drops what it has when the       *)
(* version is not the one it read or nothing matched.                      *)
Build ==
    LET cfg == ConfigAt(PassConfig)
        hosts == IF ccKind = "oracle" THEN OracleHosts(cfg) ELSE AzureHosts
    IN  /\ ccPass.pc = "samples" /\ ccTodo = {} /\ ~ccCrashed
        /\ ccCrashed' = (ccKind = "oracle" /\ MatchPanics(cfg.host))
        /\ IF ccCrashed' \/ (ccKind = "oracle" /\ (hosts = {} \/ Stale))
           THEN UNCHANGED ccSent
           ELSE ccSent' = [cfg |-> PassConfig, hosts |-> hosts,
                           groups |-> IF ccKind = "oracle" THEN OracleGroups(cfg) ELSE AzureGroups(cfg)]
        /\ GiveUp
        /\ UNCHANGED ccConfiguration

CcNext ==
    \/ \E c \in CcConfigs : CcConfigHandler(c)
    \/ CcConfigStep
    \/ ReadConfig \/ ReadVersion \/ ReadCtx \/ List \/ Samples \/ Build

CcSpec == CcInit /\ [][CcNext]_ccVars

-----------------------------------------------------------------------------
(* In whatever order compartments, definitions and items bring the samples *)
(* of a series, the one kept is the newest, and one with data when samples *)
(* with and without data end at the same time; what is not in the          *)
(* inventory has none.                                                     *)
NewestKept ==
    ccKind = "oracle" =>
        \A s \in ccSeen : InInventory(s) =>
            /\ SeriesKey(s) \in DOMAIN metricsByOCID
            /\ LET kept == metricsByOCID[SeriesKey(s)]
               IN  InInventory(kept) /\ (kept.end > s.end \/ (kept.end = s.end /\ (kept.noData => s.noData)))

(* Oracle metrics of a replaced configuration are not sent, unless the     *)
(* configuration changed between the reads of the configuration and of its *)
(* version, or between its publication and the increment of the version.   *)
StaleIsSkipped ==
    [][ccSent' # ccSent /\ ccKind = "oracle" /\ ~ccPass.torn /\ ccHandler # <<"bump", "prepare", "renew">>
         => ccSent'.cfg = ccExtConfig]_ccVars

(* The newest sample of each series is sent, for the configuration in      *)
(* force.  The check of the version and the send are one step here.        *)
NewestOfThisConfig == []NewestKept /\ StaleIsSkipped
=============================================================================
