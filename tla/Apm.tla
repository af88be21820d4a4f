--------------------------------- MODULE Apm ---------------------------------
(* The APM connector: Prometheus metrics pushed to it or pulled from the   *)
(* resources of its configuration (src/connectors/apm).                    *)
(*                                                                         *)
(* Every pull and every request is a goroutine of its own: they overlap    *)
(* each other and the configurations, and write two maps without a lock.   *)
(* A pull walks the resources of the configuration it began with, while    *)
(* the defaults of a resource are looked up by position in the one that is *)
(* in force when a metric is placed.  What the maps hold is left out:      *)
(* nothing of what is sent depends on it.                                  *)
EXTENDS Naturals, FiniteSets, SequencesExt

CONSTANTS
    ApmConfigs,    \* pushed configurations: resources, profile and mappings
    ApmAnswers,    \* payloads: sets of metrics, or Unreadable
    Unreadable,
    ApmWorkers,    \* goroutines of pulls and of requests
    MaxApmConfigs, \* bound on the configurations
    MaxApmStarts   \* bound on the pulls and requests

(* A metric has an identity within its payload.                            *)
ApmResources == UNION {ToSet(c.resources) : c \in ApmConfigs}
ASSUME ApmAssumption ==
    /\ \A c \in ApmConfigs : c.resources \in Seq(ApmResources)
    /\ \A ms \in ApmAnswers \ {Unreadable} : \A m, n \in ms : m.id = n.id => m = n

VARIABLES
    apmConfig,     \* extConfig and metricsProfile
    apmMappings,   \* mappings, <<>> for the nil pointer a failed decoding leaves
    apmHandler,    \* the configuration whose mappings are still to be decoded
    apmConfigured, \* configurations so far
    apmStarts,     \* pulls and requests so far
    apmPhase,      \* what a goroutine is about to do
    apmResources,  \* the resources a pull began with
    apmAt,         \* the position of the resource being asked, 0 in a push
    apmMetrics,    \* the metrics being processed, or Unreadable
    apmTodo,       \* those that are not placed
    apmBuilt,      \* where the others are placed, and the groups
    apmEnded       \* the process is gone

apmLocals == <<apmPhase, apmResources, apmAt, apmMetrics, apmTodo, apmBuilt>>
apmVars == <<apmConfig, apmMappings, apmHandler, apmConfigured, apmStarts, apmLocals, apmEnded>>

NoMappings == [resource |-> {}, host |-> <<>>, service |-> <<>>]
NoApmConfig == [resources |-> <<>>, profile |-> {}, decodes |-> TRUE, compiles |-> TRUE, mappings |-> NoMappings]
NothingBuilt == [placed |-> {}, groups |-> <<>>]
defaultHostName == <<"APM", "-", "Host">>
defaultHostGroupName == "Servers"

ApmInit ==
    /\ apmConfig = NoApmConfig /\ apmMappings = <<NoMappings>> /\ apmHandler = <<>>
    /\ apmConfigured = 0 /\ apmStarts = 0 /\ apmEnded = FALSE
    /\ apmPhase = [w \in ApmWorkers |-> "idle"]
    /\ apmResources = [w \in ApmWorkers |-> <<>>]
    /\ apmAt = [w \in ApmWorkers |-> 0]
    /\ apmMetrics = [w \in ApmWorkers |-> {}]
    /\ apmTodo = [w \in ApmWorkers |-> {}]
    /\ apmBuilt = [w \in ApmWorkers |-> NothingBuilt]

-----------------------------------------------------------------------------
(* Metrics and names. *)

(* Special characters become underscores, of which no two follow each      *)
(* other and none is last.                                                 *)
SanitizeString(str) ==
    LET plain == [i \in DOMAIN str |-> IF str[i] = " " THEN "_" ELSE str[i]]
        kept == SelectSeq([i \in DOMAIN plain |-> i], LAMBDA i : i = 1 \/ plain[i] # "_" \/ plain[i - 1] # "_")
        once == [i \in DOMAIN kept |-> plain[kept[i]]]
    IN  IF once # <<>> /\ Last(once) = "_" THEN Front(once) ELSE once

(* A histogram has several values, a summary none.                         *)
makeValue(m) ==
    CASE m.type = "histogram" -> {m.name \o <<"_", part>> : part \in {"sum", "count", "bucket"}}
      [] m.type = "summary" -> {}
      [] OTHER -> {m.name}

Label(m, key) == IF key \in DOMAIN m.labels THEN m.labels[key] ELSE <<>>

(* The last mapping one of whose labels matches; $1 stands for its value.  *)
applyLabelMapping(mappings, m) ==
    LET fit == {i \in DOMAIN mappings : mappings[i].enabled /\ mappings[i].label \in DOMAIN m.labels}
        last == CHOOSE i \in fit : \A j \in fit : j <= i
    IN  IF fit = {} THEN <<>> ELSE m.labels[mappings[last].label]
applyResourceMapping(mappings, url) ==
    IF \E r \in mappings : r.source = url /\ r.enabled
    THEN (CHOOSE r \in mappings : r.source = url /\ r.enabled).host ELSE <<>>

FirstOf(names) == LET given == SelectSeq(names, LAMBDA n : n # <<>>) IN IF given = <<>> THEN <<>> ELSE given[1]

(* Position 0 is a push, which has no resource.                            *)
Own(index) == apmConfig.resources[index]
HostOf(m, url, index) ==
    SanitizeString(FirstOf(<<applyLabelMapping(apmMappings[1].host, m),
                             applyResourceMapping(apmMappings[1].resource, url),
                             Label(m, "resource"),
                             IF index = 0 THEN <<>> ELSE Own(index).host,
                             defaultHostName>>))
GroupOf(m, index) ==
    IF "group" \in DOMAIN m.labels THEN m.labels["group"]
    ELSE IF index = 0 \/ Own(index).group = "" THEN defaultHostGroupName ELSE Own(index).group

(* The service is not reset between the values of a metric: the values of  *)
(* one without a label go to the service of the first, in the order the    *)
(* map gives them (any: no property tells the values of a metric apart).   *)
ServiceOf(m, first) == SanitizeString(FirstOf(<<applyLabelMapping(apmMappings[1].service, m), Label(m, "service"), first>>))

\* Mutant of addToGroups: a host is added to the groups when it is new.
groupsOfNew(placed, groups, host, group) ==
    IF \E p \in placed : p.host = host THEN groups ELSE Append(groups, [group |-> group, host |-> host])

(* A host is added to a group that does not contain it.                    *)
addToGroups(placed, groups, host, group) ==
    IF \E i \in DOMAIN groups : groups[i] = [group |-> group, host |-> host] THEN groups
    ELSE Append(groups, [group |-> group, host |-> host])

WithMetric(state, m, url, index) ==
    LET host == HostOf(m, url, index)
        first == CHOOSE v \in makeValue(m) : TRUE
        placed == {[host |-> host, service |-> ServiceOf(m, first), value |-> v, id |-> m.id] : v \in makeValue(m)}
    IN  IF makeValue(m) = {} THEN state
        ELSE [placed |-> state.placed \cup placed,
              groups |-> addToGroups(state.placed, state.groups, host, GroupOf(m, index))]

(* Pulled metrics are sent when the profile names them.                    *)
Filtered(metrics, index) == IF index = 0 THEN metrics ELSE {m \in metrics : m.name \in apmConfig.profile}

-----------------------------------------------------------------------------
(* Configurations. *)

(* A configuration that does not parse changes nothing.  The mappings are  *)
(* decoded after the rest is in force.                                     *)
ApmConfigHandler(c) ==
    /\ ~apmEnded /\ apmHandler = <<>> /\ apmConfigured < MaxApmConfigs
    /\ apmConfig' = c
    /\ apmHandler' = <<c>>
    /\ apmConfigured' = apmConfigured + 1
    /\ UNCHANGED <<apmMappings, apmStarts, apmLocals, apmEnded>>

(* An expression that does not compile panics, in the worker of the task   *)
(* queue: nobody recovers.                                                 *)
unmarshalMappings ==
    /\ ~apmEnded /\ apmHandler # <<>>
    /\ apmHandler' = <<>>
    /\ apmMappings' = IF apmHandler[1].decodes THEN <<apmHandler[1].mappings>> ELSE <<>>
    /\ apmEnded' = ~apmHandler[1].compiles
    /\ UNCHANGED <<apmConfig, apmConfigured, apmStarts, apmLocals>>

-----------------------------------------------------------------------------
(* Pulls and requests. *)

(* The goroutine is over: it returned, or its panic was recovered by       *)
(* StartPeriodic or by the server.                                         *)
ApmReturn(w) ==
    /\ apmPhase' = [apmPhase EXCEPT ![w] = "idle"]
    /\ apmResources' = [apmResources EXCEPT ![w] = <<>>]
    /\ apmAt' = [apmAt EXCEPT ![w] = 0]
    /\ apmMetrics' = [apmMetrics EXCEPT ![w] = {}]
    /\ apmTodo' = [apmTodo EXCEPT ![w] = {}]
    /\ apmBuilt' = [apmBuilt EXCEPT ![w] = NothingBuilt]

(* process returned: a pull goes on with the next resource.                *)
Processed(w) ==
    IF apmAt[w] = 0 THEN ApmReturn(w)
    ELSE /\ apmPhase' = [apmPhase EXCEPT ![w] = "pull"]
         /\ apmMetrics' = [apmMetrics EXCEPT ![w] = {}]
         /\ apmTodo' = [apmTodo EXCEPT ![w] = {}]
         /\ apmBuilt' = [apmBuilt EXCEPT ![w] = NothingBuilt]
         /\ UNCHANGED <<apmResources, apmAt>>

ApmStart(w) ==
    /\ ~apmEnded /\ apmPhase[w] = "idle" /\ apmStarts < MaxApmStarts
    /\ apmStarts' = apmStarts + 1
    /\ UNCHANGED <<apmConfig, apmMappings, apmHandler, apmConfigured, apmEnded>>
ApmRuns(w, phase) ==
    /\ ~apmEnded /\ apmPhase[w] = phase
    /\ UNCHANGED <<apmConfig, apmMappings, apmHandler, apmConfigured, apmStarts, apmEnded>>

receiverHandler(w, metrics) ==
    /\ ApmStart(w)
    /\ apmPhase' = [apmPhase EXCEPT ![w] = "parse"]
    /\ apmMetrics' = [apmMetrics EXCEPT ![w] = metrics]
    /\ UNCHANGED <<apmResources, apmAt, apmTodo, apmBuilt>>

MetricsAvailable(w) ==
    /\ ApmStart(w)
    /\ apmPhase' = [apmPhase EXCEPT ![w] = "list"]
    /\ UNCHANGED <<apmResources, apmAt, apmMetrics, apmTodo, apmBuilt>>
ListAvailable(w) == ApmRuns(w, "list") /\ ApmReturn(w)

ApmPeriodicHandler(w) ==
    /\ ApmStart(w)
    /\ apmPhase' = [apmPhase EXCEPT ![w] = "pull"]
    /\ apmResources' = [apmResources EXCEPT ![w] = apmConfig.resources]
    /\ UNCHANGED <<apmAt, apmMetrics, apmTodo, apmBuilt>>

(* The next resource does not answer, or its answer is processed.          *)
Pull(w) ==
    /\ ApmRuns(w, "pull") /\ apmAt[w] < Len(apmResources[w])
    /\ apmAt' = [apmAt EXCEPT ![w] = apmAt[w] + 1]
    /\ \/ UNCHANGED <<apmPhase, apmMetrics>>
       \/ \E metrics \in ApmAnswers :
             /\ apmPhase' = [apmPhase EXCEPT ![w] = "parse"]
             /\ apmMetrics' = [apmMetrics EXCEPT ![w] = metrics]
    /\ UNCHANGED <<apmResources, apmTodo, apmBuilt>>
PullEnds(w) == ApmRuns(w, "pull") /\ apmAt[w] = Len(apmResources[w]) /\ ApmReturn(w)

(* The names are in availableMetrics, and the metrics are filtered.        *)
ApmParse(w) ==
    /\ ApmRuns(w, "parse")
    /\ IF apmMetrics[w] = Unreadable THEN Processed(w)
       ELSE LET metrics == Filtered(apmMetrics[w], apmAt[w])
            IN  /\ apmPhase' = [apmPhase EXCEPT ![w] = IF metrics = {} THEN "send" ELSE "place"]
                /\ apmMetrics' = [apmMetrics EXCEPT ![w] = metrics]
                /\ apmTodo' = [apmTodo EXCEPT ![w] = metrics]
                /\ UNCHANGED <<apmResources, apmAt, apmBuilt>>

(* Mappings that are nil are dereferenced, and a position that is gone is  *)
(* looked up, when there is a value to place.                              *)
PlacePanics(w, m) ==
    /\ makeValue(m) # {}
    /\ apmMappings = <<>> \/ apmAt[w] > Len(apmConfig.resources)

Url(w) == IF apmAt[w] = 0 THEN <<>> ELSE apmResources[w][apmAt[w]].url

(* A metric is placed, with the configuration of the moment.               *)
extractIntoMetricBuilders(w, m) ==
    /\ ApmRuns(w, "place") /\ m \in apmTodo[w]
    /\ IF PlacePanics(w, m) THEN ApmReturn(w)
       ELSE /\ apmBuilt' = [apmBuilt EXCEPT ![w] = WithMetric(apmBuilt[w], m, Url(w), apmAt[w])]
            /\ apmTodo' = [apmTodo EXCEPT ![w] = apmTodo[w] \ {m}]
            /\ apmPhase' = [apmPhase EXCEPT ![w] = IF apmTodo[w] = {m} THEN "send" ELSE "place"]
            /\ UNCHANGED <<apmResources, apmAt, apmMetrics>>

(* What is built is sent, or the error is logged.                          *)
ApmSend(w) == ApmRuns(w, "send") /\ Processed(w)

(* The maps that a goroutine may be writing, and the one it may be reading *)
Writes(w) ==
    {map \in {"availableMetrics", "inventoryGroupsStorage"} :
        \/ map = "availableMetrics" /\ apmPhase[w] = "parse"
        \/ /\ map = "inventoryGroupsStorage" /\ apmPhase[w] = "place" /\ apmAt[w] # 0
           /\ \E m \in apmTodo[w] : makeValue(m) # {}}
Reads(w) == IF apmPhase[w] = "list" THEN {"availableMetrics"} ELSE {}

(* The map of one is written by another.                                   *)
MapsRace == \E v, w \in ApmWorkers : v # w /\ Writes(v) \cap (Writes(w) \cup Reads(w)) # {}

(* The runtime throws where it notices, which nothing recovers.            *)
MapsThrow ==
    /\ ~apmEnded /\ MapsRace
    /\ apmEnded' = TRUE
    /\ UNCHANGED <<apmConfig, apmMappings, apmHandler, apmConfigured, apmStarts, apmLocals>>

ApmNext ==
    \/ \E c \in ApmConfigs : ApmConfigHandler(c)
    \/ unmarshalMappings
    \/ \E w \in ApmWorkers :
         \/ \E metrics \in ApmAnswers : receiverHandler(w, metrics)
         \/ MetricsAvailable(w)
         \/ ListAvailable(w)
         \/ ApmPeriodicHandler(w)
         \/ Pull(w)
         \/ PullEnds(w)
         \/ ApmParse(w)
         \/ \E m \in apmTodo[w] : extractIntoMetricBuilders(w, m)
         \/ ApmSend(w)
    \/ MapsThrow

ApmSpec == ApmInit /\ [][ApmNext]_apmVars

-----------------------------------------------------------------------------
(* Every value of the metrics is in one service of one host, every host is *)
(* in the group of each of its metrics, and once in each.                  *)
Grouped(metrics, built) ==
    /\ \A m \in metrics : \A v \in makeValue(m) :
           Cardinality({p \in built.placed : p.id = m.id /\ p.value = v}) = 1
    /\ \A m \in metrics : \A p \in built.placed :
           p.id = m.id /\ "group" \in DOMAIN m.labels =>
               Cardinality({i \in DOMAIN built.groups :
                               built.groups[i] = [group |-> m.labels["group"], host |-> p.host]}) = 1
    /\ \A p \in built.placed : \E i \in DOMAIN built.groups : built.groups[i].host = p.host

(* What is sent is grouped, whatever configurations came while it was      *)
(* being placed.                                                           *)
ApmGrouped == \A w \in ApmWorkers : apmPhase[w] = "send" => Grouped(apmMetrics[w], apmBuilt[w])

(* A metric is placed with the defaults of the resource it was pulled      *)
(* from, and its goroutine panics only over nil mappings, unless the       *)
(* resources are not those that the pull began with; it looks up a         *)
(* position that is gone only where there are fewer.                       *)
OwnDefaults ==
    \A w \in ApmWorkers : apmPhase[w] = "place" /\ apmAt[w] # 0 =>
        /\ apmConfig.resources = apmResources[w] => Own(apmAt[w]).url = Url(w)
        /\ \A m \in apmTodo[w] : PlacePanics(w, m) /\ apmMappings # <<>> =>
               Len(apmConfig.resources) < Len(apmResources[w])

(* A push has no position that can be gone.                                *)
PushesPanicOverMappings ==
    \A w \in ApmWorkers : apmPhase[w] = "place" /\ apmAt[w] = 0 =>
        \A m \in apmTodo[w] : PlacePanics(w, m) => apmMappings = <<>>

(* The process ends over an expression that does not compile, or while two *)
(* goroutines are in one of the maps.                                      *)
ApmEndsOver == apmEnded => ~apmConfig.compiles \/ MapsRace

(* Every metric is reported in its group and with the defaults of its      *)
(* resource, a pull or a push fails only over a configuration, and the     *)
(* connector ends only over one or over the maps that overlapping pulls    *)
(* and pushes write.                                                       *)
ApmReports == ApmGrouped /\ OwnDefaults /\ PushesPanicOverMappings /\ ApmEndsOver
=============================================================================
