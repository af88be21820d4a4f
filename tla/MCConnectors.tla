---------------------------- MODULE MCConnectors ----------------------------
(* The connectors, and what they share: the configuration, the samples and *)
(* the way of a payload to the Groundwork server.  A behaviour exercises   *)
(* one part: they share no state, so the reachable states of the model are *)
(* the sum of those of the parts.                                          *)
EXTENDS MCTransitPath, Config, Sampling, Snmp, MCElastic,
        Kubernetes, Checks, CloudCollect, Apm

-----------------------------------------------------------------------------
(* Configuration: three environments, pushed configurations of two types. *)
MCCfgEnvs == {<<>>, "password" :> "env" @@ "natsMaxPayload" :> "env" @@ "secKey" :> "key",
              "enabled" :> "env" @@ "gwEncode" :> "force"}
MCCfgDTOs == {"appType" :> t @@ "enabled" :> e @@ "password" :> "pushed" @@ "prefix" :> "" :
                 t \in {"APM", "SERVER"}, e \in {"yes", "no"}}

-----------------------------------------------------------------------------
(* Sampling: values on both sides of their thresholds, of every type, and  *)
(* synthetic metrics over them.                                            *)
G(t, n) == [type |-> t, v |-> n]
Nil == G("nil", 0)
V(n) == [op |-> "var", name |-> n]
Exprs == {V("a"), [op |-> "/", l |-> V("a"), r |-> V("b")],
          [op |-> "fn", f |-> "percentageUsed", args |-> <<V("a"), V("b")>>],
          [op |-> "fn", f |-> "maxInt", args |-> <<V("a"), V("c")>>]}
Query(n, v, w, c) ==
    [name |-> n, value |-> v, warning |-> w, critical |-> c, compute |-> "Query", expression |-> V(n)]
MCBuilders ==
    {Query("a", G("int", 0), G("int", 300), G("int", 600))}
    \cup {Query("a", G("float", 500), G("int", 300), c) : c \in {G("int", 600), G("int", 200)}}
    \cup {Query("b", v, G("int", 300), G("int", 600)) : v \in {G("int", 0), G("float", 500)}}
    \cup {Query("u", G("uint", 200), G("int", -100), Nil)}
    \cup {Query("u", v, Nil, Nil) : v \in {G("complex", 0), G("string", 0)}}
    \cup {Query("u", G("float", v), G("int", 300), G("int", 600)) : v \in {Infinite, NaN}}
    \cup {Query("x", G("int", 0), G("complex", 0), Nil)}
    \cup {[name |-> "s", value |-> G("int", -100), warning |-> G("int", 300), critical |-> G("int", 600),
           compute |-> "Synthetic", expression |-> e] : e \in Exprs}

-----------------------------------------------------------------------------
(* The SNMP connector with a device that has an interface. *)
MCSnmpConfigs ==
    {[server |-> TRUE, views |-> {"interfaces"}, mibs |-> [ifInOctets |-> "Delta"], defs |-> {}],
     [server |-> FALSE, views |-> {"interfaces"}, mibs |-> [ifInOctets |-> "Gauge"], defs |-> {"bytesPerSecondIn"}],
     [server |-> TRUE, views |-> {"other"}, mibs |-> Empty, defs |-> {}]}

MCReply(rows) == [status |-> 200, json |-> TRUE, rows |-> <<[map |-> FALSE]>> \o rows]
MCDown == [status |-> 500, json |-> FALSE, rows |-> <<>>]
MCGarbage == [status |-> 200, json |-> FALSE, rows |-> <<>>]
MCEmptyList == [status |-> 200, json |-> TRUE, rows |-> <<>>]
MCMonitored(d, bad) == [map |-> TRUE, bad |-> bad, device |-> d, lastok |-> 0]
MCDevice(d, bad) == [map |-> TRUE, bad |-> bad, device |-> d, readcomm |-> "public"]
MCInterface(i, bad) == [map |-> TRUE, bad |-> bad, device |-> "d", ifidx |-> i, ifname |-> "eth"]

MCNediReplies ==
    [monitoring |-> {MCDown, MCEmptyList, MCReply(<<MCMonitored("d", {}), MCMonitored("e", {"monip"})>>),
                     MCReply(<<MCMonitored("d", {"lastok"})>>)},
     devices |-> {MCGarbage, MCReply(<<MCDevice("d", {}), MCDevice("e", {}), [map |-> FALSE]>>)},
     interfaces |-> {MCDown, MCEmptyList, MCReply(<<MCInterface(1, {"ifstat"}), MCInterface(2, {"ifidx"})>>)}]

MCNediConf ==
    <<[comm |-> "commsec", name |-> "public", aprot |-> "sha", apass |-> [hex |-> TRUE, bytes |-> <<1, 1, 0, 1>>],
       pprot |-> "", ppass |-> [hex |-> FALSE, bytes |-> <<>>]]>>

-----------------------------------------------------------------------------
(* Kubernetes: a node and three pods, two of them replicas in namespaces of their own. *)
MCMap(tag, valid, out) == [tags |-> <<tag>>, valid |-> valid, compiled |-> valid, template |-> "", out |-> out]
MCHostNames == {<<>>, <<MCMap("pod_name", FALSE, NoFun), MCMap("app", TRUE, [x \in {<<"web">>} |-> "web"])>>}
MCHostGroups == {<<>>, <<MCMap("namespace", TRUE, [x \in {<<"n2">>} |-> "group"])>>}

MCNodes == [n |-> [labels |-> [zone |-> "a"], conditions |-> {"DiskPressure"}, cpu |-> 4]]
MCPod(ns, labels, containers, phase) ==
    [namespace |-> ns, labels |-> labels, containers |-> containers, phase |-> phase, node |-> "n", cpu |-> 1, healthy |-> TRUE]
MCPodSpecs ==
    [p1 |-> MCPod("n1", [app |-> "web"], {"c", "POD"}, "Running"),
     p2 |-> MCPod("n2", [app |-> "web"], {"c"}, "Running"),
     p3 |-> [MCPod("", NoFun, {"c"}, "Succeeded") EXCEPT !.healthy = FALSE]]

-----------------------------------------------------------------------------
(* Checks: lines of two hosts, of a host check and with each kind of mistake. *)
MCLine(res, svc, id) ==
    [formats |-> {"nsca", "bronx"}, ts |-> "number", res |-> res, svc |-> svc, status |-> 0,
     perf |-> <<[label |-> id, parses |-> TRUE]>>]
MCChkLines ==
    {MCLine(<<"h">>, <<"s">>, 1), [MCLine(<<"h">>, <<"s">>, 2) EXCEPT !.status = 2, !.ts = ""],
     MCLine(<<"g">>, <<"s">>, 3), [MCLine(<<"h">>, <<>>, 4) EXCEPT !.status = 1],
     MCLine(<<"h", ":", "s">>, <<"t">>, 5), MCLine(<<"h">>, <<"s", ":", "t">>, 6),
     [MCLine(<<"g">>, <<"s">>, 7) EXCEPT !.perf = <<>>], [MCLine(<<"g">>, <<"t">>, 8) EXCEPT !.status = 4],
     [MCLine(<<"g">>, <<"t">>, 9) EXCEPT !.formats = {"nsca"}]}
MCTask(id, command, cron) == [id |-> id, command |-> command, cron |-> cron, format |-> "bronx"]
MCChkConfigs ==
    {<<>>, <<MCTask("a", TRUE, TRUE)>>, <<MCTask("a", TRUE, TRUE), MCTask("b", TRUE, FALSE)>>,
     <<MCTask("c", FALSE, TRUE)>>}

-----------------------------------------------------------------------------
(* Oracle and Azure: two resources, series whose samples arrive from two queries. *)
MCOut(names) == [x \in {<<n>> : n \in names} |-> ""]
MCCcMap(names, valid) == [tags |-> <<"n">>, valid |-> valid, compiled |-> FALSE, template |-> "", out |-> MCOut(names)]
MCCcConfig(host, service, credentials) ==
    [host |-> host, service |-> service, credentials |-> credentials, hostGroup |-> ""]
MCCcConfigs ==
    {MCCcConfig(<<>>, <<>>, FALSE),
     MCCcConfig(<<MCCcMap({"vm"}, TRUE), MCCcMap({"db"}, FALSE)>>, <<MCCcMap({"cpu"}, TRUE)>>, TRUE)}

MCPoint(t, v, complete) == [t |-> t, v |-> v, complete |-> complete]
MCItem(name, resource, points) == [name |-> name, resource |-> resource, series |-> {"d"}, points |-> points]
MCDef(resource, items) == [name |-> "cpu", resource |-> resource, items |-> items]
MCCcItems ==
    {{MCDef("r1", {MCItem("", "r1", {MCPoint(2, 5, TRUE), MCPoint(3, 6, FALSE)}), MCItem("cpu", "r1", {}),
                   MCItem("", "r1", {MCPoint(4, 7, TRUE)})}), MCDef("r2", {})},
     {MCDef("r2", {MCItem("", "", {MCPoint(1, 5, TRUE)})}), MCDef("r1", {MCItem("", "r1", {MCPoint(1, 5, TRUE), MCPoint(2, 6, TRUE)})})}}
MCCcResources ==
    {[id |-> "r1", name |-> "vm", compartment |-> "c", lifecycle |-> "STOPPED"],
     [id |-> "r2", name |-> "db", compartment |-> "", lifecycle |-> "odd"]}

-----------------------------------------------------------------------------
(* APM: two resources and one, metrics with and without labels. *)
MCRes(url, host, group) == [url |-> url, host |-> host, group |-> group]
MCApmConfig(resources, mappings, decodes, compiles) ==
    [resources |-> resources, profile |-> {<<"m">>, <<"h">>}, decodes |-> decodes, compiles |-> compiles, mappings |-> mappings]
MCMappings ==
    [resource |-> {[source |-> <<"u1">>, enabled |-> TRUE, host |-> <<"web">>]},
     host |-> <<[label |-> "node", enabled |-> TRUE], [label |-> "pod", enabled |-> FALSE]>>,
     service |-> <<>>]
MCApmConfigs ==
    {MCApmConfig(<<MCRes(<<"u1">>, <<>>, ""), MCRes(<<"u2">>, <<"db", " ">>, "DB")>>, MCMappings, TRUE, TRUE),
     MCApmConfig(<<MCRes(<<"u2">>, <<"db">>, "Data")>>, NoMappings, TRUE, TRUE),
     MCApmConfig(<<>>, NoMappings, FALSE, TRUE),
     MCApmConfig(<<>>, NoMappings, TRUE, FALSE)}
MCLabels == {[x \in {} |-> x], [resource |-> <<"a", " ", "_", "b">>, group |-> "G"], [node |-> <<"a", "_", "b">>]}
MCNoLabels == [x \in {} |-> x]
MCMetric(id, name, type, labels) == [id |-> id, name |-> name, type |-> type, labels |-> labels]
MCApmAnswers ==
    {{MCMetric(1, <<"m">>, "gauge", l), MCMetric(2, <<"h">>, "histogram", MCNoLabels)} : l \in MCLabels}
    \cup {Unreadable, {MCMetric(3, <<"s">>, "summary", MCNoLabels)}}
    \cup {{MCMetric(1, <<"m">>, "gauge", [group |-> g, resource |-> <<"a">>]),
           MCMetric(2, <<"m">>, "gauge", [group |-> "G", resource |-> <<"a">>])} : g \in {"G", "K"}}
-----------------------------------------------------------------------------
VARIABLE part

\* Where a part is not exercised, one of its initial states.
MCInit ==
    /\ part \in {"path", "config", "sampling", "snmp", "elastic", "kubernetes", "checks", "cloud", "apm"}
    /\ IF part = "config" THEN TRUE ELSE cfgEnv = <<>> /\ cfgFile = <<>>
    /\ IF part = "kubernetes" THEN TRUE ELSE running = {}
    /\ IF part = "cloud" THEN TRUE ELSE ccKind = "azure"
    /\ TpInit /\ CfgInit /\ SmpInit /\ SnInit /\ ElInit /\ KInit /\ ChkInit /\ CcInit /\ ApmInit

MCNext ==
    \/ /\ part = "path" /\ TpNext
       /\ UNCHANGED <<part, cfgVars, smpVars, snVars, elVars, kVars, chkVars, ccVars, apmVars>>
    \/ /\ part = "config" /\ CfgNext
       /\ UNCHANGED <<part, tpVars, smpVars, snVars, elVars, kVars, chkVars, ccVars, apmVars>>
    \/ /\ part = "sampling" /\ SmpNext
       /\ UNCHANGED <<part, tpVars, cfgVars, snVars, elVars, kVars, chkVars, ccVars, apmVars>>
    \/ /\ part = "snmp" /\ SnNext
       /\ UNCHANGED <<part, tpVars, cfgVars, smpVars, elVars, kVars, chkVars, ccVars, apmVars>>
    \/ /\ part = "elastic" /\ ElNext
       /\ UNCHANGED <<part, tpVars, cfgVars, smpVars, snVars, kVars, chkVars, ccVars, apmVars>>
    \/ /\ part = "kubernetes" /\ KNext
       /\ UNCHANGED <<part, tpVars, cfgVars, smpVars, snVars, elVars, chkVars, ccVars, apmVars>>
    \/ /\ part = "checks" /\ ChkNext
       /\ UNCHANGED <<part, tpVars, cfgVars, smpVars, snVars, elVars, kVars, ccVars, apmVars>>
    \/ /\ part = "cloud" /\ CcNext
       /\ UNCHANGED <<part, tpVars, cfgVars, smpVars, snVars, elVars, kVars, chkVars, apmVars>>
    \/ /\ part = "apm" /\ ApmNext
       /\ UNCHANGED <<part, tpVars, cfgVars, smpVars, snVars, elVars, kVars, chkVars, ccVars>>
=============================================================================
