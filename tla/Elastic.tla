------------------------------- MODULE Elastic -------------------------------
(***************************************************************************)
(* The Elasticsearch connector (connectors/elastic): hosts are aggregated  *)
(* from Elasticsearch and kept from round to round, stored queries of      *)
(* Kibana are counted for every host, and the state becomes metrics, an    *)
(* inventory and host groups.  Every tick starts a round of its own; the   *)
(* rounds share connector.monitoringState with each other and with         *)
(* LoadConfig, without a lock.                                             *)
(***************************************************************************)
EXTENDS Integers, Sequences, FiniteSets, SequencesExt, FiniteSetsExt

CONSTANTS
    ElRounds,       \* goroutines of rounds
    ElConfigs,      \* configurations
    StoredQueries,  \* sequence of the saved objects of type query
    PerPage,        \* page size of Kibana
    KibanaReplies,  \* how Kibana answers a page: "ok", "garbage", "down"
    HostPages,      \* replies of Elasticsearch to GetHosts: sequences of pages
    HitPages,       \* replies to CountHits
    GwHosts,        \* hosts GroundWork knows, with their groups
    MaxElStarts     \* bound: rounds begun and configurations loaded

(* The filters of a query are told apart by an id; 0 is that of a clause   *)
(* that comes from somewhere else.                                         *)
ASSUME ElAssumption ==
    /\ "config" \notin ElRounds
    /\ PerPage \in Nat \ {0}
    /\ StoredQueries \in Seq(ToSet(StoredQueries))
    /\ \A q \in ToSet(StoredQueries) :
         /\ q.filters \in Seq(ToSet(q.filters))
         /\ \A i, j \in DOMAIN q.filters : q.filters[i].id = q.filters[j].id => i = j
         /\ \A i \in DOMAIN q.filters : q.filters[i].id # 0

VARIABLES
    elConfig,       \* connector.config
    lucene,         \* clients.FilterHostsWithLucene
    elStates,       \* states by who made them: [metrics, hosts: name -> [groups, services: metric -> hits]]
    elCurrent,      \* who made connector.monitoringState; its maps are shared, not copied
    doOnce,         \* GroundWork was asked for hosts
    elChksum,       \* invChksum
    elLoad,         \* LoadConfig: "idle", "config" or "state", which it assigns next
    elNewConfig, elNewState,
    elStarts,       \* rounds begun and configurations loaded
    elPhase,        \* round -> "idle", "hosts", "assign", "views", "queries"
    elConf,         \* round -> configuration its state is made for
    elFresh,        \* round -> the state it makes, not assigned yet
    elTodo,         \* round -> stored queries still to be counted
    elCounted,      \* history: round -> <<host, query, hits>> counted by any round since it began
    elMixed,        \* history: rounds that overlapped another one or LoadConfig's assignment
    elAsked,        \* history: what the step asked Elasticsearch to count
    elInventory,    \* history: hosts and metrics of the inventory sent last
    elDoubt         \* history: the last inventory was refused, or sent or compared by a mixed round

elLoads == <<elLoad, elNewConfig, elNewState>>
elSends == <<elChksum, elInventory, elDoubt>>
elVars == <<elConfig, lucene, elStates, elCurrent, doOnce, elLoads, elStarts, elPhase, elConf, elFresh, elTodo,
            elCounted, elMixed, elAsked, elSends>>

Nothing == [x \in {} |-> x]
Over(f, g) == [x \in DOMAIN f \cup DOMAIN g |-> IF x \in DOMAIN g THEN g[x] ELSE f[x]]

(* The elements of a sequence that are in a set, appended one by one.      *)
Selected(s, set) ==
    LET chosen[i \in 0 .. Len(s)] ==
            IF i = 0 THEN <<>> ELSE IF s[i] \in set THEN Append(chosen[i - 1], s[i]) ELSE chosen[i - 1]
    IN  chosen[Len(s)]

-----------------------------------------------------------------------------
(* Time filters.  A time is symbolic: n units from now, rounded to the     *)
(* start or to the last millisecond of the unit, or 0 for the zero Time.   *)
ToLower(period) == IF period = "M" THEN "m" ELSE period
ZeroTime == [n |-> 0, unit |-> "zero", edge |-> "none"]

toAbsoluteTime(e, isStartTime) ==
    LET period == ToLower(e.period)
        edge == IF ~e.rounded THEN "none" ELSE IF isStartTime THEN "start" ELSE "end"
    IN  CASE ~e.now -> IF e.parses THEN [n |-> 0, unit |-> "absolute", edge |-> "none"] ELSE ZeroTime
          [] e.now /\ e.op = "" -> [n |-> 0, unit |-> "now", edge |-> "none"]
          [] e.now /\ e.op # "" /\ period \in {"y", "M", "w", "d", "h", "m", "s"} ->
                [n |-> IF e.op = "-" THEN -e.n ELSE e.n, unit |-> period, edge |-> edge]
          [] OTHER -> ZeroTime

(* Nothing after the operator: the slice bounds are out of range. *)
TimePanics(e) == e.now /\ e.op # "" /\ e.period = ""

ToTimeInterval(filter) == [start |-> toAbsoluteTime(filter.from, TRUE), end |-> toAbsoluteTime(filter.to, FALSE)]

(* $interval in the custom filter becomes the check interval in seconds. *)
replaceIntervalTemplate(e, interval) ==
    IF e.now /\ e.period = "$interval" THEN [e EXCEPT !.n = interval, !.period = "s"] ELSE e
replaceIntervalTemplates(cfg) ==
    [cfg EXCEPT !.timeFilter = [from |-> replaceIntervalTemplate(@.from, cfg.interval),
                                to |-> replaceIntervalTemplate(@.to, cfg.interval)]]

-----------------------------------------------------------------------------
(* Queries.  A filter of a stored query is negated, has an index, or holds *)
(* a deprecated match of type phrase.                                      *)
filterNegate(f, reverse) == IF f.negate = "nil" THEN ~reverse ELSE (f.negate = "true") = reverse

migrateDeprecatedPhraseFilter(f) ==
    IF f.query = "match/phrase"
    THEN [id |-> f.id, negate |-> f.negate, index |-> f.index, query |-> "match_phrase"] ELSE f
translateToQuery(f) == [query |-> IF f.query # "nil" THEN f.query ELSE "filter", id |-> f.id]

filtersToESQueries(filters, negate) ==
    LET chosen == Selected(filters, {f \in ToSet(filters) : filterNegate(f, negate)})
    IN  [i \in DOMAIN chosen |-> translateToQuery(migrateDeprecatedPhraseFilter(chosen[i]))]

Clause(q) == <<[query |-> q, id |-> 0]>>

BuildEsQuery(q, filterHosts) ==
    [must |-> (IF filterHosts # "" THEN Clause(filterHosts) ELSE <<>>)
              \o (IF q.language = "lucene" THEN Clause("lucene") ELSE <<>>),
     filter |-> (IF q.language = "kuery" /\ q.parses THEN Clause("kuery") ELSE <<>>)
                \o filtersToESQueries(q.filters, FALSE) \o Clause("range"),
     mustNot |-> filtersToESQueries(q.filters, TRUE)]

-----------------------------------------------------------------------------
(* Kibana.  FindSO asks for the next page while total >= page*perPage, so  *)
(* an incomplete last page is not asked for.  It gives up everything when  *)
(* a request fails, and the rest when a reply does not parse.              *)
Pages(total) == IF total \div PerPage > 1 THEN total \div PerPage ELSE 1

FindSO(replies) ==
    LET good == {i \in 0..Len(replies) : \A j \in 1..i : replies[j] = "ok"}
        n == Max(good)
    IN  IF n < Len(replies) /\ replies[n + 1] = "down" THEN <<>>
        ELSE SubSeq(StoredQueries, 1, Min({Len(StoredQueries), n * PerPage}))

RetrieveStoredQueries(replies, titles) ==
    Selected(FindSO(replies), {q \in ToSet(StoredQueries) : titles = {} \/ q.title \in titles})

(* Meta of a filter is taken without a check. *)
ExtractIndexIdsPanics(q) == \E f \in ToSet(q.filters) : f.index = "noMeta"
ExtractIndexIds(q) == {f.index : f \in ToSet(q.filters)} \ {"nil"}
GetDefaultIndexID(q) == IF q.defaultIndex = "" THEN {} ELSE {q.defaultIndex}

(* The titles of the patterns that are resolved; none means every index. *)
RetrieveIndexTitles(q) ==
    LET ids == IF ExtractIndexIds(q) # {} THEN ExtractIndexIds(q) ELSE GetDefaultIndexID(q)
    IN  ids \cap q.resolved

-----------------------------------------------------------------------------
(* Elasticsearch.  A page has buckets and a next key, by default the last  *)
(* bucket's; a page that fails ends the loop.                              *)
getAfterKey(page) == page.afterKey \/ page.buckets # <<>>

LastPage(pages) ==
    LET ends == {i \in DOMAIN pages : ~pages[i].ok \/ ~getAfterKey(pages[i])}
    IN  IF ends = {} THEN Len(pages) ELSE Min(ends)

(* An error without the expected body panics. *)
parseSearchResponsePanics(pages) == \E i \in 1..LastPage(pages) : pages[i].odd
Buckets(pages) ==
    FlattenSeq([i \in 1..LastPage(pages) |-> IF pages[i].ok THEN pages[i].buckets ELSE <<>>])

GetHosts(pages) == Buckets(pages)
CountHits(pages) ==
    LET b == Buckets(pages)
    IN  [h \in {x.host : x \in ToSet(b)} |->
            b[Max({i \in DOMAIN b : b[i].host = h})].docs]

(* A request that gets no answer at all is an error, which drops what the  *)
(* pages before it counted; an error as the answer only ends the pages.    *)
CountFails(pages) == pages[LastPage(pages)].down

(* Field capabilities: those of the configured server, or none when the   *)
(* request fails.  A field is taken as it is or with .keyword.             *)
IsAggregatable(cfg) == {cfg.aggregatable, {}}
Keyword(caps, field) == IF field \in caps \/ field[2] THEN field ELSE <<field[1], TRUE>>

(* The fields initEsHosts takes, if they are aggregatable: asked once as   *)
(* configured and, if that does not do, again with .keyword.               *)
AggregatableFields(cfg, caps, again) ==
    LET host == Keyword(caps, cfg.hostField)
        group == Keyword(caps, cfg.groupField)
        changed == host # cfg.hostField \/ (~cfg.groupNameByUser /\ group # cfg.groupField)
        all == IF cfg.groupNameByUser THEN {host} ELSE {host, group}
    IN  IF changed /\ ~(all \subseteq again) THEN {} ELSE {<<host, group>>}

(* They are kept in the configuration.                                     *)
WithFields(cfg, byUser, fields) ==
    [cfg EXCEPT !.hostField = fields[1], !.groupField = IF byUser THEN @ ELSE fields[2]]

(* The hosts of the buckets; a group name given by the user is read last.  *)
initEsHosts(byUser, groupField, pages) ==
    LET keys == ToSet(GetHosts(pages))
        groups(h) == IF byUser THEN {groupField[1]} ELSE {k.group : k \in {k \in keys : k.host = h}} \ {"nil"}
    IN  [h \in {k.host : k \in keys} |-> [groups |-> groups(h)]]

initGwHosts == [h \in DOMAIN GwHosts |-> [groups |-> GwHosts[h]]]

-----------------------------------------------------------------------------
(* Hosts of GroundWork the first time, hosts of earlier rounds, and the    *)
(* hosts of Elasticsearch, later ones over earlier ones; no hits yet.      *)
KnownHosts(previous, first) ==
    Over(IF first THEN initGwHosts ELSE Nothing, [h \in DOMAIN previous |-> [groups |-> previous[h].groups]])

initMonitoringState(metrics, known, esHosts) ==
    LET hosts == Over(known, esHosts)
    IN  [metrics |-> metrics,
         hosts |-> [h \in DOMAIN hosts |-> [groups |-> hosts[h].groups, services |-> [m \in metrics |-> 0]]]]

\* Mutant of updateHosts: the count of a query goes to every service of a host.
updateHostsByAll(hosts, values, query) ==
    [h \in DOMAIN hosts |->
        [groups |-> hosts[h].groups,
         services |-> [m \in DOMAIN hosts[h].services |->
                         IF h \in DOMAIN values THEN values[h] ELSE hosts[h].services[m]]]]

updateHosts(hosts, values, query) ==
    [h \in DOMAIN hosts |->
        [groups |-> hosts[h].groups,
         services |-> [m \in DOMAIN hosts[h].services |->
                         IF m = query /\ h \in DOMAIN values THEN values[h] ELSE hosts[h].services[m]]]]

(* A count, as the history has it.                                         *)
Triples(values, query) == {<<h, query, values[h]>> : h \in DOMAIN values}

(* Groups by host; kept in a copy of the state only, so that the checksum  *)
(* never sees them.                                                        *)
buildGroups(hosts) ==
    [g \in (UNION {hosts[h].groups : h \in DOMAIN hosts}) \ {""} |-> {h \in DOMAIN hosts : g \in hosts[h].groups}]
getInventoryHashSum(state) == <<DOMAIN state.hosts, state.metrics>>

toTransitResources(state) ==
    [h \in DOMAIN state.hosts |->
        [m \in DOMAIN state.hosts[h].services \cap state.metrics |-> state.hosts[h].services[m]]]

-----------------------------------------------------------------------------
NoState == [metrics |-> {}, hosts |-> Nothing]
NoConf == [metrics |-> {}]
Load == "config"

monitoringState == elStates[elCurrent]

ElActive == {r \in ElRounds : elPhase[r] # "idle"}
ElOverlap == {r \in ElActive : elLoad = "state" \/ \E s \in ElActive : s # r}

(* connector.monitoringState is made by x; the maps nobody holds are gone. *)
Assign(x, state) ==
    /\ elCurrent' = x
    /\ elStates' = [y \in DOMAIN elStates |->
                        IF y = x THEN state ELSE IF y \in ElActive THEN elStates[y] ELSE NoState]

(* A round is over: it returns, or it panics and StartPeriodic recovers.   *)
ElEnd(r) ==
    /\ elPhase' = [elPhase EXCEPT ![r] = "idle"]
    /\ elConf' = [elConf EXCEPT ![r] = NoConf]
    /\ elFresh' = [elFresh EXCEPT ![r] = NoState]
    /\ elTodo' = [elTodo EXCEPT ![r] = <<>>]
    /\ elCounted' = [elCounted EXCEPT ![r] = {}]
    /\ elStates' = IF elCurrent = r THEN elStates ELSE [elStates EXCEPT ![r] = NoState]

ElInit ==
    /\ elConfig = NoConf /\ lucene = "" /\ doOnce = FALSE
    /\ elStates = [x \in ElRounds \cup {Load} |-> NoState] /\ elCurrent = Load
    /\ elLoad = "idle" /\ elNewConfig = NoConf /\ elNewState = NoState
    /\ elStarts = 0
    /\ elPhase = [r \in ElRounds |-> "idle"] /\ elConf = [r \in ElRounds |-> NoConf]
    /\ elFresh = [r \in ElRounds |-> NoState] /\ elTodo = [r \in ElRounds |-> <<>>]
    /\ elCounted = [r \in ElRounds |-> {}] /\ elMixed = {} /\ elAsked = <<>>
    /\ elChksum = <<>> /\ elInventory = <<{}, {}>> /\ elDoubt = FALSE

-----------------------------------------------------------------------------
(* LoadConfig.  The Lucene filter is a package variable, set even if the   *)
(* clients cannot be made.  An odd reply to GetHosts would panic on the    *)
(* task queue, where nothing recovers: the process ends.                   *)
ElLoadConfig(c) ==
    /\ elLoad = "idle" /\ elStarts < MaxElStarts
    /\ elStarts' = elStarts + 1 /\ lucene' = c.filterHosts /\ elAsked' = <<>>
    /\ \/ /\ c.clientsOk
          /\ \E caps, again \in IsAggregatable(c), pages \in HostPages :
                LET cfg == replaceIntervalTemplates(c)
                    known == KnownHosts(Nothing, ~doOnce)
                    fields == AggregatableFields(cfg, caps, again)
                IN  \/ /\ fields = {} /\ elNewConfig' = cfg
                       /\ elNewState' = initMonitoringState(cfg.metrics, known, Nothing)
                    \/ /\ ~parseSearchResponsePanics(pages)
                       /\ \E f \in fields :
                            /\ elNewConfig' = WithFields(cfg, cfg.groupNameByUser, f)
                            /\ elNewState' = initMonitoringState(cfg.metrics, known,
                                                initEsHosts(cfg.groupNameByUser, cfg.groupField, pages))
          /\ elLoad' = "config" /\ doOnce' = TRUE
       \/ ~c.clientsOk /\ UNCHANGED <<elLoads, doOnce>>
    /\ UNCHANGED <<elConfig, elStates, elCurrent, elPhase, elConf, elFresh, elTodo, elCounted, elSends>>

LoadedConfig ==
    /\ elLoad = "config" /\ elLoad' = "state"
    /\ elConfig' = elNewConfig /\ elNewConfig' = NoConf /\ elAsked' = <<>>
    /\ UNCHANGED <<lucene, elStates, elCurrent, doOnce, elNewState, elStarts, elPhase, elConf, elFresh, elTodo,
                   elCounted, elSends>>

LoadedState ==
    /\ elLoad = "state" /\ elLoad' = "idle"
    /\ Assign(Load, elNewState) /\ elNewState' = NoState /\ elAsked' = <<>>
    /\ UNCHANGED <<elConfig, lucene, doOnce, elNewConfig, elStarts, elPhase, elConf, elFresh, elTodo, elCounted, elSends>>

-----------------------------------------------------------------------------
(* periodicHandler and CollectMetrics: a state is made from the hosts of   *)
(* the current one.                                                        *)
ElCollectMetrics(r) ==
    /\ elPhase[r] = "idle" /\ elStarts < MaxElStarts
    /\ monitoringState.metrics # {}
    /\ elStarts' = elStarts + 1 /\ doOnce' = TRUE /\ elAsked' = <<>>
    /\ elPhase' = [elPhase EXCEPT ![r] = "hosts"]
    /\ elConf' = [elConf EXCEPT ![r] = elConfig]
    /\ elFresh' = [elFresh EXCEPT ![r] = [metrics |-> elConfig.metrics,
                                          hosts |-> KnownHosts(monitoringState.hosts, ~doOnce)]]
    /\ UNCHANGED <<elConfig, lucene, elStates, elCurrent, elLoads, elTodo, elCounted, elSends>>

(* The fields found are written to connector.config, whatever it is now.   *)
RetrieveHosts(r) ==
    /\ elPhase[r] = "hosts" /\ elAsked' = <<>>
    /\ \E caps, again \in IsAggregatable(elConf[r]), pages \in HostPages :
       LET byUser == elConf[r].groupNameByUser
           fields == AggregatableFields(elConf[r], caps, again)
           made(esHosts) ==
                /\ elPhase' = [elPhase EXCEPT ![r] = "assign"]
                /\ elFresh' = [elFresh EXCEPT ![r] =
                                    initMonitoringState(elFresh[r].metrics, elFresh[r].hosts, esHosts)]
                /\ elConf' = [elConf EXCEPT ![r] = NoConf]
                /\ UNCHANGED <<elStates, elTodo, elCounted>>
       IN  \/ fields = {} /\ made(Nothing) /\ UNCHANGED elConfig
           \/ \E f \in fields :
                /\ elConfig' = WithFields(elConfig, byUser, f)
                /\ IF parseSearchResponsePanics(pages) THEN ElEnd(r)
                   ELSE made(initEsHosts(byUser, elConfig.groupField, pages))
    /\ UNCHANGED <<lucene, elCurrent, doOnce, elLoads, elStarts, elSends>>

AssignState(r) ==
    /\ elPhase[r] = "assign" /\ elAsked' = <<>>
    /\ Assign(r, elFresh[r])
    /\ elPhase' = [elPhase EXCEPT ![r] = "views"]
    /\ elFresh' = [elFresh EXCEPT ![r] = NoState]
    /\ UNCHANGED <<elConfig, lucene, doOnce, elLoads, elStarts, elConf, elTodo, elCounted, elSends>>

(* The views of the configuration there is now, into the state there is    *)
(* now.                                                                    *)
CollectViews(r) ==
    /\ elPhase[r] = "views" /\ elAsked' = <<>>
    /\ elPhase' = [elPhase EXCEPT ![r] = "queries"]
    /\ elStates' = [elStates EXCEPT ![elCurrent] = [metrics |-> monitoringState.metrics \cup elConfig.metrics,
                                                    hosts |-> monitoringState.hosts]]
    /\ \E replies \in [1..Pages(Len(StoredQueries)) -> KibanaReplies] :
          elTodo' = [elTodo EXCEPT ![r] = IF elConfig.metrics = {} THEN <<>>
                                          ELSE RetrieveStoredQueries(replies, elConfig.metrics)]
    /\ UNCHANGED <<elConfig, lucene, elCurrent, doOnce, elLoads, elStarts, elConf, elFresh, elCounted, elSends>>

(* A stored query is counted into the state there is now.  A filter        *)
(* without meta, a time that is not one, an odd reply, or a host field     *)
(* that cannot be aggregated (CountHitsForHost takes the copy of a query   *)
(* without its Bool) panics; a request that fails ends the collection.     *)
collectStoredQueriesMetrics(r) ==
    /\ elPhase[r] = "queries" /\ elTodo[r] # <<>>
    /\ \E caps \in IsAggregatable(elConfig), pages \in HitPages :
       LET q == Head(elTodo[r])
           window == IF elConfig.override \/ q.timeFilter = <<>> THEN elConfig.timeFilter ELSE q.timeFilter[1]
           aggregatable == elConfig.hostField \in caps
           counts == IF aggregatable THEN CountHits(pages) ELSE Nothing
           panics == \/ ExtractIndexIdsPanics(q) \/ TimePanics(window.from) \/ TimePanics(window.to)
                     \/ IF aggregatable THEN parseSearchResponsePanics(pages) ELSE DOMAIN monitoringState.hosts # {}
       IN  \/ panics /\ ElEnd(r) /\ elAsked' = <<>>
           \/ /\ ~panics
              /\ elAsked' = <<window, ToTimeInterval(window), BuildEsQuery(q, lucene), q>>
              /\ \/ /\ aggregatable /\ CountFails(pages)
                    /\ elTodo' = [elTodo EXCEPT ![r] = <<>>]
                    /\ UNCHANGED <<elStates, elCounted>>
                 \/ /\ ~(aggregatable /\ CountFails(pages))
                    /\ elTodo' = [elTodo EXCEPT ![r] = Tail(elTodo[r])]
                    /\ elStates' = [elStates EXCEPT ![elCurrent] =
                                        [metrics |-> monitoringState.metrics,
                                         hosts |-> updateHosts(monitoringState.hosts, counts, q.title)]]
                    /\ elCounted' = [s \in ElRounds |->
                                        IF s \in ElActive
                                        THEN elCounted[s] \cup Triples(counts, q.title)
                                        ELSE elCounted[s]]
              /\ UNCHANGED <<elPhase, elConf, elFresh>>
    /\ UNCHANGED <<elConfig, lucene, elCurrent, doOnce, elLoads, elStarts, elSends>>

(* The rest of periodicHandler: the inventory is of the round's own state, *)
(* the checksum of the one there is now.                                   *)
ElPeriodicHandler(r) ==
    /\ elPhase[r] = "queries" /\ elTodo[r] = <<>> /\ elAsked' = <<>>
    /\ \E ok \in BOOLEAN :
       LET chk == <<getInventoryHashSum(monitoringState)>>
       IN  /\ elChksum' = chk
           /\ elInventory' = IF chk # elChksum /\ ok THEN getInventoryHashSum(elStates[r]) ELSE elInventory
           /\ elDoubt' = (r \in elMixed \/ IF chk # elChksum THEN ~ok ELSE elDoubt)
    /\ ElEnd(r)
    /\ UNCHANGED <<elConfig, lucene, elCurrent, doOnce, elLoads, elStarts>>

ElRoundStep(r) ==
    \/ ElCollectMetrics(r) \/ RetrieveHosts(r) \/ AssignState(r) \/ CollectViews(r)
    \/ collectStoredQueriesMetrics(r) \/ ElPeriodicHandler(r)

ElNext ==
    /\ \/ \E c \in ElConfigs : ElLoadConfig(c)
       \/ LoadedConfig \/ LoadedState
       \/ \E r \in ElRounds : ElRoundStep(r)
    /\ elMixed' = (elMixed \cap ElActive') \cup ElOverlap'

ElSpec == ElInit /\ [][ElNext]_elVars

-----------------------------------------------------------------------------
(* What a round has to send for a host and a stored query is what was      *)
(* counted for the two since it began, or 0.  A round that nothing         *)
(* overlapped sends 0 only if there was no count; one that another round   *)
(* or a configuration overlapped may send counts of the other, or none,    *)
(* but never those of an earlier round, although hosts stay in the state.  *)
HitsAreOfThisRound ==
    \A r \in ElRounds : elPhase[r] = "queries" =>
        LET sent == toTransitResources(elStates[r])
        IN  \A h \in DOMAIN sent : \A m \in DOMAIN sent[h] :
                LET hits == {c[3] : c \in {c \in elCounted[r] : c[1] = h /\ c[2] = m}}
                IN  IF hits = {} THEN sent[h][m] = 0
                    ELSE sent[h][m] \in hits \cup (IF r \in elMixed THEN {0} ELSE {})

(* A checksum that nobody has reason to doubt is the one of the inventory  *)
(* sent last: its hosts and its metrics are known to the server.           *)
InventoryIsKnown == elChksum # <<>> /\ ~elDoubt => elChksum = <<elInventory>>

(* Every filter of a stored query is applied exactly once, as it is or     *)
(* negated.                                                                *)
FiltersAppliedOnce ==
    elAsked # <<>> =>
        \A f \in ToSet(elAsked[4].filters) :
            LET es == elAsked[3]
            IN  Cardinality({j \in DOMAIN es.filter : es.filter[j].id = f.id})
                    + Cardinality({j \in DOMAIN es.mustNot : es.mustNot[j].id = f.id}) = 1

(* A host that was found stays until a configuration is loaded, so that a  *)
(* host without messages reports 0 hits instead of falling silent.  Only a *)
(* round that another one or a configuration overlapped can drop it, when  *)
(* it assigns a state made from an older one.                              *)
HostsStay ==
    [][LoadedState \/ elCurrent' \in elMixed
        \/ DOMAIN monitoringState.hosts \subseteq DOMAIN monitoringState'.hosts]_elVars

(* Hits are counted by the queries as stored, and reported with the hosts  *)
(* and the inventory they belong to.                                       *)
HitsReported == [](FiltersAppliedOnce /\ HitsAreOfThisRound /\ InventoryIsKnown) /\ HostsStay

(* apiObjects.go: the last character of a relative time is one of seven    *)
(* periods, "M" for months and "m" for minutes.                            *)
PeriodsAreKept ==
    elAsked # <<>> /\ elAsked[1].from.now /\ elAsked[1].from.period \in {"y", "M", "w", "d", "h", "m", "s"} =>
        elAsked[2].start.unit = elAsked[1].from.period
=============================================================================
