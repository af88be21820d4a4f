-------------------------------- MODULE Snmp --------------------------------
(***************************************************************************)
(* The SNMP connector (connectors/snmp).  A round of periodicHandler asks  *)
(* NeDi for devices and interfaces and the devices for counters, builds    *)
(* services out of the counters and the values cached by the rounds        *)
(* before, and sends an inventory when its checksum changed, then the      *)
(* metrics.  Every tick starts a round of its own, and configHandler runs  *)
(* beside the rounds: they share the devices, the cache and the checksum.  *)
(***************************************************************************)
EXTENDS Integers, Sequences, FiniteSets, SequencesExt

CONSTANTS
    SnmpConfigs,    \* configurations: [server, views, mibs, defs], the metrics those of view "interfaces"
    NediReplies,    \* replies of NeDi: table -> set of replies
    NediConf,       \* lines of nedi.conf
    Answered,       \* mibs that devices know
    Counters,       \* values of a counter
    SnRounds,       \* goroutines of periodicHandler
    MaxSnStarts,      \* bound: rounds begun and configurations pushed
    MaxSeconds      \* bound: the clock

ASSUME SnAssumption == Counters \subseteq Int

VARIABLES
    snConfig,       \* connector.config and nediClient.Server
    snPushed,       \* cfgChksum: <<>> or <<the configuration>>
    snHandler,      \* configHandler: steps left
    devices,        \* connector.mState.devices: name -> device
    previousValueCache, \* <<device, interface, mib>> -> [value, ts]
    snChksum,       \* invChksum: <<>> or <<services>>
    snClock,        \* the clock
    snStarts,        \* rounds begun and configurations pushed
    snPhase,        \* round -> "idle", "devices", "interfaces", "services", "interface", "metric"
    snFound,        \* round -> devices of NeDi still to be stored
    snConf,         \* round -> configuration whose views it goes through
    snTodo,         \* round -> names of devices it still visits
    snRange,        \* round -> <<>>: it ranges over devices, or <<a map that was replaced>>
    snAt,           \* round -> device at hand: name, seconds, interfaces left
    snIn,           \* round -> interface at hand: name, metrics left, metric and previous value
    snBuilt,        \* round -> services built
    snInventory,    \* history: services of the inventory sent last
    snSent,         \* history: services given to SendMetrics last
    snBase, snSum,  \* history: <<device, interface, mib>> -> value when deltas began, their sum
    snMixed,        \* history: rounds that overlapped another one or a configuration
    snLost,         \* history: counters set by a mixed round over a value it had not read
    snDoubt         \* history: the last inventory was refused, or sent or compared by a mixed round

snConfVars == <<snConfig, snPushed, snHandler>>
snCounted == <<previousValueCache, snBase, snSum, snLost>>
snSends == <<snChksum, snInventory, snSent, snDoubt>>
snVars == <<snConfVars, devices, snCounted, snSends, snClock, snStarts, snPhase, snFound, snConf, snTodo, snRange,
            snAt, snIn, snBuilt, snMixed>>

Put(f, x, y) == [z \in DOMAIN f \cup {x} |-> IF z = x THEN y ELSE f[z]]
Empty == [x \in {} |-> x]
NoReading == {}

-----------------------------------------------------------------------------
(* NeDi.  A reply has a status and rows, the first one about the system.   *)
(* A row is a map or something else, and "bad" holds the columns of an     *)
(* unsupported type.                                                       *)
executeGet(reply) == reply.status = 200

(* The slice is made with capacity len(response)-1, which panics for "[]". *)
ParsePanics(reply) == reply.json /\ reply.rows = <<>>
parseResponse(reply) ==
    IF reply.json THEN SelectSeq(Tail(reply.rows), LAMBDA r : r.map) ELSE <<>>

(* Type assertions without a check. *)
MonitoredPanics(reply) ==
    ParsePanics(reply) \/ \E r \in ToSet(parseResponse(reply)) : r.bad \cap {"name", "device", "lastok"} # {}

getMonitoredDevices(reply) ==
    {r.device : r \in {r \in ToSet(parseResponse(reply)) : "monip" \notin r.bad}}

parseDevices(reply, monitored) ==
    {r \in ToSet(parseResponse(reply)) : r.bad \cap {"device", "devip", "readcomm"} = {} /\ r.device \in monitored}

(* An interface of unknown status is kept. *)
parseInterfaces(reply) ==
    SelectSeq(parseResponse(reply), LAMBDA r : r.bad \cap {"ifname", "device", "ifidx"} = {})

(* getConnectionString needs a server. *)
getConnectionString == snConfig.server

-----------------------------------------------------------------------------
(* nedi.conf: the first line of the community.  Bytes of passwords are     *)
(* abstracted to bits: the key is rotated by one for every byte.           *)
XORpass(s, k) == [i \in DOMAIN s |-> (s[i] + k[Len(k) - ((i - 1) % Len(k))]) % 2]
NEDI_ENCRYPT_KEY == <<1, 0, 1>>

Decrypt(s) == IF s.hex THEN XORpass(s.bytes, NEDI_ENCRYPT_KEY) ELSE <<>>

GetSecurityData(community) ==
    LET lines == SelectSeq(NediConf, LAMBDA l : l.name = community)
        line == lines[1]
        undecryptable(p) == line.comm = "commsec" /\ p.bytes # <<>> /\ ~p.hex
        pass(p) == IF line.comm = "commsec" THEN Decrypt(p) ELSE p.bytes
    IN  IF lines = <<>> \/ undecryptable(line.apass) \/ undecryptable(line.ppass) THEN NoReading
        ELSE {[name |-> line.name, aprot |-> line.aprot, apass |-> pass(line.apass),
               pprot |-> line.pprot, ppass |-> pass(line.ppass)]}

validate(sec) ==
    /\ sec.name # ""
    /\ sec.aprot # "" => sec.apass # <<>>
    /\ sec.pprot # "" => sec.ppass # <<>>

setupV2c(sec) == validate(sec)
setupV3(sec) == validate(sec) /\ sec.aprot \in {"md5", "sha"} /\ sec.pprot \in {"", "aes", "des"}
setup(sec) == IF sec.aprot # "" THEN setupV3(sec) ELSE setupV2c(sec)

AvailableMetrics ==
    {"ifSpeed", "ifInErrors", "ifOutErrors", "ifInDiscards", "ifOutDiscards",
     "ifInOctets", "ifOutOctets", "ifHCInOctets", "ifHCOutOctets"}

(* What a device answers: <<mib, index>> -> counter.  A mib whose walk     *)
(* failed is left out, the others are asked after a reconnect; a value of  *)
(* an unsupported type counts as 0.                                        *)
GetSnmpData(indexes) == UNION {[walked \X indexes -> Counters] : walked \in SUBSET (Answered \cap AvailableMetrics)}

-----------------------------------------------------------------------------
(* What is read of a configuration and of the cache. *)
NoConfig == [server |-> FALSE, views |-> {}, mibs |-> Empty, defs |-> {}]
Interfaces == "interfaces"

(* Views that are not supported give no metrics. *)
metricDefinitions(c) == IF Interfaces \in c.views THEN c ELSE NoConfig

isDelta(def) == def = "Delta"
makeCK(d, i, mib) == <<d, i, mib>>

NonMibMetrics ==
    [bytesPerSecondIn |-> <<"ifHCInOctets", "ifInOctets">>,
     bytesPerSecondOut |-> <<"ifHCOutOctets", "ifOutOctets">>]

(* A rate divides by the seconds since the counter it is made of was       *)
(* cached, the 64-bit one if there is one: a value cached in the same      *)
(* second panics.                                                          *)
RatePanics(r, name) ==
    \E key \in DOMAIN NonMibMetrics \cap snConf[r].defs :
        LET cached == SelectSeq(NonMibMetrics[key],
                                LAMBDA m : makeCK(snAt[r].name, name, m) \in DOMAIN previousValueCache)
        IN  cached # <<>> /\ previousValueCache[makeCK(snAt[r].name, name, cached[1])].ts = snAt[r].ts

Defined(r, iface) == {m \in DOMAIN iface.metrics : m \in DOMAIN snConf[r].mibs}

(* A Delta is made only of a value that was cached. *)
previous(r, ck) ==
    IF isDelta(snConf[r].mibs[ck[3]]) /\ ck \in DOMAIN previousValueCache THEN {previousValueCache[ck].value} ELSE {}

\* Mutant of Cached: only Delta metrics are remembered.
CachedDeltas(ck, value, ts, def) ==
    IF isDelta(def) THEN Put(previousValueCache, ck, [value |-> value, ts |-> ts]) ELSE previousValueCache

Cached(ck, value, ts, def) == Put(previousValueCache, ck, [value |-> value, ts |-> ts])

snmpInventoryHashSum(devs) ==
    UNION {{<<d, devs[d].interfaces[i].name>> : i \in DOMAIN devs[d].interfaces} : d \in DOMAIN devs}

Device(ifs, sec) == [interfaces |-> ifs, secData |-> sec]
Interface(row, data, i) ==
    [index |-> i, name |-> row.ifname, metrics |-> [m \in {c[1] : c \in DOMAIN data} |-> data[<<m, i>>]]]

At(d, ts, left) == [name |-> d, ts |-> ts, left |-> left]
In(name, metrics, mib, prev) == [name |-> name, metrics |-> metrics, mib |-> mib, prev |-> prev]
NoDevice == At("", 0, {})
NoInterface == In("", Empty, "", {})

Set(f, r, x) == [f EXCEPT ![r] = x]

-----------------------------------------------------------------------------
SnInit ==
    /\ snConfig = NoConfig /\ snPushed = <<>> /\ snHandler = <<>>
    /\ devices = Empty /\ previousValueCache = Empty /\ snChksum = <<>> /\ snClock = 0 /\ snStarts = 0
    /\ snPhase = [r \in SnRounds |-> "idle"] /\ snFound = [r \in SnRounds |-> {}]
    /\ snConf = [r \in SnRounds |-> NoConfig] /\ snTodo = [r \in SnRounds |-> {}]
    /\ snRange = [r \in SnRounds |-> <<>>] /\ snAt = [r \in SnRounds |-> NoDevice]
    /\ snIn = [r \in SnRounds |-> NoInterface] /\ snBuilt = [r \in SnRounds |-> {}]
    /\ snInventory = {} /\ snSent = {} /\ snBase = Empty /\ snSum = Empty
    /\ snMixed = {} /\ snLost = {} /\ snDoubt = FALSE

(* configHandler.  LoadConfig is called for a configuration that differs   *)
(* from the last one; without a server it keeps the server and the devices *)
(* it had.                                                                 *)
LoadConfig(c) ==
    /\ snHandler = <<>> /\ snStarts < MaxSnStarts
    /\ snStarts' = snStarts + 1 /\ snPushed' = <<c>>
    /\ \/ /\ snPushed = <<c>> /\ snHandler' = <<"force">> /\ UNCHANGED snConfig
       \/ /\ snPushed # <<c>> /\ snHandler' = IF c.server THEN <<"init", "force">> ELSE <<"force">>
          /\ snConfig' = [server |-> c.server \/ snConfig.server, views |-> c.views, mibs |-> c.mibs, defs |-> c.defs]
    /\ UNCHANGED <<devices, snCounted, snSends, snClock, snPhase, snFound, snConf, snTodo, snRange, snAt, snIn,
                   snBuilt>>

(* Rounds that range over the map of the devices. *)
Ranging == {r \in SnRounds : snPhase[r] \notin {"idle", "devices"} /\ snRange[r] = <<>>}

(* mState.Init: a round goes on with the map it ranges over. *)
InitState ==
    /\ snHandler # <<>> /\ Head(snHandler) = "init" /\ snHandler' = Tail(snHandler)
    /\ devices' = Empty
    /\ snRange' = [r \in SnRounds |-> IF r \in Ranging THEN <<devices>> ELSE snRange[r]]
    /\ UNCHANGED <<snConfig, snPushed, snCounted, snSends, snClock, snStarts, snPhase, snFound, snConf, snTodo,
                   snAt, snIn, snBuilt>>

ForceInventory ==
    /\ snHandler # <<>> /\ Head(snHandler) = "force" /\ snHandler' = Tail(snHandler)
    /\ snChksum' = <<>>
    /\ UNCHANGED <<snConfig, snPushed, devices, snCounted, snInventory, snSent, snDoubt, snClock, snStarts, snPhase,
                   snFound, snConf, snTodo, snRange, snAt, snIn, snBuilt>>

(* The round ends: what it holds is dropped.  An error of NeDi is logged,  *)
(* a panic is recovered by StartPeriodic.                                  *)
EndRound(r) ==
    /\ snPhase' = Set(snPhase, r, "idle") /\ snFound' = Set(snFound, r, {}) /\ snConf' = Set(snConf, r, NoConfig)
    /\ snTodo' = Set(snTodo, r, {}) /\ snRange' = Set(snRange, r, <<>>)
    /\ snAt' = Set(snAt, r, NoDevice) /\ snIn' = Set(snIn, r, NoInterface) /\ snBuilt' = Set(snBuilt, r, {})

(* A tick: the round asks NeDi for the devices that are monitored. *)
CollectMetrics(r) ==
    /\ snPhase[r] = "idle" /\ snConfig.views # {} /\ snStarts < MaxSnStarts
    /\ snStarts' = snStarts + 1
    /\ \E mon \in NediReplies.monitoring, dev \in NediReplies.devices :
        LET monitored == getMonitoredDevices(mon)
            rows == IF monitored = {} THEN {} ELSE parseDevices(dev, monitored)
        IN  IF \/ ~getConnectionString \/ ~executeGet(mon) \/ MonitoredPanics(mon)
               \/ monitored # {} /\ (~executeGet(dev) \/ ParsePanics(dev))
            THEN EndRound(r)
            ELSE /\ snPhase' = Set(snPhase, r, "devices")
                 /\ snFound' = Set(snFound, r, {[name |-> row.device, secData |-> GetSecurityData(row.readcomm)] : row \in rows})
                 /\ UNCHANGED <<snConf, snTodo, snRange, snAt, snIn, snBuilt>>
    /\ UNCHANGED <<snConfVars, devices, snCounted, snSends, snClock>>

(* A locked write to the map of the devices.  A name that is new to it may *)
(* or may not be met by the rounds that range over the map just now.       *)
Store(d, device, todo) ==
    /\ devices' = Put(devices, d, device)
    /\ \E met \in SUBSET (IF d \in DOMAIN devices THEN {} ELSE Ranging) :
        snTodo' = [r \in SnRounds |-> IF r \in met THEN todo[r] \cup {d} ELSE todo[r]]

(* Devices are never taken out of the state; those NeDi names lose their   *)
(* interfaces till they are asked.                                         *)
AddDevice(r, found) ==
    /\ snPhase[r] = "devices" /\ found \in snFound[r]
    /\ snFound' = Set(snFound, r, snFound[r] \ {found})
    /\ Store(found.name, Device(Empty, found.secData), snTodo)
    /\ UNCHANGED <<snConfVars, snCounted, snSends, snClock, snStarts, snPhase, snConf, snRange, snAt, snIn, snBuilt>>

(* A range statement takes the map that the state has now. *)
RangeOver(r, phase) ==
    /\ snPhase' = Set(snPhase, r, phase)
    /\ snTodo' = Set(snTodo, r, DOMAIN devices) /\ snRange' = Set(snRange, r, <<>>)
    /\ UNCHANGED <<snConfVars, devices, snCounted, snSends, snClock, snStarts, snFound, snAt, snIn, snBuilt>>
Ranged(r) == IF snRange[r] = <<>> THEN devices ELSE snRange[r][1]

(* The views of the configuration there is by now. *)
BeginViews(r) ==
    /\ snPhase[r] = "devices" /\ snFound[r] = {}
    /\ snConf' = Set(snConf, r, metricDefinitions(snConfig))
    /\ RangeOver(r, IF Interfaces \in snConfig.views THEN "interfaces" ELSE "services")

(* A device that cannot be asked keeps the interfaces it has.  One that    *)
(* was asked is written to the map the state has by then.                  *)
collectInterfacesMetrics(r, d) ==
    /\ snPhase[r] = "interfaces" /\ d \in snTodo[r]
    /\ \E reply \in NediReplies.interfaces :
        LET rows == parseInterfaces(reply)
            row(i) == rows[CHOOSE n \in DOMAIN rows :
                            rows[n].ifidx = i /\ \A m \in DOMAIN rows : rows[m].ifidx = i => m <= n]
            indexes == {x.ifidx : x \in ToSet(rows)}
            left == Set(snTodo, r, snTodo[r] \ {d})
            sec == Ranged(r)[d].secData
        IN  \/ /\ getConnectionString /\ executeGet(reply) /\ ParsePanics(reply)
               /\ EndRound(r) /\ UNCHANGED devices
            \/ /\ ~(getConnectionString /\ executeGet(reply) /\ ParsePanics(reply))
               /\ \/ snTodo' = left /\ UNCHANGED devices
                  \/ /\ getConnectionString /\ executeGet(reply) /\ rows # <<>> /\ \E s \in sec : setup(s)
                     /\ \E data \in GetSnmpData(indexes) :
                            Store(d, Device([i \in indexes |-> Interface(row(i), data, i)], sec), left)
               /\ UNCHANGED <<snPhase, snFound, snConf, snRange, snAt, snIn, snBuilt>>
    /\ UNCHANGED <<snConfVars, snCounted, snSends, snClock, snStarts>>

retrieveMonitoredResources(r) ==
    /\ snPhase[r] = "interfaces" /\ snTodo[r] = {}
    /\ RangeOver(r, "services") /\ UNCHANGED snConf

(* retrieveMonitoredServices of a device, as it is when it is visited.     *)
(* The clock, which is read only here, may have gone on.                   *)
retrieveMonitoredServices(r, d) ==
    /\ snPhase[r] = "services" /\ snAt[r].left = {} /\ d \in snTodo[r]
    /\ LET ifs == Ranged(r)[d].interfaces
       IN  \E ts \in {t \in {snClock, snClock + 1} : t <= MaxSeconds} :
            snClock' = ts /\ snAt' = Set(snAt, r, At(d, ts, {ifs[i] : i \in DOMAIN ifs}))
    /\ snTodo' = Set(snTodo, r, snTodo[r] \ {d})
    /\ UNCHANGED <<snConfVars, devices, snCounted, snSends, snStarts, snPhase, snFound, snConf, snRange, snIn,
                   snBuilt>>

VisitInterface(r, iface) ==
    /\ snPhase[r] = "services" /\ iface \in snAt[r].left
    /\ \/ RatePanics(r, iface.name) /\ EndRound(r)
       \/ /\ ~RatePanics(r, iface.name)
          /\ snPhase' = Set(snPhase, r, "interface")
          /\ snAt' = Set(snAt, r, At(snAt[r].name, snAt[r].ts, snAt[r].left \ {iface}))
          /\ snIn' = Set(snIn, r, In(iface.name, [m \in Defined(r, iface) |-> iface.metrics[m]], "", {}))
          /\ UNCHANGED <<snFound, snConf, snTodo, snRange, snBuilt>>
    /\ UNCHANGED <<snConfVars, devices, snCounted, snSends, snClock, snStarts>>

(* previousValueCache.Get *)
GetPrevious(r, m) ==
    /\ snPhase[r] = "interface" /\ m \in DOMAIN snIn[r].metrics
    /\ snPhase' = Set(snPhase, r, "metric")
    /\ snIn' = Set(snIn, r, In(snIn[r].name, snIn[r].metrics, m, previous(r, makeCK(snAt[r].name, snIn[r].name, m))))
    /\ UNCHANGED <<snConfVars, devices, snCounted, snSends, snClock, snStarts, snFound, snConf, snTodo, snRange,
                   snAt, snBuilt>>

(* previousValueCache.SetDefault.  A delta is the value less the one that  *)
(* was read.                                                               *)
SetDefault(r) ==
    /\ snPhase[r] = "metric"
    /\ LET in == snIn[r]
           ck == makeCK(snAt[r].name, in.name, in.mib)
           value == in.metrics[in.mib]
           stale == \E p \in in.prev : previousValueCache[ck].value # p
       IN  /\ previousValueCache' = Cached(ck, value, snAt[r].ts, snConf[r].mibs[in.mib])
           /\ \/ /\ in.prev = {}
                 /\ snBase' = Put(snBase, ck, value) /\ snSum' = Put(snSum, ck, 0) /\ snLost' = snLost \ {ck}
              \/ \E p \in in.prev :
                 /\ snSum' = Put(snSum, ck, snSum[ck] + value - p) /\ UNCHANGED snBase
                 /\ snLost' = IF r \in snMixed /\ stale THEN snLost \cup {ck} ELSE snLost
           /\ snIn' = Set(snIn, r, In(in.name, [m \in DOMAIN in.metrics \ {in.mib} |-> in.metrics[m]], "", {}))
    /\ snPhase' = Set(snPhase, r, "interface")
    /\ UNCHANGED <<snConfVars, devices, snSends, snClock, snStarts, snFound, snConf, snTodo, snRange, snAt, snBuilt>>

(* The service of an interface, of metrics without thresholds (Sampling    *)
(* has those).                                                             *)
SnBuildService(r) ==
    /\ snPhase[r] = "interface" /\ DOMAIN snIn[r].metrics = {}
    /\ snBuilt' = Set(snBuilt, r, snBuilt[r] \cup {<<snAt[r].name, snIn[r].name>>})
    /\ snPhase' = Set(snPhase, r, "services") /\ snIn' = Set(snIn, r, NoInterface)
    /\ UNCHANGED <<snConfVars, devices, snCounted, snSends, snClock, snStarts, snFound, snConf, snTodo, snRange, snAt>>

(* The rest of periodicHandler (ConnectorLoop has its steps).  The         *)
(* checksum of the devices is kept even if the inventory was refused.      *)
SnPeriodicHandler(r) ==
    /\ snPhase[r] = "services" /\ snTodo[r] = {} /\ snAt[r].left = {}
    /\ LET chk == <<snmpInventoryHashSum(devices)>>
       IN  /\ snChksum' = chk
           /\ \E ok \in BOOLEAN :
                /\ snInventory' = IF chk # snChksum /\ ok THEN snBuilt[r] ELSE snInventory
                /\ snDoubt' = (r \in snMixed \/ IF chk # snChksum THEN ~ok ELSE snDoubt)
           /\ snSent' = snBuilt[r]
    /\ EndRound(r)
    /\ UNCHANGED <<snConfVars, devices, snCounted, snClock, snStarts>>

SnRoundStep(r) ==
    \/ CollectMetrics(r)
    \/ \E found \in snFound[r] : AddDevice(r, found)
    \/ BeginViews(r)
    \/ \E d \in snTodo[r] : collectInterfacesMetrics(r, d) \/ retrieveMonitoredServices(r, d)
    \/ retrieveMonitoredResources(r)
    \/ \E iface \in snAt[r].left : VisitInterface(r, iface)
    \/ \E m \in DOMAIN snIn[r].metrics : GetPrevious(r, m)
    \/ SetDefault(r)
    \/ SnBuildService(r)
    \/ SnPeriodicHandler(r)

(* Rounds that run, and those that do not run alone. *)
SnActive == {r \in SnRounds : snPhase[r] # "idle"}
SnOverlap == {r \in SnActive : snHandler # <<>> \/ \E s \in SnActive : s # r}

SnNext ==
    /\ \/ \E c \in SnmpConfigs : LoadConfig(c)
       \/ InitState \/ ForceInventory
       \/ \E r \in SnRounds : SnRoundStep(r)
    /\ snMixed' = (snMixed \cap SnActive') \cup SnOverlap'

SnSpec == SnInit /\ [][SnNext]_snVars

-----------------------------------------------------------------------------
(* A cached value is the one its deltas began with and the deltas made     *)
(* since: no change of a counter is counted twice or missed, whatever the  *)
(* configurations make of the metric.  It is lost only where a round that  *)
(* does not run alone sets a counter that another one set after it had     *)
(* read it.                                                                *)
DeltasAddUp ==
    \A ck \in DOMAIN previousValueCache \ snLost : previousValueCache[ck].value = snBase[ck] + snSum[ck]

(* A service is sent only after an inventory that names it: the checksum   *)
(* of the devices stands for what was built.  This is in doubt after an    *)
(* inventory that was refused and after a round that did not run alone,    *)
(* till a round that does sends an inventory again.                        *)
MetricsInventoried == ~snDoubt => snSent \subseteq snInventory

(* What is sent is what was counted, for services that were announced.     *)
SnmpReports == DeltasAddUp /\ MetricsInventoried
=============================================================================
