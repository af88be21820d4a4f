# TLA+ models of the Transit Connection Generator (TCG)

TCG collects monitoring data (connectors), batches it, stores it in an embedded
NATS JetStream server and delivers it to Groundwork servers. An agent service
runs all control operations through one task queue. The modules here model the
control pipeline, the data path and the connectors; TLC checks them on small
instances, and TLAPS proves the safety of the queue, the batcher, the publisher,
the dispatcher, the agent, the controller, the client and the connectors' loops
for all instances.

## 1. Inventory

| Part (source) | State | Operations | Interaction |
|---|---|---|---|
| Task queue (`taskqueue/taskqueue.go`) | buffered channel, `idx`, debug ring, done channels, alarm timers | PushAsync, PushSync, the worker `runQueue`, alarms | callers are HTTP handlers, connectors, fetch goroutines; handlers are the agent's tasks |
| Batcher (`batcher/batcher.go`) | `buf`, `bufSize`, `maxBytes`, ticker, exit channel | Add, Batch, Clear, Reset, Exit, ticker goroutine | Build, then the handler (`sendMetrics`, `sendEvents`) outside the lock |
| Builders (`batcher/events`, `batcher/metrics`) | locals of one Build | combine, split (`xxl2qq`), pack groups | called by Batch |
| Transit service (`services/transit.go`, `services/nats.go`) | two batchers | SendEvents, SendResourceWithMetrics, SendStates, SynchronizeInventory, downtimes | Put2Nats → `nats.Pub`; the durable handlers take the payload out again |
| NATS server and publisher (`nats/nats.go`) | server, publisher connection, `pub` channel, cancel | StartServer, StopServer, Pub, handlePubchan | stream `tcg-stream` |
| Dispatcher (`nats/dispatcher.go`, `services/nats.go`) | connection, context, `retries`, `duraSeqs`; per fetch goroutine a batch, `done`, `delayRetry` | StartDispatcher, StopDispatcher, fetch, processMsg, the durable handler | JetStream consumer; Groundwork client; StopTransport on the task queue |
| Agent service (`services/agent.go`) | configuration, statuses, Groundwork clients, quit channel | config, exit, resetNats, start/stop of controller, NATS, transport | run by the task worker |
| Controller (`services/controller.go`) | `controller.srv`, authorization cache, two mutexes | start, stop, API handlers, checkAccess | pushes tasks, puts payloads |
| Groundwork client (`sdk/clients`) | tokens and mutexes shared by clients | Connect, requests, one reconnect on 401 | called by the durable handlers, checkAccess and connectors |
| Configuration (`config/config.go`) | configuration in force, file, environment | GetConfig, LoadConnectorDTO | config task, start of the process |
| Connectors library (`connectors/*.go`) | – | BuildMetric, BuildService, synthetic metrics, SendMetrics, StartPeriodic | used by all connectors |
| SNMP, Elastic, Kubernetes, Oracle, Azure, APM connectors | configuration, context and version, checksums, state kept between rounds | config handler, periodic handler, collection | external services; the library; the transit service |
| NSCA and checker connectors | listener, schedule, running jobs | parser, NSCA packets, HTTP entry points, scheduler | transit service |
| Events, server, office connectors | configuration | one conversion per request or round | the library |
| Data model (`sdk/transit`, `sdk/mapping`) | – | typed values, status from thresholds, mappings | everywhere |
| libtransit, gotocjson, logging, tracing | – | bindings, generator | use the services above |

What is hard here: pushes, batches and fetch goroutines interleave with almost
no waiting for each other (the size check of `Add`, the read of `q.idx`, the
swap in `Batch`, a `StopDispatcher` that does not wait, a `controller.srv`
cleared after Shutdown returned, a `POST /start` that replaces clients the
authorization cache still answers for); acks get lost and messages come again; the
retry counter is shared by messages and generations; clients share tokens; a
crash meets the configuration file half written; connector handlers of
overlapping ticks run beside each other and a configuration handler on caches,
states and maps they share, mostly without a lock; rounds of several requests fail half-way. `PROJECT.json` lists these
hazards at their lines with the properties that cover them.

What makes each part correct:

* task queue: each accepted task runs once, in order; a synchronous caller gets
  the result of its own task and always comes back;
* batcher and builders: no payload is lost or handed over twice; a full buffer,
  a tick and Exit flush; a host status is not combined;
* publisher: a message put is stored, waits, or is dropped with a known cause;
* dispatcher: a message is acknowledged only with an outcome; giving up is paid
  for; messages get settled while connected;
* agent, controller: no dispatcher without a server, clients of the loaded
  configuration, no listening server out of reach, exit stops all and signals;
* client, authorization: one login replaces a lost token for all; the cache
  follows the configuration;
* configuration: what is in force is what the next start would load;
* connectors: what is reported is what was measured in this round and for this
  configuration, once, in the right group.

## 2. Modules

| Module | Models | Notes |
|---|---|---|
| `SerialExecutor` | abstract: what the task queue promises | two variables |
| `TaskQueue` | taskqueue.go | a task is the number of its PushAsync call; the unlocked read of `idx`, the send, the store into `idx` and the wrap are separate steps; `AlarmTask` is what the timer's closure captured |
| `Batcher` | batcher.go | a process is a caller or the ticker goroutine; the size check after the unlock is its own step; Build, with the limit of then, may put the payloads it splits ahead of the others; a handler call takes any nonempty prefix of what is left of the batch and may fail |
| `TransitMetrics` | the metrics operations of transit.go, on top of `Batcher` | `ticking` also stands for `BatchMetrics # 0`: config sets both by `Reset` |
| `EventsBuild`, `MetricsBuild` | the builders | one action per iteration; a payload is a model value with a length and its contents |
| `Publisher` | StartServer, StopServer, defineStream, Pub, handlePubchan | every `Pub` has a goroutine; a handler belongs to the context of its start and may outlive it; connection failures are bounded |
| `Dispatcher` | dispatcher.go, Start/StopDispatcher, the durable handler | one durable; a generation is one successful StartDispatcher; the read of the retry count and its write or deletion are separate steps; a message without metadata is refused; the JetStream consumer (`Deliver`, `AckWaitOver`, `Ack`, `Nak`, `Publish`) is external |
| `AgentService` | agent.go with StartServer/StopServer | the running task is the sequence of its remaining steps; statuses are read from the state as `services.go` does |
| `Controller` | startController, the serve goroutine, stopController and its shutdown goroutine | the accesses to `controller.srv` without a lock are steps of their own |
| `ControllerAuth` | checkAccess, authCache, the replacement of the clients by the config task and by a start of the transport | the servers behind a configuration are external: the set of keys they accept; BASIC and GWOS credentials may have the same key |
| `GWClient` | Connect, requests, the reconnect | the server issues tokens, with each login it may end the sessions of before, forgets tokens at any time and answers with any status |
| `TransitPath` | API handler → transit operation → Put2Nats → stream → durable handler → Groundwork request | a payload is its operation, its two lengths and its tracer context; the limit of the stream, compression, headers, legacy messages |
| `Config` | GetConfig, LoadConnectorDTO | options by where they may come from; a step per write; the process dies between any two, a write fails half-way, the password cannot be sealed |
| `TransitData`, `Mapping` | typed values, statuses, filterExtInfo; mappings | operators; numbers in hundredths, integers with a width |
| `Sampling` | BuildMetric, BuildService, expressions, SendMetrics | builds a resource service by service and sends it; values that are not finite; the functions that add a status text and those that add none |
| `ConnectorLoop` | Run and configHandler of each `cmd.go`, StartPeriodic, Start | the kind of connector selects the order of its assignments; ticks overlap, an inventory may be refused |
| `Snmp`, `Elastic`, `Kubernetes`, `Apm` | the connectors' rounds | external answers are chosen from sets; what is kept from round to round is state; rounds (of APM: pulls and requests) of `Snmp`, `Elastic` and `Apm` are goroutines that overlap each other and the configuration handler; of `Kubernetes` one round runs beside configurations |
| `Checks` | NSCA and checker | a line is what the regular expressions tell of it |
| `CloudCollect` | Oracle and Azure | one pass of collectMetrics beside the configuration handler |
| `TaskQueueProofs`, `BatcherProofs`, `AgentServiceProofs` | proofs about the module they are named after (section 4) | the invariants and the shape of plans are theirs |
| `BuildProofs`, `NatsProofs`, `HTTPProofs` | proofs about the two builders; `Publisher` and `Dispatcher`; `Controller`, `ControllerAuth`, `GWClient` and `TransitPath` | |
| `ConnectorLoopProofs`, `ConnectorProofs` | proofs about `ConnectorLoop` and `Config`; `CloudCollect`, `Apm`, `Kubernetes`, `Snmp`, `Elastic` and `Checks` | the lemmas on iterations are in `ConnectorProofs` |
| `MC*` | constants for TLC, and the unions below | no definition is replaced |

Each variable is commented with the field it stands for; the `map` of
`PROJECT.json` gives the lines of each definition. Definitions whose comment
begins with "Mutant of" are wrong variants of the definition that follows: they
are not part of any specification and show that a property can fail.

`MCBatching`, `MCLive`, `MCServices` and `MCConnectors` check several components
in one run. A variable `part` is chosen initially, the chosen component moves
and the others keep an initial state. The components share no variable, so the
reachable states are the sum of those of the components, not the product, and a
property of one component says about it what a run of its own would say.

### Abstractions

* Payloads, messages, tasks and configurations are model values or small
  records. Marshalling of what was unmarshalled does not fail. `maxBytes` is
  positive (`batchMaxBytes: 0` makes the divisions in `xxl2qq` panic; the hazard
  is listed without a property).
* `Batcher` lets Build put payloads that are longer than the limit ahead of
  those that wait to be combined, in any such order, and divide the result
  anyhow. The builders' own order is in `EventsBuild` and `MetricsBuild`.
* `Dispatcher` counts neither time nor delays: AckWait, the 30 minutes of the
  retry entry and the retry delays end at any time. A drained connection is
  closed in one step: acks that still pass while it drains are acks before it.
  That a new durable begins with the last stored message (`DeliverLastPolicy`)
  is the code's choice, taken over as it is.
* `AgentService` has the controller up or down and one class of credentials per
  configuration. The batchers' Reset, Clear and Exit calls of config and exit
  are actions of `Batcher`. A panic on a nil `s.cancel` (StopServer after a
  server whose publisher never connected) ends the model as `crashed`, a
  panicking exitHandler as `hung`; no property hides them.
* `TransitPath` takes the stream as one queue per subject: delivery again, order
  and batching are in `Dispatcher`, `Publisher` and `Batcher`.
* A panic in code that is not recovered (`Publisher`, `Controller`,
  `TransitPath`) is a state of the model after which nothing happens. One that is
  recovered, in rounds by StartPeriodic and in requests by gin, ends its
  goroutine only (`Snmp`, `Elastic`, `Apm`, `ConnectorLoop`).
* A Go program that writes a map while another goroutine reads or writes it may
  be ended by the runtime, or go on. `Apm` has both outcomes; in `Snmp` (the
  devices, which are iterated without the lock) and `Elastic` (the hosts) the
  end of the process is left out, as what was sent before it is in the model.
* `Snmp`: a device is asked and written in one step, and read whole when it is
  visited; the tail of periodicHandler is one step (its own steps are in
  `ConnectorLoop`). `Elastic`: the counts of one query are entered in one step,
  `connector.monitoringState` is replaced whole, and a reply to LoadConfig that
  makes it panic ends the process. `Apm`: a metric is placed in one step; what
  the two unlocked maps hold is left out, since nothing that is sent depends on
  it. `Kubernetes`: rounds do not overlap each other (`ConnectorLoop` has the
  overlap, with the inventory and its checksum); `kapi` is taken away at any
  time by a configuration.
* In `CloudCollect` the check of the version and the send that follows it are
  one step: a configuration that arrives between them is not told apart from one
  that arrives after the send.
* Regular expressions, templates, MIB trees, query texts and wire formats are
  what their users look at: matches, names, fields.

## 3. Runs

| Run | Instance | Shows |
|---|---|---|
| `taskqueue` | queue: 2 callers, capacity 2, `idx` modulo 3, 3 pushes, alarms. Loops: 6 kinds of connector, 2 configurations, 2 handlers beside each other, 1 tick after the first call of each loop, inventories refused | `Fifo`, `AcceptedOnce`, `SyncResult`, `DebuggerSeesLastTasks`, `IdxDiffersWithoutOverlap`, `AlarmForItsTask`. Three pushes fill the channel, wrap `idx` (the wrap is at 3 instead of 256) and overflow the queue; callers and handlers are symmetric. `LoopsFollowConfig`, `ExitReachesLoops` |
| `dispatcher` | 2 messages, 2 generations, fetches of 2, 1 delay, 1 expiry of the retry entry | `AckedHasOutcome` (with the types and the range of the retry index), `OrderLostOnlyAfterDisturbance`, `GiveUpsPaid`. Two generations are what overlapping needs; one delay is the shortest nonempty list |
| `batching` | Batcher: 2 callers and the ticker, 2 payloads, limits 1 and 2, 2 calls. Builders: every sequence of up to four different payloads of 7 kinds each, limits 1–3 and 2–3 | `CarriedOnce` (lost, doubled), `LimitHeld` (size, flush over the limit), `InOrderWithoutOverlap`, `Flushes` (by tick, by Exit); `EventsKept` (conservation, limit), `OnlySplitsOvertake`; `MetricsKept` (services, groups, tokens), `StatusIsABarrier` |
| `live` | the task queue as above without alarms; the dispatcher with 1 generation, 2 delays, 2 expiries | `PushReturns`; `SerialExecution`, the refinement of `SerialExecutor` with its liveness; `EverythingSettled` |
| `services` | agent: 6 configurations (good, rejected, disabled, unconfigured, without connection, other NATS options) and a malformed one, 3 tasks (configure, disturb, configure: one configuration with other NATS options starts all); client: 2 senders, 3 requests, 2 expiries; publisher: 2 messages, 2 starts, 2 failures, 3 sizes of the disk; controller: 3 goroutines, 3 stops; authorization: 2 requests, 3 checks, a key of BASIC and one of both schemes, 2 configurations | `TransportFollowsConfig` (server before transport, clients of the loaded configuration, config and reset give back what they stopped), `QuitsStopped`, `ReconnectIsEnough`, `PubKept`, `PubDelivers`, `NoServerOutOfReach`, `AuthFollowsConfig`, `CallsReturn` |
| `connectors` | path: 2 requests, 2 configurations; config: 2 loads, 3 starts of the process; sampling: 2 services of 2 metrics; SNMP and Elastic: 2 rounds beside each other, 4 rounds and configurations together; APM: 2 goroutines, 2 configurations, 2 pulls or requests; the others: 2–3 configurations each; answers from the sets in `MCConnectors` and `MCElastic`, failures included | `WireIsReadable`, `ConfigSurvives`, `SamplesFaithful`, `SnmpReports`, `HitsReported`, `ReplicasGrouped`, `ChecksReported`, `NewestOfThisConfig`, `ApmReports` |
| `states_order`, `metrics_split`, `agent_resume`, `controller_restart`, `legacy_flow`, `months` | small instances of one module | the findings below |

What some properties say, in short:

* `IdxDiffersWithoutOverlap`: a push that read `q.idx` after the one before it
  had stored its own, and that nobody overtook, has another Idx than that one.
  A read between a send and its store may repeat the Idx.
* `InOrderWithoutOverlap`: while batches do not overlap, payloads are handed over
  in the order of Add, except that one that is split may overtake others of its
  batch.
* `GiveUpsPaid`: a message is given up after more errors than there are delays,
  except by a generation that read the count before another one deleted it.
* `ReconnectIsEnough`: a request fails for its credentials after its reconnect
  only if the server forgot its tokens meanwhile, or ended its session for the
  login of another client after it was sent again; a token is replaced by one
  login. That such a login can come late, from a client whose 401 is older than
  the last login, is what the read of `prevToken` outside the mutex allows. `CallsReturn`: requests, starts and stops of the controller end.
* `PubKept`: a message is waiting, in the channel, in a handler, stored or
  dropped by a full stream or a closed publisher, in one place; order changes
  only around a failure. `PubDelivers`: it gets out while a handler lives.
* `NoServerOutOfReach`: the server that listens is the one `controller.srv`
  names, and after a stop none listens.
* `AuthFollowsConfig`: a request with accepted credentials is let in, unless a
  request of the other scheme with the same key was quicker; the cache holds only
  what the clients in use accepted, but for the answers that were under way when
  it was flushed, and for those of a BASIC client that a start of the transport
  replaced without a flush.
* `WireIsReadable`: encodings are announced, placeholders of a context made
  before the agent was configured are replaced (but in messages compressed for
  the stream, a TODO in the code), no payload arrives at a wrong entry point.
* `ConfigSurvives`: the environment wins, is not written to the file, and a
  restart loads what was in force, unless the write failed or the process died
  in it; if the password could not be sealed the environment is not applied.
* `SamplesFaithful`: a service has the worst status of its metrics; what is sent
  is what was built, or its loss has a known cause (a measured value that is not
  finite, a division by zero, an expression that names a double alone).
* `LoopsFollowConfig`, `ExitReachesLoops`: the loops of one context run; as long
  as no two goroutines of the connector run at once, metrics are sent for hosts
  whose inventory was announced, or was refused: its checksum is kept all the
  same (a configuration task whose last step starts the loop does not overlap it); after exit no loop goes on.
* `SnmpReports`: the deltas add up to the counters, unless a round that did not
  run alone wrote over a value that another one had cached since it read it;
  services were announced, until an inventory is refused or a round does not run
  alone.
* `HitsReported`: filters are applied once; a round alone sends the hits it
  counted, one that is overlapped may send those of the other or none, but never
  those of an earlier round; hosts of a failed round stay, unless a round that
  was overlapped assigns a state made from an older one.
* `ReplicasGrouped`: each host is in its group once, with all its replicas.
* `ChecksReported`: each measurement ends in one service, the schedule is the one
  configured. Names that hold a colon are excluded: the parser's keys collide.
* `NewestOfThisConfig`: the newest sample of a series, never for a configuration
  that was replaced before the check.
* `ApmReports`: groups are kept, defaults are those of the resource asked while
  the resources stay; only mappings that do not decode, or fewer resources than
  the pull under way began with, make a pull or push panic, and the process ends
  only over an expression that does not compile or over the unlocked maps.

The largest parts of `connectors` are SNMP (856,319 states), APM (324,293) and
Elastic (199,323).

Deadlock is not checked: all instances stop when their bounded inputs are used
up (the `Max*` constants and the sets of messages), and the builders when Build
returned.

### Fairness

* Task queue: the worker runs and its handlers return; a caller inside a push
  gets the mutex (Go's mutex hands over to waiters after 1 ms, hence strong
  fairness for the locked step). Nobody is obliged to push, no timer to fire.
* Batcher: goroutines that began an operation go on, handlers return (they put
  into a channel through a goroutine), a ticker with a period ticks, and
  `select` chooses among ready cases at random, hence strong fairness for a
  pending exit.
* Dispatcher: the fetch goroutine runs and its handler returns (HTTP requests
  time out), delays and AckWait end, and the server answers open requests while
  it has messages: strong fairness, as requests come and go.
* Client: a request is answered or times out, and a goroutine that waits for the
  mutex of Connect gets it (strong fairness, for the same reason as above).
* Publisher: the goroutines of Pub and of handlePubchan run. Nobody is obliged to
  put, start or stop.
* Controller: tasks and the goroutines of start and stop run; requests end,
  Shutdown has a deadline.
* Agent: the worker takes its steps. `QuitsStopped` excludes the two panics.

Fairness is stated per component over its own variables. In its initial state no
component has a fair step, so in a union run it obliges the chosen one only.

### Findings

1. `services/transit.go:356` — "flushes MetricsBatcher to avoid misordering":
   Batch does not wait for a batch that another goroutine is still sending
   (`states_order`, `StatesFollowMetrics`).
2. `batcher/metrics/metrics.go:107` — `xxl2qq` loses the services that are left
   in `pr` at the end of a resource. The run loses the only service of the middle
   one of three hosts (`metrics_split`, `SplitKeepsServices`).
3. `services/agent.go:488` — "wait for configuration update": after the transport
   was stopped for rejected credentials, a configuration update does not start
   it again unless the NATS options changed too (`agent_resume`,
   `ResumesAfterConfig`).
4. `services/controller.go:168` — the serve goroutine clears `controller.srv`
   after stopController returned: an immediate start believes that the server
   runs and leaves the API down (`controller_restart`, `ImmediateStartServes`).
5. `services/nats.go:94` — a legacy message with headers is sent still wrapped,
   which the run shows; one without them makes `header.Set` panic
   (`legacy_flow`, `LegacyIsUnwrapped`).
6. `connectors/elastic/clients/apiObjects.go:307` — the period's case is lowered,
   so months are minutes (`months`, `PeriodsAreKept`).

## 4. Proofs

Every theorem is about the specification the runs check, for all values of the
constants that satisfy the module's named assumptions: sets of callers, payloads,
messages and configurations of any size, capacities, limits and delays of any
length, any number of starts, failures and restarts. TLC evaluates the
assumptions in each run. They are typing facts, a capacity or batch size of at
least one, payloads of a positive size, limits of which there is at least one,
and markers such as `NoMessage` that are not values. The bounds `Max*` are only
assumed to be natural numbers. A few say what a model value stands for: a
payload is one call of Add, so a buffer holds it once (`MtBuffersAssumption`,
`EvBuffersAssumption`), an event or a service is one occurrence in one payload
(`EventOccurrencesAssumption`, `OccurrencesAssumption`), a metric of the APM
connector has an identity within its payload (`ApmAssumption`), and the filters
of a stored query have different ids (`ElAssumption`). Lists that come from
outside are finite (`CcAssumption`, `KAssumption`, `ChkAssumption`), and
timestamps and counters are numbers (`CcAssumption`, `SnAssumption`).

| Theorem | States | Inductive invariant |
|---|---|---|
| `TypeCorrect`, `ExactlyOnceInOrder`, `SyncCorrect` | `TypeOK`, `Fifo` and `AcceptedOnce`, `SyncResult` | `IInv` |
| `AlarmsForTheirTasks` | `AlarmForItsTask` | `AlarmInv` |
| `IdxTellsApart` | `IdxDiffersWithoutOverlap` | `IdxInv` |
| `DumpIsLastTasks` | `DebuggerSeesLastTasks` | `RingInv` |
| `QueueImplementsExecutor` | `Executor!Spec`, without its fairness | `IInv` |
| `EveryPayloadCarriedOnce` | `CarriedOnce` | `CarriedInv` |
| `SoftLimitHeld` | `LimitHeld` | `LimitInv` |
| `OrderWithoutOverlap` | `InOrderWithoutOverlap` | `OrderInv` |
| `EventsAreKept` | `EventsKept` | itself |
| `OvertakenBySplitsOnly` | `OnlySplitsOvertake` | `EvOrderInv` |
| `MetricsAreKept`, `StatusBarrier` | `MetricsKept`, `StatusIsABarrier` | `MtInv` |
| `AcksHaveOutcomes`, `GivingUpIsPaid` | `AckedHasOutcome`, `GiveUpsPaid` (an action property) | `DspInv` |
| `OrderIsKept` | `OrderLostOnlyAfterDisturbance` | `OrderInv` |
| `NothingPutVanishes` | `PubKept` | `PubInv` |
| `TransportFollows`, `QuitComesLast` | `TransportFollowsConfig`; the safety part of `QuitsStopped` | `AgentInv` |
| `ServersInReach` | `NoServerOutOfReach` | `CtlInv` |
| `CacheIsSound` | `AuthFollowsConfig` | `AuthInv` |
| `ReconnectSuffices` | `ReconnectIsEnough` | `GWInv` |
| `ExitStopsLoops` | `ExitReachesLoops` | `LpLoopInv` |
| `LoopsFollow` | `LoopsFollowConfig` | `LpLoopInv`, `AnnounceInv` |
| `WireReadable` | `WireIsReadable` | `TpInv` |
| `ConfigKept` | `ConfigSurvives` (an invariant and an action property) | `CfgInv` |
| `NewestSent` | `NewestOfThisConfig` (an invariant and an action property) | `CcInv` |
| `ApmIsReported` | `ApmReports` | `ApmInv` |
| `ReplicasAreGrouped` | `ReplicasGrouped` | `KInv` |
| `SnmpIsReported` | `SnmpReports` | `SnInv` |
| `HitsAreReported` | `HitsReported` (an invariant and an action property) | `FiltersAppliedOnce`, `RoundsOk` |
| `ScheduleIsKept` | `ScheduleIsConfigured`, the second half of `ChecksReported` | `ChkScheduled` |

Each invariant was checked by TLC on the instance of its run; where it
quantifies over everything (`EvOrderInv`, `MtInv`, `KInv`), with the quantifiers
bounded to the events, services, payloads and names of the instance. Why the
properties need them:

* **Task queue.** `Fifo` is inductive with the types. `AcceptedOnce` is not: a
  task could be sent twice if two callers held it, so `IInv` adds `TaskOwners`
  (tasks have one owner, a task not yet sent is not among the accepted ones).
  `SyncResult` needs `DoneOfFinished` (a done channel is filled exactly by the
  end of its task, with its result). An alarm belongs to its task only if a task
  that is received has a fresh timer (`TimersOfReceived`). Two pushes have
  different `Idx` because `q.idx` is the `Idx` stored last or has wrapped, and a
  push carries another one than the task stored last when it read (`IdxOfLast`,
  `ReadDiffers`). The dump is the last tasks because, read from `q.ring` on,
  the ring always holds the last `Capacity` recorded ones (`RingHolds`); the
  recursion of `ring.Do` is taken by its smallest counterexample. The refinement
  maps the outstanding tasks to the running one followed by the channel: Receive
  is a stutter, PushSend a Submit, SendDone a Finish.
* **Batcher.** Nothing is swapped over a batch that is being sent
  (`SendingHoldsBatch`) and whatever is anywhere came from Add (`CameFromAdd`).
  For the limit `bufSize` must be the sum of what is buffered: the sum is a
  recursive function, so `LimitInv` speaks of partial sums, which are unique by
  their smallest difference. Order needs that one process sends at a time, that
  sent, batch and buffer keep the order of Add and follow each other, except for
  split payloads within a batch, and that nothing is split before it is built
  (`SplitWhenBuilt`).
* **Events builder.** `EventsKept` is inductive as it stands; what is needed are
  facts about concatenation and cutting, and that a part has at least one event.
  `OnlySplitsOvertake` speaks of finished requests only. `EvOrderInv` says the
  same of all four places an event can be in: the requests, what is being split
  and what is being combined share no event (`Apart`), none is late compared to
  one behind it, and what is being split is of the payload scanned last
  (`NoneLate`).
* **Metrics builder.** A service is carried once because the request being
  combined, the resources left to split and the part being filled share none
  (`CarriedBy`, `SplitOK`); a status is a barrier because what is being combined
  holds no status and was scanned after every status (`BarrierIn`); tokens
  differ once the parts are numbered, since what is being combined has a token
  of no other request (`TokensOf`). A request has the groups of every payload it
  carries a service of (`GroupedBy`). The count of the services of a payload is a
  recursive function and is reasoned about by its partial counts.
* **Dispatcher.** That the retry index stays in range depends on nothing being
  handled after a message that is to be retried (`NothingAfterRetry`), and that
  giving up is paid for on the shared counter, and every copy of it that a
  generation holds between read and write, running behind the errors, but for
  copies older than the last stop (`RetriesPaid`). Order, while undisturbed, needs that sequences grow from the
  message handled last through the inbox to the consumer's next one.
* **Publisher.** At most the newest context is live and has server and
  connection (`OneLive`); a message that no stop and no failure met is in the
  hands of the live context at its first attempt (`HandsOfLive`); the channel is
  the end of what entered, and every message taken from it is in one place.
* **Agent.** The property is about the state after a task. `Plan` says for each
  task what it has achieved with each sequence of steps that may be left, e.g.
  config has stopped the transport before it loads and knows whether it ran;
  `Coherent` holds at every step.
* **Controller.** A serve goroutine between its two assignments owns
  `controller.srv`, a start waits for its goroutine, and the server that is shut
  down is the only one that serves. For the cache: whoever asks a server holds
  the mutex and its key is not cached, unless it is one of both schemes
  (`MissUnderMutex`), and asks the client in use unless a task replaced it
  (`LateIsNoted`).
* **Client.** The token is the newest issued one and who logs in still holds the
  token that was in use when it got the mutex (`OneLogin`, `ReplacedOnce`), so a
  second attempt has a valid token unless the server forgot it or, after it was
  sent, ended its session for another login (`NewTokenIsValid`).
* **Connector loops.** Every context but the current one is cancelled, and the
  current one has room for the loops that Run and the config task have yet to
  start. That hosts are announced first needs, without overlap, one goroutine at
  a time, that the inventory of the checksum kept was sent or refused, and that a
  handler compares what it collected. The steps left of the handlers of the nine
  connectors are written out in tables, over which the provers reason by cases.
* **Data path.** A message is labelled when it is put and read when it is
  dispatched, with a configuration possibly in between, so `TpInv` says of every
  message in the stream that its request will be readable under any agent:
  its type is that of its operation, and its placeholders are marked.
* **Configuration.** Nothing of the environment gets into the file because
  nothing of it is in the configuration on its way there (`NewIsPushed`), and a
  restart keeps what was in force because the file, read, sealed and overridden
  again, gives it (`SavedIsLive`); torn files are covered by `FileIsPushed`.
* **Oracle and Azure.** That the newest sample of those seen is kept is inductive
  once times are numbers (`CcSampled`). An untorn pass whose version is current has the
  current configuration, except between publication and increment (`CcCurrent`).
* **APM.** What every goroutine has placed is grouped, of any configurations
  (`BuiltOK`), a pull is at one of the resources it began with (`WorkOK`), and the
  mappings to be decoded are those of the configuration in force (`ApmInForce`).
  One goroutine moves at a time and the others keep what they have.
* **Kubernetes.** Groups are collected in two passes. After the nodes, exactly
  their names are entered; the containers then add each name once, whatever the
  order of the listing (`KRound`), and what was sent stays as it was when sent
  (`KSentOK`).
* **SNMP.** A cached counter is what its deltas began with and their sum
  (`SnAddsUp`): between Get and SetDefault, what a round that runs alone has read
  is what is cached (`HasRead`). What such a round built and has left to visit
  are the inventory (`SnVisits`), and the checksum is that of the inventory sent
  (`SnAnnounced`).
* **Elastic.** Every filter is selected once by one of the two signs, whatever
  surrounds it in the request. A state is made with every host there was and no
  hits, whoever writes into it writes what was counted since, and the state of a
  round that runs alone is the current one (`RoundOk`).
* **Checker.** The entries are made from the configuration in force by the last
  restart, and the checksum, which decides whether to restart, is of no other.

What a loop of the code computes (the parsing of answers, groups entered one
after the other, counts, selections) is a recursive function. It is shown to
have a solution (`Iterates`), and what it computes follows because the smallest
number of iterations after which it did not hold cannot exist (`UpTo`).

Only model-checked, and why:

* liveness (`PushReturns`, `SerialExecution` with its fairness, `Flushes`,
  `EverythingSettled`, `QuitsStopped`, `PubDelivers`, `CallsReturn`): out of the
  prover's reach, as is ENABLED;
* `SamplesFaithful`: expressions are evaluated by a RECURSIVE operator, which
  the prover does not accept; an expression is a tree, not a list, so that no
  recursive function over numbers replaces it;
* `MeasuredOnce`, the first half of `ChecksReported`: it finds a measurement in
  what was sent by its value, which tells measurements apart only among lines
  chosen like those of the run; in general two services may measure the same.

## 5. Not modelled

`PROJECT.json` gives every part with its status. Left out:

* libtransit (conversion between C and Go, no state of its own), gotocjson (a
  generator), deprecated and generated code, logging and tracing;
* of the connectors: the alerts builder of the events connector, the counters of
  the server connector and the requests of the office connector (conversions
  without state; their configuration handlers are cases of `ConnectorLoop`), the
  text of messages, list operations on Groundwork;
* of Kubernetes: `collectPodMetricsPerReplica`, which is never called, since
  `metricsPerContainer` is constant;
* of the data model: its JSON; of the transit service: export to files;
* embedded NATS, JetStream, Groundwork, Kibana, Elasticsearch, NeDi, SNMP
  devices, cloud services, the Kubernetes API: external, modelled by the answers
  the code distinguishes.

## 6. Plan

Done: the queue that serialises control, batching, publishing, delivery, the
control tasks, client, controller, configuration, data path, connectors; the
proofs of section 4. Next:

1. An abstract delivery specification (each message is kept until it has an
   outcome) with `Publisher` and `Dispatcher` as its implementation.
2. A composition of `Publisher` and `Dispatcher` for order end to end.
