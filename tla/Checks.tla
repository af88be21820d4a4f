------------------------------- MODULE Checks -------------------------------
(* Passive check results: the parser the NSCA and the checker connectors   *)
(* share (src/connectors/nsca/parser), the NSCA listener and the HTTP      *)
(* entry points (src/connectors/nsca) and the scheduler that runs commands *)
(* and parses what they print (src/connectors/checker).                    *)
(*                                                                         *)
(* A line is what the regular expressions tell of it: which formats it     *)
(* matches, its fields, and its performance data as labels with a number   *)
(* that parses or not.  A name is the sequence of its parts, so that the   *)
(* colon the parser joins names with is visible.                           *)
EXTENDS Naturals, FiniteSets, SequencesExt

CONSTANTS
    ChkLines,      \* lines a command, a client or a packet carries
    MaxLines,      \* bound on the lines of a payload
    ChkConfigs,    \* pushed schedules: sequences of tasks
    MaxRestarts,   \* bound on the restarts of the scheduler
    MaxConnections \* bound on the connections at a time

ASSUME ChkAssumption == \A tasks \in ChkConfigs : tasks \in Seq(ToSet(tasks))

VARIABLES
    extConfig,     \* the schedule in force
    chkChksum,     \* its checksum, <<>> before the first
    entries,       \* entries of the scheduler: [task, gen]
    jobs,          \* entries whose command is running
    chkStarted,    \* the scheduler runs
    restarts,      \* restarts so far
    listener,      \* the NSCA listener: off, open or stopped
    connections,   \* accepted connections, closed when the listener returns
    lastCheck,     \* the payload the last step parsed and what was sent for it
    crashed        \* a goroutine panicked

chkVars == <<extConfig, chkChksum, entries, jobs, chkStarted, restarts, listener, connections,
             lastCheck, crashed>>
schedule == <<extConfig, chkChksum, entries, jobs, chkStarted, restarts>>

ChkRejected == {}
NoCheck == [lines |-> <<>>, format |-> "nsca", sent |-> ChkRejected]

-----------------------------------------------------------------------------
(* The parser. *)

(* A time stamp that does not parse is replaced by now, but for Bronx.     *)
getTime(line, format) == format = "bronx" => line.ts = "number"
StatusCodes == <<"SERVICE_OK", "SERVICE_WARNING", "SERVICE_UNSCHEDULED_CRITICAL", "SERVICE_UNKNOWN">>
HasStatus(line) == line.status + 1 \in DOMAIN StatusCodes
getStatus(line) == StatusCodes[line.status + 1]

(* Performance data is split at blanks: none at all is one empty item,     *)
(* which does not match.                                                   *)
Measures(line, format) ==
    /\ format \in line.formats
    /\ getTime(line, format)
    /\ line.perf # <<>> /\ \A k \in DOMAIN line.perf : line.perf[k].parses

Key(res, svc) == res \o <<":">> \o svc
KeyOf(line) == Key(line.res, line.svc)

(* The metrics of all lines of a key, in their order.                      *)
getMetrics(lines) ==
    [key \in {KeyOf(lines[i]) : i \in DOMAIN lines} |->
        FlattenSeq([i \in DOMAIN lines |-> IF KeyOf(lines[i]) = key THEN lines[i].perf ELSE <<>>])]

nscaServiceOf(line, metrics) == [name |-> line.svc, status |-> getStatus(line), metrics |-> metrics[KeyOf(line)]]

\* Mutant of removeDuplicateServices: the last line of a service is kept with the first.
keepAllServices(services) == services

(* The first line of a service gives its status and its text.              *)
removeDuplicateServices(services) ==
    LET first == SelectSeq([i \in DOMAIN services |-> i],
                     LAMBDA i : \A j \in 1 .. (i - 1) : services[j].name # services[i].name)
    IN  [i \in DOMAIN first |-> services[first[i]]]

getServices(lines, metrics, res) ==
    LET own == SelectSeq(lines, LAMBDA line : line.res = res)
    IN  removeDuplicateServices([i \in DOMAIN own |-> nscaServiceOf(own[i], metrics)])

(* The service without a name is the check of the host itself.             *)
Resource(res, services) ==
    LET hostChecks == SelectSeq(services, LAMBDA s : s.name = <<>>)
    IN  [name |-> res,
         services |-> SelectSeq(services, LAMBDA s : s.name # <<>>),
         status |-> IF hostChecks = <<>> THEN "HOST_UP" ELSE hostChecks[Len(hostChecks)].status]

(* One line that is wrong rejects the payload.                             *)
Parse(lines, format) ==
    IF \E i \in DOMAIN lines : ~(Measures(lines[i], format) /\ HasStatus(lines[i]))
    THEN ChkRejected
    ELSE {Resource(res, getServices(lines, getMetrics(lines), res)) : res \in {lines[i].res : i \in DOMAIN lines}}

Payload == UNION {[1 .. n -> ChkLines] : n \in 1 .. MaxLines}

(* Parsing reads no state: it is enough to parse one payload between any   *)
(* two other steps.                                                        *)
processData(lines, format) ==
    /\ lastCheck = NoCheck
    /\ lastCheck' = [lines |-> lines, format |-> format, sent |-> Parse(lines, format)]

-----------------------------------------------------------------------------
(* The checker. *)

Validate(tasks) == \A i \in DOMAIN tasks : tasks[i].command
Runnable(tasks) == {i \in DOMAIN tasks : tasks[i].cron}

(* The entries are replaced; jobs that run go on.  An entry whose cron     *)
(* expression does not parse is left out without a word.                   *)
restartScheduler(tasks) ==
    /\ restarts' = restarts + 1
    /\ entries' = {[task |-> tasks[i], no |-> i, gen |-> restarts'] : i \in Runnable(tasks)}
    /\ chkStarted' = (chkStarted \/ Runnable(tasks) # {})

chkConfigHandler(tasks) ==
    /\ ~crashed /\ restarts < MaxRestarts
    /\ Validate(tasks)
    /\ extConfig' = tasks
    /\ chkChksum' = <<tasks>>
    /\ IF chkChksum # <<tasks>> THEN restartScheduler(tasks) ELSE UNCHANGED <<entries, chkStarted, restarts>>
    /\ lastCheck' = NoCheck
    /\ UNCHANGED <<jobs, listener, connections, crashed>>

(* The scheduler starts the job of an entry unless its last run goes on.   *)
Fire(e) ==
    /\ ~crashed /\ chkStarted /\ e \notin jobs
    /\ jobs' = jobs \cup {e}
    /\ UNCHANGED <<extConfig, chkChksum, entries, chkStarted, restarts, listener, connections, crashed>>
    /\ lastCheck' = NoCheck

(* The command fails, or prints a payload.                                 *)
taskHandler(e) ==
    /\ ~crashed
    /\ jobs' = jobs \ {e}
    /\ \/ lastCheck' = NoCheck
       \/ \E lines \in Payload : processData(lines, e.task.format)
    /\ UNCHANGED <<extConfig, chkChksum, entries, chkStarted, restarts, listener, connections, crashed>>

-----------------------------------------------------------------------------
(* The NSCA connector. *)

makeEntrypointHandler(format) ==
    /\ ~crashed
    /\ \E lines \in Payload : processData(lines, format)
    /\ UNCHANGED <<schedule, listener, connections, crashed>>

StartServerWithContext ==
    /\ listener = "off" /\ ~crashed
    /\ listener' \in {"open", "failed"}
    /\ UNCHANGED <<schedule, connections, crashed>>
    /\ lastCheck' = NoCheck

(* Accept fails otherwise than by the deadline: the connection is nil and  *)
(* the deferred Close panics.                                              *)
Accept ==
    /\ listener = "open" /\ ~crashed /\ connections < MaxConnections
    /\ \/ connections' = connections + 1 /\ crashed' = FALSE
       \/ connections' = connections /\ crashed' = TRUE
    /\ UNCHANGED <<schedule, listener>>
    /\ lastCheck' = NoCheck

(* A packet carries the fields of its first line apart and may hold more   *)
(* lines.  One whose checksum is wrong is dropped; reading one shorter     *)
(* than its fixed fields panics.                                           *)
HandleClientExt ==
    /\ connections > 0 /\ ~crashed
    /\ connections' = connections - 1
    /\ \/ lastCheck' = NoCheck /\ crashed' \in BOOLEAN
       \/ \E lines \in Payload :
             /\ processData([lines EXCEPT ![1] = [@ EXCEPT !.ts = ""]], "nsca")
             /\ UNCHANGED crashed
    /\ UNCHANGED <<schedule, listener>>

chkExit ==
    /\ ~crashed
    /\ chkStarted' = FALSE
    /\ listener' = IF listener = "open" THEN "stopped" ELSE listener
    /\ connections' = IF listener = "open" THEN 0 ELSE connections
    /\ UNCHANGED <<extConfig, chkChksum, entries, jobs, restarts, crashed>>
    /\ lastCheck' = NoCheck

ChkInit ==
    /\ extConfig = <<>> /\ chkChksum = <<>> /\ entries = {} /\ jobs = {} /\ chkStarted = FALSE /\ restarts = 0
    /\ listener = "off" /\ connections = 0 /\ lastCheck = NoCheck /\ crashed = FALSE

ChkNext ==
    \/ \E tasks \in ChkConfigs : chkConfigHandler(tasks)
    \/ \E e \in entries : Fire(e)
    \/ \E e \in jobs : taskHandler(e)
    \/ \E format \in {"bronx", "nsca"} : makeEntrypointHandler(format)
    \/ StartServerWithContext
    \/ Accept
    \/ HandleClientExt
    \/ chkExit

ChkSpec == ChkInit /\ [][ChkNext]_chkVars

-----------------------------------------------------------------------------
(* Every measurement of an accepted payload is sent by exactly one service *)
(* and a service is sent once, with the metrics of all its lines: lines of *)
(* a host check aside, whose metrics are dropped, and names that hold the  *)
(* separator of the parser's keys.                                         *)
MeasuredOnce ==
    LET lines == lastCheck.lines
        sent == lastCheck.sent
        plain == \A i \in DOMAIN lines : ":" \notin ToSet(lines[i].res) \cup ToSet(lines[i].svc)
        Places(item) == {p \in sent \X (1 .. MaxLines) \X (1 .. 2 * MaxLines) :
                            /\ p[2] \in DOMAIN p[1].services
                            /\ p[3] \in DOMAIN p[1].services[p[2]].metrics
                            /\ p[1].services[p[2]].metrics[p[3]] = item}
    IN  plain /\ sent # ChkRejected =>
            \A i \in DOMAIN lines : \A k \in DOMAIN lines[i].perf :
                /\ lines[i].svc # <<>> =>
                      Cardinality(Places(lines[i].perf[k])) = Cardinality({j \in DOMAIN lines : lines[j].perf = lines[i].perf})
                /\ \A p, q \in Places(lines[i].perf[k]) : p[1] = q[1] /\ p[2] = q[2]

(* After any number of configurations, refused ones among them, and with   *)
(* jobs of replaced entries still running, the scheduler holds the tasks   *)
(* of the configuration in force and none of an earlier one.               *)
ScheduleIsConfigured ==
    /\ {e.task : e \in entries} = {extConfig[i] : i \in Runnable(extConfig)}
    /\ Cardinality(entries) = Cardinality(Runnable(extConfig))

(* Checks run as configured and are reported as measured.                  *)
ChecksReported == MeasuredOnce /\ ScheduleIsConfigured
=============================================================================
