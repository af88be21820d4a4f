----------------------------- MODULE Dispatcher -----------------------------
(***************************************************************************)
(* nats/dispatcher.go with StartDispatcher and StopDispatcher of           *)
(* nats/nats.go and the durable handler of services/nats.go, for one       *)
(* durable consumer (retries and sequences are kept per durable).          *)
(*                                                                         *)
(* StartDispatcher opens a connection and starts a fetch goroutine: a      *)
(* generation.  StopDispatcher cancels its context and closes its          *)
(* connection but does not wait for the goroutine, which may be inside the *)
(* handler, go on with what it fetched and still write to the caches of    *)
(* the dispatcher, while its Ack and Nak no longer reach the server.       *)
(*                                                                         *)
(* The JetStream consumer is external: it answers an open fetch request    *)
(* with messages to redeliver, then with new ones; a Nak and the expiry of *)
(* AckWait put a message in the redelivery queue; an Ack settles it.       *)
(***************************************************************************)
EXTENDS Integers, Sequences, FiniteSets, SequencesExt

CONSTANTS
    MaxMsgs,        \* bound: messages published to the stream
    MaxGens,        \* bound: successful StartDispatcher calls
    MaxForgets,     \* bound: expiries of the retry entry (30 minutes)
    Batch,          \* messages per Fetch: 4
    RetryLimit      \* len(RetryDelays)

ASSUME BoundsAssumption == MaxMsgs \in Nat /\ MaxGens \in Nat /\ MaxForgets \in Nat
ASSUME BatchAssumption == Batch \in Nat \ {0}
ASSUME RetryAssumption == RetryLimit \in Nat

Msgs == 1 .. MaxMsgs
Gens == 1 .. MaxGens
NoRetry == -1

VARIABLES
    last,       \* last sequence of the stream
    nextSeq,    \* next new sequence of the consumer, 0 before it was created
    unacked,    \* messages delivered and not acknowledged
    rdq,        \* those to be redelivered, in order
    acked,      \* messages acknowledged
    conn,       \* generation with the open connection and context, or 0
    started,    \* generations started
    fpc,        \* generation -> none, select, batch, handle, retry, stopping, delay, ended
    credits,    \* generation -> messages its open fetch request may still get
    inbox,      \* generation -> messages received and not yet taken
    cur,        \* generation -> the message in its handler
    fetchDone,  \* generation -> done of the fetch loop
    delayRetry, \* generation -> delayRetry.Retry
    retries,    \* d.retries: Retry of the durable's entry, or NoRetry
    forgets,    \* expiries of the entry so far
    duraSeq,    \* d.duraSeqs: the last sequence delivered, 0 for none
    lostOrder,  \* history: "dispatcher lost order" was logged
    delivered,  \* history: messages the handler succeeded with
    refused,    \* history: messages a handler failed for good, or without metadata
    dropped,    \* history: messages retrying was stopped for
    errors,     \* history: transient errors since retrying was last stopped
    outdated,   \* history: who holds a count of before that, 0 for d.retries
    pushFull,   \* history: the task queue refused a StopTransport
    disturbed   \* history: a redelivery, an error or a restart happened

consumer == <<nextSeq, unacked, rdq, acked>>
fetchVars == <<fpc, credits, inbox, cur, fetchDone, delayRetry>>
caches == <<retries, duraSeq>>
history == <<lostOrder, delivered, refused, dropped, errors, outdated, pushFull, disturbed>>
dspVars == <<last, consumer, conn, started, fetchVars, caches, forgets, history>>

DspInit ==
    /\ last = 0
    /\ nextSeq = 0
    /\ unacked = {}
    /\ rdq = <<>>
    /\ acked = {}
    /\ conn = 0
    /\ started = 0
    /\ fpc = [g \in Gens |-> "none"]
    /\ credits = [g \in Gens |-> 0]
    /\ inbox = [g \in Gens |-> <<>>]
    /\ cur = [g \in Gens |-> 0]
    /\ fetchDone = [g \in Gens |-> TRUE]
    /\ delayRetry = [g \in Gens |-> 0]
    /\ retries = NoRetry
    /\ forgets = 0
    /\ duraSeq = 0
    /\ lostOrder = FALSE
    /\ delivered = {}
    /\ refused = {}
    /\ dropped = {}
    /\ errors = 0
    /\ outdated = {}
    /\ pushFull = FALSE
    /\ disturbed = FALSE

-----------------------------------------------------------------------------
(* External: the stream and the JetStream consumer *)

Publish ==
    /\ last < MaxMsgs
    /\ last' = last + 1
    /\ UNCHANGED <<consumer, conn, started, fetchVars, caches, forgets, history>>

(* The consumer answers the open request of the connected generation. *)
Deliver(g) ==
    /\ conn = g
    /\ fpc[g] \in {"batch", "handle", "retry", "stopping"}
    /\ credits[g] > 0
    /\ credits' = [credits EXCEPT ![g] = @ - 1]
    /\ \/ /\ rdq # <<>>
          /\ inbox' = [inbox EXCEPT ![g] = Append(@, Head(rdq))]
          /\ rdq' = Tail(rdq)
          /\ UNCHANGED <<nextSeq, unacked>>
       \/ /\ rdq = <<>>
          /\ nextSeq <= last
          /\ inbox' = [inbox EXCEPT ![g] = Append(@, nextSeq)]
          /\ nextSeq' = nextSeq + 1
          /\ unacked' = unacked \cup {nextSeq}
          /\ UNCHANGED rdq
    /\ UNCHANGED <<last, acked, conn, started, fpc, cur, fetchDone, delayRetry,
                   caches, forgets, history>>

(* AckWait of a delivered message is over. *)
AckWaitOver(m) ==
    /\ m \in unacked
    /\ ~Contains(rdq, m)
    /\ rdq' = Append(rdq, m)
    /\ disturbed' = TRUE
    /\ UNCHANGED <<last, nextSeq, unacked, acked, conn, started, fetchVars,
                   caches, forgets, lostOrder, delivered, refused, dropped,
                   errors, outdated, pushFull>>

(* msg.Ack and msg.Nak of generation g: errors are ignored. *)
Ack(g, m) ==
    IF conn = g
    THEN /\ acked' = acked \cup {m}
         /\ unacked' = unacked \ {m}
         /\ IF Contains(rdq, m)
            THEN \E i \in 1 .. Len(rdq) : rdq[i] = m /\ rdq' = RemoveAt(rdq, i)
            ELSE UNCHANGED rdq
         /\ UNCHANGED nextSeq
    ELSE UNCHANGED consumer

Nak(g, m) ==
    IF conn = g /\ m \in unacked /\ ~Contains(rdq, m)
    THEN rdq' = Append(rdq, m) /\ UNCHANGED <<nextSeq, unacked, acked>>
    ELSE UNCHANGED consumer

-----------------------------------------------------------------------------
(* The fetch goroutine *)

(* Mutant of FetchBegin: done is declared outside the loop. *)
FetchBeginKeepsDone(g) ==
    /\ fpc[g] = "select"
    /\ IF conn # g
       THEN fpc' = [fpc EXCEPT ![g] = "ended"] /\ UNCHANGED <<credits, inbox, delayRetry>>
       ELSE /\ fpc' = [fpc EXCEPT ![g] = "batch"]
            /\ credits' = [credits EXCEPT ![g] = Batch]
            /\ inbox' = [inbox EXCEPT ![g] = <<>>]
            /\ delayRetry' = [delayRetry EXCEPT ![g] = 0]
    /\ UNCHANGED <<last, consumer, conn, started, cur, fetchDone, caches, forgets, history>>

(* The top of the loop: the context is looked at, then Fetch. *)
FetchBegin(g) ==
    /\ fpc[g] = "select"
    /\ IF conn # g
       THEN fpc' = [fpc EXCEPT ![g] = "ended"] /\ UNCHANGED <<credits, inbox, fetchDone, delayRetry>>
       ELSE /\ fpc' = [fpc EXCEPT ![g] = "batch"]
            /\ credits' = [credits EXCEPT ![g] = Batch]
            /\ inbox' = [inbox EXCEPT ![g] = <<>>]
            /\ fetchDone' = [fetchDone EXCEPT ![g] = TRUE]
            /\ delayRetry' = [delayRetry EXCEPT ![g] = 0]
    /\ UNCHANGED <<last, consumer, conn, started, cur, caches, forgets, history>>

(* A message is taken from the batch and its handler called, *)
TakeMsg(g) ==
    /\ fpc[g] = "batch"
    /\ inbox[g] # <<>>
    /\ fetchDone[g]
    /\ cur' = [cur EXCEPT ![g] = Head(inbox[g])]
    /\ inbox' = [inbox EXCEPT ![g] = Tail(@)]
    /\ lostOrder' = (lostOrder \/ duraSeq >= Head(inbox[g]))
    /\ fpc' = [fpc EXCEPT ![g] = "handle"]
    /\ UNCHANGED <<last, consumer, conn, started, credits, fetchDone, delayRetry,
                   caches, forgets, delivered, refused, dropped, errors,
                   outdated, pushFull, disturbed>>

(* acknowledged at once when it has no metadata,                           *)
NoMetadata(g) ==
    /\ fpc[g] = "batch"
    /\ inbox[g] # <<>>
    /\ fetchDone[g]
    /\ Ack(g, Head(inbox[g]))
    /\ inbox' = [inbox EXCEPT ![g] = Tail(@)]
    /\ refused' = refused \cup {Head(inbox[g])}
    /\ UNCHANGED <<last, conn, started, fpc, credits, cur, fetchDone, delayRetry,
                   caches, forgets, lostOrder, delivered, dropped, errors,
                   outdated, pushFull, disturbed>>

(* or given back, after a message of this batch that is to be retried. *)
SkipMsg(g) ==
    /\ fpc[g] = "batch"
    /\ inbox[g] # <<>>
    /\ ~fetchDone[g]
    /\ Nak(g, Head(inbox[g]))
    /\ inbox' = [inbox EXCEPT ![g] = Tail(@)]
    /\ UNCHANGED <<last, conn, started, fpc, credits, cur, fetchDone, delayRetry,
                   caches, forgets, history>>

(* The handler of g has returned: the loop over the batch goes on. *)
Returned(g) ==
    /\ fpc' = [fpc EXCEPT ![g] = "batch"]
    /\ cur' = [cur EXCEPT ![g] = 0]
    /\ UNCHANGED <<last, started, credits, inbox, forgets, lostOrder>>

(* Mutant of DoneSeq: the next sequence is remembered. *)
DoneSeqNext(g) == cur[g] + 1

(* The sequence kept for the durable. *)
DoneSeq(g) == cur[g]

(* processMsg: the handler delivered the message. *)
Delivered(g) ==
    /\ fpc[g] = "handle"
    /\ Ack(g, cur[g])
    /\ duraSeq' = DoneSeq(g)
    /\ delivered' = delivered \cup {cur[g]}
    /\ Returned(g)
    /\ UNCHANGED <<conn, fetchDone, delayRetry, retries, refused, dropped, errors,
                   outdated, pushFull, disturbed>>

(* processMsg: an error that is neither transient nor about credentials.   *)
NotDelivered(g) ==
    /\ fpc[g] = "handle"
    /\ Ack(g, cur[g])
    /\ refused' = refused \cup {cur[g]}
    /\ Returned(g)
    /\ UNCHANGED <<conn, fetchDone, delayRetry, caches, delivered, dropped, errors,
                   outdated, pushFull, disturbed>>

(* Retry of the new entry. *)
NextRetry == IF retries = NoRetry THEN 0 ELSE retries + 1

(* processMsg: a transient error; the count is read here, *)
TransientError(g) ==
    /\ fpc[g] = "handle"
    /\ fpc' = [fpc EXCEPT ![g] = "retry"]
    /\ delayRetry' = [delayRetry EXCEPT ![g] = NextRetry]
    /\ errors' = errors + 1
    /\ outdated' = IF 0 \in outdated THEN outdated \cup {g} ELSE outdated
    /\ disturbed' = TRUE
    /\ UNCHANGED <<last, consumer, conn, started, credits, inbox, cur, fetchDone,
                   caches, forgets, lostOrder, delivered, refused, dropped, pushFull>>

MayRetryLess(g) == delayRetry[g] + 1 < RetryLimit

MayRetry(g) == delayRetry[g] < RetryLimit

(* and written back, whoever wrote it meanwhile: with delays left the      *)
(* message is given back,                                                  *)
WillRetry(g) ==
    /\ fpc[g] = "retry"
    /\ MayRetry(g)
    /\ retries' = delayRetry[g]
    /\ Nak(g, cur[g])
    /\ fetchDone' = [fetchDone EXCEPT ![g] = FALSE]
    /\ outdated' = IF g \in outdated THEN (outdated \ {g}) \cup {0} ELSE outdated \ {0}
    /\ Returned(g)
    /\ UNCHANGED <<conn, delayRetry, duraSeq, delivered, refused, dropped, errors,
                   pushFull, disturbed>>

(* Who holds a count that was read before g deletes it. *)
OtherCounts(g) == {h \in Gens : h # g /\ fpc[h] = "retry"}

(* and after the last delay it is acknowledged.                            *)
StopRetrying(g) ==
    /\ fpc[g] = "retry"
    /\ ~MayRetry(g)
    /\ retries' = NoRetry
    /\ Ack(g, cur[g])
    /\ dropped' = dropped \cup {cur[g]}
    /\ errors' = 0
    /\ outdated' = OtherCounts(g)
    /\ Returned(g)
    /\ UNCHANGED <<conn, fetchDone, delayRetry, duraSeq, delivered, refused,
                   pushFull, disturbed>>

(* The durable's handler got ErrUnauthorized: StopTransport is pushed and  *)
(* awaited on the agent's task queue.                                      *)
Unauthorized(g) ==
    /\ fpc[g] = "handle"
    /\ fpc' = [fpc EXCEPT ![g] = "stopping"]
    /\ UNCHANGED <<last, consumer, conn, started, credits, inbox, cur, fetchDone,
                   delayRetry, caches, forgets, history>>

(* Mutant of StopTransport: the message is acknowledged before the         *)
(* connection is closed.                                                   *)
StopTransportAcks(g) ==
    /\ fpc[g] = "stopping"
    /\ Ack(g, cur[g])
    /\ conn' = 0
    /\ disturbed' = TRUE
    /\ Returned(g)
    /\ UNCHANGED <<fetchDone, delayRetry, caches, delivered, refused, dropped,
                   errors, outdated, pushFull>>

(* The task worker has run stopTransport, which closed the connection: the *)
(* Ack that follows fails.                                                 *)
StopTransport(g) ==
    /\ fpc[g] = "stopping"
    /\ conn' = 0
    /\ disturbed' = TRUE
    /\ Returned(g)
    /\ UNCHANGED <<consumer, fetchDone, delayRetry, caches, delivered, refused,
                   dropped, errors, outdated, pushFull>>

(* The task queue is full: the error is ignored and the message acked. *)
StopTransportFails(g) ==
    /\ fpc[g] = "stopping"
    /\ Ack(g, cur[g])
    /\ pushFull' = TRUE
    /\ Returned(g)
    /\ UNCHANGED <<conn, fetchDone, delayRetry, caches, delivered, refused, dropped,
                   errors, outdated, disturbed>>

(* The request is answered in full, has timed out or lost its connection.  *)
BatchEnd(g) ==
    /\ fpc[g] = "batch"
    /\ inbox[g] = <<>>
    /\ credits' = [credits EXCEPT ![g] = 0]
    /\ fpc' = [fpc EXCEPT ![g] = IF fetchDone[g] THEN "select" ELSE "delay"]
    /\ UNCHANGED <<last, consumer, conn, started, inbox, cur, fetchDone, delayRetry,
                   caches, forgets, history>>

(* RetryDelays[delayRetry.Retry] is over or the context cancelled. *)
DelayEnd(g) ==
    /\ fpc[g] = "delay"
    /\ fpc' = [fpc EXCEPT ![g] = "select"]
    /\ UNCHANGED <<last, consumer, conn, started, credits, inbox, cur, fetchDone,
                   delayRetry, caches, forgets, history>>

(* The entry of d.retries is 30 minutes old. *)
Forget ==
    /\ retries # NoRetry
    /\ forgets < MaxForgets
    /\ forgets' = forgets + 1
    /\ retries' = NoRetry
    /\ outdated' = outdated \ {0}
    /\ UNCHANGED <<last, consumer, conn, started, fetchVars, duraSeq, lostOrder,
                   delivered, refused, dropped, errors, pushFull, disturbed>>

-----------------------------------------------------------------------------
(* StopDispatcher and StartDispatcher, run by the task worker *)

StopDispatcher ==
    /\ conn # 0
    /\ conn' = 0
    /\ disturbed' = TRUE
    /\ UNCHANGED <<last, consumer, started, fetchVars, caches, forgets,
                   lostOrder, delivered, refused, dropped, errors, outdated, pushFull>>

(* StopDispatcher, a new connection, Flush, and OpenDurable, which logs an *)
(* error and starts no goroutine when the consumer is not available        *)
(* (opened = FALSE).  A new consumer begins with the last stored message.  *)
StartDispatcher(opened) ==
    LET g == started + 1
    IN  /\ started < MaxGens
        /\ started' = g
        /\ conn' = g
        /\ retries' = NoRetry
        /\ duraSeq' = 0
        /\ outdated' = outdated \ {0}
        /\ disturbed' = (disturbed \/ started # 0)
        /\ IF opened
           THEN /\ fpc' = [fpc EXCEPT ![g] = "select"]
                /\ nextSeq' = IF nextSeq # 0 THEN nextSeq ELSE IF last = 0 THEN 1 ELSE last
           ELSE UNCHANGED <<fpc, nextSeq>>
        /\ UNCHANGED <<last, unacked, rdq, acked, credits, inbox, cur, fetchDone,
                       delayRetry, forgets, lostOrder, delivered, refused,
                       dropped, errors, pushFull>>

-----------------------------------------------------------------------------
HandlerEnds(g) ==
    \/ Delivered(g) \/ NotDelivered(g) \/ TransientError(g) \/ Unauthorized(g)

FetchStep(g) ==
    \/ FetchBegin(g) \/ TakeMsg(g) \/ NoMetadata(g) \/ SkipMsg(g)
    \/ HandlerEnds(g)
    \/ WillRetry(g) \/ StopRetrying(g)
    \/ StopTransport(g) \/ StopTransportFails(g)
    \/ BatchEnd(g) \/ DelayEnd(g)

DspNext ==
    \/ Publish
    \/ \E g \in Gens : Deliver(g) \/ FetchStep(g)
    \/ \E m \in Msgs : AckWaitOver(m)
    \/ Forget
    \/ StopDispatcher
    \/ \E opened \in BOOLEAN : StartDispatcher(opened)

(* The goroutine is scheduled and its handler returns (HTTP requests have  *)
(* a timeout), the delays and AckWait end, and the server does not leave   *)
(* every open request without the messages it has.                         *)
DspFairness ==
    /\ \A g \in Gens : WF_dspVars(FetchStep(g)) /\ SF_dspVars(Deliver(g))
    /\ \A m \in Msgs : WF_dspVars(AckWaitOver(m))

DspSpec == DspInit /\ [][DspNext]_dspVars
DspFairSpec == DspSpec /\ DspFairness

-----------------------------------------------------------------------------
(* Properties *)

(* RetryDelays[delayRetry.Retry] is in range whenever a delay begins, for  *)
(* any length of RetryDelays and whoever wrote d.retries meanwhile.        *)
RetryInRange ==
    \A g \in Gens : ~fetchDone[g] => delayRetry[g] \in 0 .. RetryLimit - 1

(* Types of the dispatcher's state, and no read beyond RetryDelays.        *)
DspTypeOK ==
    /\ last \in 0 .. MaxMsgs
    /\ nextSeq \in 0 .. MaxMsgs + 1
    /\ unacked \subseteq Msgs /\ acked \subseteq Msgs
    /\ rdq \in Seq(Msgs)
    /\ conn \in 0 .. MaxGens
    /\ started \in 0 .. MaxGens
    /\ fpc \in [Gens -> {"none", "select", "batch", "handle", "retry", "stopping", "delay", "ended"}]
    /\ credits \in [Gens -> 0 .. Batch]
    /\ inbox \in [Gens -> Seq(Msgs)]
    /\ cur \in [Gens -> 0 .. MaxMsgs]
    /\ \A g \in Gens : fpc[g] \in {"handle", "retry", "stopping"} => cur[g] \in Msgs
    /\ fetchDone \in [Gens -> BOOLEAN]
    /\ delayRetry \in [Gens -> Nat] /\ RetryInRange
    /\ retries \in NoRetry .. RetryLimit - 1
    /\ forgets \in 0 .. MaxForgets
    /\ duraSeq \in 0 .. MaxMsgs
    /\ delivered \cup refused \cup dropped \subseteq Msgs
    /\ errors \in Nat /\ outdated \subseteq 0 .. MaxGens
    /\ lostOrder \in BOOLEAN /\ pushFull \in BOOLEAN /\ disturbed \in BOOLEAN

(* A message is settled only with an outcome: delivered, refused for good, *)
(* or given up after retries.  In particular a message answered with       *)
(* ErrUnauthorized stays for the time after the configuration update, also *)
(* when generations overlap, unless the task queue was full.               *)
AckedHasOutcome ==
    DspTypeOK /\ (~pushFull => \A m \in acked : m \in delivered \cup refused \cup dropped)

(* Giving up is paid for: retrying is stopped only after more than         *)
(* RetryLimit transient errors of the durable since it was last stopped,   *)
(* though the count is shared by messages and by overlapping generations   *)
(* that overwrite each other's, survives successes, and is lost by         *)
(* restarts and by age.  The one exception is a count that was read before *)
(* the last stop and used, or written back, after it: d.retries is read at *)
(* line 222 and written at lines 228 and 234 without a lock.               *)
GiveUpsPaid ==
    [][\A g \in Gens : StopRetrying(g) => errors > RetryLimit \/ g \in outdated]_dspVars

(* Without a redelivery, an error or a restart no message comes after one  *)
(* of a higher sequence, or twice.                                         *)
OrderLostOnlyAfterDisturbance == lostOrder => disturbed

(* Messages a consumer is to get are settled, delivered or not, as long as *)
(* a fetch goroutine is connected.                                         *)
Serving == conn # 0 /\ fpc[conn] \notin {"none", "ended"}
ForConsumer(m) == nextSeq # 0 /\ m <= last /\ (m >= nextSeq \/ m \in unacked)
EverythingSettled ==
    \A m \in Msgs : Serving /\ ForConsumer(m) ~> m \in acked \/ ~Serving
=============================================================================
