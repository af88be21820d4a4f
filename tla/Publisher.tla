----------------------------- MODULE Publisher -----------------------------
(***************************************************************************)
(* nats/nats.go: the embedded server, its stream, and the way of a message *)
(* from Pub through the channel s.pub and the goroutine handlePubchan to   *)
(* the stream.  StartServer and StopServer hold the lock of the state,     *)
(* handlePubchan does not: it reads s.ncPublisher and s.server as they     *)
(* are.  Starts and stops come one at a time, from the task queue.         *)
(***************************************************************************)
EXTENDS Integers, Sequences

CONSTANTS
    PubMessages,    \* messages that connectors put
    PubCap,         \* capacity of s.pub
    MaxStarts,      \* bound: calls of StartServer
    MaxPubFailures, \* bound: failures of the connection
    StoreMaxBytes,  \* configured size of the stream
    DiskFree,       \* values of disk.Usage().Free
    MinDiskFree,    \* 1024*1024
    NoMessage

ASSUME PubAssumption ==
    /\ PubCap \in Nat /\ MaxStarts \in Nat /\ MaxPubFailures \in Nat /\ DiskFree \subseteq Nat
    /\ StoreMaxBytes \in Nat /\ MinDiskFree \in Nat
    /\ NoMessage \notin PubMessages

VARIABLES
    pubServer,      \* s.server # nil
    pubConn,        \* s.ncPublisher: "nil", "open" or "broken"
    pubPc,          \* where the task is in StartServer or StopServer
    pubStarts,      \* number of contexts made by StartServer
    pubLive,        \* the contexts that are not cancelled
    pubStream,      \* stream of the store: 0 none, else its MaxBytes
    pubWaiting,     \* messages in goroutines of Pub
    pubChannel,     \* s.pub
    pubHandler,     \* context -> goroutine handlePubchan
    pubStored,      \* stream: messages in order of arrival
    pubFailures,
    pubEntered,     \* history: messages in the order they entered s.pub
    pubDropped,     \* history: messages logged and forgotten
    pubHit,         \* history: messages a failure or a stop has met
    pubPanicked     \* the process is down

pubVars == <<pubServer, pubConn, pubPc, pubStarts, pubLive, pubStream, pubWaiting, pubChannel,
             pubHandler, pubStored, pubFailures, pubEntered, pubDropped, pubHit, pubPanicked>>
pubTask == <<pubServer, pubPc, pubStarts, pubLive, pubStream>>
pubFlow == <<pubWaiting, pubChannel, pubEntered>>
pubFate == <<pubStored, pubDropped>>

Contexts == 1..MaxStarts

PubInit ==
    /\ pubServer = FALSE /\ pubConn = "nil" /\ pubPc = "idle"
    /\ pubStarts = 0 /\ pubLive = {} /\ pubStream = 0
    /\ pubWaiting = {} /\ pubChannel = <<>> /\ pubEntered = <<>>
    /\ pubHandler = [c \in Contexts |-> [pc |-> "none", msg |-> NoMessage]]
    /\ pubStored = <<>> /\ pubFailures = 0
    /\ pubDropped = {} /\ pubHit = {} /\ pubPanicked = FALSE

InHand == {pubHandler[c].msg : c \in Contexts} \ {NoMessage}

(***************************************************************************)
(* StartServer                                                             *)
(***************************************************************************)
(* A second start returns at once; a bad config file or NewServer fails    *)
(* before anything is set.                                                 *)
StartServerNew ==
    /\ pubPc = "idle" /\ pubStarts < MaxStarts
    /\ \/ ~pubServer /\ pubServer' = TRUE /\ pubPc' = "connect"
       \/ UNCHANGED <<pubServer, pubPc>>
    /\ UNCHANGED <<pubConn, pubStarts, pubLive, pubStream, pubFlow, pubHandler, pubFate,
                   pubFailures, pubHit, pubPanicked>>

(* The connection of the publisher; its failure leaves the server running. *)
StartServerConnect ==
    /\ pubPc = "connect"
    /\ \/ /\ pubConn' = "open" /\ pubPc' = "stream"
          /\ pubStarts' = pubStarts + 1
          /\ pubLive' = pubLive \cup {pubStarts'}
          /\ UNCHANGED pubFailures
       \/ /\ pubFailures < MaxPubFailures /\ pubFailures' = pubFailures + 1
          /\ pubPc' = "idle"
          /\ UNCHANGED <<pubConn, pubStarts, pubLive>>
    /\ UNCHANGED <<pubServer, pubStream, pubFlow, pubHandler, pubFate, pubHit, pubPanicked>>

(* What defineStream makes of the stream, given the answers of the server: *)
(* an equal stream is kept, else it is created or updated; an answer of    *)
(* insufficient storage is retried once with 5/8 of the free space, unless *)
(* that is more than what was refused or there is hardly any.  A set of    *)
(* <<stream, error>>.                                                      *)
DefineStream(stream, free) ==
    IF stream = StoreMaxBytes THEN {<<stream, FALSE>>}
    ELSE {<<StoreMaxBytes, FALSE>>, <<stream, TRUE>>}
         \cup (IF (free \div 8) * 5 > StoreMaxBytes \/ free < MinDiskFree THEN {}
               ELSE {<<(free \div 8) * 5, FALSE>>})

(* defineStream, then the goroutine; its failure leaves server, connection *)
(* and context behind, without a goroutine.                                *)
StartServerStream ==
    /\ pubPc = "stream"
    /\ pubPc' = "idle"
    /\ \E free \in DiskFree : \E r \in DefineStream(pubStream, free) :
         /\ pubStream' = r[1]
         /\ IF r[2] THEN UNCHANGED pubHandler
            ELSE pubHandler' = [pubHandler EXCEPT ![pubStarts] = [pc |-> "select", msg |-> NoMessage]]
    /\ UNCHANGED <<pubServer, pubConn, pubStarts, pubLive, pubFlow, pubFate, pubFailures,
                   pubHit, pubPanicked>>

(***************************************************************************)
(* StopServer: cancel, drain the connection, shut the server down.  The    *)
(* agent calls it when the server is there; after a first start that could *)
(* not connect s.cancel is nil and the call panics.                        *)
(***************************************************************************)
StopServerCancel ==
    /\ pubPc = "idle" /\ pubServer
    /\ IF pubStarts = 0
       THEN pubPanicked' = TRUE /\ UNCHANGED <<pubPc, pubLive, pubHit>>
       ELSE /\ pubPc' = "drain" /\ pubLive' = {} /\ pubHit' = pubHit \cup InHand
            /\ UNCHANGED pubPanicked
    /\ UNCHANGED <<pubServer, pubConn, pubStarts, pubStream, pubFlow, pubHandler, pubFate,
                   pubFailures>>

StopServerDrain ==
    /\ pubPc = "drain"
    /\ pubPc' = "shutdown"
    /\ pubConn' = "nil"
    /\ UNCHANGED <<pubServer, pubStarts, pubLive, pubStream, pubFlow, pubHandler, pubFate,
                   pubFailures, pubHit, pubPanicked>>

(* A connection that handlePubchan made meanwhile breaks with the server. *)
StopServerShutdown ==
    /\ pubPc = "shutdown"
    /\ pubPc' = "idle"
    /\ pubServer' = FALSE
    /\ pubConn' = IF pubConn = "open" THEN "broken" ELSE pubConn
    /\ UNCHANGED <<pubStarts, pubLive, pubStream, pubFlow, pubHandler, pubFate, pubFailures,
                   pubHit, pubPanicked>>

(***************************************************************************)
(* Pub and handlePubchan                                                   *)
(***************************************************************************)
(* Pub returns at once: the goroutine it starts waits for the channel. *)
Pub(m) ==
    /\ m \notin pubWaiting \cup {pubEntered[i] : i \in 1..Len(pubEntered)}
    /\ pubWaiting' = pubWaiting \cup {m}
    /\ UNCHANGED <<pubTask, pubConn, pubChannel, pubHandler, pubFate, pubFailures, pubEntered,
                   pubHit, pubPanicked>>

PubEnters(m) ==
    /\ m \in pubWaiting /\ Len(pubChannel) < PubCap
    /\ pubWaiting' = pubWaiting \ {m}
    /\ pubChannel' = Append(pubChannel, m)
    /\ pubEntered' = Append(pubEntered, m)
    /\ UNCHANGED <<pubTask, pubConn, pubHandler, pubFate, pubFailures, pubHit, pubPanicked>>

HandlerTo(c, pc, m) == pubHandler' = [pubHandler EXCEPT ![c] = [pc |-> pc, msg |-> m]]

(* select: with the context done and a message there, either may be taken. *)
HandlerTakes(c) ==
    /\ pubHandler[c].pc = "select" /\ pubChannel # <<>>
    /\ pubChannel' = Tail(pubChannel)
    /\ HandlerTo(c, "publish", Head(pubChannel))
    /\ pubHit' = IF c \in pubLive THEN pubHit ELSE pubHit \cup {Head(pubChannel)}
    /\ UNCHANGED <<pubTask, pubConn, pubWaiting, pubFate, pubFailures, pubEntered, pubPanicked>>

HandlerReturns(c) ==
    /\ pubHandler[c].pc = "select" /\ c \notin pubLive
    /\ HandlerTo(c, "done", NoMessage)
    /\ UNCHANGED <<pubTask, pubConn, pubFlow, pubFate, pubFailures, pubHit, pubPanicked>>

(* PublishMsg works on an open connection, and may fail there too. *)
PublishMsg(c, onError) ==
    LET m == pubHandler[c].msg IN
    \/ /\ pubConn = "open"
       /\ pubStored' = Append(pubStored, m)
       /\ HandlerTo(c, "select", NoMessage)
       /\ UNCHANGED <<pubDropped, pubFailures, pubHit>>
    \/ /\ pubConn # "open" \/ pubFailures < MaxPubFailures
       /\ pubFailures' = IF pubConn = "open" THEN pubFailures + 1 ELSE pubFailures
       /\ pubHit' = IF pubConn = "open" THEN pubHit \cup {m} ELSE pubHit
       /\ IF onError = "reconnect"
          THEN HandlerTo(c, "reconnect", m) /\ UNCHANGED pubDropped
          ELSE HandlerTo(c, "select", NoMessage) /\ pubDropped' = pubDropped \cup {m}
       /\ UNCHANGED pubStored

\* Mutant of HandlerPublishes: the goroutine ends with an error.
HandlerPublishesOrEnds(c) ==
    /\ pubHandler[c].pc = "publish"
    /\ \/ PublishMsg(c, "reconnect") /\ pubHandler'[c].pc # "reconnect"
       \/ /\ pubConn # "open" \/ pubFailures < MaxPubFailures
          /\ pubFailures' = pubFailures + 1 /\ pubHit' = pubHit \cup {pubHandler[c].msg}
          /\ pubDropped' = pubDropped \cup {pubHandler[c].msg} /\ HandlerTo(c, "done", NoMessage)
          /\ UNCHANGED pubStored
    /\ UNCHANGED <<pubTask, pubConn, pubFlow, pubPanicked>>

HandlerPublishes(c) ==
    /\ pubHandler[c].pc = "publish"
    /\ PublishMsg(c, "reconnect")
    /\ UNCHANGED <<pubTask, pubConn, pubFlow, pubPanicked>>

HandlerRepublishes(c) ==
    /\ pubHandler[c].pc = "republish"
    /\ PublishMsg(c, "drop")
    /\ UNCHANGED <<pubTask, pubConn, pubFlow, pubPanicked>>

\* Mutant of HandlerReconnects: the message is dropped after the reconnect.
HandlerReconnectsOnly(c) ==
    /\ pubHandler[c].pc = "reconnect" /\ pubServer
    /\ pubConn' = "open" /\ HandlerTo(c, "select", NoMessage)
    /\ UNCHANGED <<pubTask, pubFlow, pubPanicked, pubStored, pubFailures, pubHit, pubDropped>>

(* nats.Connect to s.server.ClientURL(): with a nil server the process     *)
(* panics; with one that shuts down, or on a failure, the message is       *)
(* dropped after a second.                                                 *)
HandlerReconnects(c) ==
    LET m == pubHandler[c].msg IN
    /\ pubHandler[c].pc = "reconnect"
    /\ \/ /\ ~pubServer /\ pubPanicked' = TRUE
          /\ UNCHANGED <<pubConn, pubHandler, pubDropped, pubFailures, pubHit>>
       \/ /\ pubServer /\ pubConn' = "open" /\ HandlerTo(c, "republish", m)
          /\ UNCHANGED <<pubDropped, pubFailures, pubHit, pubPanicked>>
       \/ /\ pubServer /\ (pubPc = "shutdown" \/ pubFailures < MaxPubFailures)
          /\ pubFailures' = IF pubPc = "shutdown" THEN pubFailures ELSE pubFailures + 1
          /\ pubHit' = pubHit \cup {m}
          /\ pubDropped' = pubDropped \cup {m} /\ HandlerTo(c, "select", NoMessage)
          /\ UNCHANGED <<pubConn, pubPanicked>>
    /\ UNCHANGED <<pubTask, pubFlow, pubStored>>

HandlerStep(c) ==
    \/ HandlerTakes(c) \/ HandlerReturns(c) \/ HandlerPublishes(c)
    \/ HandlerReconnects(c) \/ HandlerRepublishes(c)

PubNext ==
    /\ ~pubPanicked
    /\ \/ StartServerNew \/ StartServerConnect \/ StartServerStream
       \/ StopServerCancel \/ StopServerDrain \/ StopServerShutdown
       \/ \E m \in PubMessages : Pub(m) \/ PubEnters(m)
       \/ \E c \in Contexts : HandlerStep(c)

(* Goroutines run; nothing makes connectors put or tasks start and stop. *)
PubFairness ==
    /\ WF_pubVars(~pubPanicked /\ \E m \in PubMessages : PubEnters(m))
    /\ \A c \in Contexts : WF_pubVars(~pubPanicked /\ HandlerStep(c))

PubSpec == PubInit /\ [][PubNext]_pubVars /\ PubFairness

(* Types of the publisher's state. *)
PubTypeOK ==
    /\ pubConn \in {"nil", "open", "broken"} /\ pubStream \in 0..StoreMaxBytes
    /\ pubPc \in {"idle", "connect", "stream", "drain", "shutdown"}
    /\ pubLive \subseteq 1..pubStarts
    /\ \A c \in Contexts : pubHandler[c].pc \in
         {"none", "select", "publish", "reconnect", "republish", "done"}
    /\ Len(pubChannel) <= PubCap

(* Every message that entered the channel is in it, in the hands of one    *)
(* goroutine, stored once or dropped; it is dropped, and the process       *)
(* panics, only if the connection failed or StopServer ran while the       *)
(* goroutine had it (or the server never had a connection).                *)
PubNothingVanishes ==
    LET entered == {pubEntered[i] : i \in 1..Len(pubEntered)}
        queued == {pubChannel[i] : i \in 1..Len(pubChannel)}
        stored == {pubStored[i] : i \in 1..Len(pubStored)} IN
    /\ entered = queued \cup InHand \cup stored \cup pubDropped
    /\ \A i, j \in 1..Len(pubStored) : pubStored[i] = pubStored[j] => i = j
    /\ stored \cap pubDropped = {}
    /\ pubDropped \subseteq pubHit
    /\ pubPanicked => InHand \cap pubHit # {} \/ pubStarts = 0

(* The stream keeps the order of the channel: two messages change places   *)
(* only if a failure or a stop met one of them (after a restart the old    *)
(* goroutine may hold a message while the new one stores the next).        *)
PubOrderKept ==
    \A i, j \in 1..Len(pubStored) : i < j =>
        \/ \E k, l \in 1..Len(pubEntered) :
              k < l /\ pubEntered[k] = pubStored[i] /\ pubEntered[l] = pubStored[j]
        \/ pubHit \cap {pubStored[i], pubStored[j]} # {}

(* What was put is neither lost nor doubled nor, undisturbed, reordered.   *)
PubKept == PubTypeOK /\ PubNothingVanishes /\ PubOrderKept

(* After a start that succeeded and until the next stop every message gets *)
(* out of its goroutine and out of the channel, however small that is.     *)
PubDelivers ==
    \A m \in PubMessages :
        (m \in pubWaiting) ~>
            \/ \E i \in DOMAIN pubStored : pubStored[i] = m
            \/ m \in pubDropped \/ pubPanicked
            \/ ~ \E c \in pubLive : pubHandler[c].pc # "none"
=============================================================================
