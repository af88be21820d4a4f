----------------------------- MODULE EventsBuild -----------------------------
(***************************************************************************)
(* batcher/events/events.go: the events payloads of one batch are combined *)
(* into requests of about maxBytes, and a payload bigger than maxBytes is  *)
(* split.  One action per iteration of the loops of Build and xxl2qq.      *)
(*                                                                         *)
(* A payload is a model value with a length and, when it unmarshals, a     *)
(* sequence of events.  What was unmarshalled always marshals again, so the*)
(* error branch of the closing loop is left out; maxBytes is positive (a   *)
(* configured zero makes the division of line 75 panic).                   *)
(***************************************************************************)
EXTENDS Naturals, Sequences, SequencesExt

CONSTANTS
    EvPayloads,       \* encoded payloads
    EvPayloadLen,     \* payload -> len(p)
    Events,         \* payload -> its events, in order
    EvMalformed,      \* payloads json.Unmarshal rejects
    EvBuffers,        \* contents of *buf that Build may be called with
    EvLimits          \* values of maxBytes

AllEvents == UNION {ToSet(Events[p]) : p \in EvPayloads}

ASSUME EvLenAssumption == EvPayloadLen \in [EvPayloads -> Nat]
ASSUME EventsAssumption ==
    /\ DOMAIN Events = EvPayloads
    /\ \A p \in EvPayloads : Events[p] \in Seq(AllEvents)
ASSUME MalformedAssumption == EvMalformed \subseteq EvPayloads
ASSUME EvBuffersAssumption == \A b \in EvBuffers : b \in Seq(EvPayloads) /\ IsInjective(b)
ASSUME EvLimitsAssumption == EvLimits \subseteq Nat \ {0}

(* An event stands for one of its occurrences in the payloads, as a        *)
(* payload in a buffer does for one call of Add.                           *)
ASSUME EventOccurrencesAssumption ==
    \A p, q \in EvPayloads : \A i \in 1 .. Len(Events[p]), j \in 1 .. Len(Events[q]) :
        Events[p][i] = Events[q][j] => p = q /\ i = j

VARIABLES
    evMaxBytes,
    evBuf,        \* payloads of *buf not yet scanned
    evC,          \* bytes combined into bq
    evBq,         \* events of the request being combined
    evQq,         \* the requests made, each a sequence of events
    evXxl,        \* events of the payload being split, from i1 on
    evLim,        \* events per part
    evBuilt,      \* TRUE once Build returned
    evScanned     \* history: payloads taken from *buf

evVars == <<evMaxBytes, evBuf, evC, evBq, evQq, evXxl, evLim, evBuilt, evScanned>>

EvInit ==
    /\ evMaxBytes \in EvLimits
    /\ evBuf \in EvBuffers
    /\ evC = 0
    /\ evBq = <<>>
    /\ evQq = <<>>
    /\ evXxl = <<>>
    /\ evLim = 1
    /\ evBuilt = FALSE
    /\ evScanned = <<>>

(* The loop of Build takes the next payload. *)
EvScan(p) ==
    /\ evXxl = <<>>
    /\ evBuf # <<>>
    /\ p = Head(evBuf)
    /\ evBuf' = Tail(evBuf)
    /\ evScanned' = Append(evScanned, p)

(* Build and xxl2qq log a payload that does not unmarshal and go on. *)
EvSkip(p) ==
    /\ EvScan(p)
    /\ p \in EvMalformed
    /\ UNCHANGED <<evMaxBytes, evC, evBq, evQq, evXxl, evLim, evBuilt>>

(* Events per part of a split payload. *)
EvPartLimit(cnt, len) == cnt \div (len \div evMaxBytes + 1) + 1

(* xxl2qq up to its loop. *)
EvSplit(p) ==
    /\ EvScan(p)
    /\ p \notin EvMalformed
    /\ EvPayloadLen[p] > evMaxBytes
    /\ evXxl' = Events[p]
    /\ evLim' = EvPartLimit(Len(Events[p]), EvPayloadLen[p])
    /\ UNCHANGED <<evMaxBytes, evC, evBq, evQq, evBuilt>>

(* One part, ahead of what is in bq. *)
PartEnd == IF evLim > Len(evXxl) THEN Len(evXxl) ELSE evLim
SplitPart ==
    /\ evXxl # <<>>
    /\ evQq' = Append(evQq, SubSeq(evXxl, 1, PartEnd))
    /\ evXxl' = SubSeq(evXxl, PartEnd + 1, Len(evXxl))
    /\ UNCHANGED <<evMaxBytes, evBuf, evC, evBq, evLim, evBuilt, evScanned>>

Full(n) == n >= evMaxBytes

(* Mutant of Combine: the payload that fills bq is not in it. *)
CombineDrops(p) ==
    LET full == Full(evC + EvPayloadLen[p])
    IN  /\ EvScan(p)
        /\ p \notin EvMalformed
        /\ EvPayloadLen[p] <= evMaxBytes
        /\ evQq' = IF full THEN Append(evQq, evBq) ELSE evQq
        /\ evBq' = IF full THEN <<>> ELSE evBq \o Events[p]
        /\ evC' = IF full THEN 0 ELSE evC + EvPayloadLen[p]
        /\ UNCHANGED <<evMaxBytes, evXxl, evLim, evBuilt>>

(* The payload joins bq, which is closed when it reaches maxBytes. *)
EvCombine(p) ==
    LET full == Full(evC + EvPayloadLen[p])
        more == evBq \o Events[p]
    IN  /\ EvScan(p)
        /\ p \notin EvMalformed
        /\ EvPayloadLen[p] <= evMaxBytes
        /\ evQq' = IF full THEN Append(evQq, more) ELSE evQq
        /\ evBq' = IF full THEN <<>> ELSE more
        /\ evC' = IF full THEN 0 ELSE evC + EvPayloadLen[p]
        /\ UNCHANGED <<evMaxBytes, evXxl, evLim, evBuilt>>

(* Mutant of Finish: the rest goes in front. *)
FinishFirst ==
    /\ evBuf = <<>>
    /\ evXxl = <<>>
    /\ ~evBuilt
    /\ evQq' = IF evBq # <<>> THEN <<evBq>> \o evQq ELSE evQq
    /\ evBq' = <<>>
    /\ evBuilt' = TRUE
    /\ UNCHANGED <<evMaxBytes, evBuf, evC, evXxl, evLim, evScanned>>

(* After the loop: what is left of bq, unless empty. *)
EvFinish ==
    /\ evBuf = <<>>
    /\ evXxl = <<>>
    /\ ~evBuilt
    /\ evQq' = IF evBq # <<>> THEN Append(evQq, evBq) ELSE evQq
    /\ evBq' = <<>>
    /\ evBuilt' = TRUE
    /\ UNCHANGED <<evMaxBytes, evBuf, evC, evXxl, evLim, evScanned>>

EvNext ==
    \/ \E p \in EvPayloads : EvSkip(p) \/ EvSplit(p) \/ EvCombine(p)
    \/ SplitPart
    \/ EvFinish

EvSpec == EvInit /\ [][EvNext]_evVars

-----------------------------------------------------------------------------
(* Properties *)

(* Types of Build's local state. *)
EvTypeOK ==
    /\ evMaxBytes \in EvLimits
    /\ evBuf \in Seq(EvPayloads)
    /\ evC \in Nat
    /\ evBq \in Seq(AllEvents)
    /\ evQq \in Seq(Seq(AllEvents))
    /\ evXxl \in Seq(AllEvents)
    /\ evLim \in Nat \ {0}
    /\ evBuilt \in BOOLEAN
    /\ evScanned \in Seq(EvPayloads)

InSome(x, ss) == \E i \in 1 .. Len(ss) : Contains(ss[i], x)

(* What Build has taken over: the events of the well-formed payloads. *)
EvTaken(e) == \E i \in 1 .. Len(evScanned) :
    evScanned[i] \notin EvMalformed /\ Contains(Events[evScanned[i]], e)
Held(e) == InSome(e, evQq) \/ Contains(evXxl, e) \/ Contains(evBq, e)

(* Build neither drops nor invents an event: at every iteration an event   *)
(* of a payload taken so far is in a finished request, in the rest of the  *)
(* payload being split or in the request being combined, and nothing else  *)
(* is.  When Build returns, only the finished requests are left.           *)
EventsConserved ==
    /\ \A e \in AllEvents : EvTaken(e) <=> Held(e)
    /\ evBuilt => evBq = <<>> /\ evXxl = <<>> /\ evBuf = <<>>

(* A request that is still being combined is smaller than maxBytes: a full *)
(* one is closed by the iteration that filled it, so the payloads combined *)
(* into one request are past the limit by less than the last of them.      *)
CombinedBelowLimit == evC < evMaxBytes

(* Combining and splitting keep every event, in requests that are closed   *)
(* once they are full.                                                     *)
EventsKept == EvTypeOK /\ EventsConserved /\ CombinedBelowLimit

(* An event overtakes an event of an earlier payload only when its own     *)
(* payload was split, since xxl2qq puts the parts ahead of bq; and, payload*)
(* by payload, no event is sent twice.                                     *)
Sent == FlattenSeq(evQq)
OnlySplitsOvertake ==
    /\ IsInjective(Sent)
    /\ \A i, j \in 1 .. Len(Sent), m, n \in 1 .. Len(evScanned) :
        /\ Contains(Events[evScanned[m]], Sent[i])
        /\ Contains(Events[evScanned[n]], Sent[j])
        /\ i < j /\ n < m
        => EvPayloadLen[evScanned[m]] > evMaxBytes
=============================================================================
