---------------------------- MODULE MetricsBuild ----------------------------
(***************************************************************************)
(* batcher/metrics/metrics.go: the metrics payloads of one batch are       *)
(* combined into requests of about maxBytes.  A payload that reports a host*)
(* status is not combined, a payload bigger than maxBytes is split into    *)
(* parts of lim services.  One action per iteration of the loops.          *)
(*                                                                         *)
(* A payload is a model value with a length and, when it unmarshals, its   *)
(* resources, groups and trace token; the rest of its context plays no     *)
(* role.  Marshalling what was unmarshalled does not fail, and maxBytes is *)
(* positive (zero makes the division of line 100 panic).                   *)
(***************************************************************************)
EXTENDS Naturals, Sequences, SequencesExt

CONSTANTS
    MtPayloads,       \* encoded payloads
    MtPayloadLen,     \* payload -> len(p)
    MtMalformed,      \* payloads json.Unmarshal rejects
    Resources,      \* payload -> sequence of [host, changed, services]
    Groups,         \* payload -> sequence of [key, members]
    LongTokens,     \* payloads whose trace token has more than 14 bytes
    NoPayload,
    MtBuffers,        \* contents of *buf that Build may be called with
    MtLimits          \* values of maxBytes

ASSUME MtLenAssumption == MtPayloadLen \in [MtPayloads -> Nat]
ASSUME PayloadAssumption == MtMalformed \cup LongTokens \subseteq MtPayloads /\ NoPayload \notin MtPayloads
ASSUME MtBuffersAssumption == \A b \in MtBuffers : b \in Seq(MtPayloads) /\ IsInjective(b)
ASSUME MtLimitsAssumption == MtLimits \subseteq Nat \ {0}

AllResources == UNION {ToSet(Resources[p]) : p \in MtPayloads}
AllServices == UNION {ToSet(r.services) : r \in AllResources}
Hosts == {r.host : r \in AllResources}
ResourceTypes == [host : Hosts, changed : BOOLEAN, services : Seq(AllServices)]
AllGroups == UNION {ToSet(Groups[p]) : p \in MtPayloads}

ASSUME ResourcesAssumption ==
    \A p \in MtPayloads : Resources[p] \in Seq(ResourceTypes) /\ Groups[p] \in Seq(AllGroups)

(* A service stands for one of its occurrences in the payloads, as a       *)
(* payload in a buffer does for one call of Add.                           *)
ASSUME OccurrencesAssumption ==
    \A p, q \in MtPayloads : \A i \in 1 .. Len(Resources[p]), j \in 1 .. Len(Resources[q]) :
        \A m \in 1 .. Len(Resources[p][i].services), n \in 1 .. Len(Resources[q][j].services) :
            Resources[p][i].services[m] = Resources[q][j].services[n] => p = q /\ i = j /\ m = n

VARIABLES
    mtMaxBytes,
    mtBuf,        \* payloads of *buf not yet scanned
    mtC,          \* bytes combined into bq
    mtBq,         \* the request being combined
    mtQq,         \* the requests made
    xp,         \* the payload xxl2qq is splitting, or NoPayload
    mtXxl,        \* its resources not yet done, with their services left
    pr,         \* services of the part being filled, all of Head(xxl)
    cx,         \* the counter c of xxl2qq
    mtLim,        \* services per part
    out,        \* the requests with their groups packed
    mtBuilt,      \* TRUE once Build returned
    mtScanned     \* history: payloads taken from *buf

splitVars == <<xp, mtXxl, pr, cx, mtLim>>
mtVars == <<mtMaxBytes, mtBuf, mtC, mtBq, mtQq, splitVars, out, mtBuilt, mtScanned>>

(* The token of a payload is the payload and the number in its middle. *)
NoToken == [of |-> NoPayload, part |-> 0]
TokenOf(p) == [of |-> p, part |-> 0]
EmptyRequest == [resources |-> <<>>, groups |-> <<>>, token |-> NoToken]

MtInit ==
    /\ mtMaxBytes \in MtLimits
    /\ mtBuf \in MtBuffers
    /\ mtC = 0
    /\ mtBq = EmptyRequest
    /\ mtQq = <<>>
    /\ xp = NoPayload
    /\ mtXxl = <<>>
    /\ pr = <<>>
    /\ cx = 0
    /\ mtLim = 1
    /\ out = <<>>
    /\ mtBuilt = FALSE
    /\ mtScanned = <<>>

(* The loop of Build takes the next payload. *)
MtScan(p) ==
    /\ xp = NoPayload
    /\ mtBuf # <<>>
    /\ p = Head(mtBuf)
    /\ mtBuf' = Tail(mtBuf)
    /\ mtScanned' = Append(mtScanned, p)
    /\ UNCHANGED <<mtMaxBytes, out, mtBuilt>>

(* Build and xxl2qq log a payload that does not unmarshal and go on. *)
MtSkip(p) ==
    /\ MtScan(p)
    /\ p \in MtMalformed
    /\ UNCHANGED <<mtC, mtBq, mtQq, splitVars>>

hasStatus(p) == \E i \in 1 .. Len(Resources[p]) : Resources[p][i].changed

RequestOf(p) == [resources |-> Resources[p], groups |-> Groups[p], token |-> TokenOf(p)]

(* Mutant of PutStatus: what was combined so far stays behind. *)
PutStatusAhead(p) ==
    /\ MtScan(p)
    /\ p \notin MtMalformed
    /\ MtPayloadLen[p] <= mtMaxBytes
    /\ hasStatus(p)
    /\ mtQq' = Append(mtQq, RequestOf(p))
    /\ UNCHANGED <<mtBq, mtC, splitVars>>

(* A host status: bq and the payload are put one after the other. *)
PutStatus(p) ==
    LET flush == mtBq.resources # <<>>
    IN  /\ MtScan(p)
        /\ p \notin MtMalformed
        /\ MtPayloadLen[p] <= mtMaxBytes
        /\ hasStatus(p)
        /\ mtQq' = Append(IF flush THEN Append(mtQq, mtBq) ELSE mtQq, RequestOf(p))
        /\ mtBq' = IF flush THEN EmptyRequest ELSE mtBq
        /\ mtC' = IF flush THEN 0 ELSE mtC
        /\ UNCHANGED splitVars

(* Mutant of Combine: bq is not emptied when it is closed. *)
CombineKeeps(p) ==
    LET full == mtC + MtPayloadLen[p] >= mtMaxBytes
        more == [resources |-> mtBq.resources \o Resources[p],
                 groups    |-> mtBq.groups \o Groups[p],
                 token     |-> TokenOf(p)]
    IN  /\ MtScan(p)
        /\ p \notin MtMalformed
        /\ MtPayloadLen[p] <= mtMaxBytes
        /\ ~hasStatus(p)
        /\ mtQq' = IF full THEN Append(mtQq, more) ELSE mtQq
        /\ mtBq' = more
        /\ mtC' = IF full THEN 0 ELSE mtC + MtPayloadLen[p]
        /\ UNCHANGED splitVars

(* The payload joins bq, which is closed when it reaches maxBytes. *)
MtCombine(p) ==
    LET full == mtC + MtPayloadLen[p] >= mtMaxBytes
        more == [resources |-> mtBq.resources \o Resources[p],
                 groups    |-> mtBq.groups \o Groups[p],
                 token     |-> TokenOf(p)]
    IN  /\ MtScan(p)
        /\ p \notin MtMalformed
        /\ MtPayloadLen[p] <= mtMaxBytes
        /\ ~hasStatus(p)
        /\ mtQq' = IF full THEN Append(mtQq, more) ELSE mtQq
        /\ mtBq' = IF full THEN EmptyRequest ELSE more
        /\ mtC' = IF full THEN 0 ELSE mtC + MtPayloadLen[p]
        /\ UNCHANGED splitVars

-----------------------------------------------------------------------------
(* xxl2qq *)

ServiceCount(p) ==
    LET counted[i \in 0 .. Len(Resources[p])] ==
            IF i = 0 THEN 0 ELSE counted[i - 1] + Len(Resources[p][i].services)
    IN  counted[Len(Resources[p])]

(* Services per part of a split payload. *)
MtPartLimit(cnt, len) == cnt \div (len \div mtMaxBytes + 1) + 1

MtSplit(p) ==
    /\ MtScan(p)
    /\ p \notin MtMalformed
    /\ MtPayloadLen[p] > mtMaxBytes
    /\ xp' = p
    /\ mtXxl' = Resources[p]
    /\ pr' = <<>>
    /\ cx' = 0
    /\ mtLim' = MtPartLimit(ServiceCount(p), MtPayloadLen[p])
    /\ UNCHANGED <<mtC, mtBq, mtQq>>

WithServices(res, services) == [host |-> res.host, changed |-> res.changed, services |-> services]

(* One service: the part is put when the counter, which runs on over the   *)
(* resources, reaches lim.                                                 *)
SplitService ==
    LET res  == Head(mtXxl)
        part == Append(pr, Head(res.services))
        full == cx + 1 >= mtLim
    IN  /\ mtXxl # <<>>
        /\ res.services # <<>>
        /\ mtXxl' = [mtXxl EXCEPT ![1] = WithServices(res, Tail(res.services))]
        /\ pr' = IF full THEN <<>> ELSE part
        /\ cx' = IF full THEN 0 ELSE cx + 1
        /\ mtQq' = IF ~full THEN mtQq
                 ELSE Append(mtQq, [resources |-> <<WithServices(res, part)>>,
                                  groups    |-> Groups[xp],
                                  token     |-> TokenOf(xp)])
        /\ UNCHANGED <<mtMaxBytes, mtBuf, mtC, mtBq, xp, mtLim, out, mtBuilt, mtScanned>>

(* The next resource starts with a pr of its own; the services left in the *)
(* old one are in no part.                                                 *)
SplitResource ==
    /\ mtXxl # <<>>
    /\ Head(mtXxl).services = <<>>
    /\ mtXxl' = Tail(mtXxl)
    /\ pr' = <<>>
    /\ UNCHANGED <<mtMaxBytes, mtBuf, mtC, mtBq, mtQq, xp, cx, mtLim, out, mtBuilt, mtScanned>>

WithNumber(q, n) ==
    [resources |-> q.resources, groups |-> q.groups, token |-> [of |-> q.token.of, part |-> n]]

(* The end of xxl2qq: x has no resources here (a part is put as soon as it *)
(* gets one), and every request made so far gets its number into its token.*)
SplitEnd ==
    /\ xp # NoPayload
    /\ mtXxl = <<>>
    /\ mtQq' = [i \in 1 .. Len(mtQq) |->
                IF mtQq[i].token.of \in LongTokens THEN WithNumber(mtQq[i], i) ELSE mtQq[i]]
    /\ xp' = NoPayload
    /\ UNCHANGED <<mtMaxBytes, mtBuf, mtC, mtBq, mtXxl, pr, cx, mtLim, out, mtBuilt, mtScanned>>

-----------------------------------------------------------------------------
(* One group per key, with the members of all groups of that key. *)
packGroups(gs) ==
    [k \in {gs[i].key : i \in 1 .. Len(gs)} |->
        UNION {gs[i].members : i \in {j \in 1 .. Len(gs) : gs[j].key = k}}]

(* After the loop: what is left of bq, unless empty, and the groups. *)
MtFinish ==
    LET all == IF mtBq.resources # <<>> THEN Append(mtQq, mtBq) ELSE mtQq
    IN  /\ mtBuf = <<>>
        /\ xp = NoPayload
        /\ ~mtBuilt
        /\ mtQq' = all
        /\ out' = [i \in 1 .. Len(all) |->
                    [resources |-> all[i].resources, token |-> all[i].token,
                     groups |-> packGroups(all[i].groups)]]
        /\ mtBq' = EmptyRequest
        /\ mtBuilt' = TRUE
        /\ UNCHANGED <<mtMaxBytes, mtBuf, mtC, splitVars, mtScanned>>

MtNext ==
    \/ \E p \in MtPayloads : MtSkip(p) \/ PutStatus(p) \/ MtCombine(p) \/ MtSplit(p)
    \/ SplitService
    \/ SplitResource
    \/ SplitEnd
    \/ MtFinish

MtSpec == MtInit /\ [][MtNext]_mtVars

-----------------------------------------------------------------------------
(* Properties *)

(* Types of Build's local state. *)
MtTypeOK ==
    /\ mtBuf \in Seq(MtPayloads)
    /\ mtC \in Nat /\ cx \in Nat
    /\ mtLim \in Nat \ {0} /\ cx < mtLim
    /\ xp \in MtPayloads \cup {NoPayload}
    /\ pr \in Seq(AllServices)
    /\ \A i \in 1 .. Len(mtQq) : \A j \in 1 .. Len(mtQq[i].resources) :
        /\ mtQq[i].resources[j].host \in Hosts
        /\ mtQq[i].resources[j].services \in Seq(AllServices)

Oversized(p) == MtPayloadLen[p] > mtMaxBytes
Requests == Append(mtQq, mtBq)
Carries(q, s) == \E i \in 1 .. Len(q.resources) : Contains(q.resources[i].services, s)
Carriers(s) == {i \in 1 .. Len(Requests) : Carries(Requests[i], s)}
OfPayload(s, p) == \E i \in 1 .. Len(Resources[p]) : Contains(Resources[p][i].services, s)
MtTaken == {p \in ToSet(mtScanned) : p \notin MtMalformed}

(* A service of a payload that is not split is in exactly one request, and *)
(* no request ever carries a service of a payload not taken or carries one *)
(* twice, parts of a split included.                                       *)
ServicesCarriedOnce ==
    \A s \in AllServices :
        /\ Carriers(s) # {} => \E p \in MtTaken : OfPayload(s, p)
        /\ \A i, j \in Carriers(s) : i = j
        /\ (\E p \in MtTaken : ~Oversized(p) /\ OfPayload(s, p)) => Carriers(s) # {}

(* "in case of not HostUnchanged stop combining": a request with a host    *)
(* status has the resources of one payload only, and metrics taken before  *)
(* a status are put before it, those taken after it behind it.             *)
StatusIsABarrier ==
    \A p, r \in MtTaken : ~Oversized(p) /\ hasStatus(p) /\ ~Oversized(r) /\ r # p =>
        \A s, t \in AllServices : OfPayload(s, p) /\ OfPayload(t, r) =>
            \A i \in Carriers(s), j \in Carriers(t) :
                /\ i # j
                /\ (\E m, n \in 1 .. Len(mtScanned) :
                        m < n /\ mtScanned[m] = p /\ mtScanned[n] = r) <=> i < j

(* What Build returns: a request has for each group key one group, with    *)
(* every member the payloads combined into it gave for this key, and the   *)
(* parts of a split each have the groups of the whole.                     *)
GroupsKept ==
    \A i \in 1 .. Len(out), p \in MtTaken, s \in AllServices :
        OfPayload(s, p) /\ Carries(out[i], s) =>
            \A g \in 1 .. Len(Groups[p]) :
                /\ Groups[p][g].key \in DOMAIN out[i].groups
                /\ Groups[p][g].members \subseteq out[i].groups[Groups[p][g].key]

(* The parts of a split payload have different trace tokens once xxl2qq is *)
(* done, also after later payloads were split.                             *)
PartsHaveOwnToken ==
    xp = NoPayload =>
        \A i, j \in 1 .. Len(mtQq) :
            i # j /\ mtQq[i].token.of \in LongTokens => mtQq[i].token # mtQq[j].token

(* The requests carry what the payloads gave, once: services, groups and   *)
(* tokens, however payloads are combined and split.                        *)
MetricsKept == MtTypeOK /\ ServicesCarriedOnce /\ GroupsKept /\ PartsHaveOwnToken

(* "splits incoming payloads bigger than maxBytes", "split big payload for *)
(* parts contained ~lim services": once xxl2qq is done, each service of    *)
(* the payload is in one of the parts.                                     *)
SplitKeepsServices ==
    xp = NoPayload =>
        \A p \in MtTaken, s \in AllServices : OfPayload(s, p) => Carriers(s) # {}
=============================================================================
