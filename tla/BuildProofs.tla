----------------------------- MODULE BuildProofs -----------------------------
(* Proofs about the two batch builders, EventsBuild and MetricsBuild, for  *)
(* any payloads, buffers and limits.  The facts about sequences are those  *)
(* of BatcherProofs.                                                       *)
EXTENDS BatcherProofs, EventsBuild, MetricsBuild

-----------------------------------------------------------------------------
(* Building the requests of events *)

(* What is in some request after one more is put.                          *)
LEMMA InSomeAppend ==
    ASSUME NEW S, NEW ss \in Seq(Seq(S)), NEW s \in Seq(S), NEW x
    PROVE  InSome(x, Append(ss, s)) <=> InSome(x, ss) \/ Contains(s, x)
  <1>1. /\ Len(Append(ss, s)) = Len(ss) + 1 /\ Append(ss, s)[Len(ss) + 1] = s /\ Len(ss) \in Nat
        /\ \A i \in 1 .. Len(ss) : Append(ss, s)[i] = ss[i]
    BY AppendProperties, LenProperties
  <1>2. QED
    BY <1>1 DEF InSome

(* A part of a split payload has one event at least, and the divisions are *)
(* by positive numbers.                                                    *)
LEMMA PartLimitPositive ==
    ASSUME NEW cnt \in Nat, NEW len \in Nat, evMaxBytes \in Nat \ {0}
    PROVE  EvPartLimit(cnt, len) \in Nat \ {0}
  <1>1. len \div evMaxBytes \in Nat
    OBVIOUS
  <1>2. cnt \div (len \div evMaxBytes + 1) \in Nat
    BY <1>1
  <1>3. QED
    BY <1>2 DEF EvPartLimit

(* Taking a payload from the buffer.                                       *)
LEMMA ScanTypes ==
    ASSUME EvTypeOK, NEW p \in EvPayloads, EvScan(p)
    PROVE  /\ evBuf' \in Seq(EvPayloads) /\ evScanned' \in Seq(EvPayloads)
           /\ Events[p] \in Seq(AllEvents) /\ EvPayloadLen[p] \in Nat
           /\ evXxl = <<>> /\ evBuf # <<>>
           /\ \A e : EvTaken(e)' <=> EvTaken(e) \/ (p \notin EvMalformed /\ Contains(Events[p], e))
  <1>1. evBuf' \in Seq(EvPayloads) /\ evScanned' \in Seq(EvPayloads)
    BY AppendProperties, HeadTailProperties DEF EvTypeOK, EvScan
  <1>2. /\ Len(evScanned') = Len(evScanned) + 1 /\ evScanned'[Len(evScanned) + 1] = p
        /\ \A i \in 1 .. Len(evScanned) : evScanned'[i] = evScanned[i]
        /\ Len(evScanned) \in Nat
    BY AppendProperties, LenProperties DEF EvTypeOK, EvScan
  <1>3. ASSUME NEW e
        PROVE  EvTaken(e)' <=> EvTaken(e) \/ (p \notin EvMalformed /\ Contains(Events[p], e))
    <2> DEFINE Here(q) == q \notin EvMalformed /\ Contains(Events[q], e)
    <2>1. /\ EvTaken(e) <=> \E i \in 1 .. Len(evScanned) : Here(evScanned[i])
          /\ EvTaken(e)' <=> \E i \in 1 .. Len(evScanned') : Here(evScanned'[i])
      BY DEF EvTaken
    <2> HIDE DEF Here
    <2>2. EvTaken(e)' <=> EvTaken(e) \/ Here(p)
      BY <1>2, <2>1
    <2>3. QED
      BY <2>2 DEF Here
  <1>4. QED
    BY <1>1, <1>3, EvLenAssumption, EventsAssumption DEF EvScan

(* Every iteration of Build and xxl2qq keeps the events.                   *)
LEMMA EventsStep == EventsKept /\ [EvNext]_evVars => EventsKept'
  <1> SUFFICES ASSUME EvTypeOK, EventsConserved, CombinedBelowLimit, [EvNext]_evVars
               PROVE  EvTypeOK' /\ EventsConserved' /\ CombinedBelowLimit'
    BY DEF EventsKept
  <1>0. evMaxBytes \in Nat \ {0} /\ <<>> \in Seq(AllEvents) /\ \A x : ~Contains(<<>>, x)
    BY EvLimitsAssumption, EmptySeq, EmptyPlace DEF EvTypeOK
  <1>1. ASSUME NEW p \in EvPayloads, EvSkip(p)
        PROVE  EvTypeOK' /\ EventsConserved' /\ CombinedBelowLimit'
    <2>1. EvScan(p)
      BY <1>1 DEF EvSkip
    <2>2. EvTypeOK' /\ CombinedBelowLimit'
      BY <1>1, <2>1, ScanTypes DEF EvSkip, EvTypeOK, CombinedBelowLimit
    <2>3. EventsConserved'
      BY <1>1, <2>1, ScanTypes DEF EvSkip, EventsConserved, Held
    <2>4. QED
      BY <2>2, <2>3
  <1>2. ASSUME NEW p \in EvPayloads, EvSplit(p)
        PROVE  EvTypeOK' /\ EventsConserved' /\ CombinedBelowLimit'
    <2>1. EvScan(p)
      BY <1>2 DEF EvSplit
    <2>2. EvPartLimit(Len(Events[p]), EvPayloadLen[p]) \in Nat \ {0}
      BY <1>0, <2>1, ScanTypes, PartLimitPositive, LenProperties
    <2>3. EvTypeOK' /\ CombinedBelowLimit'
      BY <1>2, <2>1, <2>2, ScanTypes DEF EvSplit, EvTypeOK, CombinedBelowLimit
    <2>4. EventsConserved'
      BY <1>0, <1>2, <2>1, ScanTypes DEF EvSplit, EventsConserved, Held
    <2>5. QED
      BY <2>3, <2>4
  <1>3. ASSUME NEW p \in EvPayloads, EvCombine(p)
        PROVE  EvTypeOK' /\ EventsConserved' /\ CombinedBelowLimit'
    <2> DEFINE more == evBq \o Events[p]
    <2>1. EvScan(p) /\ p \notin EvMalformed /\ UNCHANGED <<evMaxBytes, evXxl, evLim, evBuilt>>
      BY <1>3 DEF EvCombine
    <2>2. /\ more \in Seq(AllEvents)
          /\ \A x : Contains(more, x) <=> Contains(evBq, x) \/ Contains(Events[p], x)
      BY <2>1, ScanTypes, ConcatProperties, ContainsConcat DEF EvTypeOK
    <2>3. \/ /\ evQq' = Append(evQq, more) /\ evBq' = <<>> /\ evC' = 0
          \/ /\ evQq' = evQq /\ evBq' = more /\ evC' = evC + EvPayloadLen[p]
             /\ evC + EvPayloadLen[p] < evMaxBytes
      <3>1. EvPayloadLen[p] \in Nat /\ evC \in Nat /\ evMaxBytes \in Nat
        BY <1>0, <2>1, ScanTypes DEF EvTypeOK
      <3>2. CASE Full(evC + EvPayloadLen[p])
        BY <1>3, <3>2 DEF EvCombine
      <3>3. CASE ~Full(evC + EvPayloadLen[p])
        <4>1. evC + EvPayloadLen[p] < evMaxBytes
          BY <3>1, <3>3 DEF Full
        <4>2. QED
          BY <1>3, <3>3, <4>1 DEF EvCombine
      <3>4. QED
        BY <3>2, <3>3
    <2> HIDE DEF more
    <2>4. /\ Append(evQq, more) \in Seq(Seq(AllEvents))
          /\ \A x : InSome(x, Append(evQq, more)) <=> InSome(x, evQq) \/ Contains(more, x)
      BY <2>2, InSomeAppend, AppendProperties DEF EvTypeOK
    <2>5. EvTypeOK' /\ CombinedBelowLimit'
      <3>1. /\ EvPayloadLen[p] \in Nat /\ evC \in Nat
            /\ evBuf' \in Seq(EvPayloads) /\ evScanned' \in Seq(EvPayloads)
        BY <2>1, ScanTypes DEF EvTypeOK
      <3>2. evC' \in Nat /\ evC' < evMaxBytes
        BY <1>0, <2>3, <3>1
      <3>3. evBq' \in Seq(AllEvents) /\ evQq' \in Seq(Seq(AllEvents))
        BY <1>0, <2>2, <2>3, <2>4 DEF EvTypeOK
      <3>4. QED
        BY <2>1, <3>1, <3>2, <3>3 DEF EvTypeOK, CombinedBelowLimit
    <2>6. ~evBuilt'
      BY <2>1, ScanTypes DEF EventsConserved
    <2>7. \A e \in AllEvents : Held(e)' <=> Held(e) \/ Contains(Events[p], e)
      BY <1>0, <2>1, <2>2, <2>3, <2>4 DEF Held
    <2>8. EventsConserved'
      BY <2>1, <2>6, <2>7, ScanTypes DEF EventsConserved
    <2>9. QED
      BY <2>5, <2>8
  <1>4. ASSUME SplitPart PROVE EvTypeOK' /\ EventsConserved' /\ CombinedBelowLimit'
    <2> DEFINE part == SubSeq(evXxl, 1, PartEnd)
               rest == SubSeq(evXxl, PartEnd + 1, Len(evXxl))
    <2>1. /\ evQq' = Append(evQq, part) /\ evXxl' = rest /\ evXxl # <<>>
          /\ UNCHANGED <<evMaxBytes, evBuf, evC, evBq, evLim, evBuilt, evScanned>>
      BY <1>4 DEF SplitPart
    <2>2. PartEnd \in 1 .. Len(evXxl)
      BY <2>1, LenProperties, EmptySeq DEF PartEnd, EvTypeOK
    <2>3. /\ part \in Seq(AllEvents) /\ rest \in Seq(AllEvents)
          /\ \A x : Contains(evXxl, x) <=> Contains(part, x) \/ Contains(rest, x)
      BY <2>2, CutInTwo, ContainsCut DEF EvTypeOK
    <2> HIDE DEF part, rest
    <2>4. /\ evQq' \in Seq(Seq(AllEvents))
          /\ \A x : InSome(x, evQq') <=> InSome(x, evQq) \/ Contains(part, x)
      BY <2>1, <2>3, InSomeAppend, AppendProperties DEF EvTypeOK
    <2>5. EvTypeOK' /\ CombinedBelowLimit'
      BY <2>1, <2>3, <2>4 DEF EvTypeOK, CombinedBelowLimit
    <2>6. \A e \in AllEvents : Held(e)' <=> Held(e)
      BY <2>1, <2>3, <2>4 DEF Held
    <2>7. EventsConserved'
      BY <2>1, <2>6 DEF EventsConserved, EvTaken
    <2>8. QED
      BY <2>5, <2>7
  <1>5. ASSUME EvFinish PROVE EvTypeOK' /\ EventsConserved' /\ CombinedBelowLimit'
    <2>1. /\ evQq' = IF evBq # <<>> THEN Append(evQq, evBq) ELSE evQq
          /\ evBuf = <<>> /\ evXxl = <<>> /\ evBq' = <<>> /\ evBuilt'
          /\ UNCHANGED <<evMaxBytes, evBuf, evC, evXxl, evLim, evScanned>>
      BY <1>5 DEF EvFinish
    <2>2. /\ evQq' \in Seq(Seq(AllEvents))
          /\ \A x : InSome(x, evQq') <=> InSome(x, evQq) \/ Contains(evBq, x)
      BY <1>0, <2>1, InSomeAppend, AppendProperties DEF EvTypeOK
    <2>3. EvTypeOK' /\ CombinedBelowLimit'
      BY <1>0, <1>5, <2>1, <2>2 DEF EvFinish, EvTypeOK, CombinedBelowLimit
    <2>4. \A e \in AllEvents : Held(e)' <=> Held(e)
      BY <1>0, <2>1, <2>2 DEF Held
    <2>5. EventsConserved'
      BY <2>1, <2>4 DEF EventsConserved, EvTaken
    <2>6. QED
      BY <2>3, <2>5
  <1>6. ASSUME UNCHANGED evVars PROVE EvTypeOK' /\ EventsConserved' /\ CombinedBelowLimit'
    BY <1>6 DEF evVars, EvTypeOK, EventsConserved, CombinedBelowLimit, Held, EvTaken
  <1>7. QED
    BY <1>1, <1>2, <1>3, <1>4, <1>5, <1>6 DEF EvNext

(* An empty Build.                                                         *)
LEMMA EvInitKept == EvInit => EventsKept
  <1> SUFFICES ASSUME EvInit PROVE EventsKept
    OBVIOUS
  <1>1. /\ <<>> \in Seq(AllEvents) /\ <<>> \in Seq(Seq(AllEvents)) /\ <<>> \in Seq(EvPayloads)
        /\ Len(<<>>) = 0 /\ \A x : ~Contains(<<>>, x)
    BY EmptySeq, EmptyPlace
  <1>2. EvTypeOK /\ CombinedBelowLimit
    <2>1. evMaxBytes \in Nat \ {0} /\ evBuf \in Seq(EvPayloads)
      BY EvBuffersAssumption, EvLimitsAssumption DEF EvInit
    <2>2. 0 < evMaxBytes /\ 0 \in Nat /\ 1 \in Nat \ {0}
      BY <2>1
    <2>3. QED
      BY <1>1, <2>1, <2>2, Zenon DEF EvInit, EvTypeOK, CombinedBelowLimit
  <1>3. EventsConserved
    BY <1>1 DEF EvInit, EventsConserved, EvTaken, Held, InSome
  <1>4. QED
    BY <1>2, <1>3 DEF EventsKept

(* Whatever payloads a batch has, however long they are and whatever       *)
(* maxBytes is, combining and splitting (Build and xxl2qq of events.go)    *)
(* keep every event of a payload that unmarshals, invent none, and close a *)
(* request as soon as it is full.                                          *)
THEOREM EventsAreKept == EvSpec => []EventsKept
  BY EvInitKept, EventsStep, PTL DEF EvSpec

(* An event of a finished, split or combined payload has one owner.        *)
LEMMA OneEventOwner ==
    ASSUME NEW p \in EvPayloads, NEW q \in EvPayloads, NEW e,
           Contains(Events[p], e), Contains(Events[q], e)
    PROVE  p = q
  BY EventOccurrencesAssumption DEF Contains

(* The events of one payload are distinct occurrences.                     *)
LEMMA DistinctEvents ==
    ASSUME NEW p \in EvPayloads
    PROVE  Distinct(Events[p]) /\ Events[p] \in Seq(AllEvents)
  BY EventOccurrencesAssumption, EventsAssumption DEF Distinct

(* The order in a concatenation is that of one of its parts, or across     *)
(* them.                                                                   *)
LEMMA BeforeInConcat ==
    ASSUME NEW S, NEW s \in Seq(S), NEW t \in Seq(S), NEW x, NEW y, Before(x, y, s \o t)
    PROVE  Before(x, y, s) \/ Before(x, y, t) \/ (Contains(s, x) /\ Contains(t, y))
  <1>1. /\ Len(s \o t) = Len(s) + Len(t) /\ Len(s) \in Nat /\ Len(t) \in Nat
        /\ \A i \in 1 .. Len(s) + Len(t) :
             (s \o t)[i] = IF i <= Len(s) THEN s[i] ELSE t[i - Len(s)]
    BY ConcatProperties, LenProperties
  <1>2. PICK i \in 1 .. Len(s \o t), j \in 1 .. Len(s \o t) :
          i < j /\ (s \o t)[i] = x /\ (s \o t)[j] = y
    BY DEF Before
  <1>3. CASE j <= Len(s)
    <2>1. i \in 1 .. Len(s) /\ j \in 1 .. Len(s) /\ s[i] = x /\ s[j] = y
      BY <1>1, <1>2, <1>3
    <2>2. QED
      BY <1>2, <2>1 DEF Before
  <1>4. CASE i > Len(s)
    <2>1. /\ i - Len(s) \in 1 .. Len(t) /\ j - Len(s) \in 1 .. Len(t) /\ i - Len(s) < j - Len(s)
          /\ t[i - Len(s)] = x /\ t[j - Len(s)] = y
      BY <1>1, <1>2, <1>4
    <2>2. QED
      BY <2>1 DEF Before
  <1>5. CASE i <= Len(s) /\ j > Len(s)
    <2>1. i \in 1 .. Len(s) /\ s[i] = x /\ j - Len(s) \in 1 .. Len(t) /\ t[j - Len(s)] = y
      BY <1>1, <1>2, <1>5
    <2>2. QED
      BY <2>1 DEF Contains
  <1>6. QED
    BY <1>1, <1>3, <1>4, <1>5

-----------------------------------------------------------------------------
(* FlattenSeq *)

(* The concatenations of the first sequences of ss, as FlattenSeq computes *)
(* them.                                                                   *)
IsFlat(f, ss) == f = [i \in 1 .. Len(ss) |-> IF i = 1 THEN ss[i] ELSE f[i - 1] \o ss[i]]

(* There are such concatenations: the first length without them would be   *)
(* neither 0 nor the successor of one with them.                           *)
LEMMA FlatExists ==
    ASSUME NEW S, NEW ss \in Seq(Seq(S))
    PROVE  \E f \in [1 .. Len(ss) -> Seq(S)] : IsFlat(f, ss)
  <1> DEFINE N == Len(ss)
             UpTo(f, n) == \A i \in 1 .. n : f[i] = IF i = 1 THEN ss[i] ELSE f[i - 1] \o ss[i]
             Flat(n) == \E f \in [1 .. N -> Seq(S)] : UpTo(f, n)
             T == {n \in 0 .. N : ~Flat(n)}
  <1>1. N \in Nat /\ \A i \in 1 .. N : ss[i] \in Seq(S)
    BY LenProperties, ElementOfSeq
  <1> HIDE DEF N
  <1>2. Flat(0)
    <2>1. [i \in 1 .. N |-> ss[i]] \in [1 .. N -> Seq(S)] /\ UpTo([i \in 1 .. N |-> ss[i]], 0)
      BY <1>1
    <2>2. QED
      BY <2>1
  <1>3. ASSUME NEW n \in 1 .. N, Flat(n - 1) PROVE Flat(n)
    <2>1. PICK f \in [1 .. N -> Seq(S)] : UpTo(f, n - 1)
      BY <1>3
    <2> DEFINE x == IF n = 1 THEN ss[n] ELSE f[n - 1] \o ss[n]
               g == [f EXCEPT ![n] = x]
    <2>2. x \in Seq(S)
      <3>1. CASE n = 1
        BY <1>1, <3>1
      <3>2. CASE n # 1
        <4>1. n - 1 \in 1 .. N
          BY <1>1, <3>2
        <4>2. f[n - 1] \in Seq(S) /\ ss[n] \in Seq(S)
          BY <1>1, <4>1
        <4>3. QED
          BY <3>2, <4>2, ConcatProperties
      <3>3. QED
        BY <3>1, <3>2
    <2> HIDE DEF x
    <2>3. g \in [1 .. N -> Seq(S)] /\ g[n] = x /\ \A i \in 1 .. N : i # n => g[i] = f[i]
      BY <2>2
    <2> HIDE DEF g
    <2>4. ASSUME NEW i \in 1 .. n PROVE g[i] = IF i = 1 THEN ss[i] ELSE g[i - 1] \o ss[i]
      <3>1. i \in 1 .. N /\ (i # 1 => i - 1 \in 1 .. N /\ i - 1 # n)
        BY <1>1
      <3>2. i # 1 => g[i - 1] = f[i - 1]
        BY <2>3, <3>1
      <3>3. CASE i = n
        BY <2>3, <3>2, <3>3 DEF x
      <3>4. CASE i # n
        <4>1. i \in 1 .. n - 1 /\ g[i] = f[i]
          BY <1>1, <2>3, <3>1, <3>4
        <4>2. QED
          BY <2>1, <3>2, <4>1
      <3>5. QED
        BY <3>3, <3>4
    <2>5. QED
      BY <2>3, <2>4
  <1> HIDE DEF Flat
  <1>4. T = {}
    <2> SUFFICES ASSUME T # {} PROVE FALSE
      OBVIOUS
    <2>1. PICK n \in T : \A y \in T : n <= y
      <3>1. T \subseteq Nat
        BY <1>1
      <3> HIDE DEF T
      <3>2. QED
        BY <3>1, SmallestOf
    <2>2. n \in 1 .. N /\ n - 1 \in 0 .. N /\ n - 1 \notin T
      BY <1>1, <1>2, <2>1
    <2>3. QED
      BY <1>3, <2>1, <2>2
  <1>5. Flat(N)
    BY <1>1, <1>4
  <1>6. PICK f \in [1 .. N -> Seq(S)] : UpTo(f, N)
    BY <1>5 DEF Flat
  <1>7. f = [i \in 1 .. N |-> IF i = 1 THEN ss[i] ELSE f[i - 1] \o ss[i]]
    <2> DEFINE h == [i \in 1 .. N |-> IF i = 1 THEN ss[i] ELSE f[i - 1] \o ss[i]]
    <2>1. \A i \in 1 .. N : f[i] = h[i]
      BY <1>6
    <2>2. QED
      BY <2>1
  <1>8. QED
    BY <1>6, <1>7 DEF IsFlat, N

(* f has the concatenations of the first n sequences of ss.                *)
FlatUpTo(f, n, ss) == \A i \in 1 .. n : f[i] = IF i = 1 THEN ss[i] ELSE f[i - 1] \o ss[i]

(* Two ways to flatten the first n sequences agree.                        *)
LEMMA FlatUnique ==
    ASSUME NEW N \in Nat, NEW ss, NEW f, NEW g,
           FlatUpTo(f, N, ss), FlatUpTo(g, N, ss)
    PROVE  \A i \in 1 .. N : f[i] = g[i]
  <1> DEFINE T == {i \in 1 .. N : f[i] # g[i]}
  <1> SUFFICES ASSUME T # {} PROVE FALSE
    OBVIOUS
  <1>1. PICK n \in T : \A y \in T : n <= y
    <2>1. T \subseteq Nat
      OBVIOUS
    <2> HIDE DEF T
    <2>2. QED
      BY <2>1, SmallestOf
  <1>2. CASE n = 1
    BY <1>1, <1>2 DEF FlatUpTo
  <1>3. CASE n # 1
    <2>1. n \in 1 .. N /\ n - 1 \in 1 .. N /\ n - 1 \notin T
      BY <1>1, <1>3
    <2>2. f[n - 1] = g[n - 1]
      BY <2>1
    <2>3. f[n] = g[n]
      BY <1>3, <2>1, <2>2 DEF FlatUpTo
    <2>4. QED
      BY <1>1, <2>3
  <1>4. QED
    BY <1>2, <1>3

(* FlattenSeq is what its definition says.                                 *)
LEMMA FlattenIs ==
    ASSUME NEW S, NEW ss \in Seq(Seq(S)), Len(ss) # 0
    PROVE  \E f : /\ FlattenSeq(ss) = f[Len(ss)] /\ FlattenSeq(ss) \in Seq(S)
                  /\ FlatUpTo(f, Len(ss), ss)
  <1> DEFINE f == CHOOSE h : IsFlat(h, ss)
  <1>0. Len(ss) \in Nat /\ Len(ss) \in 1 .. Len(ss)
    BY LenProperties
  <1>1. FlattenSeq(ss) = f[Len(ss)]
    BY DEF FlattenSeq, IsFlat
  <1>2. PICK g \in [1 .. Len(ss) -> Seq(S)] : IsFlat(g, ss)
    BY FlatExists
  <1>3. IsFlat(f, ss)
    BY <1>2, Zenon
  <1> HIDE DEF f
  <1>4. FlatUpTo(f, Len(ss), ss)
    BY <1>3 DEF IsFlat, FlatUpTo
  <1>5. FlatUpTo(g, Len(ss), ss)
    BY <1>2 DEF IsFlat, FlatUpTo
  <1>6. \A i \in 1 .. Len(ss) : f[i] = g[i]
    BY <1>0, <1>4, <1>5, FlatUnique
  <1>7. f[Len(ss)] \in Seq(S)
    BY <1>0, <1>2, <1>6
  <1>8. QED
    BY <1>1, <1>4, <1>7

(* The last of them.                                                       *)
LEMMA FlatLast ==
    ASSUME NEW n \in Nat, n > 1, NEW f, NEW ss, FlatUpTo(f, n, ss)
    PROVE  f[n] = f[n - 1] \o ss[n]
  <1>1. n \in 1 .. n /\ n # 1
    OBVIOUS
  <1>2. QED
    BY <1>1 DEF FlatUpTo

(* What is appended to the requests is sent behind everything else.        *)
LEMMA FlattenAppend ==
    ASSUME NEW S, NEW ss \in Seq(Seq(S)), NEW s \in Seq(S)
    PROVE  /\ FlattenSeq(ss) \in Seq(S)
           /\ FlattenSeq(Append(ss, s)) = FlattenSeq(ss) \o s
  <1> DEFINE N == Len(ss)
             tt == Append(ss, s)
  <1>1. /\ N \in Nat /\ tt \in Seq(Seq(S)) /\ Len(tt) = N + 1 /\ tt[N + 1] = s
        /\ \A i \in 1 .. N : tt[i] = ss[i]
    BY AppendProperties, LenProperties
  <1> HIDE DEF tt
  <1>2. PICK f : /\ FlattenSeq(tt) = f[Len(tt)]
                 /\ FlatUpTo(f, Len(tt), tt)
    <2>1. Len(tt) # 0
      BY <1>1
    <2>2. QED
      BY <1>1, <2>1, FlattenIs
  <1>3. CASE N = 0
    <2>1. ss = <<>> /\ FlattenSeq(ss) = <<>>
      BY <1>3, EmptySeq DEF FlattenSeq
    <2>2. FlattenSeq(tt) = s
      BY <1>1, <1>2, <1>3 DEF FlatUpTo
    <2>3. <<>> \o s = s /\ <<>> \in Seq(S)
      BY ConcatEmptySeq, EmptySeq
    <2>4. QED
      BY <2>1, <2>2, <2>3 DEF tt
  <1>4. CASE N # 0
    <2>1. PICK g : /\ FlattenSeq(ss) = g[N] /\ FlattenSeq(ss) \in Seq(S)
                   /\ FlatUpTo(g, N, ss)
      BY <1>4, FlattenIs
    <2>2. FlatUpTo(f, N, ss)
      BY <1>1, <1>2 DEF FlatUpTo
    <2>3. f[N] = g[N]
      <3>1. N \in 1 .. N
        BY <1>1, <1>4
      <3>2. QED
        BY <1>1, <2>1, <2>2, <3>1, FlatUnique
    <2>4. Len(tt) \in Nat /\ Len(tt) > 1 /\ Len(tt) - 1 = N /\ tt[Len(tt)] = s
      BY <1>1, <1>4
    <2>5. f[Len(tt)] = f[N] \o s
      <3> HIDE DEF N
      <3>1. f[Len(tt)] = f[Len(tt) - 1] \o tt[Len(tt)]
        BY <1>2, <2>4, FlatLast, Zenon
      <3>2. QED
        BY <2>4, <3>1, Zenon
    <2>6. QED
      BY <1>1, <1>2, <2>1, <2>3, <2>5 DEF tt
  <1>5. QED
    BY <1>3, <1>4

-----------------------------------------------------------------------------
(* The order of the events *)

(* The payloads xxl2qq splits, and the events of a payload.                *)
Big(p) == EvPayloadLen[p] > evMaxBytes
Gives(p, e) == Contains(Events[p], e)

(* e is of a payload that was scanned after that of f and not split.       *)
Late(e, f, sc) ==
    \E p, r \in EvPayloads : Gives(p, e) /\ Gives(r, f) /\ Before(r, p, sc) /\ ~Big(p)

(* sn are the events sent, xx those left of a split payload, bq those      *)
(* being combined, sc the payloads scanned.                                *)
OwnedBy(sn, xx, bq, sc) ==
    \A e : Contains(sn, e) \/ Contains(xx, e) \/ Contains(bq, e) =>
        \E p \in EvPayloads : Contains(sc, p) /\ Gives(p, e)

(* No event is held twice.                                                 *)
Apart(sn, xx, bq) ==
    /\ Distinct(sn) /\ Distinct(xx) /\ Distinct(bq)
    /\ \A e : Contains(sn, e) => ~Contains(xx, e) /\ ~Contains(bq, e)
    /\ \A e : Contains(xx, e) => ~Contains(bq, e)

(* No event sent or being combined is late compared to one behind it, and  *)
(* what is being split is of the payload scanned last.                     *)
NoneLate(sn, xx, bq, sc) ==
    /\ \A e, f : Before(e, f, sn) => ~Late(e, f, sc)
    /\ \A e, f : Before(e, f, bq) => ~Late(e, f, sc)
    /\ \A e, f : Contains(sn, e) /\ Contains(bq, f) => ~Late(e, f, sc)
    /\ \A e : Contains(xx, e) =>
          \E p \in EvPayloads : Gives(p, e) /\ Big(p) /\ \A q : ~Before(p, q, sc)

(* What holds of the four sequences at every iteration.                    *)
EventOrder(sn, xx, bq, sc) ==
    OwnedBy(sn, xx, bq, sc) /\ Apart(sn, xx, bq) /\ NoneLate(sn, xx, bq, sc)

(* OneEventOwner in terms of Gives.                                        *)
LEMMA OneGiver ==
    ASSUME NEW p \in EvPayloads, NEW q \in EvPayloads, NEW e, Gives(p, e), Gives(q, e)
    PROVE  p = q
  BY OneEventOwner DEF Gives

(* A payload just scanned makes no other event late, and nothing is late   *)
(* compared to its own.                                                    *)
LEMMA LateAppend ==
    ASSUME NEW sc \in Seq(EvPayloads), NEW p \in EvPayloads, ~Contains(sc, p), NEW e, NEW f
    PROVE  /\ ~Gives(p, e) /\ Late(e, f, Append(sc, p)) => Late(e, f, sc)
           /\ Gives(p, f) => ~Late(e, f, Append(sc, p))
           /\ \A q : ~Before(p, q, Append(sc, p))
  <1>1. \A x, y : Before(x, y, Append(sc, p)) <=> Before(x, y, sc) \/ (Contains(sc, x) /\ y = p)
    BY BeforeAppend
  <1>2. \A q : ~Before(p, q, Append(sc, p))
    BY <1>1, BeforeIsIn
  <1>3. ASSUME ~Gives(p, e), Late(e, f, Append(sc, p)) PROVE Late(e, f, sc)
    BY <1>1, <1>3 DEF Late
  <1>4. ASSUME Gives(p, f), Late(e, f, Append(sc, p)) PROVE FALSE
    BY <1>2, <1>4, OneGiver DEF Late
  <1>5. QED
    BY <1>2, <1>3, <1>4

(* What is held before p is scanned is not of p.                           *)
LEMMA HeldIsOther ==
    ASSUME NEW sn, NEW xx, NEW bq, NEW sc, OwnedBy(sn, xx, bq, sc),
           NEW p \in EvPayloads, ~Contains(sc, p), NEW e,
           Contains(sn, e) \/ Contains(xx, e) \/ Contains(bq, e)
    PROVE  ~Gives(p, e)
  BY OneGiver DEF OwnedBy

(* Scanning one more payload takes no event away from its owner.           *)
LEMMA OwnedMore ==
    ASSUME NEW sn, NEW xx, NEW bq, NEW sc \in Seq(EvPayloads), OwnedBy(sn, xx, bq, sc),
           NEW p \in EvPayloads
    PROVE  OwnedBy(sn, xx, bq, Append(sc, p)) /\ Contains(Append(sc, p), p)
  <1>1. \A x : Contains(Append(sc, p), x) <=> Contains(sc, x) \/ x = p
    BY ContainsAppend
  <1>2. QED
    BY <1>1 DEF OwnedBy

(* A payload that is not taken, or that will be split.                     *)
LEMMA TakeOrder ==
    ASSUME NEW sn, NEW bq, NEW sc \in Seq(EvPayloads), EventOrder(sn, <<>>, bq, sc),
           NEW p \in EvPayloads, ~Contains(sc, p)
    PROVE  /\ EventOrder(sn, <<>>, bq, Append(sc, p))
           /\ Big(p) => EventOrder(sn, Events[p], bq, Append(sc, p))
  <1> DEFINE sd == Append(sc, p)
  <1>1. /\ OwnedBy(sn, <<>>, bq, sd) /\ Contains(sd, p)
        /\ Apart(sn, <<>>, bq) /\ Distinct(Events[p]) /\ \A x : ~Contains(<<>>, x)
    BY OwnedMore, DistinctEvents, EmptyPlace DEF EventOrder
  <1>2. \A e : Contains(sn, e) \/ Contains(bq, e) => ~Gives(p, e)
    BY HeldIsOther DEF EventOrder
  <1>3. /\ \A e, f : ~Gives(p, e) /\ Late(e, f, sd) => Late(e, f, sc)
        /\ \A q : ~Before(p, q, sd)
    BY LateAppend
  <1> HIDE DEF sd
  <1>4. \A e, f : Contains(sn, e) \/ Contains(bq, e) => (Late(e, f, sd) => Late(e, f, sc))
    BY <1>2, <1>3
  <1>5. /\ \A e, f : Before(e, f, sn) => ~Late(e, f, sd)
        /\ \A e, f : Before(e, f, bq) => ~Late(e, f, sd)
        /\ \A e, f : Contains(sn, e) /\ Contains(bq, f) => ~Late(e, f, sd)
    BY <1>4, BeforeIsIn DEF EventOrder, NoneLate
  <1>6. EventOrder(sn, <<>>, bq, sd)
    BY <1>1, <1>5 DEF EventOrder, NoneLate
  <1>7. ASSUME Big(p) PROVE EventOrder(sn, Events[p], bq, sd)
    <2>1. OwnedBy(sn, Events[p], bq, sd)
      BY <1>1 DEF OwnedBy, Gives
    <2>2. Apart(sn, Events[p], bq)
      BY <1>1, <1>2 DEF Apart, Gives
    <2>3. NoneLate(sn, Events[p], bq, sd)
      BY <1>3, <1>5, <1>7 DEF NoneLate, Gives
    <2>4. QED
      BY <2>1, <2>2, <2>3 DEF EventOrder
  <1>8. QED
    BY <1>6, <1>7 DEF sd

(* A payload that joins bq.                                                *)
LEMMA JoinOrder ==
    ASSUME NEW sn, NEW bq \in Seq(AllEvents), NEW sc \in Seq(EvPayloads),
           EventOrder(sn, <<>>, bq, sc), NEW p \in EvPayloads, ~Contains(sc, p)
    PROVE  EventOrder(sn, <<>>, bq \o Events[p], Append(sc, p))
  <1> DEFINE sd == Append(sc, p)
             more == bq \o Events[p]
  <1>1. EventOrder(sn, <<>>, bq, sd) /\ Contains(sd, p) /\ \A x : ~Contains(<<>>, x)
    BY TakeOrder, OwnedMore, EmptyPlace DEF EventOrder
  <1>2. \A e : Contains(sn, e) \/ Contains(bq, e) => ~Gives(p, e)
    BY HeldIsOther DEF EventOrder
  <1>3. Distinct(Events[p]) /\ Events[p] \in Seq(AllEvents)
    BY DistinctEvents
  <1>4. /\ \A e : Contains(more, e) <=> Contains(bq, e) \/ Gives(p, e)
        /\ \A e, f : Before(e, f, more) => Before(e, f, bq) \/ Gives(p, f)
    BY <1>3, ContainsConcat, BeforeInConcat, BeforeIsIn DEF Gives
  <1>5. Distinct(more)
    <2>1. Distinct(bq) /\ \A x \in AllEvents : ~(Contains(bq, x) /\ Contains(Events[p], x))
      BY <1>2 DEF EventOrder, Apart, Gives
    <2>2. QED
      BY <1>3, <2>1, DistinctConcat
  <1>6. \A e, f : Gives(p, f) => ~Late(e, f, sd)
    BY LateAppend
  <1> HIDE DEF more, sd
  <1>7. OwnedBy(sn, <<>>, more, sd)
    BY <1>1, <1>4 DEF EventOrder, OwnedBy
  <1>8. Apart(sn, <<>>, more)
    BY <1>1, <1>2, <1>4, <1>5 DEF EventOrder, Apart
  <1>9. NoneLate(sn, <<>>, more, sd)
    BY <1>1, <1>4, <1>6 DEF EventOrder, NoneLate
  <1>10. QED
    BY <1>7, <1>8, <1>9 DEF EventOrder, more, sd

(* bq is closed.                                                           *)
LEMMA CloseOrder ==
    ASSUME NEW sn \in Seq(AllEvents), NEW bq \in Seq(AllEvents), NEW sc,
           EventOrder(sn, <<>>, bq, sc)
    PROVE  EventOrder(sn \o bq, <<>>, <<>>, sc)
  <1> DEFINE sm == sn \o bq
  <1>1. /\ \A e : Contains(sm, e) <=> Contains(sn, e) \/ Contains(bq, e)
        /\ \A e, f : Before(e, f, sm) =>
              Before(e, f, sn) \/ Before(e, f, bq) \/ (Contains(sn, e) /\ Contains(bq, f))
    BY ContainsConcat, BeforeInConcat
  <1>2. Distinct(sm)
    <2>1. Distinct(sn) /\ Distinct(bq) /\ \A x \in AllEvents : ~(Contains(sn, x) /\ Contains(bq, x))
      BY DEF EventOrder, Apart
    <2>2. QED
      BY <2>1, DistinctConcat
  <1>3. Distinct(<<>>) /\ \A x : ~Contains(<<>>, x)
    BY EmptyPlace
  <1>4. \A e, f : ~Before(e, f, <<>>)
    BY <1>3, BeforeIsIn
  <1> HIDE DEF sm
  <1>5. OwnedBy(sm, <<>>, <<>>, sc) /\ Apart(sm, <<>>, <<>>)
    BY <1>1, <1>2, <1>3 DEF EventOrder, OwnedBy, Apart
  <1>6. NoneLate(sm, <<>>, <<>>, sc)
    BY <1>1, <1>3, <1>4 DEF EventOrder, NoneLate
  <1>7. QED
    BY <1>5, <1>6 DEF EventOrder, sm

(* A part of a split payload is put.                                       *)
LEMMA PartOrder ==
    ASSUME NEW sn \in Seq(AllEvents), NEW xx \in Seq(AllEvents), NEW bq, NEW sc,
           EventOrder(sn, xx, bq, sc), NEW n \in 1 .. Len(xx)
    PROVE  EventOrder(sn \o SubSeq(xx, 1, n), SubSeq(xx, n + 1, Len(xx)), bq, sc)
  <1> DEFINE a == SubSeq(xx, 1, n)
             b == SubSeq(xx, n + 1, Len(xx))
             sm == sn \o a
  <1>1. /\ a \in Seq(AllEvents) /\ b \in Seq(AllEvents)
        /\ \A x : Contains(xx, x) <=> Contains(a, x) \/ Contains(b, x)
    BY CutInTwo, ContainsCut
  <1>2. Distinct(a) /\ Distinct(b) /\ \A x : ~(Contains(a, x) /\ Contains(b, x))
    BY DistinctCut DEF EventOrder, Apart
  <1> HIDE DEF a, b
  <1>3. /\ \A e : Contains(sm, e) <=> Contains(sn, e) \/ Contains(a, e)
        /\ \A e, f : Before(e, f, sm) =>
              Before(e, f, sn) \/ Before(e, f, a) \/ (Contains(sn, e) /\ Contains(a, f))
    BY <1>1, ContainsConcat, BeforeInConcat
  <1>4. Distinct(sm)
    <2>1. Distinct(sn) /\ \A x \in AllEvents : ~(Contains(sn, x) /\ Contains(a, x))
      BY <1>1 DEF EventOrder, Apart
    <2>2. QED
      BY <1>1, <1>2, <2>1, DistinctConcat
  <1> HIDE DEF sm
  <1>5. OwnedBy(sm, b, bq, sc)
    BY <1>1, <1>3 DEF EventOrder, OwnedBy
  <1>6. Apart(sm, b, bq)
    BY <1>1, <1>2, <1>3, <1>4 DEF EventOrder, Apart
  <1>7. \A e, f : Contains(xx, e) => ~Late(e, f, sc) /\ ~Late(f, e, sc)
    <2> TAKE e, f
    <2> HAVE Contains(xx, e)
    <2>1. PICK p \in EvPayloads : Gives(p, e) /\ Big(p) /\ \A q : ~Before(p, q, sc)
      BY DEF EventOrder, NoneLate
    <2>2. QED
      BY <2>1, OneGiver DEF Late
  <1>8. NoneLate(sm, b, bq, sc)
    BY <1>1, <1>3, <1>7, BeforeIsIn DEF EventOrder, NoneLate
  <1>9. QED
    BY <1>5, <1>6, <1>8 DEF EventOrder, sm, a, b

(* The inductive invariant behind OnlySplitsOvertake.                      *)
EvOrderInv ==
    /\ EventsKept
    /\ Distinct(evBuf) /\ \A p : Contains(evBuf, p) => ~Contains(evScanned, p)
    /\ EventOrder(Sent, evXxl, evBq, evScanned)

(* maxBytes does not change during Build, so what is late now is late in   *)
(* the next state.                                                         *)
LEMMA EvOrderNext ==
    ASSUME evMaxBytes' = evMaxBytes, EventOrder(Sent', evXxl', evBq', evScanned')
    PROVE  EventOrder(Sent, evXxl, evBq, evScanned)'
  <1>1. \A p : Big(p)' <=> Big(p)
    BY DEF Big
  <1>2. \A e, f : Late(e, f, evScanned)' <=> Late(e, f, evScanned')
    BY <1>1 DEF Late
  <1>3. NoneLate(Sent, evXxl, evBq, evScanned)'
    BY <1>1, <1>2 DEF EventOrder, NoneLate
  <1>4. QED
    BY <1>3 DEF EventOrder, OwnedBy, Apart

(* Scanning takes a payload not scanned before.                            *)
LEMMA EvScanning ==
    ASSUME EvOrderInv, NEW p \in EvPayloads, EvScan(p)
    PROVE  /\ evScanned \in Seq(EvPayloads) /\ evScanned' = Append(evScanned, p)
           /\ ~Contains(evScanned, p) /\ evXxl = <<>>
           /\ Distinct(evBuf') /\ \A x : Contains(evBuf', x) => ~Contains(evScanned', x)
  <1>1. evBuf \in Seq(EvPayloads) /\ evScanned \in Seq(EvPayloads) /\ evBuf # <<>>
    BY DEF EvOrderInv, EventsKept, EvTypeOK, EvScan
  <1>2. /\ evBuf' = Tail(evBuf) /\ p = evBuf[1] /\ 1 \in 1 .. Len(evBuf)
        /\ Len(Tail(evBuf)) = Len(evBuf) - 1 /\ Len(evBuf) \in Nat
        /\ \A i \in 1 .. Len(Tail(evBuf)) : Tail(evBuf)[i] = evBuf[i + 1]
    BY <1>1, HeadTailProperties, LenProperties, EmptySeq DEF EvScan
  <1>3. evScanned' = Append(evScanned, p) /\ evXxl = <<>>
    BY DEF EvScan
  <1>4. ~Contains(evScanned, p)
    BY <1>2 DEF EvOrderInv, Contains
  <1>5. Distinct(Tail(evBuf))
    BY <1>2 DEF EvOrderInv, Distinct
  <1>6. ASSUME NEW x, Contains(Tail(evBuf), x) PROVE ~Contains(Append(evScanned, p), x)
    <2>1. Contains(evBuf, x) /\ x # p
      BY <1>2, <1>6 DEF EvOrderInv, Distinct, Contains
    <2>2. QED
      BY <1>1, <2>1, ContainsAppend DEF EvOrderInv
  <1>7. QED
    BY <1>1, <1>2, <1>3, <1>4, <1>5, <1>6

(* Every iteration of Build and xxl2qq keeps the order.                    *)
LEMMA EvOrderStep == EvOrderInv /\ [EvNext]_evVars => EvOrderInv'
  <1> SUFFICES ASSUME EvOrderInv, [EvNext]_evVars PROVE EvOrderInv'
    OBVIOUS
  <1> DEFINE Goal == /\ Distinct(evBuf') /\ \A p : Contains(evBuf', p) => ~Contains(evScanned', p)
                     /\ EventOrder(Sent', evXxl', evBq', evScanned')
                     /\ evMaxBytes' = evMaxBytes
  <1>0. /\ EventsKept' /\ EventOrder(Sent, evXxl, evBq, evScanned)
        /\ evBq \in Seq(AllEvents) /\ evXxl \in Seq(AllEvents)
        /\ evQq \in Seq(Seq(AllEvents)) /\ evLim \in Nat \ {0}
    BY EventsStep DEF EvOrderInv, EventsKept, EvTypeOK
  <1>1. /\ Sent \in Seq(AllEvents)
        /\ \A s \in Seq(AllEvents) : evQq' = Append(evQq, s) => Sent' = Sent \o s
        /\ evQq' = evQq => Sent' = Sent
    <2>1. <<>> \in Seq(AllEvents)
      BY EmptySeq
    <2>2. QED
      BY <1>0, <2>1, FlattenAppend DEF Sent
  <1>2. ASSUME NEW p \in EvPayloads, EvSkip(p) PROVE Goal
    <2>1. EvScan(p) /\ UNCHANGED <<evMaxBytes, evBq, evQq, evXxl>>
      BY <1>2 DEF EvSkip
    <2>2. EventOrder(Sent, <<>>, evBq, Append(evScanned, p))
      BY <1>0, <2>1, EvScanning, TakeOrder
    <2>3. QED
      BY <1>1, <2>1, <2>2, EvScanning
  <1>3. ASSUME NEW p \in EvPayloads, EvSplit(p) PROVE Goal
    <2>1. EvScan(p) /\ Big(p) /\ evXxl' = Events[p] /\ UNCHANGED <<evMaxBytes, evBq, evQq>>
      BY <1>3 DEF EvSplit, Big
    <2>2. EventOrder(Sent, Events[p], evBq, Append(evScanned, p))
      BY <1>0, <2>1, EvScanning, TakeOrder
    <2>3. QED
      BY <1>1, <2>1, <2>2, EvScanning
  <1>4. ASSUME NEW p \in EvPayloads, EvCombine(p) PROVE Goal
    <2> DEFINE more == evBq \o Events[p]
    <2>1. /\ EvScan(p) /\ UNCHANGED <<evMaxBytes, evXxl>>
          /\ \/ evQq' = Append(evQq, more) /\ evBq' = <<>>
             \/ evQq' = evQq /\ evBq' = more
      BY <1>4 DEF EvCombine
    <2>2. EventOrder(Sent, <<>>, more, Append(evScanned, p)) /\ more \in Seq(AllEvents)
      BY <1>0, <2>1, EvScanning, JoinOrder, DistinctEvents, ConcatProperties
    <2> HIDE DEF more
    <2>3. EventOrder(Sent \o more, <<>>, <<>>, Append(evScanned, p))
      BY <1>1, <2>2, CloseOrder
    <2>4. CASE evQq' = Append(evQq, more) /\ evBq' = <<>>
      <3>1. Sent' = Sent \o more
        BY <1>1, <2>2, <2>4
      <3>2. QED
        BY <2>1, <2>3, <2>4, <3>1, EvScanning
    <2>5. CASE evQq' = evQq /\ evBq' = more
      BY <1>1, <2>1, <2>2, <2>5, EvScanning
    <2>6. QED
      BY <2>1, <2>4, <2>5
  <1>5. ASSUME SplitPart PROVE Goal
    <2> DEFINE part == SubSeq(evXxl, 1, PartEnd)
               rest == SubSeq(evXxl, PartEnd + 1, Len(evXxl))
    <2>1. /\ evQq' = Append(evQq, part) /\ evXxl' = rest /\ evXxl # <<>>
          /\ UNCHANGED <<evMaxBytes, evBuf, evBq, evScanned>>
      BY <1>5 DEF SplitPart
    <2>2. PartEnd \in 1 .. Len(evXxl)
      BY <1>0, <2>1, LenProperties, EmptySeq DEF PartEnd
    <2>3. part \in Seq(AllEvents)
      BY <1>0, <2>2, CutInTwo
    <2>4. EventOrder(Sent \o part, rest, evBq, evScanned)
      BY <1>0, <1>1, <2>2, PartOrder
    <2> HIDE DEF part, rest
    <2>5. Sent' = Sent \o part
      BY <1>1, <2>1, <2>3
    <2>6. QED
      BY <2>1, <2>4, <2>5 DEF EvOrderInv
  <1>6. ASSUME EvFinish PROVE Goal
    <2>1. /\ evQq' = IF evBq # <<>> THEN Append(evQq, evBq) ELSE evQq
          /\ evXxl = <<>> /\ evBq' = <<>> /\ UNCHANGED <<evMaxBytes, evBuf, evXxl, evScanned>>
      BY <1>6 DEF EvFinish
    <2>2. EventOrder(Sent', <<>>, <<>>, evScanned)
      <3>1. CASE evBq = <<>>
        BY <1>0, <1>1, <2>1, <3>1
      <3>2. CASE evBq # <<>>
        <4>1. Sent' = Sent \o evBq
          BY <1>0, <1>1, <2>1, <3>2
        <4>2. QED
          BY <1>0, <1>1, <2>1, <4>1, CloseOrder
      <3>3. QED
        BY <3>1, <3>2
    <2>3. QED
      BY <2>1, <2>2 DEF EvOrderInv
  <1>7. ASSUME UNCHANGED evVars PROVE Goal
    BY <1>0, <1>1, <1>7 DEF evVars, EvOrderInv
  <1>8. Goal
    BY <1>2, <1>3, <1>4, <1>5, <1>6, <1>7 DEF EvNext
  <1>9. QED
    BY <1>0, <1>8, EvOrderNext DEF EvOrderInv

(* Nothing is held before the first iteration.                             *)
LEMMA EvInitially == EvInit => EvOrderInv
  <1> SUFFICES ASSUME EvInit PROVE EvOrderInv
    OBVIOUS
  <1>1. /\ evBuf \in EvBuffers /\ evBq = <<>> /\ evQq = <<>> /\ evXxl = <<>> /\ evScanned = <<>>
    BY DEF EvInit
  <1>2. Sent = <<>>
    BY <1>1 DEF Sent, FlattenSeq
  <1>3. Distinct(evBuf)
    <2>1. evBuf \in Seq(EvPayloads) /\ IsInjective(evBuf)
      BY <1>1, EvBuffersAssumption
    <2>2. DOMAIN evBuf = 1 .. Len(evBuf)
      BY <2>1, LenProperties
    <2>3. QED
      BY <2>1, <2>2 DEF IsInjective, Distinct
  <1>4. Distinct(<<>>) /\ \A x : ~Contains(<<>>, x)
    BY EmptyPlace
  <1>5. \A x, y : ~Before(x, y, <<>>)
    BY <1>4, BeforeIsIn
  <1>6. EventOrder(<<>>, <<>>, <<>>, <<>>)
    <2>1. OwnedBy(<<>>, <<>>, <<>>, <<>>) /\ Apart(<<>>, <<>>, <<>>)
      BY <1>4, Zenon DEF OwnedBy, Apart
    <2>2. NoneLate(<<>>, <<>>, <<>>, <<>>)
      BY <1>4, <1>5, Zenon DEF NoneLate
    <2>3. QED
      BY <2>1, <2>2 DEF EventOrder
  <1>7. EventOrder(Sent, evXxl, evBq, evScanned)
    BY <1>1, <1>2, <1>6, Zenon
  <1>8. \A x : ~Contains(evScanned, x)
    BY <1>1, <1>4, Zenon
  <1>9. QED
    BY <1>3, <1>7, <1>8, EvInitKept, Zenon DEF EvOrderInv

(* Whatever the payloads of a batch, their order and maxBytes: the         *)
(* requests Build makes (events.go) have no event twice, and an event is   *)
(* ahead of an event of an earlier payload only when xxl2qq split its own, *)
(* since the parts are put ahead of what is still being combined.          *)
THEOREM OvertakenBySplitsOnly == EvSpec => []OnlySplitsOvertake
  <1>1. EvOrderInv => OnlySplitsOvertake
    <2> SUFFICES ASSUME EvOrderInv PROVE OnlySplitsOvertake
      OBVIOUS
    <2>1. EventOrder(Sent, evXxl, evBq, evScanned) /\ evScanned \in Seq(EvPayloads)
      BY DEF EvOrderInv, EventsKept, EvTypeOK
    <2>2. Sent \in Seq(AllEvents)
      <3>1. evQq \in Seq(Seq(AllEvents)) /\ <<>> \in Seq(AllEvents)
        BY EmptySeq DEF EvOrderInv, EventsKept, EvTypeOK
      <3>2. QED
        BY <3>1, FlattenAppend DEF Sent
    <2>3. IsInjective(Sent)
      <3>1. DOMAIN Sent = 1 .. Len(Sent) /\ Distinct(Sent)
        BY <2>1, <2>2, LenProperties DEF EventOrder, Apart
      <3>2. QED
        BY <3>1 DEF IsInjective, Distinct
    <2>4. ASSUME NEW i \in 1 .. Len(Sent), NEW j \in 1 .. Len(Sent),
                 NEW m \in 1 .. Len(evScanned), NEW n \in 1 .. Len(evScanned),
                 Contains(Events[evScanned[m]], Sent[i]), Contains(Events[evScanned[n]], Sent[j]),
                 i < j, n < m
          PROVE  EvPayloadLen[evScanned[m]] > evMaxBytes
      <3>1. evScanned[m] \in EvPayloads /\ evScanned[n] \in EvPayloads
        BY <2>1, ElementOfSeq
      <3>2. Before(Sent[i], Sent[j], Sent) /\ Before(evScanned[n], evScanned[m], evScanned)
        BY <2>4 DEF Before
      <3>3. ~Late(Sent[i], Sent[j], evScanned)
        BY <2>1, <3>2 DEF EventOrder, NoneLate
      <3>4. QED
        BY <2>4, <3>1, <3>2, <3>3 DEF Late, Gives, Big
    <2>5. QED
      BY <2>3, <2>4 DEF OnlySplitsOvertake
  <1>2. QED
    BY <1>1, EvInitially, EvOrderStep, PTL DEF EvSpec

-----------------------------------------------------------------------------
(* Building the requests of metrics *)

(* The requests.                                                           *)
Tokens == [of : MtPayloads \cup {NoPayload}, part : Nat]
RequestTypes == [resources : Seq(ResourceTypes), groups : Seq(AllGroups), token : Tokens]

(* The services in a sequence of resources.                                *)
Has(rs, s) == \E i \in 1 .. Len(rs) : Contains(rs[i].services, s)

(* No service has two places in a sequence of resources.                   *)
OwnServices(rs) ==
    \A i, j \in 1 .. Len(rs) : \A m \in 1 .. Len(rs[i].services), n \in 1 .. Len(rs[j].services) :
        rs[i].services[m] = rs[j].services[n] => i = j /\ m = n

(* The payloads taken that unmarshal.                                      *)
Taken(sc) == {p \in MtPayloads : Contains(sc, p) /\ p \notin MtMalformed}

(* Carries and OfPayload in terms of the resources.                        *)
LEMMA CarriesHas == \A q, s : Carries(q, s) <=> Has(q.resources, s)
  BY DEF Carries, Has

(* The services of a payload are those of its resources.                   *)
LEMMA OfPayloadHas == \A p, s : OfPayload(s, p) <=> Has(Resources[p], s)
  BY DEF OfPayload, Has

(* A service has one place in the payloads ...                             *)
ServicesOf(p, i) == Resources[p][i].services
LEMMA OnePlace ==
    \A p, q \in MtPayloads : \A i \in 1 .. Len(Resources[p]), j \in 1 .. Len(Resources[q]) :
        \A m \in 1 .. Len(ServicesOf(p, i)), n \in 1 .. Len(ServicesOf(q, j)) :
            ServicesOf(p, i)[m] = ServicesOf(q, j)[n] => p = q /\ i = j /\ m = n
  BY OccurrencesAssumption, Zenon DEF ServicesOf

(* ... so it is of one payload ...                                         *)
LEMMA OneOwner ==
    ASSUME NEW p \in MtPayloads, NEW q \in MtPayloads, NEW s, OfPayload(s, p), OfPayload(s, q)
    PROVE  p = q
  <1>1. PICK i \in 1 .. Len(Resources[p]) : Contains(ServicesOf(p, i), s)
    BY DEF OfPayload, ServicesOf
  <1>2. PICK m \in 1 .. Len(ServicesOf(p, i)) : ServicesOf(p, i)[m] = s
    BY <1>1 DEF Contains
  <1>3. PICK j \in 1 .. Len(Resources[q]) : Contains(ServicesOf(q, j), s)
    BY DEF OfPayload, ServicesOf
  <1>4. PICK n \in 1 .. Len(ServicesOf(q, j)) : ServicesOf(q, j)[n] = s
    BY <1>3 DEF Contains
  <1>5. QED
    BY <1>2, <1>4, OnePlace

(* ... and once among its resources.                                       *)
LEMMA OwnResources ==
    ASSUME NEW p \in MtPayloads
    PROVE  OwnServices(Resources[p])
  <1>1. \A i, j \in 1 .. Len(Resources[p]) :
          \A m \in 1 .. Len(ServicesOf(p, i)), n \in 1 .. Len(ServicesOf(p, j)) :
            ServicesOf(p, i)[m] = ServicesOf(p, j)[n] => i = j /\ m = n
    BY OnePlace
  <1>2. QED
    BY <1>1, Zenon DEF OwnServices, ServicesOf

(* No resources have no services.                                          *)
LEMMA HasEmpty == \A s : ~Has(<<>>, s)
  BY DEF Has

(* The services of combined resources.                                     *)
LEMMA HasConcat ==
    ASSUME NEW a \in Seq(ResourceTypes), NEW b \in Seq(ResourceTypes), NEW s
    PROVE  Has(a \o b, s) <=> Has(a, s) \/ Has(b, s)
  <1>1. /\ Len(a \o b) = Len(a) + Len(b) /\ Len(a) \in Nat /\ Len(b) \in Nat
        /\ \A i \in 1 .. Len(a) + Len(b) :
             (a \o b)[i] = IF i <= Len(a) THEN a[i] ELSE b[i - Len(a)]
    BY ConcatProperties, LenProperties
  <1>2. ASSUME Has(a \o b, s) PROVE Has(a, s) \/ Has(b, s)
    <2>1. PICK i \in 1 .. Len(a) + Len(b) : Contains((a \o b)[i].services, s)
      BY <1>1, <1>2 DEF Has
    <2>2. CASE i <= Len(a)
      BY <1>1, <2>1, <2>2 DEF Has
    <2>3. CASE ~(i <= Len(a))
      <3>1. i - Len(a) \in 1 .. Len(b) /\ Contains(b[i - Len(a)].services, s)
        BY <1>1, <2>1, <2>3
      <3>2. QED
        BY <3>1 DEF Has
    <2>4. QED
      BY <2>2, <2>3
  <1>3. ASSUME Has(a, s) PROVE Has(a \o b, s)
    <2>1. PICK i \in 1 .. Len(a) : Contains(a[i].services, s)
      BY <1>3 DEF Has
    <2>2. i \in 1 .. Len(a \o b) /\ Contains((a \o b)[i].services, s)
      BY <1>1, <2>1
    <2>3. QED
      BY <2>2 DEF Has
  <1>4. ASSUME Has(b, s) PROVE Has(a \o b, s)
    <2>1. PICK i \in 1 .. Len(b) : Contains(b[i].services, s)
      BY <1>4 DEF Has
    <2>2. Len(a) + i \in 1 .. Len(a \o b) /\ (a \o b)[Len(a) + i] = b[i]
      BY <1>1
    <2>3. QED
      BY <2>1, <2>2 DEF Has
  <1>5. QED
    BY <1>2, <1>3, <1>4

(* The services of a part, which has one resource.                         *)
LEMMA HasOne ==
    ASSUME NEW r, NEW s
    PROVE  Has(<<r>>, s) <=> Contains(r.services, s)
  BY DEF Has

(* A resource with some of its services.                                   *)
LEMMA WithServicesType ==
    ASSUME NEW r \in ResourceTypes, NEW ss \in Seq(AllServices)
    PROVE  WithServices(r, ss) \in ResourceTypes /\ WithServices(r, ss).services = ss
  BY DEF WithServices, ResourceTypes

(* A service taken from the head of the resources left of a split payload. *)
LEMMA HasRest ==
    ASSUME NEW rs \in Seq(ResourceTypes), rs # <<>>, Head(rs).services # <<>>, OwnServices(rs)
    PROVE  LET h == Head(Head(rs).services)
               t == [rs EXCEPT ![1] = WithServices(Head(rs), Tail(Head(rs).services))]
           IN  /\ h \in AllServices /\ Has(rs, h)
               /\ t \in Seq(ResourceTypes) /\ OwnServices(t) /\ t # <<>>
               /\ \A s : Has(t, s) => Has(rs, s) /\ s # h
  <1> DEFINE r == Head(rs)
             ss == r.services
             h == Head(ss)
             w == WithServices(r, Tail(ss))
             t == [rs EXCEPT ![1] = w]
  <1>1. r = rs[1] /\ r \in ResourceTypes /\ 1 \in 1 .. Len(rs) /\ Len(rs) \in Nat
    BY HeadTailProperties, LenProperties, EmptySeq
  <1>2. ss \in Seq(AllServices) /\ ss # <<>>
    BY <1>1 DEF ResourceTypes
  <1>3. /\ h = ss[1] /\ h \in AllServices /\ 1 \in 1 .. Len(ss) /\ Len(ss) \in Nat
        /\ Tail(ss) \in Seq(AllServices) /\ Len(Tail(ss)) = Len(ss) - 1
        /\ \A i \in 1 .. Len(Tail(ss)) : Tail(ss)[i] = ss[i + 1]
    <2> HIDE DEF ss
    <2>1. QED
      BY <1>2, HeadTailProperties, LenProperties, EmptySeq
  <1>4. w \in ResourceTypes /\ w.services = Tail(ss)
    BY <1>1, <1>3, WithServicesType
  <1>5. t \in Seq(ResourceTypes) /\ Len(t) = Len(rs)
    BY <1>1, <1>4, ExceptSeq
  <1>6. t[1] = w /\ \A i \in 2 .. Len(rs) : t[i] = rs[i]
    BY <1>1
  <1> HIDE DEF w, t
  <1>7. \A i \in 1 .. Len(t) : \A m \in 1 .. Len(t[i].services) :
          \E n \in 1 .. Len(rs[i].services) :
             /\ t[i].services[m] = rs[i].services[n]
             /\ n = (IF i = 1 THEN m + 1 ELSE m)
    <2> TAKE i \in 1 .. Len(t)
    <2> TAKE m \in 1 .. Len(t[i].services)
    <2>1. CASE i = 1
      <3>1. m \in 1 .. Len(ss) - 1 /\ t[i].services[m] = ss[m + 1]
        BY <1>3, <1>4, <1>6, <2>1
      <3>2. m + 1 \in 1 .. Len(ss)
        BY <1>3, <3>1
      <3>3. QED
        BY <1>1, <2>1, <3>1, <3>2
    <2>2. CASE i # 1
      <3>1. t[i] = rs[i]
        BY <1>1, <1>5, <1>6, <2>2
      <3>2. QED
        BY <3>1, <2>2
    <2>3. QED
      BY <2>1, <2>2
  <1>8. OwnServices(t)
    <2> SUFFICES ASSUME NEW i \in 1 .. Len(t), NEW j \in 1 .. Len(t),
                        NEW m \in 1 .. Len(t[i].services), NEW n \in 1 .. Len(t[j].services),
                        t[i].services[m] = t[j].services[n]
                 PROVE  i = j /\ m = n
      BY DEF OwnServices
    <2>1. PICK a \in 1 .. Len(rs[i].services) :
             t[i].services[m] = rs[i].services[a] /\ a = (IF i = 1 THEN m + 1 ELSE m)
      BY <1>7
    <2>2. PICK b \in 1 .. Len(rs[j].services) :
             t[j].services[n] = rs[j].services[b] /\ b = (IF j = 1 THEN n + 1 ELSE n)
      BY <1>7
    <2>3. i \in 1 .. Len(rs) /\ j \in 1 .. Len(rs) /\ rs[i].services[a] = rs[j].services[b]
      BY <1>5, <2>1, <2>2
    <2>6. i = j /\ a = b
      <3>1. a \in 1 .. Len(rs[i].services) /\ b \in 1 .. Len(rs[j].services)
        BY <2>1, <2>2
      <3>2. \A k \in 1 .. Len(rs[i].services), l \in 1 .. Len(rs[j].services) :
                rs[i].services[k] = rs[j].services[l] => i = j /\ k = l
        BY <2>3 DEF OwnServices
      <3>3. QED
        BY <2>3, <3>1, <3>2
    <2>4. m \in Int /\ n \in Int
      OBVIOUS
    <2>5. QED
      BY <2>1, <2>2, <2>4, <2>6
  <1>9. ASSUME NEW s, Has(t, s) PROVE Has(rs, s) /\ s # h
    <2>1. PICK i \in 1 .. Len(t) : Contains(t[i].services, s)
      BY <1>9 DEF Has
    <2>2. PICK m \in 1 .. Len(t[i].services) : t[i].services[m] = s
      BY <2>1 DEF Contains
    <2>3. PICK n \in 1 .. Len(rs[i].services) :
             s = rs[i].services[n] /\ n = (IF i = 1 THEN m + 1 ELSE m)
      BY <1>7, <2>2
    <2>4. Contains(rs[i].services, s)
      BY <2>3 DEF Contains
    <2>5. i # 1 \/ n # 1
      BY <2>3
    <2>6. s # rs[1].services[1]
      BY <1>1, <1>3, <1>5, <2>3, <2>5 DEF OwnServices
    <2>7. QED
      BY <1>1, <1>3, <1>5, <2>4, <2>6 DEF Has
  <1>10. Has(rs, h)
    BY <1>1, <1>3 DEF Has, Contains
  <1>11. t # <<>>
    BY <1>1, <1>5, EmptySeq
  <1>12. QED
    BY <1>3, <1>5, <1>8, <1>9, <1>10, <1>11 DEF t, w

(* The resources after the first.                                          *)
LEMMA HasTail ==
    ASSUME NEW rs \in Seq(ResourceTypes), rs # <<>>, OwnServices(rs)
    PROVE  /\ Tail(rs) \in Seq(ResourceTypes) /\ OwnServices(Tail(rs))
           /\ \A s : Has(Tail(rs), s) => Has(rs, s)
  <1> DEFINE t == Tail(rs)
  <1>1. /\ t \in Seq(ResourceTypes) /\ Len(t) = Len(rs) - 1 /\ Len(rs) \in Nat
        /\ \A i \in 1 .. Len(t) : t[i] = rs[i + 1]
    BY HeadTailProperties, LenProperties
  <1> HIDE DEF t
  <1>2. OwnServices(t)
    <2> SUFFICES ASSUME NEW i \in 1 .. Len(t), NEW j \in 1 .. Len(t),
                        NEW m \in 1 .. Len(t[i].services), NEW n \in 1 .. Len(t[j].services),
                        t[i].services[m] = t[j].services[n]
                 PROVE  i = j /\ m = n
      BY DEF OwnServices
    <2>1. /\ i + 1 \in 1 .. Len(rs) /\ j + 1 \in 1 .. Len(rs)
          /\ t[i] = rs[i + 1] /\ t[j] = rs[j + 1]
      BY <1>1
    <2>2. i + 1 = j + 1 /\ m = n
      BY <2>1 DEF OwnServices
    <2>3. QED
      BY <2>2
  <1>3. ASSUME NEW s, Has(t, s) PROVE Has(rs, s)
    <2>1. PICK i \in 1 .. Len(t) : Contains(t[i].services, s)
      BY <1>3 DEF Has
    <2>2. i + 1 \in 1 .. Len(rs) /\ t[i] = rs[i + 1]
      BY <1>1
    <2>3. QED
      BY <2>1, <2>2 DEF Has
  <1>4. QED
    BY <1>1, <1>2, <1>3 DEF t

-----------------------------------------------------------------------------
(* The state of the requests *)

(* gs has every group of the payload.                                      *)
Covers(gs, p) == \A g \in 1 .. Len(Groups[p]) : Contains(gs, Groups[p][g])

(* A service of a request is of a payload taken and in no other request;   *)
(* bq has services of payloads without a host status only; and the         *)
(* services of every payload taken that is not split are in some request.  *)
CarriedBy(qq, bq, sc) ==
    /\ \A i \in 1 .. Len(qq) : \A s : Carries(qq[i], s) =>
         /\ \E p \in Taken(sc) : OfPayload(s, p)
         /\ ~Carries(bq, s)
         /\ \A j \in 1 .. Len(qq) : Carries(qq[j], s) => j = i
    /\ \A s : Carries(bq, s) =>
         \E p \in Taken(sc) : ~Oversized(p) /\ ~hasStatus(p) /\ OfPayload(s, p)
    /\ \A p \in Taken(sc) : \A s : ~Oversized(p) /\ OfPayload(s, p) =>
         Carries(bq, s) \/ \E i \in 1 .. Len(qq) : Carries(qq[i], s)

(* A request that carries a service of a payload has the groups of the     *)
(* payload.                                                                *)
GroupedBy(qq, bq) ==
    \A p \in MtPayloads : \A s : OfPayload(s, p) =>
        /\ Carries(bq, s) => Covers(bq.groups, p)
        /\ \A i \in 1 .. Len(qq) : Carries(qq[i], s) => Covers(qq[i].groups, p)

(* Two payloads, the first with a host status, are in different requests   *)
(* in the order in which they were scanned, and what is in bq was scanned  *)
(* after every host status.                                                *)
BarrierIn(qq, bq, sc) ==
    \A p, r \in Taken(sc) : ~Oversized(p) /\ hasStatus(p) /\ ~Oversized(r) /\ r # p =>
        \A s, t : OfPayload(s, p) /\ OfPayload(t, r) =>
            /\ \A i, j \in 1 .. Len(qq) : Carries(qq[i], s) /\ Carries(qq[j], t) =>
                 i # j /\ (Before(p, r, sc) <=> i < j)
            /\ Carries(bq, t) => Before(p, r, sc)

(* The token of a request is that of a payload taken, bq's that of one     *)
(* that is not split, and not that of another request.                     *)
TokensOf(qq, bq, sc) ==
    /\ \A i \in 1 .. Len(qq) : qq[i].token.of \in Taken(sc) /\ qq[i].token.of # bq.token.of
    /\ bq.token.of \in Taken(sc) => ~Oversized(bq.token.of)
    /\ bq.token.of \in Taken(sc) \cup {NoPayload}
    /\ bq.resources # <<>> => bq.token.of # NoPayload

(* No two requests with a numbered token have the same.                    *)
OwnTokens(qq) ==
    \A i, j \in 1 .. Len(qq) : i # j /\ qq[i].token.of \in LongTokens => qq[i].token # qq[j].token

(* What holds of the requests at every iteration.                          *)
RequestsOK(qq, bq, sc) ==
    /\ CarriedBy(qq, bq, sc) /\ GroupedBy(qq, bq)
    /\ BarrierIn(qq, bq, sc) /\ TokensOf(qq, bq, sc)

(* A request is begun with nothing in it.                                  *)
LEMMA EmptyRequestType ==
    /\ EmptyRequest \in RequestTypes /\ EmptyRequest.resources = <<>>
    /\ EmptyRequest.token.of = NoPayload /\ \A s : ~Carries(EmptyRequest, s)
  <1>1. NoToken \in Tokens /\ NoToken.of = NoPayload
    BY DEF NoToken, Tokens
  <1>2. <<>> \in Seq(ResourceTypes) /\ <<>> \in Seq(AllGroups)
    BY EmptySeq, Zenon
  <1>3. /\ EmptyRequest.resources = <<>> /\ EmptyRequest.groups = <<>>
        /\ EmptyRequest.token = NoToken
    BY Zenon DEF EmptyRequest
  <1>4. EmptyRequest \in RequestTypes
    BY <1>1, <1>2, Zenon DEF EmptyRequest, RequestTypes
  <1>5. QED
    BY <1>1, <1>3, <1>4, CarriesHas, HasEmpty, Zenon

(* The requests after one more is put.                                     *)
LEMMA OnePut ==
    ASSUME NEW qq \in Seq(RequestTypes), NEW q \in RequestTypes
    PROVE  /\ Append(qq, q) \in Seq(RequestTypes) /\ Len(qq) \in Nat
           /\ Len(Append(qq, q)) = Len(qq) + 1 /\ Append(qq, q)[Len(qq) + 1] = q
           /\ \A i \in 1 .. Len(qq) : Append(qq, q)[i] = qq[i]
           /\ \A i \in 1 .. Len(Append(qq, q)) : i \in 1 .. Len(qq) \/ i = Len(qq) + 1
  BY AppendProperties, LenProperties

(* bq is closed: it becomes the last request and a new one is begun.       *)
LEMMA CloseKeeps ==
    ASSUME NEW qq \in Seq(RequestTypes), NEW bq \in RequestTypes, NEW sc, RequestsOK(qq, bq, sc),
           bq.token.of # NoPayload
    PROVE  RequestsOK(Append(qq, bq), EmptyRequest, sc)
  <1> DEFINE qn == Append(qq, bq)
  <1>1. /\ Len(qq) \in Nat /\ Len(qn) = Len(qq) + 1 /\ qn[Len(qq) + 1] = bq
        /\ \A i \in 1 .. Len(qq) : qn[i] = qq[i]
        /\ \A i \in 1 .. Len(qn) : i \in 1 .. Len(qq) \/ i = Len(qq) + 1
        /\ Len(qq) + 1 \in 1 .. Len(qn) /\ \A i \in 1 .. Len(qq) : i \in 1 .. Len(qn)
    BY OnePut
  <1> HIDE DEF qn
  <1>2. CarriedBy(qn, EmptyRequest, sc)
    <2>1. ASSUME NEW i \in 1 .. Len(qn), NEW s, Carries(qn[i], s)
          PROVE  /\ \E p \in Taken(sc) : OfPayload(s, p)
                 /\ \A j \in 1 .. Len(qn) : Carries(qn[j], s) => j = i
      BY <1>1, <2>1 DEF RequestsOK, CarriedBy
    <2>2. ASSUME NEW p \in Taken(sc), NEW s, ~Oversized(p), OfPayload(s, p)
          PROVE  \E i \in 1 .. Len(qn) : Carries(qn[i], s)
      BY <1>1, <2>2 DEF RequestsOK, CarriedBy
    <2>3. QED
      BY <2>1, <2>2, EmptyRequestType DEF CarriedBy
  <1>3. GroupedBy(qn, EmptyRequest)
    BY <1>1, EmptyRequestType DEF RequestsOK, GroupedBy
  <1>4. BarrierIn(qn, EmptyRequest, sc)
    <2> SUFFICES ASSUME NEW p \in Taken(sc), NEW r \in Taken(sc), ~Oversized(p), hasStatus(p),
                        ~Oversized(r), r # p, NEW s, NEW t, OfPayload(s, p), OfPayload(t, r),
                        NEW i \in 1 .. Len(qn), NEW j \in 1 .. Len(qn),
                        Carries(qn[i], s), Carries(qn[j], t)
                 PROVE  i # j /\ (Before(p, r, sc) <=> i < j)
      BY EmptyRequestType DEF BarrierIn
    <2>1. ~Carries(bq, s)
      <3>1. SUFFICES ASSUME Carries(bq, s) PROVE FALSE
        OBVIOUS
      <3>2. PICK x \in Taken(sc) : ~hasStatus(x) /\ OfPayload(s, x)
        BY <3>1 DEF RequestsOK, CarriedBy
      <3>3. x = p
        BY <3>2, OneOwner DEF Taken
      <3>4. QED
        BY <3>2, <3>3
    <2>2. i \in 1 .. Len(qq) /\ Carries(qq[i], s)
      BY <1>1, <2>1
    <2>3. CASE j \in 1 .. Len(qq)
      BY <1>1, <2>2, <2>3 DEF RequestsOK, BarrierIn
    <2>4. CASE j = Len(qq) + 1
      <3>1. Before(p, r, sc)
        BY <1>1, <2>4 DEF RequestsOK, BarrierIn
      <3>2. i < j
        BY <1>1, <2>2, <2>4
      <3>3. QED
        BY <3>1, <3>2
    <2>5. QED
      BY <1>1, <2>3, <2>4
  <1>5. TokensOf(qn, EmptyRequest, sc)
    <2>1. NoPayload \notin Taken(sc)
      BY PayloadAssumption DEF Taken
    <2>2. \A i \in 1 .. Len(qn) : qn[i].token.of \in Taken(sc)
      BY <1>1 DEF RequestsOK, TokensOf
    <2>3. QED
      BY <2>1, <2>2, EmptyRequestType DEF TokensOf
  <1>6. QED
    BY <1>2, <1>3, <1>4, <1>5 DEF RequestsOK, qn

(* Scanning one more payload.                                              *)
LEMMA TakenMore ==
    ASSUME NEW sc \in Seq(MtPayloads), NEW p \in MtPayloads
    PROVE  /\ Taken(Append(sc, p)) = IF p \in MtMalformed THEN Taken(sc) ELSE Taken(sc) \cup {p}
           /\ \A x, y : Before(x, y, Append(sc, p)) <=>
                Before(x, y, sc) \/ (Contains(sc, x) /\ y = p)
  <1>1. \A x : Contains(Append(sc, p), x) <=> Contains(sc, x) \/ x = p
    BY ContainsAppend
  <1>2. QED
    BY <1>1, BeforeAppend DEF Taken

(* Taking a payload that puts nothing into a request: it is malformed, or  *)
(* its services come in parts.                                             *)
LEMMA ScanKeeps ==
    ASSUME NEW qq, NEW bq, NEW sc \in Seq(MtPayloads), RequestsOK(qq, bq, sc),
           NEW p \in MtPayloads, ~Contains(sc, p), p \in MtMalformed \/ Oversized(p)
    PROVE  RequestsOK(qq, bq, Append(sc, p))
  <1> DEFINE sn == Append(sc, p)
  <1>1. /\ Taken(sn) \subseteq Taken(sc) \cup {p} /\ Taken(sc) \subseteq Taken(sn)
        /\ \A x \in Taken(sc) : x # p
        /\ \A x \in Taken(sn) : ~Oversized(x) => x \in Taken(sc)
    BY TakenMore DEF Taken
  <1>2. \A x, y \in Taken(sc) : Before(x, y, sn) <=> Before(x, y, sc)
    BY <1>1, TakenMore
  <1> HIDE DEF sn
  <1>3. CarriedBy(qq, bq, sn)
    BY <1>1 DEF RequestsOK, CarriedBy
  <1>4. BarrierIn(qq, bq, sn)
    BY <1>1, <1>2 DEF RequestsOK, BarrierIn
  <1>5. TokensOf(qq, bq, sn)
    <2>1. bq.token.of \in Taken(sn) => bq.token.of \in Taken(sc)
      BY <1>1, PayloadAssumption DEF RequestsOK, TokensOf
    <2>2. QED
      BY <1>1, <2>1 DEF RequestsOK, TokensOf
  <1>6. QED
    BY <1>3, <1>4, <1>5 DEF RequestsOK, sn

(* The token of a payload names it.                                        *)
LEMMA TokenOfType == \A p \in MtPayloads : TokenOf(p) \in Tokens /\ TokenOf(p).of = p
  BY DEF TokenOf, Tokens

(* A payload that joins bq.                                                *)
LEMMA JoinKeeps ==
    ASSUME NEW qq, NEW bq \in RequestTypes, NEW sc \in Seq(MtPayloads), RequestsOK(qq, bq, sc),
           NEW p \in MtPayloads, ~Contains(sc, p), p \notin MtMalformed, ~Oversized(p), ~hasStatus(p)
    PROVE  LET more == [resources |-> bq.resources \o Resources[p],
                        groups |-> bq.groups \o Groups[p], token |-> TokenOf(p)]
           IN  more \in RequestTypes /\ more.token.of = p /\ RequestsOK(qq, more, Append(sc, p))
  <1> DEFINE more == [resources |-> bq.resources \o Resources[p],
                      groups |-> bq.groups \o Groups[p], token |-> TokenOf(p)]
             sn == Append(sc, p)
  <1>1. /\ bq.resources \in Seq(ResourceTypes) /\ bq.groups \in Seq(AllGroups)
        /\ Resources[p] \in Seq(ResourceTypes) /\ Groups[p] \in Seq(AllGroups)
    BY ResourcesAssumption DEF RequestTypes
  <1>2. /\ more.resources = bq.resources \o Resources[p] /\ more.groups = bq.groups \o Groups[p]
        /\ more.token = TokenOf(p)
    OBVIOUS
  <1>3. /\ bq.resources \o Resources[p] \in Seq(ResourceTypes)
        /\ bq.groups \o Groups[p] \in Seq(AllGroups)
    BY <1>1, ConcatProperties
  <1>4. more \in RequestTypes
    BY <1>3, TokenOfType DEF RequestTypes
  <1> HIDE DEF more
  <1>5. \A s : Carries(more, s) <=> Carries(bq, s) \/ OfPayload(s, p)
    <2> SUFFICES ASSUME NEW s
                 PROVE  Carries(more, s) <=> Carries(bq, s) \/ OfPayload(s, p)
      OBVIOUS
    <2>1. Carries(more, s) <=> Has(bq.resources \o Resources[p], s)
      BY <1>2, CarriesHas
    <2>2. Has(bq.resources \o Resources[p], s) <=> Has(bq.resources, s) \/ Has(Resources[p], s)
      BY <1>1, HasConcat
    <2>3. (Carries(bq, s) <=> Has(bq.resources, s)) /\ (OfPayload(s, p) <=> Has(Resources[p], s))
      BY CarriesHas, OfPayloadHas
    <2>4. QED
      BY <2>1, <2>2, <2>3
  <1>6. /\ Taken(sn) = Taken(sc) \cup {p} /\ p \notin Taken(sc)
        /\ \A x \in Taken(sc) : x # p /\ Contains(sc, x) /\ x \in MtPayloads
    BY TakenMore DEF Taken
  <1>7. /\ \A x, y \in Taken(sc) : Before(x, y, sn) <=> Before(x, y, sc)
        /\ \A x \in Taken(sc) : Before(x, p, sn)
    BY <1>6, TakenMore
  <1>8. \A i \in 1 .. Len(qq) : \A s : Carries(qq[i], s) => ~OfPayload(s, p)
    BY <1>6, OneOwner DEF RequestsOK, CarriedBy
  <1> HIDE DEF sn
  <1>9. CarriedBy(qq, more, sn)
    <2>1. ASSUME NEW i \in 1 .. Len(qq), NEW s, Carries(qq[i], s)
          PROVE  /\ \E x \in Taken(sn) : OfPayload(s, x)
                 /\ ~Carries(more, s)
                 /\ \A j \in 1 .. Len(qq) : Carries(qq[j], s) => j = i
      BY <1>5, <1>6, <1>8, <2>1 DEF RequestsOK, CarriedBy
    <2>2. ASSUME NEW s, Carries(more, s)
          PROVE  \E x \in Taken(sn) : ~Oversized(x) /\ ~hasStatus(x) /\ OfPayload(s, x)
      BY <1>5, <1>6, <2>2 DEF RequestsOK, CarriedBy
    <2>3. ASSUME NEW x \in Taken(sn), NEW s, ~Oversized(x), OfPayload(s, x)
          PROVE  Carries(more, s) \/ \E i \in 1 .. Len(qq) : Carries(qq[i], s)
      BY <1>5, <1>6, <2>3 DEF RequestsOK, CarriedBy
    <2>4. QED
      BY <2>1, <2>2, <2>3 DEF CarriedBy
  <1>10. GroupedBy(qq, more)
    <2>1. \A g : Contains(more.groups, g) <=> Contains(bq.groups, g) \/ Contains(Groups[p], g)
      BY <1>1, <1>2, ContainsConcat
    <2>2. \A x \in MtPayloads : Covers(bq.groups, x) => Covers(more.groups, x)
      BY <2>1 DEF Covers
    <2>3. Covers(more.groups, p)
      BY <2>1 DEF Covers, Contains
    <2>4. ASSUME NEW x \in MtPayloads, NEW s, OfPayload(s, x), Carries(more, s)
          PROVE  Covers(more.groups, x)
      <3>1. CASE Carries(bq, s)
        BY <2>2, <2>4, <3>1 DEF RequestsOK, GroupedBy
      <3>2. CASE OfPayload(s, p)
        BY <2>3, <2>4, <3>2, OneOwner
      <3>3. QED
        BY <1>5, <2>4, <3>1, <3>2
    <2>5. QED
      BY <2>4 DEF RequestsOK, GroupedBy
  <1>11. BarrierIn(qq, more, sn)
    <2> SUFFICES ASSUME NEW x \in Taken(sn), NEW r \in Taken(sn), ~Oversized(x), hasStatus(x),
                        ~Oversized(r), r # x, NEW s, NEW t, OfPayload(s, x), OfPayload(t, r)
                 PROVE  /\ \A i, j \in 1 .. Len(qq) : Carries(qq[i], s) /\ Carries(qq[j], t) =>
                             i # j /\ (Before(x, r, sn) <=> i < j)
                        /\ Carries(more, t) => Before(x, r, sn)
      BY DEF BarrierIn
    <2>1. x \in Taken(sc)
      BY <1>6
    <2>2. CASE r = p
      BY <1>7, <1>8, <2>1, <2>2
    <2>3. CASE r # p
      <3>1. r \in Taken(sc) /\ r \in MtPayloads
        BY <1>6, <2>3
      <3>2. ~OfPayload(t, p)
        BY <2>3, <3>1, OneOwner
      <3>3. QED
        BY <1>5, <1>7, <2>1, <3>1, <3>2 DEF RequestsOK, BarrierIn
    <2>4. QED
      BY <2>2, <2>3
  <1>12. TokensOf(qq, more, sn)
    BY <1>2, <1>6, TokenOfType, PayloadAssumption DEF RequestsOK, TokensOf
  <1>13. QED
    BY <1>2, <1>4, <1>9, <1>10, <1>11, <1>12, TokenOfType DEF RequestsOK, more, sn

(* A request of another payload has another token.                         *)
LEMMA OwnPut ==
    ASSUME NEW qq \in Seq(RequestTypes), NEW q \in RequestTypes, OwnTokens(qq),
           \A i \in 1 .. Len(qq) : qq[i].token.of # q.token.of
    PROVE  OwnTokens(Append(qq, q))
  <1> DEFINE qn == Append(qq, q)
  <1>1. /\ qn[Len(qq) + 1] = q
        /\ \A i \in 1 .. Len(qq) : qn[i] = qq[i]
        /\ \A i \in 1 .. Len(qn) : i \in 1 .. Len(qq) \/ i = Len(qq) + 1
    BY OnePut
  <1> HIDE DEF qn
  <1> SUFFICES ASSUME NEW i \in 1 .. Len(qn), NEW j \in 1 .. Len(qn), i # j,
                      qn[i].token.of \in LongTokens
               PROVE  qn[i].token # qn[j].token
    BY DEF OwnTokens, qn
  <1>2. CASE i \in 1 .. Len(qq) /\ j \in 1 .. Len(qq)
    BY <1>1, <1>2 DEF OwnTokens
  <1>3. CASE i = Len(qq) + 1 /\ j \in 1 .. Len(qq)
    BY <1>1, <1>3
  <1>4. CASE i \in 1 .. Len(qq) /\ j = Len(qq) + 1
    BY <1>1, <1>4
  <1>5. QED
    BY <1>1, <1>2, <1>3, <1>4

(* A payload with a host status is put behind everything taken before.     *)
LEMMA PutKeeps ==
    ASSUME NEW qq \in Seq(RequestTypes), NEW bq \in RequestTypes, NEW sc \in Seq(MtPayloads),
           RequestsOK(qq, bq, sc), \A s : ~Carries(bq, s),
           NEW p \in MtPayloads, ~Contains(sc, p), p \notin MtMalformed, ~Oversized(p)
    PROVE  /\ RequestOf(p) \in RequestTypes /\ RequestOf(p).token.of = p
           /\ RequestsOK(Append(qq, RequestOf(p)), bq, Append(sc, p))
           /\ \A i \in 1 .. Len(qq) : qq[i].token.of # p
  <1> DEFINE q == RequestOf(p)
             qn == Append(qq, q)
             sn == Append(sc, p)
  <1>1. q \in RequestTypes /\ q.resources = Resources[p] /\ q.groups = Groups[p] /\ q.token.of = p
    BY ResourcesAssumption, TokenOfType DEF RequestOf, RequestTypes
  <1> HIDE DEF q
  <1>2. /\ Len(qq) \in Nat /\ Len(qn) = Len(qq) + 1 /\ qn[Len(qq) + 1] = q
        /\ \A i \in 1 .. Len(qq) : qn[i] = qq[i]
        /\ \A i \in 1 .. Len(qn) : i \in 1 .. Len(qq) \/ i = Len(qq) + 1
        /\ Len(qq) + 1 \in 1 .. Len(qn) /\ \A i \in 1 .. Len(qq) : i \in 1 .. Len(qn)
    BY <1>1, OnePut
  <1>3. \A s : Carries(q, s) <=> OfPayload(s, p)
    BY <1>1, CarriesHas, OfPayloadHas
  <1>4. /\ Taken(sn) = Taken(sc) \cup {p} /\ p \notin Taken(sc)
        /\ \A x \in Taken(sc) : x # p /\ Contains(sc, x) /\ x \in MtPayloads
    BY TakenMore DEF Taken
  <1>5. /\ \A x, y \in Taken(sc) : Before(x, y, sn) <=> Before(x, y, sc)
        /\ \A x \in Taken(sc) : Before(x, p, sn) /\ ~Before(p, x, sn)
    <2>1. \A x : ~Before(p, x, sc)
      BY BeforeIsIn
    <2>2. QED
      BY <1>4, <2>1, TakenMore
  <1>6. \A i \in 1 .. Len(qq) : \A s : Carries(qq[i], s) => ~OfPayload(s, p)
    BY <1>4, OneOwner DEF RequestsOK, CarriedBy
  <1> HIDE DEF sn, qn
  <1>7. CarriedBy(qn, bq, sn)
    <2>1. ASSUME NEW i \in 1 .. Len(qn), NEW s, Carries(qn[i], s)
          PROVE  \E x \in Taken(sn) : OfPayload(s, x)
      BY <1>2, <1>3, <1>4, <2>1 DEF RequestsOK, CarriedBy
    <2>2. ASSUME NEW i \in 1 .. Len(qn), NEW s, Carries(qn[i], s),
                 NEW j \in 1 .. Len(qn), Carries(qn[j], s)
          PROVE  j = i
      <3>1. CASE i \in 1 .. Len(qq) /\ j \in 1 .. Len(qq)
        <4>1. Carries(qq[i], s) /\ Carries(qq[j], s)
          BY <1>2, <2>2, <3>1
        <4>2. QED
          BY <3>1, <4>1 DEF RequestsOK, CarriedBy
      <3>2. CASE i \in 1 .. Len(qq) /\ j = Len(qq) + 1
        BY <1>2, <1>3, <1>6, <2>2, <3>2
      <3>3. CASE i = Len(qq) + 1 /\ j \in 1 .. Len(qq)
        BY <1>2, <1>3, <1>6, <2>2, <3>3
      <3>4. QED
        BY <1>2, <2>2, <3>1, <3>2, <3>3
    <2>3. ASSUME NEW x \in Taken(sn), NEW s, ~Oversized(x), OfPayload(s, x)
          PROVE  \E i \in 1 .. Len(qn) : Carries(qn[i], s)
      <3>1. CASE x = p
        BY <1>2, <1>3, <2>3, <3>1
      <3>2. CASE x # p
        BY <1>2, <1>4, <2>3, <3>2 DEF RequestsOK, CarriedBy
      <3>3. QED
        BY <3>1, <3>2
    <2>4. QED
      BY <2>1, <2>2, <2>3 DEF CarriedBy
  <1>8. GroupedBy(qn, bq)
    <2>1. Covers(q.groups, p)
      BY <1>1 DEF Covers, Contains
    <2>2. ASSUME NEW x \in MtPayloads, NEW s, OfPayload(s, x),
                 NEW i \in 1 .. Len(qn), Carries(qn[i], s)
          PROVE  Covers(qn[i].groups, x)
      <3>1. CASE i \in 1 .. Len(qq)
        BY <1>2, <2>2, <3>1 DEF RequestsOK, GroupedBy
      <3>2. CASE i = Len(qq) + 1
        BY <1>2, <1>3, <2>1, <2>2, <3>2, OneOwner
      <3>3. QED
        BY <1>2, <3>1, <3>2
    <2>3. QED
      BY <2>2 DEF GroupedBy
  <1>9. BarrierIn(qn, bq, sn)
    <2> SUFFICES ASSUME NEW x \in Taken(sn), NEW r \in Taken(sn), ~Oversized(x), hasStatus(x),
                        ~Oversized(r), r # x, NEW s, NEW t, OfPayload(s, x), OfPayload(t, r),
                        NEW i \in 1 .. Len(qn), NEW j \in 1 .. Len(qn),
                        Carries(qn[i], s), Carries(qn[j], t)
                 PROVE  i # j /\ (Before(x, r, sn) <=> i < j)
      BY DEF BarrierIn
    <2>1. \A y \in Taken(sn) : \A u : OfPayload(u, y) /\ Carries(q, u) => y = p
      BY <1>3, <1>4, OneOwner
    <2>2. \A k \in 1 .. Len(qn) : \A u : OfPayload(u, p) /\ Carries(qn[k], u) => k = Len(qq) + 1
      BY <1>2, <1>6
    <2>3. CASE x = p
      <3>1. i = Len(qq) + 1 /\ j \in 1 .. Len(qq)
        BY <1>2, <2>1, <2>2, <2>3
      <3>2. r \in Taken(sc) /\ ~Before(x, r, sn)
        BY <1>4, <1>5, <2>3
      <3>3. QED
        BY <1>2, <3>1, <3>2
    <2>4. CASE r = p
      <3>1. j = Len(qq) + 1 /\ i \in 1 .. Len(qq)
        BY <1>2, <2>1, <2>2, <2>4
      <3>2. x \in Taken(sc) /\ Before(x, r, sn)
        BY <1>4, <1>5, <2>4
      <3>3. QED
        BY <1>2, <3>1, <3>2
    <2>5. CASE x # p /\ r # p
      <3>1. i \in 1 .. Len(qq) /\ j \in 1 .. Len(qq) /\ x \in Taken(sc) /\ r \in Taken(sc)
        BY <1>2, <1>4, <2>1, <2>5
      <3>2. Carries(qq[i], s) /\ Carries(qq[j], t)
        BY <1>2, <3>1
      <3>3. QED
        BY <1>5, <3>1, <3>2 DEF RequestsOK, BarrierIn
    <2>6. QED
      BY <2>3, <2>4, <2>5
  <1>10. /\ TokensOf(qn, bq, sn)
         /\ \A i \in 1 .. Len(qq) : qq[i].token.of # p
    BY <1>1, <1>2, <1>4, PayloadAssumption DEF RequestsOK, TokensOf
  <1>11. QED
    BY <1>1, <1>7, <1>8, <1>9, <1>10 DEF RequestsOK, q, qn, sn

(* A part of a split payload is put.                                       *)
LEMMA PartKeeps ==
    ASSUME NEW qq \in Seq(RequestTypes), NEW bq \in RequestTypes, NEW sc, RequestsOK(qq, bq, sc),
           NEW x \in Taken(sc), Oversized(x), NEW r \in ResourceTypes, NEW part \in Seq(AllServices),
           \A s : Contains(part, s) => OfPayload(s, x) /\ \A i \in 1 .. Len(qq) : ~Carries(qq[i], s)
    PROVE  LET q == [resources |-> <<WithServices(r, part)>>, groups |-> Groups[x],
                     token |-> TokenOf(x)]
           IN  /\ q \in RequestTypes
               /\ \A s : Carries(q, s) <=> Contains(part, s)
               /\ RequestsOK(Append(qq, q), bq, sc)
  <1> DEFINE w == WithServices(r, part)
             q == [resources |-> <<w>>, groups |-> Groups[x], token |-> TokenOf(x)]
             qn == Append(qq, q)
  <1>1. w \in ResourceTypes /\ w.services = part /\ x \in MtPayloads
    BY WithServicesType DEF Taken
  <1> HIDE DEF w
  <1>2. <<w>> \in Seq(ResourceTypes) /\ Groups[x] \in Seq(AllGroups)
    BY <1>1, ResourcesAssumption
  <1>3. /\ q \in RequestTypes /\ q.resources = <<w>> /\ q.groups = Groups[x] /\ q.token.of = x
    BY <1>1, <1>2, TokenOfType DEF RequestTypes
  <1> HIDE DEF q
  <1>4. \A s : Carries(q, s) <=> Contains(part, s)
    BY <1>1, <1>3, CarriesHas, HasOne
  <1>5. /\ Len(qq) \in Nat /\ Len(qn) = Len(qq) + 1 /\ qn[Len(qq) + 1] = q
        /\ \A i \in 1 .. Len(qq) : qn[i] = qq[i]
        /\ \A i \in 1 .. Len(qn) : i \in 1 .. Len(qq) \/ i = Len(qq) + 1
        /\ Len(qq) + 1 \in 1 .. Len(qn) /\ \A i \in 1 .. Len(qq) : i \in 1 .. Len(qn)
    BY <1>3, OnePut
  <1>6. \A s : Carries(q, s) => OfPayload(s, x) /\ \A i \in 1 .. Len(qq) : ~Carries(qq[i], s)
    BY <1>4
  <1>7. \A y \in Taken(sc) : \A s : ~Oversized(y) /\ OfPayload(s, y) => ~Carries(q, s)
    BY <1>1, <1>6, OneOwner DEF Taken
  <1> HIDE DEF qn
  <1>8. CarriedBy(qn, bq, sc)
    <2>1. ASSUME NEW i \in 1 .. Len(qn), NEW s, Carries(qn[i], s)
          PROVE  (\E y \in Taken(sc) : OfPayload(s, y)) /\ ~Carries(bq, s)
      <3>1. CASE i \in 1 .. Len(qq)
        BY <1>5, <2>1, <3>1 DEF RequestsOK, CarriedBy
      <3>2. CASE i = Len(qq) + 1
        BY <1>5, <1>6, <1>7, <2>1, <3>2 DEF RequestsOK, CarriedBy
      <3>3. QED
        BY <1>5, <3>1, <3>2
    <2>2. ASSUME NEW i \in 1 .. Len(qn), NEW s, Carries(qn[i], s),
                 NEW j \in 1 .. Len(qn), Carries(qn[j], s)
          PROVE  j = i
      BY <1>5, <1>6, <2>2 DEF RequestsOK, CarriedBy
    <2>3. ASSUME NEW y \in Taken(sc), NEW s, ~Oversized(y), OfPayload(s, y)
          PROVE  Carries(bq, s) \/ \E i \in 1 .. Len(qn) : Carries(qn[i], s)
      BY <1>5, <2>3 DEF RequestsOK, CarriedBy
    <2>4. \A s : Carries(bq, s) =>
             \E y \in Taken(sc) : ~Oversized(y) /\ ~hasStatus(y) /\ OfPayload(s, y)
      BY DEF RequestsOK, CarriedBy
    <2>5. QED
      BY <2>1, <2>2, <2>3, <2>4 DEF CarriedBy
  <1>9. GroupedBy(qn, bq)
    <2>1. Covers(q.groups, x)
      BY <1>2, <1>3 DEF Covers, Contains
    <2>2. ASSUME NEW y \in MtPayloads, NEW s, OfPayload(s, y),
                 NEW i \in 1 .. Len(qn), Carries(qn[i], s)
          PROVE  Covers(qn[i].groups, y)
      <3>1. CASE i \in 1 .. Len(qq)
        BY <1>5, <2>2, <3>1 DEF RequestsOK, GroupedBy
      <3>2. CASE i = Len(qq) + 1
        BY <1>1, <1>5, <1>6, <2>1, <2>2, <3>2, OneOwner
      <3>3. QED
        BY <1>5, <3>1, <3>2
    <2>3. QED
      BY <2>2 DEF RequestsOK, GroupedBy
  <1>10. BarrierIn(qn, bq, sc)
    BY <1>5, <1>7 DEF RequestsOK, BarrierIn
  <1>11. TokensOf(qn, bq, sc)
    BY <1>1, <1>3, <1>5, PayloadAssumption DEF RequestsOK, TokensOf
  <1>12. QED
    BY <1>3, <1>4, <1>8, <1>9, <1>10, <1>11 DEF RequestsOK, q, qn, w

(* The end of a split: every request made so far gets its number.          *)
LEMMA NumberKeeps ==
    ASSUME NEW qq \in Seq(RequestTypes), NEW bq, NEW sc, RequestsOK(qq, bq, sc)
    PROVE  LET qn == [i \in 1 .. Len(qq) |->
                        IF qq[i].token.of \in LongTokens THEN WithNumber(qq[i], i) ELSE qq[i]]
           IN  qn \in Seq(RequestTypes) /\ RequestsOK(qn, bq, sc) /\ OwnTokens(qn)
  <1> DEFINE qn == [i \in 1 .. Len(qq) |->
                        IF qq[i].token.of \in LongTokens THEN WithNumber(qq[i], i) ELSE qq[i]]
  <1>1. Len(qq) \in Nat
    BY LenProperties
  <1>2. ASSUME NEW i \in 1 .. Len(qq)
        PROVE  /\ WithNumber(qq[i], i) \in RequestTypes
               /\ WithNumber(qq[i], i).resources = qq[i].resources
               /\ WithNumber(qq[i], i).groups = qq[i].groups
               /\ WithNumber(qq[i], i).token = [of |-> qq[i].token.of, part |-> i]
    <2>1. qq[i] \in RequestTypes /\ i \in Nat
      BY <1>1, ElementOfSeq
    <2>2. QED
      BY <2>1 DEF WithNumber, RequestTypes, Tokens
  <1>3. qn \in Seq(RequestTypes) /\ Len(qn) = Len(qq)
    <2>1. \A i \in 1 .. Len(qq) : qn[i] \in RequestTypes
      BY <1>2, ElementOfSeq
    <2>2. QED
      BY <1>1, <2>1
  <1>4. \A i \in 1 .. Len(qq) : /\ qn[i].resources = qq[i].resources
                                /\ qn[i].groups = qq[i].groups
                                /\ qn[i].token.of = qq[i].token.of
                                /\ qq[i].token.of \in LongTokens => qn[i].token.part = i
    <2> TAKE i \in 1 .. Len(qq)
    <2>1. CASE qq[i].token.of \in LongTokens
      <3>1. qn[i] = WithNumber(qq[i], i)
        BY <2>1
      <3>2. /\ WithNumber(qq[i], i).resources = qq[i].resources
            /\ WithNumber(qq[i], i).groups = qq[i].groups
            /\ WithNumber(qq[i], i).token.of = qq[i].token.of
            /\ WithNumber(qq[i], i).token.part = i
        BY DEF WithNumber
      <3> HIDE DEF qn
      <3>3. QED
        BY <3>1, <3>2
    <2>2. CASE qq[i].token.of \notin LongTokens
      <3>1. qn[i] = qq[i]
        BY <2>2
      <3>2. QED
        BY <2>2, <3>1
    <2>3. QED
      BY <2>1, <2>2
  <1> HIDE DEF qn
  <1>5. \A i \in 1 .. Len(qq) : \A s : Carries(qn[i], s) <=> Carries(qq[i], s)
    BY <1>4, CarriesHas
  <1>6. CarriedBy(qn, bq, sc)
    BY <1>3, <1>5 DEF RequestsOK, CarriedBy
  <1>7. GroupedBy(qn, bq)
    BY <1>3, <1>4, <1>5 DEF RequestsOK, GroupedBy
  <1>8. BarrierIn(qn, bq, sc)
    <2>1. ASSUME NEW p \in Taken(sc), NEW x \in Taken(sc), ~Oversized(p), hasStatus(p), ~Oversized(x), x # p,
                 NEW s, NEW t, OfPayload(s, p), OfPayload(t, x)
          PROVE  /\ \A i, j \in 1 .. Len(qq) : Carries(qq[i], s) /\ Carries(qq[j], t) =>
                      i # j /\ (Before(p, x, sc) <=> i < j)
                 /\ Carries(bq, t) => Before(p, x, sc)
      BY <2>1 DEF RequestsOK, BarrierIn
    <2>2. QED
      BY <1>3, <1>5, <2>1 DEF BarrierIn
  <1>9. TokensOf(qn, bq, sc)
    BY <1>3, <1>4 DEF RequestsOK, TokensOf
  <1>10. OwnTokens(qn)
    <2> SUFFICES ASSUME NEW i \in 1 .. Len(qq), NEW j \in 1 .. Len(qq), i # j,
                        qn[i].token.of \in LongTokens, qn[i].token = qn[j].token
                 PROVE  FALSE
      BY <1>3 DEF OwnTokens
    <2>1. qn[i].token.part = i /\ qn[j].token.part = j
      BY <1>4
    <2>2. QED
      BY <2>1
  <1>11. QED
    BY <1>3, <1>6, <1>7, <1>8, <1>9, <1>10 DEF RequestsOK, qn

-----------------------------------------------------------------------------
(* The inductive invariant *)

(* Types of all variables.                                                 *)
MtTypes ==
    /\ mtMaxBytes \in Nat \ {0}
    /\ mtBuf \in Seq(MtPayloads) /\ mtScanned \in Seq(MtPayloads)
    /\ mtC \in Nat /\ cx \in Nat /\ mtLim \in Nat \ {0} /\ cx < mtLim
    /\ mtBq \in RequestTypes /\ mtQq \in Seq(RequestTypes)
    /\ xp \in MtPayloads \cup {NoPayload}
    /\ pr \in Seq(AllServices) /\ mtXxl \in Seq(ResourceTypes)

(* A payload is scanned once.                                              *)
ScannedOnce ==
    /\ Distinct(mtBuf)
    /\ \A p : Contains(mtBuf, p) => ~Contains(mtScanned, p)

(* What is left of the payload being split is in no request yet.           *)
SplitOK ==
    /\ xp = NoPayload => OwnTokens(mtQq) /\ mtXxl = <<>>
    /\ xp # NoPayload => xp \in Taken(mtScanned) /\ Oversized(xp)
    /\ mtXxl = <<>> => pr = <<>>
    /\ OwnServices(mtXxl)
    /\ \A s : Has(mtXxl, s) \/ Contains(pr, s) =>
          OfPayload(s, xp) /\ \A i \in 1 .. Len(mtQq) : ~Carries(mtQq[i], s)
    /\ \A s : Has(mtXxl, s) => ~Contains(pr, s)

(* Nothing is returned before Build is done.                               *)
BuiltOK ==
    /\ mtBuilt => mtBuf = <<>> /\ xp = NoPayload
    /\ mtBuilt \in BOOLEAN
    /\ ~mtBuilt => out = <<>>
    /\ GroupsKept

(* The inductive invariant behind MetricsKept and StatusIsABarrier.        *)
MtInv ==
    /\ MtTypes
    /\ ScannedOnce
    /\ RequestsOK(mtQq, mtBq, mtScanned)
    /\ SplitOK
    /\ BuiltOK

-----------------------------------------------------------------------------
(* The partial counts of the services of a payload, as ServiceCount        *)
(* computes them.                                                          *)
IsCounts(f, p) ==
    f = [i \in 0 .. Len(Resources[p]) |->
            IF i = 0 THEN 0 ELSE f[i - 1] + Len(ServicesOf(p, i))]

(* The lengths a payload is counted by.                                    *)
LEMMA LengthsOf ==
    ASSUME NEW p \in MtPayloads
    PROVE  /\ Len(Resources[p]) \in Nat
           /\ \A i \in 1 .. Len(Resources[p]) : Len(ServicesOf(p, i)) \in Nat
  <1>1. Resources[p] \in Seq(ResourceTypes)
    BY ResourcesAssumption
  <1>2. ASSUME NEW i \in 1 .. Len(Resources[p]) PROVE Len(ServicesOf(p, i)) \in Nat
    <2>1. Resources[p][i] \in ResourceTypes
      BY <1>1, ElementOfSeq
    <2>2. ServicesOf(p, i) \in Seq(AllServices)
      BY <2>1 DEF ResourceTypes, ServicesOf
    <2>3. QED
      BY <2>2, LenProperties
  <1>3. QED
    BY <1>1, <1>2, LenProperties

(* The services of a payload are counted: there are partial counts up to   *)
(* each resource, or there would be a first one without.                   *)
LEMMA CountsExist ==
    ASSUME NEW p \in MtPayloads
    PROVE  \E f : IsCounts(f, p)
  <1> DEFINE N == Len(Resources[p])
             L(i) == Len(ServicesOf(p, i))
             UpTo(f, n) == f[0] = 0 /\ \A i \in 1 .. n : f[i] = f[i - 1] + L(i)
             Counted(n) == \E f \in [0 .. N -> Nat] : UpTo(f, n)
             T == {n \in 0 .. N : ~Counted(n)}
  <1>1. N \in Nat /\ \A i \in 1 .. N : L(i) \in Nat
    BY LengthsOf
  <1> HIDE DEF N, L
  <1>2. Counted(0)
    <2>1. [i \in 0 .. N |-> 0] \in [0 .. N -> Nat] /\ UpTo([i \in 0 .. N |-> 0], 0)
      BY <1>1
    <2>2. QED
      BY <2>1
  <1>3. ASSUME NEW n \in 1 .. N, Counted(n - 1) PROVE Counted(n)
    <2>1. PICK f \in [0 .. N -> Nat] : UpTo(f, n - 1)
      BY <1>3
    <2> DEFINE g == [f EXCEPT ![n] = f[n - 1] + L(n)]
    <2>2. n \in 0 .. N /\ n - 1 \in 0 .. N /\ n # 0
      BY <1>1
    <2>3. g \in [0 .. N -> Nat] /\ g[n] = f[n - 1] + L(n) /\ \A i \in 0 .. N : i # n => g[i] = f[i]
      BY <1>1, <2>2
    <2> HIDE DEF g
    <2>4. g[0] = 0 /\ g[n] = g[n - 1] + L(n)
      BY <1>1, <2>1, <2>2, <2>3
    <2>5. ASSUME NEW i \in 1 .. n - 1 PROVE g[i] = g[i - 1] + L(i)
      <3>1. i \in 0 .. N /\ i # n /\ i - 1 \in 0 .. N /\ i - 1 # n
        BY <1>1
      <3>2. QED
        BY <2>1, <2>3, <3>1
    <2>6. \A i \in 1 .. n : i = n \/ i \in 1 .. n - 1
      BY <1>1
    <2>7. UpTo(g, n)
      BY <2>4, <2>5, <2>6
    <2>8. QED
      BY <2>3, <2>7
  <1> HIDE DEF Counted
  <1>4. T = {}
    <2> SUFFICES ASSUME T # {} PROVE FALSE
      OBVIOUS
    <2>1. PICK n \in T : \A y \in T : n <= y
      <3>1. T \subseteq Nat
        BY <1>1
      <3> HIDE DEF T
      <3>2. QED
        BY <3>1, SmallestOf
    <2>2. n \in 1 .. N /\ n - 1 \in 0 .. N /\ n - 1 \notin T
      BY <1>1, <1>2, <2>1
    <2>3. QED
      BY <1>3, <2>1, <2>2
  <1>5. Counted(N)
    BY <1>1, <1>4
  <1>6. PICK f \in [0 .. N -> Nat] : UpTo(f, N)
    BY <1>5 DEF Counted
  <1>7. f = [i \in 0 .. N |-> IF i = 0 THEN 0 ELSE f[i - 1] + L(i)]
    <2> DEFINE h == [i \in 0 .. N |-> IF i = 0 THEN 0 ELSE f[i - 1] + L(i)]
    <2>1. \A i \in 0 .. N : f[i] = h[i]
      BY <1>1, <1>6
    <2>2. QED
      BY <2>1, <1>6
  <1>8. QED
    BY <1>7 DEF IsCounts, N, L

(* The count of services is a number.                                      *)
LEMMA ServiceCountType ==
    ASSUME NEW p \in MtPayloads
    PROVE  ServiceCount(p) \in Nat
  <1> DEFINE N == Len(Resources[p])
             L(i) == Len(ServicesOf(p, i))
             f == CHOOSE h : IsCounts(h, p)
             T == {i \in 0 .. N : f[i] \notin Nat}
  <1>1. ServiceCount(p) = f[N]
    BY DEF ServiceCount, IsCounts, ServicesOf
  <1>2. IsCounts(f, p)
    BY CountsExist, Zenon
  <1>3. N \in Nat /\ \A i \in 1 .. N : L(i) \in Nat
    BY LengthsOf
  <1> HIDE DEF f
  <1>4. f = [i \in 0 .. N |-> IF i = 0 THEN 0 ELSE f[i - 1] + L(i)]
    BY <1>2 DEF IsCounts
  <1> HIDE DEF N, L
  <1>5. f[0] = 0 /\ \A i \in 1 .. N : f[i] = f[i - 1] + L(i)
    BY <1>3, <1>4, SMTT(30)
  <1>6. T = {}
    <2> SUFFICES ASSUME T # {} PROVE FALSE
      OBVIOUS
    <2>1. PICK n \in T : \A y \in T : n <= y
      <3>1. T \subseteq Nat
        BY <1>3
      <3> HIDE DEF T
      <3>2. QED
        BY <3>1, SmallestOf
    <2>2. n \in 1 .. N /\ n - 1 \in 0 .. N /\ n - 1 \notin T
      BY <1>3, <1>5, <2>1
    <2>3. QED
      BY <1>3, <1>5, <2>1, <2>2
  <1>7. QED
    BY <1>1, <1>3, <1>6

(* A part of a split payload has one service at least, and the divisions   *)
(* are by positive numbers.                                                *)
LEMMA SplitLimitPositive ==
    ASSUME NEW cnt \in Nat, NEW len \in Nat, mtMaxBytes \in Nat \ {0}
    PROVE  MtPartLimit(cnt, len) \in Nat \ {0}
  <1>1. len \div mtMaxBytes \in Nat
    OBVIOUS
  <1>2. cnt \div (len \div mtMaxBytes + 1) \in Nat
    BY <1>1
  <1>3. QED
    BY <1>2 DEF MtPartLimit

-----------------------------------------------------------------------------
(* The steps *)

(* maxBytes does not change during Build, so what holds of the next        *)
(* requests with it now holds in the next state.                           *)
LEMMA InvNext ==
    ASSUME mtMaxBytes' = mtMaxBytes, MtTypes', ScannedOnce',
           RequestsOK(mtQq', mtBq', mtScanned'), SplitOK', BuiltOK'
    PROVE  MtInv'
  <1>1. /\ CarriedBy(mtQq, mtBq, mtScanned)' <=> CarriedBy(mtQq', mtBq', mtScanned')
        /\ GroupedBy(mtQq, mtBq)' <=> GroupedBy(mtQq', mtBq')
        /\ BarrierIn(mtQq, mtBq, mtScanned)' <=> BarrierIn(mtQq', mtBq', mtScanned')
        /\ TokensOf(mtQq, mtBq, mtScanned)' <=> TokensOf(mtQq', mtBq', mtScanned')
    <2>1. \A p : Oversized(p)' <=> Oversized(p)
      BY DEF Oversized
    <2>2. CarriedBy(mtQq, mtBq, mtScanned)' <=> CarriedBy(mtQq', mtBq', mtScanned')
      BY <2>1 DEF CarriedBy
    <2>3. GroupedBy(mtQq, mtBq)' <=> GroupedBy(mtQq', mtBq')
      BY DEF GroupedBy
    <2>4. BarrierIn(mtQq, mtBq, mtScanned)' <=> BarrierIn(mtQq', mtBq', mtScanned')
      BY <2>1 DEF BarrierIn
    <2>5. TokensOf(mtQq, mtBq, mtScanned)' <=> TokensOf(mtQq', mtBq', mtScanned')
      BY <2>1 DEF TokensOf
    <2>6. QED
      BY <2>2, <2>3, <2>4, <2>5
  <1>2. QED
    BY <1>1 DEF MtInv, RequestsOK

(* While Build runs nothing is returned yet.                               *)
LEMMA StillBuilding ==
    ASSUME mtBuilt' = mtBuilt, mtBuilt = FALSE, out' = out, out = <<>>
    PROVE  BuiltOK'
  <1>1. 1 .. Len(out') = {}
    BY EmptySeq
  <1>2. GroupsKept'
    BY <1>1, Zenon DEF GroupsKept
  <1>3. mtBuilt' = FALSE /\ out' = <<>>
    BY Zenon
  <1>4. QED
    BY <1>2, <1>3, Zenon DEF BuiltOK

(* Build takes a payload not taken before.                                 *)
LEMMA Scanning ==
    ASSUME MtInv, NEW p \in MtPayloads, MtScan(p)
    PROVE  /\ mtBuf' \in Seq(MtPayloads) /\ mtScanned' \in Seq(MtPayloads)
           /\ mtScanned' = Append(mtScanned, p) /\ ~Contains(mtScanned, p)
           /\ ScannedOnce' /\ BuiltOK' /\ mtMaxBytes' = mtMaxBytes /\ xp = NoPayload
           /\ MtPayloadLen[p] \in Nat
  <1>1. mtBuf \in Seq(MtPayloads) /\ mtScanned \in Seq(MtPayloads) /\ mtBuf # <<>>
    BY DEF MtInv, MtTypes, MtScan
  <1>2. /\ mtBuf' = Tail(mtBuf) /\ p = mtBuf[1] /\ 1 \in 1 .. Len(mtBuf)
        /\ Tail(mtBuf) \in Seq(MtPayloads) /\ Len(Tail(mtBuf)) = Len(mtBuf) - 1 /\ Len(mtBuf) \in Nat
        /\ \A i \in 1 .. Len(Tail(mtBuf)) : Tail(mtBuf)[i] = mtBuf[i + 1]
    BY <1>1, HeadTailProperties, LenProperties, EmptySeq DEF MtScan
  <1>3. mtScanned' = Append(mtScanned, p) /\ mtScanned' \in Seq(MtPayloads)
    BY <1>1, AppendProperties DEF MtScan
  <1>4. ~Contains(mtScanned, p)
    BY <1>2 DEF MtInv, ScannedOnce, Contains
  <1>5. ScannedOnce'
    <2>1. Distinct(Tail(mtBuf))
      BY <1>2 DEF MtInv, ScannedOnce, Distinct
    <2>2. ASSUME NEW x, Contains(Tail(mtBuf), x)
          PROVE  ~Contains(Append(mtScanned, p), x)
      <3>1. Contains(mtBuf, x) /\ x # p
        BY <1>2, <2>2 DEF MtInv, ScannedOnce, Distinct, Contains
      <3>2. QED
        BY <1>1, <3>1, ContainsAppend DEF MtInv, ScannedOnce
    <2>3. QED
      BY <1>2, <1>3, <2>1, <2>2 DEF ScannedOnce
  <1>6. BuiltOK'
    <2>1. mtBuilt' = mtBuilt /\ mtBuilt = FALSE /\ out' = out /\ out = <<>>
      BY <1>1 DEF MtScan, MtInv, BuiltOK
    <2>2. QED
      BY <2>1, StillBuilding
  <1>7. QED
    BY <1>2, <1>3, <1>4, <1>5, <1>6, MtLenAssumption DEF MtScan

(* Outside of a split there is nothing left to split.                      *)
LEMMA NoSplit ==
    ASSUME xp' = NoPayload, mtXxl' = <<>>, pr' = <<>>, OwnTokens(mtQq')
    PROVE  SplitOK'
  <1>1. OwnServices(<<>>)
    BY DEF OwnServices
  <1>2. \A s : ~Has(<<>>, s) /\ ~Contains(<<>>, s)
    BY HasEmpty, EmptyPlace
  <1>3. QED
    BY <1>1, <1>2 DEF SplitOK

(* A payload that does not unmarshal.                                      *)
LEMMA SkipStep ==
    ASSUME MtInv, NEW p \in MtPayloads, MtSkip(p)
    PROVE  MtInv'
  <1>1. MtScan(p) /\ p \in MtMalformed
    BY DEF MtSkip
  <1>2. UNCHANGED <<mtC, mtBq, mtQq, xp, mtXxl, pr, cx, mtLim>>
    BY DEF MtSkip, splitVars
  <1>3. MtTypes'
    BY <1>1, <1>2, Scanning DEF MtInv, MtTypes
  <1>4. RequestsOK(mtQq', mtBq', mtScanned')
    BY <1>1, <1>2, Scanning, ScanKeeps DEF MtInv, MtTypes
  <1>5. SplitOK'
    BY <1>1, <1>2, Scanning, NoSplit DEF MtInv, SplitOK
  <1>6. QED
    BY <1>1, <1>3, <1>4, <1>5, Scanning, InvNext

(* A request without resources carries no service.                         *)
LEMMA NothingCarried ==
    ASSUME NEW bq, bq.resources = <<>>
    PROVE  \A s : ~Carries(bq, s)
  BY CarriesHas, HasEmpty

(* A payload with a host status.                                           *)
LEMMA PutStatusStep ==
    ASSUME MtInv, NEW p \in MtPayloads, PutStatus(p)
    PROVE  MtInv'
  <1> DEFINE flush == mtBq.resources # <<>>
             qq == IF flush THEN Append(mtQq, mtBq) ELSE mtQq
             bq == IF flush THEN EmptyRequest ELSE mtBq
  <1>1. MtScan(p) /\ p \notin MtMalformed /\ ~Oversized(p)
    <2>1. MtPayloadLen[p] \in Nat /\ mtMaxBytes \in Nat
      BY MtLenAssumption DEF MtInv, MtTypes
    <2>2. QED
      BY <2>1 DEF PutStatus, Oversized
  <1>2. /\ mtQq' = Append(qq, RequestOf(p)) /\ mtBq' = bq
        /\ mtC' = IF flush THEN 0 ELSE mtC
        /\ UNCHANGED <<xp, mtXxl, pr, cx, mtLim>>
    BY DEF PutStatus, splitVars
  <1>3. /\ mtQq \in Seq(RequestTypes) /\ mtBq \in RequestTypes /\ mtScanned \in Seq(MtPayloads)
        /\ RequestsOK(mtQq, mtBq, mtScanned) /\ OwnTokens(mtQq)
    BY <1>1, Scanning DEF MtInv, MtTypes, SplitOK
  <1>4. /\ qq \in Seq(RequestTypes) /\ bq \in RequestTypes /\ RequestsOK(qq, bq, mtScanned)
        /\ OwnTokens(qq) /\ bq.resources = <<>>
    <2>1. CASE flush
      <3>1. mtBq.token.of # NoPayload /\ \A i \in 1 .. Len(mtQq) : mtQq[i].token.of # mtBq.token.of
        BY <1>3, <2>1 DEF RequestsOK, TokensOf
      <3>2. RequestsOK(Append(mtQq, mtBq), EmptyRequest, mtScanned)
        BY <1>3, <3>1, CloseKeeps
      <3>3. OwnTokens(Append(mtQq, mtBq))
        BY <1>3, <3>1, OwnPut
      <3>4. QED
        BY <1>3, <2>1, <3>2, <3>3, OnePut, EmptyRequestType
    <2>2. CASE ~flush
      BY <1>3, <2>2
    <2>3. QED
      BY <2>1, <2>2
  <1> HIDE DEF qq, bq
  <1>5. \A s : ~Carries(bq, s)
    BY <1>4, NothingCarried
  <1>6. ~Contains(mtScanned, p) /\ mtScanned' = Append(mtScanned, p)
    BY <1>1, Scanning
  <1>7. /\ RequestOf(p) \in RequestTypes /\ RequestOf(p).token.of = p
        /\ RequestsOK(mtQq', mtBq', mtScanned')
        /\ \A i \in 1 .. Len(qq) : qq[i].token.of # p
    <2>1. /\ RequestOf(p) \in RequestTypes /\ RequestOf(p).token.of = p
          /\ RequestsOK(Append(qq, RequestOf(p)), bq, Append(mtScanned, p))
          /\ \A i \in 1 .. Len(qq) : qq[i].token.of # p
      <3>1. RequestsOK(qq, bq, mtScanned) /\ qq \in Seq(RequestTypes) /\ bq \in RequestTypes
        BY <1>4, Zenon
      <3> HIDE DEF flush
      <3>2. QED
        BY <1>1, <1>3, <1>5, <1>6, <3>1, PutKeeps
    <2>2. QED
      BY <1>2, <1>6, <2>1, Zenon
  <1>8. OwnTokens(mtQq') /\ mtQq' \in Seq(RequestTypes)
    BY <1>2, <1>4, <1>7, OwnPut, OnePut
  <1>9. MtTypes'
    <2>1. mtC' \in Nat
      BY <1>2 DEF MtInv, MtTypes
    <2>2. QED
      BY <1>1, <1>2, <1>4, <1>8, <2>1, Scanning DEF MtInv, MtTypes
  <1>10. SplitOK'
    BY <1>1, <1>2, <1>8, Scanning, NoSplit DEF MtInv, SplitOK
  <1>11. QED
    BY <1>1, <1>7, <1>9, <1>10, Scanning, InvNext

(* A payload that joins bq, which is closed when it is full.               *)
LEMMA CombineStep ==
    ASSUME MtInv, NEW p \in MtPayloads, MtCombine(p)
    PROVE  MtInv'
  <1> DEFINE full == mtC + MtPayloadLen[p] >= mtMaxBytes
             more == [resources |-> mtBq.resources \o Resources[p],
                      groups |-> mtBq.groups \o Groups[p], token |-> TokenOf(p)]
  <1>1. MtScan(p) /\ p \notin MtMalformed /\ ~Oversized(p) /\ ~hasStatus(p)
    <2>1. MtPayloadLen[p] \in Nat /\ mtMaxBytes \in Nat
      BY MtLenAssumption DEF MtInv, MtTypes
    <2>2. QED
      BY <2>1 DEF MtCombine, Oversized
  <1>2. /\ mtQq' = IF full THEN Append(mtQq, more) ELSE mtQq
        /\ mtBq' = IF full THEN EmptyRequest ELSE more
        /\ mtC' = IF full THEN 0 ELSE mtC + MtPayloadLen[p]
        /\ UNCHANGED <<xp, mtXxl, pr, cx, mtLim>>
    BY DEF MtCombine, splitVars
  <1>3. /\ mtQq \in Seq(RequestTypes) /\ mtBq \in RequestTypes /\ mtScanned \in Seq(MtPayloads)
        /\ RequestsOK(mtQq, mtBq, mtScanned) /\ OwnTokens(mtQq)
        /\ mtScanned' = Append(mtScanned, p) /\ ~Contains(mtScanned, p)
    BY <1>1, Scanning DEF MtInv, MtTypes, SplitOK
  <1>4. more \in RequestTypes /\ more.token.of = p /\ RequestsOK(mtQq, more, mtScanned')
    <2>1. more \in RequestTypes /\ more.token.of = p /\ RequestsOK(mtQq, more, Append(mtScanned, p))
      BY <1>1, <1>3, JoinKeeps, Zenon
    <2>2. QED
      BY <1>3, <2>1, Zenon
  <1>5. mtC' \in Nat
    <2>1. mtC \in Nat /\ MtPayloadLen[p] \in Nat
      BY MtLenAssumption DEF MtInv, MtTypes
    <2>2. QED
      BY <1>2, <2>1
  <1> HIDE DEF more, full
  <1>6. /\ mtQq' \in Seq(RequestTypes) /\ mtBq' \in RequestTypes
        /\ RequestsOK(mtQq', mtBq', mtScanned') /\ OwnTokens(mtQq')
    <2>1. CASE full
      <3>1. more.token.of # NoPayload /\ \A i \in 1 .. Len(mtQq) : mtQq[i].token.of # more.token.of
        BY <1>4, PayloadAssumption DEF RequestsOK, TokensOf
      <3>2. RequestsOK(Append(mtQq, more), EmptyRequest, mtScanned')
        BY <1>3, <1>4, <3>1, CloseKeeps
      <3>3. OwnTokens(Append(mtQq, more))
        BY <1>3, <1>4, <3>1, OwnPut
      <3>4. QED
        BY <1>2, <1>3, <1>4, <2>1, <3>2, <3>3, OnePut, EmptyRequestType
    <2>2. CASE ~full
      BY <1>2, <1>3, <1>4, <2>2
    <2>3. QED
      BY <2>1, <2>2
  <1>7. MtTypes'
    BY <1>1, <1>2, <1>5, <1>6, Scanning DEF MtInv, MtTypes
  <1>8. SplitOK'
    BY <1>1, <1>2, <1>6, Scanning, NoSplit DEF MtInv, SplitOK
  <1>9. QED
    BY <1>1, <1>6, <1>7, <1>8, Scanning, InvNext

(* A payload that is to be split.                                          *)
LEMMA SplitStep ==
    ASSUME MtInv, NEW p \in MtPayloads, MtSplit(p)
    PROVE  MtInv'
  <1>1. MtScan(p) /\ p \notin MtMalformed /\ Oversized(p)
    BY DEF MtSplit, Oversized
  <1>2. /\ xp' = p /\ mtXxl' = Resources[p] /\ pr' = <<>> /\ cx' = 0
        /\ mtLim' = MtPartLimit(ServiceCount(p), MtPayloadLen[p])
        /\ UNCHANGED <<mtC, mtBq, mtQq>>
    BY DEF MtSplit
  <1>3. /\ mtQq \in Seq(RequestTypes) /\ mtBq \in RequestTypes /\ mtScanned \in Seq(MtPayloads)
        /\ RequestsOK(mtQq, mtBq, mtScanned)
        /\ mtScanned' = Append(mtScanned, p) /\ ~Contains(mtScanned, p)
    BY <1>1, Scanning DEF MtInv, MtTypes, SplitOK
  <1>4. mtLim' \in Nat \ {0} /\ cx' \in Nat /\ cx' < mtLim'
    <2>1. ServiceCount(p) \in Nat /\ MtPayloadLen[p] \in Nat /\ mtMaxBytes \in Nat \ {0}
      BY ServiceCountType, MtLenAssumption DEF MtInv, MtTypes
    <2>2. MtPartLimit(ServiceCount(p), MtPayloadLen[p]) \in Nat \ {0}
      BY <2>1, SplitLimitPositive
    <2>3. QED
      BY <1>2, <2>2
  <1>5. MtTypes'
    <2>1. pr' \in Seq(AllServices)
      BY <1>2, EmptySeq, Zenon
    <2>2. mtXxl' \in Seq(ResourceTypes)
      BY <1>2, ResourcesAssumption
    <2>3. QED
      BY <1>1, <1>2, <1>4, <2>1, <2>2, Scanning DEF MtInv, MtTypes
  <1>6. RequestsOK(mtQq', mtBq', mtScanned')
    BY <1>1, <1>2, <1>3, ScanKeeps
  <1>7. SplitOK'
    <2>1. p \in Taken(mtScanned') /\ p # NoPayload
      BY <1>1, <1>3, TakenMore, PayloadAssumption DEF Taken
    <2>2. Oversized(xp)'
      BY <1>1, <1>2, Scanning DEF Oversized
    <2>3. OwnServices(mtXxl')
      BY <1>2, OwnResources
    <2>4. \A s : Has(mtXxl', s) => OfPayload(s, p)
      BY <1>2, OfPayloadHas
    <2>5. \A s : ~Contains(pr', s)
      BY <1>2, EmptyPlace
    <2>6. \A s : \A i \in 1 .. Len(mtQq) : OfPayload(s, p) => ~Carries(mtQq[i], s)
      <3>1. \A x \in Taken(mtScanned) : x # p /\ x \in MtPayloads
        BY <1>3 DEF Taken
      <3>2. QED
        BY <1>3, <3>1, OneOwner DEF RequestsOK, CarriedBy
    <2>7. QED
      BY <1>2, <2>1, <2>2, <2>3, <2>4, <2>5, <2>6 DEF SplitOK
  <1>8. QED
    BY <1>1, <1>5, <1>6, <1>7, Scanning, InvNext

(* While a payload is split.                                               *)
LEMMA Splitting ==
    ASSUME MtInv, xp # NoPayload, UNCHANGED <<mtMaxBytes, mtBuf, out, mtBuilt, mtScanned>>
    PROVE  ScannedOnce' /\ BuiltOK' /\ xp \in Taken(mtScanned) /\ Oversized(xp)
  <1>1. ScannedOnce'
    BY DEF MtInv, ScannedOnce
  <1>2. mtBuilt' = mtBuilt /\ mtBuilt = FALSE /\ out' = out /\ out = <<>>
    BY DEF MtInv, BuiltOK
  <1>3. QED
    BY <1>1, <1>2, StillBuilding DEF MtInv, SplitOK

(* The next resource of a split payload.                                   *)
LEMMA SplitResourceStep ==
    ASSUME MtInv, SplitResource
    PROVE  MtInv'
  <1>1. /\ mtXxl # <<>> /\ mtXxl' = Tail(mtXxl) /\ pr' = <<>>
        /\ UNCHANGED <<mtMaxBytes, mtBuf, mtC, mtBq, mtQq, xp, cx, mtLim, out, mtBuilt, mtScanned>>
    BY DEF SplitResource
  <1>2. mtXxl \in Seq(ResourceTypes) /\ OwnServices(mtXxl) /\ xp # NoPayload
    BY <1>1 DEF MtInv, MtTypes, SplitOK
  <1>3. /\ mtXxl' \in Seq(ResourceTypes) /\ OwnServices(mtXxl')
        /\ \A s : Has(mtXxl', s) => Has(mtXxl, s)
    BY <1>1, <1>2, HasTail
  <1>4. pr' \in Seq(AllServices) /\ \A s : ~Contains(pr', s)
    BY <1>1, EmptySeq, EmptyPlace, Zenon
  <1>5. MtTypes'
    BY <1>1, <1>3, <1>4 DEF MtInv, MtTypes
  <1>6. RequestsOK(mtQq', mtBq', mtScanned')
    BY <1>1 DEF MtInv
  <1>7. SplitOK'
    <2>1. Oversized(xp)' /\ xp' \in Taken(mtScanned')
      BY <1>1, <1>2 DEF MtInv, SplitOK, Oversized
    <2>2. QED
      BY <1>1, <1>2, <1>3, <1>4, <2>1 DEF MtInv, SplitOK
  <1>8. QED
    BY <1>1, <1>2, <1>5, <1>6, <1>7, Splitting, InvNext

(* The next service of a split payload, and the part put when it is full.  *)
LEMMA SplitServiceStep ==
    ASSUME MtInv, SplitService
    PROVE  MtInv'
  <1> DEFINE res == Head(mtXxl)
             h == Head(res.services)
             part == Append(pr, h)
             full == cx + 1 >= mtLim
             q == [resources |-> <<WithServices(res, part)>>, groups |-> Groups[xp],
                   token |-> TokenOf(xp)]
  <1>1. /\ mtXxl # <<>> /\ res.services # <<>>
        /\ mtXxl' = [mtXxl EXCEPT ![1] = WithServices(res, Tail(res.services))]
        /\ pr' = IF full THEN <<>> ELSE part
        /\ cx' = IF full THEN 0 ELSE cx + 1
        /\ mtQq' = IF ~full THEN mtQq ELSE Append(mtQq, q)
        /\ UNCHANGED <<mtMaxBytes, mtBuf, mtC, mtBq, xp, mtLim, out, mtBuilt, mtScanned>>
    BY DEF SplitService
  <1>2. /\ mtXxl \in Seq(ResourceTypes) /\ OwnServices(mtXxl) /\ xp # NoPayload
        /\ mtQq \in Seq(RequestTypes) /\ mtBq \in RequestTypes /\ pr \in Seq(AllServices)
        /\ RequestsOK(mtQq, mtBq, mtScanned) /\ cx \in Nat /\ mtLim \in Nat \ {0}
        /\ cx < mtLim
    BY <1>1 DEF MtInv, MtTypes, SplitOK
  <1>3. xp \in Taken(mtScanned) /\ Oversized(xp) /\ ScannedOnce' /\ BuiltOK'
    BY <1>1, <1>2, Splitting
  <1>4. /\ h \in AllServices /\ Has(mtXxl, h)
        /\ mtXxl' \in Seq(ResourceTypes) /\ OwnServices(mtXxl') /\ mtXxl' # <<>>
        /\ \A s : Has(mtXxl', s) => Has(mtXxl, s) /\ s # h
    BY <1>1, <1>2, HasRest, Zenon
  <1>5. res \in ResourceTypes
    BY <1>1, <1>2, HeadTailProperties
  <1> HIDE DEF res, h
  <1>6. part \in Seq(AllServices) /\ \A s : Contains(part, s) <=> Contains(pr, s) \/ s = h
    BY <1>2, <1>4, AppendProperties, ContainsAppend
  <1> HIDE DEF part
  <1>7. /\ \A s : Contains(part, s) \/ Has(mtXxl', s) =>
              OfPayload(s, xp) /\ \A i \in 1 .. Len(mtQq) : ~Carries(mtQq[i], s)
        /\ \A s : Has(mtXxl', s) => ~Contains(part, s)
    <2>1. /\ \A s : Has(mtXxl, s) \/ Contains(pr, s) =>
                OfPayload(s, xp) /\ \A i \in 1 .. Len(mtQq) : ~Carries(mtQq[i], s)
          /\ \A s : Has(mtXxl, s) => ~Contains(pr, s)
      BY DEF MtInv, SplitOK
    <2>2. QED
      BY <1>4, <1>6, <2>1
  <1>8. /\ q \in RequestTypes /\ \A s : Carries(q, s) <=> Contains(part, s)
        /\ RequestsOK(Append(mtQq, q), mtBq, mtScanned)
    BY <1>2, <1>3, <1>5, <1>6, <1>7, PartKeeps, Zenon
  <1> HIDE DEF q
  <1>9. Oversized(xp)' /\ xp' \in Taken(mtScanned') /\ xp' # NoPayload
    BY <1>1, <1>2, <1>3 DEF Oversized
  <1>10. cx' \in Nat /\ mtLim' \in Nat \ {0} /\ cx' < mtLim'
    BY <1>1, <1>2
  <1> HIDE DEF full
  <1>11. CASE full
    <2>1. mtQq' = Append(mtQq, q) /\ pr' = <<>>
      BY <1>1, <1>11
    <2>2. pr' \in Seq(AllServices) /\ \A s : ~Contains(pr', s)
      BY <2>1, EmptySeq, EmptyPlace, Zenon
    <2>3. /\ mtQq' \in Seq(RequestTypes)
          /\ \A i \in 1 .. Len(mtQq') : mtQq'[i] = q \/ \E j \in 1 .. Len(mtQq) : mtQq'[i] = mtQq[j]
      BY <1>2, <1>8, <2>1, OnePut
    <2>4. MtTypes'
      BY <1>1, <1>4, <1>10, <2>2, <2>3 DEF MtInv, MtTypes
    <2>5. RequestsOK(mtQq', mtBq', mtScanned')
      BY <1>1, <1>8, <2>1
    <2>6. \A s : Has(mtXxl', s) => \A i \in 1 .. Len(mtQq') : ~Carries(mtQq'[i], s)
      BY <1>7, <1>8, <2>3
    <2>7. SplitOK'
      BY <1>1, <1>4, <1>7, <1>9, <2>2, <2>6 DEF SplitOK
    <2>8. QED
      BY <1>1, <1>3, <2>4, <2>5, <2>7, InvNext
  <1>12. CASE ~full
    <2>1. mtQq' = mtQq /\ pr' = part
      BY <1>1, <1>12
    <2>2. MtTypes'
      BY <1>1, <1>2, <1>4, <1>6, <1>10, <2>1 DEF MtInv, MtTypes
    <2>3. RequestsOK(mtQq', mtBq', mtScanned')
      BY <1>1, <1>2, <2>1
    <2>4. SplitOK'
      BY <1>1, <1>4, <1>7, <1>9, <2>1 DEF SplitOK
    <2>5. QED
      BY <1>1, <1>3, <2>2, <2>3, <2>4, InvNext
  <1>13. QED
    BY <1>11, <1>12

(* The end of a split.                                                     *)
LEMMA SplitEndStep ==
    ASSUME MtInv, SplitEnd
    PROVE  MtInv'
  <1> DEFINE qn == [i \in 1 .. Len(mtQq) |->
                IF mtQq[i].token.of \in LongTokens THEN WithNumber(mtQq[i], i) ELSE mtQq[i]]
  <1>1. /\ xp # NoPayload /\ mtXxl = <<>> /\ mtQq' = qn /\ xp' = NoPayload
        /\ UNCHANGED <<mtMaxBytes, mtBuf, mtC, mtBq, mtXxl, pr, cx, mtLim, out, mtBuilt, mtScanned>>
    BY DEF SplitEnd
  <1>2. mtQq \in Seq(RequestTypes) /\ RequestsOK(mtQq, mtBq, mtScanned) /\ pr = <<>>
    BY <1>1 DEF MtInv, MtTypes, SplitOK
  <1>3. qn \in Seq(RequestTypes) /\ RequestsOK(qn, mtBq, mtScanned) /\ OwnTokens(qn)
    BY <1>2, NumberKeeps, Zenon
  <1> HIDE DEF qn
  <1>4. ScannedOnce' /\ BuiltOK'
    BY <1>1, Splitting
  <1>5. MtTypes'
    BY <1>1, <1>3 DEF MtInv, MtTypes
  <1>6. RequestsOK(mtQq', mtBq', mtScanned')
    BY <1>1, <1>3
  <1>7. SplitOK'
    BY <1>1, <1>2, <1>3, NoSplit
  <1>8. QED
    BY <1>1, <1>4, <1>5, <1>6, <1>7, InvNext

(* Packing keeps every group.                                              *)
LEMMA PackKeeps ==
    ASSUME NEW gs, NEW p, Covers(gs, p), NEW g \in 1 .. Len(Groups[p])
    PROVE  /\ Groups[p][g].key \in DOMAIN packGroups(gs)
           /\ Groups[p][g].members \subseteq packGroups(gs)[Groups[p][g].key]
  <1>1. PICK n \in 1 .. Len(gs) : gs[n] = Groups[p][g]
    BY DEF Covers, Contains
  <1>2. Groups[p][g].key \in {gs[i].key : i \in 1 .. Len(gs)}
    BY <1>1
  <1>3. packGroups(gs)[Groups[p][g].key]
          = UNION {gs[i].members : i \in {j \in 1 .. Len(gs) : gs[j].key = Groups[p][g].key}}
    BY <1>2 DEF packGroups
  <1>4. DOMAIN packGroups(gs) = {gs[i].key : i \in 1 .. Len(gs)}
    BY DEF packGroups
  <1>5. Groups[p][g].members
          \subseteq UNION {gs[i].members : i \in {j \in 1 .. Len(gs) : gs[j].key = Groups[p][g].key}}
    BY <1>1
  <1>6. QED
    BY <1>2, <1>3, <1>4, <1>5

(* An empty request takes the place of one that carries nothing.           *)
LEMMA DropKeeps ==
    ASSUME NEW qq, NEW bq, NEW sc, RequestsOK(qq, bq, sc), bq.resources = <<>>
    PROVE  RequestsOK(qq, EmptyRequest, sc)
  <1>1. \A s : ~Carries(bq, s) /\ ~Carries(EmptyRequest, s)
    BY NothingCarried, EmptyRequestType
  <1>2. CarriedBy(qq, EmptyRequest, sc) /\ GroupedBy(qq, EmptyRequest)
    BY <1>1 DEF RequestsOK, CarriedBy, GroupedBy
  <1>3. BarrierIn(qq, EmptyRequest, sc)
    BY <1>1 DEF RequestsOK, BarrierIn
  <1>4. TokensOf(qq, EmptyRequest, sc)
    <2>1. NoPayload \notin Taken(sc)
      BY PayloadAssumption DEF Taken
    <2>2. QED
      BY <2>1, EmptyRequestType DEF RequestsOK, TokensOf
  <1>5. QED
    BY <1>2, <1>3, <1>4 DEF RequestsOK

(* The end of Build: the last request, and the groups packed.              *)
LEMMA FinishStep ==
    ASSUME MtInv, MtFinish
    PROVE  MtInv'
  <1> DEFINE flush == mtBq.resources # <<>>
             all == IF flush THEN Append(mtQq, mtBq) ELSE mtQq
             Packed(i) == [resources |-> all[i].resources, token |-> all[i].token,
                           groups |-> packGroups(all[i].groups)]
  <1>1. /\ mtBuf = <<>> /\ xp = NoPayload /\ mtQq' = all /\ mtBq' = EmptyRequest /\ mtBuilt' = TRUE
        /\ out' = [i \in 1 .. Len(all) |-> Packed(i)]
        /\ UNCHANGED <<mtMaxBytes, mtBuf, mtC, xp, mtXxl, pr, cx, mtLim, mtScanned>>
    BY DEF MtFinish, splitVars
  <1>2. /\ mtQq \in Seq(RequestTypes) /\ mtBq \in RequestTypes
        /\ RequestsOK(mtQq, mtBq, mtScanned) /\ OwnTokens(mtQq) /\ mtXxl = <<>> /\ pr = <<>>
    BY <1>1 DEF MtInv, MtTypes, SplitOK
  <1>3. all \in Seq(RequestTypes) /\ RequestsOK(all, EmptyRequest, mtScanned) /\ OwnTokens(all)
    <2>1. CASE flush
      <3>1. mtBq.token.of # NoPayload /\ \A i \in 1 .. Len(mtQq) : mtQq[i].token.of # mtBq.token.of
        BY <1>2, <2>1 DEF RequestsOK, TokensOf
      <3>2. RequestsOK(Append(mtQq, mtBq), EmptyRequest, mtScanned)
        BY <1>2, <3>1, CloseKeeps
      <3>3. OwnTokens(Append(mtQq, mtBq))
        BY <1>2, <3>1, OwnPut
      <3>4. QED
        BY <1>2, <2>1, <3>2, <3>3, OnePut
    <2>2. CASE ~flush
      BY <1>2, <2>2, DropKeeps
    <2>3. QED
      BY <2>1, <2>2
  <1> HIDE DEF all
  <1>4. MtTypes'
    BY <1>1, <1>3, EmptyRequestType DEF MtInv, MtTypes
  <1>5. ScannedOnce'
    BY <1>1 DEF MtInv, ScannedOnce
  <1>6. RequestsOK(mtQq', mtBq', mtScanned')
    BY <1>1, <1>3
  <1>7. SplitOK'
    BY <1>1, <1>2, <1>3, NoSplit
  <1>8. BuiltOK'
    <2>1. Len(out') = Len(all)
      BY <1>1, <1>3, LenProperties
    <2>2. ASSUME NEW i \in 1 .. Len(all), NEW p \in MtPayloads, NEW s, OfPayload(s, p),
                 Carries(out'[i], s), NEW g \in 1 .. Len(Groups[p])
          PROVE  /\ Groups[p][g].key \in DOMAIN out'[i].groups
                 /\ Groups[p][g].members \subseteq out'[i].groups[Groups[p][g].key]
      <3>1. out'[i].resources = all[i].resources /\ out'[i].groups = packGroups(all[i].groups)
        BY <1>1
      <3>2. Carries(all[i], s)
        BY <2>2, <3>1, CarriesHas
      <3>3. Covers(all[i].groups, p)
        BY <1>3, <2>2, <3>2 DEF RequestsOK, GroupedBy
      <3>4. QED
        BY <3>1, <3>3, PackKeeps
    <2>3. MtTaken' \subseteq MtPayloads
      <3>1. mtScanned' \in Seq(MtPayloads)
        BY <1>4 DEF MtTypes
      <3>2. QED
        BY <3>1, ToSetContains DEF MtTaken
    <2>4. GroupsKept'
      BY <2>1, <2>2, <2>3 DEF GroupsKept
    <2>5. QED
      BY <1>1, <2>4 DEF BuiltOK
  <1>9. QED
    BY <1>1, <1>4, <1>5, <1>6, <1>7, <1>8, InvNext

(* A step of something else.                                               *)
LEMMA MtStutter == MtInv /\ UNCHANGED mtVars => MtInv'
  <1> SUFFICES ASSUME MtInv, UNCHANGED mtVars PROVE MtInv'
    OBVIOUS
  <1>1. UNCHANGED <<mtMaxBytes, mtBuf, mtC, mtBq, mtQq, xp, mtXxl, pr, cx, mtLim, out, mtBuilt,
                    mtScanned>>
    BY DEF mtVars, splitVars
  <1>2. MtTypes' /\ ScannedOnce' /\ RequestsOK(mtQq', mtBq', mtScanned')
    BY <1>1 DEF MtInv, MtTypes, ScannedOnce
  <1>3. SplitOK'
    BY <1>1 DEF MtInv, SplitOK, Oversized
  <1>4. BuiltOK'
    BY <1>1 DEF MtInv, BuiltOK, GroupsKept, MtTaken
  <1>5. QED
    BY <1>1, <1>2, <1>3, <1>4, InvNext

(* Every iteration of Build and xxl2qq keeps the invariant.                *)
LEMMA MtStep == MtInv /\ [MtNext]_mtVars => MtInv'
  BY SkipStep, PutStatusStep, CombineStep, SplitStep, SplitServiceStep, SplitResourceStep,
     SplitEndStep, FinishStep, MtStutter DEF MtNext

(* It holds before the first iteration.                                    *)
LEMMA MtInitially == MtInit => MtInv
  <1> SUFFICES ASSUME MtInit PROVE MtInv
    OBVIOUS
  <1>1. /\ mtMaxBytes \in MtLimits /\ mtBuf \in MtBuffers /\ mtC = 0 /\ mtBq = EmptyRequest
        /\ mtQq = <<>> /\ xp = NoPayload /\ mtXxl = <<>> /\ pr = <<>> /\ cx = 0 /\ mtLim = 1
        /\ out = <<>> /\ mtBuilt = FALSE /\ mtScanned = <<>>
    BY DEF MtInit
  <1>2. mtBuf \in Seq(MtPayloads) /\ Distinct(mtBuf)
    <2>1. mtBuf \in Seq(MtPayloads) /\ IsInjective(mtBuf)
      BY <1>1, MtBuffersAssumption
    <2>2. DOMAIN mtBuf = 1 .. Len(mtBuf)
      BY <2>1, LenProperties
    <2>3. QED
      BY <2>1, <2>2 DEF IsInjective, Distinct
  <1>3. /\ mtScanned \in Seq(MtPayloads) /\ mtQq \in Seq(RequestTypes)
        /\ pr \in Seq(AllServices) /\ mtXxl \in Seq(ResourceTypes)
    BY <1>1, EmptySeq, Zenon
  <1>4. MtTypes
    <2>1. mtMaxBytes \in Nat \ {0} /\ mtC \in Nat /\ cx \in Nat /\ mtLim \in Nat \ {0} /\ cx < mtLim
      BY <1>1, MtLimitsAssumption
    <2>2. QED
      BY <1>1, <1>2, <1>3, <2>1, EmptyRequestType, Zenon DEF MtTypes
  <1>5. ScannedOnce
    BY <1>1, <1>2, EmptyPlace, Zenon DEF ScannedOnce
  <1>6. 1 .. Len(mtQq) = {} /\ Taken(mtScanned) = {}
    BY <1>1, EmptyPlace DEF Taken
  <1>7. RequestsOK(mtQq, mtBq, mtScanned)
    <2>1. CarriedBy(mtQq, mtBq, mtScanned)
      BY <1>1, <1>6, EmptyRequestType, Zenon DEF CarriedBy
    <2>2. GroupedBy(mtQq, mtBq)
      BY <1>1, <1>6, EmptyRequestType, Zenon DEF GroupedBy
    <2>3. BarrierIn(mtQq, mtBq, mtScanned)
      BY <1>6, Zenon DEF BarrierIn
    <2>4. TokensOf(mtQq, mtBq, mtScanned)
      BY <1>1, <1>6, EmptyRequestType, Zenon DEF TokensOf
    <2>5. QED
      BY <2>1, <2>2, <2>3, <2>4 DEF RequestsOK
  <1>8. SplitOK
    <2>1. OwnTokens(mtQq)
      BY <1>6, Zenon DEF OwnTokens
    <2>2. OwnServices(mtXxl)
      BY <1>1 DEF OwnServices
    <2>3. \A s : ~Has(mtXxl, s) /\ ~Contains(pr, s)
      BY <1>1, HasEmpty, EmptyPlace, Zenon
    <2>4. QED
      BY <1>1, <2>1, <2>2, <2>3, Zenon DEF SplitOK
  <1>9. BuiltOK
    <2>1. 1 .. Len(out) = {}
      BY <1>1
    <2>2. GroupsKept
      BY <2>1, Zenon DEF GroupsKept
    <2>3. QED
      BY <1>1, <2>2, Zenon DEF BuiltOK
  <1>10. QED
    BY <1>4, <1>5, <1>7, <1>8, <1>9 DEF MtInv

(* Who carries a service, bq as the last of the requests.                  *)
LEMMA CarriersOf ==
    ASSUME MtInv, NEW s
    PROVE  \A i : i \in Carriers(s) <=>
             \/ i \in 1 .. Len(mtQq) /\ Carries(mtQq[i], s)
             \/ i = Len(mtQq) + 1 /\ Carries(mtBq, s)
  <1>1. mtQq \in Seq(RequestTypes) /\ mtBq \in RequestTypes
    BY DEF MtInv, MtTypes
  <1>2. /\ Len(Requests) = Len(mtQq) + 1 /\ Requests[Len(mtQq) + 1] = mtBq /\ Len(mtQq) \in Nat
        /\ \A i \in 1 .. Len(mtQq) : Requests[i] = mtQq[i]
    BY <1>1, OnePut DEF Requests
  <1>3. QED
    BY <1>2 DEF Carriers

(* MtTaken in terms of Taken.                                              *)
LEMMA TakenIs ==
    ASSUME MtInv
    PROVE  MtTaken = Taken(mtScanned)
  <1>1. mtScanned \in Seq(MtPayloads)
    BY DEF MtInv, MtTypes
  <1>2. QED
    BY <1>1, ToSetContains DEF MtTaken, Taken

(* The invariant says what MetricsKept says, bq as the last request ...    *)
LEMMA KeptIs == MtInv => MetricsKept
  <1> SUFFICES ASSUME MtInv PROVE MetricsKept
    OBVIOUS
  <1>1. MtTypeOK
    <2>1. ASSUME NEW i \in 1 .. Len(mtQq), NEW j \in 1 .. Len(mtQq[i].resources)
          PROVE  /\ mtQq[i].resources[j].host \in Hosts
                 /\ mtQq[i].resources[j].services \in Seq(AllServices)
      <3>1. mtQq[i] \in RequestTypes
        BY ElementOfSeq DEF MtInv, MtTypes
      <3>2. mtQq[i].resources \in Seq(ResourceTypes)
        BY <3>1 DEF RequestTypes
      <3>3. mtQq[i].resources[j] \in ResourceTypes
        BY <3>2, ElementOfSeq
      <3>4. QED
        BY <3>3 DEF ResourceTypes
    <2>2. QED
      BY <2>1 DEF MtInv, MtTypes, MtTypeOK
  <1>2. ServicesCarriedOnce
    <2>0. /\ CarriedBy(mtQq, mtBq, mtScanned) /\ Len(mtQq) \in Nat
      BY LenProperties DEF MtInv, MtTypes, RequestsOK
    <2> SUFFICES ASSUME NEW s \in AllServices
                 PROVE  /\ Carriers(s) # {} => \E p \in Taken(mtScanned) : OfPayload(s, p)
                        /\ \A i, j \in Carriers(s) : i = j
                        /\ (\E p \in Taken(mtScanned) : ~Oversized(p) /\ OfPayload(s, p)) =>
                              Carriers(s) # {}
      BY TakenIs DEF ServicesCarriedOnce
    <2>1. ASSUME NEW i \in Carriers(s) PROVE \E p \in Taken(mtScanned) : OfPayload(s, p)
      BY <2>0, CarriersOf DEF CarriedBy
    <2>2. ASSUME NEW i \in Carriers(s), NEW j \in Carriers(s) PROVE i = j
      BY <2>0, CarriersOf DEF CarriedBy
    <2>3. ASSUME NEW p \in Taken(mtScanned), ~Oversized(p), OfPayload(s, p)
          PROVE  \E i : i \in Carriers(s)
      BY <2>0, <2>3, CarriersOf DEF CarriedBy
    <2>4. QED
      BY <2>1, <2>2, <2>3
  <1>3. PartsHaveOwnToken
    BY DEF MtInv, SplitOK, OwnTokens, PartsHaveOwnToken
  <1>4. QED
    BY <1>1, <1>2, <1>3 DEF MetricsKept, MtInv, BuiltOK

(* ... and what StatusIsABarrier says.                                     *)
LEMMA BarrierIs == MtInv => StatusIsABarrier
  <1> SUFFICES ASSUME MtInv PROVE StatusIsABarrier
    OBVIOUS
  <1>1. /\ BarrierIn(mtQq, mtBq, mtScanned) /\ CarriedBy(mtQq, mtBq, mtScanned) /\ Len(mtQq) \in Nat
    BY LenProperties DEF MtInv, MtTypes, RequestsOK
  <1> SUFFICES ASSUME NEW p \in Taken(mtScanned), NEW r \in Taken(mtScanned),
                      ~Oversized(p), hasStatus(p), ~Oversized(r), r # p,
                      NEW s \in AllServices, NEW t \in AllServices, OfPayload(s, p), OfPayload(t, r),
                      NEW i \in Carriers(s), NEW j \in Carriers(t)
               PROVE  i # j /\ (Before(p, r, mtScanned) <=> i < j)
    BY TakenIs DEF StatusIsABarrier, Before
  <1>2. ~Carries(mtBq, s)
    <2> SUFFICES ASSUME Carries(mtBq, s) PROVE FALSE
      OBVIOUS
    <2>1. PICK x \in Taken(mtScanned) : ~hasStatus(x) /\ OfPayload(s, x)
      BY <1>1 DEF CarriedBy
    <2>2. x = p
      BY <2>1, OneOwner DEF Taken
    <2>3. QED
      BY <2>1, <2>2
  <1>3. i \in 1 .. Len(mtQq) /\ Carries(mtQq[i], s)
    BY <1>2, CarriersOf
  <1>4. CASE j \in 1 .. Len(mtQq) /\ Carries(mtQq[j], t)
    BY <1>1, <1>3, <1>4 DEF BarrierIn
  <1>5. CASE j = Len(mtQq) + 1 /\ Carries(mtBq, t)
    <2>1. Before(p, r, mtScanned)
      BY <1>1, <1>5 DEF BarrierIn
    <2>2. QED
      BY <1>1, <1>3, <1>5, <2>1
  <1>6. QED
    BY <1>4, <1>5, CarriersOf

(* Whatever the payloads of a batch, their order and maxBytes: the         *)
(* requests Build makes of them (metrics.go) carry no service that no      *)
(* payload gave and none twice, have every service of a payload that is    *)
(* not split and, packed, every group of the payloads they were combined   *)
(* from, and have tokens of their own once xxl2qq has numbered its parts.  *)
THEOREM MetricsAreKept == MtSpec => []MetricsKept
  BY MtInitially, MtStep, KeptIs, PTL DEF MtSpec

(* Whatever the payloads of a batch, their order and maxBytes: a payload   *)
(* with a host status is combined with no other, and what was taken before *)
(* it is put before it, what was taken after it behind it (hasStatus in    *)
(* the loop of Build).                                                     *)
THEOREM StatusBarrier == MtSpec => []StatusIsABarrier
  BY MtInitially, MtStep, BarrierIs, PTL DEF MtSpec
==============================================================================
