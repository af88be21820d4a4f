-------------------------- MODULE ConnectorProofs --------------------------
(* Proofs about what the connectors send, for any configurations: about    *)
(* CloudCollect, for any lists of metrics and any number of passes; about  *)
(* Apm, for any payloads and pulls and requests that overlap in any way;   *)
(* about Kubernetes, for any nodes, pods and views and whichever pods come *)
(* and go during a round; about Snmp, for any replies, counters and        *)
(* overlapping rounds; about Elastic, for any stored queries and           *)
(* overlapping rounds; about Checks, for any schedules.                    *)
EXTENDS CloudCollect, Apm, Kubernetes, Snmp, Elastic, Checks, SequenceTheorems,
        FiniteSetTheorems, WellFoundedInduction, TLAPS

-----------------------------------------------------------------------------
(* Numbers and iterations *)

(* A nonempty set of naturals has a least element.                         *)
LEMMA SmallestOf ==
    ASSUME NEW T, T \subseteq Nat, T # {}
    PROVE  \E x \in T : \A y \in T : x <= y
  <1>1. PICK x \in T : \A y \in T : ~(<<y, x>> \in OpToRel(<, Nat))
    BY NatLessThanWellFounded, WFMin
  <1>2. \A y \in T : ~(y < x)
    BY <1>1 DEF OpToRel
  <1>3. QED
    BY <1>2

(* A set that holds 0 and the successors of what it holds has all numbers. *)
LEMMA UpTo ==
    ASSUME NEW N \in Nat, NEW S, 0 \in S, \A i \in 1 .. N : i - 1 \in S => i \in S
    PROVE  \A i \in 0 .. N : i \in S
  <1> DEFINE T == {i \in 0 .. N : i \notin S}
  <1>1. T = {}
    <2> SUFFICES ASSUME T # {} PROVE FALSE
      OBVIOUS
    <2>1. PICK n \in T : \A y \in T : n <= y
      <3>1. T \subseteq Nat
        OBVIOUS
      <3> HIDE DEF T
      <3>2. QED
        BY <3>1, SmallestOf
    <2>2. n \in 1 .. N /\ n \notin S
      BY <2>1
    <2>3. n - 1 \in 0 .. N /\ n - 1 \notin T
      BY <2>1, <2>2
    <2>4. QED
      BY <2>2, <2>3
  <1>2. QED
    BY <1>1

(* The iteration of steps F[1], F[2] ... from x.                           *)
IsIteration(f, x, N, A, F) ==
    f \in [0 .. N -> A] /\ f[0] = x /\ \A i \in 1 .. N : f[i] = F[i][f[i - 1]]

(* Steps that stay in a set can be iterated: the recursion has a solution, *)
(* or there is a smallest number of steps without one.                     *)
LEMMA Iterates ==
    ASSUME NEW A, NEW x \in A, NEW N \in Nat, NEW F \in [1 .. N -> [A -> A]]
    PROVE  \E f : IsIteration(f, x, N, A, F)
  <1> DEFINE Solves(f, n) == f[0] = x /\ \A i \in 1 .. n : f[i] = F[i][f[i - 1]]
             S == {n \in 0 .. N : \E f \in [0 .. N -> A] : Solves(f, n)}
  <1>1. 0 \in S
    <2>1. [i \in 0 .. N |-> x] \in [0 .. N -> A] /\ Solves([i \in 0 .. N |-> x], 0)
      OBVIOUS
    <2>2. 0 \in 0 .. N
      OBVIOUS
    <2> HIDE DEF Solves
    <2>3. QED
      BY <2>1, <2>2
  <1>2. ASSUME NEW n \in 1 .. N, n - 1 \in S PROVE n \in S
    <2>1. PICK f \in [0 .. N -> A] : Solves(f, n - 1)
      BY <1>2
    <2> DEFINE g == [f EXCEPT ![n] = F[n][f[n - 1]]]
    <2>2. n \in 0 .. N /\ n - 1 \in 0 .. N /\ n # 0
      OBVIOUS
    <2>3. F[n][f[n - 1]] \in A
      BY <2>2
    <2>4. g \in [0 .. N -> A] /\ g[n] = F[n][f[n - 1]] /\ \A i \in 0 .. N : i # n => g[i] = f[i]
      BY <2>2, <2>3
    <2> HIDE DEF g
    <2>5. g[0] = x /\ g[n] = F[n][g[n - 1]]
      BY <2>1, <2>2, <2>4
    <2>6. ASSUME NEW i \in 1 .. n - 1 PROVE g[i] = F[i][g[i - 1]]
      <3>1. i \in 0 .. N /\ i # n /\ i - 1 \in 0 .. N /\ i - 1 # n
        OBVIOUS
      <3>2. QED
        BY <2>1, <2>4, <3>1
    <2>7. \A i \in 1 .. n : i = n \/ i \in 1 .. n - 1
      OBVIOUS
    <2>8. Solves(g, n)
      BY <2>5, <2>6, <2>7
    <2> HIDE DEF Solves
    <2>9. QED
      BY <2>2, <2>4, <2>8
  <1> HIDE DEF S
  <1>3. N \in S
    <2>1. \A i \in 1 .. N : i - 1 \in S => i \in S
      BY <1>2
    <2>2. \A i \in 0 .. N : i \in S
      BY <1>1, <2>1, UpTo
    <2>3. QED
      BY <2>2
  <1>4. QED
    BY <1>3 DEF S, IsIteration

(* A finite set in some order.                                             *)
LEMMA InOrder ==
    ASSUME NEW S, IsFiniteSet(S)
    PROVE  /\ SetToSeq(S) \in Seq(S)
           /\ \A x \in S : \E i \in 1 .. Len(SetToSeq(S)) : SetToSeq(S)[i] = x
           /\ IsInjective(SetToSeq(S))
  <1> DEFINE n == Cardinality(S)
             s == SetToSeq(S)
  <1>1. n \in Nat /\ ExistsBijection(1 .. n, S)
    BY FS_CardinalityType
  <1>2. \E f \in [1 .. n -> S] : IsInjective(f)
    BY <1>1 DEF ExistsBijection, Bijection, Injection
  <1>3. s \in [1 .. n -> S] /\ IsInjective(s)
    BY <1>2 DEF SetToSeq
  <1> HIDE DEF s, n
  <1>4. s \in Injection(1 .. n, S)
    BY <1>3 DEF Injection
  <1>5. IsFiniteSet(1 .. n) /\ Cardinality(1 .. n) = n
    BY <1>1, FS_Interval
  <1>6. s \in Surjection(1 .. n, S)
    BY <1>4, <1>5, FS_Injection DEF n
  <1>7. s \in Seq(S) /\ Len(s) = n
    BY <1>1, <1>3
  <1>8. QED
    BY <1>3, <1>6, <1>7 DEF Surjection, s

-----------------------------------------------------------------------------
(* CloudCollect *)

(* Of finitely many data points one is the latest: otherwise there is a    *)
(* smallest number of points, in the order of a numbering, without one.    *)
LEMMA LatestExists ==
    ASSUME NEW S, IsFiniteSet(S), S # {}, \A p \in S : p.t \in Int
    PROVE  \E p \in S : \A q \in S : q.t <= p.t
  <1> DEFINE n == Cardinality(S)
  <1>1. n \in Nat
    BY FS_CardinalityType
  <1> HIDE DEF n
  <1>2. PICK f \in [1 .. n -> S] : \A p \in S : \E i \in 1 .. n : f[i] = p
    <2>1. ExistsBijection(1 .. n, S)
      BY FS_CardinalityType DEF n
    <2>2. PICK g : g \in Bijection(1 .. n, S)
      BY <2>1 DEF ExistsBijection
    <2>3. g \in [1 .. n -> S] /\ \A p \in S : \E i \in 1 .. n : g[i] = p
      BY <2>2 DEF Bijection, Surjection, Injection
    <2>4. QED
      BY <2>3
  <1> DEFINE Bad == {m \in 1 .. n : \A i \in 1 .. m : \E j \in 1 .. m : f[j].t > f[i].t}
  <1>3. n >= 1
    BY <1>1, <1>2
  <1>4. \A i \in 1 .. n : f[i].t \in Int
    BY <1>2
  <1>5. Bad = {}
    <2>1. SUFFICES ASSUME Bad # {} PROVE FALSE
      OBVIOUS
    <2>2. Bad \subseteq Nat
      BY <1>1
    <2>3. PICK m \in Bad : \A k \in Bad : m <= k
      BY <2>1, <2>2, SmallestOf
    <2>4. m \in 1 .. n /\ \A i \in 1 .. m : \E j \in 1 .. m : f[j].t > f[i].t
      BY <2>3
    <2>5. m # 1
      <3>1. ASSUME m = 1 PROVE FALSE
        <4>1. \E j \in 1 .. 1 : f[j].t > f[1].t
          BY <2>4, <3>1
        <4>2. f[1].t > f[1].t
          BY <4>1
        <4>3. QED
          BY <4>2, <1>3, <1>4
      <3>2. QED
        BY <3>1
    <2>6. m - 1 \in 1 .. n /\ m - 1 \notin Bad
      <3> HIDE DEF Bad
      <3>1. m \in Nat /\ m >= 2 /\ m <= n
        BY <1>1, <2>4, <2>5
      <3>2. m - 1 \notin Bad
        BY <2>3, <3>1
      <3>3. QED
        BY <1>1, <3>1, <3>2
    <2>7. PICK i \in 1 .. m - 1 : \A j \in 1 .. m - 1 : ~(f[j].t > f[i].t)
      BY <2>6
    <2>8. f[m].t > f[i].t
      <3>1. i \in 1 .. m
        BY <2>4, <2>7
      <3>2. PICK j \in 1 .. m : f[j].t > f[i].t
        BY <2>4, <3>1
      <3> HIDE DEF Bad
      <3>3. j = m
        <4>1. j \notin 1 .. m - 1
          BY <2>7, <3>2
        <4>2. QED
          BY <2>4, <3>2, <4>1
      <3>4. QED
        BY <3>2, <3>3
    <2>9. PICK j \in 1 .. m : f[j].t > f[m].t
      BY <2>4
    <2>10. j # m
      BY <2>9, <2>4, <1>4
    <2>11. j \in 1 .. m - 1
      BY <1>1, <2>9, <2>10, <2>4
    <2>12. ~(f[j].t > f[i].t)
      BY <2>7, <2>11
    <2>13. f[j].t \in Int /\ f[i].t \in Int /\ f[m].t \in Int
      BY <1>1, <1>4, <2>4, <2>7, <2>11
    <2>14. QED
      BY <2>8, <2>9, <2>12, <2>13
  <1>6. PICK i \in 1 .. n : \A j \in 1 .. n : ~(f[j].t > f[i].t)
    <2>1. n \in 1 .. n
      BY <1>1, <1>3
    <2>2. n \notin Bad
      BY <1>5
    <2>3. QED
      BY <2>1, <2>2
  <1>7. \A q \in S : q.t <= f[i].t
    <2>1. TAKE q \in S
    <2>2. PICK j \in 1 .. n : f[j] = q
      BY <1>2
    <2>3. ~(q.t > f[i].t) /\ q.t \in Int /\ f[i].t \in Int
      BY <1>4, <1>6, <2>2
    <2>4. QED
      BY <2>3
  <1>8. QED
    BY <1>2, <1>6, <1>7

(* A sample ends at an integer time.                                       *)
LEMMA SampleEnds ==
    ASSUME NEW item, NEW service, IsFiniteSet(item.points), \A p \in item.points : p.t \in Int
    PROVE  /\ SampleOf(item, service).end \in Int
           /\ SampleOf(item, service).noData \in BOOLEAN
  <1> DEFINE complete == {p \in item.points : p.complete}
             last == CHOOSE p \in complete : \A q \in complete : q.t <= p.t
             value == getValue(item.points)
  <1>1. value.t \in Int /\ value.ok \in BOOLEAN
    <2>1. CASE complete = {}
      <3>1. value = [v |-> 0, t |-> CcNow, ok |-> FALSE]
        BY <2>1 DEF getValue
      <3>2. QED
        BY <3>1, CcAssumption
    <2>2. CASE complete # {}
      <3>1. IsFiniteSet(complete)
        BY FS_Subset
      <3>2. \E p \in complete : \A q \in complete : q.t <= p.t
        BY <2>2, <3>1, LatestExists
      <3>3. last \in complete
        BY <3>2
      <3>4. value = [v |-> last.v, t |-> last.t, ok |-> TRUE]
        BY <2>2 DEF getValue
      <3> HIDE DEF last, value
      <3>5. QED
        BY <3>3, <3>4
    <2>3. QED
      BY <2>1, <2>2
  <1>2. SampleOf(item, service) =
            [resource |-> item.resource, service |-> service, series |-> item.series,
             value |-> value.v, end |-> value.t, noData |-> ~value.ok]
    BY DEF SampleOf
  <1> HIDE DEF value
  <1>3. QED
    BY <1>1, <1>2

(* So do all the samples that listMetrics makes of a list of metrics.      *)
LEMMA SamplesEnd ==
    ASSUME NEW ds \in CcItems, NEW d \in ds, NEW s \in ListSamples(d)
    PROVE  s.end \in Int /\ s.noData \in BOOLEAN
  <1>1. CASE d.items = {}
    <2> DEFINE item == [resource |-> d.resource, series |-> {}, points |-> {}]
    <2>1. s = SampleOf(item, d.name)
      BY <1>1 DEF ListSamples
    <2>2. item.points = {} /\ IsFiniteSet({})
      BY FS_EmptySet
    <2> HIDE DEF item
    <2>3. QED
      BY <2>1, <2>2, SampleEnds
  <1>2. CASE d.items # {}
    <2>1. PICK item \in d.items : s = SampleOf(item, IF item.name = "" THEN d.name ELSE item.name)
      BY <1>2 DEF ListSamples
    <2>2. IsFiniteSet(item.points) /\ \A p \in item.points : p.t \in Int
      BY CcAssumption, <2>1
    <2>3. QED
      BY <2>1, <2>2, SampleEnds
  <1>3. QED
    BY <1>1, <1>2

-----------------------------------------------------------------------------
(* What an Oracle pass has and what it read.  While the version it read is *)
(* the current one and no handler is about to increment it, a pass that is *)
(* not torn works on the configuration in force.                           *)
CcPlans == {<<>>, <<"renew">>, <<"prepare", "renew">>, <<"bump", "prepare", "renew">>}
CcTypes ==
    /\ ccHandler \in CcPlans
    /\ configVersion \in Nat \ {0}
    /\ ccPass.version \in 0 .. configVersion
    /\ ccPass.pc \in {"idle", "version", "ctx", "list", "samples"}
CcTodoKnown == \E ds \in CcItems \cup {{}} : ccTodo \subseteq ds
CcSampled ==
    ccKind = "oracle" =>
        /\ \A s \in ccSeen : s.end \in Int /\ s.noData \in BOOLEAN
        /\ \A k \in DOMAIN metricsByOCID :
              metricsByOCID[k].end \in Int /\ metricsByOCID[k].noData \in BOOLEAN /\ InInventory(metricsByOCID[k])
CcCurrent ==
    ccKind = "oracle" /\ ccPass.pc \in {"ctx", "list", "samples"} /\ ~ccPass.torn
            /\ ccPass.version = configVersion /\ ccHandler # <<"bump", "prepare", "renew">>
        => ccPass.cfg = ccExtConfig
CcInv == CcTypes /\ CcTodoKnown /\ CcSampled /\ NewestKept /\ CcCurrent

(* The collection starts with nothing sampled and a handler at rest.       *)
LEMMA CcInitial == CcInit => CcInv
  <1> SUFFICES ASSUME CcInit PROVE CcInv
    OBVIOUS
  <1>1. ccPass.version = 0 /\ ccPass.torn = FALSE /\ ccPass.pc = "idle"
    BY DEF CcInit, IdlePass, PassAt
  <1>2. CcTypes
    BY <1>1 DEF CcInit, CcTypes, CcPlans
  <1>3. CcTodoKnown
    BY DEF CcInit, CcTodoKnown
  <1>4. CcSampled /\ NewestKept
    BY DEF CcInit, CcSampled, NewestKept, Nowhere
  <1>5. CcCurrent
    BY <1>1 DEF CcCurrent
  <1>6. QED
    BY <1>2, <1>3, <1>4, <1>5 DEF CcInv

(* Keeping a sample keeps the newest of each series.                       *)
LEMMA KeepNewest ==
    ASSUME CcSampled, NewestKept, ccKind = "oracle", ccKind' = ccKind,
           NEW s, s.end \in Int, s.noData \in BOOLEAN,
           ccSeen' = ccSeen \cup {s}, metricsByOCID' = Keep(s)
    PROVE  CcSampled' /\ NewestKept'
  <1> DEFINE k == SeriesKey(s)
             M == metricsByOCID
  <1>0. \A x \in DOMAIN M : M[x].end \in Int /\ M[x].noData \in BOOLEAN
    BY DEF CcSampled
  <1>5. \A x \in DOMAIN M : InInventory(M[x])
    BY DEF CcSampled
  <1>4. CASE ~InInventory(s)
    <2>1. metricsByOCID' = M
      BY <1>4 DEF Keep
    <2>2. QED
      BY <1>4, <2>1 DEF CcSampled, NewestKept
  <1>1. CASE InInventory(s) /\ k \in DOMAIN M /\ ~Replaces(s, M[k])
    <2>1. metricsByOCID' = M
      BY <1>1 DEF Keep
    <2>2. M[k].end > s.end \/ (M[k].end = s.end /\ (M[k].noData => s.noData))
      BY <1>0, <1>1 DEF Replaces
    <2>3. CcSampled'
      BY <2>1 DEF CcSampled
    <2> HIDE DEF k
    <2>4. NewestKept'
      <3>1. ASSUME NEW r \in ccSeen', InInventory(r), r # s
            PROVE  /\ SeriesKey(r) \in DOMAIN M
                   /\ InInventory(M[SeriesKey(r)])
                   /\ \/ M[SeriesKey(r)].end > r.end
                      \/ M[SeriesKey(r)].end = r.end /\ (M[SeriesKey(r)].noData => r.noData)
        BY <3>1 DEF NewestKept
      <3>2. InInventory(M[k])
        BY <1>1, <1>5
      <3>3. QED
        BY <1>1, <2>1, <2>2, <3>1, <3>2 DEF NewestKept, k
    <2>5. QED
      BY <2>3, <2>4
  <1>2. CASE InInventory(s) /\ ~(k \in DOMAIN M /\ ~Replaces(s, M[k]))
    <2>1. metricsByOCID' = [x \in DOMAIN M \cup {k} |-> IF x = k THEN s ELSE M[x]]
      BY <1>2 DEF Keep
    <2> HIDE DEF k
    <2>2. DOMAIN metricsByOCID' = DOMAIN M \cup {k}
      BY <2>1
    <2>3. \A x \in DOMAIN M : x # k => metricsByOCID'[x] = M[x]
      BY <2>1
    <2>4. metricsByOCID'[k] = s
      BY <2>1
    <2>5. CcSampled'
      BY <1>0, <1>2, <1>5, <2>2, <2>3, <2>4 DEF CcSampled
    <2>6. ASSUME NEW r \in ccSeen', InInventory(r)
          PROVE  /\ SeriesKey(r) \in DOMAIN metricsByOCID'
                 /\ LET kept == metricsByOCID'[SeriesKey(r)]
                    IN  InInventory(kept)
                        /\ (kept.end > r.end \/ (kept.end = r.end /\ (kept.noData => r.noData)))
      <3>1. CASE r = s
        BY <1>2, <3>1, <2>2, <2>4 DEF k
      <3>2. CASE r # s /\ SeriesKey(r) # k
        <4>1. r \in ccSeen
          BY <2>6, <3>2
        <4>2. QED
          BY <2>6, <3>2, <4>1, <2>2, <2>3 DEF NewestKept
      <3>3. CASE r # s /\ SeriesKey(r) = k
        <4>1. r \in ccSeen
          BY <2>6, <3>3
        <4>2. k \in DOMAIN M /\ (M[k].end > r.end \/ (M[k].end = r.end /\ (M[k].noData => r.noData)))
          BY <2>6, <3>3, <4>1 DEF NewestKept
        <4>3. s.end > M[k].end \/ (s.end = M[k].end /\ M[k].noData /\ ~s.noData)
          BY <1>2, <4>2 DEF Replaces
        <4>4. r.end \in Int /\ r.noData \in BOOLEAN
          BY <4>1 DEF CcSampled
        <4>5. s.end > r.end \/ (s.end = r.end /\ (s.noData => r.noData))
          BY <1>0, <4>2, <4>3, <4>4
        <4>6. QED
          BY <1>2, <3>3, <4>2, <4>5, <2>2, <2>4
      <3>4. QED
        BY <3>1, <3>2, <3>3
    <2>7. NewestKept'
      BY <2>6 DEF NewestKept
    <2>8. QED
      BY <2>5, <2>7
  <1>3. QED
    BY <1>1, <1>2, <1>4

(* A pass that ends leaves nothing behind.                                 *)
LEMMA GivenUp ==
    ASSUME CcInv, GiveUp, UNCHANGED ccConfiguration
    PROVE  CcInv'
  <1>1. ccPass'.version = 0 /\ ccPass'.torn = FALSE /\ ccPass'.pc = "idle"
    BY DEF GiveUp, IdlePass, PassAt
  <1>2. CcTypes'
    BY <1>1 DEF CcInv, CcTypes, ccConfiguration
  <1>3. CcTodoKnown' /\ CcSampled' /\ NewestKept'
    BY DEF GiveUp, CcTodoKnown, CcSampled, NewestKept, Nowhere
  <1>4. CcCurrent'
    BY <1>1 DEF CcCurrent
  <1>5. QED
    BY <1>2, <1>3, <1>4 DEF CcInv

(* The handler of a configuration.                                         *)
LEMMA CcHandlerSteps ==
    ASSUME CcInv, (\E c \in CcConfigs : CcConfigHandler(c)) \/ CcConfigStep
    PROVE  CcInv'
  <1>1. UNCHANGED <<ccKind, ccPass, ccTodo, ccSeen, metricsByOCID>>
    BY DEF CcConfigHandler, CcConfigStep
  <1>2. CcTodoKnown' /\ CcSampled' /\ NewestKept'
    BY <1>1 DEF CcInv, CcTodoKnown, CcSampled, NewestKept, SeriesKey
  <1>3. CASE \E c \in CcConfigs : CcConfigHandler(c)
    <2>1. configVersion' = configVersion
          /\ ccHandler' = IF ccKind = "oracle" THEN <<"bump", "prepare", "renew">> ELSE <<"prepare", "renew">>
      BY <1>3 DEF CcConfigHandler
    <2>2. CcTypes'
      BY <1>1, <2>1 DEF CcInv, CcTypes, CcPlans
    <2>3. CcCurrent'
      BY <1>1, <2>1 DEF CcCurrent
    <2>4. QED
      BY <1>2, <2>2, <2>3 DEF CcInv
  <1>4. CASE CcConfigStep
    <2>1. ccHandler # <<>> /\ ccHandler' = Tail(ccHandler) /\ ccExtConfig' = ccExtConfig
          /\ configVersion' = IF Head(ccHandler) = "bump" THEN configVersion + 1 ELSE configVersion
      BY <1>4 DEF CcConfigStep
    <2>2. ccHandler \in CcPlans /\ configVersion \in Nat \ {0} /\ ccPass.version \in 0 .. configVersion
      BY DEF CcInv, CcTypes
    <2>3. CASE ccHandler = <<"bump", "prepare", "renew">>
      <3>1. Head(ccHandler) = "bump" /\ Tail(ccHandler) = <<"prepare", "renew">>
        BY <2>3
      <3>2. configVersion' = configVersion + 1 /\ ccHandler' = <<"prepare", "renew">>
        BY <2>1, <3>1
      <3>3. CcTypes'
        BY <1>1, <2>2, <3>2 DEF CcInv, CcTypes, CcPlans
      <3>4. CcCurrent'
        BY <1>1, <2>2, <3>2 DEF CcCurrent
      <3>5. QED
        BY <1>2, <3>3, <3>4 DEF CcInv
    <2>4. CASE ccHandler \in {<<"prepare", "renew">>, <<"renew">>}
      <3>1. Head(ccHandler) # "bump" /\ Tail(ccHandler) \in {<<"renew">>, <<>>}
        <4>1. CASE ccHandler = <<"prepare", "renew">>
          BY <4>1
        <4>2. CASE ccHandler = <<"renew">>
          BY <4>2
        <4>3. QED
          BY <2>4, <4>1, <4>2
      <3>2. configVersion' = configVersion /\ ccHandler' \in CcPlans
        BY <2>1, <3>1 DEF CcPlans
      <3>3. CcTypes'
        BY <1>1, <3>2 DEF CcInv, CcTypes
      <3>4. ccHandler # <<"bump", "prepare", "renew">>
        BY <2>4
      <3>5. CcCurrent'
        BY <1>1, <2>1, <3>2, <3>4 DEF CcInv, CcCurrent
      <3>6. QED
        BY <1>2, <3>3, <3>5 DEF CcInv
    <2>5. QED
      BY <2>1, <2>2, <2>3, <2>4 DEF CcPlans
  <1>5. QED
    BY <1>3, <1>4

(* The steps of a pass that read what it works on.                         *)
LEMMA CcReads ==
    ASSUME CcInv, ReadConfig \/ ReadVersion \/ ReadCtx
    PROVE  CcInv'
  <1>1. UNCHANGED <<ccConfiguration, ccTodo, ccSeen, metricsByOCID>>
    BY DEF ReadConfig, ReadVersion, ReadCtx
  <1>2. UNCHANGED <<ccKind, ccExtConfig, configVersion, ccHandler>>
    BY <1>1 DEF ccConfiguration
  <1>3. CcTodoKnown' /\ CcSampled' /\ NewestKept'
    BY <1>1, <1>2 DEF CcInv, CcTodoKnown, CcSampled, NewestKept, SeriesKey
  <1>4. CcTypes
    BY DEF CcInv
  <1>5. CASE ReadConfig
    <2>1. ccPass'.pc \in {"version", "list"} /\ ccPass'.version = 0 /\ ccPass'.torn = FALSE
          /\ (ccKind = "oracle" => ccPass'.pc = "version")
      BY <1>5 DEF ReadConfig, PassAt
    <2>2. CcTypes'
      BY <1>2, <1>4, <2>1 DEF CcTypes
    <2>3. CcCurrent'
      BY <1>2, <2>1 DEF CcCurrent
    <2>4. QED
      BY <1>3, <2>2, <2>3 DEF CcInv
  <1>6. CASE ReadVersion
    <2>1. ccPass'.pc = "ctx" /\ ccPass'.version = configVersion /\ ccPass'.cfg = ccPass.cfg
          /\ ccPass'.torn = (ccPass.cfg # ccExtConfig)
      BY <1>6 DEF ReadVersion, PassAt
    <2>2. CcTypes'
      BY <1>2, <1>4, <2>1 DEF CcTypes
    <2>3. CcCurrent'
      BY <1>2, <2>1 DEF CcCurrent
    <2>4. QED
      BY <1>3, <2>2, <2>3 DEF CcInv
  <1>7. CASE ReadCtx
    <2>1. ccPass.pc = "ctx" /\ ccPass'.pc = "list" /\ ccPass'.version = ccPass.version
          /\ ccPass'.cfg = ccPass.cfg /\ ccPass'.torn = ccPass.torn
      BY <1>7 DEF ReadCtx, PassAt
    <2>2. CcTypes'
      BY <1>2, <1>4, <2>1 DEF CcTypes
    <2>3. CcCurrent'
      BY <1>2, <2>1 DEF CcInv, CcCurrent
    <2>4. QED
      BY <1>3, <2>2, <2>3 DEF CcInv
  <1>8. QED
    BY <1>5, <1>6, <1>7

(* A list of metrics is taken from the cloud: its samples are to be made.  *)
LEMMA CcLists ==
    ASSUME CcInv, List
    PROVE  CcInv'
  <1>1. UNCHANGED ccConfiguration /\ ccPass.pc = "list"
    BY DEF List
  <1>2. UNCHANGED <<ccKind, ccExtConfig, configVersion, ccHandler>>
    BY <1>1 DEF ccConfiguration
  <1>3. CASE GiveUp
    BY <1>1, <1>3, GivenUp
  <1>4. CASE PassTo("samples") /\ UNCHANGED <<ccSeen, metricsByOCID>>
             /\ \E ds \in CcItems : ccTodo' \subseteq ds
    <2>1. ccPass'.pc = "samples" /\ ccPass'.version = ccPass.version
          /\ ccPass'.cfg = ccPass.cfg /\ ccPass'.torn = ccPass.torn
      BY <1>4 DEF PassTo, PassAt
    <2>2. CcTypes'
      BY <1>2, <2>1 DEF CcInv, CcTypes
    <2>3. CcTodoKnown'
      BY <1>4 DEF CcTodoKnown
    <2>4. CcSampled' /\ NewestKept'
      BY <1>2, <1>4 DEF CcInv, CcSampled, NewestKept, SeriesKey
    <2>5. CcCurrent'
      BY <1>1, <1>2, <2>1 DEF CcInv, CcCurrent
    <2>6. QED
      BY <2>2, <2>3, <2>4, <2>5 DEF CcInv
  <1>5. GiveUp \/ (PassTo("samples") /\ UNCHANGED <<ccSeen, metricsByOCID>>
                   /\ \E ds \in CcItems : ccTodo' \subseteq ds)
    <2>1. GiveUp \/ (PassTo("samples") /\ UNCHANGED <<ccSeen, metricsByOCID>>
                     /\ ccTodo' \in {{d \in ds : Listed(ConfigAt(PassConfig), d)} : ds \in CcItems})
      BY DEF List
    <2>2. QED
      BY <2>1
  <1>6. QED
    BY <1>3, <1>4, <1>5

(* The samples of a list are entered, of each series the newest.           *)
LEMMA CcSamples ==
    ASSUME CcInv, Samples
    PROVE  CcInv'
  <1>1. UNCHANGED ccConfiguration /\ ccPass.pc = "samples"
    BY DEF Samples
  <1>2. UNCHANGED <<ccKind, ccExtConfig, configVersion, ccHandler>>
    BY <1>1 DEF ccConfiguration
  <1>3. PICK d \in ccTodo :
            IF ccKind = "oracle" THEN OracleSamples(d) ELSE MetricsList(d, ConfigAt(PassConfig).service)
    BY DEF Samples
  <1>4. ASSUME UNCHANGED ccPass
        PROVE  CcTypes' /\ CcCurrent'
    BY <1>2, <1>4 DEF CcInv, CcTypes, CcCurrent
  <1>5. ASSUME ccTodo' \subseteq ccTodo
        PROVE  CcTodoKnown'
    BY <1>5 DEF CcInv, CcTodoKnown
  <1>6. CASE ccKind = "oracle"
    <2>1. OracleSamples(d)
      BY <1>3, <1>6
    <2>2. CASE GiveUp
      BY <1>1, <2>2, GivenUp
    <2>3. CASE ccTodo' = ccTodo \ {d} /\ UNCHANGED <<ccPass, ccSeen, metricsByOCID>>
      <3>1. CcSampled' /\ NewestKept'
        BY <1>2, <2>3 DEF CcInv, CcSampled, NewestKept, SeriesKey
      <3>2. QED
        BY <1>4, <1>5, <2>3, <3>1 DEF CcInv
    <2>4. CASE /\ \E s \in ListSamples(d) \ ccSeen :
                     /\ ccSeen' = ccSeen \cup {s}
                     /\ metricsByOCID' = Keep(s)
                     /\ ccTodo' = IF ListSamples(d) \subseteq ccSeen' THEN ccTodo \ {d} ELSE ccTodo
               /\ UNCHANGED ccPass
      <3>1. PICK s \in ListSamples(d) \ ccSeen :
                     /\ ccSeen' = ccSeen \cup {s}
                     /\ metricsByOCID' = Keep(s)
                     /\ ccTodo' = IF ListSamples(d) \subseteq ccSeen' THEN ccTodo \ {d} ELSE ccTodo
        BY <2>4
      <3>2. PICK ds \in CcItems : d \in ds
        BY <1>3 DEF CcInv, CcTodoKnown
      <3>3. s.end \in Int /\ s.noData \in BOOLEAN
        BY <3>1, <3>2, SamplesEnd
      <3>4. CcSampled' /\ NewestKept'
        BY <1>2, <1>6, <3>1, <3>3, KeepNewest DEF CcInv
      <3>5. CcTypes' /\ CcCurrent'
        BY <1>4, <2>4
      <3>6. CcTodoKnown'
        BY <1>5, <3>1
      <3>7. QED
        BY <3>4, <3>5, <3>6 DEF CcInv
    <2>5. QED
      BY <2>1, <2>2, <2>3, <2>4 DEF OracleSamples
  <1>7. CASE ccKind # "oracle"
    <2>1. UNCHANGED ccPass /\ ccTodo' \subseteq ccTodo
      BY <1>3, <1>7 DEF MetricsList
    <2>2. CcSampled' /\ NewestKept'
      BY <1>2, <1>7 DEF CcSampled, NewestKept
    <2>3. QED
      BY <1>4, <1>5, <2>1, <2>2 DEF CcInv
  <1>8. QED
    BY <1>6, <1>7

(* Every step of the collection keeps the invariant.                       *)
LEMMA CcStep ==
    ASSUME CcInv, [CcNext]_ccVars
    PROVE  CcInv'
  <1>1. CASE (\E c \in CcConfigs : CcConfigHandler(c)) \/ CcConfigStep
    BY <1>1, CcHandlerSteps
  <1>2. CASE ReadConfig \/ ReadVersion \/ ReadCtx
    BY <1>2, CcReads
  <1>3. CASE List
    BY <1>3, CcLists
  <1>4. CASE Samples
    BY <1>4, CcSamples
  <1>5. CASE Build
    BY <1>5, GivenUp DEF Build
  <1>6. CASE UNCHANGED ccVars
    BY <1>6 DEF ccVars, CcInv, CcTypes, CcTodoKnown, CcSampled, NewestKept, CcCurrent, SeriesKey
  <1>7. QED
    BY <1>1, <1>2, <1>3, <1>4, <1>5, <1>6 DEF CcNext

(* Only Build sends.                                                       *)
LEMMA OnlyBuildSends ==
    ASSUME CcInv, [CcNext]_ccVars, ccSent' # ccSent
    PROVE  Build
  <1>1. CASE (\E c \in CcConfigs : CcConfigHandler(c)) \/ CcConfigStep
    BY <1>1 DEF CcConfigHandler, CcConfigStep
  <1>2. CASE ReadConfig \/ ReadVersion \/ ReadCtx
    BY <1>2 DEF ReadConfig, ReadVersion, ReadCtx
  <1>3. CASE List \/ Samples
    BY <1>3 DEF List, Samples
  <1>4. CASE UNCHANGED ccVars
    BY <1>4 DEF ccVars
  <1>5. QED
    BY <1>1, <1>2, <1>3, <1>4 DEF CcNext

(* What the Oracle pass sends is of the configuration in force.            *)
LEMMA SendsOfCurrent ==
    ASSUME CcInv, [CcNext]_ccVars, ccSent' # ccSent, ccKind = "oracle", ~ccPass.torn,
           ccHandler # <<"bump", "prepare", "renew">>
    PROVE  ccSent'.cfg = ccExtConfig
  <1>1. Build
    BY OnlyBuildSends
  <1> DEFINE cfg == ConfigAt(PassConfig)
             sent == [cfg |-> PassConfig, hosts |-> OracleHosts(cfg), groups |-> OracleGroups(cfg)]
  <1>2. ~Stale /\ ccSent' = sent /\ ccPass.pc = "samples"
    BY <1>1 DEF Build
  <1>3. ccSent'.cfg = PassConfig
    BY <1>2
  <1>4. PassConfig = ccPass.cfg
    BY DEF PassConfig
  <1>5. ccPass.cfg = ccExtConfig
    BY <1>2 DEF CcInv, CcCurrent, Stale
  <1>6. QED
    BY <1>3, <1>4, <1>5

(* In every round of the Oracle connector the sample kept of a series is   *)
(* the newest and one with data if there is one, and what is sent is of    *)
(* the configuration in force unless the pass read across its replacement  *)
(* (oracle.go: collectMetrics; cmd.go: configHandler).                     *)
THEOREM NewestSent == CcSpec => NewestOfThisConfig
  <1>1. CcInit => CcInv
    BY CcInitial
  <1>2. CcInv /\ [CcNext]_ccVars => CcInv'
    BY CcStep
  <1>3. CcInv => NewestKept
    BY DEF CcInv
  <1>4. CcInv /\ [CcNext]_ccVars =>
            [ccSent' # ccSent /\ ccKind = "oracle" /\ ~ccPass.torn /\ ccHandler # <<"bump", "prepare", "renew">>
                => ccSent'.cfg = ccExtConfig]_ccVars
    BY SendsOfCurrent
  <1>5. QED
    BY <1>1, <1>2, <1>3, <1>4, PTL DEF CcSpec, NewestOfThisConfig, StaleIsSkipped

-----------------------------------------------------------------------------
(* Apm *)

(* What is built of the metrics placed so far: every value has one place,  *)
(* the groups have no entry twice, and the host of a place is in a group,  *)
(* in that of its metric where the metric names one.                       *)
BuiltOK(done, built) ==
    /\ \E S : built.groups \in Seq(S)
    /\ \A m \in done : \A v \in makeValue(m) :
         \E p \in built.placed : /\ p.id = m.id /\ p.value = v
                                 /\ \A q \in built.placed : q.id = m.id /\ q.value = v => q = p
    /\ \A p \in built.placed : \E m \in done : p.id = m.id
    /\ \A a, b \in 1 .. Len(built.groups) : built.groups[a] = built.groups[b] => a = b
    /\ \A p \in built.placed : \E i \in 1 .. Len(built.groups) : built.groups[i].host = p.host
    /\ \A m \in done : \A p \in built.placed : p.id = m.id /\ "group" \in DOMAIN m.labels =>
         \E i \in 1 .. Len(built.groups) : built.groups[i] = [group |-> m.labels["group"], host |-> p.host]

(* The identities of metrics are their own.                                *)
Distinct(ms) == \A m, n \in ms : m.id = n.id => m = n

(* A host is entered where it is not.                                      *)
LEMMA EntersOnce ==
    ASSUME NEW S, NEW gs \in Seq(S), NEW placed, NEW host, NEW group,
           \A a, b \in 1 .. Len(gs) : gs[a] = gs[b] => a = b
    PROVE  LET new == addToGroups(placed, gs, host, group)
           IN  /\ \E T : new \in Seq(T)
               /\ \A a, b \in 1 .. Len(new) : new[a] = new[b] => a = b
               /\ \A i \in 1 .. Len(gs) : i \in 1 .. Len(new) /\ new[i] = gs[i]
               /\ \E i \in 1 .. Len(new) : new[i] = [group |-> group, host |-> host]
  <1> DEFINE new == addToGroups(placed, gs, host, group)
             e == [group |-> group, host |-> host]
             T == S \cup {e}
  <1>1. DOMAIN gs = 1 .. Len(gs) /\ Len(gs) \in Nat
    BY LenProperties
  <1>2. new = IF \E i \in DOMAIN gs : gs[i] = e THEN gs ELSE Append(gs, e)
    BY DEF addToGroups
  <1> HIDE DEF new, e
  <1>3. CASE \E i \in DOMAIN gs : gs[i] = e
    <2>1. new = gs
      BY <1>2, <1>3
    <2>2. \E i \in 1 .. Len(new) : new[i] = e
      BY <1>1, <1>3, <2>1
    <2>3. QED
      BY <2>1, <2>2 DEF new, e
  <1>4. CASE ~\E i \in DOMAIN gs : gs[i] = e
    <2>1. gs \in Seq(T) /\ e \in T
      <3>1. \A i \in 1 .. Len(gs) : gs[i] \in T
        BY ElementOfSeq
      <3>2. gs \in [1 .. Len(gs) -> T]
        <4>1. gs = [i \in 1 .. Len(gs) |-> gs[i]]
          BY <1>1
        <4> HIDE DEF T
        <4>2. QED
          BY <3>1, <4>1
      <3> HIDE DEF T
      <3>3. gs \in Seq(T)
        BY <1>1, <3>2
      <3>4. QED
        BY <3>3 DEF T
    <2> HIDE DEF T
    <2>2. new = Append(gs, e)
      BY <1>2, <1>4
    <2>3. /\ new \in Seq(T) /\ Len(new) = Len(gs) + 1
          /\ \A i \in 1 .. Len(gs) : new[i] = gs[i]
          /\ new[Len(gs) + 1] = e
      BY <2>1, <2>2, AppendProperties
    <2>4. /\ \A a \in 1 .. Len(new) : a \in 1 .. Len(gs) \/ a = Len(gs) + 1
          /\ \A a \in 1 .. Len(gs) : a \in 1 .. Len(new)
          /\ Len(gs) + 1 \in 1 .. Len(new)
      BY <1>1, <2>3
    <2>5. \A i \in 1 .. Len(gs) : gs[i] # e
      BY <1>1, <1>4
    <2>6. \A a, b \in 1 .. Len(new) : new[a] = new[b] => a = b
      BY <2>3, <2>4, <2>5
    <2>7. QED
      BY <2>3, <2>4, <2>6 DEF new, e
  <1>5. QED
    BY <1>3, <1>4

(* Placing a metric keeps what is built, whatever the configuration.       *)
LEMMA BuildsOn ==
    ASSUME NEW done, NEW m, m \notin done, Distinct(done \cup {m}),
           NEW built, BuiltOK(done, built), NEW url, NEW index
    PROVE  BuiltOK(done \cup {m}, WithMetric(built, m, url, index))
  <1> DEFINE new == WithMetric(built, m, url, index)
             host == HostOf(m, url, index)
             group == GroupOf(m, index)
             service == ServiceOf(m, CHOOSE v \in makeValue(m) : TRUE)
             Place(v) == [host |-> host, service |-> service, value |-> v, id |-> m.id]
             P == {Place(v) : v \in makeValue(m)}
             gs == built.groups
             ngs == addToGroups(built.placed, gs, host, group)
  <1>1. CASE makeValue(m) = {}
    <2>1. new = built
      BY <1>1 DEF WithMetric
    <2>2. \A p \in built.placed : p.id # m.id
      BY DEF BuiltOK, Distinct
    <2> HIDE DEF new
    <2>3. BuiltOK(done \cup {m}, built)
      BY <1>1, <2>2 DEF BuiltOK
    <2>4. QED
      BY <2>1, <2>3 DEF new
  <1>2. CASE makeValue(m) # {}
    <2>1. new = [placed |-> built.placed \cup P, groups |-> ngs]
      BY <1>2, Zenon DEF WithMetric
    <2>2. PICK S : gs \in Seq(S)
      BY DEF BuiltOK
    <2>3. \A a, b \in 1 .. Len(gs) : gs[a] = gs[b] => a = b
      BY DEF BuiltOK
    <2> HIDE DEF host, group, service, gs
    <2>4. /\ \E T : ngs \in Seq(T)
          /\ \A a, b \in 1 .. Len(ngs) : ngs[a] = ngs[b] => a = b
          /\ \A i \in 1 .. Len(gs) : i \in 1 .. Len(ngs) /\ ngs[i] = gs[i]
          /\ \E i \in 1 .. Len(ngs) : ngs[i] = [group |-> group, host |-> host]
      BY <2>2, <2>3, EntersOnce
    <2>5. PICK k \in 1 .. Len(ngs) : ngs[k] = [group |-> group, host |-> host]
      BY <2>4
    <2>6. \A v : Place(v).id = m.id /\ Place(v).value = v /\ Place(v).host = host
      OBVIOUS
    <2>7. \A p \in P : p.id = m.id /\ p.host = host /\ \E v \in makeValue(m) : p = Place(v)
      BY <2>6
    <2>8. \A v \in makeValue(m) : Place(v) \in P
      OBVIOUS
    <2> HIDE DEF Place, P, ngs, new
    <2>9. new.placed = built.placed \cup P /\ new.groups = ngs
      BY <2>1
    <2>10. \A p \in built.placed : p.id # m.id
      BY DEF BuiltOK, Distinct
    <2>11. \A n \in done : n.id # m.id
      BY DEF Distinct
    <2>12. ASSUME NEW n \in done \cup {m}, NEW v \in makeValue(n)
           PROVE  \E p \in new.placed : /\ p.id = n.id /\ p.value = v
                                        /\ \A q \in new.placed : q.id = n.id /\ q.value = v => q = p
      <3>1. CASE n = m
        <4>1. \A q \in new.placed : q.id = m.id /\ q.value = v => q = Place(v)
          BY <2>6, <2>7, <2>9, <2>10
        <4>2. Place(v) \in new.placed /\ Place(v).id = m.id /\ Place(v).value = v
          BY <2>6, <2>8, <2>9, <2>12, <3>1
        <4>3. QED
          BY <3>1, <4>1, <4>2
      <3>2. CASE n \in done
        <4>1. PICK p \in built.placed : /\ p.id = n.id /\ p.value = v
                                        /\ \A q \in built.placed : q.id = n.id /\ q.value = v => q = p
          BY <2>12, <3>2 DEF BuiltOK
        <4>2. \A q \in P : q.id # n.id
          BY <2>7, <2>11, <3>2
        <4>3. QED
          BY <2>9, <4>1, <4>2
      <3>3. QED
        BY <2>12, <3>1, <3>2
    <2>13. \A p \in new.placed : \E n \in done \cup {m} : p.id = n.id
      BY <2>7, <2>9 DEF BuiltOK
    <2>14. \A p \in new.placed : \E i \in 1 .. Len(ngs) : ngs[i].host = p.host
      <3>1. ASSUME NEW p \in built.placed PROVE \E i \in 1 .. Len(ngs) : ngs[i].host = p.host
        <4>1. PICK i \in 1 .. Len(gs) : gs[i].host = p.host
          BY DEF BuiltOK, gs
        <4>2. QED
          BY <2>4, <4>1
      <3>2. ASSUME NEW p \in P PROVE \E i \in 1 .. Len(ngs) : ngs[i].host = p.host
        BY <2>5, <2>7
      <3>3. QED
        BY <2>9, <3>1, <3>2
    <2>15. ASSUME NEW n \in done \cup {m}, NEW p \in new.placed, p.id = n.id, "group" \in DOMAIN n.labels
           PROVE  \E i \in 1 .. Len(ngs) : ngs[i] = [group |-> n.labels["group"], host |-> p.host]
      <3>1. CASE n = m
        <4>1. p.host = host
          BY <2>7, <2>9, <2>10, <2>15, <3>1
        <4>2. group = n.labels["group"]
          BY <2>15, <3>1 DEF group, GroupOf
        <4>3. QED
          BY <2>5, <4>1, <4>2
      <3>2. CASE n \in done
        <4>1. p \in built.placed
          BY <2>7, <2>9, <2>11, <2>15, <3>2
        <4>2. PICK i \in 1 .. Len(gs) : gs[i] = [group |-> n.labels["group"], host |-> p.host]
          BY <2>15, <3>2, <4>1 DEF BuiltOK, gs
        <4>3. QED
          BY <2>4, <4>2
      <3>3. QED
        BY <2>15, <3>1, <3>2
    <2>16. BuiltOK(done \cup {m}, new)
      BY <2>4, <2>9, <2>12, <2>13, <2>14, <2>15 DEF BuiltOK
    <2>17. QED
      BY <2>16 DEF new
  <1>3. QED
    BY <1>1, <1>2

(* The entries of a metric's group with the host of a place.               *)
EntriesIn(groups, m, p) ==
    {i \in DOMAIN groups : groups[i] = [group |-> m.labels["group"], host |-> p.host]}

(* What is built is grouped.                                               *)
LEMMA BuiltGrouped ==
    ASSUME NEW ms, NEW built, BuiltOK(ms, built)
    PROVE  Grouped(ms, built)
  <1> DEFINE gs == built.groups
  <1>1. DOMAIN gs = 1 .. Len(gs)
    BY LenProperties DEF BuiltOK
  <1>2. ASSUME NEW m \in ms, NEW v \in makeValue(m)
        PROVE  Cardinality({p \in built.placed : p.id = m.id /\ p.value = v}) = 1
    <2>1. PICK p \in built.placed : /\ p.id = m.id /\ p.value = v
                                    /\ \A q \in built.placed : q.id = m.id /\ q.value = v => q = p
      BY <1>2 DEF BuiltOK
    <2>2. {q \in built.placed : q.id = m.id /\ q.value = v} = {p}
      BY <2>1
    <2>3. QED
      BY <2>2, FS_Singleton
  <1>3. ASSUME NEW m \in ms, NEW p \in built.placed, p.id = m.id, "group" \in DOMAIN m.labels
        PROVE  Cardinality(EntriesIn(gs, m, p)) = 1
    <2> DEFINE e == [group |-> m.labels["group"], host |-> p.host]
    <2>1. PICK a \in 1 .. Len(gs) : gs[a] = e
      BY <1>3 DEF BuiltOK
    <2>2. EntriesIn(gs, m, p) = {i \in DOMAIN gs : gs[i] = e}
      BY DEF EntriesIn
    <2> HIDE DEF e
    <2>3. \A i \in 1 .. Len(gs) : gs[i] = e => i = a
      BY <2>1 DEF BuiltOK
    <2>4. {i \in DOMAIN gs : gs[i] = e} = {a}
      BY <1>1, <2>1, <2>3
    <2>5. QED
      BY <2>2, <2>4, FS_Singleton
  <1>4. \A p \in built.placed : \E i \in DOMAIN gs : gs[i].host = p.host
    BY <1>1 DEF BuiltOK
  <1>5. \A m \in ms : \A p \in built.placed : p.id = m.id /\ "group" \in DOMAIN m.labels =>
          Cardinality(EntriesIn(gs, m, p)) = 1
    BY <1>3
  <1>6. \A m \in ms : \A v \in makeValue(m) :
          Cardinality({p \in built.placed : p.id = m.id /\ p.value = v}) = 1
    BY <1>2
  <1>7. QED
    BY <1>4, <1>5, <1>6, Zenon DEF Grouped, EntriesIn

-----------------------------------------------------------------------------
(* What a goroutine holds in a phase: a pull is at one of its resources,   *)
(* what is processed is a payload, and what of it is not to do is built.   *)
WorkOK(phase, resources, at, metrics, todo, built) ==
    /\ phase \in {"idle", "list", "pull", "parse", "place", "send"}
    /\ resources \in Seq(ApmResources)
    /\ at \in Nat /\ at <= Len(resources)
    /\ phase \in {"idle", "list"} => at = 0
    /\ phase \in {"idle", "list", "pull", "parse"} => built = NothingBuilt
    /\ phase = "parse" => metrics \in ApmAnswers
    /\ phase \in {"place", "send"} => Distinct(metrics) /\ todo \subseteq metrics /\ BuiltOK(metrics \ todo, built)
    /\ phase = "send" => todo = {}
Works(w) == WorkOK(apmPhase[w], apmResources[w], apmAt[w], apmMetrics[w], apmTodo[w], apmBuilt[w])

(* The locals of the goroutines.                                           *)
PerWorker(f) == DOMAIN f = ApmWorkers /\ f = [w \in DOMAIN f |-> f[w]]
ApmLocals ==
    /\ PerWorker(apmPhase) /\ PerWorker(apmResources) /\ PerWorker(apmAt)
    /\ PerWorker(apmMetrics) /\ PerWorker(apmTodo) /\ PerWorker(apmBuilt)
    /\ \A w \in ApmWorkers : Works(w)

(* The mappings to be decoded are of the configuration in force.           *)
ApmInForce ==
    /\ apmConfig.resources \in Seq(ApmResources)
    /\ apmHandler \in {<<>>, <<apmConfig>>}
ApmInv == ApmLocals /\ ApmInForce /\ ApmEndsOver

(* One goroutine goes on to locals that fit its phase.                     *)
GoesOn(w, phase, resources, at, metrics, todo, built) ==
    /\ apmPhase' = [apmPhase EXCEPT ![w] = phase]
    /\ apmResources' = [apmResources EXCEPT ![w] = resources]
    /\ apmAt' = [apmAt EXCEPT ![w] = at]
    /\ apmMetrics' = [apmMetrics EXCEPT ![w] = metrics]
    /\ apmTodo' = [apmTodo EXCEPT ![w] = todo]
    /\ apmBuilt' = [apmBuilt EXCEPT ![w] = built]

(* The locals of the other goroutines stay as they are.                    *)
LEMMA LocalStep ==
    ASSUME ApmLocals, NEW w \in ApmWorkers, NEW phase, NEW resources, NEW at, NEW metrics, NEW todo, NEW built,
           WorkOK(phase, resources, at, metrics, todo, built),
           GoesOn(w, phase, resources, at, metrics, todo, built)
    PROVE  ApmLocals'
  <1>1. /\ PerWorker(apmPhase') /\ PerWorker(apmResources') /\ PerWorker(apmAt')
        /\ PerWorker(apmMetrics') /\ PerWorker(apmTodo') /\ PerWorker(apmBuilt')
    BY DEF GoesOn, ApmLocals, PerWorker
  <1>2. ASSUME NEW v \in ApmWorkers PROVE Works(v)'
    <2>1. CASE v = w
      <3>1. /\ apmPhase'[v] = phase /\ apmResources'[v] = resources /\ apmAt'[v] = at
            /\ apmMetrics'[v] = metrics /\ apmTodo'[v] = todo /\ apmBuilt'[v] = built
        BY <2>1 DEF GoesOn, ApmLocals, PerWorker
      <3>2. QED
        BY <3>1, Zenon DEF Works
    <2>2. CASE v # w
      <3>1. /\ apmPhase'[v] = apmPhase[v] /\ apmResources'[v] = apmResources[v] /\ apmAt'[v] = apmAt[v]
            /\ apmMetrics'[v] = apmMetrics[v] /\ apmTodo'[v] = apmTodo[v] /\ apmBuilt'[v] = apmBuilt[v]
        BY <2>2 DEF GoesOn, ApmLocals, PerWorker
      <3>2. Works(v)
        BY DEF ApmLocals
      <3>3. QED
        BY <3>1, <3>2, Zenon DEF Works
    <2>3. QED
      BY <2>1, <2>2
  <1>3. QED
    BY <1>1, <1>2 DEF ApmLocals

(* What is not touched stays.                                              *)
LEMMA Untouched ==
    ASSUME NEW f, PerWorker(f), NEW w, NEW g, g = f
    PROVE  g = [f EXCEPT ![w] = f[w]]
  BY DEF PerWorker

(* The connector starts with no configuration and nothing under way.       *)
LEMMA ApmInitial == ApmInit => ApmInv
  <1> SUFFICES ASSUME ApmInit PROVE ApmInv
    OBVIOUS
  <1>1. ApmInForce
    BY EmptySeq DEF ApmInit, ApmInForce, NoApmConfig
  <1>2. WorkOK("idle", <<>>, 0, {}, {}, NothingBuilt)
    BY EmptySeq DEF WorkOK
  <1>3. ASSUME NEW w \in ApmWorkers PROVE Works(w)
    <2>1. /\ apmPhase[w] = "idle" /\ apmResources[w] = <<>> /\ apmAt[w] = 0
          /\ apmMetrics[w] = {} /\ apmTodo[w] = {} /\ apmBuilt[w] = NothingBuilt
      BY DEF ApmInit
    <2>2. QED
      BY <1>2, <2>1, Zenon DEF Works
  <1>4. ApmLocals
    <2>1. /\ PerWorker(apmPhase) /\ PerWorker(apmResources) /\ PerWorker(apmAt)
          /\ PerWorker(apmMetrics) /\ PerWorker(apmTodo) /\ PerWorker(apmBuilt)
      BY DEF ApmInit, PerWorker
    <2>2. QED
      BY <1>3, <2>1 DEF ApmLocals
  <1>5. QED
    BY <1>1, <1>4 DEF ApmInit, ApmInv, ApmEndsOver

(* A goroutine that is over holds nothing.                                 *)
LEMMA Returns ==
    ASSUME ApmLocals, NEW w \in ApmWorkers, ApmReturn(w)
    PROVE  ApmLocals'
  <1>1. WorkOK("idle", <<>>, 0, {}, {}, NothingBuilt)
    BY EmptySeq DEF WorkOK
  <1>2. GoesOn(w, "idle", <<>>, 0, {}, {}, NothingBuilt)
    BY DEF ApmReturn, GoesOn
  <1>3. QED
    BY <1>1, <1>2, LocalStep

(* After a payload a push is over and a pull goes on.                      *)
LEMMA AfterPayload ==
    ASSUME ApmLocals, NEW w \in ApmWorkers, Processed(w)
    PROVE  ApmLocals'
  <1>1. CASE apmAt[w] = 0
    BY <1>1, Returns DEF Processed
  <1>2. CASE apmAt[w] # 0
    <2>1. apmResources' = apmResources /\ apmAt' = apmAt
      BY <1>2 DEF Processed
    <2>2. apmResources' = [apmResources EXCEPT ![w] = apmResources[w]] /\ apmAt' = [apmAt EXCEPT ![w] = apmAt[w]]
      BY <2>1 DEF ApmLocals, PerWorker
    <2>3. GoesOn(w, "pull", apmResources[w], apmAt[w], {}, {}, NothingBuilt)
      BY <1>2, <2>2 DEF Processed, GoesOn
    <2>4. WorkOK("pull", apmResources[w], apmAt[w], {}, {}, NothingBuilt)
      BY DEF ApmLocals, Works, WorkOK
    <2>5. QED
      BY <2>3, <2>4, LocalStep
  <1>3. QED
    BY <1>1, <1>2

(* Every step of the connector keeps the locals.                           *)
LEMMA ApmLocalsStep ==
    ASSUME ApmLocals, ApmInForce, ApmNext
    PROVE  ApmLocals'
  <1>0. /\ PerWorker(apmPhase) /\ PerWorker(apmResources) /\ PerWorker(apmAt)
        /\ PerWorker(apmMetrics) /\ PerWorker(apmTodo) /\ PerWorker(apmBuilt)
    BY DEF ApmLocals
  <1>1. ASSUME UNCHANGED apmLocals PROVE ApmLocals'
    <2>1. /\ apmPhase' = apmPhase /\ apmResources' = apmResources /\ apmAt' = apmAt
          /\ apmMetrics' = apmMetrics /\ apmTodo' = apmTodo /\ apmBuilt' = apmBuilt
      BY <1>1 DEF apmLocals
    <2>2. QED
      BY <2>1, Zenon DEF ApmLocals, Works
  <1>2. ASSUME NEW c \in ApmConfigs, ApmConfigHandler(c) PROVE ApmLocals'
    BY <1>1, <1>2 DEF ApmConfigHandler
  <1>3. ASSUME unmarshalMappings \/ MapsThrow PROVE ApmLocals'
    BY <1>1, <1>3 DEF unmarshalMappings, MapsThrow
  <1>4. ASSUME NEW w \in ApmWorkers, NEW metrics \in ApmAnswers, receiverHandler(w, metrics) PROVE ApmLocals'
    <2>1. apmPhase[w] = "idle" /\ apmPhase' = [apmPhase EXCEPT ![w] = "parse"]
          /\ apmMetrics' = [apmMetrics EXCEPT ![w] = metrics]
          /\ apmResources' = apmResources /\ apmAt' = apmAt /\ apmTodo' = apmTodo /\ apmBuilt' = apmBuilt
      BY <1>4 DEF receiverHandler, ApmStart
    <2>2. GoesOn(w, "parse", apmResources[w], apmAt[w], metrics, apmTodo[w], apmBuilt[w])
      BY <1>0, <2>1, Untouched DEF GoesOn
    <2>3. WorkOK("parse", apmResources[w], apmAt[w], metrics, apmTodo[w], apmBuilt[w])
      BY <2>1 DEF ApmLocals, Works, WorkOK
    <2>4. QED
      BY <2>2, <2>3, LocalStep
  <1>5. ASSUME NEW w \in ApmWorkers, MetricsAvailable(w) PROVE ApmLocals'
    <2>1. apmPhase[w] = "idle" /\ apmPhase' = [apmPhase EXCEPT ![w] = "list"] /\ apmMetrics' = apmMetrics
          /\ apmResources' = apmResources /\ apmAt' = apmAt /\ apmTodo' = apmTodo /\ apmBuilt' = apmBuilt
      BY <1>5 DEF MetricsAvailable, ApmStart
    <2>2. GoesOn(w, "list", apmResources[w], apmAt[w], apmMetrics[w], apmTodo[w], apmBuilt[w])
      BY <1>0, <2>1, Untouched DEF GoesOn
    <2>3. WorkOK("list", apmResources[w], apmAt[w], apmMetrics[w], apmTodo[w], apmBuilt[w])
      BY <2>1 DEF ApmLocals, Works, WorkOK
    <2>4. QED
      BY <2>2, <2>3, LocalStep
  <1>6. ASSUME NEW w \in ApmWorkers, ListAvailable(w) \/ PullEnds(w) PROVE ApmLocals'
    BY <1>6, Returns DEF ListAvailable, PullEnds
  <1>7. ASSUME NEW w \in ApmWorkers, ApmPeriodicHandler(w) PROVE ApmLocals'
    <2>1. apmPhase[w] = "idle" /\ apmPhase' = [apmPhase EXCEPT ![w] = "pull"]
          /\ apmResources' = [apmResources EXCEPT ![w] = apmConfig.resources]
          /\ apmAt' = apmAt /\ apmMetrics' = apmMetrics /\ apmTodo' = apmTodo /\ apmBuilt' = apmBuilt
      BY <1>7 DEF ApmPeriodicHandler, ApmStart
    <2>2. GoesOn(w, "pull", apmConfig.resources, apmAt[w], apmMetrics[w], apmTodo[w], apmBuilt[w])
      BY <1>0, <2>1, Untouched DEF GoesOn
    <2>3. apmConfig.resources \in Seq(ApmResources) /\ Len(apmConfig.resources) \in Nat
      BY LenProperties DEF ApmInForce
    <2>4. apmAt[w] = 0 /\ apmBuilt[w] = NothingBuilt
      BY <2>1 DEF ApmLocals, Works, WorkOK
    <2>5. WorkOK("pull", apmConfig.resources, apmAt[w], apmMetrics[w], apmTodo[w], apmBuilt[w])
      BY <2>3, <2>4 DEF WorkOK
    <2>6. QED
      BY <2>2, <2>5, LocalStep
  <1>8. ASSUME NEW w \in ApmWorkers, Pull(w) PROVE ApmLocals'
    <2>1. apmPhase[w] = "pull" /\ apmAt[w] < Len(apmResources[w])
          /\ apmAt' = [apmAt EXCEPT ![w] = apmAt[w] + 1]
          /\ apmResources' = apmResources /\ apmTodo' = apmTodo /\ apmBuilt' = apmBuilt
      BY <1>8 DEF Pull, ApmRuns
    <2>2. /\ apmResources[w] \in Seq(ApmResources) /\ apmBuilt[w] = NothingBuilt /\ apmAt[w] \in Nat
      BY <2>1 DEF ApmLocals, Works, WorkOK
    <2>3. Len(apmResources[w]) \in Nat
      BY <2>2, LenProperties
    <2>4. CASE apmPhase' = apmPhase /\ apmMetrics' = apmMetrics
      <3>1. GoesOn(w, "pull", apmResources[w], apmAt[w] + 1, apmMetrics[w], apmTodo[w], apmBuilt[w])
        BY <1>0, <2>1, <2>4, Untouched DEF GoesOn
      <3>2. WorkOK("pull", apmResources[w], apmAt[w] + 1, apmMetrics[w], apmTodo[w], apmBuilt[w])
        BY <2>1, <2>2, <2>3 DEF WorkOK
      <3>3. QED
        BY <3>1, <3>2, LocalStep
    <2>5. ASSUME NEW metrics \in ApmAnswers, apmPhase' = [apmPhase EXCEPT ![w] = "parse"],
                 apmMetrics' = [apmMetrics EXCEPT ![w] = metrics]
          PROVE  ApmLocals'
      <3>1. GoesOn(w, "parse", apmResources[w], apmAt[w] + 1, metrics, apmTodo[w], apmBuilt[w])
        BY <1>0, <2>1, <2>5, Untouched DEF GoesOn
      <3>2. WorkOK("parse", apmResources[w], apmAt[w] + 1, metrics, apmTodo[w], apmBuilt[w])
        BY <2>1, <2>2, <2>3 DEF WorkOK
      <3>3. QED
        BY <3>1, <3>2, LocalStep
    <2>6. QED
      BY <1>8, <2>4, <2>5 DEF Pull
  <1>9. ASSUME NEW w \in ApmWorkers, ApmParse(w) PROVE ApmLocals'
    <2> DEFINE ms == Filtered(apmMetrics[w], apmAt[w])
               next == IF ms = {} THEN "send" ELSE "place"
    <2>1. CASE apmMetrics[w] = Unreadable
      BY <1>9, <2>1, AfterPayload DEF ApmParse
    <2>2. CASE apmMetrics[w] # Unreadable
      <3>1. apmPhase[w] = "parse" /\ apmPhase' = [apmPhase EXCEPT ![w] = next]
            /\ apmMetrics' = [apmMetrics EXCEPT ![w] = ms] /\ apmTodo' = [apmTodo EXCEPT ![w] = ms]
            /\ apmResources' = apmResources /\ apmAt' = apmAt /\ apmBuilt' = apmBuilt
        BY <1>9, <2>2 DEF ApmParse, ApmRuns
      <3>2. GoesOn(w, next, apmResources[w], apmAt[w], ms, ms, apmBuilt[w])
        BY <1>0, <3>1, Untouched DEF GoesOn
      <3>3. /\ apmResources[w] \in Seq(ApmResources) /\ apmBuilt[w] = NothingBuilt
            /\ apmAt[w] \in Nat /\ apmAt[w] <= Len(apmResources[w]) /\ apmMetrics[w] \in ApmAnswers
        BY <3>1 DEF ApmLocals, Works, WorkOK
      <3>4. Distinct(apmMetrics[w]) /\ ms \subseteq apmMetrics[w]
        BY <2>2, <3>3, ApmAssumption DEF Distinct, Filtered
      <3>5. Distinct(ms)
        BY <3>4 DEF Distinct
      <3>6. BuiltOK(ms \ ms, NothingBuilt)
        <4>1. NothingBuilt.placed = {} /\ NothingBuilt.groups = <<>> /\ ms \ ms = {}
          BY DEF NothingBuilt
        <4>2. NothingBuilt.groups \in Seq({}) /\ Len(NothingBuilt.groups) = 0
          BY <4>1, EmptySeq
        <4>3. QED
          BY <4>1, <4>2 DEF BuiltOK
      <3> HIDE DEF ms
      <3>7. next \in {"place", "send"} /\ (next = "send" => ms = {})
        OBVIOUS
      <3> HIDE DEF next
      <3>8. WorkOK(next, apmResources[w], apmAt[w], ms, ms, apmBuilt[w])
        BY <3>3, <3>5, <3>6, <3>7 DEF WorkOK
      <3>9. QED
        BY <3>2, <3>8, LocalStep
    <2>3. QED
      BY <2>1, <2>2
  <1>10. ASSUME NEW w \in ApmWorkers, NEW m \in apmTodo[w], extractIntoMetricBuilders(w, m) PROVE ApmLocals'
    <2> DEFINE new == WithMetric(apmBuilt[w], m, Url(w), apmAt[w])
               next == IF apmTodo[w] = {m} THEN "send" ELSE "place"
               left == apmTodo[w] \ {m}
    <2>1. CASE PlacePanics(w, m)
      BY <1>10, <2>1, Returns DEF extractIntoMetricBuilders
    <2>2. CASE ~PlacePanics(w, m)
      <3>1. apmPhase[w] = "place" /\ apmPhase' = [apmPhase EXCEPT ![w] = next]
            /\ apmTodo' = [apmTodo EXCEPT ![w] = left] /\ apmBuilt' = [apmBuilt EXCEPT ![w] = new]
            /\ apmResources' = apmResources /\ apmAt' = apmAt /\ apmMetrics' = apmMetrics
        BY <1>10, <2>2 DEF extractIntoMetricBuilders, ApmRuns
      <3>2. GoesOn(w, next, apmResources[w], apmAt[w], apmMetrics[w], left, new)
        BY <1>0, <3>1, Untouched DEF GoesOn
      <3>3. /\ apmResources[w] \in Seq(ApmResources) /\ apmAt[w] \in Nat /\ apmAt[w] <= Len(apmResources[w])
            /\ Distinct(apmMetrics[w]) /\ apmTodo[w] \subseteq apmMetrics[w]
            /\ BuiltOK(apmMetrics[w] \ apmTodo[w], apmBuilt[w])
        BY <3>1 DEF ApmLocals, Works, WorkOK
      <3>4. /\ m \notin apmMetrics[w] \ apmTodo[w]
            /\ (apmMetrics[w] \ apmTodo[w]) \cup {m} = apmMetrics[w] \ left
            /\ left \subseteq apmMetrics[w]
        BY <1>10, <3>3
      <3>5. Distinct((apmMetrics[w] \ apmTodo[w]) \cup {m})
        BY <1>10, <3>3 DEF Distinct
      <3>6. BuiltOK((apmMetrics[w] \ apmTodo[w]) \cup {m}, new)
        BY <3>3, <3>4, <3>5, BuildsOn
      <3>7. next \in {"place", "send"} /\ (next = "send" => left = {})
        OBVIOUS
      <3> HIDE DEF new, next, left
      <3>8. BuiltOK(apmMetrics[w] \ left, new)
        BY <3>4, <3>6
      <3>9. WorkOK(next, apmResources[w], apmAt[w], apmMetrics[w], left, new)
        BY <3>3, <3>4, <3>7, <3>8 DEF WorkOK
      <3>10. QED
        BY <3>2, <3>9, LocalStep
    <2>3. QED
      BY <2>1, <2>2
  <1>11. ASSUME NEW w \in ApmWorkers, ApmSend(w) PROVE ApmLocals'
    BY <1>11, AfterPayload DEF ApmSend
  <1>12. QED
    BY <1>2, <1>3, <1>4, <1>5, <1>6, <1>7, <1>8, <1>9, <1>10, <1>11 DEF ApmNext

(* Only a configuration and the maps end the process.                      *)
LEMMA ApmEndStep ==
    ASSUME ApmInForce, ApmEndsOver, ApmNext
    PROVE  ApmInForce' /\ ApmEndsOver'
  <1>1. ASSUME NEW c \in ApmConfigs, ApmConfigHandler(c) PROVE ApmInForce' /\ ApmEndsOver'
    <2>1. apmConfig' = c /\ apmHandler' = <<c>> /\ ~apmEnded'
      BY <1>1 DEF ApmConfigHandler
    <2>2. QED
      BY <2>1, ApmAssumption DEF ApmInForce, ApmEndsOver
  <1>2. CASE unmarshalMappings
    <2>1. apmHandler[1] = apmConfig /\ apmHandler' = <<>> /\ apmConfig' = apmConfig
          /\ apmEnded' = ~apmHandler[1].compiles
      BY <1>2 DEF unmarshalMappings, ApmInForce
    <2>2. QED
      BY <2>1 DEF ApmInForce, ApmEndsOver
  <1>3. CASE MapsThrow
    <2>1. MapsRace /\ UNCHANGED <<apmPhase, apmAt, apmTodo, apmConfig, apmHandler>>
      BY <1>3 DEF MapsThrow, apmLocals
    <2>2. MapsRace'
      BY <2>1, Zenon DEF MapsRace, Writes, Reads
    <2>3. QED
      BY <2>1, <2>2 DEF ApmInForce, ApmEndsOver
  <1>4. ASSUME NEW w \in ApmWorkers,
               \/ \E metrics \in ApmAnswers : receiverHandler(w, metrics)
               \/ MetricsAvailable(w) \/ ListAvailable(w) \/ ApmPeriodicHandler(w) \/ Pull(w) \/ PullEnds(w)
               \/ ApmParse(w) \/ (\E m \in apmTodo[w] : extractIntoMetricBuilders(w, m)) \/ ApmSend(w)
        PROVE  ApmInForce' /\ ApmEndsOver'
    <2>1. ~apmEnded' /\ apmConfig' = apmConfig /\ apmHandler' = apmHandler
      BY <1>4 DEF receiverHandler, MetricsAvailable, ListAvailable, ApmPeriodicHandler, Pull, PullEnds, ApmParse,
                  extractIntoMetricBuilders, ApmSend, ApmStart, ApmRuns
    <2>2. QED
      BY <2>1 DEF ApmInForce, ApmEndsOver
  <1>5. QED
    BY <1>1, <1>2, <1>3, <1>4 DEF ApmNext

(* Every step keeps the invariant.                                         *)
LEMMA ApmStep == ApmInv /\ [ApmNext]_apmVars => ApmInv'
  <1>1. ASSUME ApmInv, ApmNext PROVE ApmInv'
    BY <1>1, ApmLocalsStep, ApmEndStep DEF ApmInv
  <1>2. ASSUME ApmInv, UNCHANGED apmVars PROVE ApmInv'
    <2>1. /\ apmPhase' = apmPhase /\ apmResources' = apmResources /\ apmAt' = apmAt
          /\ apmMetrics' = apmMetrics /\ apmTodo' = apmTodo /\ apmBuilt' = apmBuilt
          /\ apmConfig' = apmConfig /\ apmHandler' = apmHandler /\ apmEnded' = apmEnded
      BY <1>2 DEF apmVars, apmLocals
    <2>2. ApmLocals'
      BY <1>2, <2>1, Zenon DEF ApmInv, ApmLocals, Works
    <2>3. ApmInForce'
      BY <1>2, <2>1 DEF ApmInv, ApmInForce
    <2>4. ApmEndsOver'
      BY <1>2, <2>1, Zenon DEF ApmInv, ApmEndsOver, MapsRace, Writes, Reads
    <2>5. QED
      BY <2>2, <2>3, <2>4 DEF ApmInv
  <1>3. QED
    BY <1>1, <1>2

(* What the invariant says of the metrics and of the panics.               *)
LEMMA ApmReported == ApmInv => ApmReports
  <1> SUFFICES ASSUME ApmInv PROVE ApmReports
    OBVIOUS
  <1>0. Len(apmConfig.resources) \in Nat
    BY LenProperties DEF ApmInv, ApmInForce
  <1>1. ASSUME NEW w \in ApmWorkers, apmPhase[w] = "send" PROVE Grouped(apmMetrics[w], apmBuilt[w])
    <2>1. apmTodo[w] = {} /\ BuiltOK(apmMetrics[w] \ apmTodo[w], apmBuilt[w])
      BY <1>1 DEF ApmInv, ApmLocals, Works, WorkOK
    <2>2. apmMetrics[w] \ apmTodo[w] = apmMetrics[w]
      BY <2>1
    <2>3. QED
      BY <2>1, <2>2, BuiltGrouped
  <1>2. ASSUME NEW w \in ApmWorkers
        PROVE  /\ apmAt[w] \in Nat /\ apmAt[w] <= Len(apmResources[w]) /\ Len(apmResources[w]) \in Nat
    BY LenProperties DEF ApmInv, ApmLocals, Works, WorkOK
  <1>3. OwnDefaults
    <2>1. ASSUME NEW w \in ApmWorkers, apmAt[w] # 0, apmConfig.resources = apmResources[w]
          PROVE  Own(apmAt[w]).url = Url(w)
      BY <2>1 DEF Own, Url
    <2>2. ASSUME NEW w \in ApmWorkers, NEW m \in apmTodo[w], PlacePanics(w, m), apmMappings # <<>>
          PROVE  Len(apmConfig.resources) < Len(apmResources[w])
      <3>1. apmAt[w] > Len(apmConfig.resources)
        BY <2>2 DEF PlacePanics
      <3>2. QED
        BY <1>0, <1>2, <3>1
    <2>3. QED
      BY <2>1, <2>2 DEF OwnDefaults
  <1>4. PushesPanicOverMappings
    <2>1. ASSUME NEW w \in ApmWorkers, apmAt[w] = 0, NEW m \in apmTodo[w], PlacePanics(w, m)
          PROVE  apmMappings = <<>>
      BY <1>0, <2>1 DEF PlacePanics
    <2>2. QED
      BY <2>1 DEF PushesPanicOverMappings
  <1>5. QED
    BY <1>1, <1>3, <1>4 DEF ApmReports, ApmGrouped, ApmInv

(* For any configurations and payloads and any number of pulls and         *)
(* requests, whichever way they overlap each other and the configurations: *)
(* every value of a payload is sent by one service of one host, every host *)
(* is once in the group of each of its metrics, a pull takes the defaults  *)
(* of the resource it asked unless the resources changed and panics only   *)
(* over nil mappings or fewer resources, and the process ends only over an *)
(* expression that does not compile or over the maps (apm.go:              *)
(* extractIntoMetricBuilders, process, pull; cmd.go: configHandler).       *)
THEOREM ApmIsReported == ApmSpec => []ApmReports
  <1>1. ApmInit => ApmInv
    BY ApmInitial
  <1>2. ApmInv /\ [ApmNext]_apmVars => ApmInv'
    BY ApmStep
  <1>3. ApmInv => ApmReports
    BY ApmReported
  <1>4. QED
    BY <1>1, <1>2, <1>3, PTL DEF ApmSpec

-----------------------------------------------------------------------------
(* Kubernetes *)

(* The name is at a position of a group.                                   *)
RefAt(gs, g, i, name) == g \in DOMAIN gs /\ i \in DOMAIN gs[g] /\ gs[g][i] = name
Entered(gs, name) == \E g, i : RefAt(gs, g, i, name)
EnteredOnce(gs, name) == \A g, i, h, j : RefAt(gs, g, i, name) /\ RefAt(gs, h, j, name) => g = h /\ i = j

(* Groups of names.                                                        *)
GroupMaps(G, M) == UNION {[D -> Seq(M)] : D \in SUBSET G}

(* In new the name is at a further position of a group, and nothing else   *)
(* is different.                                                           *)
AddsAt(gs, new, g, n, name) ==
    /\ \A m : ~RefAt(gs, g, n, m)
    /\ \A h, i, m : RefAt(new, h, i, m) <=> RefAt(gs, h, i, m) \/ (h = g /\ i = n /\ m = name)

(* Then the name is entered, and every other name as it was.               *)
LEMMA AddsEntered ==
    ASSUME NEW gs, NEW new, NEW g, NEW n, NEW name, AddsAt(gs, new, g, n, name)
    PROVE  \A m : Entered(new, m) <=> Entered(gs, m) \/ m = name
  <1>1. ASSUME NEW m, Entered(new, m) PROVE Entered(gs, m) \/ m = name
    <2>1. PICK h, i : RefAt(new, h, i, m)
      BY <1>1 DEF Entered
    <2>2. RefAt(gs, h, i, m) \/ m = name
      BY <2>1 DEF AddsAt
    <2>3. QED
      BY <2>2 DEF Entered
  <1>2. ASSUME NEW m, Entered(gs, m) PROVE Entered(new, m)
    <2>1. PICK h, i : RefAt(gs, h, i, m)
      BY <1>2 DEF Entered
    <2>2. RefAt(new, h, i, m)
      BY <2>1 DEF AddsAt
    <2>3. QED
      BY <2>2 DEF Entered
  <1>3. RefAt(new, g, n, name)
    BY DEF AddsAt
  <1>4. Entered(new, name)
    BY <1>3 DEF Entered
  <1>5. QED
    BY <1>1, <1>2, <1>4

(* AddRef adds one.                                                        *)
LEMMA AddsRef ==
    ASSUME NEW G, NEW M, NEW gs \in GroupMaps(G, M), NEW g \in G, NEW name \in M
    PROVE  /\ AddRef(gs, g, name) \in GroupMaps(G, M)
           /\ \E n : AddsAt(gs, AddRef(gs, g, name), g, n, name)
  <1>1. PICK D \in SUBSET G : gs \in [D -> Seq(M)]
    BY DEF GroupMaps
  <1>2. DOMAIN gs = D /\ \A h \in D : gs[h] \in Seq(M)
    BY <1>1
  <1> DEFINE old == IF g \in D THEN gs[g] ELSE <<>>
             list == Append(old, name)
             n == Len(old) + 1
             new == AddRef(gs, g, name)
  <1>3. old \in Seq(M)
    BY <1>2, EmptySeq
  <1>4. Len(old) \in Nat /\ DOMAIN old = 1 .. Len(old)
    BY <1>3, LenProperties
  <1>5. /\ list \in Seq(M) /\ Len(list) = n /\ list[n] = name
        /\ \A i \in 1 .. Len(old) : list[i] = old[i]
    BY <1>3, AppendProperties
  <1>6. DOMAIN list = 1 .. n
    BY <1>5, LenProperties
  <1>7. new = [x \in D \cup {g} |-> IF x = g THEN list ELSE gs[x]]
    <2>1. new = [x \in D \cup {g} |-> IF x \in {g} THEN [y \in {g} |-> list][x] ELSE gs[x]]
      BY <1>2 DEF AddRef, Update
    <2>2. QED
      BY <2>1
  <1> HIDE DEF new, list
  <1>8. DOMAIN new = D \cup {g} /\ new[g] = list /\ \A x \in D : x # g => new[x] = gs[x]
    BY <1>7
  <1>9. new \in [D \cup {g} -> Seq(M)]
    BY <1>2, <1>5, <1>7
  <1>10. new \in GroupMaps(G, M)
    <2>1. D \cup {g} \in SUBSET G
      BY <1>1
    <2>2. QED
      BY <1>9, <2>1 DEF GroupMaps
  <1>11. ASSUME NEW m PROVE ~RefAt(gs, g, n, m)
    <2>1. CASE g \in D
      <3>1. DOMAIN gs[g] = 1 .. Len(old) /\ n \notin 1 .. Len(old)
        BY <1>4, <2>1
      <3>2. QED
        BY <3>1 DEF RefAt
    <2>2. CASE g \notin D
      BY <1>2, <2>2 DEF RefAt
    <2>3. QED
      BY <2>1, <2>2
  <1>12. ASSUME NEW h, NEW i, NEW m
         PROVE  RefAt(new, h, i, m) <=> RefAt(gs, h, i, m) \/ (h = g /\ i = n /\ m = name)
    <2>1. CASE h # g
      BY <1>2, <1>8, <2>1 DEF RefAt
    <2>2. CASE h = g
      <3>1. RefAt(new, h, i, m) <=> i \in 1 .. n /\ list[i] = m
        BY <1>6, <1>8, <2>2 DEF RefAt
      <3>2. RefAt(gs, h, i, m) <=> i \in 1 .. Len(old) /\ old[i] = m
        <4>1. CASE g \in D
          BY <1>2, <1>4, <2>2, <4>1 DEF RefAt
        <4>2. CASE g \notin D
          <5>1. Len(old) = 0
            BY <4>2, EmptySeq
          <5> HIDE DEF old
          <5>2. ~(i \in 1 .. Len(old))
            BY <5>1
          <5>3. QED
            BY <1>2, <2>2, <4>2, <5>2 DEF RefAt
        <4>3. QED
          BY <4>1, <4>2
      <3> HIDE DEF old
      <3>3. i \in 1 .. n <=> i \in 1 .. Len(old) \/ i = n
        BY <1>4
      <3>4. n \notin 1 .. Len(old)
        BY <1>4
      <3> HIDE DEF n
      <3>5. QED
        BY <1>5, <2>2, <3>1, <3>2, <3>3, <3>4
    <2>3. QED
      BY <2>1, <2>2
  <1> HIDE DEF n
  <1>13. AddsAt(gs, new, g, n, name)
    BY <1>11, <1>12 DEF AddsAt
  <1>14. QED
    BY <1>10, <1>13 DEF new

-----------------------------------------------------------------------------
(* The names and the groups of nodes, and the recursion of NodeGroups.     *)
NodeNamesOf(ns) == {NodeName(n) : n \in ns}
NodeGroupsOf(ns) == {NodeGroup(n) : n \in ns}

IsNodeGroups(f, order) ==
    f = [i \in 0 .. Len(order) |->
            IF i = 0 THEN NoFun ELSE AddRef(f[i - 1], NodeGroup(order[i]), NodeName(order[i]))]

(* An empty map of groups.                                                 *)
LEMMA NoGroups ==
    /\ \A G, M : NoFun \in GroupMaps(G, M)
    /\ \A name : ~Entered(NoFun, name)
  <1>1. DOMAIN NoFun = {}
    BY DEF NoFun
  <1>2. ASSUME NEW G, NEW M PROVE NoFun \in GroupMaps(G, M)
    <2>1. NoFun \in [{} -> Seq(M)]
      BY DEF NoFun
    <2>2. {} \in SUBSET G
      OBVIOUS
    <2>3. QED
      BY <2>1, <2>2 DEF GroupMaps
  <1>3. QED
    BY <1>1, <1>2 DEF Entered, RefAt

(* The recursion over the nodes has a solution.                            *)
LEMMA NodeGroupsExist ==
    ASSUME NEW ns, NEW order \in Seq(ns)
    PROVE  \E f : IsNodeGroups(f, order)
  <1> DEFINE A == GroupMaps(NodeGroupsOf(ns), NodeNamesOf(ns))
             N == Len(order)
             F == [i \in 1 .. N |-> [x \in A |-> AddRef(x, NodeGroup(order[i]), NodeName(order[i]))]]
  <1>1. N \in Nat /\ \A i \in 1 .. N : order[i] \in ns
    BY LenProperties, ElementOfSeq
  <1>2. NoFun \in A
    BY NoGroups
  <1>3. ASSUME NEW i \in 1 .. N, NEW x \in A PROVE AddRef(x, NodeGroup(order[i]), NodeName(order[i])) \in A
    <2>1. NodeGroup(order[i]) \in NodeGroupsOf(ns) /\ NodeName(order[i]) \in NodeNamesOf(ns)
      BY <1>1 DEF NodeGroupsOf, NodeNamesOf
    <2>2. QED
      BY <2>1, AddsRef
  <1> HIDE DEF A, N
  <1>4. F \in [1 .. N -> [A -> A]]
    BY <1>3
  <1>5. \A i \in 1 .. N : \A x \in A : F[i][x] = AddRef(x, NodeGroup(order[i]), NodeName(order[i]))
    OBVIOUS
  <1> HIDE DEF F
  <1>6. PICK f : IsIteration(f, NoFun, N, A, F)
    BY <1>1, <1>2, <1>4, Iterates
  <1>7. f \in [0 .. N -> A] /\ f[0] = NoFun /\ \A i \in 1 .. N : f[i] = F[i][f[i - 1]]
    BY <1>6 DEF IsIteration
  <1> DEFINE h == [i \in 0 .. N |-> IF i = 0 THEN NoFun
                                    ELSE AddRef(f[i - 1], NodeGroup(order[i]), NodeName(order[i]))]
  <1>8. ASSUME NEW i \in 0 .. N PROVE f[i] = h[i]
    <2>1. CASE i = 0
      BY <1>7, <2>1
    <2>2. CASE i # 0
      <3>1. i \in 1 .. N /\ i - 1 \in 0 .. N
        BY <1>1, <2>2
      <3>2. f[i - 1] \in A
        BY <1>7, <3>1
      <3>3. f[i] = AddRef(f[i - 1], NodeGroup(order[i]), NodeName(order[i]))
        BY <1>5, <1>7, <3>1, <3>2
      <3>4. QED
        BY <2>2, <3>3
    <2>3. QED
      BY <2>1, <2>2
  <1>9. f = h
    BY <1>7, <1>8
  <1>10. QED
    BY <1>9 DEF IsNodeGroups, N

(* The nodes, and nothing else, are listed.                                *)
LEMMA NodesListed ==
    ASSUME NEW ns, IsFiniteSet(ns)
    PROVE  /\ NodeGroups(ns) \in GroupMaps(NodeGroupsOf(ns), NodeNamesOf(ns))
           /\ \A name : Entered(NodeGroups(ns), name) <=> name \in NodeNamesOf(ns)
  <1> DEFINE order == SetToSeq(ns)
             N == Len(order)
             A == GroupMaps(NodeGroupsOf(ns), NodeNamesOf(ns))
             f == CHOOSE h : IsNodeGroups(h, order)
             Ok(i) == \A name : Entered(f[i], name) <=> \E j \in 1 .. i : name = NodeName(order[j])
             S == {i \in 0 .. N : f[i] \in A /\ Ok(i)}
  <1>1. order \in Seq(ns) /\ \A n \in ns : \E i \in 1 .. N : order[i] = n
    BY InOrder
  <1>2. NodeGroups(ns) = f[N]
    BY DEF NodeGroups, IsNodeGroups
  <1> HIDE DEF order
  <1>3. IsNodeGroups(f, order)
    BY <1>1, NodeGroupsExist, Zenon
  <1>4. N \in Nat /\ \A i \in 1 .. N : order[i] \in ns
    BY <1>1, LenProperties, ElementOfSeq
  <1> HIDE DEF f
  <1>5. f = [i \in 0 .. N |->
                IF i = 0 THEN NoFun ELSE AddRef(f[i - 1], NodeGroup(order[i]), NodeName(order[i]))]
    BY <1>3 DEF IsNodeGroups
  <1> HIDE DEF N
  <1>6. f[0] = NoFun
    BY <1>4, <1>5
  <1>7. ASSUME NEW i \in 1 .. N PROVE f[i] = AddRef(f[i - 1], NodeGroup(order[i]), NodeName(order[i]))
    <2>1. i \in 0 .. N /\ i # 0
      BY <1>4
    <2>2. QED
      BY <1>5, <2>1, Zenon
  <1>8. 0 \in S
    <2>1. f[0] \in A
      BY <1>6, NoGroups
    <2>2. Ok(0)
      BY <1>6, NoGroups
    <2>3. QED
      BY <1>4, <2>1, <2>2
  <1>9. ASSUME NEW i \in 1 .. N, i - 1 \in S PROVE i \in S
    <2>1. f[i - 1] \in A /\ Ok(i - 1)
      BY <1>9
    <2>2. NodeGroup(order[i]) \in NodeGroupsOf(ns) /\ NodeName(order[i]) \in NodeNamesOf(ns)
      BY <1>4 DEF NodeGroupsOf, NodeNamesOf
    <2>3. f[i] \in A
      BY <1>7, <2>1, <2>2, AddsRef
    <2>4. PICK n : AddsAt(f[i - 1], f[i], NodeGroup(order[i]), n, NodeName(order[i]))
      BY <1>7, <2>1, <2>2, AddsRef
    <2>5. \A name : Entered(f[i], name) <=> Entered(f[i - 1], name) \/ name = NodeName(order[i])
      BY <2>4, AddsEntered
    <2>6. \A j \in 1 .. i : j = i \/ j \in 1 .. i - 1
      BY <1>4
    <2>7. i \in 1 .. i /\ \A j \in 1 .. i - 1 : j \in 1 .. i
      BY <1>4
    <2>8. Ok(i)
      BY <2>1, <2>5, <2>6, <2>7
    <2>9. i \in 0 .. N
      BY <1>4
    <2> HIDE DEF Ok, A
    <2>10. QED
      BY <2>3, <2>8, <2>9
  <1> HIDE DEF S
  <1>10. N \in S
    <2>1. \A i \in 1 .. N : i - 1 \in S => i \in S
      BY <1>9
    <2>2. \A i \in 0 .. N : i \in S
      BY <1>4, <1>8, <2>1, UpTo
    <2>3. QED
      BY <1>4, <2>2
  <1>11. f[N] \in A /\ Ok(N)
    BY <1>10 DEF S
  <1>12. \A name : (\E j \in 1 .. N : name = NodeName(order[j])) <=> name \in NodeNamesOf(ns)
    BY <1>1, <1>4 DEF NodeNamesOf, N
  <1>13. QED
    BY <1>2, <1>11, <1>12

-----------------------------------------------------------------------------
(* The names and the groups there are with those of containers, and the    *)
(* recursion of PodGroups.                                                 *)
NamesOf(cs, M) == M \cup {ContainerName(x) : x \in cs}
GroupsOf(cs, G) == G \cup {ContainerGroup(x) : x \in cs}
PodStates(cs, G, M) == [gs : GroupMaps(GroupsOf(cs, G), NamesOf(cs, M)), seen : SUBSET NamesOf(cs, M)]
PodStep(st, x) == [gs |-> AddResource(st.gs, st.seen, x), seen |-> st.seen \cup {ContainerName(x)}]

IsPodGroups(f, order, groups) ==
    f = [i \in 0 .. Len(order) |->
            IF i = 0 THEN [gs |-> groups, seen |-> {}] ELSE PodStep(f[i - 1], order[i])]

(* A container is entered once: under a name that is seen nothing is       *)
(* added.                                                                  *)
LEMMA PodStepType ==
    ASSUME NEW cs, NEW G, NEW M, NEW st \in PodStates(cs, G, M), NEW x \in cs
    PROVE  /\ PodStep(st, x) \in PodStates(cs, G, M)
           /\ PodStep(st, x).seen = st.seen \cup {ContainerName(x)}
           /\ ContainerName(x) \in st.seen => PodStep(st, x).gs = st.gs
           /\ ContainerName(x) \notin st.seen => PodStep(st, x).gs = AddRef(st.gs, ContainerGroup(x), ContainerName(x))
  <1>1. ContainerName(x) \in NamesOf(cs, M) /\ ContainerGroup(x) \in GroupsOf(cs, G)
    BY DEF NamesOf, GroupsOf
  <1>2. st.gs \in GroupMaps(GroupsOf(cs, G), NamesOf(cs, M)) /\ st.seen \in SUBSET NamesOf(cs, M)
    BY DEF PodStates
  <1>3. AddRef(st.gs, ContainerGroup(x), ContainerName(x)) \in GroupMaps(GroupsOf(cs, G), NamesOf(cs, M))
    BY <1>1, <1>2, AddsRef
  <1> DEFINE gs == AddResource(st.gs, st.seen, x)
             seen == st.seen \cup {ContainerName(x)}
  <1>4. /\ ContainerName(x) \in st.seen => gs = st.gs
        /\ ContainerName(x) \notin st.seen => gs = AddRef(st.gs, ContainerGroup(x), ContainerName(x))
    BY DEF AddResource
  <1>5. PodStep(st, x) = [gs |-> gs, seen |-> seen]
    BY DEF PodStep
  <1> HIDE DEF gs
  <1>6. gs \in GroupMaps(GroupsOf(cs, G), NamesOf(cs, M)) /\ seen \in SUBSET NamesOf(cs, M)
    BY <1>1, <1>2, <1>3, <1>4
  <1>7. QED
    BY <1>4, <1>5, <1>6 DEF PodStates

(* The recursion over the containers has a solution.                       *)
LEMMA PodGroupsExist ==
    ASSUME NEW cs, NEW G, NEW M, NEW groups \in GroupMaps(G, M), NEW order \in Seq(cs)
    PROVE  /\ [gs |-> groups, seen |-> {}] \in PodStates(cs, G, M)
           /\ \E f : IsPodGroups(f, order, groups)
  <1> DEFINE A == PodStates(cs, G, M)
             N == Len(order)
             first == [gs |-> groups, seen |-> {}]
             F == [i \in 1 .. N |-> [x \in A |-> PodStep(x, order[i])]]
  <1>1. N \in Nat /\ \A i \in 1 .. N : order[i] \in cs
    BY LenProperties, ElementOfSeq
  <1>2. first \in A
    <2>1. PICK D \in SUBSET G : groups \in [D -> Seq(M)]
      BY DEF GroupMaps
    <2>2. D \in SUBSET GroupsOf(cs, G) /\ M \subseteq NamesOf(cs, M)
      BY DEF GroupsOf, NamesOf
    <2>3. \A h \in D : groups[h] \in Seq(NamesOf(cs, M))
      BY <2>1, <2>2
    <2>4. groups \in [D -> Seq(NamesOf(cs, M))]
      BY <2>1, <2>3
    <2>5. groups \in GroupMaps(GroupsOf(cs, G), NamesOf(cs, M))
      BY <2>2, <2>4 DEF GroupMaps
    <2>6. QED
      BY <2>5 DEF PodStates
  <1>3. ASSUME NEW i \in 1 .. N, NEW x \in A PROVE PodStep(x, order[i]) \in A
    BY <1>1, PodStepType
  <1> HIDE DEF A, N, first
  <1>4. F \in [1 .. N -> [A -> A]]
    BY <1>3
  <1>5. \A i \in 1 .. N : \A x \in A : F[i][x] = PodStep(x, order[i])
    OBVIOUS
  <1> HIDE DEF F
  <1>6. PICK f : IsIteration(f, first, N, A, F)
    BY <1>1, <1>2, <1>4, Iterates
  <1>7. f \in [0 .. N -> A] /\ f[0] = first /\ \A i \in 1 .. N : f[i] = F[i][f[i - 1]]
    BY <1>6 DEF IsIteration
  <1> DEFINE h == [i \in 0 .. N |-> IF i = 0 THEN first ELSE PodStep(f[i - 1], order[i])]
  <1>8. ASSUME NEW i \in 0 .. N PROVE f[i] = h[i]
    <2>1. CASE i = 0
      BY <1>7, <2>1
    <2>2. CASE i # 0
      <3>1. i \in 1 .. N /\ i - 1 \in 0 .. N
        BY <1>1, <2>2
      <3>2. f[i - 1] \in A
        BY <1>7, <3>1
      <3>3. f[i] = PodStep(f[i - 1], order[i])
        BY <1>5, <1>7, <3>1, <3>2
      <3>4. QED
        BY <2>2, <3>3
    <2>3. QED
      BY <2>1, <2>2
  <1>9. f = h
    BY <1>7, <1>8
  <1>10. QED
    BY <1>2, <1>9 DEF IsPodGroups, N, A, first

(* The containers entered so far are listed, each name that is not one of  *)
(* a node once, and what was listed before still is.                       *)
PodsOK(st, groups, M, order, i) ==
    /\ \A name : name \in st.seen <=> \E j \in 1 .. i : name = ContainerName(order[j])
    /\ \A name : Entered(groups, name) => Entered(st.gs, name)
    /\ \A name : Entered(st.gs, name) => name \in M \/ name \in st.seen
    /\ \A name : name \in st.seen => Entered(st.gs, name)
    /\ \A name : name \notin M => EnteredOnce(st.gs, name)

(* The next container is entered, and what is entered stays.               *)
LEMMA PodStepOK ==
    ASSUME NEW cs, NEW G, NEW M, NEW groups, NEW st \in PodStates(cs, G, M),
           NEW order \in Seq(cs), NEW i \in 1 .. Len(order), PodsOK(st, groups, M, order, i - 1)
    PROVE  PodsOK(PodStep(st, order[i]), groups, M, order, i)
  <1> DEFINE x == order[i]
             new == PodStep(st, x)
             name0 == ContainerName(x)
             g0 == ContainerGroup(x)
  <1>1. x \in cs /\ i \in Nat
    BY LenProperties, ElementOfSeq
  <1>2. /\ new.seen = st.seen \cup {name0}
        /\ name0 \in st.seen => new.gs = st.gs
        /\ name0 \notin st.seen => new.gs = AddRef(st.gs, g0, name0)
    BY <1>1, PodStepType
  <1>3. st.gs \in GroupMaps(GroupsOf(cs, G), NamesOf(cs, M))
    BY DEF PodStates
  <1>4. name0 \in NamesOf(cs, M) /\ g0 \in GroupsOf(cs, G)
    BY <1>1 DEF NamesOf, GroupsOf
  <1>5. (\A j \in 1 .. i : j = i \/ j \in 1 .. i - 1) /\ i \in 1 .. i /\ \A j \in 1 .. i - 1 : j \in 1 .. i
    BY <1>1
  <1> HIDE DEF new
  <1>6. \A name : name \in new.seen <=> \E j \in 1 .. i : name = ContainerName(order[j])
    BY <1>2, <1>5 DEF PodsOK
  <1> HIDE DEF name0, g0, x
  <1>7. CASE name0 \in st.seen
    <2>1. new.seen = st.seen /\ new.gs = st.gs
      BY <1>2, <1>7
    <2>2. QED
      BY <1>6, <2>1 DEF PodsOK, new, x
  <1>8. CASE name0 \notin st.seen
    <2>1. PICK n : AddsAt(st.gs, new.gs, g0, n, name0)
      BY <1>2, <1>3, <1>4, <1>8, AddsRef
    <2>2. \A name : Entered(new.gs, name) <=> Entered(st.gs, name) \/ name = name0
      BY <2>1, AddsEntered
    <2>3. \A name : Entered(groups, name) => Entered(new.gs, name)
      BY <2>2 DEF PodsOK
    <2>4. \A name : Entered(new.gs, name) => name \in M \/ name \in new.seen
      BY <1>2, <2>2 DEF PodsOK
    <2>5. \A name : name \in new.seen => Entered(new.gs, name)
      BY <1>2, <2>2 DEF PodsOK
    <2>6. ASSUME NEW name, name \notin M PROVE EnteredOnce(new.gs, name)
      <3>1. CASE name # name0
        <4>1. \A h, k : RefAt(new.gs, h, k, name) <=> RefAt(st.gs, h, k, name)
          BY <2>1, <3>1 DEF AddsAt
        <4>2. EnteredOnce(st.gs, name)
          BY <2>6 DEF PodsOK
        <4>3. QED
          BY <4>1, <4>2 DEF EnteredOnce
      <3>2. CASE name = name0
        <4>1. ~Entered(st.gs, name)
          BY <1>8, <2>6, <3>2 DEF PodsOK
        <4>2. \A h, k : RefAt(new.gs, h, k, name) <=> h = g0 /\ k = n
          BY <2>1, <3>2, <4>1 DEF Entered, AddsAt
        <4>3. QED
          BY <4>2 DEF EnteredOnce
      <3>3. QED
        BY <3>1, <3>2
    <2>7. QED
      BY <1>6, <2>3, <2>4, <2>5, <2>6 DEF PodsOK, new, x
  <1>9. QED
    BY <1>7, <1>8

(* The containers of all running pods are entered beside the nodes, once   *)
(* each.                                                                   *)
LEMMA PodsListed ==
    ASSUME NEW cs, IsFiniteSet(cs), NEW G, NEW M, NEW groups \in GroupMaps(G, M),
           \A name : Entered(groups, name) => name \in M
    PROVE  /\ \A name : Entered(groups, name) => Entered(PodGroups(groups, cs), name)
           /\ \A x \in cs : Entered(PodGroups(groups, cs), ContainerName(x))
           /\ \A name : name \notin M => EnteredOnce(PodGroups(groups, cs), name)
  <1> DEFINE order == SetToSeq(cs)
             N == Len(order)
             A == PodStates(cs, G, M)
             first == [gs |-> groups, seen |-> {}]
             f == CHOOSE h : IsPodGroups(h, order, groups)
             S == {i \in 0 .. N : f[i] \in A /\ PodsOK(f[i], groups, M, order, i)}
  <1>1. order \in Seq(cs) /\ \A x \in cs : \E i \in 1 .. N : order[i] = x
    BY InOrder
  <1>2. PodGroups(groups, cs) = f[N].gs
    BY DEF PodGroups, IsPodGroups, PodStep
  <1> HIDE DEF order
  <1>3. IsPodGroups(f, order, groups)
    BY <1>1, PodGroupsExist, Zenon
  <1>4. N \in Nat /\ \A i \in 1 .. N : order[i] \in cs
    BY <1>1, LenProperties, ElementOfSeq
  <1> HIDE DEF f
  <1>5. f = [i \in 0 .. N |-> IF i = 0 THEN first ELSE PodStep(f[i - 1], order[i])]
    BY <1>3 DEF IsPodGroups
  <1>6. first \in A /\ first.gs = groups /\ first.seen = {}
    BY <1>1, PodGroupsExist
  <1> HIDE DEF N, first
  <1>7. f[0] = first
    BY <1>4, <1>5
  <1>8. ASSUME NEW i \in 1 .. N PROVE f[i] = PodStep(f[i - 1], order[i])
    <2>1. i \in 0 .. N /\ i # 0
      BY <1>4
    <2>2. QED
      BY <1>5, <2>1, Zenon
  <1>9. 0 \in S
    <2>1. \A name : name \notin M => ~Entered(groups, name)
      OBVIOUS
    <2>2. \A name : name \notin M => EnteredOnce(groups, name)
      BY <2>1 DEF EnteredOnce, Entered
    <2>3. PodsOK(f[0], groups, M, order, 0)
      BY <1>6, <1>7, <2>2 DEF PodsOK
    <2>4. QED
      BY <1>4, <1>6, <1>7, <2>3
  <1>10. ASSUME NEW i \in 1 .. N, i - 1 \in S PROVE i \in S
    <2>1. f[i - 1] \in A /\ PodsOK(f[i - 1], groups, M, order, i - 1)
      BY <1>10
    <2>2. f[i] \in A
      BY <1>4, <1>8, <2>1, PodStepType
    <2>3. i \in 1 .. Len(order)
      BY DEF N
    <2>4. PodsOK(f[i], groups, M, order, i)
      BY <1>1, <1>8, <2>1, <2>3, PodStepOK
    <2>5. i \in 0 .. N
      BY <1>4
    <2> HIDE DEF A
    <2>6. QED
      BY <2>2, <2>4, <2>5
  <1> HIDE DEF S
  <1>11. N \in S
    <2>1. \A i \in 1 .. N : i - 1 \in S => i \in S
      BY <1>10
    <2>2. \A i \in 0 .. N : i \in S
      BY <1>4, <1>9, <2>1, UpTo
    <2>3. QED
      BY <1>4, <2>2
  <1>12. PodsOK(f[N], groups, M, order, N)
    BY <1>11 DEF S
  <1>13. \A x \in cs : ContainerName(x) \in f[N].seen
    BY <1>1, <1>12 DEF PodsOK, N
  <1>14. QED
    BY <1>2, <1>12, <1>13 DEF PodsOK

-----------------------------------------------------------------------------
(* The round.  With the nodes only what nodes are called is in a group;    *)
(* with the containers every host is, and once if no node is called so.    *)
(* A container with metrics has its own among those of its services.       *)
NodeKeys(state) == {k \in DOMAIN state : k[1] = "node"}
NamesOfNodes(state) == {state[k].name : k \in NodeKeys(state)}
HostsGrouped(state, groups) ==
    \A k \in DOMAIN state :
        /\ Entered(groups, state[k].name)
        /\ state[k].name \notin NamesOfNodes(state) => EnteredOnce(groups, state[k].name)
OwnReported(state, k) ==
    \A v \in DOMAIN state[k].services : k \in ToSet(state[k].services[v].metrics)

KRound ==
    /\ kPhase = "pods" =>
         /\ NodeKeys(kState) = DOMAIN kState
         /\ \E G : kGroups \in GroupMaps(G, NamesOfNodes(kState))
         /\ \A name : Entered(kGroups, name) <=> name \in NamesOfNodes(kState)
    /\ kPhase \in {"nodeMetrics", "podMetrics", "send"} => HostsGrouped(kState, kGroups)
    /\ kPhase \in {"nodes", "pods", "nodeMetrics", "podMetrics"} => kMeasured = {}
    /\ kPhase = "send" => \A k \in kMeasured \cap DOMAIN kState : OwnReported(kState, k)
KSentOK ==
    \A sent \in ToSet(kSent) :
        /\ HostsGrouped(sent.monitored, sent.groups)
        /\ kPhase = "idle" => \A k \in kMeasured \cap DOMAIN sent.monitored : OwnReported(sent.monitored, k)
KInv == running \subseteq DOMAIN PodSpecs /\ KRound /\ KSentOK

(* One reference is a set of one reference.                                *)
LEMMA OneReference ==
    ASSUME NEW gs, NEW name, Entered(gs, name)
    PROVE  LET refs == {r \in UNION {{g} \X DOMAIN gs[g] : g \in DOMAIN gs} : gs[r[1]][r[2]] = name}
           IN  refs # {} /\ (EnteredOnce(gs, name) => Cardinality(refs) = 1)
  <1> DEFINE places == UNION {{g} \X DOMAIN gs[g] : g \in DOMAIN gs}
             refs == {r \in places : gs[r[1]][r[2]] = name}
  <1>1. PICK g, i : RefAt(gs, g, i, name)
    BY DEF Entered
  <1>2. <<g, i>> \in refs
    BY <1>1 DEF RefAt
  <1>3. ASSUME EnteredOnce(gs, name), NEW r \in refs PROVE r = <<g, i>>
    <2>1. PICK h \in DOMAIN gs : r \in {h} \X DOMAIN gs[h]
      OBVIOUS
    <2>2. r = <<h, r[2]>> /\ r[1] = h /\ r[2] \in DOMAIN gs[h]
      BY <2>1
    <2>3. RefAt(gs, h, r[2], name)
      BY <2>1, <2>2 DEF RefAt
    <2>4. h = g /\ r[2] = i
      BY <1>1, <1>3, <2>3 DEF EnteredOnce
    <2>5. QED
      BY <2>2, <2>4
  <1> HIDE DEF refs
  <1>4. ASSUME EnteredOnce(gs, name) PROVE Cardinality(refs) = 1
    <2>1. refs = {<<g, i>>}
      BY <1>2, <1>3, <1>4
    <2>2. QED
      BY <2>1, FS_Singleton
  <1>5. QED
    BY <1>2, <1>4 DEF refs

(* The invariant implies what is promised of a payload.                    *)
LEMMA KInvSuffices == KInv => ReplicasGrouped
  <1> SUFFICES ASSUME KInv PROVE ReplicasGrouped
    OBVIOUS
  <1>1. HostsAreGrouped
    <2> SUFFICES ASSUME NEW sent \in ToSet(kSent), NEW k \in DOMAIN sent.monitored
                 PROVE  LET refs == {r \in UNION {{g} \X DOMAIN sent.groups[g] : g \in DOMAIN sent.groups} :
                                        sent.groups[r[1]][r[2]] = sent.monitored[k].name}
                        IN  refs # {} /\ (sent.monitored[k].name \notin NamesOfNodes(sent.monitored) =>
                                            Cardinality(refs) = 1)
      BY DEF HostsAreGrouped, NamesOfNodes, NodeKeys
    <2>1. Entered(sent.groups, sent.monitored[k].name)
          /\ (sent.monitored[k].name \notin NamesOfNodes(sent.monitored) =>
                  EnteredOnce(sent.groups, sent.monitored[k].name))
      BY DEF KInv, KSentOK, HostsGrouped
    <2>2. QED
      BY <2>1, OneReference
  <1>2. ReplicasReported
    BY DEF KInv, KSentOK, OwnReported, ReplicasReported
  <1>3. QED
    BY <1>1, <1>2 DEF ReplicasGrouped

(* The connector starts between two rounds, with nothing sent.             *)
LEMMA KInitial == KInit => KInv
  <1> SUFFICES ASSUME KInit PROVE KInv
    OBVIOUS
  <1>1. running \subseteq DOMAIN PodSpecs /\ kPhase = "idle"
    BY DEF KInit
  <1>2. KRound
    BY <1>1 DEF KRound
  <1>3. ToSet(kSent) = {}
    BY DEF KInit, ToSet
  <1>4. QED
    BY <1>1, <1>2, <1>3 DEF KInv, KSentOK

(* What is sent stays as it is until the next round is sent.               *)
LEMMA KSentStays ==
    ASSUME KSentOK, UNCHANGED kSent, kPhase' = "idle" => kMeasured' = {} \/ (kPhase = "idle" /\ UNCHANGED kMeasured)
    PROVE  KSentOK'
  BY DEF KSentOK

(* The inventory of the nodes.                                             *)
LEMMA KNodes ==
    ASSUME KInv, collectNodeInventory
    PROVE  KInv'
  <1> DEFINE named == {n \in DOMAIN Nodes : ~Misses(HostName(NodeLabels(n), n))}
             total(n) == IF "cpu.total" \in NodeViews
                         THEN [x \in {"cpu.total"} |-> Service(<<Nodes[n].cpu>>)] ELSE NoFun
             reserved(n) == IF "cpu.reserved" \in NodeViews /\ reservation # <<>>
                            THEN [x \in {"cpu.reserved"} |-> Service(<<reservation[n]>>)] ELSE NoFun
             services(n) == Update(total(n), reserved(n))
             keys == {NodeKey(n) : n \in named}
             M == NodeNamesOf(named)
  <1>1. /\ kPhase = "nodes" /\ kPhase' = "pods" /\ UNCHANGED <<running, kMeasured, kSent>>
        /\ kState' = [k \in keys |-> Host(NodeName(k[3]), calculateNodeStatus(k[3]), services(k[3]))]
        /\ kGroups' = NodeGroups(named)
    BY DEF collectNodeInventory
  <1>2. IsFiniteSet(named)
    BY KAssumption, FS_Subset
  <1> HIDE DEF named, services
  <1>3. /\ DOMAIN kState' = keys
        /\ \A n \in named : NodeKey(n) \in keys /\ kState'[NodeKey(n)].name = NodeName(n)
    <2>1. \A n : NodeKey(n)[3] = n
      BY DEF NodeKey
    <2>2. \A n \in named : kState'[NodeKey(n)] = Host(NodeName(n), calculateNodeStatus(n), services(n))
      BY <1>1, <2>1
    <2>3. QED
      BY <1>1, <2>2 DEF Host
  <1>4. \A n : NodeKey(n)[1] = "node"
    BY DEF NodeKey
  <1>5. NodeKeys(kState)' = DOMAIN kState'
    BY <1>3, <1>4 DEF NodeKeys
  <1>6. NamesOfNodes(kState)' = M
    BY <1>3, <1>5 DEF NamesOfNodes, NodeNamesOf
  <1>7. /\ NodeGroups(named) \in GroupMaps(NodeGroupsOf(named), M)
        /\ \A name : Entered(NodeGroups(named), name) <=> name \in M
    BY <1>2, NodesListed
  <1> HIDE DEF M
  <1>8. KRound'
    <2>1. \E G : kGroups' \in GroupMaps(G, M)
      BY <1>1, <1>7
    <2>2. kMeasured' = {}
      BY <1>1 DEF KInv, KRound
    <2>3. QED
      BY <1>1, <1>5, <1>6, <1>7, <2>1, <2>2 DEF KRound
  <1>9. KSentOK'
    BY <1>1, KSentStays DEF KInv
  <1>10. QED
    BY <1>1, <1>8, <1>9 DEF KInv

(* The inventory of the containers.                                        *)
LEMMA KPods ==
    ASSUME KInv, collectPodInventory
    PROVE  KInv'
  <1> DEFINE containers == UNION {{<<p, c>> : c \in PodSpecs[p].containers \ {"POD"}} : p \in running}
             named == {x \in containers : ~Misses(HostName(ContainerLabels(x[1], x[2]), x[2]))}
             keys == {ContainerKey(x[1], x[2]) : x \in named}
             added == [k \in keys |-> Host(ContainerName(<<k[3], k[4]>>), calculatePodStatus(k[3]), NoFun)]
             M == NamesOfNodes(kState)
  <1>1. /\ kPhase = "pods" /\ kPhase' \in {"nodeMetrics", "idle"} /\ UNCHANGED <<running, kMeasured, kSent>>
        /\ kState' = Update(kState, added)
        /\ kGroups' = PodGroups(kGroups, named)
    BY DEF collectPodInventory
  <1>2. running \subseteq DOMAIN PodSpecs
    BY DEF KInv
  <1>3. IsFiniteSet(named)
    <2> DEFINE C == UNION {PodSpecs[p].containers : p \in DOMAIN PodSpecs}
    <2>1. IsFiniteSet((DOMAIN PodSpecs) \X C)
      BY KAssumption, FS_Product
    <2>2. containers \subseteq (DOMAIN PodSpecs) \X C
      BY <1>2
    <2> HIDE DEF containers
    <2>3. named \subseteq (DOMAIN PodSpecs) \X C
      BY <2>2
    <2>4. QED
      BY <2>1, <2>3, FS_Subset
  <1>4. \A x \in named : x = <<x[1], x[2]>>
    OBVIOUS
  <1> HIDE DEF containers, named
  <1>5. \A p, c : ContainerKey(p, c)[1] = "pod" /\ ContainerKey(p, c)[3] = p /\ ContainerKey(p, c)[4] = c
    BY DEF ContainerKey
  <1>6. ASSUME NEW x \in named
        PROVE  ContainerKey(x[1], x[2]) \in keys /\ added[ContainerKey(x[1], x[2])].name = ContainerName(x)
    <2> DEFINE k == ContainerKey(x[1], x[2])
    <2>1. k \in keys /\ <<k[3], k[4]>> = x
      BY <1>4, <1>5
    <2> HIDE DEF k
    <2>2. added[k] = Host(ContainerName(x), calculatePodStatus(k[3]), NoFun)
      BY <2>1
    <2>3. QED
      BY <2>1, <2>2 DEF Host, k
  <1>7. DOMAIN added = keys
    OBVIOUS
  <1>8. /\ NodeKeys(kState) = DOMAIN kState
        /\ \E G : kGroups \in GroupMaps(G, M)
        /\ \A name : Entered(kGroups, name) <=> name \in M
    BY <1>1 DEF KInv, KRound
  <1>9. \A k \in DOMAIN kState : k[1] = "node" /\ kState[k].name \in M
    BY <1>8 DEF NodeKeys, NamesOfNodes
  <1>10. \A k \in keys : k[1] = "pod"
    BY <1>5
  <1>11. \A k \in keys : \E x \in named : added[k].name = ContainerName(x)
    BY <1>6
  <1> HIDE DEF keys, added
  <1>12. /\ DOMAIN kState' = DOMAIN kState \cup keys
         /\ \A k \in keys : kState'[k] = added[k]
         /\ \A k \in DOMAIN kState : k \notin keys => kState'[k] = kState[k]
    BY <1>1, <1>7 DEF Update
  <1>13. \A k \in DOMAIN kState : k \notin keys
    BY <1>9, <1>10
  <1>14. NodeKeys(kState)' = DOMAIN kState
    BY <1>9, <1>10, <1>12 DEF NodeKeys
  <1>15. NamesOfNodes(kState)' = M
    BY <1>8, <1>12, <1>13, <1>14 DEF NamesOfNodes
  <1>16. PICK G : kGroups \in GroupMaps(G, M)
    BY <1>8
  <1> HIDE DEF M
  <1>17. /\ \A name : Entered(kGroups, name) => Entered(kGroups', name)
         /\ \A x \in named : Entered(kGroups', ContainerName(x))
         /\ \A name : name \notin M => EnteredOnce(kGroups', name)
    BY <1>1, <1>3, <1>8, <1>16, PodsListed
  <1>18. ASSUME NEW k \in DOMAIN kState' PROVE Entered(kGroups', kState'[k].name)
    <2>1. CASE k \in keys
      BY <1>11, <1>12, <1>17, <2>1
    <2>2. CASE k \in DOMAIN kState
      BY <1>8, <1>9, <1>12, <1>13, <1>17, <2>2
    <2>3. QED
      BY <1>12, <2>1, <2>2
  <1>19. HostsGrouped(kState, kGroups)'
    BY <1>15, <1>17, <1>18 DEF HostsGrouped
  <1>20. kMeasured' = {}
    BY <1>1 DEF KInv, KRound
  <1>21. KRound'
    BY <1>1, <1>19, <1>20 DEF KRound
  <1>22. KSentOK'
    BY <1>1, <1>20, KSentStays DEF KInv
  <1>23. QED
    BY <1>1, <1>2, <1>21, <1>22 DEF KInv

(* Hosts keep their names and groups when they get services.               *)
LEMMA KNamesKept ==
    ASSUME HostsGrouped(kState, kGroups), UNCHANGED kGroups, DOMAIN kState' = DOMAIN kState,
           \A k \in DOMAIN kState : kState'[k].name = kState[k].name
    PROVE  HostsGrouped(kState, kGroups)'
  <1>1. NamesOfNodes(kState)' = NamesOfNodes(kState)
    BY DEF NamesOfNodes, NodeKeys
  <1>2. QED
    BY <1>1 DEF HostsGrouped

(* The metrics of the nodes become services of hosts that keep their       *)
(* names.                                                                  *)
LEMMA KNodeMetrics ==
    ASSUME KInv, collectNodeMetrics
    PROVE  KInv'
  <1>1. kPhase = "nodeMetrics" /\ kPhase' = "podMetrics" /\ UNCHANGED <<running, kGroups, kMeasured, kSent>>
    BY DEF collectNodeMetrics
  <1>2. HostsGrouped(kState, kGroups) /\ kMeasured = {}
    BY <1>1 DEF KInv, KRound
  <1>3. \A h, ss : ServedBy(h, ss).name = h.name
    BY DEF ServedBy, Host
  <1>4. DOMAIN kState' = DOMAIN kState /\ \A k \in DOMAIN kState : kState'[k].name = kState[k].name
    <2>1. CASE UNCHANGED kState
      BY <2>1
    <2>2. CASE kState' = [k \in DOMAIN kState |-> IF k[1] = "node" /\ "cpu" \in NodeViews
                        THEN ServedBy(kState[k], Update(kState[k].services, [x \in {"cpu"} |-> Service(<<"usage">>)]))
                        ELSE kState[k]]
      BY <1>3, <2>2
    <2>3. QED
      BY <2>1, <2>2 DEF collectNodeMetrics
  <1>5. HostsGrouped(kState, kGroups)'
    BY <1>1, <1>2, <1>4, KNamesKept
  <1>6. KRound'
    BY <1>1, <1>2, <1>5 DEF KRound
  <1>7. KSentOK'
    BY <1>1, KSentStays DEF KInv
  <1>8. QED
    BY <1>1, <1>6, <1>7 DEF KInv

(* The metrics of the containers become services of hosts that keep their  *)
(* names, with the metrics of each container among those of its own.       *)
LEMMA KPodMetrics ==
    ASSUME KInv, collectPodMetricsPerContainer
    PROVE  KInv'
  <1>1. kPhase = "podMetrics" /\ kPhase' = "send" /\ UNCHANGED <<running, kGroups, kSent>>
    BY DEF collectPodMetricsPerContainer
  <1>2. HostsGrouped(kState, kGroups) /\ kMeasured = {}
    BY <1>1 DEF KInv, KRound
  <1>3. \A h, ss : ServedBy(h, ss).name = h.name /\ ServedBy(h, ss).services = ss
    BY DEF ServedBy, Host
  <1> DEFINE measured == {k \in DOMAIN kState : k[1] = "pod" /\ k[3] \in running}
             order == SetToSeq(measured)
             first(i) == LET same == {j \in DOMAIN order : kState[order[j]].name = kState[order[i]].name}
                         IN  IF Min(same) = i THEN <<>> ELSE <<order[Min(same)]>>
             service(k) == LET i == CHOOSE i \in DOMAIN order : order[i] = k IN ReplicaService(first(i), k)
  <1>4. ASSUME NEW k PROVE k \in ToSet(service(k).metrics)
    <2> DEFINE i == CHOOSE i \in DOMAIN order : order[i] = k
    <2>1. service(k) = ReplicaService(first(i), k)
      OBVIOUS
    <2>2. \E x : first(i) \in {<<>>, <<x>>}
      OBVIOUS
    <2> HIDE DEF service, first
    <2>3. service(k).metrics = Append(first(i), k)
      BY <2>1 DEF ReplicaService, Service
    <2>4. PICK x : first(i) \in {<<>>, <<x>>}
      BY <2>2
    <2> HIDE DEF i
    <2>5. CASE first(i) = <<>>
      <3>1. service(k).metrics = <<k>>
        BY <2>3, <2>5
      <3>2. QED
        BY <3>1 DEF ToSet
    <2>6. CASE first(i) = <<x>>
      <3> DEFINE one == <<x>>
      <3>1. one \in Seq({x, k}) /\ Len(one) = 1
        OBVIOUS
      <3> HIDE DEF one
      <3> DEFINE both == {x, k}
      <3>2. k \in both /\ one \in Seq(both)
        BY <3>1
      <3> HIDE DEF both
      <3>3. /\ Append(one, k) \in Seq(both)
            /\ Len(Append(one, k)) = Len(one) + 1
            /\ Append(one, k)[Len(one) + 1] = k
        BY <3>2, AppendProperties
      <3>4. Append(one, k) \in Seq(both) /\ Len(Append(one, k)) = 2 /\ Append(one, k)[2] = k
        BY <3>1, <3>3
      <3>5. k \in ToSet(Append(one, k))
        BY <3>4 DEF ToSet
      <3>6. QED
        BY <2>3, <2>6, <3>5 DEF one
    <2>7. QED
      BY <2>4, <2>5, <2>6
  <1>5. CASE UNCHANGED <<kState, kMeasured>>
    <2>1. HostsGrouped(kState, kGroups)'
      BY <1>1, <1>2, <1>5 DEF HostsGrouped, NamesOfNodes, NodeKeys
    <2>2. KRound'
      BY <1>1, <1>2, <1>5, <2>1 DEF KRound
    <2>3. KSentOK'
      BY <1>1, KSentStays DEF KInv
    <2>4. QED
      BY <1>1, <2>2, <2>3 DEF KInv
  <1>6. CASE /\ kMeasured' = measured
             /\ kState' = [k \in DOMAIN kState |-> IF k \in measured
                            THEN ServedBy(kState[k], [v \in PodViews |-> service(k)])
                            ELSE kState[k]]
    <2> HIDE DEF service, measured
    <2>1. DOMAIN kState' = DOMAIN kState /\ \A k \in DOMAIN kState : kState'[k].name = kState[k].name
      BY <1>3, <1>6
    <2>2. HostsGrouped(kState, kGroups)'
      BY <1>1, <1>2, <2>1, KNamesKept
    <2>3. ASSUME NEW k \in kMeasured' \cap DOMAIN kState' PROVE OwnReported(kState', k)
      <3>1. kState'[k] = ServedBy(kState[k], [v \in PodViews |-> service(k)])
        BY <1>6, <2>1, <2>3
      <3>2. kState'[k].services = [v \in PodViews |-> service(k)]
        BY <1>3, <3>1
      <3>3. QED
        BY <1>4, <3>2 DEF OwnReported
    <2>4. KRound'
      BY <1>1, <2>2, <2>3 DEF KRound
    <2>5. KSentOK'
      BY <1>1, KSentStays DEF KInv
    <2>6. QED
      BY <1>1, <2>4, <2>5 DEF KInv
  <1>7. QED
    BY <1>5, <1>6, Zenon DEF collectPodMetricsPerContainer

(* The round is sent as it was collected.                                  *)
LEMMA KSends ==
    ASSUME KInv, KSend
    PROVE  KInv'
  <1>1. kPhase = "send" /\ kPhase' = "idle" /\ UNCHANGED <<running, kMeasured>>
    BY DEF KSend
  <1>2. PICK sent : kSent' = <<sent>> /\ sent.monitored = kState /\ sent.groups = kGroups
    BY DEF KSend
  <1>3. ToSet(kSent') = {sent}
    BY <1>2 DEF ToSet
  <1>4. HostsGrouped(kState, kGroups) /\ \A k \in kMeasured \cap DOMAIN kState : OwnReported(kState, k)
    BY <1>1 DEF KInv, KRound
  <1>5. KSentOK'
    BY <1>1, <1>2, <1>3, <1>4 DEF KSentOK
  <1>6. KRound'
    BY <1>1 DEF KRound
  <1>7. QED
    BY <1>1, <1>5, <1>6 DEF KInv

(* Every step of the connector keeps the invariant.                        *)
LEMMA KStep ==
    ASSUME KInv, [KNext]_kVars
    PROVE  KInv'
  <1>1. CASE KConfigHandler
    <2>1. kSent' = <<>> /\ UNCHANGED <<running, kPhase, kState, kGroups, kMeasured>>
      BY <1>1 DEF KConfigHandler
    <2>2. ToSet(kSent') = {}
      BY <2>1 DEF ToSet
    <2>3. KRound'
      BY <2>1 DEF KInv, KRound, NodeKeys, NamesOfNodes, HostsGrouped, OwnReported
    <2>4. QED
      BY <2>1, <2>2, <2>3 DEF KInv, KSentOK
  <1>2. CASE Initialize
    BY <1>2 DEF Initialize, KInv, KRound, KSentOK, NodeKeys, NamesOfNodes, HostsGrouped
  <1>3. CASE Churn
    <2>1. running' \subseteq DOMAIN PodSpecs
      BY <1>3 DEF Churn, KInv
    <2>2. UNCHANGED <<kPhase, kState, kGroups, kMeasured, kSent>>
      BY <1>3 DEF Churn
    <2>3. KRound'
      BY <2>2 DEF KInv, KRound, NodeKeys, NamesOfNodes, HostsGrouped, OwnReported
    <2>4. KSentOK'
      BY <2>2 DEF KInv, KSentOK
    <2>5. QED
      BY <2>1, <2>3, <2>4 DEF KInv
  <1>4. CASE buildNodeReservationMap
    <2>1. kPhase' = "nodes" /\ kMeasured' = {} /\ UNCHANGED <<running, kSent>>
      BY <1>4 DEF buildNodeReservationMap
    <2>2. KRound'
      BY <2>1 DEF KRound
    <2>3. KSentOK'
      BY <2>1, KSentStays DEF KInv
    <2>4. QED
      BY <2>1, <2>2, <2>3 DEF KInv
  <1>7. CASE NoApi
    <2>1. /\ kPhase' = "idle" /\ kPhase \in {"pods", "nodeMetrics", "podMetrics"}
          /\ UNCHANGED <<running, kMeasured, kSent>>
      BY <1>7 DEF NoApi
    <2>2. kMeasured' = {}
      BY <2>1 DEF KInv, KRound
    <2>3. KSentOK'
      BY <2>1, <2>2, KSentStays DEF KInv
    <2>4. QED
      BY <2>1, <2>3 DEF KInv, KRound
  <1>5. CASE UNCHANGED kVars
    BY <1>5 DEF kVars, KInv, KRound, KSentOK, NodeKeys, NamesOfNodes, HostsGrouped, OwnReported
  <1>6. QED
    BY <1>1, <1>2, <1>3, <1>4, <1>5, <1>7, KNodes, KPods, KNodeMetrics, KPodMetrics, KSends DEF KNext

(* For any cluster, mappings and changes of the cluster during a round:    *)
(* every host that is sent is in a group, one made of containers in one    *)
(* only, and the metrics of every replica are sent (k8s.go: Collect and    *)
(* the collect functions).                                                 *)
THEOREM ReplicasAreGrouped == KSpec => []ReplicasGrouped
  <1>1. KInit => KInv
    BY KInitial
  <1>2. KInv /\ [KNext]_kVars => KInv'
    BY KStep
  <1>3. KInv => ReplicasGrouped
    BY KInvSuffices
  <1>4. QED
    BY <1>1, <1>2, <1>3, PTL DEF KSpec

-----------------------------------------------------------------------------
(* Snmp *)

(* Counters are numbers.                                                   *)
CountsNumbers(iface) == \A m \in DOMAIN iface.metrics : iface.metrics[m] \in Int
SnNumbers(devs) == \A d \in DOMAIN devs : \A i \in DOMAIN devs[d].interfaces : CountsNumbers(devs[d].interfaces[i])

(* A cached value is what its deltas began with and their sum.             *)
AddsUp(ck) ==
    /\ ck \in DOMAIN snBase /\ ck \in DOMAIN snSum
    /\ snBase[ck] \in Int /\ snSum[ck] \in Int /\ previousValueCache[ck].value \in Int
    /\ ck \notin snLost => previousValueCache[ck].value = snBase[ck] + snSum[ck]
SnAddsUp == \A ck \in DOMAIN previousValueCache : AddsUp(ck)

(* The checksum is that of the inventory that was sent.                    *)
SnAnnounced == ~snDoubt => snSent \subseteq snInventory /\ snChksum \in {<<>>, <<snInventory>>}

SnFuns ==
    /\ DOMAIN snPhase = SnRounds /\ DOMAIN snFound = SnRounds /\ DOMAIN snConf = SnRounds /\ DOMAIN snTodo = SnRounds
    /\ DOMAIN snRange = SnRounds /\ DOMAIN snAt = SnRounds /\ DOMAIN snIn = SnRounds /\ DOMAIN snBuilt = SnRounds

SnShared == SnFuns /\ SnNumbers(devices) /\ SnAddsUp /\ SnAnnounced

(* A round between Get and SetDefault: what it read is what is cached, if  *)
(* it runs alone.                                                          *)
CkAt(r) == makeCK(snAt[r].name, snIn[r].name, snIn[r].mib)
HasRead(r) ==
    /\ snIn[r].mib \in DOMAIN snIn[r].metrics /\ snIn[r].prev \subseteq Int
    /\ snIn[r].prev # {} => CkAt(r) \in DOMAIN previousValueCache
    /\ r \notin snMixed => \A p \in snIn[r].prev : previousValueCache[CkAt(r)].value = p

(* What a round holds.                                                     *)
Serving == {"services", "interface", "metric"}
SnRound(r) ==
    /\ snPhase[r] \in {"idle", "devices", "interfaces"} \cup Serving
    /\ snPhase[r] \notin Serving => snBuilt[r] = {} /\ snAt[r].left = {}
    /\ snRange[r] # <<>> => SnNumbers(snRange[r][1])
    /\ (\A i \in snAt[r].left : CountsNumbers(i)) /\ CountsNumbers(snIn[r])
    /\ snPhase[r] \notin {"idle", "devices"} => snTodo[r] \subseteq DOMAIN Ranged(r)
    /\ snPhase[r] = "metric" => HasRead(r)

(* What a round that runs alone built and what it still visits are all the *)
(* interfaces.                                                             *)
LeftNames(r) == {<<snAt[r].name, i.name>> : i \in snAt[r].left}
InName(r) == IF snPhase[r] = "services" THEN {} ELSE {<<snAt[r].name, snIn[r].name>>}
IfNames(devs, d) == {<<d, devs[d].interfaces[i].name>> : i \in DOMAIN devs[d].interfaces}
TodoNames(r) == UNION {IfNames(devices, d) : d \in snTodo[r]}
SnVisits(r) ==
    snPhase[r] \in Serving /\ r \notin snMixed =>
        /\ snRange[r] = <<>>
        /\ snBuilt[r] \cup InName(r) \cup LeftNames(r) \cup TodoNames(r) = snmpInventoryHashSum(devices)

SnInv ==
    /\ SnShared
    /\ SnOverlap \subseteq snMixed
    /\ \A r \in SnRounds : SnRound(r) /\ SnVisits(r)

(* A step after which nothing mixed is forgotten.                          *)
SnMixes == snMixed' = (snMixed \cap SnActive') \cup SnOverlap'

(* What a round leaves alone: another one may only meet a device that is   *)
(* new, and nothing is changed by a round that ends.                       *)
SnElse(r) ==
    /\ \A s \in SnRounds : s # r =>
        /\ snPhase'[s] = snPhase[s] /\ snAt'[s] = snAt[s] /\ snIn'[s] = snIn[s] /\ snBuilt'[s] = snBuilt[s]
        /\ snRange'[s] = snRange[s]
        /\ \/ snTodo'[s] = snTodo[s]
           \/ snRange[s] = <<>> /\ snTodo'[s] \subseteq snTodo[s] \cup DOMAIN devices' /\ snPhase'[r] # "idle"
    /\ DOMAIN devices \subseteq DOMAIN devices'
    /\ DOMAIN previousValueCache \subseteq DOMAIN previousValueCache'
    /\ snPhase'[r] = "idle" => UNCHANGED <<devices, previousValueCache>>

(* The connector starts without devices and with nothing cached.           *)
LEMMA SnInitial == SnInit => SnInv
  <1> SUFFICES ASSUME SnInit PROVE SnInv
    OBVIOUS
  <1>0. DOMAIN Empty = {}
    BY DEF Empty
  <1>1. DOMAIN devices = {} /\ DOMAIN previousValueCache = {}
    BY <1>0 DEF SnInit
  <1>2. SnNumbers(devices) /\ SnAddsUp /\ SnAnnounced
    BY <1>1 DEF SnNumbers, SnAddsUp, SnAnnounced, SnInit
  <1>3. SnFuns
    BY DEF SnInit, SnFuns
  <1>4. SnOverlap = {}
    BY DEF SnInit, SnOverlap, SnActive
  <1>5. ASSUME NEW r \in SnRounds PROVE SnRound(r) /\ SnVisits(r)
    <2>1. /\ snPhase[r] = "idle" /\ snBuilt[r] = {} /\ snRange[r] = <<>> /\ snAt[r] = NoDevice /\ snIn[r] = NoInterface
      BY DEF SnInit
    <2>2. NoDevice.left = {} /\ NoInterface.metrics = Empty
      BY DEF NoDevice, NoInterface, At, In
    <2>3. QED
      BY <1>0, <2>1, <2>2 DEF SnRound, SnVisits, CountsNumbers, Serving
  <1>6. QED
    BY <1>2, <1>3, <1>4, <1>5 DEF SnInv, SnShared

(* The other rounds, while one takes a step.                               *)
LEMMA SnOthers ==
    ASSUME SnInv, NEW r \in SnRounds, SnElse(r), SnMixes, NEW s \in SnRounds, s # r
    PROVE  SnRound(s)' /\ SnVisits(s)'
  <1>1. /\ snPhase'[s] = snPhase[s] /\ snAt'[s] = snAt[s] /\ snIn'[s] = snIn[s] /\ snBuilt'[s] = snBuilt[s]
        /\ snRange'[s] = snRange[s]
        /\ \/ snTodo'[s] = snTodo[s]
           \/ snRange[s] = <<>> /\ snTodo'[s] \subseteq snTodo[s] \cup DOMAIN devices' /\ snPhase'[r] # "idle"
    BY DEF SnElse
  <1>2. SnRound(s) /\ SnVisits(s)
    BY DEF SnInv
  <1>3. ASSUME snPhase[s] # "idle", s \notin snMixed'
        PROVE  s \notin snMixed /\ snPhase'[r] = "idle"
    <2>1. s \in SnActive'
      BY <1>1, <1>3 DEF SnActive
    <2>2. s \notin SnOverlap' /\ s \notin snMixed
      BY <1>3, <2>1 DEF SnMixes
    <2>3. r \notin SnActive'
      BY <2>1, <2>2 DEF SnOverlap
    <2>4. QED
      BY <2>2, <2>3 DEF SnActive
  <1>4. ASSUME snPhase[s] \notin {"idle", "devices"} PROVE snTodo'[s] \subseteq DOMAIN Ranged(s)'
    <2>1. snTodo[s] \subseteq DOMAIN Ranged(s)
      BY <1>2, <1>4 DEF SnRound
    <2>2. DOMAIN devices \subseteq DOMAIN devices'
      BY DEF SnElse
    <2>3. QED
      BY <1>1, <2>1, <2>2 DEF Ranged
  <1>5. snPhase[s] = "metric" => HasRead(s)'
    <2> SUFFICES ASSUME snPhase[s] = "metric" PROVE HasRead(s)'
      OBVIOUS
    <2>1. HasRead(s)
      BY <1>2 DEF SnRound
    <2>2. CkAt(s)' = CkAt(s)
      BY <1>1 DEF CkAt
    <2>3. DOMAIN previousValueCache \subseteq DOMAIN previousValueCache'
      BY DEF SnElse
    <2>4. s \notin snMixed' => s \notin snMixed /\ UNCHANGED previousValueCache
      BY <1>3 DEF SnElse
    <2>5. QED
      BY <1>1, <2>1, <2>2, <2>3, <2>4 DEF HasRead
  <1>6. SnRound(s)'
    <2>1. SnNumbers(snRange[s][1])' = SnNumbers(snRange'[s][1])
      BY DEF SnNumbers, CountsNumbers
    <2>2. CountsNumbers(snIn[s])' = CountsNumbers(snIn'[s])
      BY DEF CountsNumbers
    <2>3. (\A i \in snAt[s].left : CountsNumbers(i))' <=> \A i \in snAt'[s].left : CountsNumbers(i)
      BY DEF CountsNumbers
    <2>4. QED
      BY <1>1, <1>2, <1>4, <1>5, <2>1, <2>2, <2>3 DEF SnRound
  <1>7. SnVisits(s)'
    <2> SUFFICES ASSUME snPhase[s] \in Serving, s \notin snMixed'
                 PROVE  /\ snRange'[s] = <<>>
                        /\ (snBuilt[s] \cup InName(s) \cup LeftNames(s) \cup TodoNames(s) = snmpInventoryHashSum(devices))'
      BY <1>1 DEF SnVisits, Serving
    <2>1. s \notin snMixed /\ snPhase'[r] = "idle"
      BY <1>3 DEF Serving
    <2>2. UNCHANGED devices /\ snTodo'[s] = snTodo[s]
      BY <1>1, <2>1 DEF SnElse
    <2>3. InName(s)' = InName(s) /\ LeftNames(s)' = LeftNames(s)
      BY <1>1 DEF InName, LeftNames
    <2>4. TodoNames(s)' = TodoNames(s)
      BY <2>2 DEF TodoNames, IfNames
    <2>5. snmpInventoryHashSum(devices)' = snmpInventoryHashSum(devices)
      BY <2>2 DEF snmpInventoryHashSum
    <2>6. QED
      BY <1>1, <1>2, <2>1, <2>3, <2>4, <2>5 DEF SnVisits
  <1>8. QED
    BY <1>6, <1>7

(* A step of a round keeps the invariant if it keeps the round's part.     *)
LEMMA SnRoundKeeps ==
    ASSUME SnInv, NEW r \in SnRounds, SnElse(r), SnMixes, SnShared', SnRound(r)', SnVisits(r)'
    PROVE  SnInv'
  <1>1. (SnOverlap \subseteq snMixed)'
    BY DEF SnMixes
  <1>2. ASSUME NEW s \in SnRounds PROVE SnRound(s)' /\ SnVisits(s)'
    BY SnOthers
  <1>3. QED
    BY <1>1, <1>2 DEF SnInv

(* What is not touched stays.                                              *)
LEMMA SnKept ==
    ASSUME SnInv
    PROVE  /\ UNCHANGED devices => SnNumbers(devices)'
           /\ UNCHANGED snCounted => SnAddsUp'
           /\ UNCHANGED snSends => SnAnnounced'
  <1>1. ASSUME UNCHANGED devices PROVE SnNumbers(devices)'
    BY <1>1 DEF SnInv, SnShared, SnNumbers, CountsNumbers
  <1>2. ASSUME UNCHANGED snCounted PROVE SnAddsUp'
    BY <1>2 DEF SnInv, SnShared, SnAddsUp, AddsUp, snCounted
  <1>3. ASSUME UNCHANGED snSends PROVE SnAnnounced'
    BY <1>3 DEF SnInv, SnShared, SnAnnounced, snSends
  <1>4. QED
    BY <1>1, <1>2, <1>3

(* A round that ends holds nothing.                                        *)
LEMMA SnEnds ==
    ASSUME SnInv, NEW r \in SnRounds, EndRound(r), UNCHANGED <<devices, previousValueCache>>
    PROVE  SnElse(r) /\ SnFuns' /\ SnRound(r)' /\ SnVisits(r)'
  <1>1. SnFuns
    BY DEF SnInv, SnShared
  <1>2. SnFuns' /\ SnElse(r)
    BY <1>1 DEF EndRound, Set, SnFuns, SnElse
  <1>3. /\ snPhase'[r] = "idle" /\ snBuilt'[r] = {} /\ snRange'[r] = <<>> /\ snAt'[r] = NoDevice
        /\ snIn'[r] = NoInterface
    BY <1>1 DEF EndRound, Set, SnFuns
  <1>4. NoDevice.left = {} /\ NoInterface.metrics = Empty /\ DOMAIN Empty = {}
    BY DEF NoDevice, NoInterface, At, In, Empty
  <1>5. SnRound(r)' /\ SnVisits(r)'
    BY <1>3, <1>4 DEF SnRound, SnVisits, CountsNumbers, Serving
  <1>6. QED
    BY <1>2, <1>5

(* Rounds while a configuration is handled: those that run are mixed.      *)
LEMMA SnHandled ==
    ASSUME SnInv, SnMixes, snHandler # <<>> \/ snHandler' # <<>>, NEW s \in SnRounds,
           UNCHANGED <<snPhase, snTodo, snAt, snIn, snBuilt, previousValueCache>>,
           snRange'[s] = snRange[s] \/ (snRange'[s] = <<devices>>),
           snPhase[s] \notin {"idle", "devices"} => Ranged(s)' = Ranged(s)
    PROVE  SnRound(s)' /\ SnVisits(s)'
  <1>1. SnRound(s) /\ SnNumbers(devices)
    BY DEF SnInv, SnShared
  <1>2. ASSUME snPhase[s] # "idle" PROVE s \in snMixed'
    <2>1. s \in SnActive /\ s \in SnActive'
      BY <1>2 DEF SnActive
    <2>2. CASE snHandler # <<>>
      BY <2>1, <2>2 DEF SnInv, SnOverlap, SnMixes
    <2>3. CASE snHandler' # <<>>
      BY <2>1, <2>3 DEF SnOverlap, SnMixes
    <2>4. QED
      BY <2>2, <2>3
  <1>3. SnVisits(s)'
    BY <1>2 DEF SnVisits, Serving
  <1>4. snPhase[s] = "metric" => HasRead(s)'
    BY <1>1, <1>2 DEF SnRound, HasRead, CkAt
  <1>5. snRange'[s] # <<>> => SnNumbers(snRange'[s][1])
    <2>1. CASE snRange'[s] = snRange[s]
      BY <1>1, <2>1 DEF SnRound
    <2>2. CASE snRange'[s] = <<devices>>
      BY <1>1, <2>2
    <2>3. QED
      BY <2>1, <2>2
  <1>6. /\ SnNumbers(snRange[s][1])' = SnNumbers(snRange'[s][1])
        /\ CountsNumbers(snIn[s])' = CountsNumbers(snIn'[s])
        /\ (\A i \in snAt[s].left : CountsNumbers(i))' <=> \A i \in snAt'[s].left : CountsNumbers(i)
    BY DEF SnNumbers, CountsNumbers
  <1>7. SnRound(s)'
    BY <1>1, <1>4, <1>5, <1>6 DEF SnRound
  <1>8. QED
    BY <1>3, <1>7

(* configHandler: a round goes on with the map it has.                     *)
LEMMA SnConfigures ==
    ASSUME SnInv, SnMixes, (\E c \in SnmpConfigs : LoadConfig(c)) \/ InitState \/ ForceInventory
    PROVE  SnInv'
  <1>1. /\ snHandler # <<>> \/ snHandler' # <<>>
        /\ UNCHANGED <<snPhase, snFound, snConf, snTodo, snAt, snIn, snBuilt, snCounted, previousValueCache>>
        /\ UNCHANGED <<devices, snRange>> \/ InitState
    BY DEF LoadConfig, InitState, ForceInventory, snCounted
  <1>2. (SnOverlap \subseteq snMixed)'
    BY DEF SnMixes
  <1>3. SnFuns' /\ SnAddsUp'
    BY <1>1, SnKept DEF SnInv, SnShared, SnFuns, InitState
  <1>4. SnAnnounced'
    BY DEF SnInv, SnShared, SnAnnounced, LoadConfig, InitState, ForceInventory, snSends
  <1>5. SnNumbers(devices)'
    <2>1. CASE InitState
      <3>1. DOMAIN devices' = {}
        BY <2>1 DEF InitState, Empty
      <3>2. QED
        BY <3>1 DEF SnNumbers
    <2>2. QED
      BY <1>1, <2>1, SnKept
  <1>6. ASSUME NEW s \in SnRounds PROVE SnRound(s)' /\ SnVisits(s)'
    <2>1. /\ snRange'[s] = snRange[s] \/ snRange'[s] = <<devices>>
          /\ snPhase[s] \notin {"idle", "devices"} => Ranged(s)' = Ranged(s)
      <3>1. CASE UNCHANGED <<devices, snRange>>
        BY <3>1 DEF Ranged
      <3>2. CASE InitState
        BY <3>2 DEF InitState, Ranging, Ranged
      <3>3. QED
        BY <1>1, <3>1, <3>2
    <2>2. QED
      BY <1>1, <2>1, SnHandled
  <1>7. QED
    BY <1>2, <1>3, <1>4, <1>5, <1>6 DEF SnInv, SnShared

(* A tick.                                                                 *)
LEMMA SnCollects ==
    ASSUME SnInv, SnMixes, NEW r \in SnRounds, CollectMetrics(r)
    PROVE  SnInv'
  <1>1. /\ snPhase[r] = "idle" /\ UNCHANGED <<devices, snCounted, snSends, previousValueCache>>
        /\ \/ EndRound(r)
           \/ /\ snPhase' = Set(snPhase, r, "devices") /\ \E found : snFound' = Set(snFound, r, found)
              /\ UNCHANGED <<snConf, snTodo, snRange, snAt, snIn, snBuilt>>
    <2>1. snPhase[r] = "idle" /\ UNCHANGED <<devices, snCounted, snSends, previousValueCache>>
      BY DEF CollectMetrics, snCounted
    <2>2. PICK mon \in NediReplies.monitoring, dev \in NediReplies.devices :
            LET monitored == getMonitoredDevices(mon)
                rows == IF monitored = {} THEN {} ELSE parseDevices(dev, monitored)
            IN  IF \/ ~getConnectionString \/ ~executeGet(mon) \/ MonitoredPanics(mon)
                   \/ monitored # {} /\ (~executeGet(dev) \/ ParsePanics(dev))
                THEN EndRound(r)
                ELSE /\ snPhase' = Set(snPhase, r, "devices")
                     /\ snFound' = Set(snFound, r, {[name |-> row.device, secData |-> GetSecurityData(row.readcomm)] : row \in rows})
                     /\ UNCHANGED <<snConf, snTodo, snRange, snAt, snIn, snBuilt>>
      BY Zenon DEF CollectMetrics
    <2>3. QED
      BY <2>1, <2>2, Zenon
  <1>2. SnNumbers(devices)' /\ SnAddsUp' /\ SnAnnounced'
    BY <1>1, SnKept
  <1>3. CASE EndRound(r)
    BY <1>1, <1>2, <1>3, SnEnds, SnRoundKeeps DEF SnShared
  <1>4. CASE /\ snPhase' = Set(snPhase, r, "devices") /\ \E found : snFound' = Set(snFound, r, found)
             /\ UNCHANGED <<snConf, snTodo, snRange, snAt, snIn, snBuilt>>
    <2>1. SnFuns /\ SnRound(r)
      BY DEF SnInv, SnShared
    <2>2. SnFuns' /\ SnElse(r)
      BY <1>1, <1>4, <2>1 DEF Set, SnFuns, SnElse
    <2>3. snPhase'[r] = "devices"
      BY <1>4, <2>1 DEF Set, SnFuns
    <2>4. /\ SnNumbers(snRange[r][1])' = SnNumbers(snRange'[r][1])
          /\ CountsNumbers(snIn[r])' = CountsNumbers(snIn'[r])
          /\ (\A i \in snAt[r].left : CountsNumbers(i))' <=> \A i \in snAt'[r].left : CountsNumbers(i)
      BY DEF SnNumbers, CountsNumbers
    <2>5. SnRound(r)' /\ SnVisits(r)'
      BY <1>1, <1>4, <2>1, <2>3, <2>4 DEF SnRound, SnVisits, Serving
    <2>6. QED
      BY <1>2, <2>2, <2>5, SnRoundKeeps DEF SnShared
  <1>5. QED
    BY <1>1, <1>3, <1>4

(* What is said of the numbers of a round after a step.                    *)
LEMMA SnPrimed ==
    ASSUME NEW r
    PROVE  /\ SnNumbers(snRange[r][1])' = SnNumbers(snRange'[r][1])
           /\ CountsNumbers(snIn[r])' = CountsNumbers(snIn'[r])
           /\ (\A i \in snAt[r].left : CountsNumbers(i))' <=> \A i \in snAt'[r].left : CountsNumbers(i)
  BY DEF SnNumbers, CountsNumbers

(* A device is written to the map.                                         *)
LEMMA SnStores ==
    ASSUME NEW d, NEW device, NEW todo, Store(d, device, todo), SnNumbers(devices),
           \A i \in DOMAIN device.interfaces : CountsNumbers(device.interfaces[i])
    PROVE  /\ SnNumbers(devices)' /\ DOMAIN devices' = DOMAIN devices \cup {d}
           /\ \A s \in SnRounds : snTodo'[s] = todo[s] \/ (snRange[s] = <<>> /\ snTodo'[s] = todo[s] \cup {d})
           /\ DOMAIN snTodo' = SnRounds
  <1>1. /\ DOMAIN devices' = DOMAIN devices \cup {d} /\ devices'[d] = device
        /\ \A e \in DOMAIN devices : e # d => devices'[e] = devices[e]
    BY DEF Store, Put
  <1>2. SnNumbers(devices')
    BY <1>1 DEF SnNumbers
  <1>3. SnNumbers(devices)' = SnNumbers(devices')
    BY DEF SnNumbers, CountsNumbers
  <1>4. PICK met \in SUBSET Ranging : snTodo' = [r \in SnRounds |-> IF r \in met THEN todo[r] \cup {d} ELSE todo[r]]
    BY DEF Store
  <1>5. QED
    BY <1>1, <1>2, <1>3, <1>4 DEF Ranging

(* A device of NeDi comes without interfaces.                              *)
LEMMA SnAdds ==
    ASSUME SnInv, SnMixes, NEW r \in SnRounds, NEW found, AddDevice(r, found)
    PROVE  SnInv'
  <1>1. /\ snPhase[r] = "devices" /\ Store(found.name, Device(Empty, found.secData), snTodo)
        /\ snFound' = Set(snFound, r, snFound[r] \ {found})
        /\ UNCHANGED <<snCounted, snSends, snPhase, snConf, snRange, snAt, snIn, snBuilt, previousValueCache>>
    BY DEF AddDevice, snCounted
  <1>2. SnFuns /\ SnRound(r) /\ SnNumbers(devices)
    BY DEF SnInv, SnShared
  <1>3. \A i \in DOMAIN Device(Empty, found.secData).interfaces : CountsNumbers(Device(Empty, found.secData).interfaces[i])
    BY DEF Device, Empty
  <1> DEFINE device == Device(Empty, found.secData)
             d == found.name
  <1> HIDE DEF device, d
  <1>4. /\ SnNumbers(devices)' /\ DOMAIN devices' = DOMAIN devices \cup {d}
        /\ \A s \in SnRounds : snTodo'[s] = snTodo[s] \/ (snRange[s] = <<>> /\ snTodo'[s] = snTodo[s] \cup {d})
        /\ DOMAIN snTodo' = SnRounds
    <2>1. Store(d, device, snTodo) /\ \A i \in DOMAIN device.interfaces : CountsNumbers(device.interfaces[i])
      BY <1>1, <1>3 DEF d, device
    <2>2. QED
      BY <1>2, <2>1, SnStores
  <1>5. SnFuns'
    BY <1>1, <1>2, <1>4 DEF SnFuns, Set
  <1>6. SnElse(r)
    BY <1>1, <1>2, <1>4 DEF SnElse, SnFuns
  <1>7. SnAddsUp' /\ SnAnnounced'
    BY <1>1, SnKept
  <1>8. SnRound(r)' /\ SnVisits(r)'
    BY <1>1, <1>2, SnPrimed DEF SnRound, SnVisits, Serving
  <1>9. QED
    BY <1>4, <1>5, <1>6, <1>7, <1>8, SnRoundKeeps DEF SnShared

(* The names a round visits when it begins to are all of them.             *)
LEMMA SnAllNames == UNION {IfNames(devices, d) : d \in DOMAIN devices} = snmpInventoryHashSum(devices)
  BY DEF IfNames, snmpInventoryHashSum

(* A round begins to range over the devices.                               *)
LEMMA SnRanges ==
    ASSUME SnInv, SnMixes, NEW r \in SnRounds, snPhase[r] \in {"devices", "interfaces"},
           NEW phase \in {"interfaces", "services"}, RangeOver(r, phase), DOMAIN snConf' = SnRounds
    PROVE  SnInv'
  <1>1. /\ snPhase' = Set(snPhase, r, phase) /\ snTodo' = Set(snTodo, r, DOMAIN devices)
        /\ snRange' = Set(snRange, r, <<>>)
        /\ UNCHANGED <<devices, snCounted, snSends, snFound, snAt, snIn, snBuilt, previousValueCache>>
    BY DEF RangeOver, snCounted
  <1>2. SnFuns /\ SnRound(r)
    BY DEF SnInv, SnShared
  <1>3. SnFuns' /\ SnElse(r)
    BY <1>1, <1>2 DEF SnFuns, Set, SnElse
  <1>4. SnNumbers(devices)' /\ SnAddsUp' /\ SnAnnounced'
    BY <1>1, SnKept
  <1>5. snPhase'[r] = phase /\ snTodo'[r] = DOMAIN devices /\ snRange'[r] = <<>>
    BY <1>1, <1>2 DEF SnFuns, Set
  <1>6. Ranged(r)' = devices
    BY <1>1, <1>5 DEF Ranged
  <1>7. SnRound(r)'
    BY <1>1, <1>2, <1>5, <1>6, SnPrimed DEF SnRound, Serving
  <1>8. SnVisits(r)'
    <2> SUFFICES ASSUME phase = "services"
                 PROVE  (snBuilt[r] \cup InName(r) \cup LeftNames(r) \cup TodoNames(r) = snmpInventoryHashSum(devices))'
      BY <1>5 DEF SnVisits, Serving
    <2>1. snBuilt'[r] = {} /\ snAt'[r].left = {}
      BY <1>1, <1>2 DEF SnRound, Serving
    <2>2. LeftNames(r)' = {} /\ InName(r)' = {}
      BY <1>5, <2>1 DEF LeftNames, InName
    <2>3. TodoNames(r)' = UNION {IfNames(devices, d) : d \in DOMAIN devices}
      BY <1>1, <1>5 DEF TodoNames, IfNames
    <2>4. snmpInventoryHashSum(devices)' = snmpInventoryHashSum(devices)
      BY <1>1 DEF snmpInventoryHashSum
    <2>5. QED
      BY <2>1, <2>2, <2>3, <2>4, SnAllNames
  <1>9. QED
    BY <1>3, <1>4, <1>7, <1>8, SnRoundKeeps DEF SnShared

(* The interfaces that were walked have numbers.                           *)
LEMMA SnWalked ==
    ASSUME NEW indexes, NEW row, NEW data \in GetSnmpData(indexes), NEW i \in indexes
    PROVE  CountsNumbers(Interface(row, data, i))
  <1>1. PICK walked : data \in [walked \X indexes -> Counters]
    BY DEF GetSnmpData
  <1> DEFINE ms == {c[1] : c \in DOMAIN data}
             metrics == [m \in ms |-> data[<<m, i>>]]
  <1>2. Interface(row, data, i).metrics = metrics
    BY DEF Interface
  <1>3. ASSUME NEW m \in ms PROVE data[<<m, i>>] \in Int
    <2>1. m \in walked
      BY <1>1
    <2>2. data[<<m, i>>] \in Counters
      BY <1>1, <2>1
    <2>3. QED
      BY <2>2, SnAssumption
  <1> HIDE DEF ms
  <1>4. DOMAIN metrics = ms /\ \A m \in ms : metrics[m] \in Int
    BY <1>3
  <1> HIDE DEF metrics
  <1>5. QED
    BY <1>2, <1>4 DEF CountsNumbers

(* A device gets its interfaces, with walked counters, or keeps what it    *)
(* has.                                                                    *)
LEMMA SnWalks ==
    ASSUME SnInv, SnMixes, NEW r \in SnRounds, NEW d, collectInterfacesMetrics(r, d)
    PROVE  SnInv'
  <1> DEFINE left == Set(snTodo, r, snTodo[r] \ {d})
             Numbers(device) == \A i \in DOMAIN device.interfaces : CountsNumbers(device.interfaces[i])
  <1>1. /\ snPhase[r] = "interfaces" /\ d \in snTodo[r]
        /\ UNCHANGED <<snCounted, snSends, previousValueCache>>
        /\ \/ EndRound(r) /\ UNCHANGED devices
           \/ /\ \/ snTodo' = left /\ UNCHANGED devices
                 \/ \E device : Numbers(device) /\ Store(d, device, left)
              /\ UNCHANGED <<snPhase, snFound, snConf, snRange, snAt, snIn, snBuilt>>
    <2>1. snPhase[r] = "interfaces" /\ d \in snTodo[r] /\ UNCHANGED <<snCounted, snSends, previousValueCache>>
      BY DEF collectInterfacesMetrics, snCounted
    <2>2. PICK reply \in NediReplies.interfaces :
        LET rows == parseInterfaces(reply)
            row(i) == rows[CHOOSE n \in DOMAIN rows :
                            rows[n].ifidx = i /\ \A m \in DOMAIN rows : rows[m].ifidx = i => m <= n]
            indexes == {x.ifidx : x \in ToSet(rows)}
            left_1 == Set(snTodo, r, snTodo[r] \ {d})
            sec == Ranged(r)[d].secData
        IN  \/ /\ getConnectionString /\ executeGet(reply) /\ ParsePanics(reply)
               /\ EndRound(r) /\ UNCHANGED devices
            \/ /\ ~(getConnectionString /\ executeGet(reply) /\ ParsePanics(reply))
               /\ \/ snTodo' = left_1 /\ UNCHANGED devices
                  \/ /\ getConnectionString /\ executeGet(reply) /\ rows # <<>> /\ \E s \in sec : setup(s)
                     /\ \E data \in GetSnmpData(indexes) :
                            Store(d, Device([i \in indexes |-> Interface(row(i), data, i)], sec), left_1)
               /\ UNCHANGED <<snPhase, snFound, snConf, snRange, snAt, snIn, snBuilt>>
      BY Zenon DEF collectInterfacesMetrics
    <2> DEFINE rows == parseInterfaces(reply)
               row(i) == rows[CHOOSE n \in DOMAIN rows :
                               rows[n].ifidx = i /\ \A m \in DOMAIN rows : rows[m].ifidx = i => m <= n]
               indexes == {x.ifidx : x \in ToSet(rows)}
               sec == Ranged(r)[d].secData
               device(data) == Device([i \in indexes |-> Interface(row(i), data, i)], sec)
    <2>3. \/ EndRound(r) /\ UNCHANGED devices
          \/ /\ \/ snTodo' = left /\ UNCHANGED devices
                \/ \E data \in GetSnmpData(indexes) : Store(d, device(data), left)
             /\ UNCHANGED <<snPhase, snFound, snConf, snRange, snAt, snIn, snBuilt>>
      BY <2>2, Zenon
    <2> HIDE DEF rows, row, indexes, sec
    <2>4. ASSUME NEW data \in GetSnmpData(indexes) PROVE Numbers(device(data))
      <3> DEFINE ifs == [i \in indexes |-> Interface(row(i), data, i)]
      <3>1. DOMAIN ifs = indexes /\ \A i \in indexes : CountsNumbers(ifs[i])
        BY SnWalked
      <3> HIDE DEF ifs
      <3>2. Device(ifs, sec).interfaces = ifs
        BY DEF Device
      <3>3. QED
        BY <3>1, <3>2 DEF ifs
    <2> HIDE DEF device, Numbers, left
    <2>5. QED
      BY <2>1, <2>3, <2>4, Zenon
  <1>2. SnFuns /\ SnRound(r) /\ SnNumbers(devices)
    BY DEF SnInv, SnShared
  <1>3. SnAddsUp' /\ SnAnnounced'
    BY <1>1, SnKept
  <1>4. CASE EndRound(r) /\ UNCHANGED devices
    BY <1>1, <1>3, <1>4, SnEnds, SnKept, SnRoundKeeps DEF SnShared
  <1>5. CASE /\ \/ snTodo' = left /\ UNCHANGED devices
                \/ \E device : Numbers(device) /\ Store(d, device, left)
             /\ UNCHANGED <<snPhase, snFound, snConf, snRange, snAt, snIn, snBuilt>>
    <2>1. /\ DOMAIN left = SnRounds /\ left[r] = snTodo[r] \ {d}
          /\ \A s \in SnRounds : s # r => left[s] = snTodo[s]
      BY <1>2 DEF SnFuns, Set
    <2> HIDE DEF left
    <2>2. /\ SnNumbers(devices)' /\ DOMAIN devices \subseteq DOMAIN devices' /\ DOMAIN snTodo' = SnRounds
          /\ \A s \in SnRounds : snTodo'[s] = left[s] \/ (snRange[s] = <<>> /\ snTodo'[s] \subseteq left[s] \cup DOMAIN devices')
      <3>1. CASE snTodo' = left /\ UNCHANGED devices
        BY <2>1, <3>1, SnKept
      <3>2. ASSUME NEW device, Numbers(device), Store(d, device, left)
            PROVE  /\ SnNumbers(devices)' /\ DOMAIN devices' = DOMAIN devices \cup {d} /\ DOMAIN snTodo' = SnRounds
                   /\ \A s \in SnRounds : snTodo'[s] = left[s] \/ (snRange[s] = <<>> /\ snTodo'[s] = left[s] \cup {d})
        <4>1. SnNumbers(devices) /\ \A i \in DOMAIN device.interfaces : CountsNumbers(device.interfaces[i])
          BY <1>2, <3>2
        <4>2. Store(d, device, left)
          BY <3>2
        <4>3. QED
          BY <4>1, <4>2, SnStores
      <3> HIDE DEF Numbers
      <3>3. QED
        BY <1>5, <3>1, <3>2
    <2>3. SnFuns' /\ SnElse(r)
      BY <1>1, <1>2, <1>5, <2>1, <2>2 DEF SnFuns, SnElse
    <2>4. snTodo'[r] \subseteq DOMAIN Ranged(r)'
      <3>1. snTodo[r] \subseteq DOMAIN Ranged(r)
        BY <1>1, <1>2 DEF SnRound
      <3>2. QED
        BY <1>5, <2>1, <2>2, <3>1 DEF Ranged
    <2>5. SnRound(r)' /\ SnVisits(r)'
      BY <1>1, <1>2, <1>5, <2>4, SnPrimed DEF SnRound, SnVisits, Serving
    <2>6. QED
      BY <1>3, <2>2, <2>3, <2>5, SnRoundKeeps DEF SnShared
  <1>6. QED
    BY <1>1, <1>4, <1>5

(* What a step that only visits leaves alone.                              *)
SnPure == UNCHANGED <<devices, previousValueCache, snCounted, snSends>>

LEMMA SnPureKeeps ==
    ASSUME SnInv, SnPure, SnFuns'
    PROVE  SnShared'
  BY SnKept DEF SnPure, SnShared

(* A device is visited.                                                    *)
LEMMA SnVisitsDevice ==
    ASSUME SnInv, SnMixes, NEW r \in SnRounds, NEW d, retrieveMonitoredServices(r, d)
    PROVE  SnInv'
  <1> DEFINE ifs == Ranged(r)[d].interfaces
  <1>1. /\ snPhase[r] = "services" /\ snAt[r].left = {} /\ d \in snTodo[r]
        /\ \E ts : snAt' = Set(snAt, r, At(d, ts, {ifs[i] : i \in DOMAIN ifs}))
        /\ snTodo' = Set(snTodo, r, snTodo[r] \ {d})
        /\ UNCHANGED <<snPhase, snFound, snConf, snRange, snIn, snBuilt>> /\ SnPure
    BY DEF retrieveMonitoredServices, SnPure, snCounted
  <1>2. SnFuns /\ SnRound(r) /\ SnVisits(r) /\ SnNumbers(devices)
    BY DEF SnInv, SnShared
  <1>3. SnFuns' /\ SnElse(r)
    BY <1>1, <1>2 DEF SnFuns, SnElse, Set, SnPure
  <1>4. /\ snAt'[r].name = d /\ snAt'[r].left = {ifs[i] : i \in DOMAIN ifs} /\ snTodo'[r] = snTodo[r] \ {d}
    BY <1>1, <1>2 DEF SnFuns, Set, At
  <1>5. d \in DOMAIN Ranged(r) /\ Ranged(r)' = Ranged(r) /\ SnNumbers(Ranged(r))
    BY <1>1, <1>2 DEF SnRound, Ranged, SnPure, Serving
  <1>6. \A i \in DOMAIN ifs : CountsNumbers(ifs[i])
    BY <1>5 DEF SnNumbers
  <1>7. SnRound(r)'
    <2>1. \A i \in snAt'[r].left : CountsNumbers(i)
      <3> HIDE DEF ifs
      <3>1. QED
        BY <1>4, <1>6
    <2>2. snTodo'[r] \subseteq DOMAIN Ranged(r)'
      BY <1>1, <1>2, <1>4, <1>5 DEF SnRound
    <2>3. QED
      BY <1>1, <1>2, <2>1, <2>2, SnPrimed DEF SnRound, Serving
  <1>8. SnVisits(r)'
    <2> SUFFICES ASSUME r \notin snMixed'
                 PROVE  /\ snRange'[r] = <<>>
                        /\ (snBuilt[r] \cup InName(r) \cup LeftNames(r) \cup TodoNames(r) = snmpInventoryHashSum(devices))'
      BY DEF SnVisits
    <2>1. r \notin snMixed
      BY <1>1 DEF SnMixes, SnActive
    <2>2. /\ snRange[r] = <<>>
          /\ snBuilt[r] \cup InName(r) \cup LeftNames(r) \cup TodoNames(r) = snmpInventoryHashSum(devices)
      BY <1>1, <1>2, <2>1 DEF SnVisits, Serving
    <2>3. Ranged(r) = devices
      BY <2>2 DEF Ranged
    <2>4. InName(r) = {} /\ InName(r)' = {} /\ LeftNames(r) = {}
      BY <1>1 DEF InName, LeftNames
    <2>5. LeftNames(r)' = IfNames(devices, d)
      <3>1. LeftNames(r)' = {<<d, i.name>> : i \in {ifs[j] : j \in DOMAIN ifs}}
        BY <1>4 DEF LeftNames
      <3>2. IfNames(devices, d) = {<<d, ifs[i].name>> : i \in DOMAIN ifs}
        BY <2>3 DEF IfNames
      <3> HIDE DEF ifs
      <3>3. QED
        BY <3>1, <3>2
    <2>6. TodoNames(r) = TodoNames(r)' \cup IfNames(devices, d)
      <3>0. UNCHANGED devices /\ snTodo'[r] = snTodo[r] \ {d}
        BY <1>1, <1>4 DEF SnPure
      <3>1. TodoNames(r)' = UNION {IfNames(devices, e) : e \in snTodo[r] \ {d}}
        BY <3>0 DEF TodoNames, IfNames
      <3>2. TodoNames(r) = UNION {IfNames(devices, e) : e \in snTodo[r]}
        BY DEF TodoNames
      <3>3. QED
        BY <1>1, <3>1, <3>2
    <2>7. snmpInventoryHashSum(devices)' = snmpInventoryHashSum(devices)
      BY <1>1 DEF snmpInventoryHashSum, SnPure
    <2>8. QED
      BY <1>1, <2>2, <2>4, <2>5, <2>6, <2>7
  <1>9. QED
    BY <1>1, <1>3, <1>7, <1>8, SnPureKeeps, SnRoundKeeps

(* An interface is visited.                                                *)
LEMMA SnVisitsInterface ==
    ASSUME SnInv, SnMixes, NEW r \in SnRounds, NEW iface, VisitInterface(r, iface)
    PROVE  SnInv'
  <1> DEFINE metrics == [m \in Defined(r, iface) |-> iface.metrics[m]]
  <1>1. /\ snPhase[r] = "services" /\ iface \in snAt[r].left /\ SnPure
        /\ \/ EndRound(r)
           \/ /\ snPhase' = Set(snPhase, r, "interface")
              /\ snAt' = Set(snAt, r, At(snAt[r].name, snAt[r].ts, snAt[r].left \ {iface}))
              /\ snIn' = Set(snIn, r, In(iface.name, metrics, "", {}))
              /\ UNCHANGED <<snFound, snConf, snTodo, snRange, snBuilt>>
    BY DEF VisitInterface, SnPure, snCounted
  <1>2. SnFuns /\ SnRound(r) /\ SnVisits(r)
    BY DEF SnInv, SnShared
  <1>3. CASE EndRound(r)
    BY <1>1, <1>3, SnEnds, SnPureKeeps, SnRoundKeeps DEF SnPure
  <1>4. CASE /\ snPhase' = Set(snPhase, r, "interface")
             /\ snAt' = Set(snAt, r, At(snAt[r].name, snAt[r].ts, snAt[r].left \ {iface}))
             /\ snIn' = Set(snIn, r, In(iface.name, metrics, "", {}))
             /\ UNCHANGED <<snFound, snConf, snTodo, snRange, snBuilt>>
    <2>1. SnFuns' /\ SnElse(r)
      BY <1>1, <1>2, <1>4 DEF SnFuns, SnElse, Set, SnPure
    <2>2. /\ snPhase'[r] = "interface" /\ snAt'[r].name = snAt[r].name /\ snAt'[r].left = snAt[r].left \ {iface}
          /\ snIn'[r].name = iface.name /\ snIn'[r].metrics = metrics
      <3> HIDE DEF metrics
      <3>1. QED
        BY <1>2, <1>4 DEF SnFuns, Set, At, In
    <2>3. CountsNumbers(iface)
      BY <1>1, <1>2 DEF SnRound
    <2>4. DOMAIN metrics \subseteq DOMAIN iface.metrics /\ \A m \in DOMAIN metrics : metrics[m] = iface.metrics[m]
      BY DEF Defined
    <2> HIDE DEF metrics
    <2>5. CountsNumbers(snIn'[r])
      BY <2>2, <2>3, <2>4 DEF CountsNumbers
    <2>6. SnRound(r)'
      <3>1. Ranged(r)' = Ranged(r)
        BY <1>1, <1>4 DEF Ranged, SnPure
      <3>2. QED
        BY <1>1, <1>2, <1>4, <2>2, <2>5, <3>1, SnPrimed DEF SnRound, Serving
    <2>7. SnVisits(r)'
      <3> SUFFICES ASSUME r \notin snMixed'
                   PROVE  /\ snRange'[r] = <<>>
                          /\ (snBuilt[r] \cup InName(r) \cup LeftNames(r) \cup TodoNames(r) = snmpInventoryHashSum(devices))'
        BY DEF SnVisits
      <3>1. r \notin snMixed
        BY <2>2 DEF SnMixes, SnActive
      <3>2. /\ snRange[r] = <<>>
            /\ snBuilt[r] \cup InName(r) \cup LeftNames(r) \cup TodoNames(r) = snmpInventoryHashSum(devices)
        BY <1>1, <1>2, <3>1 DEF SnVisits, Serving
      <3>3. InName(r) = {} /\ InName(r)' = {<<snAt[r].name, iface.name>>}
        BY <1>1, <2>2 DEF InName
      <3>4. LeftNames(r) = LeftNames(r)' \cup {<<snAt[r].name, iface.name>>}
        BY <1>1, <2>2 DEF LeftNames
      <3>5. TodoNames(r)' = TodoNames(r) /\ snmpInventoryHashSum(devices)' = snmpInventoryHashSum(devices)
        <4>1. UNCHANGED <<devices, snTodo>>
          BY <1>1, <1>4 DEF SnPure
        <4>2. QED
          BY <4>1 DEF TodoNames, IfNames, snmpInventoryHashSum
      <3>6. QED
        BY <1>4, <3>2, <3>3, <3>4, <3>5
    <2>8. QED
      BY <1>1, <2>1, <2>6, <2>7, SnPureKeeps, SnRoundKeeps
  <1>5. QED
    BY <1>1, <1>3, <1>4

(* The names of a round that stays at its interface.                       *)
LEMMA SnStays ==
    ASSUME SnInv, SnMixes, NEW r \in SnRounds, snPhase[r] \in {"interface", "metric"}, snPhase'[r] \in {"interface", "metric"},
           snIn'[r].name = snIn[r].name, UNCHANGED <<devices, snTodo, snRange, snAt, snBuilt>>
    PROVE  SnVisits(r)'
  <1> SUFFICES ASSUME r \notin snMixed'
               PROVE  /\ snRange'[r] = <<>>
                      /\ (snBuilt[r] \cup InName(r) \cup LeftNames(r) \cup TodoNames(r) = snmpInventoryHashSum(devices))'
    BY DEF SnVisits
  <1>1. r \notin snMixed
    BY DEF SnMixes, SnActive
  <1>2. /\ snRange[r] = <<>>
        /\ snBuilt[r] \cup InName(r) \cup LeftNames(r) \cup TodoNames(r) = snmpInventoryHashSum(devices)
    BY <1>1 DEF SnInv, SnVisits, Serving
  <1>3. InName(r)' = InName(r) /\ LeftNames(r)' = LeftNames(r)
    BY DEF InName, LeftNames
  <1>4. TodoNames(r)' = TodoNames(r) /\ snmpInventoryHashSum(devices)' = snmpInventoryHashSum(devices)
    BY DEF TodoNames, IfNames, snmpInventoryHashSum
  <1>5. QED
    BY <1>2, <1>3, <1>4

(* The value before is read.                                               *)
LEMMA SnGets ==
    ASSUME SnInv, SnMixes, NEW r \in SnRounds, NEW m, GetPrevious(r, m)
    PROVE  SnInv'
  <1> DEFINE ck == makeCK(snAt[r].name, snIn[r].name, m)
             prev == previous(r, ck)
  <1>1. /\ snPhase[r] = "interface" /\ m \in DOMAIN snIn[r].metrics /\ SnPure
        /\ snPhase' = Set(snPhase, r, "metric") /\ snIn' = Set(snIn, r, In(snIn[r].name, snIn[r].metrics, m, prev))
        /\ UNCHANGED <<snFound, snConf, snTodo, snRange, snAt, snBuilt>>
    BY DEF GetPrevious, SnPure, snCounted
  <1>2. SnFuns /\ SnRound(r) /\ SnAddsUp
    BY DEF SnInv, SnShared
  <1>3. SnFuns' /\ SnElse(r)
    BY <1>1, <1>2 DEF SnFuns, SnElse, Set, SnPure
  <1>4. prev # {} => ck \in DOMAIN previousValueCache /\ prev = {previousValueCache[ck].value} /\ prev \subseteq Int
    BY <1>2 DEF previous, SnAddsUp, AddsUp
  <1> HIDE DEF prev
  <1>5. /\ snPhase'[r] = "metric" /\ snIn'[r].name = snIn[r].name /\ snIn'[r].metrics = snIn[r].metrics
        /\ snIn'[r].mib = m /\ snIn'[r].prev = prev
    BY <1>1, <1>2 DEF SnFuns, Set, In
  <1>6. CkAt(r)' = ck
    BY <1>1, <1>5 DEF CkAt
  <1> HIDE DEF ck
  <1>7. HasRead(r)'
    BY <1>1, <1>4, <1>5, <1>6 DEF HasRead, SnPure
  <1>8. CountsNumbers(snIn'[r])
    BY <1>2, <1>5 DEF SnRound, CountsNumbers
  <1>9. SnRound(r)'
    <2>1. Ranged(r)' = Ranged(r)
      BY <1>1 DEF Ranged, SnPure
    <2>2. QED
      BY <1>1, <1>2, <1>5, <1>7, <1>8, <2>1, SnPrimed DEF SnRound, Serving
  <1>10. SnVisits(r)'
    BY <1>1, <1>5, SnStays DEF SnPure
  <1>11. QED
    BY <1>1, <1>3, <1>9, <1>10, SnPureKeeps, SnRoundKeeps

(* The value is cached: a counter goes on with its delta, or begins again. *)
LEMMA SnSets ==
    ASSUME SnInv, SnMixes, NEW r \in SnRounds, SetDefault(r)
    PROVE  SnInv'
  <1>0. PICK ck : ck = CkAt(r)
    OBVIOUS
  <1> DEFINE value == snIn[r].metrics[snIn[r].mib]
             prev == snIn[r].prev
             stale == \E p \in prev : previousValueCache[ck].value # p
             rest == [m \in DOMAIN snIn[r].metrics \ {snIn[r].mib} |-> snIn[r].metrics[m]]
             entry == [value |-> value, ts |-> snAt[r].ts]
  <1>1. /\ snPhase[r] = "metric"
        /\ previousValueCache' = Put(previousValueCache, ck, entry)
        /\ \/ /\ prev = {}
              /\ snBase' = Put(snBase, ck, value) /\ snSum' = Put(snSum, ck, 0) /\ snLost' = snLost \ {ck}
           \/ \E p \in prev :
              /\ snSum' = Put(snSum, ck, snSum[ck] + value - p) /\ UNCHANGED snBase
              /\ snLost' = IF r \in snMixed /\ stale THEN snLost \cup {ck} ELSE snLost
        /\ snIn' = Set(snIn, r, In(snIn[r].name, rest, "", {})) /\ snPhase' = Set(snPhase, r, "interface")
        /\ UNCHANGED <<devices, snSends, snFound, snConf, snTodo, snRange, snAt, snBuilt>>
    BY <1>0 DEF SetDefault, Cached, CkAt
  <1>2. SnFuns /\ SnRound(r) /\ SnAddsUp /\ HasRead(r)
    BY <1>1 DEF SnInv, SnShared, SnRound
  <1>3. value \in Int
    BY <1>2 DEF SnRound, HasRead, CountsNumbers
  <1>4. /\ prev \subseteq Int /\ (prev # {} => ck \in DOMAIN previousValueCache)
        /\ r \notin snMixed => \A p \in prev : previousValueCache[ck].value = p
    BY <1>0, <1>2 DEF HasRead
  <1>5. entry.value = value
    OBVIOUS
  <1>6. /\ DOMAIN previousValueCache' = DOMAIN previousValueCache \cup {ck} /\ previousValueCache'[ck].value = value
        /\ \A k \in DOMAIN previousValueCache : k # ck => previousValueCache'[k] = previousValueCache[k]
    <2> HIDE DEF entry
    <2>1. QED
      BY <1>1, <1>5 DEF Put
  <1>7. SnAddsUp'
    <2> HIDE DEF value, prev, entry
    <2>1. ASSUME NEW k \in DOMAIN previousValueCache, k # ck PROVE AddsUp(k)'
      <3>1. AddsUp(k)
        BY <1>2, <2>1 DEF SnAddsUp
      <3>2. /\ k \in DOMAIN snBase' /\ k \in DOMAIN snSum' /\ snBase'[k] = snBase[k] /\ snSum'[k] = snSum[k]
            /\ (k \notin snLost' => k \notin snLost)
        BY <1>1, <2>1, <3>1 DEF Put, AddsUp
      <3>3. QED
        BY <1>6, <2>1, <3>1, <3>2 DEF AddsUp
    <2>2. AddsUp(ck)'
      <3>1. CASE /\ prev = {}
                 /\ snBase' = Put(snBase, ck, value) /\ snSum' = Put(snSum, ck, 0) /\ snLost' = snLost \ {ck}
        <4>1. ck \in DOMAIN snBase' /\ ck \in DOMAIN snSum' /\ snBase'[ck] = value /\ snSum'[ck] = 0
          BY <3>1 DEF Put
        <4>2. QED
          BY <1>3, <1>6, <4>1 DEF AddsUp
      <3>2. ASSUME NEW p \in prev,
                   snSum' = Put(snSum, ck, snSum[ck] + value - p), UNCHANGED snBase,
                   snLost' = IF r \in snMixed /\ stale THEN snLost \cup {ck} ELSE snLost
            PROVE  AddsUp(ck)'
        <4>1. AddsUp(ck) /\ p \in Int
          BY <1>2, <1>4, <3>2 DEF SnAddsUp
        <4>2. ck \in DOMAIN snBase' /\ ck \in DOMAIN snSum' /\ snBase'[ck] = snBase[ck] /\ snSum'[ck] = snSum[ck] + value - p
          BY <3>2, <4>1 DEF Put, AddsUp
        <4>3. ck \notin snLost' => ck \notin snLost /\ previousValueCache[ck].value = p
          BY <1>4, <3>2
        <4>4. QED
          BY <1>3, <1>6, <4>1, <4>2, <4>3 DEF AddsUp
      <3> HIDE DEF stale
      <3>3. QED
        BY <1>1, <3>1, <3>2
    <2>3. QED
      BY <1>6, <2>1, <2>2 DEF SnAddsUp
  <1>8. SnFuns' /\ SnElse(r)
    <2> HIDE DEF rest, entry
    <2>1. snPhase'[r] = "interface"
      BY <1>1, <1>2 DEF SnFuns, Set
    <2>2. QED
      BY <1>1, <1>2, <1>6, <2>1 DEF SnFuns, SnElse, Set
  <1>9. /\ snPhase'[r] = "interface" /\ snIn'[r].name = snIn[r].name /\ snIn'[r].metrics = rest
    <2> HIDE DEF rest
    <2>1. QED
      BY <1>1, <1>2 DEF SnFuns, Set, In
  <1>10. CountsNumbers(snIn'[r])
    <2>1. DOMAIN rest \subseteq DOMAIN snIn[r].metrics /\ \A m \in DOMAIN rest : rest[m] = snIn[r].metrics[m]
      OBVIOUS
    <2> HIDE DEF rest
    <2>2. QED
      BY <1>2, <1>9, <2>1 DEF SnRound, CountsNumbers
  <1> HIDE DEF value, prev, stale, rest, entry
  <1>11. SnRound(r)'
    <2>1. Ranged(r)' = Ranged(r)
      BY <1>1 DEF Ranged
    <2>2. QED
      BY <1>1, <1>2, <1>9, <1>10, <2>1, SnPrimed DEF SnRound, Serving
  <1>12. SnVisits(r)'
    BY <1>1, <1>9, SnStays
  <1>13. SnNumbers(devices)' /\ SnAnnounced'
    BY <1>1, SnKept
  <1>14. QED
    BY <1>7, <1>8, <1>11, <1>12, <1>13, SnRoundKeeps DEF SnShared

(* A service is built.                                                     *)
LEMMA SnBuilds ==
    ASSUME SnInv, SnMixes, NEW r \in SnRounds, SnBuildService(r)
    PROVE  SnInv'
  <1>1. /\ snPhase[r] = "interface" /\ SnPure
        /\ snBuilt' = Set(snBuilt, r, snBuilt[r] \cup {<<snAt[r].name, snIn[r].name>>})
        /\ snPhase' = Set(snPhase, r, "services") /\ snIn' = Set(snIn, r, NoInterface)
        /\ UNCHANGED <<snFound, snConf, snTodo, snRange, snAt>>
    BY DEF SnBuildService, SnPure, snCounted
  <1>2. SnFuns /\ SnRound(r) /\ SnVisits(r)
    BY DEF SnInv, SnShared
  <1>3. SnFuns' /\ SnElse(r)
    BY <1>1, <1>2 DEF SnFuns, SnElse, Set, SnPure
  <1>4. /\ snPhase'[r] = "services" /\ snIn'[r] = NoInterface
        /\ snBuilt'[r] = snBuilt[r] \cup {<<snAt[r].name, snIn[r].name>>}
    BY <1>1, <1>2 DEF SnFuns, Set
  <1>5. CountsNumbers(NoInterface)
    BY DEF CountsNumbers, NoInterface, In, Empty
  <1>6. SnRound(r)'
    <2>1. Ranged(r)' = Ranged(r)
      BY <1>1 DEF Ranged, SnPure
    <2>2. QED
      BY <1>1, <1>2, <1>4, <1>5, <2>1, SnPrimed DEF SnRound, Serving
  <1>7. SnVisits(r)'
    <2> SUFFICES ASSUME r \notin snMixed'
                 PROVE  /\ snRange'[r] = <<>>
                        /\ (snBuilt[r] \cup InName(r) \cup LeftNames(r) \cup TodoNames(r) = snmpInventoryHashSum(devices))'
      BY DEF SnVisits
    <2>1. r \notin snMixed
      BY <1>4 DEF SnMixes, SnActive
    <2>2. /\ snRange[r] = <<>>
          /\ snBuilt[r] \cup InName(r) \cup LeftNames(r) \cup TodoNames(r) = snmpInventoryHashSum(devices)
      BY <1>1, <1>2, <2>1 DEF SnVisits, Serving
    <2>3. InName(r) = {<<snAt[r].name, snIn[r].name>>} /\ InName(r)' = {} /\ LeftNames(r)' = LeftNames(r)
      BY <1>1, <1>4 DEF InName, LeftNames
    <2>4. TodoNames(r)' = TodoNames(r) /\ snmpInventoryHashSum(devices)' = snmpInventoryHashSum(devices)
      <3>1. UNCHANGED <<devices, snTodo>>
        BY <1>1 DEF SnPure
      <3>2. QED
        BY <3>1 DEF TodoNames, IfNames, snmpInventoryHashSum
    <2>5. QED
      BY <1>1, <1>4, <2>2, <2>3, <2>4
  <1>8. QED
    BY <1>1, <1>3, <1>6, <1>7, SnPureKeeps, SnRoundKeeps

(* When nothing is left to be visited, the services that a round alone     *)
(* sends are the interfaces that the checksum is made of.                  *)
LEMMA SnSendsAll ==
    ASSUME SnInv, SnMixes, NEW r \in SnRounds, SnPeriodicHandler(r)
    PROVE  SnInv'
  <1> DEFINE h == snmpInventoryHashSum(devices)
             chk == <<h>>
  <1>1. /\ snPhase[r] = "services" /\ snTodo[r] = {} /\ snAt[r].left = {} /\ snChksum' = chk
        /\ snSent' = snBuilt[r] /\ EndRound(r) /\ UNCHANGED <<devices, snCounted, previousValueCache>>
    BY DEF SnPeriodicHandler, snCounted
  <1>2. PICK ok \in BOOLEAN :
          /\ snInventory' = IF chk # snChksum /\ ok THEN snBuilt[r] ELSE snInventory
          /\ snDoubt' = (r \in snMixed \/ IF chk # snChksum THEN ~ok ELSE snDoubt)
    BY Zenon DEF SnPeriodicHandler
  <1>3. r \notin snMixed => snBuilt[r] = h
    <2> SUFFICES ASSUME r \notin snMixed PROVE snBuilt[r] = h
      OBVIOUS
    <2>1. snBuilt[r] \cup InName(r) \cup LeftNames(r) \cup TodoNames(r) = h
      BY <1>1 DEF SnInv, SnVisits, Serving
    <2>2. InName(r) = {} /\ LeftNames(r) = {} /\ TodoNames(r) = {}
      BY <1>1 DEF InName, LeftNames, TodoNames
    <2>3. QED
      BY <2>1, <2>2
  <1> HIDE DEF h
  <1>4. SnAnnounced'
    <2> SUFFICES ASSUME ~snDoubt' PROVE snSent' \subseteq snInventory' /\ snChksum' = <<snInventory'>>
      BY DEF SnAnnounced
    <2>1. r \notin snMixed /\ snBuilt[r] = h
      BY <1>2, <1>3
    <2>2. snInventory' = h
      <3>1. CASE chk # snChksum
        BY <1>2, <2>1, <3>1
      <3>2. CASE chk = snChksum
        <4>1. <<h>> \in {<<>>, <<snInventory>>}
          BY <1>2, <2>1, <3>2 DEF SnInv, SnShared, SnAnnounced
        <4>2. h = snInventory
          BY <4>1
        <4>3. QED
          BY <1>2, <3>2, <4>2
      <3>3. QED
        BY <3>1, <3>2
    <2>3. QED
      BY <1>1, <2>1, <2>2
  <1>5. QED
    BY <1>1, <1>4, SnEnds, SnKept, SnRoundKeeps DEF SnShared

(* Every step of the connector keeps the invariant.                        *)
LEMMA SnStep ==
    ASSUME SnInv, [SnNext]_snVars
    PROVE  SnInv'
  <1>1. CASE UNCHANGED snVars
    <2>1. /\ UNCHANGED <<devices, previousValueCache, snCounted, snSends, snPhase, snFound, snConf, snTodo, snRange>>
          /\ UNCHANGED <<snAt, snIn, snBuilt, snHandler, snMixed>>
      BY <1>1 DEF snVars, snConfVars, snCounted
    <2>2. SnShared' /\ SnOverlap' = SnOverlap
      BY <2>1, SnKept DEF SnInv, SnShared, SnFuns, SnOverlap, SnActive
    <2>3. ASSUME NEW r \in SnRounds PROVE SnRound(r)' /\ SnVisits(r)'
      <3>1. HasRead(r)' = HasRead(r) /\ Ranged(r)' = Ranged(r)
        BY <2>1 DEF HasRead, CkAt, Ranged
      <3>2. SnRound(r)'
        BY <2>1, <3>1, SnPrimed DEF SnInv, SnRound, Serving
      <3>3. SnVisits(r)'
        BY <2>1 DEF SnInv, SnVisits, Serving, InName, LeftNames, TodoNames, IfNames, snmpInventoryHashSum
      <3>4. QED
        BY <3>2, <3>3
    <2>4. QED
      BY <2>1, <2>2, <2>3 DEF SnInv
  <1>2. CASE SnNext
    <2>1. SnMixes
      BY <1>2 DEF SnNext, SnMixes
    <2>2. CASE (\E c \in SnmpConfigs : LoadConfig(c)) \/ InitState \/ ForceInventory
      BY <2>1, <2>2, SnConfigures
    <2>3. ASSUME NEW r \in SnRounds, SnRoundStep(r) PROVE SnInv'
      <3>1. DOMAIN snConf = SnRounds
        BY DEF SnInv, SnShared, SnFuns
      <3>2. CASE BeginViews(r)
        <4>1. DOMAIN snConf' = SnRounds
          BY <3>1, <3>2 DEF BeginViews, Set
        <4>2. snPhase[r] = "devices" /\ \E phase \in {"interfaces", "services"} : RangeOver(r, phase)
          BY <3>2 DEF BeginViews
        <4>3. QED
          BY <2>1, <4>1, <4>2, SnRanges
      <3>3. CASE retrieveMonitoredResources(r)
        <4>1. snPhase[r] = "interfaces" /\ RangeOver(r, "services") /\ DOMAIN snConf' = SnRounds
          BY <3>1, <3>3 DEF retrieveMonitoredResources
        <4>2. QED
          BY <2>1, <4>1, SnRanges
      <3>4. QED
        BY <2>1, <2>3, <3>2, <3>3, SnCollects, SnAdds, SnWalks, SnVisitsDevice, SnVisitsInterface, SnGets, SnSets,
           SnBuilds, SnSendsAll DEF SnRoundStep
    <2>4. QED
      BY <1>2, <2>2, <2>3 DEF SnNext
  <1>3. QED
    BY <1>1, <1>2

(* For any replies of NeDi and of the devices, any configurations and any  *)
(* number of rounds that overlap each other and configurations: what is    *)
(* cached of a counter is what its deltas add up to, but for counters that *)
(* overlapping rounds set over each other; and after a round that ran      *)
(* alone sent its inventory, rounds that run alone send services of the    *)
(* last inventory only (snmp/model.go retrieveMonitoredServices and        *)
(* previousValueCache, cmd.go periodicHandler).                            *)
THEOREM SnmpIsReported == SnSpec => []SnmpReports
  <1>1. SnInit => SnInv
    BY SnInitial
  <1>2. SnInv /\ [SnNext]_snVars => SnInv'
    BY SnStep
  <1>3. SnInv => SnmpReports
    BY DEF SnInv, SnShared, SnAddsUp, AddsUp, SnAnnounced, SnmpReports, DeltasAddUp, MetricsInventoried
  <1>4. QED
    BY <1>1, <1>2, <1>3, PTL DEF SnSpec

-----------------------------------------------------------------------------
(* Elastic *)

(* The recursion of Selected.                                              *)
SelectStep(r, s, set, i) == IF s[i] \in set THEN Append(r, s[i]) ELSE r
IsSelection(f, s, set) ==
    f = [i \in 0 .. Len(s) |-> IF i = 0 THEN <<>> ELSE SelectStep(f[i - 1], s, set, i)]

(* What is selected of the first n elements, each once if s has it once.   *)
Selects(r, s, set, n) ==
    /\ \A k \in 1 .. Len(r) : r[k] \in set /\ \E j \in 1 .. n : r[k] = s[j]
    /\ \A j \in 1 .. n : s[j] \in set => \E k \in 1 .. Len(r) : r[k] = s[j]
    /\ (\A i, j \in 1 .. Len(s) : s[i] = s[j] => i = j) => \A a, b \in 1 .. Len(r) : r[a] = r[b] => a = b

(* The recursion over a sequence has a solution.                           *)
LEMMA SelectionExists ==
    ASSUME NEW S, NEW s \in Seq(S), NEW set
    PROVE  \E f : IsSelection(f, s, set)
  <1> DEFINE A == Seq(S)
             N == Len(s)
             none == <<>>
             F == [i \in 1 .. N |-> [x \in A |-> SelectStep(x, s, set, i)]]
  <1>1. N \in Nat /\ \A i \in 1 .. N : s[i] \in S
    BY LenProperties, ElementOfSeq
  <1>2. none \in A
    BY EmptySeq
  <1>3. \A i \in 1 .. N : \A x \in A : SelectStep(x, s, set, i) \in A
    BY <1>1, AppendProperties DEF SelectStep
  <1> HIDE DEF A, N, none
  <1>4. F \in [1 .. N -> [A -> A]]
    BY <1>3
  <1>5. \A i \in 1 .. N : \A x \in A : F[i][x] = SelectStep(x, s, set, i)
    OBVIOUS
  <1> HIDE DEF F
  <1>6. PICK f \in [0 .. N -> A] : f[0] = none /\ \A i \in 1 .. N : f[i] = F[i][f[i - 1]]
    <2>1. \E f : IsIteration(f, none, N, A, F)
      BY <1>1, <1>2, <1>4, Iterates
    <2>2. QED
      BY <2>1 DEF IsIteration
  <1> DEFINE h == [i \in 0 .. N |-> IF i = 0 THEN none ELSE SelectStep(f[i - 1], s, set, i)]
  <1>7. ASSUME NEW i \in 0 .. N PROVE f[i] = h[i]
    <2>1. CASE i = 0
      BY <1>6, <2>1
    <2>2. CASE i # 0
      <3>1. i \in 1 .. N /\ i - 1 \in 0 .. N
        BY <1>1, <2>2
      <3>2. f[i - 1] \in A
        BY <1>6, <3>1
      <3>3. f[i] = SelectStep(f[i - 1], s, set, i)
        BY <1>5, <1>6, <3>1, <3>2
      <3>4. QED
        BY <2>2, <3>3
    <2>3. QED
      BY <2>1, <2>2
  <1>8. f = h
    BY <1>6, <1>7
  <1>9. QED
    BY <1>8 DEF IsSelection, N, none

(* The next element is selected if it is in the set.                       *)
LEMMA SelectsNext ==
    ASSUME NEW S, NEW s \in Seq(S), NEW set, NEW n \in 1 .. Len(s), NEW r \in Seq(S), Selects(r, s, set, n - 1)
    PROVE  SelectStep(r, s, set, n) \in Seq(S) /\ Selects(SelectStep(r, s, set, n), s, set, n)
  <1> DEFINE new == SelectStep(r, s, set, n)
             x == s[n]
  <1>1. x \in S /\ n \in Nat /\ n # 0 /\ Len(s) \in Nat /\ Len(r) \in Nat
    BY LenProperties, ElementOfSeq
  <1>2. \A j \in 1 .. n : j = n \/ j \in 1 .. n - 1
    BY <1>1
  <1>3. CASE x \notin set
    <2>1. new = r
      BY <1>3 DEF SelectStep
    <2> HIDE DEF new
    <2>2. \A k \in 1 .. Len(r) : r[k] \in set /\ \E j \in 1 .. n : r[k] = s[j]
      BY <1>1 DEF Selects
    <2>3. \A j \in 1 .. n : s[j] \in set => \E k \in 1 .. Len(r) : r[k] = s[j]
      BY <1>2, <1>3 DEF Selects
    <2>4. Selects(r, s, set, n)
      BY <2>2, <2>3 DEF Selects
    <2>5. QED
      BY <2>1, <2>4 DEF new
  <1>4. CASE x \in set
    <2>1. new = Append(r, x)
      BY <1>4 DEF SelectStep
    <2> HIDE DEF new
    <2>2. /\ new \in Seq(S) /\ Len(new) = Len(r) + 1
          /\ \A k \in 1 .. Len(r) : new[k] = r[k]
          /\ new[Len(r) + 1] = x
      BY <1>1, <2>1, AppendProperties
    <2>3. \A k \in 1 .. Len(new) : k = Len(r) + 1 \/ k \in 1 .. Len(r)
      BY <1>1, <2>2
    <2>4. \A k \in 1 .. Len(r) : k \in 1 .. Len(new)
      BY <1>1, <2>2
    <2>5. Len(r) + 1 \in 1 .. Len(new)
      BY <1>1, <2>2
    <2>6. \A k \in 1 .. Len(new) : new[k] \in set /\ \E j \in 1 .. n : new[k] = s[j]
      <3> SUFFICES ASSUME NEW k \in 1 .. Len(new) PROVE new[k] \in set /\ \E j \in 1 .. n : new[k] = s[j]
        OBVIOUS
      <3>1. CASE k = Len(r) + 1
        BY <1>1, <1>4, <2>2, <3>1
      <3>2. CASE k \in 1 .. Len(r)
        <4>1. PICK j \in 1 .. n - 1 : r[k] = s[j]
          BY <3>2 DEF Selects
        <4>2. j \in 1 .. n
          BY <1>1
        <4>3. new[k] = s[j] /\ r[k] \in set
          BY <2>2, <3>2, <4>1 DEF Selects
        <4>4. QED
          BY <4>1, <4>2, <4>3
      <3>3. QED
        BY <2>3, <3>1, <3>2
    <2>7. \A j \in 1 .. n : s[j] \in set => \E k \in 1 .. Len(new) : new[k] = s[j]
      <3> SUFFICES ASSUME NEW j \in 1 .. n, s[j] \in set PROVE \E k \in 1 .. Len(new) : new[k] = s[j]
        OBVIOUS
      <3>1. CASE j = n
        BY <2>2, <2>5, <3>1
      <3>2. CASE j \in 1 .. n - 1
        <4>1. PICK k \in 1 .. Len(r) : r[k] = s[j]
          BY <3>2 DEF Selects
        <4>2. QED
          BY <2>2, <2>4, <4>1
      <3>3. QED
        BY <1>2, <3>1, <3>2
    <2>8. ASSUME \A i, j \in 1 .. Len(s) : s[i] = s[j] => i = j, NEW a \in 1 .. Len(new), NEW b \in 1 .. Len(new),
                 new[a] = new[b]
          PROVE  a = b
      <3>1. \A k \in 1 .. Len(r) : r[k] # x
        <4> SUFFICES ASSUME NEW k \in 1 .. Len(r), r[k] = x PROVE FALSE
          OBVIOUS
        <4>1. PICK j \in 1 .. n - 1 : r[k] = s[j]
          BY DEF Selects
        <4>2. j \in 1 .. Len(s) /\ j # n
          BY <1>1
        <4>3. QED
          BY <2>8, <4>1, <4>2
      <3>2. \A c, d \in 1 .. Len(r) : r[c] = r[d] => c = d
        BY <2>8 DEF Selects
      <3>3. QED
        BY <2>2, <2>3, <2>8, <3>1, <3>2
    <2>9. Selects(new, s, set, n)
      BY <2>6, <2>7, <2>8 DEF Selects
    <2>10. QED
      BY <2>2, <2>9 DEF new
  <1>5. QED
    BY <1>3, <1>4

(* All that is in the set is selected.                                     *)
LEMMA SelectsAll ==
    ASSUME NEW S, NEW s \in Seq(S), NEW set
    PROVE  Selected(s, set) \in Seq(S) /\ Selects(Selected(s, set), s, set, Len(s))
  <1> DEFINE N == Len(s)
             A == Seq(S)
             f == CHOOSE h : IsSelection(h, s, set)
             T == {i \in 0 .. N : f[i] \in A /\ Selects(f[i], s, set, i)}
  <1>1. Selected(s, set) = f[N]
    BY DEF Selected, IsSelection, SelectStep
  <1>2. IsSelection(f, s, set)
    BY SelectionExists, Zenon
  <1>3. N \in Nat
    BY LenProperties
  <1> HIDE DEF f
  <1>4. f = [i \in 0 .. N |-> IF i = 0 THEN <<>> ELSE SelectStep(f[i - 1], s, set, i)]
    BY <1>2 DEF IsSelection
  <1> HIDE DEF N
  <1>5. f[0] = <<>> /\ \A i \in 1 .. N : f[i] = SelectStep(f[i - 1], s, set, i)
    <2>1. f[0] = <<>>
      BY <1>3, <1>4
    <2>2. ASSUME NEW i \in 1 .. N PROVE f[i] = SelectStep(f[i - 1], s, set, i)
      <3>1. i \in 0 .. N /\ i # 0
        BY <1>3
      <3>2. QED
        BY <1>4, <3>1, Zenon
    <2>3. QED
      BY <2>1, <2>2
  <1>6. 0 \in T
    <2>1. f[0] \in A /\ Len(f[0]) = 0
      BY <1>5, EmptySeq
    <2>2. Selects(f[0], s, set, 0)
      BY <2>1 DEF Selects
    <2>3. QED
      BY <1>3, <2>1, <2>2
  <1>7. ASSUME NEW i \in 1 .. N, i - 1 \in T PROVE i \in T
    <2>1. f[i - 1] \in A /\ Selects(f[i - 1], s, set, i - 1)
      BY <1>7
    <2>2. i \in 1 .. Len(s)
      BY DEF N
    <2>3. SelectStep(f[i - 1], s, set, i) \in A /\ Selects(SelectStep(f[i - 1], s, set, i), s, set, i)
      BY <2>1, <2>2, SelectsNext
    <2>4. i \in 0 .. N
      BY <1>3
    <2> HIDE DEF A
    <2>5. QED
      BY <1>5, <2>3, <2>4
  <1> HIDE DEF T
  <1>8. N \in T
    <2>1. \A i \in 1 .. N : i - 1 \in T => i \in T
      BY <1>7
    <2>2. \A i \in 0 .. N : i \in T
      BY <1>3, <1>6, <2>1, UpTo
    <2>3. QED
      BY <1>3, <2>2
  <1>9. f[N] \in A /\ Selects(f[N], s, set, N)
    BY <1>8 DEF T
  <1>10. QED
    BY <1>1, <1>9 DEF N

(* A sequence has an id at one position, or at none.                       *)
HasOnce(s, id) == \E j \in 1 .. Len(s) : s[j].id = id /\ \A k \in 1 .. Len(s) : s[k].id = id => k = j
HasNever(s, id) == \A k \in 1 .. Len(s) : s[k].id # id
HasTimes(s, id) == Cardinality({j \in DOMAIN s : s[j].id = id})

(* How often, as FiltersAppliedOnce counts it.                             *)
LEMMA IdsCounted ==
    ASSUME NEW S, NEW s \in Seq(S), NEW id
    PROVE  /\ HasOnce(s, id) => HasTimes(s, id) = 1
           /\ HasNever(s, id) => HasTimes(s, id) = 0
  <1> DEFINE J == {j \in DOMAIN s : s[j].id = id}
  <1>1. DOMAIN s = 1 .. Len(s)
    BY LenProperties
  <1>2. ASSUME HasOnce(s, id) PROVE Cardinality(J) = 1
    <2>1. PICK j \in 1 .. Len(s) : s[j].id = id /\ \A k \in 1 .. Len(s) : s[k].id = id => k = j
      BY <1>2 DEF HasOnce
    <2>2. J = {j}
      BY <1>1, <2>1
    <2>3. QED
      BY <2>2, FS_Singleton
  <1>3. ASSUME HasNever(s, id) PROVE Cardinality(J) = 0
    <2>1. J = {}
      BY <1>1, <1>3 DEF HasNever
    <2>2. QED
      BY <2>1, FS_EmptySet
  <1>4. QED
    BY <1>2, <1>3 DEF HasTimes

(* Putting sequences one after the other.                                  *)
LEMMA IdsConcatenated ==
    ASSUME NEW S, NEW a \in Seq(S), NEW b \in Seq(S), NEW id
    PROVE  /\ HasNever(a, id) /\ HasNever(b, id) => HasNever(a \o b, id)
           /\ HasOnce(a, id) /\ HasNever(b, id) => HasOnce(a \o b, id)
           /\ HasNever(a, id) /\ HasOnce(b, id) => HasOnce(a \o b, id)
  <1> DEFINE c == a \o b
             m == Len(a)
             n == Len(b)
  <1>1. /\ m \in Nat /\ n \in Nat /\ Len(c) = m + n
        /\ \A k \in 1 .. m + n : c[k] = IF k <= m THEN a[k] ELSE b[k - m]
    BY LenProperties, ConcatProperties
  <1> HIDE DEF c, m, n
  <1>2. \A k \in 1 .. m : k \in 1 .. m + n /\ c[k] = a[k]
    BY <1>1
  <1>3. \A k \in 1 .. n : m + k \in 1 .. m + n /\ c[m + k] = b[k]
    <2> SUFFICES ASSUME NEW k \in 1 .. n PROVE m + k \in 1 .. m + n /\ c[m + k] = b[k]
      OBVIOUS
    <2>1. m + k \in 1 .. m + n /\ ~(m + k <= m) /\ (m + k) - m = k
      BY <1>1
    <2>2. c[m + k] = b[(m + k) - m]
      BY <1>1, <2>1
    <2>3. QED
      BY <2>1, <2>2
  <1>4. \A k \in 1 .. m + n : k \in 1 .. m \/ \E j \in 1 .. n : k = m + j
    <2> SUFFICES ASSUME NEW k \in 1 .. m + n, k \notin 1 .. m PROVE \E j \in 1 .. n : k = m + j
      OBVIOUS
    <2>1. k - m \in 1 .. n /\ k = m + (k - m)
      BY <1>1
    <2>2. QED
      BY <2>1
  <1>5. ASSUME HasNever(a, id), HasNever(b, id) PROVE HasNever(c, id)
    <2>1. \A k \in 1 .. m : a[k].id # id
      BY <1>5 DEF HasNever, m
    <2>2. \A k \in 1 .. n : b[k].id # id
      BY <1>5 DEF HasNever, n
    <2>3. \A k \in 1 .. m + n : c[k].id # id
      BY <1>2, <1>3, <1>4, <2>1, <2>2
    <2>4. QED
      BY <1>1, <2>3 DEF HasNever
  <1>6. ASSUME HasOnce(a, id), HasNever(b, id) PROVE HasOnce(c, id)
    <2>1. PICK j \in 1 .. m : a[j].id = id /\ \A k \in 1 .. m : a[k].id = id => k = j
      BY <1>6 DEF HasOnce, m
    <2>2. \A k \in 1 .. n : b[k].id # id
      BY <1>6 DEF HasNever, n
    <2>3. \A k \in 1 .. m + n : c[k].id = id => k = j
      BY <1>2, <1>3, <1>4, <2>1, <2>2
    <2>4. QED
      BY <1>1, <1>2, <2>1, <2>3 DEF HasOnce
  <1>7. ASSUME HasNever(a, id), HasOnce(b, id) PROVE HasOnce(c, id)
    <2>1. PICK j \in 1 .. n : b[j].id = id /\ \A k \in 1 .. n : b[k].id = id => k = j
      BY <1>7 DEF HasOnce, n
    <2>2. \A k \in 1 .. m : a[k].id # id
      BY <1>7 DEF HasNever, m
    <2>3. \A k \in 1 .. m + n : c[k].id = id => k = m + j
      BY <1>2, <1>3, <1>4, <2>1, <2>2
    <2>4. m + j \in 1 .. m + n /\ c[m + j].id = id
      BY <1>3, <2>1
    <2>5. QED
      BY <1>1, <2>3, <2>4 DEF HasOnce
  <1>8. QED
    BY <1>5, <1>6, <1>7 DEF c

(* A filter is migrated and translated under its id.                       *)
LEMMA IdKept ==
    ASSUME NEW f
    PROVE  translateToQuery(migrateDeprecatedPhraseFilter(f)).id = f.id
  <1>1. migrateDeprecatedPhraseFilter(f).id = f.id
    BY DEF migrateDeprecatedPhraseFilter
  <1>2. \A g : translateToQuery(g).id = g.id
    BY DEF translateToQuery
  <1>3. QED
    BY <1>1, <1>2

(* The translations of a query's filters.                                  *)
Translations(q) == {translateToQuery(migrateDeprecatedPhraseFilter(f)) : f \in ToSet(q.filters)}

(* A filter is among the ones of its own sign, once, and not among others. *)
LEMMA FiltersOfASign ==
    ASSUME NEW q \in ToSet(StoredQueries), NEW f \in ToSet(q.filters), NEW negate \in BOOLEAN
    PROVE  /\ filtersToESQueries(q.filters, negate) \in Seq(Translations(q))
           /\ filterNegate(f, negate) => HasOnce(filtersToESQueries(q.filters, negate), f.id)
           /\ ~filterNegate(f, negate) => HasNever(filtersToESQueries(q.filters, negate), f.id)
  <1> DEFINE filters == q.filters
             F == ToSet(filters)
             set == {g \in F : filterNegate(g, negate)}
             chosen == Selected(filters, set)
             es == [i \in DOMAIN chosen |-> translateToQuery(migrateDeprecatedPhraseFilter(chosen[i]))]
  <1>1. /\ filters \in Seq(F)
        /\ \A i, j \in DOMAIN filters : filters[i].id = filters[j].id => i = j
    BY ElAssumption
  <1>2. DOMAIN filters = 1 .. Len(filters) /\ Len(filters) \in Nat
    BY <1>1, LenProperties
  <1>3. PICK p \in 1 .. Len(filters) : filters[p] = f
    BY <1>2 DEF ToSet
  <1>4. \A i, j \in 1 .. Len(filters) : filters[i] = filters[j] => i = j
    BY <1>1, <1>2
  <1>5. chosen \in Seq(F) /\ Selects(chosen, filters, set, Len(filters))
    <2> HIDE DEF set, F, filters
    <2>1. QED
      BY <1>1, SelectsAll
  <1>6. f \in set <=> filterNegate(f, negate)
    OBVIOUS
  <1> HIDE DEF chosen
  <1>7. DOMAIN chosen = 1 .. Len(chosen) /\ Len(chosen) \in Nat /\ \A k \in 1 .. Len(chosen) : chosen[k] \in F
    BY <1>5, LenProperties, ElementOfSeq
  <1>8. /\ es \in Seq(Translations(q)) /\ Len(es) = Len(chosen)
        /\ \A k \in 1 .. Len(chosen) : es[k].id = chosen[k].id
    <2>1. \A k \in 1 .. Len(chosen) : es[k] = translateToQuery(migrateDeprecatedPhraseFilter(chosen[k]))
      BY <1>7
    <2>2. \A k \in 1 .. Len(chosen) : es[k] \in Translations(q)
      BY <1>7, <2>1 DEF Translations
    <2>3. \A k \in 1 .. Len(chosen) : es[k].id = chosen[k].id
      BY <2>1, IdKept
    <2>4. es \in [1 .. Len(chosen) -> Translations(q)]
      BY <1>7, <2>2
    <2> HIDE DEF es
    <2>5. es \in Seq(Translations(q)) /\ Len(es) = Len(chosen)
      BY <1>7, <2>4
    <2>6. QED
      BY <2>3, <2>5
  <1>9. filtersToESQueries(q.filters, negate) = es
    BY DEF filtersToESQueries, chosen
  <1> HIDE DEF es, set, filters, F
  <1>10. \A k \in 1 .. Len(chosen) : chosen[k].id = f.id => chosen[k] = f
    <2> SUFFICES ASSUME NEW k \in 1 .. Len(chosen), chosen[k].id = f.id PROVE chosen[k] = f
      OBVIOUS
    <2>1. PICK j \in 1 .. Len(filters) : chosen[k] = filters[j]
      BY <1>5 DEF Selects
    <2>2. j = p
      BY <1>1, <1>2, <1>3, <2>1
    <2>3. QED
      BY <1>3, <2>1, <2>2
  <1>11. ASSUME filterNegate(f, negate) PROVE HasOnce(es, f.id)
    <2>1. PICK k \in 1 .. Len(chosen) : chosen[k] = f
      BY <1>3, <1>5, <1>6, <1>11 DEF Selects
    <2>2. \A a, b \in 1 .. Len(chosen) : chosen[a] = chosen[b] => a = b
      BY <1>4, <1>5 DEF Selects
    <2>3. \A j \in 1 .. Len(es) : es[j].id = f.id => j = k
      BY <1>8, <1>10, <2>1, <2>2
    <2>4. k \in 1 .. Len(es) /\ es[k].id = f.id
      BY <1>8, <2>1
    <2>5. QED
      BY <2>3, <2>4 DEF HasOnce
  <1>12. ASSUME ~filterNegate(f, negate) PROVE HasNever(es, f.id)
    <2>1. \A k \in 1 .. Len(chosen) : chosen[k] \in set
      BY <1>5 DEF Selects
    <2>2. \A k \in 1 .. Len(chosen) : chosen[k].id # f.id
      BY <1>6, <1>10, <1>12, <2>1
    <2>3. QED
      BY <1>8, <2>2 DEF HasNever
  <1>13. QED
    BY <1>8, <1>9, <1>11, <1>12

(* Of the two signs a filter has one.                                      *)
LEMMA OneSign ==
    ASSUME NEW f
    PROVE  filterNegate(f, TRUE) <=> ~filterNegate(f, FALSE)
  BY DEF filterNegate

(* Every filter is in the query that is asked, once.                       *)
LEMMA FilterAsked ==
    ASSUME NEW q \in ToSet(StoredQueries), NEW f \in ToSet(q.filters), NEW filterHosts
    PROVE  LET es == BuildEsQuery(q, filterHosts)
           IN  Cardinality({j \in DOMAIN es.filter : es.filter[j].id = f.id})
                   + Cardinality({j \in DOMAIN es.mustNot : es.mustNot[j].id = f.id}) = 1
  <1> DEFINE es == BuildEsQuery(q, filterHosts)
             id == f.id
             kuery == IF q.language = "kuery" /\ q.parses THEN Clause("kuery") ELSE <<>>
             range == Clause("range")
             own == filtersToESQueries(q.filters, FALSE)
             C == {[query |-> "kuery", id |-> 0], [query |-> "range", id |-> 0]} \cup Translations(q)
  <1>1. id # 0
    <2>1. /\ q.filters \in Seq(ToSet(q.filters))
          /\ \A i \in DOMAIN q.filters : q.filters[i].id # 0
      BY ElAssumption
    <2>2. PICK p \in DOMAIN q.filters : q.filters[p] = f
      BY DEF ToSet
    <2>3. QED
      BY <2>1, <2>2
  <1>2. es.filter = kuery \o own \o range /\ es.mustNot = filtersToESQueries(q.filters, TRUE)
    BY DEF BuildEsQuery
  <1>3. kuery \in Seq(C) /\ HasNever(kuery, id)
    <2>1. CASE kuery = <<>>
      <3>1. Len(kuery) = 0 /\ kuery \in Seq(C)
        BY <2>1, EmptySeq
      <3>2. QED
        BY <3>1 DEF HasNever
    <2>2. CASE kuery = Clause("kuery")
      <3>1. kuery = <<[query |-> "kuery", id |-> 0]>>
        BY <2>2 DEF Clause
      <3> HIDE DEF kuery
      <3>2. kuery \in Seq(C) /\ Len(kuery) = 1 /\ kuery[1].id = 0
        BY <3>1
      <3>3. QED
        BY <1>1, <3>2 DEF HasNever
    <2>3. QED
      BY <2>1, <2>2
  <1>4. range \in Seq(C) /\ HasNever(range, id)
    <2>1. range = <<[query |-> "range", id |-> 0]>>
      BY DEF Clause
    <2> HIDE DEF range
    <2>2. range \in Seq(C) /\ Len(range) = 1 /\ range[1].id = 0
      BY <2>1
    <2>3. QED
      BY <1>1, <2>2 DEF HasNever
  <1>5. /\ own \in Seq(Translations(q)) /\ es.mustNot \in Seq(Translations(q))
        /\ filterNegate(f, FALSE) => HasOnce(own, id) /\ HasNever(es.mustNot, id)
        /\ ~filterNegate(f, FALSE) => HasNever(own, id) /\ HasOnce(es.mustNot, id)
    <2> HIDE DEF es
    <2>1. /\ own \in Seq(Translations(q))
          /\ filterNegate(f, FALSE) => HasOnce(own, id)
          /\ ~filterNegate(f, FALSE) => HasNever(own, id)
      BY FiltersOfASign
    <2>2. /\ es.mustNot \in Seq(Translations(q))
          /\ filterNegate(f, TRUE) => HasOnce(es.mustNot, id)
          /\ ~filterNegate(f, TRUE) => HasNever(es.mustNot, id)
      BY <1>2, FiltersOfASign
    <2>3. QED
      BY <2>1, <2>2, OneSign
  <1> HIDE DEF es, id, kuery, range, own
  <1>6. own \in Seq(C)
    <2>1. Translations(q) \subseteq C
      OBVIOUS
    <2> HIDE DEF C
    <2>2. QED
      BY <1>5, <2>1, SeqMonotonic
  <1> HIDE DEF C
  <1>7. kuery \o own \in Seq(C) /\ kuery \o own \o range \in Seq(C)
    BY <1>3, <1>4, <1>6, ConcatProperties
  <1>8. HasOnce(own, id) => HasOnce(kuery \o own \o range, id)
    BY <1>3, <1>4, <1>6, <1>7, IdsConcatenated
  <1>9. HasNever(own, id) => HasNever(kuery \o own \o range, id)
    BY <1>3, <1>4, <1>6, <1>7, IdsConcatenated
  <1>10. QED
    <2> DEFINE a == HasTimes(es.filter, id)
               b == HasTimes(es.mustNot, id)
    <2>1. es.filter \in Seq(C)
          /\ (HasOnce(own, id) => HasOnce(es.filter, id)) /\ (HasNever(own, id) => HasNever(es.filter, id))
      BY <1>2, <1>7, <1>8, <1>9
    <2>2. ASSUME filterNegate(f, FALSE) PROVE a = 1 /\ b = 0
      BY <1>5, <2>1, <2>2, IdsCounted
    <2>3. ASSUME ~filterNegate(f, FALSE) PROVE a = 0 /\ b = 1
      BY <1>5, <2>1, <2>3, IdsCounted
    <2> HIDE DEF a, b
    <2>4. (a = 1 /\ b = 0) \/ (a = 0 /\ b = 1)
      BY <2>2, <2>3, Zenon
    <2>5. a + b = 1
      BY <2>4
    <2>6. QED
      BY <2>5 DEF HasTimes, es, id, a, b

(* A nonempty set of numbers up to N has a greatest.                       *)
LEMMA GreatestOf ==
    ASSUME NEW N \in Nat, NEW T, T \subseteq 0 .. N, T # {}
    PROVE  \E x \in T : \A y \in T : x >= y
  <1> DEFINE D == {N - y : y \in T}
  <1>1. D \subseteq Nat /\ D # {}
    <2>1. \A y \in T : N - y \in Nat
      OBVIOUS
    <2>2. QED
      BY <2>1
  <1>2. PICK d \in D : \A e \in D : d <= e
    <2> HIDE DEF D
    <2>1. QED
      BY <1>1, SmallestOf
  <1>3. PICK x \in T : d = N - x
    BY <1>2
  <1>4. ASSUME NEW y \in T PROVE x >= y
    <2>1. N - x <= N - y
      BY <1>2, <1>3
    <2>2. x \in 0 .. N /\ y \in 0 .. N
      BY <1>3, <1>4
    <2>3. QED
      BY <2>1, <2>2
  <1>5. QED
    BY <1>3, <1>4

(* What is found are stored queries, whatever Kibana answers.              *)
LEMMA FindsStored ==
    ASSUME NEW replies, Len(replies) \in Nat
    PROVE  FindSO(replies) \in Seq(ToSet(StoredQueries))
  <1> DEFINE Q == ToSet(StoredQueries)
             N == Len(StoredQueries)
             good == {i \in 0 .. Len(replies) : \A j \in 1 .. i : replies[j] = "ok"}
             n == Max(good)
             ends == {N, n * PerPage}
             m == Min(ends)
  <1>1. StoredQueries \in Seq(Q) /\ PerPage \in Nat
    BY ElAssumption
  <1>2. N \in Nat
    BY <1>1, LenProperties
  <1>3. n \in Nat
    <2>1. good \subseteq 0 .. Len(replies) /\ 0 \in good
      OBVIOUS
    <2> HIDE DEF good
    <2>2. \E x \in good : \A y \in good : x >= y
      BY <2>1, GreatestOf
    <2>3. n \in good
      BY <2>2 DEF Max
    <2> HIDE DEF n
    <2>4. QED
      BY <2>1, <2>3
  <1>4. FindSO(replies) \in {<<>>, SubSeq(StoredQueries, 1, m)}
    BY DEF FindSO
  <1> HIDE DEF n, N
  <1>5. m \in 0 .. N
    <2>1. n * PerPage \in Nat
      BY <1>1, <1>3
    <2> DEFINE k == n * PerPage
    <2> HIDE DEF k
    <2>2. \E x \in {N, k} : \A y \in {N, k} : x <= y
      <3>1. N <= k \/ k <= N
        BY <1>2, <2>1 DEF k
      <3>2. QED
        BY <1>2, <2>1, <3>1 DEF k
    <2>3. m \in {N, k} /\ \A y \in {N, k} : m <= y
      BY <2>2 DEF Min, k
    <2> HIDE DEF m
    <2>4. m <= N /\ m \in Nat
      BY <1>2, <2>1, <2>3 DEF k
    <2>5. QED
      BY <1>2, <2>4
  <1> HIDE DEF m, Q
  <1>6. SubSeq(StoredQueries, 1, m) \in Seq(Q)
    <2>1. \A i \in 1 .. m : i \in 1 .. Len(StoredQueries)
      BY <1>2, <1>5 DEF N
    <2>2. \A i \in 1 .. m : StoredQueries[i] \in Q
      BY <1>1, <2>1, ElementOfSeq
    <2>3. QED
      BY <1>1, <1>5, <2>1, <2>2, SubSeqProperties DEF N
  <1>7. <<>> \in Seq(Q)
    BY EmptySeq
  <1>8. QED
    BY <1>4, <1>6, <1>7 DEF Q

(* What is retrieved are stored queries.                                   *)
LEMMA RetrievesStored ==
    ASSUME NEW replies, Len(replies) \in Nat, NEW titles
    PROVE  RetrieveStoredQueries(replies, titles) \in Seq(ToSet(StoredQueries))
  <1> DEFINE set == {q \in ToSet(StoredQueries) : titles = {} \/ q.title \in titles}
  <1>1. RetrieveStoredQueries(replies, titles) = Selected(FindSO(replies), set)
    BY DEF RetrieveStoredQueries
  <1> HIDE DEF set
  <1>2. QED
    BY <1>1, FindsStored, SelectsAll

-----------------------------------------------------------------------------
(* Rounds *)

(* The hits counted for a host and a query, and hits as                    *)
(* HitsAreOfThisRound has them.                                            *)
HitsOf(C, h, m) == {c[3] : c \in {c \in C : c[1] = h /\ c[2] = m}}
HitOk(v, hits, mixed) == IF hits = {} THEN v = 0 ELSE v \in hits \cup (IF mixed THEN {0} ELSE {})
HostsOk(hosts, C, mixed) ==
    \A h \in DOMAIN hosts : \A m \in DOMAIN hosts[h].services : HitOk(hosts[h].services[m], HitsOf(C, h, m), mixed)
NoHits(hosts) == \A h \in DOMAIN hosts : \A m \in DOMAIN hosts[h].services : hosts[h].services[m] = 0

ElTyped ==
    /\ elPhase \in [ElRounds -> {"idle", "hosts", "assign", "views", "queries"}]
    /\ elTodo \in [ElRounds -> Seq(ToSet(StoredQueries))]
    /\ DOMAIN elFresh = ElRounds /\ DOMAIN elCounted = ElRounds
    /\ DOMAIN elStates = ElRounds \cup {Load} /\ elCurrent \in ElRounds \cup {Load}
    /\ ElOverlap \subseteq elMixed

(* A round that runs alone has the current state, or makes one of all its  *)
(* hosts.                                                                  *)
RoundOk(r) ==
    /\ elPhase[r] = "idle" => elCounted[r] = {}
    /\ elPhase[r] = "assign" => NoHits(elFresh[r].hosts)
    /\ elPhase[r] \in {"views", "queries"} => HostsOk(elStates[r].hosts, elCounted[r], r \in elMixed)
    /\ r \notin elMixed /\ elPhase[r] \in {"hosts", "assign"} =>
            elCounted[r] = {} /\ DOMAIN monitoringState.hosts \subseteq DOMAIN elFresh[r].hosts
    /\ r \notin elMixed /\ elPhase[r] \in {"views", "queries"} => elCurrent = r

RoundsOk == ElTyped /\ InventoryIsKnown /\ \A r \in ElRounds : RoundOk(r)

(* What every step does to the history of overlaps.                        *)
MixedNext == elMixed' = (elMixed \cap ElActive') \cup ElOverlap'

(* The hosts of a new state are those known before and have no hits.       *)
LEMMA FreshHosts ==
    ASSUME NEW metrics, NEW known, NEW esHosts
    PROVE  LET hosts == initMonitoringState(metrics, known, esHosts).hosts
           IN  DOMAIN known \subseteq DOMAIN hosts /\ NoHits(hosts)
  <1> DEFINE all == Over(known, esHosts)
             none == [m \in metrics |-> 0]
             hosts == [h \in DOMAIN all |-> [groups |-> all[h].groups, services |-> none]]
  <1>1. initMonitoringState(metrics, known, esHosts).hosts = hosts
    BY DEF initMonitoringState
  <1>2. DOMAIN known \subseteq DOMAIN all
    BY DEF Over
  <1> HIDE DEF all
  <1>3. DOMAIN hosts = DOMAIN all /\ \A h \in DOMAIN all : hosts[h].services = none
    OBVIOUS
  <1>4. \A m \in DOMAIN none : none[m] = 0
    OBVIOUS
  <1> HIDE DEF hosts, none
  <1>5. NoHits(hosts)
    BY <1>3, <1>4 DEF NoHits
  <1>6. QED
    BY <1>1, <1>2, <1>3, <1>5

(* The hosts of the state before are known.                                *)
LEMMA HostsKnown ==
    ASSUME NEW earlier, NEW first
    PROVE  DOMAIN earlier \subseteq DOMAIN KnownHosts(earlier, first)
  <1> DEFINE kept == [h \in DOMAIN earlier |-> [groups |-> earlier[h].groups]]
             gw == IF first THEN initGwHosts ELSE Nothing
  <1>1. KnownHosts(earlier, first) = Over(gw, kept) /\ DOMAIN kept = DOMAIN earlier
    BY DEF KnownHosts
  <1> HIDE DEF kept, gw
  <1>2. DOMAIN Over(gw, kept) = DOMAIN gw \cup DOMAIN kept
    BY DEF Over
  <1>3. QED
    BY <1>1, <1>2

(* A count goes to the service of its query and to no other.               *)
LEMMA UpdatesHosts ==
    ASSUME NEW hosts, NEW values, NEW query
    PROVE  LET new == updateHosts(hosts, values, query)
           IN  /\ DOMAIN new = DOMAIN hosts
               /\ \A h \in DOMAIN hosts :
                    /\ DOMAIN new[h].services = DOMAIN hosts[h].services
                    /\ \A m \in DOMAIN hosts[h].services :
                        new[h].services[m] =
                            IF m = query /\ h \in DOMAIN values THEN values[h] ELSE hosts[h].services[m]
  <1> DEFINE services(h) == [m \in DOMAIN hosts[h].services |->
                                IF m = query /\ h \in DOMAIN values THEN values[h] ELSE hosts[h].services[m]]
             new == [h \in DOMAIN hosts |-> [groups |-> hosts[h].groups, services |-> services(h)]]
  <1>1. updateHosts(hosts, values, query) = new
    BY DEF updateHosts
  <1>2. \A h : /\ DOMAIN services(h) = DOMAIN hosts[h].services
               /\ \A m \in DOMAIN hosts[h].services :
                    services(h)[m] = IF m = query /\ h \in DOMAIN values THEN values[h] ELSE hosts[h].services[m]
    OBVIOUS
  <1> HIDE DEF services
  <1>3. DOMAIN new = DOMAIN hosts /\ \A h \in DOMAIN hosts : new[h].services = services(h)
    OBVIOUS
  <1> HIDE DEF new
  <1>4. QED
    BY <1>1, <1>2, <1>3

(* The hits that are known after a count.                                  *)
LEMMA HitsCounted ==
    ASSUME NEW C, NEW values, NEW query, NEW h, NEW m
    PROVE  HitsOf(C \cup Triples(values, query), h, m) =
                HitsOf(C, h, m) \cup (IF m = query /\ h \in DOMAIN values THEN {values[h]} ELSE {})
  <1> DEFINE D == Triples(values, query)
             new == {c \in D : c[1] = h /\ c[2] = m}
  <1>1. HitsOf(C \cup D, h, m) = HitsOf(C, h, m) \cup {c[3] : c \in new}
    BY DEF HitsOf
  <1>2. new = IF m = query /\ h \in DOMAIN values THEN {<<h, query, values[h]>>} ELSE {}
    <2>1. \A c \in D : \E k \in DOMAIN values : c = <<k, query, values[k]>> /\ c[1] = k /\ c[2] = query
      BY DEF Triples
    <2>2. ASSUME NEW k \in DOMAIN values
          PROVE  <<k, query, values[k]>> \in D /\ <<k, query, values[k]>>[1] = k /\ <<k, query, values[k]>>[2] = query
      BY DEF Triples
    <2> HIDE DEF D
    <2>3. CASE m = query /\ h \in DOMAIN values
      BY <2>1, <2>2, <2>3
    <2>4. CASE ~(m = query /\ h \in DOMAIN values)
      BY <2>1, <2>4
    <2>5. QED
      BY <2>3, <2>4
  <1>3. {c[3] : c \in new} = IF m = query /\ h \in DOMAIN values THEN {values[h]} ELSE {}
    <2> HIDE DEF new
    <2>1. CASE m = query /\ h \in DOMAIN values
      <3>1. new = {<<h, query, values[h]>>} /\ <<h, query, values[h]>>[3] = values[h]
        BY <1>2, <2>1
      <3>2. QED
        BY <2>1, <3>1
    <2>2. CASE ~(m = query /\ h \in DOMAIN values)
      BY <1>2, <2>2
    <2>3. QED
      BY <2>1, <2>2
  <1> HIDE DEF new
  <1>4. QED
    BY <1>1, <1>3

(* A count keeps the hits in order: those of the state it updates, and     *)
(* those of a state that misses it, if its round is not alone.             *)
LEMMA CountKeepsHits ==
    ASSUME NEW hosts, NEW C, NEW mixed \in BOOLEAN, NEW values, NEW query, HostsOk(hosts, C, mixed)
    PROVE  LET D == C \cup Triples(values, query)
           IN  HostsOk(updateHosts(hosts, values, query), D, mixed) /\ HostsOk(hosts, D, TRUE)
  <1> DEFINE D == C \cup Triples(values, query)
             new == updateHosts(hosts, values, query)
             own(h, m) == IF m = query /\ h \in DOMAIN values THEN {values[h]} ELSE {}
  <1>1. ASSUME NEW h, NEW m PROVE HitsOf(D, h, m) = HitsOf(C, h, m) \cup own(h, m)
    BY HitsCounted
  <1>2. /\ DOMAIN new = DOMAIN hosts
        /\ \A h \in DOMAIN hosts :
             /\ DOMAIN new[h].services = DOMAIN hosts[h].services
             /\ \A m \in DOMAIN hosts[h].services :
                    new[h].services[m] = IF m = query /\ h \in DOMAIN values THEN values[h] ELSE hosts[h].services[m]
    BY UpdatesHosts
  <1> HIDE DEF D, new
  <1>3. ASSUME NEW h \in DOMAIN hosts, NEW m \in DOMAIN hosts[h].services
        PROVE  /\ HitOk(new[h].services[m], HitsOf(D, h, m), mixed)
               /\ HitOk(hosts[h].services[m], HitsOf(D, h, m), TRUE)
    <2>1. HitOk(hosts[h].services[m], HitsOf(C, h, m), mixed)
      BY <1>3 DEF HostsOk
    <2>2. HitsOf(D, h, m) = HitsOf(C, h, m) \cup own(h, m)
      BY <1>1
    <2>3. new[h].services[m] = IF m = query /\ h \in DOMAIN values THEN values[h] ELSE hosts[h].services[m]
      BY <1>2
    <2>4. QED
      BY <2>1, <2>2, <2>3 DEF HitOk
  <1>4. HostsOk(new, D, mixed)
    BY <1>2, <1>3 DEF HostsOk
  <1>5. HostsOk(hosts, D, TRUE)
    BY <1>3 DEF HostsOk
  <1>6. QED
    BY <1>4, <1>5 DEF new, D

(* What holds of a round alone holds of a mixed one.                       *)
LEMMA HitsWeaken ==
    ASSUME NEW hosts, NEW C, NEW mixed \in BOOLEAN, HostsOk(hosts, C, mixed)
    PROVE  HostsOk(hosts, C, TRUE)
  BY DEF HostsOk, HitOk

(* A state without hits is in order, if its round counted nothing or is    *)
(* not alone.                                                              *)
LEMMA NoHitsInOrder ==
    ASSUME NEW hosts, NEW C, NEW mixed \in BOOLEAN, NoHits(hosts), C = {} \/ mixed
    PROVE  HostsOk(hosts, C, mixed)
  <1> SUFFICES ASSUME NEW h \in DOMAIN hosts, NEW m \in DOMAIN hosts[h].services
               PROVE  HitOk(hosts[h].services[m], HitsOf(C, h, m), mixed)
    BY DEF HostsOk
  <1>1. hosts[h].services[m] = 0
    BY DEF NoHits
  <1>2. C = {} => HitsOf(C, h, m) = {}
    BY DEF HitsOf
  <1>3. QED
    BY <1>1, <1>2 DEF HitOk

(* A round beside another one is not alone.                                *)
LEMMA OthersMixed ==
    ASSUME ElTyped, MixedNext, NEW r \in ElRounds, NEW s \in ElRounds, s # r,
           elPhase[s] # "idle", elPhase'[s] # "idle", elPhase[r] # "idle" \/ elPhase'[r] # "idle"
    PROVE  s \in elMixed'
  <1>1. CASE elPhase[r] # "idle"
    <2>1. s \in ElOverlap
      BY <1>1 DEF ElOverlap, ElActive
    <2>2. s \in ElActive'
      BY DEF ElActive
    <2>3. QED
      BY <2>1, <2>2 DEF MixedNext, ElTyped
  <1>2. CASE elPhase'[r] # "idle"
    <2>1. s \in ElOverlap'
      BY <1>2 DEF ElOverlap, ElActive
    <2>2. QED
      BY <2>1 DEF MixedNext
  <1>3. QED
    BY <1>1, <1>2

(* A round that is under way stays what it was in that respect.            *)
LEMMA StaysMixed ==
    ASSUME MixedNext, NEW s \in ElRounds, elPhase'[s] # "idle"
    PROVE  s \in elMixed => s \in elMixed'
  <1>1. s \in ElActive'
    BY DEF ElActive
  <1>2. QED
    BY <1>1 DEF MixedNext

(* The rest of the type is kept by the history of overlaps itself.         *)
LEMMA OverlapIsMixed ==
    ASSUME MixedNext
    PROVE  ElOverlap' \subseteq elMixed'
  BY DEF MixedNext

(* The others keep their order while a round takes a step.                 *)
LEMMA OthersKept ==
    ASSUME RoundsOk, MixedNext, NEW r \in ElRounds, elPhase[r] # "idle" \/ elPhase'[r] # "idle",
           NEW s \in ElRounds, s # r, elPhase'[s] = elPhase[s], elFresh'[s] = elFresh[s],
           elCounted'[s] = elCounted[s], elStates'[s].hosts = elStates[s].hosts
    PROVE  RoundOk(s)'
  <1>1. RoundOk(s) /\ ElTyped
    BY DEF RoundsOk
  <1>2. CASE elPhase[s] = "idle"
    BY <1>1, <1>2 DEF RoundOk
  <1>3. CASE elPhase[s] # "idle"
    <2>1. s \in elMixed'
      BY <1>1, <1>3, OthersMixed
    <2>2. elPhase[s] = "assign" => NoHits(elFresh[s].hosts)
      BY <1>1 DEF RoundOk
    <2>3. ASSUME elPhase[s] \in {"views", "queries"} PROVE HostsOk(elStates[s].hosts, elCounted[s], TRUE)
      <3>1. HostsOk(elStates[s].hosts, elCounted[s], s \in elMixed)
        BY <1>1, <2>3 DEF RoundOk
      <3>2. (s \in elMixed) \in BOOLEAN
        OBVIOUS
      <3>3. QED
        BY <3>1, <3>2, HitsWeaken, Zenon
    <2>4. elPhase'[s] \in {"views", "queries"} => HostsOk(elStates'[s].hosts, elCounted'[s], s \in elMixed')
      <3>1. (s \in elMixed') = TRUE
        BY <2>1
      <3>2. QED
        BY <2>3, <3>1
    <2>5. elPhase'[s] = "assign" => NoHits(elFresh'[s].hosts)
      BY <2>2
    <2>6. QED
      BY <1>3, <2>1, <2>4, <2>5 DEF RoundOk
  <1>4. QED
    BY <1>2, <1>3
(* The hosts of the current state stay.                                    *)
HostsKept == DOMAIN monitoringState.hosts \subseteq DOMAIN monitoringState'.hosts

(* LoadConfig leaves the rounds alone until it assigns the state.          *)
LEMMA QuietStep ==
    ASSUME RoundsOk, MixedNext, UNCHANGED <<elStates, elCurrent, elPhase, elFresh, elTodo, elCounted, elSends>>
    PROVE  RoundsOk' /\ HostsKept
  <1>1. ElTyped /\ InventoryIsKnown
    BY DEF RoundsOk
  <1>2. ElTyped'
    BY <1>1, OverlapIsMixed DEF ElTyped
  <1>3. InventoryIsKnown'
    BY <1>1 DEF InventoryIsKnown, elSends
  <1>4. ASSUME NEW s \in ElRounds PROVE RoundOk(s)'
    <2>1. RoundOk(s)
      BY DEF RoundsOk
    <2>2. CASE elPhase[s] = "idle"
      BY <2>1, <2>2 DEF RoundOk
    <2>3. CASE elPhase[s] # "idle" /\ s \in elMixed'
      <3>1. elPhase[s] \in {"views", "queries"} => HostsOk(elStates[s].hosts, elCounted[s], TRUE)
        <4>1. (s \in elMixed) \in BOOLEAN
          OBVIOUS
        <4>2. elPhase[s] \in {"views", "queries"} => HostsOk(elStates[s].hosts, elCounted[s], s \in elMixed)
          BY <2>1 DEF RoundOk
        <4>3. QED
          BY <4>1, <4>2, HitsWeaken, Zenon
      <3>2. (s \in elMixed') = TRUE
        BY <2>3
      <3>3. elPhase'[s] \in {"views", "queries"} => HostsOk(elStates'[s].hosts, elCounted'[s], s \in elMixed')
        BY <3>1, <3>2
      <3>4. elPhase'[s] = "assign" => NoHits(elFresh'[s].hosts)
        BY <2>1 DEF RoundOk
      <3>5. QED
        BY <2>3, <3>3, <3>4 DEF RoundOk
    <2>4. CASE elPhase[s] # "idle" /\ s \notin elMixed'
      <3>1. s \notin elMixed
        BY <2>4, StaysMixed
      <3>2. (s \in elMixed') = FALSE /\ (s \in elMixed) = FALSE
        BY <2>4, <3>1
      <3>3. elPhase'[s] \in {"views", "queries"} => HostsOk(elStates'[s].hosts, elCounted'[s], s \in elMixed')
        BY <2>1, <3>2 DEF RoundOk
      <3>4. QED
        BY <2>1, <2>4, <3>1, <3>3 DEF RoundOk, monitoringState
    <2>5. QED
      BY <2>2, <2>3, <2>4
  <1>5. HostsKept
    BY DEF HostsKept, monitoringState
  <1>6. QED
    BY <1>2, <1>3, <1>4, <1>5 DEF RoundsOk

(* Its assignment overlaps whatever is under way.                          *)
LEMMA LoadsState ==
    ASSUME RoundsOk, MixedNext, LoadedState
    PROVE  RoundsOk'
  <1>1. ElTyped /\ InventoryIsKnown
    BY DEF RoundsOk
  <1>2. /\ elLoad = "state" /\ elCurrent' = Load
        /\ elStates' = [y \in DOMAIN elStates |->
                            IF y = Load THEN elNewState ELSE IF y \in ElActive THEN elStates[y] ELSE NoState]
        /\ UNCHANGED <<elPhase, elFresh, elTodo, elCounted, elSends>>
    BY DEF LoadedState, Assign
  <1>3. ElTyped'
    BY <1>1, <1>2, OverlapIsMixed DEF ElTyped
  <1>4. InventoryIsKnown'
    BY <1>1, <1>2 DEF InventoryIsKnown, elSends
  <1>5. ASSUME NEW s \in ElRounds PROVE RoundOk(s)'
    <2>1. RoundOk(s)
      BY DEF RoundsOk
    <2>2. CASE elPhase[s] = "idle"
      BY <1>2, <2>1, <2>2 DEF RoundOk
    <2>3. CASE elPhase[s] # "idle"
      <3>1. s \in ElActive /\ s \in ElOverlap
        BY <1>2, <2>3 DEF ElActive, ElOverlap
      <3>2. s \in elMixed /\ s \in elMixed'
        <4>1. s \in elMixed
          BY <1>1, <3>1 DEF ElTyped
        <4>2. QED
          BY <1>2, <2>3, <4>1, StaysMixed
      <3>3. elStates'[s] = elStates[s]
        BY <1>1, <1>2, <3>1, ElAssumption DEF ElTyped, Load
      <3>4. (s \in elMixed) = TRUE /\ (s \in elMixed') = TRUE
        BY <3>2
      <3>5. elPhase'[s] \in {"views", "queries"} => HostsOk(elStates'[s].hosts, elCounted'[s], s \in elMixed')
        BY <1>2, <2>1, <3>3, <3>4 DEF RoundOk
      <3>6. QED
        BY <1>2, <2>1, <2>3, <3>2, <3>5 DEF RoundOk
    <2>4. QED
      BY <2>2, <2>3
  <1>6. QED
    BY <1>3, <1>4, <1>5 DEF RoundsOk

(* A round begins.                                                         *)
LEMMA RoundBegins ==
    ASSUME RoundsOk, MixedNext, NEW r \in ElRounds, ElCollectMetrics(r)
    PROVE  RoundsOk' /\ HostsKept
  <1> DEFINE fresh == [metrics |-> elConfig.metrics, hosts |-> KnownHosts(monitoringState.hosts, ~doOnce)]
  <1>1. ElTyped /\ InventoryIsKnown
    BY DEF RoundsOk
  <1>2. /\ elPhase[r] = "idle"
        /\ elPhase' = [elPhase EXCEPT ![r] = "hosts"] /\ elFresh' = [elFresh EXCEPT ![r] = fresh]
        /\ UNCHANGED <<elStates, elCurrent, elTodo, elCounted, elSends>>
    BY DEF ElCollectMetrics
  <1>3. DOMAIN monitoringState.hosts \subseteq DOMAIN fresh.hosts
    BY HostsKnown
  <1> HIDE DEF fresh
  <1>4. ElTyped'
    BY <1>1, <1>2, OverlapIsMixed DEF ElTyped
  <1>5. InventoryIsKnown'
    BY <1>1, <1>2 DEF InventoryIsKnown, elSends
  <1>6. elPhase'[r] = "hosts" /\ elFresh'[r] = fresh
    BY <1>1, <1>2 DEF ElTyped
  <1>7. RoundOk(r)'
    <2>1. elCounted[r] = {}
      BY <1>2 DEF RoundsOk, RoundOk
    <2>2. QED
      BY <1>2, <1>3, <1>6, <2>1 DEF RoundOk, monitoringState
  <1>8. ASSUME NEW s \in ElRounds, s # r PROVE RoundOk(s)'
    <2>1. elPhase'[s] = elPhase[s] /\ elFresh'[s] = elFresh[s] /\ elCounted'[s] = elCounted[s] /\ elStates' = elStates
      BY <1>1, <1>2, <1>8 DEF ElTyped
    <2>2. QED
      BY <1>6, <1>8, <2>1, OthersKept
  <1>9. HostsKept
    BY <1>2 DEF HostsKept, monitoringState
  <1>10. QED
    BY <1>4, <1>5, <1>7, <1>8, <1>9 DEF RoundsOk

(* A round ends, in whatever way.                                          *)
LEMMA RoundEnds ==
    ASSUME RoundsOk, MixedNext, NEW r \in ElRounds, elPhase[r] # "idle", ElEnd(r), elCurrent' = elCurrent,
           InventoryIsKnown'
    PROVE  RoundsOk' /\ HostsKept
  <1>1. ElTyped
    BY DEF RoundsOk
  <1>2. /\ elPhase' = [elPhase EXCEPT ![r] = "idle"] /\ elFresh' = [elFresh EXCEPT ![r] = NoState]
        /\ elTodo' = [elTodo EXCEPT ![r] = <<>>] /\ elCounted' = [elCounted EXCEPT ![r] = {}]
        /\ elStates' = IF elCurrent = r THEN elStates ELSE [elStates EXCEPT ![r] = NoState]
    BY DEF ElEnd
  <1>3. DOMAIN elStates' = DOMAIN elStates /\ \A x \in DOMAIN elStates : x # r \/ x = elCurrent => elStates'[x] = elStates[x]
    BY <1>1, <1>2 DEF ElTyped
  <1>4. ElTyped'
    <2>1. elTodo' \in [ElRounds -> Seq(ToSet(StoredQueries))]
      <3>1. <<>> \in Seq(ToSet(StoredQueries))
        BY EmptySeq
      <3>2. QED
        BY <1>1, <1>2, <3>1 DEF ElTyped
    <2>2. QED
      BY <1>1, <1>2, <1>3, <2>1, OverlapIsMixed DEF ElTyped
  <1>5. elPhase'[r] = "idle" /\ elCounted'[r] = {}
    BY <1>1, <1>2 DEF ElTyped
  <1>6. RoundOk(r)'
    BY <1>5 DEF RoundOk
  <1>7. ASSUME NEW s \in ElRounds, s # r PROVE RoundOk(s)'
    <2>1. elPhase'[s] = elPhase[s] /\ elFresh'[s] = elFresh[s] /\ elCounted'[s] = elCounted[s]
      BY <1>1, <1>2, <1>7 DEF ElTyped
    <2>2. elStates'[s] = elStates[s]
      BY <1>1, <1>3, <1>7 DEF ElTyped
    <2>3. QED
      BY <1>7, <2>1, <2>2, OthersKept
  <1>8. HostsKept
    <2>1. elStates'[elCurrent] = elStates[elCurrent]
      BY <1>1, <1>3 DEF ElTyped
    <2>2. QED
      BY <2>1 DEF HostsKept, monitoringState
  <1>9. QED
    BY <1>4, <1>6, <1>7, <1>8 DEF RoundsOk

(* A round has its hosts, or panics.                                       *)
LEMMA RoundRetrieves ==
    ASSUME RoundsOk, MixedNext, NEW r \in ElRounds, RetrieveHosts(r)
    PROVE  RoundsOk' /\ HostsKept
  <1> DEFINE new(esHosts) == initMonitoringState(elFresh[r].metrics, elFresh[r].hosts, esHosts)
             Made(esHosts) ==
                /\ elPhase' = [elPhase EXCEPT ![r] = "assign"]
                /\ elFresh' = [elFresh EXCEPT ![r] = new(esHosts)]
                /\ UNCHANGED <<elStates, elTodo, elCounted>>
  <1>1. ElTyped /\ InventoryIsKnown
    BY DEF RoundsOk
  <1>2. /\ elPhase[r] = "hosts" /\ UNCHANGED <<elCurrent, elSends>>
        /\ (\E esHosts : Made(esHosts)) \/ ElEnd(r)
    BY Zenon DEF RetrieveHosts
  <1>3. InventoryIsKnown'
    BY <1>1, <1>2 DEF InventoryIsKnown, elSends
  <1>4. CASE ElEnd(r)
    BY <1>2, <1>3, <1>4, RoundEnds
  <1>5. CASE \E esHosts : Made(esHosts)
    <2>1. PICK esHosts : Made(esHosts)
      BY <1>5
    <2>2. PICK state : state = new(esHosts)
      OBVIOUS
    <2>3. DOMAIN elFresh[r].hosts \subseteq DOMAIN state.hosts /\ NoHits(state.hosts)
      BY <2>2, FreshHosts
    <2>4. /\ elPhase' = [elPhase EXCEPT ![r] = "assign"] /\ elFresh' = [elFresh EXCEPT ![r] = state]
          /\ UNCHANGED <<elStates, elTodo, elCounted, elCurrent>>
      BY <1>2, <2>1, <2>2
    <2> HIDE DEF Made, new
    <2>5. ElTyped'
      BY <1>1, <2>4, OverlapIsMixed DEF ElTyped
    <2>6. elPhase'[r] = "assign" /\ elFresh'[r] = state
      BY <1>1, <2>4 DEF ElTyped
    <2>7. RoundOk(r)'
      <3>1. r \notin elMixed' => r \notin elMixed
        BY <2>6, StaysMixed
      <3>2. r \notin elMixed => elCounted[r] = {} /\ DOMAIN monitoringState.hosts \subseteq DOMAIN elFresh[r].hosts
        BY <1>2 DEF RoundsOk, RoundOk
      <3>3. r \notin elMixed' => elCounted'[r] = {} /\ DOMAIN monitoringState'.hosts \subseteq DOMAIN elFresh'[r].hosts
        BY <2>3, <2>4, <2>6, <3>1, <3>2 DEF monitoringState
      <3>4. QED
        BY <2>3, <2>6, <3>3 DEF RoundOk
    <2>8. ASSUME NEW s \in ElRounds, s # r PROVE RoundOk(s)'
      <3>1. elPhase'[s] = elPhase[s] /\ elFresh'[s] = elFresh[s] /\ elCounted'[s] = elCounted[s] /\ elStates' = elStates
        BY <1>1, <2>4, <2>8 DEF ElTyped
      <3>2. QED
        BY <2>6, <2>8, <3>1, OthersKept
    <2>9. HostsKept
      BY <2>4 DEF HostsKept, monitoringState
    <2>10. QED
      BY <1>3, <2>5, <2>7, <2>8, <2>9 DEF RoundsOk
  <1>6. QED
    BY <1>2, <1>4, <1>5

(* A round assigns its state; if it is alone, with all the hosts.          *)
LEMMA RoundAssigns ==
    ASSUME RoundsOk, MixedNext, NEW r \in ElRounds, AssignState(r)
    PROVE  RoundsOk' /\ (elCurrent' \in elMixed \/ HostsKept)
  <1>1. ElTyped /\ InventoryIsKnown /\ RoundOk(r)
    BY DEF RoundsOk
  <1>2. /\ elPhase[r] = "assign" /\ elCurrent' = r
        /\ elStates' = [y \in DOMAIN elStates |->
                            IF y = r THEN elFresh[r] ELSE IF y \in ElActive THEN elStates[y] ELSE NoState]
        /\ elPhase' = [elPhase EXCEPT ![r] = "views"] /\ elFresh' = [elFresh EXCEPT ![r] = NoState]
        /\ UNCHANGED <<elTodo, elCounted, elSends>>
    BY DEF AssignState, Assign
  <1>3. ElTyped'
    BY <1>1, <1>2, OverlapIsMixed DEF ElTyped
  <1>4. InventoryIsKnown'
    BY <1>1, <1>2 DEF InventoryIsKnown, elSends
  <1>5. elPhase'[r] = "views" /\ elStates'[r] = elFresh[r] /\ elCounted'[r] = elCounted[r]
    BY <1>1, <1>2 DEF ElTyped
  <1>6. RoundOk(r)'
    <2>1. elCounted[r] = {} \/ r \in elMixed'
      <3>1. r \in elMixed => r \in elMixed'
        BY <1>5, StaysMixed
      <3>2. QED
        BY <1>1, <1>2, <3>1 DEF RoundOk
    <2>2. NoHits(elFresh[r].hosts)
      BY <1>1, <1>2 DEF RoundOk
    <2>3. (r \in elMixed') \in BOOLEAN
      OBVIOUS
    <2>4. HostsOk(elFresh[r].hosts, elCounted[r], r \in elMixed')
      BY <2>1, <2>2, <2>3, NoHitsInOrder, Zenon
    <2>5. QED
      BY <1>2, <1>5, <2>4 DEF RoundOk
  <1>7. ASSUME NEW s \in ElRounds, s # r PROVE RoundOk(s)'
    <2>1. elPhase'[s] = elPhase[s] /\ elFresh'[s] = elFresh[s] /\ elCounted'[s] = elCounted[s]
      BY <1>1, <1>2, <1>7 DEF ElTyped
    <2>2. CASE elPhase[s] = "idle"
      <3>1. RoundOk(s)
        BY DEF RoundsOk
      <3>2. QED
        BY <2>1, <2>2, <3>1 DEF RoundOk
    <2>3. CASE elPhase[s] # "idle"
      <3>1. elStates'[s] = elStates[s]
        <4>1. s \in ElActive
          BY <2>3 DEF ElActive
        <4>2. QED
          BY <1>1, <1>2, <1>7, <4>1 DEF ElTyped
      <3>2. QED
        BY <1>5, <1>7, <2>1, <3>1, OthersKept
    <2>4. QED
      BY <2>2, <2>3
  <1>8. elCurrent' \in elMixed \/ HostsKept
    <2>1. CASE r \in elMixed
      BY <1>2, <2>1
    <2>2. CASE r \notin elMixed
      <3>1. DOMAIN monitoringState.hosts \subseteq DOMAIN elFresh[r].hosts
        BY <1>1, <1>2, <2>2 DEF RoundOk
      <3>2. monitoringState' = elFresh[r]
        BY <1>2, <1>5 DEF monitoringState
      <3>3. QED
        BY <3>1, <3>2 DEF HostsKept
    <2>3. QED
      BY <2>1, <2>2
  <1>9. QED
    BY <1>3, <1>4, <1>6, <1>7, <1>8 DEF RoundsOk
(* The views add metrics to the current state, and no hits.                *)
LEMMA RoundViews ==
    ASSUME RoundsOk, MixedNext, NEW r \in ElRounds, CollectViews(r)
    PROVE  RoundsOk' /\ HostsKept
  <1>1. ElTyped /\ InventoryIsKnown /\ RoundOk(r)
    BY DEF RoundsOk
  <1> DEFINE Q == Seq(ToSet(StoredQueries))
  <1>2. /\ elPhase[r] = "views" /\ elPhase' = [elPhase EXCEPT ![r] = "queries"]
        /\ elStates' = [elStates EXCEPT ![elCurrent] = [metrics |-> monitoringState.metrics \cup elConfig.metrics,
                                                        hosts |-> monitoringState.hosts]]
        /\ UNCHANGED <<elCurrent, elFresh, elCounted, elSends>>
    BY DEF CollectViews
  <1>3. PICK replies \in [1..Pages(Len(StoredQueries)) -> KibanaReplies] :
            elTodo' = [elTodo EXCEPT ![r] = IF elConfig.metrics = {} THEN <<>>
                                            ELSE RetrieveStoredQueries(replies, elConfig.metrics)]
    BY DEF CollectViews
  <1>4. elTodo' \in [ElRounds -> Q]
    <2>1. Len(StoredQueries) \in Nat /\ PerPage \in Nat \ {0}
      BY ElAssumption, LenProperties
    <2>2. Pages(Len(StoredQueries)) \in Nat
      BY <2>1 DEF Pages
    <2>3. Len(replies) \in Nat
      BY <2>2
    <2>4. RetrieveStoredQueries(replies, elConfig.metrics) \in Q
      BY <2>3, RetrievesStored
    <2>5. <<>> \in Q
      BY EmptySeq
    <2> HIDE DEF Q
    <2>6. elTodo \in [ElRounds -> Q]
      BY <1>1 DEF ElTyped, Q
    <2>7. QED
      BY <1>3, <2>4, <2>5, <2>6
  <1>5. DOMAIN elStates' = DOMAIN elStates /\ \A x \in DOMAIN elStates : elStates'[x].hosts = elStates[x].hosts
    BY <1>1, <1>2 DEF ElTyped, monitoringState
  <1>6. ElTyped'
    BY <1>1, <1>2, <1>4, <1>5, OverlapIsMixed DEF ElTyped
  <1>7. InventoryIsKnown'
    BY <1>1, <1>2 DEF InventoryIsKnown, elSends
  <1>8. elPhase'[r] = "queries" /\ elStates'[r].hosts = elStates[r].hosts
    BY <1>1, <1>2, <1>5 DEF ElTyped
  <1>9. RoundOk(r)'
    <2>1. HostsOk(elStates[r].hosts, elCounted[r], r \in elMixed) /\ (r \notin elMixed => elCurrent = r)
      BY <1>1, <1>2 DEF RoundOk
    <2>2. r \in elMixed => r \in elMixed'
      BY <1>8, StaysMixed
    <2>3. HostsOk(elStates[r].hosts, elCounted[r], r \in elMixed')
      <3>1. CASE r \in elMixed'
        <4>1. (r \in elMixed) \in BOOLEAN /\ (r \in elMixed') = TRUE
          BY <3>1
        <4>2. HostsOk(elStates[r].hosts, elCounted[r], TRUE)
          BY <2>1, <4>1, HitsWeaken, Zenon
        <4>3. QED
          BY <4>1, <4>2
      <3>2. CASE r \notin elMixed'
        <4>1. (r \in elMixed) = FALSE /\ (r \in elMixed') = FALSE
          BY <2>2, <3>2
        <4>2. QED
          BY <2>1, <4>1
      <3>3. QED
        BY <3>1, <3>2
    <2>4. QED
      BY <1>2, <1>8, <2>1, <2>2, <2>3 DEF RoundOk
  <1>10. ASSUME NEW s \in ElRounds, s # r PROVE RoundOk(s)'
    <2>1. elPhase'[s] = elPhase[s] /\ elFresh'[s] = elFresh[s] /\ elCounted'[s] = elCounted[s]
      BY <1>1, <1>2, <1>10 DEF ElTyped
    <2>2. elStates'[s].hosts = elStates[s].hosts
      BY <1>1, <1>5 DEF ElTyped
    <2>3. QED
      BY <1>8, <1>10, <2>1, <2>2, OthersKept
  <1>11. HostsKept
    BY <1>1, <1>2, <1>5 DEF ElTyped, HostsKept, monitoringState
  <1>12. QED
    BY <1>6, <1>7, <1>9, <1>10, <1>11 DEF RoundsOk

(* What a count does.                                                      *)
Given(r, counts, title) ==
    /\ elTodo' = [elTodo EXCEPT ![r] = Tail(elTodo[r])]
    /\ elStates' = [elStates EXCEPT ![elCurrent] =
                        [metrics |-> monitoringState.metrics,
                         hosts |-> updateHosts(monitoringState.hosts, counts, title)]]
    /\ elCounted' = [s \in ElRounds |->
                        IF s \in ElActive THEN elCounted[s] \cup Triples(counts, title) ELSE elCounted[s]]

(* A count goes to the current state and to the history of every round     *)
(* under way.                                                              *)
LEMMA RoundCounted ==
    ASSUME RoundsOk, MixedNext, NEW r \in ElRounds, elPhase[r] = "queries", elTodo[r] # <<>>,
           NEW counts, NEW title, Given(r, counts, title), UNCHANGED <<elPhase, elFresh, elCurrent, elSends>>
    PROVE  RoundsOk' /\ HostsKept
  <1> USE DEF Given
  <1>1. ElTyped /\ InventoryIsKnown
    BY DEF RoundsOk
  <1>2. /\ DOMAIN elStates' = DOMAIN elStates
        /\ elStates'[elCurrent].hosts = updateHosts(elStates[elCurrent].hosts, counts, title)
        /\ \A x \in DOMAIN elStates : x # elCurrent => elStates'[x] = elStates[x]
    BY <1>1 DEF ElTyped, monitoringState
  <1>3. ElTyped'
    <2> DEFINE Q == Seq(ToSet(StoredQueries))
    <2>1. Tail(elTodo[r]) \in Q
      BY <1>1, HeadTailProperties DEF ElTyped
    <2>2. elTodo \in [ElRounds -> Q]
      BY <1>1 DEF ElTyped
    <2> HIDE DEF Q
    <2>3. elTodo' \in [ElRounds -> Q]
      BY <2>1, <2>2
    <2>4. QED
      BY <1>1, <1>2, <2>3, OverlapIsMixed DEF ElTyped, Q
  <1>4. InventoryIsKnown'
    BY <1>1 DEF InventoryIsKnown, elSends
  <1>5. ASSUME NEW s \in ElRounds PROVE RoundOk(s)'
    <2>1. RoundOk(s)
      BY DEF RoundsOk
    <2>2. CASE elPhase[s] = "idle"
      <3>1. elCounted'[s] = elCounted[s]
        BY <2>2 DEF ElActive
      <3>2. QED
        BY <2>1, <2>2, <3>1 DEF RoundOk
    <2>3. CASE elPhase[s] # "idle"
      <3>1. elCounted'[s] = elCounted[s] \cup Triples(counts, title)
        BY <2>3 DEF ElActive
      <3>2. s \in elMixed => s \in elMixed'
        BY <2>3, StaysMixed
      <3>3. s = r \/ s \in elMixed'
        BY <1>1, <2>3, OthersMixed
      <3>4. ASSUME elPhase[s] \in {"views", "queries"}
            PROVE  HostsOk(elStates'[s].hosts, elCounted'[s], s \in elMixed')
        <4>1. HostsOk(elStates[s].hosts, elCounted[s], s \in elMixed)
          BY <2>1, <3>4 DEF RoundOk
        <4>2. PICK mixed \in BOOLEAN : mixed = (s \in elMixed)
          <5>1. (s \in elMixed) \in BOOLEAN
            OBVIOUS
          <5>2. QED
            BY <5>1, Zenon
        <4>3. HostsOk(elStates[s].hosts, elCounted[s], mixed)
          BY <4>1, <4>2
        <4>4. /\ HostsOk(updateHosts(elStates[s].hosts, counts, title), elCounted'[s], mixed)
              /\ HostsOk(elStates[s].hosts, elCounted'[s], TRUE)
          <5>1. LET D == elCounted[s] \cup Triples(counts, title)
                IN  HostsOk(updateHosts(elStates[s].hosts, counts, title), D, mixed) /\ HostsOk(elStates[s].hosts, D, TRUE)
            BY <4>3, CountKeepsHits
          <5>2. QED
            BY <3>1, <5>1, Zenon
        <4>5. CASE elCurrent = s
          <5>1. HostsOk(elStates'[s].hosts, elCounted'[s], mixed)
            BY <1>2, <4>4, <4>5
          <5>2. CASE s \in elMixed'
            <6>1. HostsOk(elStates'[s].hosts, elCounted'[s], TRUE)
              BY <5>1, HitsWeaken
            <6>2. (s \in elMixed') = TRUE
              BY <5>2
            <6>3. QED
              BY <6>1, <6>2
          <5>3. CASE s \notin elMixed'
            <6>1. (s \in elMixed') = mixed
              BY <3>2, <4>2, <5>3
            <6>2. QED
              BY <5>1, <6>1
          <5>4. QED
            BY <5>2, <5>3
        <4>6. CASE elCurrent # s
          <5>1. s \in elMixed
            BY <2>1, <3>4, <4>6 DEF RoundOk
          <5>2. (s \in elMixed') = TRUE
            BY <3>2, <5>1
          <5>3. elStates'[s] = elStates[s]
            BY <1>1, <1>2, <4>6 DEF ElTyped
          <5>4. QED
            BY <4>4, <5>2, <5>3
        <4>7. QED
          BY <4>5, <4>6
      <3>5. elPhase[s] = "assign" => NoHits(elFresh[s].hosts)
        BY <2>1 DEF RoundOk
      <3>6. s \notin elMixed' => s = r /\ s \notin elMixed /\ elCurrent = s
        BY <2>1, <3>2, <3>3 DEF RoundOk
      <3>7. elPhase'[s] \in {"hosts", "assign"} => s \in elMixed'
        BY <3>3
      <3>8. QED
        BY <2>3, <3>4, <3>5, <3>6, <3>7 DEF RoundOk
    <2>4. QED
      BY <2>2, <2>3
  <1>6. HostsKept
    <2>1. DOMAIN elStates'[elCurrent].hosts = DOMAIN elStates[elCurrent].hosts
      BY <1>2, UpdatesHosts
    <2>2. QED
      BY <2>1 DEF HostsKept, monitoringState
  <1>7. QED
    BY <1>3, <1>4, <1>5, <1>6 DEF RoundsOk

(* The collection breaks off: the round has no more queries.               *)
LEMMA RoundBreaksOff ==
    ASSUME RoundsOk, MixedNext, NEW r \in ElRounds, elTodo' = [elTodo EXCEPT ![r] = <<>>],
           UNCHANGED <<elStates, elCounted, elPhase, elFresh, elCurrent, elSends>>
    PROVE  RoundsOk' /\ HostsKept
  <1>1. ElTyped
    BY DEF RoundsOk
  <1>2. elTodo' \in [ElRounds -> Seq(ToSet(StoredQueries))]
    <2>1. <<>> \in Seq(ToSet(StoredQueries))
      BY EmptySeq
    <2>2. QED
      BY <1>1, <2>1 DEF ElTyped
  <1>3. ElTyped'
    BY <1>1, <1>2, OverlapIsMixed DEF ElTyped
  <1>4. InventoryIsKnown'
    BY DEF RoundsOk, InventoryIsKnown, elSends
  <1>5. ASSUME NEW s \in ElRounds PROVE RoundOk(s)'
    <2>1. RoundOk(s)
      BY DEF RoundsOk
    <2>2. PICK mixed \in BOOLEAN : mixed = (s \in elMixed)
      <3>1. (s \in elMixed) \in BOOLEAN
        OBVIOUS
      <3>2. QED
        BY <3>1, Zenon
    <2>3. PICK after \in BOOLEAN : after = (s \in elMixed')
      <3>1. (s \in elMixed') \in BOOLEAN
        OBVIOUS
      <3>2. QED
        BY <3>1, Zenon
    <2>4. elPhase[s] # "idle" => (mixed => after)
      BY <2>2, <2>3, StaysMixed
    <2>5. elPhase[s] \in {"views", "queries"} => HostsOk(elStates[s].hosts, elCounted[s], mixed)
      BY <2>1, <2>2 DEF RoundOk
    <2>6. elPhase[s] \in {"views", "queries"} => HostsOk(elStates[s].hosts, elCounted[s], after)
      BY <2>4, <2>5, HitsWeaken
    <2>7. QED
      BY <2>1, <2>2, <2>3, <2>4, <2>6 DEF RoundOk, monitoringState
  <1>6. HostsKept
    BY DEF HostsKept, monitoringState
  <1>7. QED
    BY <1>3, <1>4, <1>5, <1>6 DEF RoundsOk

(* A stored query is asked for with all its filters.                       *)
LEMMA RoundCounts ==
    ASSUME RoundsOk, MixedNext, NEW r \in ElRounds, collectStoredQueriesMetrics(r)
    PROVE  RoundsOk' /\ HostsKept /\ FiltersAppliedOnce'
  <1>1. ElTyped /\ InventoryIsKnown
    BY DEF RoundsOk
  <1>2. PICK q : q = Head(elTodo[r])
    OBVIOUS
  <1> DEFINE Asked == \E w, i : elAsked' = <<w, i, BuildEsQuery(q, lucene), q>>
             Counted(counts) == Given(r, counts, q.title)
             BrokenOff == elTodo' = [elTodo EXCEPT ![r] = <<>>] /\ UNCHANGED <<elStates, elCounted>>
  <1>3. /\ elPhase[r] = "queries" /\ elTodo[r] # <<>> /\ UNCHANGED <<elCurrent, elSends>>
        /\ \/ ElEnd(r) /\ elAsked' = <<>>
           \/ Asked /\ UNCHANGED <<elPhase, elFresh>> /\ (BrokenOff \/ \E counts : Counted(counts))
    <2>1. /\ elPhase[r] = "queries" /\ elTodo[r] # <<>> /\ UNCHANGED <<elCurrent, elSends>>
      BY DEF collectStoredQueriesMetrics
    <2>2. PICK caps \in IsAggregatable(elConfig), pages \in HitPages :
           LET window == IF elConfig.override \/ q.timeFilter = <<>> THEN elConfig.timeFilter ELSE q.timeFilter[1]
               aggregatable == elConfig.hostField \in caps
               counts == IF aggregatable THEN CountHits(pages) ELSE Nothing
               panics == \/ ExtractIndexIdsPanics(q) \/ TimePanics(window.from) \/ TimePanics(window.to)
                         \/ IF aggregatable THEN parseSearchResponsePanics(pages) ELSE DOMAIN monitoringState.hosts # {}
           IN  \/ panics /\ ElEnd(r) /\ elAsked' = <<>>
               \/ /\ ~panics
                  /\ elAsked' = <<window, ToTimeInterval(window), BuildEsQuery(q, lucene), q>>
                  /\ \/ aggregatable /\ CountFails(pages) /\ BrokenOff
                     \/ ~(aggregatable /\ CountFails(pages)) /\ Counted(counts)
                  /\ UNCHANGED <<elPhase, elConf, elFresh>>
      BY <1>2 DEF collectStoredQueriesMetrics, Given
    <2> HIDE DEF BrokenOff, Counted
    <2>3. QED
      BY <2>1, <2>2, Zenon
  <1>4. CASE ElEnd(r) /\ elAsked' = <<>>
    <2>1. InventoryIsKnown'
      BY <1>1, <1>3 DEF InventoryIsKnown, elSends
    <2>2. RoundsOk' /\ HostsKept
      BY <1>3, <1>4, <2>1, RoundEnds
    <2>3. FiltersAppliedOnce'
      BY <1>4 DEF FiltersAppliedOnce
    <2>4. QED
      BY <2>2, <2>3
  <1>5. CASE Asked /\ UNCHANGED <<elPhase, elFresh>> /\ (BrokenOff \/ \E counts : Counted(counts))
    <2>1. RoundsOk' /\ HostsKept
      <3>1. CASE BrokenOff
        BY <1>3, <1>5, <3>1, RoundBreaksOff
      <3>2. CASE \E counts : Counted(counts)
        <4>1. PICK counts : Counted(counts)
          BY <3>2
        <4>2. PICK title : title = q.title
          OBVIOUS
        <4>3. Given(r, counts, title)
          BY <4>1, <4>2
        <4>4. UNCHANGED <<elPhase, elFresh, elCurrent, elSends>>
          BY <1>3, <1>5
        <4>5. QED
          BY <1>3, <4>3, <4>4, RoundCounted
      <3>3. QED
        BY <1>5, <3>1, <3>2
    <2>2. q \in ToSet(StoredQueries)
      BY <1>1, <1>2, <1>3, HeadTailProperties DEF ElTyped
    <2>3. PICK w, i : elAsked' = <<w, i, BuildEsQuery(q, lucene), q>>
      BY <1>5
    <2>4. elAsked'[3] = BuildEsQuery(q, lucene) /\ elAsked'[4] = q
      BY <2>3
    <2>5. FiltersAppliedOnce'
      <3> SUFFICES ASSUME NEW f \in ToSet(elAsked'[4].filters)
                   PROVE  LET es == elAsked'[3]
                          IN  Cardinality({j \in DOMAIN es.filter : es.filter[j].id = f.id})
                                  + Cardinality({j \in DOMAIN es.mustNot : es.mustNot[j].id = f.id}) = 1
        BY DEF FiltersAppliedOnce
      <3>1. f \in ToSet(q.filters)
        BY <2>4
      <3>2. QED
        BY <2>2, <2>4, <3>1, FilterAsked
    <2>6. QED
      BY <2>1, <2>5
  <1>6. QED
    BY <1>3, <1>4, <1>5

(* The end of a round: the checksum of a round alone is that of its own    *)
(* inventory.                                                              *)
LEMMA RoundSends ==
    ASSUME RoundsOk, MixedNext, NEW r \in ElRounds, ElPeriodicHandler(r)
    PROVE  RoundsOk' /\ HostsKept
  <1>1. InventoryIsKnown /\ RoundOk(r)
    BY DEF RoundsOk
  <1>2. elPhase[r] = "queries" /\ ElEnd(r) /\ elCurrent' = elCurrent
    BY DEF ElPeriodicHandler
  <1>3. PICK ok \in BOOLEAN :
            LET chk == <<getInventoryHashSum(monitoringState)>>
            IN  /\ elChksum' = chk
                /\ elInventory' = IF chk # elChksum /\ ok THEN getInventoryHashSum(elStates[r]) ELSE elInventory
                /\ elDoubt' = (r \in elMixed \/ IF chk # elChksum THEN ~ok ELSE elDoubt)
    BY DEF ElPeriodicHandler
  <1>4. InventoryIsKnown'
    <2>1. PICK sum : sum = getInventoryHashSum(monitoringState)
      OBVIOUS
    <2>2. r \notin elMixed => getInventoryHashSum(elStates[r]) = sum
      BY <1>1, <1>2, <2>1 DEF RoundOk, monitoringState
    <2>3. /\ elChksum' = <<sum>>
          /\ elInventory' = IF <<sum>> # elChksum /\ ok THEN getInventoryHashSum(elStates[r]) ELSE elInventory
          /\ elDoubt' = (r \in elMixed \/ IF <<sum>> # elChksum THEN ~ok ELSE elDoubt)
      BY <1>3, <2>1
    <2>4. CASE <<sum>> # elChksum
      BY <2>2, <2>3, <2>4 DEF InventoryIsKnown
    <2>5. CASE <<sum>> = elChksum
      BY <1>1, <2>3, <2>5 DEF InventoryIsKnown
    <2>6. QED
      BY <2>4, <2>5
  <1>5. QED
    BY <1>2, <1>4, RoundEnds

(* What the rounds have to send is as HitsAreOfThisRound has it.           *)
LEMMA RoundsReport == RoundsOk => HitsAreOfThisRound
  <1> SUFFICES ASSUME RoundsOk, NEW r \in ElRounds, elPhase[r] = "queries",
                      NEW h \in DOMAIN toTransitResources(elStates[r]),
                      NEW m \in DOMAIN toTransitResources(elStates[r])[h]
               PROVE  LET sent == toTransitResources(elStates[r])
                          hits == {c[3] : c \in {c \in elCounted[r] : c[1] = h /\ c[2] = m}}
                      IN  IF hits = {} THEN sent[h][m] = 0
                          ELSE sent[h][m] \in hits \cup (IF r \in elMixed THEN {0} ELSE {})
    BY DEF HitsAreOfThisRound
  <1> DEFINE hosts == elStates[r].hosts
             sent == toTransitResources(elStates[r])
             hits == {c[3] : c \in {c \in elCounted[r] : c[1] = h /\ c[2] = m}}
  <1>1. sent = [k \in DOMAIN hosts |->
                    [n \in DOMAIN hosts[k].services \cap elStates[r].metrics |-> hosts[k].services[n]]]
    BY DEF toTransitResources
  <1>2. h \in DOMAIN hosts /\ m \in DOMAIN hosts[h].services /\ sent[h][m] = hosts[h].services[m]
    BY <1>1
  <1>3. HostsOk(hosts, elCounted[r], r \in elMixed)
    BY DEF RoundsOk, RoundOk
  <1>4. HitsOf(elCounted[r], h, m) = hits
    BY DEF HitsOf
  <1> HIDE DEF hosts, sent, hits
  <1>5. HitOk(hosts[h].services[m], hits, r \in elMixed)
    BY <1>2, <1>3, <1>4 DEF HostsOk
  <1>6. IF hits = {} THEN sent[h][m] = 0 ELSE sent[h][m] \in hits \cup (IF r \in elMixed THEN {0} ELSE {})
    BY <1>2, <1>5 DEF HitOk
  <1>7. QED
    BY <1>6 DEF sent, hits

(* For any stored queries, replies of Kibana and of Elasticsearch, any     *)
(* configurations and any rounds at the same time, beside LoadConfig:      *)
(* every filter of a stored query is asked for exactly once; a round sends *)
(* only what was counted for the host and the query since it began, and    *)
(* all of it if nothing overlapped it; an inventory is known to the server *)
(* unless it was refused or rounds overlapped; and a host stays until a    *)
(* configuration is loaded or an overlapped round drops it (elastic.go     *)
(* CollectMetrics, LoadConfig, model.go initMonitoringState, updateHosts,  *)
(* queryTranslator.go).                                                    *)
THEOREM HitsAreReported == ElSpec => HitsReported
  <1> DEFINE Stay == LoadedState \/ elCurrent' \in elMixed
                        \/ DOMAIN monitoringState.hosts \subseteq DOMAIN monitoringState'.hosts
             Inv == RoundsOk /\ FiltersAppliedOnce
  <1>1. ElInit => Inv
    <2> SUFFICES ASSUME ElInit PROVE RoundsOk /\ FiltersAppliedOnce
      OBVIOUS
    <2>1. ElTyped
      <3>1. <<>> \in Seq(ToSet(StoredQueries))
        BY EmptySeq
      <3>2. ElOverlap = {}
        BY DEF ElInit, ElOverlap, ElActive
      <3>3. QED
        BY <3>1, <3>2 DEF ElInit, ElTyped
    <2>2. \A r \in ElRounds : RoundOk(r)
      BY DEF ElInit, RoundOk
    <2>3. QED
      BY <2>1, <2>2 DEF ElInit, RoundsOk, FiltersAppliedOnce, InventoryIsKnown
  <1>2. ASSUME Inv, [ElNext]_elVars PROVE Inv' /\ [Stay]_elVars
    <2>1. CASE ElNext
      <3>1. MixedNext
        BY <2>1 DEF ElNext, MixedNext
      <3>2. ASSUME elAsked' = <<>> PROVE FiltersAppliedOnce'
        BY <3>2 DEF FiltersAppliedOnce
      <3>3. ASSUME NEW c \in ElConfigs, ElLoadConfig(c) PROVE Inv' /\ Stay
        <4>1. /\ UNCHANGED <<elStates, elCurrent, elPhase, elFresh, elTodo, elCounted, elSends>>
              /\ elAsked' = <<>>
          BY <3>3 DEF ElLoadConfig
        <4>2. QED
          BY <1>2, <3>1, <3>2, <4>1, QuietStep DEF HostsKept
      <3>4. CASE LoadedConfig
        <4>1. /\ UNCHANGED <<elStates, elCurrent, elPhase, elFresh, elTodo, elCounted, elSends>>
              /\ elAsked' = <<>>
          BY <3>4 DEF LoadedConfig
        <4>2. QED
          BY <1>2, <3>1, <3>2, <4>1, QuietStep DEF HostsKept
      <3>5. CASE LoadedState
        <4>1. elAsked' = <<>>
          BY <3>5 DEF LoadedState
        <4>2. QED
          BY <1>2, <3>1, <3>2, <3>5, <4>1, LoadsState
      <3>6. ASSUME NEW r \in ElRounds, ElRoundStep(r) PROVE Inv' /\ Stay
        <4>1. CASE ElCollectMetrics(r)
          <5>1. elAsked' = <<>>
            BY <4>1 DEF ElCollectMetrics
          <5>2. QED
            BY <1>2, <3>1, <3>2, <4>1, <5>1, RoundBegins DEF HostsKept
        <4>2. CASE RetrieveHosts(r)
          <5>1. elAsked' = <<>>
            BY <4>2 DEF RetrieveHosts
          <5>2. QED
            BY <1>2, <3>1, <3>2, <4>2, <5>1, RoundRetrieves DEF HostsKept
        <4>3. CASE AssignState(r)
          <5>1. elAsked' = <<>>
            BY <4>3 DEF AssignState
          <5>2. QED
            BY <1>2, <3>1, <3>2, <4>3, <5>1, RoundAssigns DEF HostsKept
        <4>4. CASE CollectViews(r)
          <5>1. elAsked' = <<>>
            BY <4>4 DEF CollectViews
          <5>2. QED
            BY <1>2, <3>1, <3>2, <4>4, <5>1, RoundViews DEF HostsKept
        <4>5. CASE collectStoredQueriesMetrics(r)
          BY <1>2, <3>1, <4>5, RoundCounts DEF HostsKept
        <4>6. CASE ElPeriodicHandler(r)
          <5>1. elAsked' = <<>>
            BY <4>6 DEF ElPeriodicHandler
          <5>2. QED
            BY <1>2, <3>1, <3>2, <4>6, <5>1, RoundSends DEF HostsKept
        <4>7. QED
          BY <3>6, <4>1, <4>2, <4>3, <4>4, <4>5, <4>6 DEF ElRoundStep
      <3> HIDE DEF Inv, Stay
      <3>7. QED
        BY <2>1, <3>3, <3>4, <3>5, <3>6 DEF ElNext
    <2>2. CASE UNCHANGED elVars
      <3>1. Inv'
        BY <1>2, <2>2 DEF elVars, elLoads, elSends, RoundsOk, ElTyped, RoundOk, InventoryIsKnown, FiltersAppliedOnce,
                          ElOverlap, ElActive, monitoringState
      <3>2. QED
        BY <2>2, <3>1
    <2> HIDE DEF Inv, Stay
    <2>3. QED
      BY <1>2, <2>1, <2>2
  <1>3. Inv => FiltersAppliedOnce /\ HitsAreOfThisRound /\ InventoryIsKnown
    BY RoundsReport DEF RoundsOk
  <1> HIDE DEF Inv
  <1>4. QED
    BY <1>1, <1>2, <1>3, PTL DEF ElSpec, HitsReported, HostsStay

-----------------------------------------------------------------------------
(* Checks *)

(* The entries are those of the configuration in force, made by the last   *)
(* restart, and the checksum is of no other configuration: what the        *)
(* comparison of checksums relies on when it leaves the entries alone.     *)
EntriesOf(tasks, gen) == {[task |-> tasks[i], no |-> i, gen |-> gen] : i \in Runnable(tasks)}
ChkScheduled ==
    /\ extConfig \in {<<>>} \cup ChkConfigs
    /\ chkChksum \in {<<>>, <<extConfig>>}
    /\ entries = EntriesOf(extConfig, restarts)

(* No task, no entry.                                                      *)
LEMMA ChkInitial == ChkInit => ChkScheduled
  <1> SUFFICES ASSUME ChkInit PROVE ChkScheduled
    OBVIOUS
  <1>1. Runnable(<<>>) = {}
    BY DEF Runnable
  <1>2. QED
    BY <1>1 DEF ChkInit, ChkScheduled, EntriesOf

(* A configuration is taken: its entries replace the others, unless they   *)
(* are the same.                                                           *)
LEMMA ChkConfigured ==
    ASSUME ChkScheduled, NEW tasks \in ChkConfigs, chkConfigHandler(tasks)
    PROVE  ChkScheduled'
  <1>1. extConfig' = tasks /\ chkChksum' = <<tasks>>
    BY DEF chkConfigHandler
  <1>2. CASE chkChksum # <<tasks>>
    <2>1. entries' = {[task |-> tasks[i], no |-> i, gen |-> restarts'] : i \in Runnable(tasks)}
      BY <1>2, Zenon DEF chkConfigHandler, restartScheduler
    <2>2. QED
      BY <1>1, <2>1 DEF ChkScheduled, EntriesOf
  <1>3. CASE chkChksum = <<tasks>>
    <2>1. entries' = entries /\ restarts' = restarts
      BY <1>3 DEF chkConfigHandler
    <2>2. \A x, y : <<>> # <<x>> /\ (<<x>> = <<y>> => x = y)
      OBVIOUS
    <2>3. extConfig = tasks
      BY <1>3, <2>2, Zenon DEF ChkScheduled
    <2>4. QED
      BY <1>1, <2>1, <2>3 DEF ChkScheduled
  <1>4. QED
    BY <1>2, <1>3

(* Every other step leaves the schedule alone.                             *)
LEMMA ChkStep ==
    ASSUME ChkScheduled, [ChkNext]_chkVars
    PROVE  ChkScheduled'
  <1> DEFINE Same == UNCHANGED <<extConfig, chkChksum, entries, restarts>>
  <1>1. CASE Same
    BY <1>1 DEF ChkScheduled
  <1>2. ASSUME NEW tasks \in ChkConfigs, chkConfigHandler(tasks) PROVE ChkScheduled'
    BY <1>2, ChkConfigured
  <1>3. ASSUME NEW e \in entries, Fire(e) PROVE Same
    BY <1>3 DEF Fire
  <1>4. ASSUME NEW e \in jobs, taskHandler(e) PROVE Same
    BY <1>4 DEF taskHandler
  <1>5. ASSUME NEW format \in {"bronx", "nsca"}, makeEntrypointHandler(format) PROVE Same
    BY <1>5 DEF makeEntrypointHandler, schedule
  <1>6. CASE StartServerWithContext \/ Accept
    <2>1. Same
      BY <1>6 DEF StartServerWithContext, Accept, schedule
    <2>2. QED
      BY <1>1, <2>1
  <1>7. CASE HandleClientExt \/ chkExit
    <2>1. Same
      BY <1>7 DEF HandleClientExt, chkExit, schedule
    <2>2. QED
      BY <1>1, <2>1
  <1>8. CASE UNCHANGED chkVars
    <2>1. Same
      BY <1>8 DEF chkVars
    <2>2. QED
      BY <1>1, <2>1
  <1> HIDE DEF Same
  <1>9. QED
    BY <1>1, <1>2, <1>3, <1>4, <1>5, <1>6, <1>7, <1>8 DEF ChkNext

(* An entry for every task that runs, and no task twice.                   *)
LEMMA EntriesCounted ==
    ASSUME NEW tasks, NEW gen, IsFiniteSet(Runnable(tasks))
    PROVE  Cardinality(EntriesOf(tasks, gen)) = Cardinality(Runnable(tasks))
  <1> DEFINE R == Runnable(tasks)
             E == EntriesOf(tasks, gen)
             f == [i \in R |-> [task |-> tasks[i], no |-> i, gen |-> gen]]
  <1>1. \A i \in R : f[i] = [task |-> tasks[i], no |-> i, gen |-> gen]
    OBVIOUS
  <1>2. \A i \in R : f[i] \in E /\ f[i].no = i
    BY <1>1 DEF EntriesOf
  <1>3. \A e \in E : \E i \in R : f[i] = e
    BY <1>1 DEF EntriesOf
  <1>4. DOMAIN f = R /\ f = [i \in R |-> f[i]]
    OBVIOUS
  <1> HIDE DEF f, E, R
  <1>5. f \in [R -> E]
    BY <1>2, <1>4
  <1>6. f \in Bijection(R, E)
    <2>1. \A a, b \in R : f[a] = f[b] => a = b
      BY <1>2
    <2>2. f \in Injection(R, E)
      BY <1>5, <2>1 DEF Injection, IsInjective
    <2>3. f \in Surjection(R, E)
      BY <1>3, <1>5 DEF Surjection
    <2>4. QED
      BY <2>2, <2>3 DEF Bijection
  <1>7. ExistsBijection(R, E)
    BY <1>6 DEF ExistsBijection
  <1>8. QED
    BY <1>7, FS_Bijection DEF R, E

(* For any schedules, pushed any number of times and in any order, while   *)
(* jobs of earlier ones run and payloads arrive: the scheduler holds an    *)
(* entry for every task of the configuration in force whose cron           *)
(* expression parses, and none of an earlier one (checker.go               *)
(* configHandler and restartScheduler).                                    *)
THEOREM ScheduleIsKept == ChkSpec => []ScheduleIsConfigured
  <1>1. ChkInit => ChkScheduled
    BY ChkInitial
  <1>2. ChkScheduled /\ [ChkNext]_chkVars => ChkScheduled'
    BY ChkStep
  <1>3. ASSUME ChkScheduled PROVE ScheduleIsConfigured
    <2>1. IsFiniteSet(DOMAIN extConfig)
      <3>1. extConfig \in Seq(ToSet(extConfig))
        <4>1. <<>> \in Seq(ToSet(<<>>))
          BY EmptySeq
        <4>2. QED
          BY <1>3, <4>1, ChkAssumption DEF ChkScheduled
      <3>2. DOMAIN extConfig = 1 .. Len(extConfig) /\ Len(extConfig) \in Nat
        BY <3>1, LenProperties
      <3>3. QED
        BY <3>2, FS_Interval
    <2>2. IsFiniteSet(Runnable(extConfig))
      <3>1. Runnable(extConfig) \in SUBSET DOMAIN extConfig
        BY DEF Runnable
      <3>2. QED
        BY <2>1, <3>1, FS_Subset
    <2>3. Cardinality(entries) = Cardinality(Runnable(extConfig))
      BY <1>3, <2>2, EntriesCounted DEF ChkScheduled
    <2>4. entries = {[task |-> extConfig[i], no |-> i, gen |-> restarts] : i \in Runnable(extConfig)}
      BY <1>3 DEF ChkScheduled, EntriesOf
    <2>5. {e.task : e \in entries} = {extConfig[i] : i \in Runnable(extConfig)}
      <3>1. \A i \in Runnable(extConfig) : \E e \in entries : e.task = extConfig[i]
        <4> SUFFICES ASSUME NEW i \in Runnable(extConfig) PROVE \E e \in entries : e.task = extConfig[i]
          OBVIOUS
        <4> DEFINE e == [task |-> extConfig[i], no |-> i, gen |-> restarts]
        <4>1. e \in entries /\ e.task = extConfig[i]
          BY <2>4
        <4> HIDE DEF e
        <4>2. QED
          BY <4>1
      <3>2. \A e \in entries : \E i \in Runnable(extConfig) : e.task = extConfig[i]
        BY <2>4
      <3>3. {e.task : e \in entries} \subseteq {extConfig[i] : i \in Runnable(extConfig)}
        BY <3>2
      <3>4. {extConfig[i] : i \in Runnable(extConfig)} \subseteq {e.task : e \in entries}
        BY <3>1
      <3>5. QED
        BY <3>3, <3>4
    <2>6. QED
      BY <2>3, <2>5 DEF ScheduleIsConfigured
  <1>4. QED
    BY <1>1, <1>2, <1>3, PTL DEF ChkSpec
=============================================================================
