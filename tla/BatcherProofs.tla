---------------------------- MODULE BatcherProofs ----------------------------
(* Proofs about Batcher for every set of callers and payloads, any sizes,  *)
(* limits and number of calls.                                             *)
EXTENDS Batcher, SequenceTheorems, WellFoundedInduction, TLAPS

-----------------------------------------------------------------------------
(* Sequences as places where payloads are *)

(* What is in a sequence after Append, in a concatenation, and in the two  *)
(* parts of a sequence that is cut.                                        *)
LEMMA ContainsAppend ==
    ASSUME NEW S, NEW s \in Seq(S), NEW e \in S, NEW x
    PROVE  Contains(Append(s, e), x) <=> Contains(s, x) \/ x = e
  <1>1. /\ Len(Append(s, e)) = Len(s) + 1 /\ Append(s, e)[Len(s) + 1] = e /\ Len(s) \in Nat
        /\ \A i \in 1 .. Len(s) : Append(s, e)[i] = s[i]
    BY AppendProperties, LenProperties
  <1>2. QED
    BY <1>1 DEF Contains

(* In a concatenation.                                                     *)
LEMMA ContainsConcat ==
    ASSUME NEW S, NEW s \in Seq(S), NEW t \in Seq(S), NEW x
    PROVE  Contains(s \o t, x) <=> Contains(s, x) \/ Contains(t, x)
  <1>1. /\ Len(s \o t) = Len(s) + Len(t) /\ Len(s) \in Nat /\ Len(t) \in Nat
        /\ \A i \in 1 .. Len(s) + Len(t) :
             (s \o t)[i] = IF i <= Len(s) THEN s[i] ELSE t[i - Len(s)]
    BY ConcatProperties, LenProperties
  <1>2. ASSUME Contains(s \o t, x) PROVE Contains(s, x) \/ Contains(t, x)
    <2>1. PICK i \in 1 .. Len(s) + Len(t) : (s \o t)[i] = x
      BY <1>1, <1>2 DEF Contains
    <2>2. CASE i <= Len(s)
      BY <1>1, <2>1, <2>2 DEF Contains
    <2>3. CASE i > Len(s)
      <3>1. i - Len(s) \in 1 .. Len(t) /\ t[i - Len(s)] = x
        BY <1>1, <2>1, <2>3
      <3>2. QED
        BY <3>1 DEF Contains
    <2>4. QED
      BY <1>1, <2>1, <2>2, <2>3
  <1>3. ASSUME Contains(s, x) PROVE Contains(s \o t, x)
    BY <1>1, <1>3 DEF Contains
  <1>4. ASSUME Contains(t, x) PROVE Contains(s \o t, x)
    <2>1. PICK i \in 1 .. Len(t) : t[i] = x
      BY <1>4 DEF Contains
    <2>2. Len(s) + i \in 1 .. Len(s) + Len(t) /\ (s \o t)[Len(s) + i] = x
      BY <1>1, <2>1
    <2>3. QED
      BY <1>1, <2>2 DEF Contains
  <1>5. QED
    BY <1>2, <1>3, <1>4

(* The first n elements and the others.                                    *)
LEMMA CutInTwo ==
    ASSUME NEW S, NEW s \in Seq(S), NEW n \in 1 .. Len(s)
    PROVE  LET a == SubSeq(s, 1, n)
               b == SubSeq(s, n + 1, Len(s))
           IN  /\ a \in Seq(S) /\ Len(a) = n /\ \A i \in 1 .. n : a[i] = s[i]
               /\ b \in Seq(S) /\ Len(b) = Len(s) - n /\ \A i \in 1 .. Len(s) - n : b[i] = s[n + i]
               /\ Len(s) \in Nat
  <1>1. Len(s) \in Nat /\ \A i \in 1 .. Len(s) : s[i] \in S
    BY LenProperties, ElementOfSeq
  <1>2. /\ SubSeq(s, 1, n) \in Seq(S)
        /\ Len(SubSeq(s, 1, n)) = IF 1 <= n THEN n - 1 + 1 ELSE 0
        /\ \A i \in 1 .. n - 1 + 1 : SubSeq(s, 1, n)[i] = s[1 + i - 1]
    BY <1>1, SubSeqProperties
  <1>3. /\ SubSeq(s, n + 1, Len(s)) \in Seq(S)
        /\ Len(SubSeq(s, n + 1, Len(s))) = IF n + 1 <= Len(s) THEN Len(s) - (n + 1) + 1 ELSE 0
        /\ \A i \in 1 .. Len(s) - (n + 1) + 1 : SubSeq(s, n + 1, Len(s))[i] = s[(n + 1) + i - 1]
    BY <1>1, SubSeqProperties
  <1>4. QED
    BY <1>1, <1>2, <1>3

(* In the two parts of a sequence that is cut.                             *)
LEMMA ContainsCut ==
    ASSUME NEW S, NEW s \in Seq(S), NEW n \in 1 .. Len(s), NEW x
    PROVE  Contains(s, x) <=> \/ Contains(SubSeq(s, 1, n), x)
                              \/ Contains(SubSeq(s, n + 1, Len(s)), x)
  <1> DEFINE a == SubSeq(s, 1, n)
             b == SubSeq(s, n + 1, Len(s))
  <1>1. /\ Len(a) = n /\ \A i \in 1 .. n : a[i] = s[i]
        /\ Len(b) = Len(s) - n /\ \A i \in 1 .. Len(s) - n : b[i] = s[n + i]
        /\ Len(s) \in Nat
    BY CutInTwo
  <1> HIDE DEF a, b
  <1>2. ASSUME NEW i \in 1 .. Len(s), s[i] = x PROVE Contains(a, x) \/ Contains(b, x)
    <2>1. CASE i <= n
      BY <1>1, <1>2, <2>1 DEF Contains
    <2>2. CASE i > n
      <3>1. i - n \in 1 .. Len(b) /\ b[i - n] = x
        BY <1>1, <1>2, <2>2
      <3>2. QED
        BY <3>1 DEF Contains
    <2>3. QED
      BY <1>1, <2>1, <2>2
  <1>3. ASSUME Contains(a, x) PROVE Contains(s, x)
    BY <1>1, <1>3 DEF Contains
  <1>4. ASSUME Contains(b, x) PROVE Contains(s, x)
    <2>1. PICK i \in 1 .. Len(s) - n : b[i] = x
      BY <1>1, <1>4 DEF Contains
    <2>2. n + i \in 1 .. Len(s) /\ s[n + i] = x
      BY <1>1, <2>1
    <2>3. QED
      BY <2>2 DEF Contains
  <1>5. QED
    BY <1>2, <1>3, <1>4 DEF Contains, a, b

(* Distinct elements stay distinct when a new one is appended, when two    *)
(* sequences without a common element are joined, and when one is cut.     *)
LEMMA DistinctAppend ==
    ASSUME NEW S, NEW s \in Seq(S), NEW e \in S, Distinct(s), ~Contains(s, e)
    PROVE  Distinct(Append(s, e))
  <1>1. /\ Len(Append(s, e)) = Len(s) + 1 /\ Append(s, e)[Len(s) + 1] = e /\ Len(s) \in Nat
        /\ \A i \in 1 .. Len(s) : Append(s, e)[i] = s[i]
    BY AppendProperties, LenProperties
  <1>2. QED
    BY <1>1 DEF Distinct, Contains

(* A concatenation of two places that share nothing repeats nothing.       *)
LEMMA DistinctConcat ==
    ASSUME NEW S, NEW s \in Seq(S), NEW t \in Seq(S), Distinct(s), Distinct(t),
           \A x \in S : ~(Contains(s, x) /\ Contains(t, x))
    PROVE  Distinct(s \o t)
  <1>1. /\ Len(s \o t) = Len(s) + Len(t) /\ Len(s) \in Nat /\ Len(t) \in Nat
        /\ \A i \in 1 .. Len(s) + Len(t) :
             (s \o t)[i] = IF i <= Len(s) THEN s[i] ELSE t[i - Len(s)]
    BY ConcatProperties, LenProperties
  <1>2. /\ \A i \in 1 .. Len(s) : Contains(s, s[i]) /\ s[i] \in S
        /\ \A i \in 1 .. Len(t) : Contains(t, t[i])
    BY ElementOfSeq DEF Contains
  <1>3. SUFFICES ASSUME NEW i \in 1 .. Len(s) + Len(t), NEW j \in 1 .. Len(s) + Len(t),
                        (s \o t)[i] = (s \o t)[j]
                 PROVE  i = j
    BY <1>1 DEF Distinct
  <1>4. CASE i <= Len(s) /\ j <= Len(s)
    BY <1>1, <1>3, <1>4 DEF Distinct
  <1>5. CASE i > Len(s) /\ j > Len(s)
    <2>1. i - Len(s) \in 1 .. Len(t) /\ j - Len(s) \in 1 .. Len(t) /\ t[i - Len(s)] = t[j - Len(s)]
      BY <1>1, <1>3, <1>5
    <2>2. i - Len(s) = j - Len(s)
      BY <2>1 DEF Distinct
    <2>3. QED
      BY <1>1, <2>2
  <1>6. CASE i <= Len(s) /\ j > Len(s)
    <2>1. i \in 1 .. Len(s) /\ j - Len(s) \in 1 .. Len(t) /\ s[i] = t[j - Len(s)]
      BY <1>1, <1>3, <1>6
    <2>2. QED
      BY <1>2, <2>1
  <1>7. CASE i > Len(s) /\ j <= Len(s)
    <2>1. j \in 1 .. Len(s) /\ i - Len(s) \in 1 .. Len(t) /\ s[j] = t[i - Len(s)]
      BY <1>1, <1>3, <1>7
    <2>2. QED
      BY <1>2, <2>1
  <1>8. QED
    BY <1>1, <1>4, <1>5, <1>6, <1>7

(* A cut of a place that repeats nothing gives two that do not, and share  *)
(* nothing.                                                                *)
LEMMA DistinctCut ==
    ASSUME NEW S, NEW s \in Seq(S), NEW n \in 1 .. Len(s), Distinct(s)
    PROVE  LET a == SubSeq(s, 1, n)
               b == SubSeq(s, n + 1, Len(s))
           IN  Distinct(a) /\ Distinct(b) /\ \A x : ~(Contains(a, x) /\ Contains(b, x))
  <1> DEFINE a == SubSeq(s, 1, n)
             b == SubSeq(s, n + 1, Len(s))
  <1>1. /\ Len(a) = n /\ \A i \in 1 .. n : a[i] = s[i]
        /\ Len(b) = Len(s) - n /\ \A i \in 1 .. Len(s) - n : b[i] = s[n + i]
        /\ Len(s) \in Nat
    BY CutInTwo
  <1> HIDE DEF a, b
  <1>2. Distinct(a)
    BY <1>1 DEF Distinct
  <1>3. Distinct(b)
    <2> SUFFICES ASSUME NEW i \in 1 .. Len(s) - n, NEW j \in 1 .. Len(s) - n, b[i] = b[j]
                 PROVE  i = j
      BY <1>1 DEF Distinct
    <2>1. n + i \in 1 .. Len(s) /\ n + j \in 1 .. Len(s) /\ s[n + i] = s[n + j]
      BY <1>1
    <2>2. n + i = n + j
      BY <2>1 DEF Distinct
    <2>3. QED
      BY <2>2
  <1>4. ASSUME NEW x, Contains(a, x), Contains(b, x) PROVE FALSE
    <2>1. PICK i \in 1 .. n : a[i] = x
      BY <1>1, <1>4 DEF Contains
    <2>2. PICK j \in 1 .. Len(s) - n : b[j] = x
      BY <1>1, <1>4 DEF Contains
    <2>3. i \in 1 .. Len(s) /\ n + j \in 1 .. Len(s) /\ s[i] = s[n + j] /\ i # n + j
      BY <1>1, <2>1, <2>2
    <2>4. QED
      BY <2>3 DEF Distinct
  <1>5. QED
    BY <1>2, <1>3, <1>4 DEF a, b

(* The elements as a set.                                                  *)
LEMMA ToSetContains ==
    ASSUME NEW S, NEW s \in Seq(S)
    PROVE  ToSet(s) \subseteq S /\ \A x : x \in ToSet(s) <=> Contains(s, x)
  <1>1. DOMAIN s = 1 .. Len(s) /\ \A i \in 1 .. Len(s) : s[i] \in S
    BY LenProperties, ElementOfSeq
  <1>2. QED
    BY <1>1 DEF ToSet, Contains

(* The empty place.                                                        *)
LEMMA EmptyPlace == Distinct(<<>>) /\ \A x : ~Contains(<<>>, x)
  BY DEF Distinct, Contains

-----------------------------------------------------------------------------
(* Types *)

(* TypeOK in two parts: where payloads are, and the state of the           *)
(* processes.                                                              *)
PlaceTypes ==
    /\ buf \in Seq(Payloads) /\ bufSize \in Nat /\ local \in [Procs -> Seq(Payloads)]
    /\ added \in Seq(Payloads) /\ sent \in Seq(Payloads)
    /\ failed \subseteq Payloads /\ cleared \subseteq Payloads
    /\ batch \in [Payloads -> Nat] /\ split \subseteq Payloads
ProcTypes ==
    /\ pc \in [Procs -> {"idle", "check", "swap", "build", "send", "apply", "exit", "halted"}]
    /\ op \in [Procs -> {"none", "reset", "exit"}]
    /\ conf \in [Procs -> Confs]
    /\ maxBytes \in Limits /\ ticking \in BOOLEAN
    /\ tickerExit \in {0, 1} /\ calls \in 0 .. MaxCalls
    /\ overlapped \in BOOLEAN

(* The parts are TypeOK.                                                   *)
LEMMA TypesInParts == TypeOK <=> PlaceTypes /\ ProcTypes
  BY DEF TypeOK, PlaceTypes, ProcTypes

(* A process continues after its batch where its operation does.           *)
LEMMA AfterType == \A p \in Procs : After(p) \in {"idle", "apply", "halted"}
  BY Zenon DEF After

(* A process without a configuration still has one of the type.            *)
LEMMA NoConfType == NoConf \in Confs
  <1>1. PICK l \in Limits : TRUE
    BY LimitsAssumption
  <1>2. [maxBytes |-> l, ticking |-> TRUE] \in Confs
    BY DEF Confs
  <1>3. QED
    BY <1>2, Zenon DEF NoConf

(* What Build makes of a batch is a rearrangement of it.                   *)
LEMMA BuiltPlace ==
    ASSUME NEW s \in Seq(Payloads), NEW long, NEW t \in Builds(s, long)
    PROVE  /\ t \in Seq(Payloads) /\ Distinct(t) /\ Len(t) = Len(s)
           /\ \A x : Contains(t, x) <=> Contains(s, x)
           /\ \A x, y : Before(x, y, s) => Before(x, y, t) \/ (y \in long /\ x \notin long)
  <1>1. /\ t \in [1 .. Len(s) -> ToSet(s)] /\ Distinct(t) /\ ToSet(t) = ToSet(s)
        /\ \A x, y \in ToSet(s) :
            Before(x, y, s) => Before(x, y, t) \/ (y \in long /\ x \notin long)
    BY Zenon DEF Builds
  <1>2. Len(s) \in Nat /\ ToSet(s) \subseteq Payloads
    BY LenProperties, ToSetContains
  <1>3. t \in Seq(Payloads) /\ Len(t) = Len(s)
    BY <1>1, <1>2
  <1>4. \A x : Contains(t, x) <=> Contains(s, x)
    BY <1>1, <1>3, ToSetContains
  <1>5. \A x, y : Before(x, y, s) => x \in ToSet(s) /\ y \in ToSet(s)
    BY ToSetContains DEF Before, Contains
  <1>6. QED
    BY <1>1, <1>3, <1>4, <1>5

(* Every step keeps the types.                                             *)
LEMMA TypeStep == TypeOK /\ [Next]_vars => TypeOK'
  <1> SUFFICES ASSUME PlaceTypes, ProcTypes, [Next]_vars PROVE PlaceTypes' /\ ProcTypes'
    BY TypesInParts, PTL
  <1> USE DEF procVars, history
  <1>0. Ticker \in Procs /\ Callers \subseteq Procs
    BY DEF Procs
  <1>1. ASSUME NEW c \in Callers, NEW x \in Payloads, Add(c, x) PROVE PlaceTypes' /\ ProcTypes'
    <2>1. PlaceTypes'
      BY <1>1, SizeAssumption, AppendProperties DEF Add, BufWith, PlaceTypes
    <2>2. ProcTypes'
      BY <1>0, <1>1 DEF Add, ProcTypes
    <2>3. QED
      BY <2>1, <2>2
  <1>2. ASSUME NEW c \in Callers, AddCheck(c) PROVE PlaceTypes' /\ ProcTypes'
    BY <1>0, <1>2 DEF AddCheck, PlaceTypes, ProcTypes
  <1>3. ASSUME NEW c \in Callers, BatchCall(c) PROVE PlaceTypes' /\ ProcTypes'
    BY <1>0, <1>3, CallsAssumption DEF BatchCall, PlaceTypes, ProcTypes
  <1>4. ASSUME NEW c \in Callers, Clear(c) PROVE PlaceTypes' /\ ProcTypes'
    <2>1. ToSet(buf) \subseteq Payloads /\ <<>> \in Seq(Payloads)
      BY ToSetContains, EmptySeq DEF PlaceTypes
    <2>2. QED
      BY <1>4, <2>1, CallsAssumption DEF Clear, PlaceTypes, ProcTypes
  <1>5. ASSUME NEW c \in Callers, NEW k \in Confs, ResetCall(c, k) PROVE PlaceTypes' /\ ProcTypes'
    BY <1>0, <1>5, CallsAssumption DEF ResetCall, PlaceTypes, ProcTypes
  <1>6. ASSUME NEW c \in Callers, ResetApply(c) PROVE PlaceTypes' /\ ProcTypes'
    <2>1. conf[c].maxBytes \in Limits /\ conf[c].ticking \in BOOLEAN
      BY <1>0 DEF ProcTypes, Confs
    <2>2. QED
      BY <1>0, <1>6, <2>1, NoConfType DEF ResetApply, PlaceTypes, ProcTypes
  <1>7. ASSUME NEW c \in Callers, ExitCall(c) PROVE PlaceTypes' /\ ProcTypes'
    BY <1>0, <1>7, CallsAssumption DEF ExitCall, PlaceTypes, ProcTypes
  <1>8. ASSUME NEW c \in Callers, ExitSend(c) PROVE PlaceTypes' /\ ProcTypes'
    BY <1>0, <1>8 DEF ExitSend, PlaceTypes, ProcTypes
  <1>9. ASSUME NEW p \in Procs, Swap(p) PROVE PlaceTypes' /\ ProcTypes'
    <2>1. PlaceTypes'
      <3>1. Len(added) \in Nat
        BY LenProperties DEF PlaceTypes
      <3>2. batch' \in [Payloads -> Nat]
        BY <1>9, <3>1 DEF Swap, PlaceTypes
      <3>3. QED
        BY <1>9, <3>2, EmptySeq DEF Swap, PlaceTypes
    <2>2. pc' \in [Procs -> {"idle", "check", "swap", "build", "send", "apply", "exit", "halted"}]
      BY <1>9, AfterType DEF Swap, ProcTypes
    <2>3. overlapped' \in BOOLEAN
      BY <1>9 DEF Swap
    <2>4. QED
      BY <1>9, <2>1, <2>2, <2>3 DEF Swap, ProcTypes
  <1>9b. ASSUME NEW p \in Procs, Build(p) PROVE PlaceTypes' /\ ProcTypes'
    <2>1. PICK t \in Builds(local[p], TooLong(local[p])) : local' = [local EXCEPT ![p] = t]
      BY <1>9b DEF Build
    <2>2. local[p] \in Seq(Payloads)
      BY DEF PlaceTypes
    <2>3. t \in Seq(Payloads) /\ TooLong(local[p]) \subseteq Payloads
      BY <2>1, <2>2, BuiltPlace, ToSetContains DEF TooLong
    <2>4. split' \subseteq Payloads
      BY <1>9b, <2>3 DEF Build, PlaceTypes
    <2>5. PlaceTypes'
      BY <1>9b, <2>1, <2>3, <2>4 DEF Build, PlaceTypes
    <2>6. QED
      BY <1>9b, <2>5 DEF Build, ProcTypes
  <1>10. ASSUME NEW p \in Procs, HandleStep(p) PROVE PlaceTypes' /\ ProcTypes'
    <2>1. PICK n \in 1 .. Len(local[p]), ok \in BOOLEAN : Handle(p, n, ok)
      BY <1>10 DEF HandleStep
    <2> DEFINE part == SubSeq(local[p], 1, n)
               rest == SubSeq(local[p], n + 1, Len(local[p]))
    <2>2. part \in Seq(Payloads) /\ rest \in Seq(Payloads) /\ ToSet(part) \subseteq Payloads
      <3>1. local[p] \in Seq(Payloads)
        BY DEF PlaceTypes
      <3>2. part \in Seq(Payloads) /\ rest \in Seq(Payloads)
        BY <3>1, CutInTwo
      <3>3. QED
        BY <3>2, ToSetContains
    <2>3. /\ sent' = IF ok THEN sent \o part ELSE sent
          /\ failed' = IF ok THEN failed ELSE failed \cup ToSet(part)
          /\ local' = [local EXCEPT ![p] = rest]
          /\ UNCHANGED <<buf, bufSize, added, cleared, batch, split>>
      BY <2>1 DEF Handle, RestOf
    <2>4. PlaceTypes'
      <3> HIDE DEF part, rest
      <3>1. QED
        BY <2>2, <2>3, ConcatProperties DEF PlaceTypes
    <2>5. pc' \in [Procs -> {"idle", "check", "swap", "build", "send", "apply", "exit", "halted"}]
      BY <2>1, AfterType DEF Handle, ProcTypes
    <2>6. QED
      BY <2>1, <2>4, <2>5 DEF Handle, ProcTypes
  <1>11. CASE Tick
    BY <1>0, <1>11 DEF Tick, PlaceTypes, ProcTypes
  <1>12. CASE TickerExits
    BY <1>0, <1>12 DEF TickerExits, PlaceTypes, ProcTypes
  <1>13. CASE UNCHANGED vars
    BY <1>13 DEF vars, PlaceTypes, ProcTypes
  <1>14. QED
    BY <1>1, <1>2, <1>3, <1>4, <1>5, <1>6, <1>7, <1>8, <1>9, <1>9b, <1>10, <1>11, <1>12, <1>13
       DEF Next, CallerStep

-----------------------------------------------------------------------------
(* Every payload is in one place *)

(* A process holds a part of a batch only while it builds it and calls the *)
(* handler: no other batch is swapped in over it.                          *)
InBatch(p) == pc[p] \in {"build", "send"}
SendingHoldsBatch == \A p \in Procs : local[p] # <<>> => InBatch(p)

(* Whatever is anywhere was given to Add: a payload that is new to Add is  *)
(* nowhere yet.                                                            *)
Somewhere(x) ==
    \/ Contains(buf, x) \/ Contains(sent, x) \/ x \in failed \cup cleared
    \/ \E p \in Procs : Contains(local[p], x)
CameFromAdd == \A x \in Payloads : Somewhere(x) => Contains(added, x)

(* The inductive invariant behind CarriedOnce.                             *)
CarriedInv == TypeOK /\ NothingLost /\ NothingDuplicated /\ SendingHoldsBatch /\ CameFromAdd

(* Steps that only move a process that holds nothing.                      *)
LEMMA NothingMoves ==
    ASSUME TypeOK, NothingLost, NothingDuplicated, SendingHoldsBatch, CameFromAdd,
           UNCHANGED <<buf, local, added, sent, failed, cleared>>,
           \A p \in Procs : InBatch(p) => InBatch(p)'
    PROVE  NothingLost' /\ NothingDuplicated' /\ SendingHoldsBatch' /\ CameFromAdd'
  <1>1. NothingLost' /\ CameFromAdd'
    BY DEF NothingLost, CameFromAdd, Somewhere
  <1>2. NothingDuplicated'
    BY DEF NothingDuplicated
  <1>3. SendingHoldsBatch'
    BY DEF SendingHoldsBatch
  <1>4. QED
    BY <1>1, <1>2, <1>3

(* Every step keeps every payload in one place.                            *)
LEMMA CarriedStep == CarriedInv /\ [Next]_vars => CarriedInv'
  <1> SUFFICES ASSUME TypeOK, NothingLost, NothingDuplicated, SendingHoldsBatch, CameFromAdd,
                      [Next]_vars
               PROVE  NothingLost' /\ NothingDuplicated' /\ SendingHoldsBatch' /\ CameFromAdd'
    BY TypeStep DEF CarriedInv
  <1>0. PlaceTypes /\ ProcTypes /\ Ticker \in Procs /\ Callers \subseteq Procs
    BY TypesInParts DEF Procs
  <1> USE DEF procVars, history
  <1>1. ASSUME NEW c \in Callers, NEW y \in Payloads, Add(c, y)
        PROVE  NothingLost' /\ NothingDuplicated' /\ SendingHoldsBatch' /\ CameFromAdd'
    <2>1. /\ buf' = Append(buf, y) /\ added' = Append(added, y)
          /\ UNCHANGED <<local, sent, failed, cleared>>
      BY <1>1 DEF Add, BufWith
    <2>2. ~Contains(added, y)
      BY <1>1 DEF Add, Contains
    <2>3. /\ ~Contains(buf, y) /\ ~Contains(sent, y) /\ y \notin failed \cup cleared
          /\ \A p \in Procs : ~Contains(local[p], y)
      BY <2>2 DEF CameFromAdd, Somewhere
    <2>4. \A x : /\ Contains(buf', x) <=> Contains(buf, x) \/ x = y
                 /\ Contains(added', x) <=> Contains(added, x) \/ x = y
      BY <1>0, <2>1, ContainsAppend DEF PlaceTypes
    <2>5. Distinct(buf')
      BY <1>0, <2>1, <2>3, DistinctAppend DEF PlaceTypes, NothingDuplicated
    <2>6. NothingLost'
      BY <2>1, <2>4 DEF NothingLost
    <2>7. NothingDuplicated'
      BY <2>1, <2>3, <2>4, <2>5 DEF NothingDuplicated
    <2>8. CameFromAdd'
      BY <2>1, <2>4 DEF CameFromAdd, Somewhere
    <2>9. SendingHoldsBatch'
      BY <1>0, <1>1 DEF Add, SendingHoldsBatch, ProcTypes, InBatch
    <2>10. QED
      BY <2>6, <2>7, <2>8, <2>9
  <1>2. ASSUME NEW c \in Callers, AddCheck(c) \/ BatchCall(c) \/ ResetApply(c) \/ ExitCall(c)
                                 \/ ExitSend(c) \/ \E k \in Confs : ResetCall(c, k)
        PROVE  NothingLost' /\ NothingDuplicated' /\ SendingHoldsBatch' /\ CameFromAdd'
    <2>1. /\ UNCHANGED <<buf, local, added, sent, failed, cleared>>
          /\ \A p \in Procs : InBatch(p) => InBatch(p)'
      BY <1>0, <1>2 DEF InBatch, AddCheck, BatchCall, ResetApply, ExitCall, ExitSend, ResetCall, ProcTypes
    <2>2. QED
      BY <2>1, NothingMoves
  <1>3. CASE Tick \/ TickerExits
    <2>1. /\ UNCHANGED <<buf, local, added, sent, failed, cleared>>
          /\ \A p \in Procs : InBatch(p) => InBatch(p)'
      BY <1>0, <1>3 DEF InBatch, Tick, TickerExits, ProcTypes
    <2>2. QED
      BY <2>1, NothingMoves
  <1>4. CASE UNCHANGED vars
    BY <1>4, NothingMoves DEF vars, InBatch
  <1>5. ASSUME NEW c \in Callers, Clear(c)
        PROVE  NothingLost' /\ NothingDuplicated' /\ SendingHoldsBatch' /\ CameFromAdd'
    <2>1. /\ buf' = <<>> /\ cleared' = cleared \cup ToSet(buf)
          /\ UNCHANGED <<pc, local, added, sent, failed>>
      BY <1>5 DEF Clear
    <2>2. Distinct(buf') /\ \A x : ~Contains(buf', x)
      BY <2>1, EmptyPlace
    <2>3. \A x : x \in cleared' <=> x \in cleared \/ Contains(buf, x)
      BY <1>0, <2>1, ToSetContains DEF PlaceTypes
    <2>4. NothingLost'
      BY <2>1, <2>3 DEF NothingLost
    <2>5. NothingDuplicated'
      BY <2>1, <2>2, <2>3 DEF NothingDuplicated
    <2>6. CameFromAdd'
      BY <2>1, <2>2, <2>3 DEF CameFromAdd, Somewhere
    <2>7. QED
      BY <2>1, <2>4, <2>5, <2>6 DEF SendingHoldsBatch, InBatch
  <1>6. ASSUME NEW p \in Procs, Swap(p)
        PROVE  NothingLost' /\ NothingDuplicated' /\ SendingHoldsBatch' /\ CameFromAdd'
    <2>1. /\ buf' = <<>> /\ local'[p] = buf /\ \A q \in Procs : q # p => local'[q] = local[q]
          /\ UNCHANGED <<added, sent, failed, cleared>>
      BY <1>0, <1>6 DEF Swap, PlaceTypes
    <2>2. local[p] = <<>>
      BY <1>6 DEF Swap, SendingHoldsBatch, InBatch
    <2>3. Distinct(buf') /\ \A x : ~Contains(buf', x) /\ ~Contains(local[p], x)
      BY <2>1, <2>2, EmptyPlace
    <2>4. NothingLost'
      BY <2>1, <2>3 DEF NothingLost
    <2>5. NothingDuplicated'
      BY <2>1, <2>3 DEF NothingDuplicated
    <2>6. CameFromAdd'
      BY <2>1, <2>3 DEF CameFromAdd, Somewhere
    <2>7. SendingHoldsBatch'
      BY <1>0, <1>6, <2>1 DEF Swap, SendingHoldsBatch, ProcTypes, InBatch
    <2>8. QED
      BY <2>4, <2>5, <2>6, <2>7
  <1>7. ASSUME NEW p \in Procs, HandleStep(p)
        PROVE  NothingLost' /\ NothingDuplicated' /\ SendingHoldsBatch' /\ CameFromAdd'
    <2>1. PICK n \in 1 .. Len(local[p]), ok \in BOOLEAN : Handle(p, n, ok)
      BY <1>7 DEF HandleStep
    <2> DEFINE part == SubSeq(local[p], 1, n)
               rest == SubSeq(local[p], n + 1, Len(local[p]))
    <2>2. /\ sent' = IF ok THEN sent \o part ELSE sent
          /\ failed' = IF ok THEN failed ELSE failed \cup ToSet(part)
          /\ local'[p] = rest /\ \A q \in Procs : q # p => local'[q] = local[q]
          /\ UNCHANGED <<buf, added, cleared>>
      BY <1>0, <2>1 DEF Handle, RestOf, PlaceTypes
    <2>3. /\ local[p] \in Seq(Payloads) /\ sent \in Seq(Payloads)
          /\ Distinct(local[p]) /\ Distinct(sent)
      BY <1>0 DEF PlaceTypes, NothingDuplicated
    <2>4. part \in Seq(Payloads) /\ rest \in Seq(Payloads)
      BY <2>3, CutInTwo
    <2>5. /\ Distinct(part) /\ Distinct(rest) /\ \A x : ~(Contains(part, x) /\ Contains(rest, x))
          /\ \A x : Contains(local[p], x) <=> Contains(part, x) \/ Contains(rest, x)
      BY <2>3, DistinctCut, ContainsCut
    <2>6. \A x : x \in ToSet(part) <=> Contains(part, x)
      BY <2>4, ToSetContains
    <2> HIDE DEF part, rest
    <2>7. \A x \in Payloads : Contains(part, x) =>
            ~Contains(sent, x) /\ x \notin failed \cup cleared /\ ~Contains(buf, x)
      BY <2>5 DEF NothingDuplicated
    <2>8. \A x : Contains(sent \o part, x) <=> Contains(sent, x) \/ Contains(part, x)
      BY <2>3, <2>4, ContainsConcat
    <2>9. Distinct(sent \o part)
      BY <2>3, <2>4, <2>5, <2>7, DistinctConcat
    <2>10. NothingLost'
      BY <2>2, <2>5, <2>6, <2>8 DEF NothingLost
    <2>11. NothingDuplicated'
      <3>1. Distinct(buf') /\ Distinct(sent') /\ \A q \in Procs : Distinct(local'[q])
        BY <2>2, <2>5, <2>9 DEF NothingDuplicated
      <3>2. \A q \in Procs : \A x : Contains(local'[q], x) => Contains(local[q], x)
        BY <2>2, <2>5
      <3>3. \A x \in Payloads : Contains(part, x) => \A q \in Procs : ~Contains(local'[q], x)
        BY <2>2, <2>5 DEF NothingDuplicated
      <3>4. \A x \in Payloads :
              /\ Contains(buf', x) => \A q \in Procs : ~Contains(local'[q], x)
              /\ \A q, r \in Procs : q # r /\ Contains(local'[q], x) => ~Contains(local'[r], x)
        BY <2>2, <3>2 DEF NothingDuplicated
      <3>5. ASSUME NEW x \in Payloads, Contains(sent', x) \/ x \in failed' \cup cleared'
            PROVE  ~Contains(buf', x) /\ \A q \in Procs : ~Contains(local'[q], x)
        <4>1. CASE Contains(part, x)
          BY <4>1, <2>2, <2>7, <3>3
        <4>2. CASE ~Contains(part, x)
          <5>1. Contains(sent, x) \/ x \in failed \cup cleared
            BY <4>2, <3>5, <2>2, <2>6, <2>8
          <5>2. QED
            BY <5>1, <2>2, <3>2 DEF NothingDuplicated
        <4>3. QED
          BY <4>1, <4>2
      <3>6. \A x \in Payloads : Contains(sent', x) => x \notin failed' \cup cleared'
        <4>1. CASE ok
          BY <4>1, <2>2, <2>7, <2>8 DEF NothingDuplicated
        <4>2. CASE ~ok
          BY <4>2, <2>2, <2>6, <2>7 DEF NothingDuplicated
        <4>3. QED
          BY <4>1, <4>2
      <3>7. QED
        BY <3>1, <3>4, <3>5, <3>6 DEF NothingDuplicated
    <2>12. CameFromAdd'
      BY <2>2, <2>5, <2>6, <2>8 DEF CameFromAdd, Somewhere
    <2>13. SendingHoldsBatch'
      <3>1. pc' = [pc EXCEPT ![p] = IF rest = <<>> THEN After(p) ELSE "send"]
        BY <2>1 DEF Handle, RestOf, rest
      <3>2. QED
        BY <1>0, <2>2, <3>1 DEF SendingHoldsBatch, ProcTypes, InBatch
    <2>14. QED
      BY <2>10, <2>11, <2>12, <2>13
  <1>8. ASSUME NEW p \in Procs, Build(p)
        PROVE  NothingLost' /\ NothingDuplicated' /\ SendingHoldsBatch' /\ CameFromAdd'
    <2>1. PICK t \in Builds(local[p], TooLong(local[p])) : local' = [local EXCEPT ![p] = t]
      BY <1>8 DEF Build
    <2>2. local[p] \in Seq(Payloads)
      BY <1>0 DEF PlaceTypes
    <2>3. Distinct(t) /\ \A x : Contains(t, x) <=> Contains(local[p], x)
      BY <2>1, <2>2, BuiltPlace
    <2>4. /\ UNCHANGED <<buf, added, sent, failed, cleared>>
          /\ \A q \in Procs : \A x : Contains(local'[q], x) <=> Contains(local[q], x)
          /\ \A q \in Procs : Distinct(local[q]) => Distinct(local'[q])
      BY <1>0, <1>8, <2>1, <2>3 DEF Build, PlaceTypes
    <2>5. NothingLost' /\ CameFromAdd'
      BY <2>4 DEF NothingLost, CameFromAdd, Somewhere
    <2>6. NothingDuplicated'
      BY <2>4 DEF NothingDuplicated
    <2>7. SendingHoldsBatch'
      BY <1>0, <1>8, <2>1 DEF Build, SendingHoldsBatch, ProcTypes, PlaceTypes, InBatch
    <2>8. QED
      BY <2>5, <2>6, <2>7
  <1>9. QED
    BY <1>1, <1>2, <1>3, <1>4, <1>5, <1>6, <1>7, <1>8 DEF Next, CallerStep

(* Initially every place is empty.                                         *)
LEMMA InitCarried == Init => CarriedInv
  <1> SUFFICES ASSUME Init PROVE CarriedInv
    OBVIOUS
  <1>1. PlaceTypes
    BY EmptySeq DEF Init, PlaceTypes
  <1>2. ProcTypes
    <2>1. ticking \in BOOLEAN /\ overlapped \in BOOLEAN
      BY DEF Init
    <2>2. /\ pc \in [Procs -> {"idle", "check", "swap", "build", "send", "apply", "exit", "halted"}]
          /\ op \in [Procs -> {"none", "reset", "exit"}]
          /\ conf \in [Procs -> Confs]
      BY NoConfType DEF Init
    <2>3. maxBytes \in Limits /\ tickerExit \in {0, 1} /\ calls \in 0 .. MaxCalls
      BY CallsAssumption DEF Init
    <2>4. QED
      BY <2>1, <2>2, <2>3 DEF ProcTypes
  <1>3. NothingLost /\ NothingDuplicated /\ SendingHoldsBatch /\ CameFromAdd
    BY EmptyPlace
       DEF Init, NothingLost, NothingDuplicated, SendingHoldsBatch, CameFromAdd, Somewhere, InBatch
  <1>4. QED
    BY <1>1, <1>2, <1>3, TypesInParts DEF CarriedInv

(* Whatever calls of Add, Batch, Clear, Reset and Exit overlap with the    *)
(* ticker, a payload is buffered, in one batch, sent, failed or cleared:   *)
(* none is lost and none handed over twice.                                *)
THEOREM EveryPayloadCarriedOnce == Spec => []CarriedOnce
  <1>1. CarriedInv => CarriedOnce
    BY DEF CarriedInv, CarriedOnce
  <1>2. QED
    BY <1>1, InitCarried, CarriedStep, PTL DEF Spec

-----------------------------------------------------------------------------
(* The size of the buffer *)

(* A nonempty set of naturals has a smallest element: what stands for      *)
(* induction below.                                                        *)
LEMMA SmallestOf ==
    ASSUME NEW T, T \subseteq Nat, T # {}
    PROVE  \E x \in T : \A y \in T : x <= y
  <1>1. PICK x \in T : \A y \in T : ~(<<y, x>> \in OpToRel(<, Nat))
    BY NatLessThanWellFounded, WFMin
  <1>2. \A y \in T : ~(y < x)
    BY <1>1 DEF OpToRel
  <1>3. QED
    BY <1>2

(* The partial sums of the sizes of s.                                     *)
IsTotals(f, s) == f = [i \in 0 .. Len(s) |-> IF i = 0 THEN 0 ELSE f[i - 1] + Size[s[i]]]

(* Two functions of partial sums end in the same sum: the smallest index   *)
(* where they differ would be neither 0 nor the successor of another.      *)
LEMMA TotalsUnique ==
    ASSUME NEW s \in Seq(Payloads), NEW f, NEW g, IsTotals(f, s), IsTotals(g, s)
    PROVE  f[Len(s)] = g[Len(s)]
  <1>0. Len(s) \in Nat
    BY LenProperties
  <1>1. /\ f[0] = 0 /\ g[0] = 0
        /\ \A i \in 1 .. Len(s) : f[i] = f[i - 1] + Size[s[i]] /\ g[i] = g[i - 1] + Size[s[i]]
    BY <1>0, SMTT(30) DEF IsTotals
  <1> DEFINE T == {i \in 0 .. Len(s) : f[i] # g[i]}
  <1>2. T \subseteq Nat /\ \A i \in 0 .. Len(s) : i \notin T => f[i] = g[i]
    BY <1>0
  <1>3. CASE T = {}
    BY <1>0, <1>2, <1>3
  <1>4. CASE T # {}
    <2>1. PICK m \in T : \A y \in T : m <= y
      <3> HIDE DEF T
      <3>1. QED
        BY <1>2, <1>4, SmallestOf
    <2>2. m \in 1 .. Len(s) /\ m - 1 \in 0 .. Len(s) /\ m - 1 \notin T
      BY <2>1, <1>1, <1>0
    <2>3. QED
      BY <2>2, <2>1, <1>1
  <1>5. QED
    BY <1>3, <1>4

(* If there are partial sums at all, SizeOf is the last of them.           *)
LEMMA SizeOfTotals ==
    ASSUME NEW s \in Seq(Payloads), NEW f, IsTotals(f, s)
    PROVE  SizeOf(s) = f[Len(s)]
  <1> DEFINE g == CHOOSE h : IsTotals(h, s)
  <1>1. SizeOf(s) = g[Len(s)]
    BY DEF SizeOf, IsTotals
  <1>2. IsTotals(g, s)
    <2>1. \E h : IsTotals(h, s)
      OBVIOUS
    <2>2. QED
      BY <2>1, Zenon
  <1> HIDE DEF g
  <1>3. g[Len(s)] = f[Len(s)]
    BY <1>2, TotalsUnique
  <1>4. QED
    BY <1>1, <1>3

(* What Add appends adds its size to the sums.                             *)
LEMMA TotalsAppend ==
    ASSUME NEW s \in Seq(Payloads), NEW x \in Payloads, NEW f, IsTotals(f, s)
    PROVE  \E g : IsTotals(g, Append(s, x)) /\ g[Len(s) + 1] = f[Len(s)] + Size[x]
  <1> DEFINE n == Len(s)
             t == Append(s, x)
             g == [i \in 0 .. n + 1 |-> IF i <= n THEN f[i] ELSE f[n] + Size[x]]
             h == [i \in 0 .. n + 1 |-> IF i = 0 THEN 0 ELSE g[i - 1] + Size[t[i]]]
  <1>1. n \in Nat /\ Len(t) = n + 1 /\ t[n + 1] = x /\ \A i \in 1 .. n : t[i] = s[i]
    BY AppendProperties, LenProperties
  <1>2. f[0] = 0 /\ \A i \in 1 .. n : f[i] = f[i - 1] + Size[s[i]]
    BY <1>1 DEF IsTotals
  <1> HIDE DEF t, n
  <1>3. \A i \in 0 .. n + 1 : g[i] = h[i]
    <2> TAKE i \in 0 .. n + 1
    <2>1. CASE i = 0
      BY <1>1, <1>2, <2>1
    <2>2. CASE i \in 1 .. n
      <3>1. i <= n /\ i # 0 /\ i - 1 \in 0 .. n + 1 /\ i - 1 <= n
        BY <2>2, <1>1
      <3>2. QED
        BY <3>1, <1>1, <1>2, <2>2
    <2>3. CASE i = n + 1
      <3>1. ~(i <= n) /\ i # 0 /\ i - 1 = n /\ n \in 0 .. n + 1
        BY <2>3, <1>1
      <3>2. QED
        BY <3>1, <1>1, <2>3
    <2>4. QED
      BY <1>1, <2>1, <2>2, <2>3
  <1>4. g = h
    BY <1>3
  <1>5. IsTotals(g, t)
    BY <1>1, <1>4 DEF IsTotals
  <1>6. g[n + 1] = f[n] + Size[x]
    BY <1>1
  <1>7. QED
    BY <1>5, <1>6 DEF n, t

(* The running totals of an empty buffer.                                  *)
LEMMA TotalsEmpty == \E f : IsTotals(f, <<>>) /\ f[0] = 0
  <1> DEFINE f == [i \in {0} |-> 0]
  <1>1. Len(<<>>) = 0 /\ 0 .. 0 = {0}
    OBVIOUS
  <1>2. f = [i \in {0} |-> IF i = 0 THEN 0 ELSE f[i - 1] + Size[<<>>[i]]]
    OBVIOUS
  <1>3. IsTotals(f, <<>>)
    BY <1>1, <1>2 DEF IsTotals
  <1>4. QED
    BY <1>3

(* There are partial sums of what is buffered, and bufSize is the last.    *)
SizeIsSummed == \E f : IsTotals(f, buf) /\ f[Len(buf)] = bufSize

(* The inductive invariant behind LimitHeld.                               *)
LimitInv == TypeOK /\ SizeIsSummed /\ OverLimitIsFlushed

(* Every step keeps the sum and has an excess flushed.                     *)
LEMMA LimitStep == LimitInv /\ [Next]_vars => LimitInv'
  <1> SUFFICES ASSUME TypeOK, SizeIsSummed, OverLimitIsFlushed, [Next]_vars
               PROVE  SizeIsSummed' /\ OverLimitIsFlushed'
    BY TypeStep DEF LimitInv
  <1>0. /\ PlaceTypes /\ ProcTypes /\ Ticker \in Procs /\ Callers \subseteq Procs
        /\ \E l \in Limits : ~(0 > l)
    <2>1. PICK l \in Limits : TRUE
      BY LimitsAssumption
    <2>2. ~(0 > l)
      BY LimitsAssumption
    <2>3. QED
      BY <2>2, TypesInParts DEF Procs
  <1> USE DEF procVars, history
  <1>1. ASSUME NEW c \in Callers, NEW x \in Payloads, Add(c, x)
        PROVE  SizeIsSummed' /\ OverLimitIsFlushed'
    <2>1. PICK f : IsTotals(f, buf) /\ f[Len(buf)] = bufSize
      BY DEF SizeIsSummed
    <2>2. /\ buf \in Seq(Payloads) /\ buf' = Append(buf, x) /\ bufSize' = bufSize + Size[x]
          /\ pc'[c] = "check"
      BY <1>0, <1>1 DEF Add, BufWith, PlaceTypes, ProcTypes
    <2>3. PICK g : IsTotals(g, Append(buf, x)) /\ g[Len(buf) + 1] = f[Len(buf)] + Size[x]
      BY <2>1, <2>2, TotalsAppend
    <2>4. Len(buf') = Len(buf) + 1
      BY <2>2, AppendProperties
    <2>5. IsTotals(g, buf') /\ g[Len(buf')] = bufSize'
      BY <2>1, <2>2, <2>3, <2>4
    <2>6. QED
      BY <1>0, <2>2, <2>5 DEF SizeIsSummed, OverLimitIsFlushed
  <1>2. ASSUME NEW c \in Callers, AddCheck(c) PROVE SizeIsSummed' /\ OverLimitIsFlushed'
    <2>1. /\ UNCHANGED <<buf, bufSize>>
          /\ pc' = [pc EXCEPT ![c] = IF bufSize > maxBytes THEN "swap" ELSE "idle"]
      BY <1>2 DEF AddCheck, OverLimit
    <2>2. SizeIsSummed'
      BY <2>1 DEF SizeIsSummed
    <2>3. CASE bufSize > maxBytes
      BY <1>0, <2>1, <2>2, <2>3 DEF ProcTypes, OverLimitIsFlushed
    <2>4. CASE ~(bufSize > maxBytes)
      BY <1>0, <2>1, <2>2, <2>4 DEF ProcTypes, OverLimitIsFlushed
    <2>5. QED
      BY <2>3, <2>4
  <1>3. ASSUME buf' = <<>>, bufSize' = 0 PROVE SizeIsSummed' /\ OverLimitIsFlushed'
    <2>1. SizeIsSummed'
      <3>1. PICK f : IsTotals(f, <<>>) /\ f[0] = 0
        BY TotalsEmpty
      <3>2. IsTotals(f, buf') /\ f[Len(buf')] = bufSize'
        BY <1>3, <3>1
      <3>3. QED
        BY <3>2 DEF SizeIsSummed
    <2>2. OverLimitIsFlushed'
      BY <1>0, <1>3 DEF OverLimitIsFlushed
    <2>3. QED
      BY <2>1, <2>2
  <1>4. ASSUME UNCHANGED <<buf, bufSize>>,
               \A p \in Procs : pc[p] \in {"check", "swap"} => pc'[p] \in {"check", "swap"}
        PROVE  SizeIsSummed' /\ OverLimitIsFlushed'
    BY <1>4 DEF SizeIsSummed, OverLimitIsFlushed
  <1>5. ASSUME NEW c \in Callers, BatchCall(c) \/ ResetApply(c) \/ ExitCall(c) \/ ExitSend(c)
                                 \/ \E k \in Confs : ResetCall(c, k)
        PROVE  SizeIsSummed' /\ OverLimitIsFlushed'
    <2>1. /\ UNCHANGED <<buf, bufSize>>
          /\ \A p \in Procs : pc[p] \in {"check", "swap"} => pc'[p] \in {"check", "swap"}
      BY <1>0, <1>5 DEF BatchCall, ResetApply, ExitCall, ExitSend, ResetCall, ProcTypes
    <2>2. QED
      BY <2>1, <1>4
  <1>6. ASSUME NEW p \in Procs, HandleStep(p) PROVE SizeIsSummed' /\ OverLimitIsFlushed'
    <2>1. PICK n \in 1 .. Len(local[p]), ok \in BOOLEAN : Handle(p, n, ok)
      BY <1>6 DEF HandleStep
    <2>2. /\ UNCHANGED <<buf, bufSize>>
          /\ \A q \in Procs : pc[q] \in {"check", "swap"} => pc'[q] \in {"check", "swap"}
      BY <1>0, <2>1 DEF Handle, ProcTypes
    <2>3. QED
      BY <2>2, <1>4
  <1>6b. ASSUME NEW p \in Procs, Build(p) PROVE SizeIsSummed' /\ OverLimitIsFlushed'
    <2>1. /\ UNCHANGED <<buf, bufSize>>
          /\ \A q \in Procs : pc[q] \in {"check", "swap"} => pc'[q] \in {"check", "swap"}
      BY <1>0, <1>6b DEF Build, ProcTypes
    <2>2. QED
      BY <2>1, <1>4
  <1>7. CASE Tick \/ TickerExits
    <2>1. /\ UNCHANGED <<buf, bufSize>>
          /\ \A p \in Procs : pc[p] \in {"check", "swap"} => pc'[p] \in {"check", "swap"}
      BY <1>0, <1>7 DEF Tick, TickerExits, ProcTypes
    <2>2. QED
      BY <2>1, <1>4
  <1>8. ASSUME NEW c \in Callers, Clear(c) PROVE SizeIsSummed' /\ OverLimitIsFlushed'
    BY <1>8, <1>3 DEF Clear
  <1>9. ASSUME NEW p \in Procs, Swap(p) PROVE SizeIsSummed' /\ OverLimitIsFlushed'
    BY <1>9, <1>3 DEF Swap
  <1>10. CASE UNCHANGED vars
    BY <1>10, <1>4 DEF vars
  <1>11. QED
    BY <1>1, <1>2, <1>5, <1>6, <1>6b, <1>7, <1>8, <1>9, <1>10 DEF Next, CallerStep

(* The size compared with the soft limit is the size of the buffer, and a  *)
(* buffer beyond every configured limit is about to be flushed, although   *)
(* the comparison is made after the lock was released.                     *)
THEOREM SoftLimitHeld == Spec => []LimitHeld
  <1>1. Init => LimitInv
    <2> SUFFICES ASSUME Init PROVE LimitInv
      OBVIOUS
    <2>1. TypeOK
      BY InitCarried DEF CarriedInv
    <2>2. PICK f : IsTotals(f, <<>>) /\ f[0] = 0
      BY TotalsEmpty
    <2>3. IsTotals(f, buf) /\ f[Len(buf)] = bufSize
      BY <2>2 DEF Init
    <2>4. OverLimitIsFlushed
      BY LimitsAssumption DEF Init, OverLimitIsFlushed
    <2>5. QED
      BY <2>1, <2>3, <2>4 DEF LimitInv, SizeIsSummed
  <1>2. LimitInv => LimitHeld
    <2> SUFFICES ASSUME LimitInv PROVE LimitHeld
      OBVIOUS
    <2>1. PICK f : IsTotals(f, buf) /\ f[Len(buf)] = bufSize
      BY DEF LimitInv, SizeIsSummed
    <2>2. SizeOf(buf) = f[Len(buf)]
      BY <2>1, SizeOfTotals DEF LimitInv, TypeOK
    <2>3. QED
      BY <2>1, <2>2 DEF LimitInv, LimitHeld, SizeMatches
  <1>3. QED
    BY <1>1, <1>2, LimitStep, PTL DEF Spec

-----------------------------------------------------------------------------
(* The order of the payloads *)

(* The order in a sequence after Append, in a concatenation, and in the    *)
(* two parts of a cut sequence of distinct elements.                       *)
LEMMA BeforeIsIn ==
    ASSUME NEW s, NEW x, NEW y, Before(x, y, s)
    PROVE  Contains(s, x) /\ Contains(s, y)
  BY DEF Before, Contains

(* The order of payloads after Append.                                     *)
LEMMA BeforeAppend ==
    ASSUME NEW S, NEW s \in Seq(S), NEW e \in S, NEW x, NEW y
    PROVE  Before(x, y, Append(s, e)) <=> Before(x, y, s) \/ (Contains(s, x) /\ y = e)
  <1> DEFINE t == Append(s, e)
  <1>1. /\ Len(t) = Len(s) + 1 /\ t[Len(s) + 1] = e /\ Len(s) \in Nat
        /\ \A i \in 1 .. Len(s) : t[i] = s[i]
    BY AppendProperties, LenProperties
  <1> HIDE DEF t
  <1>2. ASSUME Before(x, y, t) PROVE Before(x, y, s) \/ (Contains(s, x) /\ y = e)
    <2>1. PICK i \in 1 .. Len(t), j \in 1 .. Len(t) : i < j /\ t[i] = x /\ t[j] = y
      BY <1>2 DEF Before
    <2>2. i \in 1 .. Len(s) /\ s[i] = x
      BY <1>1, <2>1
    <2>3. CASE j = Len(s) + 1
      BY <1>1, <2>1, <2>2, <2>3 DEF Contains
    <2>4. CASE j # Len(s) + 1
      <3>1. j \in 1 .. Len(s) /\ s[j] = y
        BY <1>1, <2>1, <2>4
      <3>2. QED
        BY <2>1, <2>2, <3>1 DEF Before
    <2>5. QED
      BY <2>3, <2>4
  <1>3. ASSUME Before(x, y, s) PROVE Before(x, y, t)
    BY <1>1, <1>3 DEF Before
  <1>4. ASSUME Contains(s, x), y = e PROVE Before(x, y, t)
    <2>1. PICK i \in 1 .. Len(s) : s[i] = x
      BY <1>4 DEF Contains
    <2>2. i \in 1 .. Len(t) /\ Len(s) + 1 \in 1 .. Len(t) /\ i < Len(s) + 1 /\ t[i] = x
      BY <1>1, <2>1
    <2>3. QED
      BY <1>1, <1>4, <2>2 DEF Before
  <1>5. QED
    BY <1>2, <1>3, <1>4 DEF t

(* In a concatenation.                                                     *)
LEMMA BeforeConcat ==
    ASSUME NEW S, NEW s \in Seq(S), NEW t \in Seq(S), NEW x, NEW y,
           Before(x, y, s) \/ Before(x, y, t) \/ (Contains(s, x) /\ Contains(t, y))
    PROVE  Before(x, y, s \o t)
  <1>1. /\ Len(s \o t) = Len(s) + Len(t) /\ Len(s) \in Nat /\ Len(t) \in Nat
        /\ \A i \in 1 .. Len(s) : (s \o t)[i] = s[i]
        /\ \A i \in 1 .. Len(t) : (s \o t)[Len(s) + i] = t[i]
    <2>1. /\ Len(s \o t) = Len(s) + Len(t) /\ Len(s) \in Nat /\ Len(t) \in Nat
          /\ \A i \in 1 .. Len(s) + Len(t) :
             (s \o t)[i] = IF i <= Len(s) THEN s[i] ELSE t[i - Len(s)]
      BY ConcatProperties, LenProperties
    <2>2. ASSUME NEW i \in 1 .. Len(t) PROVE (s \o t)[Len(s) + i] = t[i]
      <3>1. /\ Len(s) + i \in 1 .. Len(s) + Len(t) /\ ~(Len(s) + i <= Len(s))
            /\ Len(s) + i - Len(s) = i
        BY <2>1
      <3>2. QED
        BY <2>1, <3>1
    <2>3. QED
      BY <2>1, <2>2
  <1>2. CASE Before(x, y, s)
    BY <1>1, <1>2 DEF Before
  <1>3. CASE Before(x, y, t)
    <2>1. PICK i \in 1 .. Len(t), j \in 1 .. Len(t) : i < j /\ t[i] = x /\ t[j] = y
      BY <1>3 DEF Before
    <2>2. /\ Len(s) + i \in 1 .. Len(s \o t) /\ Len(s) + j \in 1 .. Len(s \o t)
          /\ Len(s) + i < Len(s) + j /\ (s \o t)[Len(s) + i] = x /\ (s \o t)[Len(s) + j] = y
      BY <1>1, <2>1
    <2>3. QED
      BY <2>2 DEF Before
  <1>4. CASE Contains(s, x) /\ Contains(t, y)
    <2>1. PICK i \in 1 .. Len(s) : s[i] = x
      BY <1>4 DEF Contains
    <2>2. PICK j \in 1 .. Len(t) : t[j] = y
      BY <1>4 DEF Contains
    <2>3. /\ i \in 1 .. Len(s \o t) /\ Len(s) + j \in 1 .. Len(s \o t)
          /\ i < Len(s) + j /\ (s \o t)[i] = x /\ (s \o t)[Len(s) + j] = y
      BY <1>1, <2>1, <2>2
    <2>4. QED
      BY <2>3 DEF Before
  <1>5. QED
    BY <1>2, <1>3, <1>4

(* After a cut: in one of the parts, or across it.                         *)
LEMMA BeforeCut ==
    ASSUME NEW S, NEW s \in Seq(S), NEW n \in 1 .. Len(s), Distinct(s), NEW x, NEW y,
           Before(x, y, s)
    PROVE  LET a == SubSeq(s, 1, n)
               b == SubSeq(s, n + 1, Len(s))
           IN  /\ Contains(a, y) => Before(x, y, a) /\ ~Contains(b, x)
               /\ Contains(b, x) => Before(x, y, b)
  <1> DEFINE a == SubSeq(s, 1, n)
             b == SubSeq(s, n + 1, Len(s))
  <1>1. /\ Len(a) = n /\ \A i \in 1 .. n : a[i] = s[i]
        /\ Len(b) = Len(s) - n /\ \A i \in 1 .. Len(s) - n : b[i] = s[n + i]
        /\ Len(s) \in Nat
    BY CutInTwo
  <1> HIDE DEF a, b
  <1>2. PICK i \in 1 .. Len(s), j \in 1 .. Len(s) : i < j /\ s[i] = x /\ s[j] = y
    BY DEF Before
  <1>3. ASSUME Contains(a, y) PROVE Before(x, y, a)
    <2>1. PICK k \in 1 .. n : a[k] = y
      BY <1>1, <1>3 DEF Contains
    <2>2. k \in 1 .. Len(s) /\ s[k] = s[j]
      BY <1>1, <1>2, <2>1
    <2>3. k = j
      BY <2>2 DEF Distinct
    <2>4. i \in 1 .. Len(a) /\ j \in 1 .. Len(a) /\ a[i] = x /\ a[j] = y
      BY <1>1, <1>2, <2>1, <2>3
    <2>5. QED
      BY <1>2, <2>4 DEF Before
  <1>4. ASSUME Contains(b, x) PROVE Before(x, y, b)
    <2>1. PICK k \in 1 .. Len(s) - n : b[k] = x
      BY <1>1, <1>4 DEF Contains
    <2>2. n + k \in 1 .. Len(s) /\ s[n + k] = s[i]
      BY <1>1, <1>2, <2>1
    <2>3. n + k = i
      BY <2>2 DEF Distinct
    <2>4. j - n \in 1 .. Len(b) /\ k \in 1 .. Len(b) /\ k < j - n /\ b[j - n] = y
      BY <1>1, <1>2, <2>1, <2>3
    <2>5. QED
      BY <2>1, <2>4 DEF Before
  <1>5. \A z : ~(Contains(a, z) /\ Contains(b, z))
    BY DistinctCut DEF a, b
  <1>6. ASSUME Contains(a, y) PROVE ~Contains(b, x)
    BY <1>3, <1>5, <1>6, BeforeIsIn
  <1>7. QED
    BY <1>3, <1>4, <1>6 DEF a, b

(* A place keeps the order of Add, but for split payloads that overtake    *)
(* within their batch.                                                     *)
Follows(x, y, s) == Before(x, y, s) \/ Overtakes(y, x)
Keeps(s) ==
    \A x, y \in Payloads :
        Contains(s, x) /\ Contains(s, y) /\ Before(x, y, added) => Follows(x, y, s)

(* Without overlap one process at most sends a batch, the handled part,    *)
(* the batch and the buffer each keep the order of Add, and nothing in an  *)
(* earlier place was added after something in a later one, unless it is a  *)
(* split payload of the batch under way.  A payload that is buffered or to *)
(* be built has not been split.                                            *)
OneBatch == \A p, q \in Procs : local[p] # <<>> /\ local[q] # <<>> => p = q
BufKeepsOrder ==
    \A x, y \in Payloads :
        Contains(buf, x) /\ Contains(buf, y) /\ Before(x, y, added) => Before(x, y, buf)
ToBuildInOrder ==
    \A p \in Procs : pc[p] = "build" =>
        \A x, y \in Payloads :
            Contains(local[p], x) /\ Contains(local[p], y) /\ Before(x, y, added) =>
                Before(x, y, local[p])
PlacesKeepOrder == Keeps(sent) /\ BufKeepsOrder /\ ToBuildInOrder /\ \A p \in Procs : Keeps(local[p])
SentIsAhead == \A x, y \in Payloads : Before(x, y, added) /\ Contains(sent, y) =>
                  /\ ~Contains(buf, x)
                  /\ \A p \in Procs : Contains(local[p], x) => pc[p] = "send" /\ Overtakes(y, x)
BatchIsAhead == \A x, y \in Payloads : \A p \in Procs :
                  Before(x, y, added) /\ Contains(local[p], y) => ~Contains(buf, x)
SameBatch == \A p \in Procs : \A x, y \in Payloads :
                  Contains(local[p], x) /\ Contains(local[p], y) => batch[x] = batch[y]
SplitWhenBuilt ==
    /\ \A x \in split : Contains(added, x)
    /\ \A x \in Payloads :
        Contains(buf, x) \/ (\E p \in Procs : pc[p] = "build" /\ Contains(local[p], x)) =>
            x \notin split

InOrder ==
    /\ OneBatch /\ PlacesKeepOrder /\ SentIsAhead /\ BatchIsAhead
    /\ SameBatch /\ SplitWhenBuilt
OrderInv == ~overlapped => InOrder

(* Every step without overlap keeps the order.                             *)
LEMMA OrderStep == CarriedInv /\ OrderInv /\ [Next]_vars => OrderInv'
  <1> SUFFICES ASSUME TypeOK, NothingDuplicated, SendingHoldsBatch, CameFromAdd, OrderInv,
                      [Next]_vars, ~overlapped'
               PROVE  InOrder'
    BY DEF CarriedInv, OrderInv
  <1> USE DEF procVars, history
  <1>0. PlaceTypes /\ ProcTypes /\ Ticker \in Procs /\ Callers \subseteq Procs
    BY TypesInParts DEF Procs
  <1>f. ASSUME UNCHANGED <<buf, local, sent, added, batch, split, overlapped>>,
               \A p \in Procs : pc'[p] = "build" => pc[p] = "build",
               \A p \in Procs : pc[p] = "send" => pc'[p] = "send"
        PROVE  InOrder'
    <2>1. InOrder /\ \A x, y : Overtakes(y, x)' <=> Overtakes(y, x)
      BY <1>f DEF OrderInv, Overtakes
    <2>2. OneBatch' /\ BatchIsAhead' /\ SameBatch' /\ SplitWhenBuilt'
      BY <1>f, <2>1 DEF InOrder, OneBatch, BatchIsAhead, SameBatch, SplitWhenBuilt
    <2>3. PlacesKeepOrder'
      BY <1>f, <2>1 DEF InOrder, PlacesKeepOrder, Keeps, Follows, BufKeepsOrder, ToBuildInOrder
    <2>4. SentIsAhead'
      BY <1>f, <2>1 DEF InOrder, SentIsAhead
    <2>5. QED
      BY <2>2, <2>3, <2>4 DEF InOrder
  <1>1. ASSUME NEW c \in Callers, NEW e \in Payloads, Add(c, e) PROVE InOrder'
    <2>1. /\ buf' = Append(buf, e) /\ added' = Append(added, e)
          /\ UNCHANGED <<local, sent, batch, split>> /\ ~Contains(added, e) /\ InOrder
          /\ \A p \in Procs : /\ pc'[p] = "build" => pc[p] = "build"
                              /\ pc[p] = "send" => pc'[p] = "send"
      BY <1>0, <1>1 DEF Add, BufWith, Contains, OrderInv, ProcTypes
    <2>2. ~Contains(buf, e) /\ ~Contains(sent, e) /\ \A p \in Procs : ~Contains(local[p], e)
      BY <2>1 DEF CameFromAdd, Somewhere
    <2>3. /\ \A x, y : Before(x, y, added') <=> Before(x, y, added) \/ (Contains(added, x) /\ y = e)
          /\ \A x, y : Before(x, y, buf') <=> Before(x, y, buf) \/ (Contains(buf, x) /\ y = e)
          /\ \A x : Contains(buf', x) <=> Contains(buf, x) \/ x = e
      BY <1>0, <2>1, BeforeAppend, ContainsAppend DEF PlaceTypes
    <2>4. \A x, y : Before(x, y, added) => x # e /\ y # e
      BY <2>1, BeforeIsIn
    <2>5. BufKeepsOrder'
      BY <2>1, <2>2, <2>3, <2>4 DEF InOrder, PlacesKeepOrder, BufKeepsOrder
    <2>o. \A x, y : Overtakes(y, x)' <=> Overtakes(y, x)
      BY <2>1 DEF Overtakes
    <2>6. Keeps(sent)' /\ \A p \in Procs : Keeps(local[p])'
      BY <2>1, <2>2, <2>3, <2>o DEF InOrder, PlacesKeepOrder, Keeps, Follows
    <2>6b. ToBuildInOrder'
      BY <2>1, <2>2, <2>3 DEF InOrder, PlacesKeepOrder, ToBuildInOrder
    <2>7. SentIsAhead'
      BY <2>1, <2>2, <2>3, <2>4, <2>o DEF InOrder, SentIsAhead
    <2>8. BatchIsAhead'
      BY <2>1, <2>2, <2>3, <2>4 DEF InOrder, BatchIsAhead
    <2>9. SplitWhenBuilt'
      <3>1. e \notin split
        BY <2>1 DEF InOrder, SplitWhenBuilt
      <3>2. \A x \in split' : Contains(added', x)
        BY <1>0, <2>1, ContainsAppend DEF InOrder, SplitWhenBuilt, PlaceTypes
      <3>3. QED
        BY <2>1, <2>3, <3>1, <3>2 DEF InOrder, SplitWhenBuilt
    <2>10. QED
      BY <2>1, <2>5, <2>6, <2>6b, <2>7, <2>8, <2>9
         DEF InOrder, PlacesKeepOrder, OneBatch, SameBatch
  <1>3. ASSUME NEW c \in Callers, AddCheck(c) \/ BatchCall(c) \/ ResetApply(c) \/ ExitCall(c)
                                 \/ ExitSend(c) \/ \E k \in Confs : ResetCall(c, k)
        PROVE  InOrder'
    <2>1. /\ UNCHANGED <<buf, local, sent, added, batch, split, overlapped>>
          /\ \A p \in Procs : /\ pc'[p] = "build" => pc[p] = "build"
                              /\ pc[p] = "send" => pc'[p] = "send"
      BY <1>0, <1>3 DEF AddCheck, BatchCall, ResetApply, ExitCall, ExitSend, ResetCall, ProcTypes
    <2>2. QED
      BY <2>1, <1>f
  <1>4. CASE Tick \/ TickerExits
    <2>1. /\ UNCHANGED <<buf, local, sent, added, batch, split, overlapped>>
          /\ \A p \in Procs : /\ pc'[p] = "build" => pc[p] = "build"
                              /\ pc[p] = "send" => pc'[p] = "send"
      BY <1>0, <1>4 DEF Tick, TickerExits, ProcTypes
    <2>2. QED
      BY <2>1, <1>f
  <1>5. CASE UNCHANGED vars
    BY <1>f, <1>5 DEF vars
  <1>6. ASSUME NEW c \in Callers, Clear(c) PROVE InOrder'
    <2>1. buf' = <<>> /\ UNCHANGED <<pc, local, sent, added, batch, split>> /\ InOrder
      BY <1>6 DEF Clear, OrderInv
    <2>2. /\ \A x : ~Contains(buf', x)
          /\ \A x, y : Overtakes(y, x)' <=> Overtakes(y, x)
      BY <2>1, EmptyPlace DEF Overtakes
    <2>3. OneBatch' /\ BatchIsAhead' /\ SameBatch' /\ SplitWhenBuilt'
      BY <2>1, <2>2 DEF InOrder, OneBatch, BatchIsAhead, SameBatch, SplitWhenBuilt
    <2>4. PlacesKeepOrder'
      BY <2>1, <2>2 DEF InOrder, PlacesKeepOrder, Keeps, Follows, BufKeepsOrder, ToBuildInOrder
    <2>5. SentIsAhead'
      BY <2>1, <2>2 DEF InOrder, SentIsAhead
    <2>6. QED
      BY <2>3, <2>4, <2>5 DEF InOrder
  <1>7. ASSUME NEW p \in Procs, Swap(p) PROVE InOrder'
    <2>1. ~overlapped /\ \A q \in Procs : local[q] = <<>>
      BY <1>7, Zenon DEF Swap
    <2>2. /\ buf' = <<>> /\ local'[p] = buf /\ \A q \in Procs : q # p => local'[q] = local[q]
          /\ UNCHANGED <<added, sent, split>> /\ InOrder
          /\ batch' = [x \in Payloads |-> IF Contains(buf, x) THEN Len(added) ELSE batch[x]]
      BY <1>0, <1>7, <2>1 DEF Swap, PlaceTypes, OrderInv
    <2>3. \A x : ~Contains(buf', x) /\ \A q \in Procs : q # p => ~Contains(local'[q], x)
      BY <2>1, <2>2, EmptyPlace
    <2>4. OneBatch'
      BY <2>1, <2>2 DEF OneBatch
    <2>5. \A x \in Payloads : /\ Contains(sent, x) => batch'[x] = batch[x]
                              /\ Contains(local'[p], x) => batch'[x] = Len(added)
      BY <2>2 DEF NothingDuplicated
    <2>6. Keeps(sent)'
      BY <2>2, <2>5 DEF InOrder, PlacesKeepOrder, Keeps, Follows, Overtakes
    <2>7. \A q \in Procs : \A x, y \in Payloads :
             Contains(local'[q], x) /\ Contains(local'[q], y) /\ Before(x, y, added) =>
                 Before(x, y, local'[q])
      BY <2>2, <2>3 DEF InOrder, PlacesKeepOrder, BufKeepsOrder
    <2>8. PlacesKeepOrder'
      BY <2>2, <2>3, <2>6, <2>7
         DEF PlacesKeepOrder, Keeps, Follows, BufKeepsOrder, ToBuildInOrder
    <2>9. SentIsAhead'
      BY <2>2, <2>3 DEF InOrder, SentIsAhead
    <2>10. BatchIsAhead'
      BY <2>3 DEF BatchIsAhead
    <2>11. SameBatch'
      BY <2>3, <2>5 DEF SameBatch
    <2>12. SplitWhenBuilt'
      BY <2>2, <2>3 DEF InOrder, SplitWhenBuilt
    <2>13. QED
      BY <2>4, <2>8, <2>9, <2>10, <2>11, <2>12 DEF InOrder
  <1>8. ASSUME NEW p \in Procs, Build(p) PROVE InOrder'
    <2> DEFINE long == TooLong(local[p])
    <2>1. PICK t \in Builds(local[p], long) : local' = [local EXCEPT ![p] = t]
      BY <1>8 DEF Build
    <2>2. local[p] \in Seq(Payloads)
      BY <1>0 DEF PlaceTypes
    <2>3. /\ \A x : Contains(t, x) <=> Contains(local[p], x)
          /\ \A x, y : Before(x, y, local[p]) => Before(x, y, t) \/ (y \in long /\ x \notin long)
          /\ Len(t) = Len(local[p]) /\ t \in Seq(Payloads)
      BY <2>1, <2>2, BuiltPlace
    <2>4. \A x \in long : x \in Payloads /\ Contains(local[p], x)
      BY <2>2, ToSetContains DEF TooLong
    <2> HIDE DEF long
    <2>5. /\ UNCHANGED <<buf, added, sent, batch>> /\ split' = split \cup long /\ InOrder
          /\ local'[p] = t /\ \A q \in Procs : q # p => local'[q] = local[q] /\ pc'[q] = pc[q]
          /\ pc[p] = "build" /\ pc'[p] = "send"
      BY <1>0, <1>8, <2>1 DEF Build, long, PlaceTypes, ProcTypes, OrderInv
    <2>6. /\ \A q \in Procs : \A x : Contains(local'[q], x) <=> Contains(local[q], x)
          /\ \A q \in Procs : local'[q] # <<>> => local[q] # <<>>
      BY <2>2, <2>3, <2>5, EmptySeq
    <2>7. OneBatch' /\ BatchIsAhead' /\ SameBatch'
      BY <2>5, <2>6 DEF InOrder, OneBatch, BatchIsAhead, SameBatch
    <2>8. SplitWhenBuilt'
      <3>1. \A x \in split' : Contains(added, x)
        BY <2>4, <2>5 DEF InOrder, SplitWhenBuilt, CameFromAdd, Somewhere
      <3>2. \A x \in Payloads : Contains(buf, x) => x \notin split'
        BY <2>4, <2>5 DEF InOrder, SplitWhenBuilt, NothingDuplicated
      <3>3. \A x \in Payloads : \A q \in Procs :
               pc'[q] = "build" /\ Contains(local'[q], x) => x \notin split'
        BY <2>4, <2>5 DEF InOrder, SplitWhenBuilt, NothingDuplicated
      <3>4. QED
        BY <3>1, <3>2, <3>3, <2>5 DEF SplitWhenBuilt
    <2>9. \A x, y \in Payloads : Overtakes(y, x) /\ ~Contains(local[p], x) => Overtakes(y, x)'
      BY <2>4, <2>5 DEF Overtakes
    <2>10. Keeps(sent)'
      BY <2>5, <2>9 DEF InOrder, PlacesKeepOrder, Keeps, Follows, NothingDuplicated
    <2>11. BufKeepsOrder' /\ ToBuildInOrder'
      BY <2>5 DEF InOrder, PlacesKeepOrder, BufKeepsOrder, ToBuildInOrder
    <2>12. ASSUME NEW q \in Procs PROVE Keeps(local[q])'
      <3>1. CASE q = p
        <4> SUFFICES ASSUME NEW x \in Payloads, NEW y \in Payloads, Contains(local[p], x),
                            Contains(local[p], y), Before(x, y, added)
                     PROVE  Before(x, y, t) \/ Overtakes(y, x)'
          BY <2>5, <2>6, <3>1 DEF Keeps, Follows
        <4>1. Before(x, y, t) \/ (y \in long /\ x \notin long)
          BY <2>3, <2>5 DEF InOrder, PlacesKeepOrder, ToBuildInOrder
        <4>2. x \notin split /\ batch[x] = batch[y]
          BY <2>5 DEF InOrder, SplitWhenBuilt, SameBatch
        <4>3. QED
          BY <4>1, <4>2, <2>5 DEF Overtakes
      <3>2. CASE q # p
        BY <3>2, <2>5, <2>9 DEF InOrder, PlacesKeepOrder, Keeps, Follows, NothingDuplicated
      <3>3. QED
        BY <3>1, <3>2
    <2>13. SentIsAhead'
      <3> SUFFICES ASSUME NEW x \in Payloads, NEW y \in Payloads, Before(x, y, added), Contains(sent, y)
                   PROVE  /\ ~Contains(buf, x)
                          /\ \A q \in Procs : Contains(local'[q], x) =>
                                 pc'[q] = "send" /\ Overtakes(y, x)'
        BY <2>5 DEF SentIsAhead
      <3>1. ~Contains(buf, x) /\ ~Contains(local[p], x)
        BY <2>5 DEF InOrder, SentIsAhead
      <3>2. ASSUME NEW q \in Procs, Contains(local'[q], x)
            PROVE  pc'[q] = "send" /\ Overtakes(y, x)'
        BY <2>5, <2>6, <2>9, <3>1, <3>2 DEF InOrder, SentIsAhead
      <3>3. QED
        BY <3>1, <3>2
    <2>14. QED
      BY <2>7, <2>8, <2>10, <2>11, <2>12, <2>13 DEF InOrder, PlacesKeepOrder
  <1>9. ASSUME NEW p \in Procs, HandleStep(p) PROVE InOrder'
    <2>1. PICK n \in 1 .. Len(local[p]), ok \in BOOLEAN : Handle(p, n, ok)
      BY <1>9 DEF HandleStep
    <2> DEFINE part == SubSeq(local[p], 1, n)
               rest == SubSeq(local[p], n + 1, Len(local[p]))
    <2>2. /\ sent' = IF ok THEN sent \o part ELSE sent
          /\ local'[p] = rest /\ \A q \in Procs : q # p => local'[q] = local[q] /\ pc'[q] = pc[q]
          /\ UNCHANGED <<buf, added, batch, split>> /\ InOrder
          /\ pc'[p] # "send" => rest = <<>>
          /\ pc[p] = "send"
      BY <1>0, <2>1 DEF Handle, RestOf, PlaceTypes, ProcTypes, OrderInv
    <2>2b. pc'[p] # "build"
      BY <1>0, <2>1, Zenon DEF Handle, After, ProcTypes
    <2>3. /\ local[p] \in Seq(Payloads) /\ sent \in Seq(Payloads) /\ Distinct(local[p])
          /\ n \in 1 .. Len(local[p])
      BY <1>0, <2>1 DEF PlaceTypes, NothingDuplicated
    <2>4. part \in Seq(Payloads)
      BY <2>3, CutInTwo
    <2>5. \A x : Contains(local[p], x) <=> Contains(part, x) \/ Contains(rest, x)
      BY <2>3, ContainsCut
    <2>6. \A x, y : Before(x, y, local[p]) =>
            /\ Contains(part, y) => Before(x, y, part) /\ ~Contains(rest, x)
            /\ Contains(rest, x) => Before(x, y, rest)
      BY <2>3, BeforeCut
    <2>7. local[p] # <<>>
      BY <2>3, EmptySeq
    <2>o. \A x, y : Overtakes(y, x)' <=> Overtakes(y, x)
      BY <2>2 DEF Overtakes
    <2> HIDE DEF part, rest
    <2>8. \A q \in Procs : \A x : Contains(local'[q], x) => Contains(local[q], x)
      BY <2>2, <2>5
    <2>9. \A q \in Procs : q # p => local[q] = <<>> /\ \A x : ~Contains(local'[q], x)
      BY <2>2, <2>7, EmptyPlace DEF InOrder, OneBatch
    <2>10. OneBatch'
      BY <2>2, <2>9 DEF OneBatch
    <2>11. Keeps(part)
      BY <2>5, <2>6, <2>2 DEF InOrder, PlacesKeepOrder, Keeps, Follows
    <2>12. Keeps(rest)
      BY <2>5, <2>6, <2>2 DEF InOrder, PlacesKeepOrder, Keeps, Follows
    <2>13. \A x : Contains(sent', x) => Contains(sent, x) \/ Contains(part, x)
      BY <2>2, <2>3, <2>4, ContainsConcat
    <2>14. Keeps(sent \o part)
      <3> SUFFICES ASSUME NEW x \in Payloads, NEW y \in Payloads, Contains(sent \o part, x),
                          Contains(sent \o part, y), Before(x, y, added), ~Overtakes(y, x)
                   PROVE  Before(x, y, sent \o part)
        BY DEF Keeps, Follows
      <3>1. /\ Contains(sent, x) \/ Contains(part, x)
            /\ Contains(sent, y) \/ Contains(part, y)
        BY <2>3, <2>4, ContainsConcat
      <3>2. ~(Contains(part, x) /\ Contains(sent, y))
        BY <2>2, <2>5 DEF InOrder, SentIsAhead
      <3>3. Before(x, y, sent) \/ Before(x, y, part) \/ (Contains(sent, x) /\ Contains(part, y))
        BY <3>1, <3>2, <2>2, <2>11 DEF InOrder, PlacesKeepOrder, Keeps, Follows
      <3>4. QED
        BY <3>3, <2>3, <2>4, BeforeConcat
    <2>15. PlacesKeepOrder'
      <3>1. Keeps(sent)'
        BY <2>2, <2>14, <2>o DEF InOrder, PlacesKeepOrder, Keeps, Follows
      <3>2. BufKeepsOrder'
        BY <2>2 DEF InOrder, PlacesKeepOrder, BufKeepsOrder
      <3>3. ToBuildInOrder'
        BY <2>2, <2>2b, <2>9 DEF ToBuildInOrder
      <3>4. ASSUME NEW q \in Procs PROVE Keeps(local[q])'
        <4>1. CASE q = p
          BY <4>1, <2>2, <2>12, <2>o DEF Keeps, Follows
        <4>2. CASE q # p
          BY <4>2, <2>9 DEF Keeps
        <4>3. QED
          BY <4>1, <4>2
      <3>5. QED
        BY <3>1, <3>2, <3>3, <3>4 DEF PlacesKeepOrder
    <2>16. BatchIsAhead' /\ SameBatch'
      BY <2>2, <2>8 DEF InOrder, BatchIsAhead, SameBatch
    <2>17. SplitWhenBuilt'
      BY <2>2, <2>2b, <2>9 DEF InOrder, SplitWhenBuilt
    <2>18. SentIsAhead'
      <3>0. \A z : Contains(rest, z) => pc'[p] = "send"
        BY <2>2, EmptyPlace
      <3> SUFFICES ASSUME NEW x \in Payloads, NEW y \in Payloads, Before(x, y, added),
                          Contains(sent', y)
                   PROVE  /\ ~Contains(buf, x)
                          /\ Contains(rest, x) => Overtakes(y, x)
        BY <2>2, <2>9, <2>o, <3>0 DEF SentIsAhead
      <3>1. CASE Contains(sent, y)
        BY <3>1, <2>2, <2>5 DEF InOrder, SentIsAhead
      <3>2. CASE Contains(part, y)
        <4>1. Contains(local[p], y) /\ ~Contains(buf, x)
          BY <3>2, <2>2, <2>5 DEF InOrder, BatchIsAhead
        <4>2. ASSUME Contains(rest, x) PROVE Overtakes(y, x)
          <5>1. Follows(x, y, local[p])
            BY <4>1, <4>2, <2>2, <2>5 DEF InOrder, PlacesKeepOrder, Keeps
          <5>2. QED
            BY <5>1, <4>2, <2>6, <3>2 DEF Follows
        <4>3. QED
          BY <4>1, <4>2
      <3>3. QED
        BY <3>1, <3>2, <2>13
    <2>19. QED
      BY <2>10, <2>15, <2>16, <2>17, <2>18 DEF InOrder
  <1>10. QED
    BY <1>1, <1>3, <1>4, <1>5, <1>6, <1>7, <1>8, <1>9 DEF Next, CallerStep

(* As long as no batch is swapped out while another one is being sent, the *)
(* payloads reach the handler in the order of Add, whoever flushes them,   *)
(* but for those that Build split, which overtake within their batch.      *)
THEOREM OrderWithoutOverlap == Spec => []InOrderWithoutOverlap
  <1>1. Init => OrderInv
    <2> SUFFICES ASSUME Init PROVE InOrder
      BY DEF OrderInv
    <2>1. /\ \A x : ~Contains(buf, x) /\ ~Contains(sent, x)
          /\ \A p \in Procs : local[p] = <<>> /\ \A x : ~Contains(local[p], x)
          /\ split = {}
      BY EmptyPlace DEF Init
    <2>2. QED
      BY <2>1 DEF InOrder, OneBatch, PlacesKeepOrder, Keeps, BufKeepsOrder, ToBuildInOrder,
                  SentIsAhead, BatchIsAhead, SameBatch, SplitWhenBuilt
  <1>2. CarriedInv /\ OrderInv => InOrderWithoutOverlap
    <2> SUFFICES ASSUME CarriedInv, InOrder, NEW x \in ToSet(sent), NEW y \in ToSet(sent),
                        Before(x, y, added)
                 PROVE  Before(x, y, sent) \/ Overtakes(y, x)
      BY DEF OrderInv, InOrderWithoutOverlap
    <2>1. sent \in Seq(Payloads)
      BY DEF CarriedInv, TypeOK
    <2>2. x \in Payloads /\ y \in Payloads /\ Contains(sent, x) /\ Contains(sent, y)
      BY <2>1, ToSetContains
    <2>3. QED
      BY <2>2 DEF InOrder, PlacesKeepOrder, Keeps, Follows
  <1>3. QED
    BY <1>1, <1>2, InitCarried, CarriedStep, OrderStep, PTL DEF Spec
=============================================================================
