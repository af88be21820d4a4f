----------------------------- MODULE NatsProofs -----------------------------
(* Proofs about both ends of the NATS stream: Publisher, for every set of  *)
(* messages, every capacity of the channel and any number of starts, stops *)
(* and failures, and Dispatcher, for any number of messages, of restarts   *)
(* and of retry delays, and any size of a fetched batch.                   *)
EXTENDS Publisher, Dispatcher, SequenceTheorems, TLAPS

(* The states of a goroutine of handlePubchan, and the message in its      *)
(* hands.                                                                  *)
HandlerPcs == {"none", "select", "publish", "reconnect", "republish", "done"}
Msg(c) == pubHandler[c].msg

-----------------------------------------------------------------------------
(* The inductive invariant *)

(* Types, of the parts and of the sequences of messages.                   *)
PubTypes ==
    /\ pubServer \in BOOLEAN /\ pubPanicked \in BOOLEAN
    /\ pubConn \in {"nil", "open", "broken"}
    /\ pubPc \in {"idle", "connect", "stream", "drain", "shutdown"}
    /\ pubStarts \in 0..MaxStarts /\ pubStream \in 0..StoreMaxBytes
    /\ pubHandler \in [Contexts -> [pc : HandlerPcs, msg : PubMessages \cup {NoMessage}]]
    /\ pubWaiting \subseteq PubMessages /\ pubDropped \subseteq PubMessages
PubSeqs ==
    /\ pubChannel \in Seq(PubMessages) /\ Len(pubChannel) <= PubCap
    /\ pubEntered \in Seq(PubMessages) /\ pubStored \in Seq(PubMessages)

(* At most one context is live, the latest, and while it lives the server  *)
(* and the connection are there: only a stop takes them away.              *)
OneLive ==
    /\ pubLive \subseteq {pubStarts} /\ (pubLive # {} => pubStarts # 0)
    /\ pubLive # {} => pubServer /\ pubConn = "open"
    /\ pubPc = "connect" => pubStarts < MaxStarts /\ pubLive = {} /\ pubServer
    /\ pubPc = "stream" => pubStarts # 0 /\ pubHandler[pubStarts].pc = "none"
    /\ pubPc \in {"drain", "shutdown"} => pubLive = {}
    /\ \A c \in Contexts : c > pubStarts => pubHandler[c].pc = "none"

(* A goroutine holds a message from the select to the end of the publish;  *)
(* one that a stop or a failure has not met is held by the live context    *)
(* at its first publish.                                                   *)
HandsOfLive ==
    \A c \in Contexts :
        /\ (Msg(c) = NoMessage) <=> (pubHandler[c].pc \in {"none", "select", "done"})
        /\ Msg(c) # NoMessage /\ Msg(c) \notin pubHit =>
             c \in pubLive /\ pubHandler[c].pc = "publish"

(* The panics of StopServer and handlePubchan.                             *)
PanicMet ==
    pubPanicked => pubStarts = 0 \/ \E c \in Contexts : Msg(c) # NoMessage /\ Msg(c) \in pubHit

(* The channel is the end of what entered; the rest has been taken.        *)
Taken == Len(pubEntered) - Len(pubChannel)
Queued ==
    /\ Taken >= 0
    /\ \A i \in 1..Len(pubChannel) : pubChannel[i] = pubEntered[Taken + i]
    /\ \A i, j \in 1..Len(pubEntered) : pubEntered[i] = pubEntered[j] => i = j
    /\ \A i \in 1..Len(pubEntered) : pubEntered[i] \notin pubWaiting

(* Where a taken message is, and that no message is in two places.         *)
IsStored(x) == \E i \in 1..Len(pubStored) : pubStored[i] = x
IsTaken(x) == \E k \in 1..Taken : pubEntered[k] = x
InPlace(x) ==
    (\E c \in Contexts : Msg(c) = x) \/ IsStored(x) \/ x \in pubDropped
Places ==
    /\ \A k \in 1..Taken : InPlace(pubEntered[k])
    /\ \A c \in Contexts : Msg(c) # NoMessage => IsTaken(Msg(c))
    /\ \A i \in 1..Len(pubStored) : IsTaken(pubStored[i])
    /\ \A x \in pubDropped : IsTaken(x)
OnePlace ==
    /\ \A c, d \in Contexts : Msg(c) # NoMessage /\ Msg(c) = Msg(d) => c = d
    /\ \A c \in Contexts : Msg(c) # NoMessage => ~IsStored(Msg(c)) /\ Msg(c) \notin pubDropped
    /\ \A x \in pubDropped : ~IsStored(x) /\ x \in pubHit
    /\ \A i, j \in 1..Len(pubStored) : pubStored[i] = pubStored[j] => i = j

(* Order: whatever no failure and no stop has met is stored in the order   *)
(* of the channel, and ahead of what a goroutine still holds.              *)
Ahead(x, y) ==
    \E k, l \in 1..Len(pubEntered) : k < l /\ pubEntered[k] = x /\ pubEntered[l] = y
StoredAhead ==
    /\ \A i, j \in 1..Len(pubStored) : i < j =>
         Ahead(pubStored[i], pubStored[j]) \/ pubStored[i] \in pubHit \/ pubStored[j] \in pubHit
    /\ \A i \in 1..Len(pubStored), c \in Contexts : Msg(c) # NoMessage =>
         Ahead(pubStored[i], Msg(c)) \/ pubStored[i] \in pubHit \/ Msg(c) \in pubHit

(* The parts about messages, and the inductive invariant of Publisher.     *)
PubFlowInv == Queued /\ Places /\ OnePlace /\ StoredAhead
PubInv == PubTypes /\ PubSeqs /\ OneLive /\ HandsOfLive /\ PanicMet /\ PubFlowInv

-----------------------------------------------------------------------------
(* The messages' way *)

(* Steps that move no message; a failure or a stop may meet some.          *)
LEMMA FlowFrame ==
    ASSUME PubFlowInv, UNCHANGED <<pubWaiting, pubChannel, pubEntered, pubStored, pubDropped>>,
           \A c \in Contexts : Msg(c)' = Msg(c), pubHit \subseteq pubHit'
    PROVE  PubFlowInv'
  <1>1. Taken' = Taken /\ Queued'
    BY DEF PubFlowInv, Queued, Taken
  <1>2. /\ \A x : IsStored(x)' <=> IsStored(x)
        /\ \A x : IsTaken(x)' <=> IsTaken(x)
        /\ \A x : InPlace(x)' <=> InPlace(x)
        /\ \A x, y : Ahead(x, y)' <=> Ahead(x, y)
    BY <1>1 DEF IsStored, IsTaken, InPlace, Ahead
  <1>3. Places'
    BY <1>1, <1>2 DEF PubFlowInv, Places
  <1>4. OnePlace'
    BY <1>2 DEF PubFlowInv, OnePlace
  <1>5. StoredAhead'
    BY <1>2 DEF PubFlowInv, StoredAhead
  <1>6. QED
    BY <1>1, <1>3, <1>4, <1>5 DEF PubFlowInv

(* Pub starts a goroutine with a message that has not entered.             *)
LEMMA PubFlowStep ==
    ASSUME PubFlowInv, NEW m \in PubMessages, Pub(m)
    PROVE  PubFlowInv'
  <1>1. /\ UNCHANGED <<pubChannel, pubEntered, pubStored, pubDropped, pubHandler, pubHit>>
        /\ pubWaiting' = pubWaiting \cup {m}
        /\ \A i \in 1..Len(pubEntered) : pubEntered[i] # m
    BY DEF Pub, pubFate
  <1>2. Taken' = Taken
    BY <1>1 DEF Taken
  <1>3. Queued'
    BY <1>1, <1>2 DEF PubFlowInv, Queued
  <1>4. Places' /\ OnePlace' /\ StoredAhead'
    BY <1>1, <1>2
       DEF PubFlowInv, Places, OnePlace, StoredAhead, InPlace, IsStored, IsTaken, Ahead, Msg
  <1>5. QED
    BY <1>3, <1>4 DEF PubFlowInv

(* A message enters the channel behind all others.                         *)
LEMMA EntersFlowStep ==
    ASSUME PubSeqs, PubTypes, PubFlowInv, NEW m \in PubMessages, PubEnters(m)
    PROVE  PubFlowInv'
  <1>0. /\ Len(pubChannel) \in Nat /\ Len(pubEntered) \in Nat
        /\ UNCHANGED <<pubStored, pubDropped, pubHandler, pubHit>>
        /\ m \in pubWaiting /\ pubWaiting' = pubWaiting \ {m}
    BY LenProperties DEF PubSeqs, PubEnters, pubFate
  <1>1. /\ Len(pubChannel') = Len(pubChannel) + 1
        /\ pubChannel'[Len(pubChannel) + 1] = m
        /\ \A i \in 1..Len(pubChannel) : pubChannel'[i] = pubChannel[i]
    BY AppendProperties DEF PubSeqs, PubEnters
  <1>2. /\ Len(pubEntered') = Len(pubEntered) + 1
        /\ pubEntered'[Len(pubEntered) + 1] = m
        /\ \A i \in 1..Len(pubEntered) : pubEntered'[i] = pubEntered[i]
    BY AppendProperties DEF PubSeqs, PubEnters
  <1>3. Taken' = Taken /\ Taken \in 0..Len(pubEntered)
    BY <1>0, <1>1, <1>2 DEF Taken, PubFlowInv, Queued
  <1>4. Queued'
    <2>1. \A i \in 1..Len(pubChannel') : pubChannel'[i] = pubEntered'[Taken' + i]
      <3> SUFFICES ASSUME NEW i \in 1..Len(pubChannel) + 1
                   PROVE  pubChannel'[i] = pubEntered'[Taken + i]
        BY <1>1, <1>3
      <3>1. CASE i = Len(pubChannel) + 1
        <4>1. Taken + i = Len(pubEntered) + 1
          BY <3>1, <1>0 DEF Taken
        <4>2. QED
          BY <3>1, <4>1, <1>1, <1>2
      <3>2. CASE i # Len(pubChannel) + 1
        <4>1. i \in 1..Len(pubChannel) /\ Taken + i \in 1..Len(pubEntered)
          BY <3>2, <1>0, <1>3 DEF Taken
        <4>2. QED
          BY <4>1, <1>1, <1>2 DEF PubFlowInv, Queued
      <3>3. QED
        BY <3>1, <3>2
    <2>2. \A i \in 1..Len(pubEntered) : pubEntered[i] # m
      BY <1>0 DEF PubFlowInv, Queued
    <2>3. \A i, j \in 1..Len(pubEntered') : pubEntered'[i] = pubEntered'[j] => i = j
      BY <1>0, <1>2, <2>2 DEF PubFlowInv, Queued
    <2>4. \A i \in 1..Len(pubEntered') : pubEntered'[i] \notin pubWaiting'
      BY <1>0, <1>2 DEF PubFlowInv, Queued
    <2>5. QED
      BY <2>1, <2>3, <2>4, <1>3 DEF Queued
  <1>5. /\ \A x : IsStored(x)' <=> IsStored(x)
        /\ \A x : IsTaken(x)' <=> IsTaken(x)
        /\ \A c : Msg(c)' = Msg(c)
    BY <1>0, <1>2, <1>3 DEF IsStored, IsTaken, Msg
  <1>6. \A x : InPlace(x)' <=> InPlace(x)
    BY <1>0, <1>5 DEF InPlace
  <1>7. \A x, y : Ahead(x, y) => Ahead(x, y)'
    <2> SUFFICES ASSUME NEW x, NEW y, Ahead(x, y) PROVE Ahead(x, y)'
      OBVIOUS
    <2>1. PICK k \in 1..Len(pubEntered), l \in 1..Len(pubEntered) :
                 k < l /\ pubEntered[k] = x /\ pubEntered[l] = y
      BY DEF Ahead
    <2>2. k \in 1..Len(pubEntered') /\ l \in 1..Len(pubEntered')
      BY <1>0, <1>2
    <2>3. QED
      BY <2>1, <2>2, <1>2 DEF Ahead
  <1>8. Places'
    BY <1>0, <1>2, <1>3, <1>5, <1>6 DEF PubFlowInv, Places
  <1>9. OnePlace' /\ StoredAhead'
    BY <1>0, <1>5, <1>7 DEF PubFlowInv, OnePlace, StoredAhead
  <1>10. QED
    BY <1>4, <1>8, <1>9 DEF PubFlowInv

(* A goroutine takes the oldest message of the channel: it comes after     *)
(* everything that was taken before.                                       *)
LEMMA TakesFlowStep ==
    ASSUME PubTypes, PubSeqs, PubFlowInv, PubAssumption,
           NEW c \in Contexts, HandlerTakes(c), Msg(c) = NoMessage
    PROVE  PubFlowInv'
  <1> DEFINE m == Head(pubChannel)
  <1>0. /\ Len(pubChannel) \in Nat /\ Len(pubEntered) \in Nat /\ Len(pubChannel) >= 1
        /\ UNCHANGED <<pubWaiting, pubEntered, pubStored, pubDropped>>
        /\ m = pubChannel[1] /\ m \in PubMessages /\ m # NoMessage
    BY LenProperties, EmptySeq, HeadTailProperties
       DEF PubSeqs, HandlerTakes, pubFate, PubAssumption
  <1>1. /\ Len(pubChannel') = Len(pubChannel) - 1
        /\ \A i \in 1..Len(pubChannel') : pubChannel'[i] = pubChannel[i + 1]
    BY HeadTailProperties DEF PubSeqs, HandlerTakes
  <1>2. Taken' = Taken + 1 /\ Taken \in Nat /\ Taken + 1 \in 1..Len(pubEntered)
    BY <1>0, <1>1 DEF Taken, PubFlowInv, Queued
  <1>3. pubEntered[Taken + 1] = m
    BY <1>0 DEF PubFlowInv, Queued
  <1>4. /\ Msg(c)' = m /\ \A d \in Contexts : d # c => Msg(d)' = Msg(d)
        /\ pubHit \subseteq pubHit'
    BY DEF HandlerTakes, HandlerTo, Msg, PubTypes
  <1> HIDE DEF m
  <1>5. Queued'
    <2>1. \A i \in 1..Len(pubChannel') : pubChannel'[i] = pubEntered[Taken + 1 + i]
      <3> SUFFICES ASSUME NEW i \in 1..Len(pubChannel')
                   PROVE  pubChannel'[i] = pubEntered[Taken + 1 + i]
        OBVIOUS
      <3>1. i + 1 \in 1..Len(pubChannel) /\ Taken + 1 + i = Taken + (i + 1)
        BY <1>0, <1>1, <1>2
      <3>2. pubChannel[i + 1] = pubEntered[Taken + (i + 1)]
        BY <3>1 DEF PubFlowInv, Queued
      <3>3. QED
        BY <3>1, <3>2, <1>1
    <2>2. Taken' >= 0
      BY <1>2
    <2>3. \A i \in 1..Len(pubChannel') : pubChannel'[i] = pubEntered'[Taken' + i]
      BY <2>1, <1>0, <1>2
    <2>4. /\ \A i, j \in 1..Len(pubEntered') : pubEntered'[i] = pubEntered'[j] => i = j
          /\ \A i \in 1..Len(pubEntered') : pubEntered'[i] \notin pubWaiting'
      BY <1>0 DEF PubFlowInv, Queued
    <2>5. QED
      BY <2>2, <2>3, <2>4 DEF Queued
  <1>6. \A x : IsStored(x)' <=> IsStored(x)
    BY <1>0 DEF IsStored
  <1>7. \A x : IsTaken(x)' <=> IsTaken(x) \/ x = m
    <2>1. \A k : k \in 1..Taken' <=> k \in 1..Taken \/ k = Taken + 1
      BY <1>2
    <2>2. QED
      BY <2>1, <1>0, <1>3 DEF IsTaken
  <1>8. ~IsTaken(m)
    BY <1>2, <1>3 DEF IsTaken, PubFlowInv, Queued
  <1>9. Places'
    <2>1. \A x : InPlace(x) /\ x # NoMessage => InPlace(x)'
      BY <1>0, <1>4, <1>6 DEF InPlace
    <2>2. \A x : x = m => InPlace(x)'
      BY <1>4 DEF InPlace
    <2>3. \A k \in 1..Taken' : InPlace(pubEntered[k])'
      <3> SUFFICES ASSUME NEW k \in 1..Taken', NEW x, x = pubEntered[k] PROVE InPlace(x)'
        BY <1>0
      <3>1. CASE k = Taken + 1
        BY <3>1, <2>2, <1>3
      <3>2. CASE k # Taken + 1
        <4>1. k \in 1..Taken /\ k \in 1..Len(pubEntered)
          BY <3>2, <1>2
        <4>2. pubEntered[k] # NoMessage
          BY <4>1, ElementOfSeq DEF PubSeqs, PubAssumption
        <4>3. InPlace(pubEntered[k])
          BY <4>1 DEF PubFlowInv, Places
        <4>4. QED
          BY <4>2, <4>3, <2>1
      <3>3. QED
        BY <3>1, <3>2
    <2>4. QED
      BY <2>3, <1>0, <1>4, <1>7 DEF PubFlowInv, Places
  <1>10. OnePlace'
    <2>1. /\ \A d \in Contexts : d # c /\ Msg(d) # NoMessage => Msg(d) # m
          /\ ~IsStored(m) /\ m \notin pubDropped
      BY <1>8 DEF PubFlowInv, Places, IsStored
    <2>2. \A d, e \in Contexts : Msg(d)' # NoMessage /\ Msg(d)' = Msg(e)' => d = e
      BY <2>1, <1>0, <1>4 DEF PubFlowInv, OnePlace
    <2>3. \A d \in Contexts : Msg(d)' # NoMessage =>
            ~IsStored(Msg(d)') /\ Msg(d)' \notin pubDropped
      BY <2>1, <1>4 DEF PubFlowInv, OnePlace
    <2>4. \A x \in pubDropped : ~IsStored(x) /\ x \in pubHit'
      BY <1>4 DEF PubFlowInv, OnePlace
    <2>5. QED
      BY <2>2, <2>3, <2>4, <1>0, <1>6 DEF PubFlowInv, OnePlace
  <1>11. StoredAhead'
    <2>1. \A x, y : Ahead(x, y)' <=> Ahead(x, y)
      BY <1>0 DEF Ahead
    <2>2. \A i \in 1..Len(pubStored) : Ahead(pubStored[i], m)
      <3> SUFFICES ASSUME NEW i \in 1..Len(pubStored) PROVE Ahead(pubStored[i], m)
        OBVIOUS
      <3>1. PICK k \in 1..Taken : pubEntered[k] = pubStored[i]
        BY DEF PubFlowInv, Places, IsTaken
      <3>2. k \in 1..Len(pubEntered) /\ k < Taken + 1
        BY <1>2
      <3>3. QED
        BY <3>1, <3>2, <1>2, <1>3 DEF Ahead
    <2>3. QED
      BY <2>1, <2>2, <1>0, <1>4 DEF PubFlowInv, StoredAhead
  <1>12. QED
    BY <1>5, <1>9, <1>10, <1>11 DEF PubFlowInv

(* The goroutine's message is stored.                                      *)
LEMMA StoresFlowStep ==
    ASSUME PubTypes, PubSeqs, PubFlowInv, NEW c \in Contexts, Msg(c) # NoMessage,
           pubStored' = Append(pubStored, Msg(c)), HandlerTo(c, "select", NoMessage),
           UNCHANGED <<pubWaiting, pubChannel, pubEntered, pubDropped, pubHit>>,
           \A d \in Contexts : d # c /\ Msg(d) # NoMessage => {Msg(c), Msg(d)} \cap pubHit # {}
    PROVE  PubFlowInv'
  <1> DEFINE m == Msg(c)
  <1>0. m \in PubMessages /\ m # NoMessage /\ Len(pubStored) \in Nat
    BY LenProperties DEF Msg, PubTypes, PubSeqs
  <1>1. /\ Len(pubStored') = Len(pubStored) + 1
        /\ pubStored'[Len(pubStored) + 1] = m
        /\ \A i \in 1..Len(pubStored) : pubStored'[i] = pubStored[i]
    BY <1>0, AppendProperties DEF PubSeqs
  <1>2. Msg(c)' = NoMessage /\ \A d \in Contexts : d # c => Msg(d)' = Msg(d)
    BY DEF HandlerTo, Msg, PubTypes
  <1> HIDE DEF m
  <1>3. Taken' = Taken /\ Queued'
    BY DEF PubFlowInv, Queued, Taken
  <1>4. /\ \A x : IsStored(x)' <=> IsStored(x) \/ x = m
        /\ \A x : IsTaken(x)' <=> IsTaken(x)
        /\ \A x, y : Ahead(x, y)' <=> Ahead(x, y)
    <2>1. \A i : i \in 1..Len(pubStored') <=> i \in 1..Len(pubStored) \/ i = Len(pubStored) + 1
      BY <1>0, <1>1
    <2>2. \A x : IsStored(x)' <=> IsStored(x) \/ x = m
      BY <2>1, <1>1 DEF IsStored
    <2>3. QED
      BY <2>2, <1>3 DEF IsTaken, Ahead
  <1>5. m = Msg(c) /\ ~IsStored(m) /\ m \notin pubDropped /\ IsTaken(m)
    BY <1>0 DEF m, PubFlowInv, OnePlace, Places
  <1>6. Places'
    <2>1. \A x : InPlace(x) => InPlace(x)'
      BY <1>2, <1>4, <1>5 DEF InPlace
    <2>2. QED
      BY <2>1, <1>0, <1>1, <1>2, <1>3, <1>4, <1>5 DEF PubFlowInv, Places
  <1>7. OnePlace'
    <2>1. \A d \in Contexts : d # c /\ Msg(d) # NoMessage => Msg(d) # m
      BY <1>5 DEF PubFlowInv, OnePlace
    <2>2. \A i, j \in 1..Len(pubStored') : pubStored'[i] = pubStored'[j] => i = j
      <3>1. \A i \in 1..Len(pubStored) : pubStored[i] # m
        BY <1>5 DEF IsStored
      <3>2. QED
        BY <3>1, <1>0, <1>1 DEF PubFlowInv, OnePlace
    <2>3. QED
      BY <2>1, <2>2, <1>2, <1>4, <1>5 DEF PubFlowInv, OnePlace
  <1>8. StoredAhead'
    <2>1. ASSUME NEW i \in 1..Len(pubStored'), NEW j \in 1..Len(pubStored'), i < j
          PROVE  \/ Ahead(pubStored'[i], pubStored'[j])
                 \/ pubStored'[i] \in pubHit \/ pubStored'[j] \in pubHit
      <3>1. CASE j = Len(pubStored) + 1
        <4>1. i \in 1..Len(pubStored) /\ pubStored'[j] = Msg(c) /\ Msg(c) # NoMessage
          BY <2>1, <3>1, <1>0, <1>1, <1>5
        <4>2. QED
          BY <4>1, <1>1 DEF PubFlowInv, StoredAhead
      <3>2. CASE j # Len(pubStored) + 1
        <4>1. i \in 1..Len(pubStored) /\ j \in 1..Len(pubStored)
          BY <2>1, <3>2, <1>0, <1>1
        <4>2. QED
          BY <4>1, <2>1, <1>1 DEF PubFlowInv, StoredAhead
      <3>3. QED
        BY <3>1, <3>2
    <2>2. ASSUME NEW i \in 1..Len(pubStored'), NEW d \in Contexts, Msg(d)' # NoMessage
          PROVE  \/ Ahead(pubStored'[i], Msg(d)')
                 \/ pubStored'[i] \in pubHit \/ Msg(d)' \in pubHit
      <3>0. d # c /\ Msg(d)' = Msg(d)
        BY <2>2, <1>2
      <3>1. CASE i = Len(pubStored) + 1
        BY <3>0, <3>1, <2>2, <1>1, <1>5
      <3>2. CASE i # Len(pubStored) + 1
        <4>1. i \in 1..Len(pubStored)
          BY <3>2, <1>0, <1>1
        <4>2. QED
          BY <4>1, <3>0, <2>2, <1>1 DEF PubFlowInv, StoredAhead
      <3>3. QED
        BY <3>1, <3>2
    <2>3. QED
      BY <2>1, <2>2, <1>4 DEF StoredAhead
  <1>9. QED
    BY <1>3, <1>6, <1>7, <1>8 DEF PubFlowInv

(* The goroutine gives its message up after a failure or a stop met it.    *)
LEMMA DropsFlowStep ==
    ASSUME PubTypes, PubFlowInv, NEW c \in Contexts, Msg(c) # NoMessage,
           pubDropped' = pubDropped \cup {Msg(c)}, HandlerTo(c, "select", NoMessage),
           UNCHANGED <<pubWaiting, pubChannel, pubEntered, pubStored>>,
           pubHit \subseteq pubHit', Msg(c) \in pubHit'
    PROVE  PubFlowInv'
  <1>1. Msg(c)' = NoMessage /\ \A d \in Contexts : d # c => Msg(d)' = Msg(d)
    BY DEF HandlerTo, Msg, PubTypes
  <1>2. Taken' = Taken /\ Queued'
    BY DEF PubFlowInv, Queued, Taken
  <1>3. /\ \A x : IsStored(x)' <=> IsStored(x)
        /\ \A x : IsTaken(x)' <=> IsTaken(x)
        /\ \A x, y : Ahead(x, y)' <=> Ahead(x, y)
    BY <1>2 DEF IsStored, IsTaken, Ahead
  <1>4. ~IsStored(Msg(c)) /\ IsTaken(Msg(c))
    BY DEF PubFlowInv, OnePlace, Places
  <1>5. Places'
    <2>1. \A x : InPlace(x) => InPlace(x)'
      BY <1>1, <1>3 DEF InPlace
    <2>2. QED
      BY <2>1, <1>1, <1>2, <1>3, <1>4 DEF PubFlowInv, Places
  <1>6. OnePlace'
    BY <1>1, <1>3, <1>4 DEF PubFlowInv, OnePlace
  <1>7. StoredAhead'
    BY <1>1, <1>3 DEF PubFlowInv, StoredAhead
  <1>8. QED
    BY <1>2, <1>5, <1>6, <1>7 DEF PubFlowInv

-----------------------------------------------------------------------------
(* Starts, stops and goroutines *)

(* A goroutine's step gives it a new place and message.                    *)
LEMMA HandlerToMsg ==
    ASSUME PubTypes, NEW c \in Contexts, NEW p \in HandlerPcs,
           NEW m \in PubMessages \cup {NoMessage}, HandlerTo(c, p, m)
    PROVE  /\ pubHandler' \in [Contexts -> [pc : HandlerPcs, msg : PubMessages \cup {NoMessage}]]
           /\ Msg(c)' = m /\ pubHandler'[c].pc = p
           /\ \A d \in Contexts : d # c => Msg(d)' = Msg(d) /\ pubHandler'[d] = pubHandler[d]
  BY DEF PubTypes, HandlerTo, Msg

(* The step of a goroutine that was started keeps the contexts in order.   *)
LEMMA OneLiveHandler ==
    ASSUME PubTypes, OneLive, NEW c \in Contexts, pubHandler[c].pc # "none",
           UNCHANGED pubTask, pubConn' = pubConn \/ pubConn' = "open",
           NEW p \in HandlerPcs, NEW m \in PubMessages \cup {NoMessage}, HandlerTo(c, p, m)
    PROVE  OneLive'
  <1>1. \A d \in Contexts : d # c => pubHandler'[d] = pubHandler[d]
    BY HandlerToMsg
  <1>2. UNCHANGED <<pubServer, pubPc, pubStarts, pubLive>>
    BY DEF pubTask
  <1>3. c \in 1..MaxStarts /\ pubStarts \in Nat /\ ~(c > pubStarts)
    BY DEF OneLive, PubTypes, Contexts
  <1>4. pubPc = "stream" => c # pubStarts /\ pubStarts \in Contexts
    BY DEF OneLive, PubTypes, Contexts
  <1>5. \A d \in Contexts : d > pubStarts => pubHandler'[d].pc = "none"
    BY <1>1, <1>3 DEF OneLive
  <1>6. pubPc = "stream" => pubHandler'[pubStarts].pc = "none"
    BY <1>1, <1>4 DEF OneLive
  <1>7. QED
    BY <1>2, <1>5, <1>6 DEF OneLive

(* Steps of StartServer and StopServer before the goroutine.               *)
LEMMA TaskStep ==
    ASSUME PubInv, PubAssumption, ~pubPanicked,
           StartServerNew \/ StartServerConnect \/ StopServerCancel \/ StopServerDrain
             \/ StopServerShutdown
    PROVE  PubInv'
  <1>0. PubTypes /\ OneLive /\ HandsOfLive /\ PubSeqs /\ PubFlowInv
    BY DEF PubInv
  <1>1. /\ UNCHANGED <<pubWaiting, pubChannel, pubEntered, pubStored, pubDropped, pubHandler,
                       pubStream>>
        /\ pubHit \subseteq pubHit'
    BY DEF StartServerNew, StartServerConnect, StopServerCancel, StopServerDrain,
           StopServerShutdown, pubFlow, pubFate
  <1>2. PubSeqs' /\ PubFlowInv'
    BY <1>0, <1>1, FlowFrame DEF PubSeqs, Msg
  <1>3. CASE StartServerNew
    <2>1. PubTypes'
      BY <1>0, <1>1, <1>3 DEF PubTypes, StartServerNew
    <2>2. OneLive'
      BY <1>0, <1>1, <1>3 DEF OneLive, StartServerNew
    <2>3. HandsOfLive' /\ PanicMet'
      BY <1>0, <1>1, <1>3 DEF HandsOfLive, PanicMet, StartServerNew, Msg
    <2>4. QED
      BY <1>2, <2>1, <2>2, <2>3 DEF PubInv
  <1>4. CASE StartServerConnect
    <2>1. pubStarts < MaxStarts /\ pubLive = {} /\ pubServer
      BY <1>0, <1>4 DEF OneLive, StartServerConnect
    <2>2. PubTypes'
      BY <1>0, <1>1, <1>4, <2>1, PubAssumption DEF PubTypes, StartServerConnect
    <2>3. OneLive'
      <3>1. CASE pubPc' = "idle"
        BY <1>0, <1>1, <1>4, <2>1, <3>1 DEF OneLive, StartServerConnect
      <3>2. CASE pubPc' = "stream"
        <4>1. /\ pubStarts' = pubStarts + 1 /\ pubLive' = {pubStarts + 1}
              /\ pubConn' = "open" /\ pubServer'
          BY <1>4, <2>1, <3>2 DEF StartServerConnect
        <4>2. pubStarts \in Nat /\ pubStarts + 1 \in Contexts
          BY <1>0, <2>1, PubAssumption DEF PubTypes, Contexts
        <4>3. /\ pubHandler[pubStarts + 1].pc = "none"
              /\ \A c \in Contexts : c > pubStarts + 1 => pubHandler[c].pc = "none"
          BY <1>0, <4>2 DEF OneLive, Contexts
        <4>4. QED
          BY <1>1, <3>2, <4>1, <4>2, <4>3 DEF OneLive
      <3>3. QED
        BY <3>1, <3>2, <1>4 DEF StartServerConnect
    <2>4. HandsOfLive' /\ PanicMet'
      BY <1>0, <1>1, <1>4, <2>1 DEF HandsOfLive, PanicMet, StartServerConnect, Msg
    <2>5. QED
      BY <1>2, <2>2, <2>3, <2>4 DEF PubInv
  <1>5. CASE StopServerCancel
    <2>1. PubTypes'
      BY <1>0, <1>1, <1>5 DEF PubTypes, StopServerCancel
    <2>2. OneLive'
      BY <1>0, <1>1, <1>5 DEF OneLive, StopServerCancel
    <2>3. HandsOfLive' /\ PanicMet'
      <3>1. CASE pubStarts = 0
        BY <1>0, <1>1, <1>5, <3>1 DEF HandsOfLive, PanicMet, StopServerCancel, Msg
      <3>2. CASE pubStarts # 0
        <4>1. pubHit' = pubHit \cup InHand /\ pubPanicked' = pubPanicked
          BY <1>5, <3>2 DEF StopServerCancel
        <4>2. \A c \in Contexts : Msg(c) # NoMessage => Msg(c) \in pubHit'
          BY <4>1 DEF InHand, Msg
        <4>3. QED
          BY <1>0, <1>1, <4>1, <4>2 DEF HandsOfLive, PanicMet, Msg
      <3>3. QED
        BY <3>1, <3>2
    <2>4. QED
      BY <1>2, <2>1, <2>2, <2>3 DEF PubInv
  <1>6. CASE StopServerDrain \/ StopServerShutdown
    <2>1. PubTypes'
      BY <1>0, <1>1, <1>6 DEF PubTypes, StopServerDrain, StopServerShutdown
    <2>2. OneLive'
      BY <1>0, <1>1, <1>6 DEF OneLive, StopServerDrain, StopServerShutdown
    <2>3. HandsOfLive' /\ PanicMet'
      BY <1>0, <1>1, <1>6 DEF HandsOfLive, PanicMet, StopServerDrain, StopServerShutdown, Msg
    <2>4. QED
      BY <1>2, <2>1, <2>2, <2>3 DEF PubInv
  <1>7. QED
    BY <1>3, <1>4, <1>5, <1>6

(* The size defineStream settles on is at most the configured one.         *)
LEMMA StreamSize ==
    ASSUME PubAssumption, NEW stream \in 0..StoreMaxBytes, NEW free \in DiskFree,
           NEW r \in DefineStream(stream, free)
    PROVE  r[1] \in 0..StoreMaxBytes
  <1>1. free \in Nat /\ StoreMaxBytes \in Nat
    BY DEF PubAssumption
  <1>2. (free \div 8) * 5 \in Nat
    BY <1>1
  <1>3. CASE stream = StoreMaxBytes
    BY <1>1, <1>3 DEF DefineStream
  <1>4. CASE stream # StoreMaxBytes
    <2>1. \/ r = <<StoreMaxBytes, FALSE>> \/ r = <<stream, TRUE>>
          \/ r = <<(free \div 8) * 5, FALSE>> /\ ~((free \div 8) * 5 > StoreMaxBytes)
      BY <1>4, Zenon DEF DefineStream
    <2>2. \A a, b : <<a, b>>[1] = a
      OBVIOUS
    <2>3. r[1] \in {StoreMaxBytes, stream}
            \/ (r[1] = (free \div 8) * 5 /\ ~((free \div 8) * 5 > StoreMaxBytes))
      BY <2>1, <2>2, Zenon
    <2>4. QED
      BY <1>1, <1>2, <2>3
  <1>5. QED
    BY <1>3, <1>4

(* The stream is defined and the goroutine of the new context started.     *)
LEMMA StreamStep ==
    ASSUME PubInv, PubAssumption, ~pubPanicked, StartServerStream
    PROVE  PubInv'
  <1>0. PubTypes /\ OneLive /\ HandsOfLive /\ PubSeqs /\ PubFlowInv
    BY DEF PubInv
  <1>1. /\ UNCHANGED <<pubWaiting, pubChannel, pubEntered, pubStored, pubDropped, pubHit,
                       pubServer, pubConn, pubStarts, pubLive, pubPanicked>>
        /\ pubPc = "stream" /\ pubPc' = "idle"
    BY DEF StartServerStream, pubFlow, pubFate
  <1>2. pubStarts \in Contexts /\ Msg(pubStarts) = NoMessage
    BY <1>0, <1>1 DEF OneLive, PubTypes, Contexts, HandsOfLive
  <1>3. \/ pubHandler' = pubHandler \/ HandlerTo(pubStarts, "select", NoMessage)
    BY DEF StartServerStream, HandlerTo
  <1>4. pubStream' \in 0..StoreMaxBytes
    <2>1. PICK free \in DiskFree : \E r \in DefineStream(pubStream, free) : pubStream' = r[1]
      BY DEF StartServerStream
    <2>2. QED
      BY <1>0, <2>1, StreamSize DEF PubTypes
  <1>5. /\ pubHandler' \in [Contexts -> [pc : HandlerPcs, msg : PubMessages \cup {NoMessage}]]
        /\ \A c \in Contexts : Msg(c)' = Msg(c)
        /\ \A c \in Contexts : c # pubStarts => pubHandler'[c] = pubHandler[c]
        /\ pubHandler'[pubStarts].pc \in {"none", "select"}
    <2>1. CASE pubHandler' = pubHandler
      BY <2>1, <1>0, <1>1 DEF PubTypes, OneLive, Msg
    <2>2. CASE HandlerTo(pubStarts, "select", NoMessage)
      BY <2>2, <1>0, <1>2, HandlerToMsg DEF HandlerPcs
    <2>3. QED
      BY <1>3, <2>1, <2>2
  <1>6. PubTypes' /\ PubSeqs'
    BY <1>0, <1>1, <1>4, <1>5 DEF PubTypes, PubSeqs
  <1>7. OneLive'
    <2>1. \A c \in Contexts : c > pubStarts => pubHandler'[c].pc = "none"
      BY <1>0, <1>2, <1>5 DEF OneLive, Contexts
    <2>2. QED
      BY <1>0, <1>1, <2>1 DEF OneLive
  <1>8. HandsOfLive' /\ PanicMet'
    <2>1. \A c \in Contexts : (Msg(c)' = NoMessage)
                               <=> (pubHandler'[c].pc \in {"none", "select", "done"})
      BY <1>0, <1>2, <1>5 DEF HandsOfLive
    <2>2. \A c \in Contexts : Msg(c)' # NoMessage /\ Msg(c)' \notin pubHit' =>
            c \in pubLive' /\ pubHandler'[c].pc = "publish"
      BY <1>0, <1>1, <1>2, <1>5 DEF HandsOfLive
    <2>3. QED
      BY <2>1, <2>2, <1>1 DEF HandsOfLive, PanicMet
  <1>9. PubFlowInv'
    BY <1>0, <1>1, <1>5, FlowFrame
  <1>10. QED
    BY <1>6, <1>7, <1>8, <1>9 DEF PubInv

(* Pub and the goroutine it starts.                                        *)
LEMMA PutStep ==
    ASSUME PubInv, NEW m \in PubMessages, Pub(m) \/ PubEnters(m)
    PROVE  PubInv'
  <1>0. PubTypes /\ OneLive /\ HandsOfLive /\ PanicMet /\ PubSeqs /\ PubFlowInv
    BY DEF PubInv
  <1>1. /\ UNCHANGED <<pubServer, pubPc, pubStarts, pubLive, pubStream, pubConn, pubHandler,
                       pubStored, pubDropped, pubHit, pubPanicked>>
        /\ pubWaiting' \subseteq PubMessages
    BY <1>0 DEF Pub, PubEnters, pubTask, pubFate, PubTypes
  <1>2. PubTypes' /\ OneLive' /\ HandsOfLive' /\ PanicMet'
    BY <1>0, <1>1 DEF PubTypes, OneLive, HandsOfLive, PanicMet, Msg
  <1>3. PubSeqs'
    <2>1. CASE Pub(m)
      BY <1>0, <2>1 DEF Pub, PubSeqs, pubFate
    <2>2. CASE PubEnters(m)
      <3>1. /\ pubChannel' \in Seq(PubMessages) /\ pubEntered' \in Seq(PubMessages)
            /\ Len(pubChannel') = Len(pubChannel) + 1 /\ Len(pubChannel) \in Nat
        BY <1>0, <2>2, AppendProperties, LenProperties DEF PubEnters, PubSeqs
      <3>2. QED
        BY <1>0, <1>1, <2>2, <3>1, PubAssumption DEF PubEnters, PubSeqs, PubAssumption
    <2>3. QED
      BY <2>1, <2>2
  <1>4. PubFlowInv'
    BY <1>0, PubFlowStep, EntersFlowStep
  <1>5. QED
    BY <1>2, <1>3, <1>4 DEF PubInv

(* A goroutine's step that leaves the panic flag down and puts a message   *)
(* that is still held in line with HandsOfLive.                            *)
LEMMA HandsStep ==
    ASSUME PubTypes, HandsOfLive, NEW c \in Contexts, NEW p \in HandlerPcs,
           NEW m \in PubMessages \cup {NoMessage}, HandlerTo(c, p, m),
           pubHit \subseteq pubHit', pubLive' = pubLive,
           (m = NoMessage) <=> (p \in {"none", "select", "done"}),
           m # NoMessage /\ m \notin pubHit' => c \in pubLive /\ p = "publish"
    PROVE  HandsOfLive'
  <1>1. /\ Msg(c)' = m /\ pubHandler'[c].pc = p
        /\ \A d \in Contexts : d # c => Msg(d)' = Msg(d) /\ pubHandler'[d] = pubHandler[d]
    BY HandlerToMsg
  <1>2. QED
    BY <1>1 DEF HandsOfLive

(* A goroutine takes a message, or returns when its context is done.       *)
LEMMA SelectStep ==
    ASSUME PubInv, ~pubPanicked, NEW c \in Contexts, HandlerTakes(c) \/ HandlerReturns(c)
    PROVE  PubInv'
  <1>0. PubTypes /\ OneLive /\ HandsOfLive /\ PanicMet /\ PubSeqs /\ PubFlowInv
    BY DEF PubInv
  <1>1. /\ UNCHANGED <<pubServer, pubPc, pubStarts, pubLive, pubStream, pubConn, pubWaiting,
                       pubStored, pubDropped, pubEntered, pubPanicked>>
        /\ UNCHANGED pubTask /\ pubHandler[c].pc = "select" /\ Msg(c) = NoMessage
    BY <1>0 DEF HandlerTakes, HandlerReturns, pubTask, pubFate, pubFlow, HandsOfLive
  <1>2. PanicMet'
    BY <1>1 DEF PanicMet
  <1>3. CASE HandlerTakes(c)
    <2> DEFINE m == Head(pubChannel)
    <2>1. m \in PubMessages /\ m # NoMessage
      BY <1>0, <1>3, PubAssumption, HeadTailProperties DEF PubSeqs, HandlerTakes, PubAssumption
    <2>2. /\ HandlerTo(c, "publish", m)
          /\ pubHit' = IF c \in pubLive THEN pubHit ELSE pubHit \cup {m}
      BY <1>3 DEF HandlerTakes
    <2>3. PubSeqs'
      <3>1. pubChannel' \in Seq(PubMessages) /\ Len(pubChannel') = Len(pubChannel) - 1
        BY <1>0, <1>3, HeadTailProperties DEF PubSeqs, HandlerTakes
      <3>2. Len(pubChannel) \in Nat
        BY <1>0, LenProperties DEF PubSeqs
      <3>3. QED
        BY <1>0, <1>1, <3>1, <3>2, PubAssumption DEF PubSeqs, PubAssumption
    <2> HIDE DEF m
    <2>4. "publish" \in HandlerPcs
      BY DEF HandlerPcs
    <2>5. PubTypes'
      BY <1>0, <1>1, <2>1, <2>2, <2>4, HandlerToMsg DEF PubTypes
    <2>6. OneLive'
      BY <1>0, <1>1, <2>1, <2>2, <2>4, OneLiveHandler
    <2>7. HandsOfLive'
      BY <1>0, <1>1, <2>1, <2>2, <2>4, HandsStep
    <2>8. PubFlowInv'
      BY <1>0, <1>1, <1>3, PubAssumption, TakesFlowStep
    <2>9. QED
      BY <1>2, <2>3, <2>5, <2>6, <2>7, <2>8 DEF PubInv
  <1>4. CASE HandlerReturns(c)
    <2>1. HandlerTo(c, "done", NoMessage) /\ UNCHANGED <<pubChannel, pubHit>>
      BY <1>4 DEF HandlerReturns, pubFlow
    <2>2. "done" \in HandlerPcs
      BY DEF HandlerPcs
    <2>3. PubTypes' /\ PubSeqs'
      BY <1>0, <1>1, <2>1, <2>2, HandlerToMsg DEF PubTypes, PubSeqs
    <2>4. OneLive' /\ HandsOfLive'
      BY <1>0, <1>1, <2>1, <2>2, OneLiveHandler, HandsStep
    <2>5. \A d \in Contexts : Msg(d)' = Msg(d)
      BY <1>0, <1>1, <2>1, <2>2, HandlerToMsg
    <2>6. PubFlowInv'
      BY <1>0, <1>1, <2>1, <2>5, FlowFrame
    <2>7. QED
      BY <1>2, <2>3, <2>4, <2>6 DEF PubInv
  <1>5. QED
    BY <1>3, <1>4

(* A goroutine that holds a message: it is stored, kept for a reconnect,   *)
(* kept for the second publish, or given up.                               *)
LEMMA HoldingStep ==
    ASSUME PubInv, ~pubPanicked, NEW c \in Contexts, Msg(c) # NoMessage,
           UNCHANGED <<pubTask, pubFlow, pubPanicked>>,
           pubConn' = pubConn \/ pubConn' = "open",
           \/ /\ pubStored' = Append(pubStored, Msg(c))
              /\ HandlerTo(c, "select", NoMessage) /\ UNCHANGED <<pubDropped, pubHit>>
           \/ /\ \E p \in {"reconnect", "republish"} : HandlerTo(c, p, Msg(c))
              /\ UNCHANGED <<pubDropped, pubStored>>
              /\ pubHit \subseteq pubHit' /\ Msg(c) \in pubHit'
           \/ /\ HandlerTo(c, "select", NoMessage) /\ pubDropped' = pubDropped \cup {Msg(c)}
              /\ UNCHANGED pubStored /\ pubHit \subseteq pubHit' /\ Msg(c) \in pubHit'
    PROVE  PubInv'
  <1>0. PubTypes /\ OneLive /\ HandsOfLive /\ PanicMet /\ PubSeqs /\ PubFlowInv
    BY DEF PubInv
  <1>1. /\ UNCHANGED <<pubServer, pubPc, pubStarts, pubLive, pubStream, pubWaiting,
                       pubChannel, pubEntered, pubPanicked>>
        /\ Msg(c) \in PubMessages /\ pubHandler[c].pc # "none"
        /\ {"select", "reconnect", "republish"} \subseteq HandlerPcs
    BY <1>0 DEF pubTask, pubFlow, PubTypes, Msg, HandsOfLive, HandlerPcs
  <1>2. PanicMet'
    BY <1>1 DEF PanicMet
  <1>3. CASE pubStored' = Append(pubStored, Msg(c)) /\ HandlerTo(c, "select", NoMessage)
               /\ UNCHANGED <<pubDropped, pubHit>>
    <2>1. PubTypes'
      BY <1>0, <1>1, <1>3, HandlerToMsg DEF PubTypes
    <2>2. PubSeqs'
      <3>1. pubStored' \in Seq(PubMessages)
        BY <1>0, <1>1, <1>3, AppendProperties DEF PubSeqs
      <3>2. QED
        BY <3>1, <1>0, <1>1 DEF PubSeqs
    <2>3. OneLive' /\ HandsOfLive'
      BY <1>0, <1>1, <1>3, OneLiveHandler, HandsStep
    <2>4. \A d \in Contexts : d # c /\ Msg(d) # NoMessage => {Msg(c), Msg(d)} \cap pubHit # {}
      BY <1>0 DEF HandsOfLive, OneLive
    <2>5. PubFlowInv'
      BY <1>0, <1>1, <1>3, <2>4, StoresFlowStep
    <2>6. QED
      BY <1>2, <2>1, <2>2, <2>3, <2>5 DEF PubInv
  <1>4. ASSUME NEW p \in {"reconnect", "republish"}, HandlerTo(c, p, Msg(c)),
               UNCHANGED <<pubDropped, pubStored>>, pubHit \subseteq pubHit', Msg(c) \in pubHit'
        PROVE  PubInv'
    <2>1. PubTypes' /\ PubSeqs'
      BY <1>0, <1>1, <1>4, HandlerToMsg DEF PubTypes, PubSeqs
    <2>2. OneLive'
      BY <1>0, <1>1, <1>4, OneLiveHandler
    <2>3. HandsOfLive'
      BY <1>0, <1>1, <1>4, HandsStep
    <2>4. \A d \in Contexts : Msg(d)' = Msg(d)
      BY <1>0, <1>1, <1>4, HandlerToMsg
    <2>5. PubFlowInv'
      BY <1>0, <1>1, <1>4, <2>4, FlowFrame
    <2>6. QED
      BY <1>2, <2>1, <2>2, <2>3, <2>5 DEF PubInv
  <1>5. CASE HandlerTo(c, "select", NoMessage) /\ pubDropped' = pubDropped \cup {Msg(c)}
               /\ UNCHANGED pubStored /\ pubHit \subseteq pubHit' /\ Msg(c) \in pubHit'
    <2>1. PubTypes' /\ PubSeqs'
      BY <1>0, <1>1, <1>5, HandlerToMsg DEF PubTypes, PubSeqs
    <2>2. OneLive' /\ HandsOfLive'
      BY <1>0, <1>1, <1>5, OneLiveHandler, HandsStep
    <2>3. PubFlowInv'
      BY <1>0, <1>1, <1>5, DropsFlowStep
    <2>4. QED
      BY <1>2, <2>1, <2>2, <2>3 DEF PubInv
  <1>6. QED
    BY <1>3, <1>4, <1>5

(* The first and the second publish, and the reconnect between them.  A    *)
(* connection that is not open means a stop, which met the message.        *)
LEMMA PublishStep ==
    ASSUME PubInv, ~pubPanicked, NEW c \in Contexts,
           HandlerPublishes(c) \/ HandlerRepublishes(c) \/ HandlerReconnects(c)
    PROVE  PubInv'
  <1>0. PubTypes /\ OneLive /\ HandsOfLive /\ PanicMet /\ PubFlowInv /\ PubSeqs
    BY DEF PubInv
  <1>1. Msg(c) # NoMessage /\ Msg(c) = pubHandler[c].msg
    BY <1>0 DEF HandsOfLive, HandlerPublishes, HandlerRepublishes, HandlerReconnects, Msg
  <1>2. pubConn # "open" => Msg(c) \in pubHit
    BY <1>0, <1>1 DEF HandsOfLive, OneLive
  <1>3. pubHandler[c].pc # "publish" => Msg(c) \in pubHit
    BY <1>0, <1>1 DEF HandsOfLive
  <1>4. CASE HandlerPublishes(c)
    <2>1. PublishMsg(c, "reconnect") /\ UNCHANGED <<pubTask, pubConn, pubFlow, pubPanicked>>
      BY <1>4 DEF HandlerPublishes
    <2>2. QED
      BY <1>1, <1>2, <2>1, HoldingStep DEF PublishMsg
  <1>5. CASE HandlerRepublishes(c)
    <2>1. /\ PublishMsg(c, "drop") /\ UNCHANGED <<pubTask, pubConn, pubFlow, pubPanicked>>
          /\ Msg(c) \in pubHit
      BY <1>3, <1>5 DEF HandlerRepublishes
    <2>2. QED
      BY <1>1, <2>1, HoldingStep DEF PublishMsg
  <1>6. CASE HandlerReconnects(c)
    <2>1. Msg(c) \in pubHit
      BY <1>3, <1>6 DEF HandlerReconnects
    <2>2. CASE pubPanicked'
      <3>1. UNCHANGED <<pubConn, pubHandler, pubDropped, pubFailures, pubHit, pubTask, pubFlow,
                        pubStored>>
        BY <2>2, <1>6 DEF HandlerReconnects
      <3>2. PanicMet'
        BY <3>1, <2>1, <1>1 DEF PanicMet, Msg
      <3>3. PubTypes' /\ PubSeqs' /\ OneLive' /\ HandsOfLive'
        BY <1>0, <1>6, <2>2, <3>1
           DEF PubTypes, PubSeqs, OneLive, HandsOfLive, Msg, pubTask, pubFlow
      <3>4. PubFlowInv'
        BY <1>0, <3>1, FlowFrame DEF pubFlow, Msg
      <3>5. QED
        BY <3>2, <3>3, <3>4 DEF PubInv
    <2>3. CASE ~pubPanicked'
      <3>1. UNCHANGED <<pubTask, pubFlow, pubStored, pubPanicked>>
        BY <1>6, <2>3 DEF HandlerReconnects
      <3>2. \/ /\ pubConn' = "open" /\ HandlerTo(c, "republish", Msg(c))
               /\ UNCHANGED <<pubDropped, pubHit>>
            \/ /\ pubHit' = pubHit \cup {Msg(c)} /\ pubDropped' = pubDropped \cup {Msg(c)}
               /\ HandlerTo(c, "select", NoMessage) /\ UNCHANGED pubConn
        BY <1>1, <1>6, <2>3 DEF HandlerReconnects
      <3>3. QED
        BY <1>1, <2>1, <3>1, <3>2, HoldingStep
    <2>4. QED
      BY <2>2, <2>3
  <1>7. QED
    BY <1>4, <1>5, <1>6

(* Every step preserves the invariant.                                     *)
LEMMA PubStep == PubInv /\ [PubNext]_pubVars => PubInv'
  <1> SUFFICES ASSUME PubInv, [PubNext]_pubVars PROVE PubInv'
    OBVIOUS
  <1>1. CASE PubNext
    BY <1>1, PubAssumption, TaskStep, StreamStep, PutStep, SelectStep, PublishStep
       DEF PubNext, HandlerStep
  <1>2. CASE UNCHANGED pubVars
    <2>1. PubTypes' /\ PubSeqs' /\ OneLive' /\ HandsOfLive' /\ PanicMet'
      BY <1>2 DEF pubVars, PubInv, PubTypes, PubSeqs, OneLive, HandsOfLive, PanicMet, Msg
    <2>2. PubFlowInv'
      BY <1>2, FlowFrame DEF pubVars, PubInv, Msg
    <2>3. QED
      BY <2>1, <2>2 DEF PubInv
  <1>3. QED
    BY <1>1, <1>2

(* What the invariant says of the property.                                *)
LEMMA PubInvSuffices == PubInv => PubKept
  <1> SUFFICES ASSUME PubInv PROVE PubKept
    OBVIOUS
  <1>0. PubTypes /\ OneLive /\ HandsOfLive /\ PanicMet /\ PubSeqs
          /\ Queued /\ Places /\ OnePlace /\ StoredAhead
    BY DEF PubInv, PubFlowInv
  <1>1. Len(pubChannel) \in Nat /\ Len(pubEntered) \in Nat /\ Len(pubStored) \in Nat
    BY <1>0, LenProperties DEF PubSeqs
  <1>2. Taken \in 0..Len(pubEntered) /\ Taken + Len(pubChannel) = Len(pubEntered)
    BY <1>0, <1>1 DEF Taken, Queued
  <1>3. PubTypeOK
    BY <1>0 DEF PubTypeOK, PubTypes, PubSeqs, OneLive, HandlerPcs
  <1>4. \A x : (\E i \in 1..Len(pubEntered) : pubEntered[i] = x)
              <=> (\E i \in 1..Len(pubChannel) : pubChannel[i] = x) \/ IsTaken(x)
    <2> TAKE x
    <2>1. ASSUME NEW i \in 1..Len(pubEntered), pubEntered[i] = x, ~IsTaken(x)
          PROVE  \E j \in 1..Len(pubChannel) : pubChannel[j] = x
      <3>1. i - Taken \in 1..Len(pubChannel) /\ Taken + (i - Taken) = i
        BY <2>1, <1>1, <1>2 DEF IsTaken
      <3>2. pubChannel[i - Taken] = x
        BY <3>1, <2>1, <1>0 DEF Queued
      <3>3. QED
        BY <3>1, <3>2
    <2>2. ASSUME NEW j \in 1..Len(pubChannel), pubChannel[j] = x
          PROVE  \E i \in 1..Len(pubEntered) : pubEntered[i] = x
      <3>1. Taken + j \in 1..Len(pubEntered) /\ pubEntered[Taken + j] = x
        BY <2>2, <1>0, <1>1, <1>2 DEF Queued
      <3>2. QED
        BY <3>1
    <2>3. ASSUME IsTaken(x) PROVE \E i \in 1..Len(pubEntered) : pubEntered[i] = x
      BY <2>3, <1>1, <1>2 DEF IsTaken
    <2>4. QED
      BY <2>1, <2>2, <2>3
  <1>5. \A x : IsTaken(x) <=> x \in InHand \/ IsStored(x) \/ x \in pubDropped
    <2>1. \A x : IsTaken(x) => x # NoMessage
      <3>1. \A k \in 1..Len(pubEntered) : pubEntered[k] \in PubMessages
        BY <1>0, ElementOfSeq DEF PubSeqs
      <3>2. QED
        BY <3>1, <1>1, <1>2, PubAssumption DEF IsTaken, PubAssumption
    <2>2. \A x : x \in InHand <=> x # NoMessage /\ \E c \in Contexts : Msg(c) = x
      BY DEF InHand, Msg
    <2>3. \A x : IsTaken(x) => InPlace(x)
      BY <1>0 DEF IsTaken, Places
    <2>4. \A x : InPlace(x) /\ x # NoMessage => IsTaken(x)
      BY <1>0 DEF InPlace, Places, IsStored
    <2>5. \A x : IsStored(x) \/ x \in pubDropped => IsTaken(x)
      BY <1>0 DEF Places, IsStored
    <2>6. QED
      BY <2>1, <2>2, <2>3, <2>4, <2>5 DEF InPlace
  <1>6. PubNothingVanishes
    <2> DEFINE entered == {pubEntered[i] : i \in 1..Len(pubEntered)}
               queued == {pubChannel[i] : i \in 1..Len(pubChannel)}
               stored == {pubStored[i] : i \in 1..Len(pubStored)}
    <2>1. \A x : x \in stored <=> IsStored(x)
      BY DEF IsStored
    <2>2. \A x : x \in entered <=> x \in queued \/ IsTaken(x)
      BY <1>4
    <2>3. pubPanicked => InHand \cap pubHit # {} \/ pubStarts = 0
      BY <1>0 DEF PanicMet, InHand, Msg
    <2> HIDE DEF entered, queued, stored
    <2>4. entered = queued \cup InHand \cup stored \cup pubDropped
      BY <2>1, <2>2, <1>5
    <2>5. stored \cap pubDropped = {} /\ pubDropped \subseteq pubHit
      BY <2>1, <1>0 DEF OnePlace
    <2>6. \A i, j \in 1..Len(pubStored) : pubStored[i] = pubStored[j] => i = j
      BY <1>0 DEF OnePlace
    <2>7. QED
      BY <2>3, <2>4, <2>5, <2>6 DEF PubNothingVanishes, entered, queued, stored
  <1>7. PubOrderKept
    BY <1>0 DEF PubOrderKept, StoredAhead, Ahead
  <1>8. QED
    BY <1>3, <1>6, <1>7 DEF PubKept

(* Whatever starts, stops and failures come between, no message that       *)
(* entered the channel is lost or stored twice, messages are given up only *)
(* when a failure or a stop met them, and the others keep their order.     *)
THEOREM NothingPutVanishes == PubSpec => []PubKept
  <1>1. PubInit => PubInv
    <2> SUFFICES ASSUME PubInit PROVE PubInv
      OBVIOUS
    <2>1. /\ Len(pubChannel) = 0 /\ Len(pubEntered) = 0 /\ Len(pubStored) = 0
          /\ \A c \in Contexts : Msg(c) = NoMessage /\ pubHandler[c].pc = "none"
      BY DEF PubInit, Msg
    <2>2. PubTypes
      <3>1. [pc |-> "none", msg |-> NoMessage]
              \in [pc : HandlerPcs, msg : PubMessages \cup {NoMessage}]
        BY DEF HandlerPcs
      <3>2. pubHandler \in [Contexts -> [pc : HandlerPcs, msg : PubMessages \cup {NoMessage}]]
        BY <3>1 DEF PubInit
      <3>3. pubServer \in BOOLEAN /\ pubPanicked \in BOOLEAN
        BY Zenon DEF PubInit
      <3>4. pubStarts \in 0..MaxStarts /\ pubStream \in 0..StoreMaxBytes
        BY PubAssumption DEF PubInit, PubAssumption
      <3>5. pubWaiting \subseteq PubMessages /\ pubDropped \subseteq PubMessages
        BY DEF PubInit
      <3>6. /\ pubConn \in {"nil", "open", "broken"}
            /\ pubPc \in {"idle", "connect", "stream", "drain", "shutdown"}
        BY DEF PubInit
      <3>7. QED
        BY <3>2, <3>3, <3>4, <3>5, <3>6 DEF PubTypes
    <2>3. PubSeqs
      BY <2>1, PubAssumption DEF PubInit, PubSeqs, PubAssumption
    <2>4. OneLive /\ HandsOfLive /\ PanicMet
      BY <2>1 DEF PubInit, OneLive, HandsOfLive, PanicMet
    <2>5. PubFlowInv
      BY <2>1
         DEF PubInit, PubFlowInv, Queued, Places, OnePlace, StoredAhead, Taken, IsStored, IsTaken
    <2>6. QED
      BY <2>2, <2>3, <2>4, <2>5 DEF PubInv
  <1>2. QED
    BY <1>1, PubStep, PubInvSuffices, PTL DEF PubSpec

-----------------------------------------------------------------------------
(* Dispatcher *)

USE BoundsAssumption, BatchAssumption, RetryAssumption

(* The redelivery queue *)

(* What is left of a queue after one message is settled is a queue.        *)
LEMMA RemoveAtType ==
    ASSUME NEW S, NEW s \in Seq(S), NEW i \in 1 .. Len(s)
    PROVE  RemoveAt(s, i) \in Seq(S)
  <1>1. SubSeq(s, 1, i - 1) \in Seq(S) /\ SubSeq(s, i + 1, Len(s)) \in Seq(S)
    BY LenProperties, SubSeqProperties
  <1>2. QED
    BY <1>1, ConcatProperties DEF RemoveAt

(* Whatever generation acknowledges, the consumer keeps its types, and an  *)
(* empty redelivery queue stays empty.                                     *)
LEMMA AckTypes ==
    ASSUME NEW g \in Gens, NEW m \in Msgs, Ack(g, m),
           rdq \in Seq(Msgs), unacked \subseteq Msgs, acked \subseteq Msgs
    PROVE  /\ rdq' \in Seq(Msgs) /\ unacked' \subseteq Msgs /\ acked' \subseteq acked \cup {m}
           /\ nextSeq' = nextSeq
           /\ rdq = <<>> => rdq' = <<>>
  <1>1. CASE conn # g
    BY <1>1 DEF Ack, consumer
  <1>2. CASE conn = g /\ Contains(rdq, m)
    <2>1. PICK i \in 1 .. Len(rdq) : rdq[i] = m /\ rdq' = RemoveAt(rdq, i)
      BY <1>2 DEF Ack
    <2>2. rdq' \in Seq(Msgs) /\ rdq # <<>>
      BY <2>1, RemoveAtType, EmptySeq
    <2>3. QED
      BY <2>2, <1>2 DEF Ack
  <1>3. CASE conn = g /\ ~Contains(rdq, m)
    BY <1>3 DEF Ack
  <1>4. QED
    BY <1>1, <1>2, <1>3

(* Nak puts a message in line for redelivery and settles nothing.          *)
LEMMA NakTypes ==
    ASSUME NEW g \in Gens, NEW m \in Msgs, Nak(g, m), rdq \in Seq(Msgs)
    PROVE  rdq' \in Seq(Msgs) /\ UNCHANGED <<nextSeq, unacked, acked>>
  BY DEF Nak, consumer

-----------------------------------------------------------------------------
(* The inductive invariant *)

(* A message is settled only with an outcome.                              *)
SettledWithOutcome == ~pushFull => acked \subseteq delivered \cup refused \cup dropped

(* A generation fetches from a consumer that was created: the first new    *)
(* sequence is not 0.                                                      *)
ConsumerCreated == \A g \in Gens : fpc[g] # "none" => nextSeq # 0

(* Once a message of a batch is to be retried no other one is handled: the *)
(* index into RetryDelays is not overwritten before the delay.             *)
NothingAfterRetry ==
    \A g \in Gens : fpc[g] \in {"handle", "retry", "stopping"} => fetchDone[g]

(* Every retry that is counted was an error since the last stop, in the    *)
(* entry and in the hands of a generation that has read it, but for counts *)
(* that are older than the stop; restarts, age, successes and overwritten  *)
(* updates only make the count smaller.                                    *)
RetriesPaid ==
    /\ 0 \notin outdated => retries < errors
    /\ \A g \in Gens : fpc[g] = "retry" /\ g \notin outdated => delayRetry[g] < errors

(* The inductive invariant of every dispatcher, disturbed or not.          *)
DspInv ==
    DspTypeOK /\ SettledWithOutcome /\ ConsumerCreated /\ NothingAfterRetry /\ RetriesPaid

(* Of an undisturbed dispatcher: one generation, nothing to redeliver, and *)
(* what was delivered last, is handled, waits in the inbox and will be     *)
(* fetched has growing sequences.                                          *)
OneGeneration == /\ started <= 1
                 /\ \A g \in Gens : g # 1 => fpc[g] = "none"
                 /\ \A g \in Gens : fpc[g] # "none" => started = 1
                 /\ \A g \in Gens : fpc[g] = "none" => inbox[g] = <<>> /\ cur[g] = 0
                 /\ \A g \in Gens : fetchDone[g] /\ fpc[g] # "retry"
InboxGrows == \A g \in Gens : \A i, j \in 1 .. Len(inbox[g]) : i < j => inbox[g][i] < inbox[g][j]
InboxIsNew == \A g \in Gens : \A i \in 1 .. Len(inbox[g]) :
                duraSeq < inbox[g][i] /\ cur[g] < inbox[g][i] /\ inbox[g][i] < nextSeq
DoneIsOld == \A g \in Gens : fpc[g] # "none" => duraSeq < nextSeq /\ cur[g] < nextSeq

InOrder == /\ ~lostOrder /\ rdq = <<>> /\ OneGeneration
           /\ InboxGrows /\ InboxIsNew /\ DoneIsOld

OrderInv == ~disturbed => InOrder

(* DspTypeOK in parts: the consumer, the generations, their retries, the   *)
(* caches and the history.                                                 *)
ConsumerTypes ==
    /\ last \in 0 .. MaxMsgs /\ nextSeq \in 0 .. MaxMsgs + 1
    /\ unacked \subseteq Msgs /\ acked \subseteq Msgs /\ rdq \in Seq(Msgs)
FetchTypes ==
    /\ conn \in 0 .. MaxGens /\ started \in 0 .. MaxGens
    /\ fpc \in [Gens -> {"none", "select", "batch", "handle", "retry", "stopping", "delay", "ended"}]
    /\ credits \in [Gens -> 0 .. Batch]
InboxTypes ==
    /\ inbox \in [Gens -> Seq(Msgs)]
    /\ cur \in [Gens -> 0 .. MaxMsgs]
    /\ \A g \in Gens : fpc[g] \in {"handle", "retry", "stopping"} => cur[g] \in Msgs
DelayTypes ==
    fetchDone \in [Gens -> BOOLEAN] /\ delayRetry \in [Gens -> Nat] /\ RetryInRange
CacheTypes ==
    /\ retries \in NoRetry .. RetryLimit - 1 /\ forgets \in 0 .. MaxForgets
    /\ duraSeq \in 0 .. MaxMsgs /\ errors \in Nat /\ outdated \subseteq 0 .. MaxGens
HistoryTypes ==
    /\ delivered \subseteq Msgs /\ refused \subseteq Msgs /\ dropped \subseteq Msgs
    /\ lostOrder \in BOOLEAN /\ pushFull \in BOOLEAN /\ disturbed \in BOOLEAN

(* DspTypeOK in parts, one for each component of the state.                *)
LEMMA TypesInParts ==
    DspTypeOK <=> /\ ConsumerTypes /\ FetchTypes /\ InboxTypes
                  /\ DelayTypes /\ CacheTypes /\ HistoryTypes
  BY DEF DspTypeOK, ConsumerTypes, FetchTypes, InboxTypes, DelayTypes, CacheTypes, HistoryTypes

(* The counts stay paid for while nobody reads or writes them.             *)
LEMMA CountsKept ==
    ASSUME RetriesPaid, UNCHANGED <<retries, errors, outdated>>,
           \A g \in Gens : fpc'[g] = "retry" => fpc[g] = "retry" /\ delayRetry'[g] = delayRetry[g]
    PROVE  RetriesPaid'
  BY DEF RetriesPaid

(* Every step of the dispatcher, its generations, the consumer and the     *)
(* task worker keeps the invariant.                                        *)
LEMMA DspStep == DspInv /\ [DspNext]_dspVars => DspInv'
  <1> SUFFICES ASSUME ConsumerTypes, FetchTypes, InboxTypes, DelayTypes, CacheTypes, HistoryTypes,
                      SettledWithOutcome, ConsumerCreated, NothingAfterRetry, RetriesPaid,
                      [DspNext]_dspVars
               PROVE  DspInv'
    BY TypesInParts DEF DspInv
  <1> USE DEF Msgs, Gens, NoRetry, consumer, fetchVars, caches, history
  <1>1. CASE Publish
    <2>1. ConsumerTypes'
      BY <1>1 DEF Publish, ConsumerTypes
    <2>2. /\ FetchTypes' /\ InboxTypes' /\ DelayTypes' /\ CacheTypes' /\ HistoryTypes'
          /\ SettledWithOutcome' /\ ConsumerCreated' /\ NothingAfterRetry' /\ RetriesPaid'
      BY <1>1 DEF Publish, FetchTypes, InboxTypes, DelayTypes, RetryInRange, CacheTypes,
         HistoryTypes, SettledWithOutcome, ConsumerCreated, NothingAfterRetry, RetriesPaid
    <2>3. QED
      BY <2>1, <2>2, TypesInParts, PTL DEF DspInv
  <1>2. ASSUME NEW g \in Gens, Deliver(g) PROVE DspInv'
    <2> DEFINE m == IF rdq # <<>> THEN Head(rdq) ELSE nextSeq
    <2>1. /\ m \in Msgs /\ rdq' \in Seq(Msgs) /\ unacked' \subseteq Msgs
          /\ nextSeq' \in 0 .. MaxMsgs + 1 /\ nextSeq' >= nextSeq
      <3>1. CASE rdq # <<>>
        <4>1. Head(rdq) \in Msgs /\ Tail(rdq) \in Seq(Msgs)
          BY <3>1, HeadTailProperties, EmptySeq DEF ConsumerTypes
        <4>2. rdq' = Tail(rdq) /\ UNCHANGED <<nextSeq, unacked>>
          BY <3>1, <1>2 DEF Deliver
        <4>3. QED
          BY <3>1, <4>1, <4>2 DEF ConsumerTypes
      <3>2. CASE rdq = <<>>
        <4>1. nextSeq \in Msgs
          BY <3>2, <1>2 DEF Deliver, ConsumerTypes, ConsumerCreated
        <4>2. nextSeq' = nextSeq + 1 /\ unacked' = unacked \cup {nextSeq} /\ rdq' = rdq
          BY <3>2, <1>2 DEF Deliver
        <4>3. QED
          BY <3>2, <4>1, <4>2, <1>2 DEF Deliver, ConsumerTypes
      <3>3. QED
        BY <3>1, <3>2
    <2>2. /\ inbox' = [inbox EXCEPT ![g] = Append(inbox[g], m)]
          /\ credits[g] > 0 /\ credits' = [credits EXCEPT ![g] = credits[g] - 1]
          /\ UNCHANGED <<last, acked, conn, started, fpc, cur>>
      BY <1>2 DEF Deliver
    <2>a. Append(inbox[g], m) \in Seq(Msgs)
      BY <2>1, AppendProperties DEF InboxTypes
    <2> HIDE DEF m
    <2>3. ConsumerTypes'
      BY <2>a, <2>1, <2>2 DEF ConsumerTypes, FetchTypes
    <2>4. FetchTypes'
      BY <2>a, <2>1, <2>2, SMTT(30) DEF FetchTypes
    <2>5. InboxTypes'
      BY <2>a, <2>1, <2>2 DEF InboxTypes, FetchTypes
    <2>6. ConsumerCreated'
      BY <2>a, <2>1, <2>2 DEF ConsumerCreated, FetchTypes, ConsumerTypes
    <2>7. /\ DelayTypes' /\ CacheTypes' /\ HistoryTypes'
          /\ SettledWithOutcome' /\ NothingAfterRetry' /\ RetriesPaid'
      BY <1>2 DEF Deliver, DelayTypes, RetryInRange, CacheTypes, HistoryTypes,
         SettledWithOutcome, NothingAfterRetry, RetriesPaid
    <2>8. QED
      BY <2>3, <2>4, <2>5, <2>6, <2>7, TypesInParts, PTL DEF DspInv
  <1>3. ASSUME NEW m \in Msgs, AckWaitOver(m) PROVE DspInv'
    <2>1. ConsumerTypes'
      BY <1>3 DEF AckWaitOver, ConsumerTypes
    <2>2. HistoryTypes'
      BY <1>3 DEF AckWaitOver, HistoryTypes
    <2>3. /\ FetchTypes' /\ InboxTypes' /\ DelayTypes' /\ CacheTypes'
          /\ SettledWithOutcome' /\ ConsumerCreated' /\ NothingAfterRetry' /\ RetriesPaid'
      BY <1>3 DEF AckWaitOver, FetchTypes, InboxTypes, DelayTypes, RetryInRange, CacheTypes,
         SettledWithOutcome, ConsumerCreated, NothingAfterRetry, RetriesPaid
    <2>4. QED
      BY <2>1, <2>2, <2>3, TypesInParts, PTL DEF DspInv
  <1>4. ASSUME NEW g \in Gens, FetchBegin(g) PROVE DspInv'
    <2>1. /\ inbox' \in [Gens -> Seq(Msgs)] /\ credits' \in [Gens -> 0 .. Batch]
          /\ DelayTypes' /\ \A h \in Gens : fetchDone[h] => fetchDone'[h]
      <3>1. CASE conn # g
        BY <3>1, <1>4 DEF FetchBegin, FetchTypes, InboxTypes, DelayTypes, RetryInRange
      <3>2. CASE conn = g
        <4>1. <<>> \in Seq(Msgs) /\ Batch \in 0 .. Batch
          BY EmptySeq
        <4>2. inbox' \in [Gens -> Seq(Msgs)] /\ credits' \in [Gens -> 0 .. Batch]
          BY <4>1, <3>2, <1>4 DEF FetchBegin, FetchTypes, InboxTypes
        <4>3. fetchDone' \in [Gens -> BOOLEAN] /\ \A h \in Gens : fetchDone[h] => fetchDone'[h]
          BY <3>2, <1>4 DEF FetchBegin, DelayTypes
        <4>4. delayRetry' \in [Gens -> Nat]
          BY <3>2, <1>4 DEF FetchBegin, DelayTypes
        <4>5. RetryInRange'
          BY <3>2, <1>4 DEF FetchBegin, DelayTypes, RetryInRange
        <4>6. QED
          BY <4>2, <4>3, <4>4, <4>5 DEF DelayTypes
      <3>3. QED
        BY <3>1, <3>2
    <2>2. /\ fpc' \in [Gens -> {"none", "select", "batch", "handle", "retry", "stopping", "delay", "ended"}]
          /\ fpc[g] = "select" /\ fpc'[g] \in {"ended", "batch"}
          /\ \A h \in Gens : h # g => fpc'[h] = fpc[h]
          /\ UNCHANGED <<nextSeq, conn, started, cur>>
      BY <1>4 DEF FetchBegin, FetchTypes
    <2>3. FetchTypes'
      BY <2>1, <2>2 DEF FetchTypes
    <2>4. InboxTypes'
      BY <2>1, <2>2 DEF InboxTypes, FetchTypes
    <2>5. ConsumerCreated'
      BY <2>1, <2>2 DEF ConsumerCreated, FetchTypes
    <2>6. NothingAfterRetry'
      BY <2>1, <2>2 DEF NothingAfterRetry, FetchTypes, DelayTypes
    <2>7. ConsumerTypes' /\ CacheTypes' /\ HistoryTypes' /\ SettledWithOutcome'
      BY <1>4 DEF FetchBegin, ConsumerTypes, CacheTypes, HistoryTypes, SettledWithOutcome
    <2>p. RetriesPaid'
      BY <1>4, CountsKept DEF FetchBegin, FetchTypes, DelayTypes
    <2>8. QED
      BY <2>p, <2>1, <2>3, <2>4, <2>5, <2>6, <2>7, TypesInParts, PTL DEF DspInv
  <1>5. ASSUME NEW g \in Gens, TakeMsg(g) PROVE DspInv'
    <2>1. Head(inbox[g]) \in Msgs /\ Tail(inbox[g]) \in Seq(Msgs)
      BY <1>5, HeadTailProperties, EmptySeq DEF TakeMsg, InboxTypes
    <2>2. FetchTypes'
      BY <1>5, <2>1 DEF TakeMsg, FetchTypes
    <2>3. InboxTypes'
      <3>1. inbox' \in [Gens -> Seq(Msgs)]
        BY <1>5, <2>1 DEF TakeMsg, InboxTypes
      <3>2. cur' = [cur EXCEPT ![g] = Head(inbox[g])] /\ fpc' = [fpc EXCEPT ![g] = "handle"]
        BY <1>5 DEF TakeMsg
      <3>3. cur' \in [Gens -> 0 .. MaxMsgs] /\ cur'[g] \in Msgs
        BY <3>2, <2>1 DEF InboxTypes
      <3>4. \A h \in Gens : h # g => cur'[h] = cur[h] /\ fpc'[h] = fpc[h]
        BY <3>2 DEF InboxTypes, FetchTypes
      <3>5. QED
        BY <3>1, <3>3, <3>4 DEF InboxTypes
    <2>4. HistoryTypes'
      BY <1>5, <2>1 DEF TakeMsg, HistoryTypes
    <2>5. ConsumerCreated'
      BY <1>5, <2>1 DEF TakeMsg, ConsumerCreated, FetchTypes
    <2>6. NothingAfterRetry'
      BY <1>5, <2>1 DEF TakeMsg, NothingAfterRetry, FetchTypes, DelayTypes
    <2>7. ConsumerTypes' /\ DelayTypes' /\ CacheTypes' /\ SettledWithOutcome'
      BY <1>5 DEF TakeMsg, ConsumerTypes, DelayTypes, RetryInRange, CacheTypes,
         SettledWithOutcome
    <2>p. RetriesPaid'
      BY <1>5, CountsKept DEF TakeMsg, FetchTypes, DelayTypes
    <2>8. QED
      BY <2>p, <2>2, <2>3, <2>4, <2>5, <2>6, <2>7, TypesInParts, PTL DEF DspInv
  <1>6. ASSUME NEW g \in Gens, SkipMsg(g) PROVE DspInv'
    <2>1. Head(inbox[g]) \in Msgs /\ Tail(inbox[g]) \in Seq(Msgs)
      BY <1>6, HeadTailProperties, EmptySeq DEF SkipMsg, InboxTypes
    <2>2. rdq' \in Seq(Msgs) /\ UNCHANGED <<nextSeq, unacked, acked>>
      BY <1>6, <2>1, NakTypes DEF SkipMsg, ConsumerTypes
    <2>3. ConsumerTypes'
      BY <1>6, <2>1, <2>2 DEF SkipMsg, ConsumerTypes
    <2>4. InboxTypes'
      BY <1>6, <2>1, <2>2 DEF SkipMsg, InboxTypes, FetchTypes
    <2>5. /\ FetchTypes' /\ DelayTypes' /\ CacheTypes' /\ HistoryTypes'
          /\ SettledWithOutcome' /\ ConsumerCreated' /\ NothingAfterRetry' /\ RetriesPaid'
      BY <1>6, <2>2 DEF SkipMsg, FetchTypes, DelayTypes, RetryInRange, CacheTypes, HistoryTypes,
         SettledWithOutcome, ConsumerCreated, NothingAfterRetry, RetriesPaid
    <2>6. QED
      BY <2>3, <2>4, <2>5, TypesInParts, PTL DEF DspInv
  <1>7. ASSUME NEW g \in Gens, Delivered(g) PROVE DspInv'
    <2>1. cur[g] \in Msgs
      BY <1>7 DEF Delivered, InboxTypes
    <2>2. /\ rdq' \in Seq(Msgs) /\ unacked' \subseteq Msgs /\ acked' \subseteq acked \cup {cur[g]}
          /\ nextSeq' = nextSeq
      BY <1>7, <2>1, AckTypes DEF Delivered, ConsumerTypes
    <2>3. ConsumerTypes'
      BY <1>7, <2>1, <2>2 DEF Delivered, Returned, ConsumerTypes
    <2>4. FetchTypes'
      BY <1>7, <2>1, <2>2 DEF Delivered, Returned, FetchTypes
    <2>5. InboxTypes'
      BY <1>7, <2>1, <2>2 DEF Delivered, Returned, InboxTypes, FetchTypes
    <2>6. CacheTypes'
      BY <1>7, <2>1, <2>2 DEF Delivered, Returned, DoneSeq, CacheTypes
    <2>7. HistoryTypes'
      BY <1>7, <2>1, <2>2 DEF Delivered, Returned, HistoryTypes
    <2>8. SettledWithOutcome'
      BY <1>7, <2>1, <2>2 DEF Delivered, Returned, SettledWithOutcome, HistoryTypes
    <2>9. ConsumerCreated'
      BY <1>7, <2>1, <2>2 DEF Delivered, Returned, ConsumerCreated, FetchTypes
    <2>10. NothingAfterRetry'
      BY <1>7, <2>1, <2>2 DEF Delivered, Returned, NothingAfterRetry, FetchTypes, DelayTypes
    <2>11. DelayTypes'
      BY <1>7, <2>2 DEF Delivered, Returned, DelayTypes, RetryInRange
    <2>p. RetriesPaid'
      BY <1>7, CountsKept DEF Delivered, Returned, FetchTypes, DelayTypes
    <2>12. QED
      BY <2>p, <2>3, <2>4, <2>5, <2>6, <2>7, <2>8, <2>9, <2>10, <2>11, TypesInParts,
         PTL DEF DspInv
  <1>8. ASSUME NEW g \in Gens, NotDelivered(g) PROVE DspInv'
    <2>1. cur[g] \in Msgs
      BY <1>8 DEF NotDelivered, InboxTypes
    <2>2. /\ rdq' \in Seq(Msgs) /\ unacked' \subseteq Msgs /\ acked' \subseteq acked \cup {cur[g]}
          /\ nextSeq' = nextSeq
      BY <1>8, <2>1, AckTypes DEF NotDelivered, ConsumerTypes
    <2>3. ConsumerTypes'
      BY <1>8, <2>1, <2>2 DEF NotDelivered, Returned, ConsumerTypes
    <2>4. FetchTypes'
      BY <1>8, <2>1, <2>2 DEF NotDelivered, Returned, FetchTypes
    <2>5. InboxTypes'
      BY <1>8, <2>1, <2>2 DEF NotDelivered, Returned, InboxTypes, FetchTypes
    <2>6. HistoryTypes'
      BY <1>8, <2>1, <2>2 DEF NotDelivered, Returned, HistoryTypes
    <2>7. SettledWithOutcome'
      BY <1>8, <2>1, <2>2 DEF NotDelivered, Returned, SettledWithOutcome, HistoryTypes
    <2>8. ConsumerCreated'
      BY <1>8, <2>1, <2>2 DEF NotDelivered, Returned, ConsumerCreated, FetchTypes
    <2>9. NothingAfterRetry'
      BY <1>8, <2>1, <2>2 DEF NotDelivered, Returned, NothingAfterRetry, FetchTypes, DelayTypes
    <2>10. DelayTypes' /\ CacheTypes'
      BY <1>8, <2>2 DEF NotDelivered, Returned, DelayTypes, RetryInRange, CacheTypes
    <2>p. RetriesPaid'
      BY <1>8, CountsKept DEF NotDelivered, Returned, FetchTypes, DelayTypes
    <2>11. QED
      BY <2>p, <2>3, <2>4, <2>5, <2>6, <2>7, <2>8, <2>9, <2>10, TypesInParts,
         PTL DEF DspInv
  <1>9. ASSUME NEW g \in Gens, WillRetry(g) PROVE DspInv'
    <2>1. cur[g] \in Msgs
      BY <1>9 DEF WillRetry, InboxTypes
    <2>2. rdq' \in Seq(Msgs) /\ UNCHANGED <<nextSeq, unacked, acked>>
      BY <1>9, <2>1, NakTypes DEF WillRetry, ConsumerTypes
    <2>3. ConsumerTypes'
      BY <1>9, <2>1, <2>2 DEF WillRetry, Returned, ConsumerTypes
    <2>4. FetchTypes'
      BY <1>9, <2>1, <2>2 DEF WillRetry, Returned, FetchTypes
    <2>5. InboxTypes'
      BY <1>9, <2>1, <2>2 DEF WillRetry, Returned, InboxTypes, FetchTypes
    <2>6. DelayTypes'
      BY <1>9, <2>1, <2>2 DEF WillRetry, Returned, MayRetry, DelayTypes, RetryInRange
    <2>7. CacheTypes'
      BY <1>9, <2>1, <2>2 DEF WillRetry, Returned, MayRetry, CacheTypes, DelayTypes
    <2>8. HistoryTypes'
      BY <1>9, <2>1, <2>2 DEF WillRetry, Returned, HistoryTypes
    <2>9. ConsumerCreated'
      BY <1>9, <2>1, <2>2 DEF WillRetry, Returned, ConsumerCreated, FetchTypes
    <2>10. NothingAfterRetry'
      BY <1>9, <2>1, <2>2 DEF WillRetry, Returned, NothingAfterRetry, FetchTypes, DelayTypes
    <2>11. RetriesPaid'
      <3>1. \A h \in Gens : fpc'[h] = "retry" => h # g /\ fpc[h] = "retry"
        BY <1>9 DEF WillRetry, Returned, FetchTypes
      <3>2. QED
        BY <1>9, <3>1 DEF WillRetry, RetriesPaid
    <2>12. SettledWithOutcome'
      BY <1>9, <2>2 DEF WillRetry, Returned, SettledWithOutcome
    <2>13. QED
      BY <2>3, <2>4, <2>5, <2>6, <2>7, <2>8, <2>9, <2>10, <2>11, <2>12,
         TypesInParts, PTL DEF DspInv
  <1>10. ASSUME NEW g \in Gens, StopRetrying(g) PROVE DspInv'
    <2>1. cur[g] \in Msgs
      BY <1>10 DEF StopRetrying, InboxTypes
    <2>2. /\ rdq' \in Seq(Msgs) /\ unacked' \subseteq Msgs /\ acked' \subseteq acked \cup {cur[g]}
          /\ nextSeq' = nextSeq
      BY <1>10, <2>1, AckTypes DEF StopRetrying, ConsumerTypes
    <2>3. ConsumerTypes'
      BY <1>10, <2>1, <2>2 DEF StopRetrying, Returned, ConsumerTypes
    <2>4. FetchTypes'
      BY <1>10, <2>1, <2>2 DEF StopRetrying, Returned, FetchTypes
    <2>5. InboxTypes'
      BY <1>10, <2>1, <2>2 DEF StopRetrying, Returned, InboxTypes, FetchTypes
    <2>6. DelayTypes'
      BY <1>10, <2>1, <2>2, SMTT(30) DEF StopRetrying, Returned, DelayTypes,
         RetryInRange
    <2>7. CacheTypes'
      BY <1>10, <2>1, <2>2 DEF StopRetrying, Returned, OtherCounts, CacheTypes
    <2>8. HistoryTypes'
      BY <1>10, <2>1, <2>2 DEF StopRetrying, Returned, HistoryTypes
    <2>9. SettledWithOutcome'
      BY <1>10, <2>1, <2>2 DEF StopRetrying, Returned, SettledWithOutcome, HistoryTypes
    <2>10. ConsumerCreated'
      BY <1>10, <2>1, <2>2 DEF StopRetrying, Returned, ConsumerCreated, FetchTypes
    <2>11. NothingAfterRetry'
      BY <1>10, <2>1, <2>2 DEF StopRetrying, Returned, NothingAfterRetry, FetchTypes, DelayTypes
    <2>12. RetriesPaid'
      <3>1. \A h \in Gens : fpc'[h] = "retry" => h # g /\ fpc[h] = "retry"
        BY <1>10 DEF StopRetrying, Returned, FetchTypes
      <3>2. QED
        BY <1>10, <3>1 DEF StopRetrying, OtherCounts, RetriesPaid
    <2>13. QED
      BY <2>3, <2>4, <2>5, <2>6, <2>7, <2>8, <2>9, <2>10, <2>11, <2>12,
         TypesInParts, PTL DEF DspInv
  <1>11. ASSUME NEW g \in Gens, Unauthorized(g) PROVE DspInv'
    <2>1. FetchTypes'
      BY <1>11 DEF Unauthorized, FetchTypes
    <2>2. InboxTypes'
      BY <1>11 DEF Unauthorized, InboxTypes, FetchTypes
    <2>3. ConsumerCreated'
      BY <1>11 DEF Unauthorized, ConsumerCreated, FetchTypes
    <2>4. NothingAfterRetry'
      BY <1>11 DEF Unauthorized, NothingAfterRetry, FetchTypes, DelayTypes
    <2>5. /\ ConsumerTypes' /\ DelayTypes' /\ CacheTypes'
          /\ HistoryTypes' /\ SettledWithOutcome'
      BY <1>11 DEF Unauthorized, ConsumerTypes, DelayTypes, RetryInRange, CacheTypes,
         HistoryTypes, SettledWithOutcome
    <2>p. RetriesPaid'
      BY <1>11, CountsKept DEF Unauthorized, FetchTypes, DelayTypes
    <2>6. QED
      BY <2>p, <2>1, <2>2, <2>3, <2>4, <2>5, TypesInParts, PTL DEF DspInv
  <1>12. ASSUME NEW g \in Gens, StopTransport(g) PROVE DspInv'
    <2>1. FetchTypes'
      BY <1>12 DEF StopTransport, Returned, FetchTypes
    <2>2. InboxTypes'
      BY <1>12 DEF StopTransport, Returned, InboxTypes, FetchTypes
    <2>3. HistoryTypes'
      BY <1>12 DEF StopTransport, Returned, HistoryTypes
    <2>4. ConsumerCreated'
      BY <1>12 DEF StopTransport, Returned, ConsumerCreated, FetchTypes
    <2>5. NothingAfterRetry'
      BY <1>12 DEF StopTransport, Returned, NothingAfterRetry, FetchTypes, DelayTypes
    <2>6. ConsumerTypes' /\ DelayTypes' /\ CacheTypes' /\ SettledWithOutcome'
      BY <1>12 DEF StopTransport, Returned, ConsumerTypes, DelayTypes, RetryInRange, CacheTypes,
         SettledWithOutcome
    <2>p. RetriesPaid'
      BY <1>12, CountsKept DEF StopTransport, Returned, FetchTypes, DelayTypes
    <2>7. QED
      BY <2>p, <2>1, <2>2, <2>3, <2>4, <2>5, <2>6, TypesInParts, PTL DEF DspInv
  <1>13. ASSUME NEW g \in Gens, StopTransportFails(g) PROVE DspInv'
    <2>1. cur[g] \in Msgs
      BY <1>13 DEF StopTransportFails, InboxTypes
    <2>2. /\ rdq' \in Seq(Msgs) /\ unacked' \subseteq Msgs /\ acked' \subseteq acked \cup {cur[g]}
          /\ nextSeq' = nextSeq
      BY <1>13, <2>1, AckTypes DEF StopTransportFails, ConsumerTypes
    <2>3. ConsumerTypes'
      BY <1>13, <2>1, <2>2 DEF StopTransportFails, Returned, ConsumerTypes
    <2>4. FetchTypes'
      BY <1>13, <2>1, <2>2 DEF StopTransportFails, Returned, FetchTypes
    <2>5. InboxTypes'
      BY <1>13, <2>1, <2>2 DEF StopTransportFails, Returned, InboxTypes, FetchTypes
    <2>6. HistoryTypes'
      BY <1>13, <2>1, <2>2 DEF StopTransportFails, Returned, HistoryTypes
    <2>7. SettledWithOutcome'
      BY <1>13, <2>1, <2>2 DEF StopTransportFails, Returned, SettledWithOutcome, HistoryTypes
    <2>8. ConsumerCreated'
      BY <1>13, <2>1, <2>2 DEF StopTransportFails, Returned, ConsumerCreated, FetchTypes
    <2>9. NothingAfterRetry'
      BY <1>13, <2>1, <2>2 DEF StopTransportFails, Returned, NothingAfterRetry, FetchTypes,
         DelayTypes
    <2>10. DelayTypes' /\ CacheTypes'
      BY <1>13, <2>2 DEF StopTransportFails, Returned, DelayTypes, RetryInRange, CacheTypes
    <2>p. RetriesPaid'
      BY <1>13, CountsKept DEF StopTransportFails, Returned, FetchTypes, DelayTypes
    <2>11. QED
      BY <2>p, <2>3, <2>4, <2>5, <2>6, <2>7, <2>8, <2>9, <2>10, TypesInParts,
         PTL DEF DspInv
  <1>14. ASSUME NEW g \in Gens, BatchEnd(g) PROVE DspInv'
    <2>1. FetchTypes'
      BY <1>14 DEF BatchEnd, FetchTypes
    <2>2. InboxTypes'
      BY <1>14 DEF BatchEnd, InboxTypes, FetchTypes
    <2>3. ConsumerCreated'
      BY <1>14 DEF BatchEnd, ConsumerCreated, FetchTypes
    <2>4. NothingAfterRetry'
      BY <1>14 DEF BatchEnd, NothingAfterRetry, FetchTypes, DelayTypes
    <2>5. /\ ConsumerTypes' /\ DelayTypes' /\ CacheTypes'
          /\ HistoryTypes' /\ SettledWithOutcome'
      BY <1>14 DEF BatchEnd, ConsumerTypes, DelayTypes, RetryInRange, CacheTypes, HistoryTypes,
         SettledWithOutcome
    <2>p. RetriesPaid'
      BY <1>14, CountsKept DEF BatchEnd, FetchTypes, DelayTypes
    <2>6. QED
      BY <2>p, <2>1, <2>2, <2>3, <2>4, <2>5, TypesInParts, PTL DEF DspInv
  <1>15. ASSUME NEW g \in Gens, DelayEnd(g) PROVE DspInv'
    <2>1. FetchTypes'
      BY <1>15 DEF DelayEnd, FetchTypes
    <2>2. InboxTypes'
      BY <1>15 DEF DelayEnd, InboxTypes, FetchTypes
    <2>3. ConsumerCreated'
      BY <1>15 DEF DelayEnd, ConsumerCreated, FetchTypes
    <2>4. NothingAfterRetry'
      BY <1>15 DEF DelayEnd, NothingAfterRetry, FetchTypes, DelayTypes
    <2>5. /\ ConsumerTypes' /\ DelayTypes' /\ CacheTypes'
          /\ HistoryTypes' /\ SettledWithOutcome'
      BY <1>15 DEF DelayEnd, ConsumerTypes, DelayTypes, RetryInRange, CacheTypes, HistoryTypes,
         SettledWithOutcome
    <2>p. RetriesPaid'
      BY <1>15, CountsKept DEF DelayEnd, FetchTypes, DelayTypes
    <2>6. QED
      BY <2>p, <2>1, <2>2, <2>3, <2>4, <2>5, TypesInParts, PTL DEF DspInv
  <1>16. CASE Forget
    <2>1. CacheTypes'
      BY <1>16 DEF Forget, CacheTypes
    <2>2. RetriesPaid'
      BY <1>16 DEF Forget, RetriesPaid, CacheTypes
    <2>3. /\ ConsumerTypes' /\ FetchTypes' /\ InboxTypes' /\ DelayTypes'
          /\ HistoryTypes' /\ SettledWithOutcome' /\ ConsumerCreated' /\ NothingAfterRetry'
      BY <1>16 DEF Forget, ConsumerTypes, FetchTypes, InboxTypes, DelayTypes, RetryInRange,
         HistoryTypes, SettledWithOutcome, ConsumerCreated, NothingAfterRetry
    <2>4. QED
      BY <2>1, <2>2, <2>3, TypesInParts, PTL DEF DspInv
  <1>17. CASE StopDispatcher
    <2>1. FetchTypes'
      BY <1>17 DEF StopDispatcher, FetchTypes
    <2>2. HistoryTypes'
      BY <1>17 DEF StopDispatcher, HistoryTypes
    <2>3. /\ ConsumerTypes' /\ InboxTypes' /\ DelayTypes' /\ CacheTypes'
          /\ SettledWithOutcome' /\ ConsumerCreated' /\ NothingAfterRetry' /\ RetriesPaid'
      BY <1>17 DEF StopDispatcher, ConsumerTypes, InboxTypes, DelayTypes, RetryInRange,
         CacheTypes, SettledWithOutcome, ConsumerCreated, NothingAfterRetry, RetriesPaid
    <2>4. QED
      BY <2>1, <2>2, <2>3, TypesInParts, PTL DEF DspInv
  <1>18. ASSUME NEW o \in BOOLEAN, StartDispatcher(o) PROVE DspInv'
    <2>1. ConsumerTypes'
      BY <1>18 DEF StartDispatcher, ConsumerTypes
    <2>2. FetchTypes'
      BY <1>18 DEF StartDispatcher, FetchTypes
    <2>3. InboxTypes'
      BY <1>18 DEF StartDispatcher, InboxTypes, FetchTypes
    <2>4. CacheTypes'
      BY <1>18 DEF StartDispatcher, CacheTypes
    <2>5. HistoryTypes'
      BY <1>18 DEF StartDispatcher, HistoryTypes
    <2>6. ConsumerCreated'
      BY <1>18 DEF StartDispatcher, ConsumerCreated, FetchTypes
    <2>7. NothingAfterRetry'
      BY <1>18 DEF StartDispatcher, NothingAfterRetry, FetchTypes, DelayTypes
    <2>8. RetriesPaid'
      <3>1. \A h \in Gens : fpc'[h] = "retry" => fpc[h] = "retry"
        BY <1>18 DEF StartDispatcher, FetchTypes
      <3>2. QED
        BY <1>18, <3>1 DEF StartDispatcher, RetriesPaid, CacheTypes
    <2>9. DelayTypes' /\ SettledWithOutcome'
      BY <1>18 DEF StartDispatcher, DelayTypes, RetryInRange, SettledWithOutcome
    <2>10. QED
      BY <2>1, <2>2, <2>3, <2>4, <2>5, <2>6, <2>7, <2>8, <2>9, TypesInParts,
         PTL DEF DspInv
  <1>19. CASE UNCHANGED dspVars
    <2>1. ConsumerTypes' /\ FetchTypes' /\ InboxTypes' /\ CacheTypes' /\ HistoryTypes'
      BY <1>19 DEF dspVars, ConsumerTypes, FetchTypes, InboxTypes, CacheTypes, HistoryTypes
    <2>2. /\ DelayTypes' /\ SettledWithOutcome'
          /\ ConsumerCreated' /\ NothingAfterRetry' /\ RetriesPaid'
      BY <1>19 DEF dspVars, DelayTypes, RetryInRange, SettledWithOutcome, ConsumerCreated,
                   NothingAfterRetry, RetriesPaid
    <2>3. QED
      BY <2>1, <2>2, TypesInParts, PTL DEF DspInv
  <1>20. ASSUME NEW g \in Gens, NoMetadata(g) PROVE DspInv'
    <2> DEFINE m == Head(inbox[g])
    <2>1. m \in Msgs /\ Tail(inbox[g]) \in Seq(Msgs)
      BY <1>20, HeadTailProperties, EmptySeq DEF NoMetadata, InboxTypes
    <2>2. Ack(g, m) /\ refused' = refused \cup {m}
      BY <1>20 DEF NoMetadata
    <2> HIDE DEF m
    <2>3. /\ rdq' \in Seq(Msgs) /\ unacked' \subseteq Msgs /\ acked' \subseteq acked \cup {m}
          /\ nextSeq' = nextSeq
      BY <2>1, <2>2, AckTypes DEF ConsumerTypes
    <2>4. ConsumerTypes'
      BY <1>20, <2>1, <2>3 DEF NoMetadata, ConsumerTypes
    <2>5. InboxTypes'
      BY <1>20, <2>1 DEF NoMetadata, InboxTypes
    <2>6. HistoryTypes' /\ SettledWithOutcome'
      BY <1>20, <2>1, <2>2, <2>3 DEF NoMetadata, HistoryTypes, SettledWithOutcome
    <2>7. /\ FetchTypes' /\ DelayTypes' /\ CacheTypes'
          /\ ConsumerCreated' /\ NothingAfterRetry' /\ RetriesPaid'
      BY <1>20, <2>3 DEF NoMetadata, FetchTypes, DelayTypes, RetryInRange, CacheTypes,
         ConsumerCreated, NothingAfterRetry, RetriesPaid
    <2>8. QED
      BY <2>4, <2>5, <2>6, <2>7, TypesInParts, PTL DEF DspInv
  <1>21. ASSUME NEW g \in Gens, TransientError(g) PROVE DspInv'
    <2>1. FetchTypes'
      BY <1>21 DEF TransientError, FetchTypes
    <2>2. InboxTypes'
      BY <1>21 DEF TransientError, InboxTypes, FetchTypes
    <2>3. NextRetry \in Nat /\ fetchDone[g]
      BY <1>21 DEF TransientError, NextRetry, CacheTypes, NothingAfterRetry
    <2>4. DelayTypes'
      BY <1>21, <2>3 DEF TransientError, DelayTypes, RetryInRange
    <2>5. CacheTypes'
      BY <1>21 DEF TransientError, CacheTypes
    <2>6. HistoryTypes' /\ ConsumerTypes' /\ SettledWithOutcome'
      BY <1>21 DEF TransientError, HistoryTypes, ConsumerTypes, SettledWithOutcome
    <2>7. ConsumerCreated'
      BY <1>21 DEF TransientError, ConsumerCreated, FetchTypes
    <2>8. NothingAfterRetry'
      BY <1>21, <2>3 DEF TransientError, NothingAfterRetry, FetchTypes
    <2>9. RetriesPaid'
      <3>1. /\ delayRetry'[g] = NextRetry /\ errors' = errors + 1 /\ retries' = retries
            /\ \A h \in Gens : h # g => fpc'[h] = fpc[h] /\ delayRetry'[h] = delayRetry[h]
            /\ outdated' = IF 0 \in outdated THEN outdated \cup {g} ELSE outdated
            /\ g # 0
        BY <1>21 DEF TransientError, FetchTypes, DelayTypes
      <3>2. 0 \notin outdated' => retries' < errors'
        BY <3>1 DEF RetriesPaid, CacheTypes
      <3>3. g \notin outdated' => delayRetry'[g] < errors'
        BY <3>1 DEF RetriesPaid, CacheTypes, NextRetry
      <3>4. \A h \in Gens : h # g /\ fpc'[h] = "retry" /\ h \notin outdated' => delayRetry'[h] < errors'
        BY <3>1 DEF RetriesPaid, CacheTypes, DelayTypes
      <3>5. QED
        BY <3>2, <3>3, <3>4 DEF RetriesPaid
    <2>10. QED
      BY <2>1, <2>2, <2>4, <2>5, <2>6, <2>7, <2>8, <2>9, TypesInParts, PTL DEF DspInv
  <1>22. QED
    BY <1>20, <1>21, <1>1, <1>2, <1>3, <1>4, <1>5, <1>6, <1>7, <1>8, <1>9, <1>10, <1>11, <1>12,
       <1>13, <1>14, <1>15, <1>16, <1>17, <1>18, <1>19
       DEF DspNext, FetchStep, HandlerEnds

(* The types, the outcomes and the count of retries hold throughout.       *)
LEMMA DspInvHolds == DspSpec => []DspInv
  <1>1. DspInit => DspInv
    <2> USE DEF DspInit, Msgs, Gens, NoRetry
    <2>1. DspInit => ConsumerTypes /\ FetchTypes /\ InboxTypes
      BY EmptySeq DEF ConsumerTypes, FetchTypes, InboxTypes
    <2>2. DspInit => DelayTypes
      BY DEF DelayTypes, RetryInRange
    <2>a. DspInit => CacheTypes
      BY DEF CacheTypes
    <2>b. DspInit => HistoryTypes
      BY DEF HistoryTypes
    <2>3. DspInit => SettledWithOutcome /\ ConsumerCreated /\ NothingAfterRetry /\ RetriesPaid
      BY DEF SettledWithOutcome, ConsumerCreated, NothingAfterRetry, RetriesPaid
    <2>4. QED
      BY <2>1, <2>2, <2>a, <2>b, <2>3, TypesInParts DEF DspInv
  <1>2. QED
    BY <1>1, DspStep, PTL DEF DspSpec

(* An acknowledged message has an outcome: it was delivered, refused for   *)
(* good or given up, unless the task queue was full when its transport was *)
(* to be stopped; and RetryDelays is never read beyond its end.            *)
THEOREM AcksHaveOutcomes == DspSpec => []AckedHasOutcome
  <1>1. DspInv => AckedHasOutcome
    BY DEF DspInv, SettledWithOutcome, AckedHasOutcome
  <1>2. QED
    BY <1>1, DspInvHolds, PTL

(* Retrying is stopped only after more transient errors since the last     *)
(* stop than there are delays, whichever messages and generations they     *)
(* were of and whoever overwrote the count, except on a count that was     *)
(* read before that stop.                                                  *)
THEOREM GivingUpIsPaid == DspSpec => GiveUpsPaid
  <1>1. DspInv => \A g \in Gens : StopRetrying(g) => errors > RetryLimit \/ g \in outdated
    <2> SUFFICES ASSUME DspInv, NEW g \in Gens, StopRetrying(g), g \notin outdated
                 PROVE  errors > RetryLimit
      OBVIOUS
    <2>1. delayRetry[g] < errors /\ delayRetry[g] \in Nat /\ errors \in Nat
      BY DEF DspInv, DspTypeOK, RetriesPaid, StopRetrying
    <2>2. ~(delayRetry[g] < RetryLimit)
      BY DEF StopRetrying, MayRetry
    <2>3. QED
      BY <2>1, <2>2, RetryAssumption
  <1>2. QED
    BY <1>1, DspInvHolds, PTL DEF GiveUpsPaid

(* What settles a message, delivered or not, keeps the order: the handled  *)
(* message is older than what waits behind it.                             *)
LEMMA ReturnKeepsOrder ==
    ASSUME ConsumerTypes, FetchTypes, InboxTypes, CacheTypes, InOrder,
           NEW g \in Gens, cur[g] \in Msgs, fpc[g] # "none", rdq' = <<>>, nextSeq' = nextSeq,
           fpc' = [fpc EXCEPT ![g] = "batch"], cur' = [cur EXCEPT ![g] = 0],
           duraSeq' \in {cur[g], duraSeq},
           UNCHANGED <<started, inbox, fetchDone, lostOrder>>
    PROVE  InOrder'
  <1> USE DEF InOrder
  <1>1. OneGeneration'
    BY DEF OneGeneration, FetchTypes, InboxTypes
  <1>2. InboxGrows'
    BY DEF InboxGrows
  <1>3. \A h \in Gens : h # g => inbox[h] = <<>> /\ fpc[h] = "none"
    BY DEF OneGeneration, Gens
  <1>4. \A i \in 1 .. Len(inbox[g]) : duraSeq' < inbox[g][i] /\ 0 < inbox[g][i]
    BY DEF InboxIsNew, InboxTypes, ConsumerTypes, CacheTypes, Msgs
  <1>5. InboxIsNew'
    BY <1>3, <1>4 DEF InboxIsNew, InboxTypes
  <1>6. duraSeq' < nextSeq /\ 0 < nextSeq
    BY DEF DoneIsOld, CacheTypes, InboxTypes, ConsumerTypes, Msgs
  <1>7. DoneIsOld'
    BY <1>3, <1>6 DEF DoneIsOld, InboxTypes, FetchTypes
  <1>8. QED
    BY <1>1, <1>2, <1>5, <1>7

(* As long as nothing disturbs the dispatcher its steps keep the order.    *)
LEMMA OrderStep == DspInv /\ OrderInv /\ [DspNext]_dspVars => OrderInv'
  <1> SUFFICES ASSUME ConsumerTypes, FetchTypes, InboxTypes, DelayTypes, CacheTypes, HistoryTypes,
                      OrderInv, [DspNext]_dspVars, ~disturbed'
               PROVE  InOrder'
    BY TypesInParts DEF DspInv, OrderInv
  <1>0. ~disturbed
    <2> USE DEF history
    <2>1. CASE Publish \/ Forget \/ StopDispatcher \/ \E m \in Msgs : AckWaitOver(m)
      BY <2>1 DEF Publish, Forget, StopDispatcher, AckWaitOver
    <2>2. ASSUME NEW g \in Gens, Deliver(g) \/ FetchBegin(g) \/ TakeMsg(g) \/ SkipMsg(g)
                                 \/ NoMetadata(g) \/ BatchEnd(g) \/ DelayEnd(g)
          PROVE  ~disturbed
      BY <2>2 DEF Deliver, FetchBegin, TakeMsg, SkipMsg, NoMetadata, BatchEnd, DelayEnd
    <2>3. ASSUME NEW g \in Gens, HandlerEnds(g) \/ WillRetry(g) \/ StopRetrying(g)
                                 \/ StopTransport(g) \/ StopTransportFails(g)
          PROVE  ~disturbed
      BY <2>3 DEF HandlerEnds, Delivered, NotDelivered, TransientError, Unauthorized,
                  WillRetry, StopRetrying, StopTransport, StopTransportFails
    <2>4. ASSUME NEW o \in BOOLEAN, StartDispatcher(o) PROVE ~disturbed
      BY <2>4 DEF StartDispatcher
    <2>5. CASE UNCHANGED dspVars
      BY <2>5 DEF dspVars
    <2>6. QED
      BY <2>1, <2>2, <2>3, <2>4, <2>5 DEF DspNext, FetchStep
  <1>a. InOrder
    BY <1>0 DEF OrderInv
  <1> USE <1>a DEF consumer, fetchVars, caches, history
  <1>1. CASE Publish
    BY <1>1 DEF Publish, InOrder, OneGeneration, InboxGrows, InboxIsNew, DoneIsOld
  <1>2. ASSUME NEW g \in Gens, Deliver(g) PROVE InOrder'
    <2>1. /\ rdq = <<>> /\ rdq' = <<>> /\ nextSeq' = nextSeq + 1 /\ fpc[g] # "none"
          /\ inbox' = [inbox EXCEPT ![g] = Append(inbox[g], nextSeq)]
          /\ UNCHANGED <<started, fpc, cur, fetchDone, duraSeq, lostOrder>>
      BY <1>2 DEF Deliver, InOrder
    <2>2. nextSeq \in Nat /\ inbox \in [Gens -> Seq(Msgs)] /\ Msgs \subseteq Nat
      BY DEF ConsumerTypes, InboxTypes, Msgs
    <2> DEFINE s == inbox[g]
    <2>3. /\ Len(inbox'[g]) = Len(s) + 1 /\ inbox'[g][Len(s) + 1] = nextSeq
          /\ \A i \in 1 .. Len(s) : inbox'[g][i] = s[i] /\ s[i] \in Nat
          /\ \A h \in Gens : h # g => inbox'[h] = inbox[h]
          /\ Len(s) \in Nat
      <3>1. nextSeq \in Msgs /\ s \in Seq(Msgs)
        BY <1>2, <2>1 DEF Deliver, InOrder, DoneIsOld, ConsumerTypes, CacheTypes, InboxTypes, Msgs
      <3>2. /\ Len(Append(s, nextSeq)) = Len(s) + 1 /\ Append(s, nextSeq)[Len(s) + 1] = nextSeq
            /\ \A i \in 1 .. Len(s) : Append(s, nextSeq)[i] = s[i] /\ s[i] \in Msgs
            /\ Len(s) \in Nat
        BY <3>1, AppendProperties, ElementOfSeq, LenProperties
      <3>3. inbox'[g] = Append(s, nextSeq) /\ \A h \in Gens : h # g => inbox'[h] = inbox[h]
        BY <2>1, <2>2
      <3> HIDE DEF s
      <3>4. QED
        BY <3>2, <3>3, <2>2
    <2>4. \A i \in 1 .. Len(s) : duraSeq < s[i] /\ cur[g] < s[i] /\ s[i] < nextSeq
      BY DEF InOrder, InboxIsNew
    <2>5. duraSeq < nextSeq /\ cur[g] < nextSeq /\ duraSeq \in Nat /\ cur[g] \in Nat
      BY <2>1 DEF InOrder, DoneIsOld, CacheTypes, InboxTypes
    <2>6. InboxGrows'
      <3>1. SUFFICES ASSUME NEW h \in Gens, NEW i \in 1 .. Len(inbox'[h]),
                            NEW j \in 1 .. Len(inbox'[h]), i < j
                     PROVE  inbox'[h][i] < inbox'[h][j]
        BY DEF InboxGrows
      <3>2. CASE h # g
        BY <2>3, <3>1, <3>2 DEF InOrder, InboxGrows
      <3>3. CASE h = g
        <4>1. i \in 1 .. Len(s) /\ j \in 1 .. Len(s) + 1 /\ inbox'[g][i] = s[i]
          BY <2>3, <3>1, <3>3
        <4>2. CASE j = Len(s) + 1
          BY <2>3, <2>4, <3>3, <4>1, <4>2
        <4>3. CASE j \in 1 .. Len(s)
          BY <2>3, <3>1, <3>3, <4>1, <4>3 DEF InOrder, InboxGrows
        <4>4. QED
          BY <4>1, <4>2, <4>3
      <3>4. QED
        BY <3>2, <3>3
    <2>7. \A h \in Gens : h # g => inbox[h] = <<>> /\ fpc[h] = "none"
      BY <2>1 DEF InOrder, OneGeneration, Gens
    <2>8. InboxIsNew'
      BY <2>1, <2>2, <2>3, <2>4, <2>5, <2>7 DEF InboxIsNew
    <2>9. DoneIsOld'
      BY <2>1, <2>2, <2>5, <2>7 DEF DoneIsOld
    <2>10. OneGeneration'
      BY <2>1, <2>3 DEF InOrder, OneGeneration
    <2>11. QED
      BY <2>1, <2>6, <2>8, <2>9, <2>10 DEF InOrder
  <1>3. ASSUME NEW g \in Gens, FetchBegin(g) PROVE InOrder'
    <2>1. /\ fpc[g] # "none" /\ fpc'[g] \notin {"none", "retry"}
          /\ \A h \in Gens : h # g => fpc'[h] = fpc[h]
          /\ \A h \in Gens : inbox'[h] \in {inbox[h], <<>>} /\ (fetchDone[h] => fetchDone'[h])
          /\ UNCHANGED <<started, cur, rdq, nextSeq, duraSeq, lostOrder>>
      BY <1>3 DEF FetchBegin, FetchTypes, InboxTypes, DelayTypes
    <2>2. OneGeneration' /\ DoneIsOld'
      BY <2>1 DEF InOrder, OneGeneration, DoneIsOld
    <2>3. InboxGrows' /\ InboxIsNew'
      BY <2>1 DEF InOrder, InboxGrows, InboxIsNew
    <2>4. QED
      BY <2>1, <2>2, <2>3 DEF InOrder
  <1>4. ASSUME NEW g \in Gens, TakeMsg(g) PROVE InOrder'
    <2> DEFINE s == inbox[g]
    <2>1. /\ s # <<>> /\ fpc[g] # "none"
          /\ cur' = [cur EXCEPT ![g] = Head(s)] /\ inbox' = [inbox EXCEPT ![g] = Tail(s)]
          /\ lostOrder' = (lostOrder \/ duraSeq >= Head(s)) /\ fpc' = [fpc EXCEPT ![g] = "handle"]
          /\ UNCHANGED <<started, fetchDone, rdq, nextSeq, duraSeq>>
      BY <1>4 DEF TakeMsg
    <2>2. /\ s \in Seq(Msgs) /\ Msgs \subseteq Nat /\ duraSeq \in Nat /\ nextSeq \in Nat
      BY DEF ConsumerTypes, InboxTypes, CacheTypes, Msgs
    <2>3. /\ Len(s) \in Nat \ {0} /\ Head(s) = s[1] /\ Head(s) \in Nat /\ Len(Tail(s)) = Len(s) - 1
          /\ \A i \in 1 .. Len(Tail(s)) : Tail(s)[i] = s[i + 1]
      <3> HIDE DEF s
      <3>1. /\ Head(s) \in Msgs /\ Len(Tail(s)) = Len(s) - 1
            /\ \A i \in 1 .. Len(Tail(s)) : Tail(s)[i] = s[i + 1]
        BY <2>1, <2>2, HeadTailProperties
      <3>2. Len(s) \in Nat \ {0} /\ Head(s) = s[1]
        BY <2>1, <2>2, EmptySeq, LenProperties
      <3>3. QED
        BY <3>1, <3>2, <2>2
    <2>4. duraSeq < Head(s) /\ Head(s) < nextSeq
      BY <2>3 DEF InOrder, InboxIsNew
    <2>5. ~lostOrder'
      <3>1. ~(duraSeq >= Head(s))
        BY <2>2, <2>3, <2>4
      <3>2. QED
        BY <3>1, <2>1, Zenon DEF InOrder
    <2>6. \A h \in Gens : h # g => inbox[h] = <<>> /\ fpc[h] = "none"
      BY <2>1 DEF InOrder, OneGeneration, Gens
    <2>7. /\ inbox'[g] = Tail(s) /\ cur'[g] = Head(s) /\ fpc'[g] = "handle"
          /\ \A h \in Gens : h # g => inbox'[h] = inbox[h] /\ cur'[h] = cur[h] /\ fpc'[h] = fpc[h]
      BY <2>1 DEF InboxTypes, FetchTypes
    <2>8. InboxGrows'
      <3>1. \A i, j \in 1 .. Len(Tail(s)) : i < j => Tail(s)[i] < Tail(s)[j]
        <4> SUFFICES ASSUME NEW i \in 1 .. Len(Tail(s)), NEW j \in 1 .. Len(Tail(s)), i < j
                     PROVE  Tail(s)[i] < Tail(s)[j]
          OBVIOUS
        <4>1. /\ i + 1 \in 1 .. Len(s) /\ j + 1 \in 1 .. Len(s) /\ i + 1 < j + 1
              /\ Tail(s)[i] = s[i + 1] /\ Tail(s)[j] = s[j + 1]
          BY <2>3
        <4>2. QED
          BY <4>1 DEF InOrder, InboxGrows
      <3> HIDE DEF s
      <3>2. QED
        BY <3>1, <2>6, <2>7 DEF InOrder, InboxGrows
    <2>9. \A i \in 1 .. Len(Tail(s)) :
            duraSeq < Tail(s)[i] /\ Head(s) < Tail(s)[i] /\ Tail(s)[i] < nextSeq
      BY <2>3 DEF InOrder, InboxGrows, InboxIsNew
    <2>10. InboxIsNew'
      <3> HIDE DEF s
      <3>1. QED
        BY <2>1, <2>6, <2>7, <2>9 DEF InboxIsNew
    <2>11. DoneIsOld'
      BY <2>1, <2>2, <2>3, <2>4, <2>6, <2>7 DEF DoneIsOld
    <2>12. OneGeneration'
      BY <2>1, <2>6, <2>7 DEF InOrder, OneGeneration
    <2>13. QED
      BY <2>1, <2>5, <2>8, <2>10, <2>11, <2>12 DEF InOrder
  <1>5. ASSUME NEW g \in Gens, SkipMsg(g) PROVE InOrder'
    BY <1>5 DEF SkipMsg, InOrder, OneGeneration
  <1>6. ASSUME NEW g \in Gens, Delivered(g) PROVE InOrder'
    <2>1. cur[g] \in Msgs
      BY <1>6 DEF Delivered, InboxTypes
    <2>2. rdq' = <<>> /\ nextSeq' = nextSeq
      BY <1>6, <2>1, AckTypes DEF Delivered, ConsumerTypes, InOrder
    <2>3. /\ fpc[g] # "none" /\ fpc' = [fpc EXCEPT ![g] = "batch"] /\ cur' = [cur EXCEPT ![g] = 0]
          /\ duraSeq' = cur[g]
          /\ UNCHANGED <<started, inbox, fetchDone, lostOrder>>
      BY <1>6 DEF Delivered, Returned, DoneSeq
    <2>4. QED
      BY <2>1, <2>2, <2>3, ReturnKeepsOrder
  <1>7. ASSUME NEW g \in Gens, NotDelivered(g) PROVE InOrder'
    <2>1. cur[g] \in Msgs
      BY <1>7 DEF NotDelivered, InboxTypes
    <2>2. rdq' = <<>> /\ nextSeq' = nextSeq
      BY <1>7, <2>1, AckTypes DEF NotDelivered, ConsumerTypes, InOrder
    <2>3. /\ fpc[g] # "none" /\ fpc' = [fpc EXCEPT ![g] = "batch"] /\ cur' = [cur EXCEPT ![g] = 0]
          /\ duraSeq' = duraSeq
          /\ UNCHANGED <<started, inbox, fetchDone, lostOrder>>
      BY <1>7 DEF NotDelivered, Returned
    <2>4. QED
      BY <2>1, <2>2, <2>3, ReturnKeepsOrder
  <1>8. ASSUME NEW g \in Gens, WillRetry(g) \/ StopRetrying(g) PROVE FALSE
    BY <1>8 DEF WillRetry, StopRetrying, InOrder, OneGeneration
  <1>9. ASSUME NEW g \in Gens, TransientError(g) PROVE FALSE
    BY <1>9 DEF TransientError
  <1>10. ASSUME NEW g \in Gens, StopTransportFails(g) PROVE InOrder'
    <2>1. cur[g] \in Msgs
      BY <1>10 DEF StopTransportFails, InboxTypes
    <2>2. rdq' = <<>> /\ nextSeq' = nextSeq
      BY <1>10, <2>1, AckTypes DEF StopTransportFails, ConsumerTypes, InOrder
    <2>3. /\ fpc[g] # "none" /\ fpc' = [fpc EXCEPT ![g] = "batch"] /\ cur' = [cur EXCEPT ![g] = 0]
          /\ duraSeq' = duraSeq
          /\ UNCHANGED <<started, inbox, fetchDone, lostOrder>>
      BY <1>10 DEF StopTransportFails, Returned
    <2>4. QED
      BY <2>1, <2>2, <2>3, ReturnKeepsOrder
  <1>11. ASSUME NEW g \in Gens, Unauthorized(g) \/ BatchEnd(g) \/ DelayEnd(g) PROVE InOrder'
    <2>1. /\ fpc[g] # "none" /\ fpc'[g] \notin {"none", "retry"}
          /\ \A h \in Gens : h # g => fpc'[h] = fpc[h]
          /\ UNCHANGED <<started, inbox, cur, fetchDone, rdq, nextSeq, duraSeq, lostOrder>>
      BY <1>11 DEF Unauthorized, BatchEnd, DelayEnd, FetchTypes
    <2>2. QED
      BY <2>1 DEF InOrder, OneGeneration, InboxGrows, InboxIsNew, DoneIsOld
  <1>12. ASSUME NEW g \in Gens, StopTransport(g) PROVE FALSE
    BY <1>12 DEF StopTransport
  <1>13. ASSUME NEW m \in Msgs, AckWaitOver(m) PROVE FALSE
    BY <1>13 DEF AckWaitOver
  <1>14. CASE Forget
    BY <1>14 DEF Forget, InOrder, OneGeneration, InboxGrows, InboxIsNew, DoneIsOld
  <1>15. CASE StopDispatcher
    BY <1>15 DEF StopDispatcher
  <1>16. ASSUME NEW o \in BOOLEAN, StartDispatcher(o) PROVE InOrder'
    <2>0. started = 0
      BY <1>16, Zenon DEF StartDispatcher
    <2>1. /\ started = 0 /\ started' = 1 /\ duraSeq' = 0
          /\ UNCHANGED <<inbox, cur, fetchDone, rdq, lostOrder>>
      BY <2>0, <1>16 DEF StartDispatcher
    <2>2. \A h \in Gens : inbox[h] = <<>> /\ cur[h] = 0 /\ fpc[h] = "none"
      BY <2>1 DEF InOrder, OneGeneration
    <2>3. \A h \in Gens : /\ h # 1 => fpc'[h] = "none"
                          /\ fpc'[h] # "none" => 0 < nextSeq'
                          /\ fpc'[h] # "retry"
      BY <1>16, <2>1, <2>2 DEF StartDispatcher, FetchTypes, ConsumerTypes
    <2>4. OneGeneration' /\ DoneIsOld'
      BY <2>1, <2>2, <2>3 DEF InOrder, OneGeneration, DoneIsOld
    <2>5. InboxGrows' /\ InboxIsNew'
      BY <2>1, <2>2 DEF InboxGrows, InboxIsNew
    <2>6. QED
      BY <2>1, <2>4, <2>5 DEF InOrder
  <1>17. CASE UNCHANGED dspVars
    BY <1>17 DEF dspVars, InOrder, OneGeneration, InboxGrows, InboxIsNew, DoneIsOld
  <1>18. ASSUME NEW g \in Gens, NoMetadata(g) PROVE InOrder'
    <2> DEFINE s == inbox[g]
    <2>1. /\ s \in Seq(Msgs) /\ s # <<>> /\ inbox' = [inbox EXCEPT ![g] = Tail(s)] /\ Ack(g, Head(s))
          /\ UNCHANGED <<started, fpc, cur, fetchDone, duraSeq, lostOrder>>
      BY <1>18 DEF NoMetadata, InboxTypes
    <2>2. /\ Head(s) \in Msgs /\ Len(s) \in Nat /\ Len(Tail(s)) = Len(s) - 1
          /\ \A i \in 1 .. Len(Tail(s)) : Tail(s)[i] = s[i + 1]
      <3> HIDE DEF s
      <3>1. QED
        BY <2>1, HeadTailProperties, LenProperties
    <2>3. rdq' = <<>> /\ nextSeq' = nextSeq
      BY <2>1, <2>2, AckTypes DEF ConsumerTypes, InOrder
    <2>4. inbox'[g] = Tail(s) /\ \A h \in Gens : h # g => inbox'[h] = inbox[h]
      BY <2>1 DEF InboxTypes
    <2>5. /\ \A i, j \in 1 .. Len(Tail(s)) : i < j => Tail(s)[i] < Tail(s)[j]
          /\ \A i \in 1 .. Len(Tail(s)) :
                duraSeq < Tail(s)[i] /\ cur[g] < Tail(s)[i] /\ Tail(s)[i] < nextSeq
      BY <2>2 DEF InOrder, InboxGrows, InboxIsNew
    <2> HIDE DEF s
    <2>6. InboxGrows' /\ InboxIsNew'
      BY <2>1, <2>3, <2>4, <2>5 DEF InOrder, InboxGrows, InboxIsNew
    <2>7. fpc[g] # "none"
      BY <1>18 DEF NoMetadata
    <2>8. OneGeneration' /\ DoneIsOld'
      BY <2>1, <2>3, <2>4, <2>7 DEF InOrder, OneGeneration, DoneIsOld
    <2>9. QED
      BY <2>1, <2>3, <2>6, <2>8 DEF InOrder
  <1>19. QED
    BY <1>1, <1>2, <1>3, <1>4, <1>5, <1>6, <1>7, <1>8, <1>9, <1>10, <1>11, <1>12, <1>13, <1>14,
       <1>15, <1>16, <1>17, <1>18 DEF DspNext, FetchStep, HandlerEnds

(* Without a redelivery, an error or a restart "dispatcher lost order" is  *)
(* never logged, however many messages are fetched at once.                *)
THEOREM OrderIsKept == DspSpec => []OrderLostOnlyAfterDisturbance
  <1>1. DspInit => OrderInv
    BY DEF DspInit, OrderInv, InOrder, OneGeneration, InboxGrows, InboxIsNew, DoneIsOld
  <1>2. OrderInv => OrderLostOnlyAfterDisturbance
    BY DEF OrderInv, InOrder, OrderLostOnlyAfterDisturbance
  <1>3. QED
    BY <1>1, <1>2, OrderStep, DspInvHolds, PTL DEF DspSpec
=============================================================================
