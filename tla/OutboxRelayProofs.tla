------------------------- MODULE OutboxRelayProofs -------------------------
(***************************************************************************)
(* Proofs about OutboxRelay, for any number of rows, tickets, topics,      *)
(* partitions and relays, any batch size and any set and number of faults. *)
(***************************************************************************)
EXTENDS OutboxRelay, FiniteSetTheorems, TLAPS

InLog(i) == i \in Elements(topic[Home(i)])

(* What a relay holds was enqueued, and what it has nothing left to write  *)
(* for is in the log.                                                      *)
RelayInStep(r) ==
    /\ batch[r] \subseteq enqueued
    /\ unsent[r] # {} => rpc[r] = "producing"
    /\ rpc[r] \in {"producing", "marking"} =>
          \A i \in batch[r] : Home(i) \in unsent[r] \/ InLog(i)

(* The log holds rows whose transaction committed, and nothing else.       *)
LogIsEnqueued ==
    /\ IsFiniteSet(enqueued)
    /\ \A tp \in TopicPartitions : Elements(topic[tp]) \subseteq enqueued

(* While it handles or commits, the worker holds a message.                *)
WorkerInStep == wpc \in {"handle", "commit"} => hand # NoMessage

Inv == /\ TypeOK /\ LogIsEnqueued /\ WorkerInStep /\ PublishedIsInLog /\ NotifiedOnce
       /\ \A r \in Relays : RelayInStep(r)

-----------------------------------------------------------------------------
(* Sequences as logs.                                                      *)
LEMMA ElementsOfConcatenation ==
    ASSUME NEW S, NEW s \in Seq(S), NEW t \in Seq(S)
    PROVE  /\ s \o t \in Seq(S) /\ Len(s \o t) = Len(s) + Len(t)
           /\ Elements(s \o t) = Elements(s) \cup Elements(t)
<1>1. s \o t \in Seq(S) /\ Len(s \o t) = Len(s) + Len(t)
  OBVIOUS
<1>2. ASSUME NEW e \in Elements(s \o t) PROVE e \in Elements(s) \cup Elements(t)
  <2>1. PICK k \in 1..(Len(s) + Len(t)) : e = (s \o t)[k]
    BY <1>1 DEF Elements
  <2>2. CASE k <= Len(s)
    BY <2>1, <2>2 DEF Elements
  <2>3. CASE k > Len(s)
    <3>1. k - Len(s) \in 1..Len(t) /\ (s \o t)[k] = t[k - Len(s)]
      BY <2>1, <2>3
    <3> QED BY <2>1, <3>1 DEF Elements
  <2> QED BY <2>1, <2>2, <2>3
<1>3. ASSUME NEW e \in Elements(s) PROVE e \in Elements(s \o t)
  <2>1. PICK k \in 1..Len(s) : e = s[k]
    BY DEF Elements
  <2>2. k \in 1..Len(s \o t) /\ (s \o t)[k] = s[k]
    BY <1>1
  <2> QED BY <1>1, <2>1, <2>2 DEF Elements
<1>4. ASSUME NEW e \in Elements(t) PROVE e \in Elements(s \o t)
  <2>1. PICK k \in 1..Len(t) : e = t[k]
    BY DEF Elements
  <2>2. Len(s) + k \in 1..Len(s \o t) /\ (s \o t)[Len(s) + k] = t[k]
    BY <1>1
  <2> QED BY <1>1, <2>1, <2>2 DEF Elements
<1> QED BY <1>1, <1>2, <1>3, <1>4

LEMMA ElementsOfAppend ==
    ASSUME NEW S, NEW s \in Seq(S), NEW e \in S
    PROVE  Append(s, e) \in Seq(S) /\ Elements(Append(s, e)) = Elements(s) \cup {e}
<1>1. /\ Append(s, e) \in Seq(S) /\ DOMAIN Append(s, e) = 1..(Len(s) + 1)
      /\ Append(s, e)[Len(s) + 1] = e
      /\ \A k \in 1..Len(s) : Append(s, e)[k] = s[k]
      /\ Len(s) \in Nat /\ DOMAIN s = 1..Len(s)
  OBVIOUS
<1>2. 1..(Len(s) + 1) = (1..Len(s)) \cup {Len(s) + 1}
  BY <1>1
<1> QED BY <1>1, <1>2 DEF Elements

LEMMA ElementsTyped ==
    ASSUME NEW S, NEW s \in Seq(S)
    PROVE  Elements(s) \subseteq S /\ \A k \in 1..Len(s) : s[k] \in Elements(s)
  BY DEF Elements

(* The messages for a partition are a sequence of the batch's rows for it. *)
LEMMA MessagesAreRows ==
    ASSUME TypeOK, LogIsEnqueued, NEW r \in Relays, batch[r] \subseteq enqueued,
           NEW tp \in TopicPartitions, NEW s \in Messages(r, tp)
    PROVE  s \in Seq(Rows) /\ Elements(s) = {i \in batch[r] : Home(i) = tp}
<1> DEFINE S == {i \in batch[r] : Home(i) = tp}
<1>1. S \subseteq enqueued /\ S \subseteq Rows
  BY DEF TypeOK
<1>2. Cardinality(S) \in Nat
  BY <1>1, FS_Subset, FS_CardinalityType DEF LogIsEnqueued
<1>3. s \in [1..Cardinality(S) -> S] /\ Elements(s) = S
  BY DEF Messages
<1> HIDE DEF S
<1>4. PICK n \in Nat : s \in [1..n -> Rows]
  BY <1>1, <1>2, <1>3
<1> QED BY <1>3, <1>4 DEF S

(* A fetch of something is not empty.                                      *)
LEMMA FirstRowsExist ==
    ASSUME NEW S, S # {}, NEW B \in FirstRows(S)
    PROVE  B \subseteq S /\ B # {}
  BY RelayAssumption, FS_EmptySet DEF FirstRows

LEMMA HomeTyped == ASSUME NEW i \in Rows PROVE Home(i) \in TopicPartitions
  BY RelayAssumption DEF Home, TopicPartitions

-----------------------------------------------------------------------------
(* Steps.                                                                  *)
LEMMA InitInv == Init => Inv
<1> SUFFICES ASSUME Init PROVE Inv
  OBVIOUS
<1>1. NoMessage \notin [part : TopicPartitions, offset : Nat \ {0}]
  BY DEF NoMessage
<1>2. \A tp \in TopicPartitions : topic[tp] = <<>>
  BY DEF Init
<1>3. TypeOK
  <2>1. created \in BOOLEAN /\ assigned \in BOOLEAN
    BY DEF Init
  <2>2. /\ failed \subseteq Rows /\ topic \in [TopicPartitions -> Seq(Rows)]
        /\ \A tp \in TopicPartitions : position[tp] = 0 /\ committed[tp] = 0 /\ Len(topic[tp]) = 0
        /\ position \in [TopicPartitions -> Nat] /\ committed \in [TopicPartitions -> Nat]
    BY <1>2 DEF Init
  <2>3. /\ rpc \in [Relays -> {"start", "idle", "fetching", "producing", "marking"}]
        /\ batch \in [Relays -> SUBSET Rows] /\ unsent \in [Relays -> SUBSET TopicPartitions]
        /\ \A r \in Relays : rpc[r] \in {"start", "idle"} <=> batch[r] = {}
    BY DEF Init
  <2>4. /\ enqueued = {} /\ published = {} /\ wpc = "start" /\ hand = NoMessage
        /\ notified = <<>> /\ faults = 0
    BY DEF Init
  <2> QED BY <2>1, <2>2, <2>3, <2>4, RelayAssumption DEF TypeOK
<1>4. LogIsEnqueued
  BY <1>2, FS_EmptySet DEF Init, LogIsEnqueued, Elements
<1>5. WorkerInStep /\ PublishedIsInLog /\ NotifiedOnce
  BY DEF Init, WorkerInStep, PublishedIsInLog, NotifiedOnce, Elements
<1>6. \A r \in Relays : RelayInStep(r)
  BY DEF Init, RelayInStep
<1> QED BY <1>3, <1>4, <1>5, <1>6 DEF Inv

(* The variables of a relay have their types.                              *)
RelayTyped ==
    /\ rpc \in [Relays -> {"start", "idle", "fetching", "producing", "marking"}]
    /\ batch \in [Relays -> SUBSET Rows]
    /\ unsent \in [Relays -> SUBSET TopicPartitions]
    /\ \A r \in Relays : rpc[r] \in {"start", "idle"} <=> batch[r] = {}

(* A relay that forgets its batch is in step again, and so are the others. *)
LEMMA ResetInStep ==
    ASSUME Inv, NEW r \in Relays, NEW place \in {"start", "idle"}, Forget(r, place),
           UNCHANGED <<enqueued, topic>>
    PROVE  RelayTyped' /\ \A q \in Relays : RelayInStep(q)'
<1>1. /\ rpc'[r] = place /\ batch'[r] = {} /\ unsent'[r] = {}
      /\ \A q \in Relays \ {r} : rpc'[q] = rpc[q] /\ batch'[q] = batch[q] /\ unsent'[q] = unsent[q]
  BY DEF Inv, TypeOK, Forget
<1>2. RelayTyped'
  BY <1>1 DEF Inv, TypeOK, Forget, RelayTyped
<1>3. ASSUME NEW q \in Relays PROVE RelayInStep(q)'
  <2>1. CASE q = r
    BY <1>1, <2>1 DEF RelayInStep
  <2>2. CASE q # r
    BY <1>1, <2>2 DEF Inv, RelayInStep, InLog, Home
  <2> QED BY <2>1, <2>2
<1> QED BY <1>2, <1>3

(* A batch written to one partition: that partition gains its rows, the    *)
(* others gain nothing, and no offset moves beyond the end of the log.     *)
LEMMA LogGrows ==
    ASSUME Inv, NEW r \in Relays, NEW tp \in TopicPartitions, Store(r, tp)
    PROVE  /\ topic' \in [TopicPartitions -> Seq(Rows)]
           /\ \A q \in TopicPartitions : Len(topic[q]) <= Len(topic'[q])
           /\ \A q \in TopicPartitions \ {tp} : Elements(topic'[q]) = Elements(topic[q])
           /\ Elements(topic'[tp]) = Elements(topic[tp]) \cup {i \in batch[r] : Home(i) = tp}
<1>1. PICK s \in Messages(r, tp) : topic' = [topic EXCEPT ![tp] = @ \o s]
  BY DEF Store
<1>2. s \in Seq(Rows) /\ Elements(s) = {i \in batch[r] : Home(i) = tp}
  BY MessagesAreRows DEF Inv, RelayInStep
<1>3. topic \in [TopicPartitions -> Seq(Rows)]
  BY DEF Inv, TypeOK
<1>4. topic[tp] \in Seq(Rows)
  BY <1>3
<1>5. /\ topic[tp] \o s \in Seq(Rows) /\ Len(topic[tp] \o s) = Len(topic[tp]) + Len(s)
      /\ Elements(topic[tp] \o s) = Elements(topic[tp]) \cup Elements(s)
  BY <1>2, <1>4, ElementsOfConcatenation
<1>6. topic'[tp] = topic[tp] \o s /\ \A q \in TopicPartitions \ {tp} : topic'[q] = topic[q]
  BY <1>1, <1>3
<1>7. topic' \in [TopicPartitions -> Seq(Rows)]
  BY <1>1, <1>3, <1>5
<1>8. ASSUME NEW q \in TopicPartitions PROVE Len(topic[q]) <= Len(topic'[q])
  <2>1. Len(topic[q]) \in Nat /\ Len(s) \in Nat /\ Len(topic[tp]) \in Nat
    BY <1>2, <1>3
  <2>2. CASE q = tp
    BY <1>5, <1>6, <2>1, <2>2
  <2>3. CASE q # tp
    BY <1>6, <2>1, <2>3
  <2> QED BY <2>2, <2>3
<1> QED BY <1>2, <1>5, <1>6, <1>7, <1>8

(* What a longer log means for the invariant.                              *)
LEMMA LogGrowsKeeps ==
    ASSUME Inv, NEW r \in Relays, NEW tp \in TopicPartitions, Store(r, tp),
           UNCHANGED <<outboxVars, workerVars, batch>>,
           RelayTyped', faults' \in 0..MaxFaults,
           \A q \in Relays \ {r} : rpc'[q] = rpc[q] /\ unsent'[q] = unsent[q],
           unsent'[r] # {} => rpc'[r] = "producing",
           unsent'[r] \cup {tp} = unsent[r] \cup {tp}
    PROVE  Inv'
<1>1. /\ topic' \in [TopicPartitions -> Seq(Rows)]
      /\ \A q \in TopicPartitions : Len(topic[q]) <= Len(topic'[q])
      /\ \A q \in TopicPartitions \ {tp} : Elements(topic'[q]) = Elements(topic[q])
      /\ Elements(topic'[tp]) = Elements(topic[tp]) \cup {i \in batch[r] : Home(i) = tp}
  BY LogGrows
<1>2. /\ batch[r] \subseteq enqueued /\ batch \in [Relays -> SUBSET Rows]
      /\ rpc[r] = "producing"
      /\ \A i \in batch[r] : Home(i) \in unsent[r] \/ InLog(i)
  BY DEF Inv, TypeOK, RelayInStep, Store
<1>3. ASSUME NEW i \in Rows, InLog(i) PROVE InLog(i)'
  <2>1. Home(i) \in TopicPartitions /\ Home(i)' = Home(i)
    BY HomeTyped DEF Home
  <2> QED BY <1>1, <1>3, <2>1 DEF InLog
<1>4. ASSUME NEW i \in batch[r], Home(i) = tp PROVE InLog(i)'
  BY <1>1, <1>4 DEF InLog, Home
<1>5. TypeOK'
  <2>1. \A q \in TopicPartitions :
           /\ Len(topic[q]) \in Nat /\ Len(topic'[q]) \in Nat
           /\ committed[q] \in Nat /\ position[q] \in Nat
           /\ committed[q] <= Len(topic[q]) /\ position[q] <= Len(topic[q])
    BY <1>1 DEF Inv, TypeOK
  <2>2. \A q \in TopicPartitions : committed[q] <= Len(topic'[q]) /\ position[q] <= Len(topic'[q])
    BY <1>1, <2>1
  <2>3. hand # NoMessage => hand.offset \in 1..Len(topic'[hand.part])
    <3>1. SUFFICES ASSUME hand # NoMessage PROVE hand.offset \in 1..Len(topic'[hand.part])
      OBVIOUS
    <3>2. hand \in [part : TopicPartitions, offset : Nat]
      BY <3>1 DEF Inv, TypeOK
    <3>3. hand.part \in TopicPartitions /\ hand.offset \in 1..Len(topic[hand.part])
      BY <3>1, <3>2 DEF Inv, TypeOK
    <3> QED BY <1>1, <2>1, <3>3
  <2>4. created' = TRUE
    BY DEF Store
  <2> QED BY <1>1, <2>2, <2>3, <2>4 DEF Inv, TypeOK, RelayTyped, outboxVars, workerVars
<1>6. LogIsEnqueued'
  BY <1>1, <1>2 DEF Inv, LogIsEnqueued, outboxVars
<1>7. PublishedIsInLog'
  <2>1. ASSUME NEW i \in published PROVE InLog(i)'
    BY <1>3 DEF Inv, TypeOK, PublishedIsInLog, InLog
  <2> QED BY <2>1 DEF Inv, PublishedIsInLog, InLog, outboxVars
<1>8. ASSUME NEW q \in Relays PROVE RelayInStep(q)'
  <2>1. batch[q] \subseteq Rows
    BY <1>2
  <2>2. CASE q = r
    BY <1>2, <1>3, <1>4, <2>1, <2>2 DEF RelayInStep, Home, outboxVars
  <2>3. CASE q # r
    BY <1>3, <2>1, <2>3 DEF Inv, RelayInStep, Home, outboxVars
  <2> QED BY <2>2, <2>3
<1> QED BY <1>5, <1>6, <1>7, <1>8 DEF Inv, WorkerInStep, NotifiedOnce, outboxVars, workerVars

(* A step that leaves the log and the worker alone, and marks nothing that *)
(* the log does not hold.                                                  *)
LEMMA RelayStepKeeps ==
    ASSUME Inv, UNCHANGED <<enqueued, topic, workerVars>>,
           RelayTyped', created' \in BOOLEAN, \A q \in Relays : RelayInStep(q)',
           failed' \subseteq Rows, faults' \in 0..MaxFaults,
           \A i \in published' \ published : i \in enqueued /\ InLog(i),
           published' \subseteq Rows
    PROVE  Inv'
<1>1. TypeOK'
  BY DEF Inv, TypeOK, RelayTyped, workerVars
<1>2. PublishedIsInLog'
  BY DEF Inv, PublishedIsInLog, InLog, Home
<1> QED BY <1>1, <1>2 DEF Inv, LogIsEnqueued, WorkerInStep, NotifiedOnce, workerVars

(* A step of the worker alone.                                             *)
LEMMA WorkerStepKeeps ==
    ASSUME Inv, UNCHANGED <<outboxVars, relayVars, topic>>,
           created' \in BOOLEAN, assigned' \in BOOLEAN,
           wpc' \in {"start", "fetch", "handle", "commit", "exited"},
           hand' \in [part : TopicPartitions, offset : Nat] \cup {NoMessage},
           hand' # NoMessage => hand'.offset \in 1..Len(topic[hand'.part]),
           wpc' \in {"handle", "commit"} => hand' # NoMessage,
           position' \in [TopicPartitions -> Nat], committed' \in [TopicPartitions -> Nat],
           \A tp \in TopicPartitions :
              committed'[tp] <= Len(topic[tp]) /\ position'[tp] <= Len(topic[tp]),
           notified' \in Seq(Rows), NotifiedOnce', faults' \in 0..MaxFaults
    PROVE  Inv'
<1>1. TypeOK'
  BY DEF Inv, TypeOK, outboxVars, relayVars
<1>2. \A r \in Relays : RelayInStep(r)'
  BY DEF Inv, RelayInStep, InLog, Home, outboxVars, relayVars
<1>3. LogIsEnqueued' /\ WorkerInStep' /\ PublishedIsInLog'
  BY DEF Inv, LogIsEnqueued, WorkerInStep, PublishedIsInLog, Home, outboxVars
<1> QED BY <1>1, <1>2, <1>3 DEF Inv

(* The message at hand is a row whose transaction committed.               *)
LEMMA MessageIsEnqueued ==
    ASSUME Inv, wpc \in {"handle", "commit"}
    PROVE  /\ hand \in [part : TopicPartitions, offset : Nat]
           /\ hand.part \in TopicPartitions /\ hand.offset \in 1..Len(topic[hand.part])
           /\ Message \in Rows /\ Message \in enqueued
<1>1. hand # NoMessage
  BY DEF Inv, WorkerInStep
<1>2. hand \in [part : TopicPartitions, offset : Nat] /\ hand.offset \in 1..Len(topic[hand.part])
  BY <1>1 DEF Inv, TypeOK
<1>3. hand.part \in TopicPartitions /\ topic[hand.part] \in Seq(Rows)
  BY <1>2 DEF Inv, TypeOK
<1>4. Message \in Elements(topic[hand.part]) /\ Message \in Rows
  BY <1>2, <1>3, ElementsTyped DEF Message
<1> QED BY <1>2, <1>3, <1>4 DEF Inv, LogIsEnqueued

(* The conflict clause keeps the notifications distinct.                   *)
LEMMA InsertKeeps ==
    ASSUME Inv, NEW i \in Rows, i \in enqueued, Insert(i), UNCHANGED enqueued
    PROVE  notified' \in Seq(Rows) /\ NotifiedOnce'
<1>1. CASE i \in Elements(notified)
  BY <1>1 DEF Inv, TypeOK, Insert, NotifiedOnce
<1>2. CASE i \notin Elements(notified)
  <2>1. notified' = Append(notified, i) /\ notified \in Seq(Rows)
    BY <1>2 DEF Insert, Inv, TypeOK
  <2>2. notified' \in Seq(Rows) /\ Elements(notified') = Elements(notified) \cup {i}
    BY <2>1, ElementsOfAppend
  <2>3. /\ Len(notified) \in Nat /\ DOMAIN notified = 1..Len(notified)
        /\ DOMAIN notified' = 1..(Len(notified) + 1)
        /\ notified'[Len(notified) + 1] = i
        /\ \A k \in 1..Len(notified) : notified'[k] = notified[k]
    BY <2>1
  <2>4. \A k \in 1..Len(notified) : notified[k] # i
    BY <1>2, <2>3 DEF Elements
  <2>5. ASSUME NEW j \in DOMAIN notified', NEW k \in DOMAIN notified', notified'[j] = notified'[k]
        PROVE  j = k
    <3>1. \A m \in DOMAIN notified' : m \in 1..Len(notified) \/ m = Len(notified) + 1
      BY <2>3
    <3>2. \A a, b \in 1..Len(notified) : notified[a] = notified[b] => a = b
      BY <2>3 DEF Inv, NotifiedOnce
    <3> QED BY <2>3, <2>4, <2>5, <3>1, <3>2
  <2>6. Elements(notified') \subseteq enqueued'
    BY <2>2 DEF Inv, NotifiedOnce
  <2> QED BY <2>2, <2>5, <2>6 DEF NotifiedOnce
<1> QED BY <1>1, <1>2

LEMMA FaultCounted ==
    ASSUME TypeOK, NEW kind, Fault(kind) PROVE faults' \in 0..MaxFaults
  BY RelayAssumption DEF TypeOK, Fault

-----------------------------------------------------------------------------
(* The actions.                                                            *)
LEMMA EnqueueInv == ASSUME Inv, NEW i \in Rows, Enqueue(i) PROVE Inv'
<1> USE DEF Enqueue, relayVars, workerVars, kafka
<1>1. TypeOK'
  BY DEF Inv, TypeOK
<1>2. LogIsEnqueued'
  BY FS_AddElement DEF Inv, LogIsEnqueued
<1>3. WorkerInStep' /\ PublishedIsInLog' /\ NotifiedOnce'
  BY DEF Inv, WorkerInStep, PublishedIsInLog, NotifiedOnce, Home
<1>4. \A r \in Relays : RelayInStep(r)'
  BY DEF Inv, RelayInStep, InLog, Home
<1> QED BY <1>1, <1>2, <1>3, <1>4 DEF Inv

(* The server starts: its relay begins to poll.                            *)
LEMMA ServerStartsInv ==
    ASSUME Inv, NEW r \in Relays, TopicsReady(r) \/ StartsWithoutTopics(r) PROVE Inv'
<1>1. /\ rpc[r] = "start" /\ rpc' = [rpc EXCEPT ![r] = "idle"]
      /\ created' \in {created, TRUE}
      /\ UNCHANGED <<enqueued, published, failed, batch, unsent, topic, workerVars>>
  BY DEF TopicsReady, StartsWithoutTopics, outboxVars
<1>2. RelayTyped'
  BY <1>1 DEF Inv, TypeOK, RelayTyped
<1>3. ASSUME NEW q \in Relays PROVE RelayInStep(q)'
  <2>1. rpc'[q] = rpc[q] \/ (rpc[q] = "start" /\ rpc'[q] = "idle")
    BY <1>1 DEF Inv, TypeOK
  <2> QED BY <1>1, <2>1 DEF Inv, RelayInStep, InLog, Home
<1>4. faults' \in 0..MaxFaults
  BY FaultCounted DEF Inv, TypeOK, TopicsReady, StartsWithoutTopics
<1> QED BY <1>1, <1>2, <1>3, <1>4, RelayStepKeeps DEF Inv, TypeOK

(* The worker starts: it joins its group, or gives up.                     *)
LEMMA WorkerStartsInv == ASSUME Inv, JoinGroup \/ WorkerExits PROVE Inv'
<1>1. /\ wpc' \in {"fetch", "exited"} /\ created' \in {created, TRUE}
      /\ assigned' \in {assigned, created'}
      /\ UNCHANGED <<outboxVars, relayVars, topic, hand, position, committed, notified>>
  BY DEF JoinGroup, WorkerExits
<1>2. NotifiedOnce'
  BY <1>1 DEF Inv, NotifiedOnce, outboxVars
<1>3. faults' \in 0..MaxFaults
  BY FaultCounted DEF Inv, TypeOK, JoinGroup, WorkerExits
<1> QED BY <1>1, <1>2, <1>3, WorkerStepKeeps DEF Inv, TypeOK

LEMMA FetchUnpublishedInv ==
    ASSUME Inv, NEW r \in Relays, FetchUnpublished(r) PROVE Inv'
<1>1. PICK B \in FirstRows(Unpublished(r)) : batch' = [batch EXCEPT ![r] = B]
  BY DEF FetchUnpublished
<1>2. B \subseteq enqueued /\ B \subseteq Rows /\ B # {}
  <2>1. Unpublished(r) # {} /\ Unpublished(r) \subseteq enqueued
    BY DEF FetchUnpublished, Unpublished
  <2>2. B \subseteq Unpublished(r) /\ B # {}
    BY <2>1, FirstRowsExist
  <2> QED BY <2>1, <2>2 DEF Inv, TypeOK
<1>3. /\ rpc' = [rpc EXCEPT ![r] = "fetching"] /\ rpc[r] = "idle"
      /\ UNCHANGED <<enqueued, published, failed, unsent, created, topic, workerVars, faults>>
  BY DEF FetchUnpublished, outboxVars, kafka
<1>4. RelayTyped'
  BY <1>1, <1>2, <1>3 DEF Inv, TypeOK, RelayTyped
<1>5. ASSUME NEW q \in Relays PROVE RelayInStep(q)'
  <2>1. CASE q = r
    BY <1>1, <1>2, <1>3, <2>1 DEF Inv, TypeOK, RelayInStep
  <2>2. CASE q # r
    <3>1. batch'[q] = batch[q] /\ rpc'[q] = rpc[q]
      BY <1>1, <1>3, <2>2 DEF Inv, TypeOK
    <3> QED BY <1>3, <3>1 DEF Inv, RelayInStep, InLog, Home
  <2> QED BY <2>1, <2>2
<1> QED BY <1>3, <1>4, <1>5, RelayStepKeeps DEF Inv, TypeOK

LEMMA FetchedInv == ASSUME Inv, NEW r \in Relays, Fetched(r) PROVE Inv'
<1> DEFINE U == {Home(i) : i \in batch[r]}
<1>1. /\ rpc' = [rpc EXCEPT ![r] = "producing"] /\ rpc[r] = "fetching"
      /\ unsent' = [unsent EXCEPT ![r] = U]
      /\ UNCHANGED <<enqueued, published, failed, batch, created, topic, workerVars, faults>>
  BY DEF Fetched, outboxVars, kafka
<1>2. U \subseteq TopicPartitions
  BY HomeTyped DEF Inv, TypeOK
<1>3. \A i \in batch[r] : Home(i) \in U
  OBVIOUS
<1> HIDE DEF U
<1>4. RelayTyped'
  BY <1>1, <1>2 DEF Inv, TypeOK, RelayTyped
<1>5. ASSUME NEW q \in Relays PROVE RelayInStep(q)'
  <2>1. CASE q = r
    BY <1>1, <1>3, <2>1 DEF Inv, TypeOK, RelayInStep, Home
  <2>2. CASE q # r
    <3>1. unsent'[q] = unsent[q] /\ rpc'[q] = rpc[q]
      BY <1>1, <2>2 DEF Inv, TypeOK
    <3> QED BY <1>1, <3>1 DEF Inv, RelayInStep, InLog, Home
  <2> QED BY <2>1, <2>2
<1> QED BY <1>1, <1>4, <1>5, RelayStepKeeps DEF Inv, TypeOK

LEMMA WriteInv ==
    ASSUME Inv, NEW r \in Relays, NEW tp \in TopicPartitions, Write(r, tp) PROVE Inv'
<1>1. /\ Store(r, tp) /\ rpc[r] = "producing" /\ tp \in unsent[r]
      /\ unsent' = [unsent EXCEPT ![r] = unsent[r] \ {tp}]
      /\ rpc' = [rpc EXCEPT ![r] = IF unsent[r] = {tp} THEN "marking" ELSE rpc[r]]
      /\ UNCHANGED <<outboxVars, batch, workerVars, faults>>
  BY DEF Write, Store
<1>2. rpc'[r] = IF unsent[r] = {tp} THEN "marking" ELSE "producing"
  BY <1>1 DEF Inv, TypeOK
<1>3. unsent'[r] = unsent[r] \ {tp}
  BY <1>1 DEF Inv, TypeOK
<1>4. \A q \in Relays \ {r} : rpc'[q] = rpc[q] /\ unsent'[q] = unsent[q]
  BY <1>1 DEF Inv, TypeOK
<1>5. RelayTyped'
  BY <1>1, <1>2, <1>4 DEF Inv, TypeOK, RelayTyped
<1>6. unsent'[r] # {} => rpc'[r] = "producing"
  BY <1>2, <1>3
<1>7. faults' \in 0..MaxFaults
  BY <1>1 DEF Inv, TypeOK
<1> QED BY <1>1, <1>3, <1>4, <1>5, <1>6, <1>7, LogGrowsKeeps

LEMMA WriteUnacknowledgedInv ==
    ASSUME Inv, NEW r \in Relays, NEW tp \in TopicPartitions, WriteUnacknowledged(r, tp)
    PROVE  Inv'
<1>1. Store(r, tp) /\ Fault("ack") /\ UNCHANGED <<outboxVars, relayVars, workerVars>>
  BY DEF WriteUnacknowledged
<1>2. RelayTyped' /\ unsent' = unsent /\ rpc' = rpc /\ UNCHANGED batch
  BY <1>1 DEF Inv, TypeOK, RelayTyped, relayVars
<1>3. unsent[r] # {} => rpc[r] = "producing"
  BY DEF Inv, RelayInStep
<1>4. faults' \in 0..MaxFaults
  BY <1>1, FaultCounted DEF Inv
<1> QED BY <1>1, <1>2, <1>3, <1>4, LogGrowsKeeps

(* The ways a batch ends.                                                  *)
LEMMA BatchEndsInv ==
    ASSUME Inv, NEW r \in Relays,
           WriteFails(r) \/ TopicsMissing(r) \/ MarkPublished(r) \/ MarkFails(r) \/ RelayRestart(r)
    PROVE  Inv'
<1>1. /\ Forget(r, "start") \/ Forget(r, "idle")
      /\ UNCHANGED <<enqueued, created, topic, workerVars>>
  BY DEF WriteFails, TopicsMissing, WriteError, MarkPublished, MarkFails, RelayRestart, Reset,
         outboxVars, kafka
<1>2. RelayTyped' /\ \A q \in Relays : RelayInStep(q)'
  BY <1>1, ResetInStep
<1>3. faults' \in 0..MaxFaults
  BY FaultCounted DEF Inv, TypeOK, WriteFails, TopicsMissing, MarkPublished, MarkFails,
                      RelayRestart
<1>4. failed' \subseteq Rows
  BY DEF Inv, TypeOK, WriteFails, TopicsMissing, WriteError, MarkPublished, MarkFails,
         RelayRestart, outboxVars
<1>5. published' \subseteq Rows /\ \A i \in published' \ published : i \in enqueued /\ InLog(i)
  <2>1. CASE MarkPublished(r)
    <3>1. rpc[r] = "marking" /\ published' = published \cup batch[r] /\ batch[r] \subseteq Rows
      BY <2>1 DEF MarkPublished, Inv, TypeOK
    <3>2. \A i \in batch[r] : i \in enqueued /\ InLog(i)
      BY <3>1 DEF Inv, RelayInStep
    <3> QED BY <3>1, <3>2 DEF Inv, TypeOK
  <2>2. CASE ~MarkPublished(r)
    BY <2>2 DEF WriteFails, TopicsMissing, WriteError, MarkFails, RelayRestart, outboxVars,
                Inv, TypeOK
  <2> QED BY <2>1, <2>2
<1> QED BY <1>1, <1>2, <1>3, <1>4, <1>5, RelayStepKeeps DEF Inv, TypeOK

LEMMA FetchMessageInv ==
    ASSUME Inv, NEW tp \in TopicPartitions, FetchMessage(tp) PROVE Inv'
<1>1. /\ position[tp] < Len(topic[tp]) /\ position[tp] \in Nat /\ Len(topic[tp]) \in Nat
      /\ position \in [TopicPartitions -> Nat]
      /\ \A q \in TopicPartitions : position[q] <= Len(topic[q])
  BY DEF FetchMessage, Inv, TypeOK
<1>2. /\ hand' = [part |-> tp, offset |-> position[tp] + 1]
      /\ position' = [position EXCEPT ![tp] = position[tp] + 1]
      /\ wpc' = "handle"
      /\ UNCHANGED <<outboxVars, relayVars, created, topic, assigned, committed, notified, faults>>
  BY DEF FetchMessage, kafka
<1>3. /\ position' \in [TopicPartitions -> Nat]
      /\ \A q \in TopicPartitions : position'[q] <= Len(topic[q])
  BY <1>1, <1>2
<1>4. /\ hand' \in [part : TopicPartitions, offset : Nat]
      /\ hand'.offset \in 1..Len(topic[hand'.part])
  BY <1>1, <1>2
<1>5. hand' # NoMessage
  BY <1>1, <1>2 DEF NoMessage
<1>6. NotifiedOnce'
  BY <1>2 DEF Inv, NotifiedOnce, outboxVars
<1> QED BY <1>2, <1>3, <1>4, <1>5, <1>6, WorkerStepKeeps DEF Inv, TypeOK

LEMMA HandleInv ==
    ASSUME Inv, Handle \/ HandleFails PROVE Inv'
<1>1. /\ wpc = "handle" /\ wpc' \in {"fetch", "commit"}
      /\ Insert(Message) \/ UNCHANGED notified
      /\ UNCHANGED <<outboxVars, relayVars, created, topic, assigned, hand, position, committed>>
  BY DEF Handle, HandleFails, kafka
<1>2. hand # NoMessage
  BY <1>1 DEF Inv, WorkerInStep
<1>3. Message \in Rows /\ Message \in enqueued
  BY <1>1, MessageIsEnqueued
<1>4. notified' \in Seq(Rows) /\ NotifiedOnce'
  <2>1. CASE Insert(Message)
    BY <1>1, <1>3, <2>1, InsertKeeps DEF outboxVars
  <2>2. CASE UNCHANGED notified
    BY <1>1, <2>2 DEF Inv, TypeOK, NotifiedOnce, outboxVars
  <2> QED BY <1>1, <2>1, <2>2
<1>5. faults' \in 0..MaxFaults
  BY FaultCounted DEF Inv, TypeOK, Handle, HandleFails
<1> QED BY <1>1, <1>2, <1>4, <1>5, WorkerStepKeeps DEF Inv, TypeOK

LEMMA CommitInv ==
    ASSUME Inv, CommitMessages \/ CommitFails PROVE Inv'
<1>1. /\ wpc = "commit" /\ wpc' = "fetch"
      /\ \/ committed' = [committed EXCEPT ![hand.part] = hand.offset]
         \/ UNCHANGED committed
      /\ UNCHANGED <<outboxVars, relayVars, created, topic, assigned, hand, position, notified>>
  BY DEF CommitMessages, CommitFails, kafka
<1>2. hand \in [part : TopicPartitions, offset : Nat] /\ hand.part \in TopicPartitions
      /\ hand.offset \in 1..Len(topic[hand.part])
  BY <1>1, MessageIsEnqueued
<1>3. /\ committed' \in [TopicPartitions -> Nat]
      /\ \A q \in TopicPartitions : committed'[q] <= Len(topic[q])
  <2>1. /\ committed \in [TopicPartitions -> Nat]
        /\ \A q \in TopicPartitions : committed[q] <= Len(topic[q]) /\ Len(topic[q]) \in Nat
    BY DEF Inv, TypeOK
  <2>2. CASE committed' = [committed EXCEPT ![hand.part] = hand.offset]
    BY <1>2, <2>1, <2>2
  <2>3. CASE UNCHANGED committed
    BY <2>1, <2>3
  <2> QED BY <1>1, <2>2, <2>3
<1>4. NotifiedOnce'
  BY <1>1 DEF Inv, NotifiedOnce, outboxVars
<1>5. faults' \in 0..MaxFaults
  BY FaultCounted DEF Inv, TypeOK, CommitMessages, CommitFails
<1> QED BY <1>1, <1>3, <1>4, <1>5, WorkerStepKeeps DEF Inv, TypeOK

LEMMA WorkerRestartInv == ASSUME Inv, WorkerRestart PROVE Inv'
<1>1. /\ wpc' \in {"start", "fetch"} /\ assigned' \in {FALSE, created}
      /\ hand' = NoMessage /\ position' = committed /\ Fault("worker")
      /\ UNCHANGED <<outboxVars, relayVars, created, topic, committed, notified>>
  BY DEF WorkerRestart, kafka
<1>2. NotifiedOnce'
  BY <1>1 DEF Inv, NotifiedOnce, outboxVars
<1>3. faults' \in 0..MaxFaults
  BY <1>1, FaultCounted DEF Inv
<1> QED BY <1>1, <1>2, <1>3, WorkerStepKeeps DEF Inv, TypeOK

LEMMA StutterInv == ASSUME Inv, UNCHANGED vars PROVE Inv'
<1>1. /\ UNCHANGED <<outboxVars, relayVars, created, topic, faults>>
      /\ UNCHANGED <<wpc, assigned, hand, position, committed, notified>>
  BY DEF vars, kafka, workerVars
<1>2. NotifiedOnce'
  BY <1>1 DEF Inv, NotifiedOnce, outboxVars
<1> QED BY <1>1, <1>2, WorkerStepKeeps DEF Inv, TypeOK, WorkerInStep

(* The inductive invariant.                                                *)
LEMMA Invariance == Spec => []Inv
<1>1. ASSUME Inv, [Next]_vars PROVE Inv'
  <2>1. CASE \E i \in Rows : Enqueue(i)
    BY <1>1, <2>1, EnqueueInv
  <2>2. ASSUME NEW r \in Relays, Publish(r) PROVE Inv'
    BY <1>1, <2>2, ServerStartsInv, FetchUnpublishedInv, FetchedInv, WriteInv, BatchEndsInv
       DEF Publish
  <2>3. ASSUME NEW r \in Relays, Interrupt(r) PROVE Inv'
    BY <1>1, <2>3, ServerStartsInv, WriteUnacknowledgedInv, BatchEndsInv DEF Interrupt
  <2>4. CASE Consume
    BY <1>1, <2>4, WorkerStartsInv, FetchMessageInv, HandleInv, CommitInv DEF Consume
  <2>5. CASE HandleFails \/ CommitFails \/ WorkerRestart \/ WorkerExits
    BY <1>1, <2>5, HandleInv, CommitInv, WorkerRestartInv, WorkerStartsInv
  <2>6. CASE Quiet \/ UNCHANGED vars
    BY <1>1, <2>6, StutterInv DEF Quiet
  <2> QED BY <1>1, <2>1, <2>2, <2>3, <2>4, <2>5, <2>6 DEF Next
<1> QED BY <1>1, InitInv, PTL DEF Spec

-----------------------------------------------------------------------------
(* Relays and worker deliver events.                                       *)

(* A message is only in the partition of its ticket.                       *)
AtHome == \A tp \in TopicPartitions : \A i \in Elements(topic[tp]) : Home(i) = tp

(* What the steps do to the rows, the log and the notifications.           *)
Rest == UNCHANGED <<enqueued, published, topic, notified>>
LogStep(r, tp) == Store(r, tp) /\ UNCHANGED <<enqueued, published, notified>>
SettleStep(r) ==
    /\ rpc[r] = "marking" /\ published' = published \cup batch[r]
    /\ UNCHANGED <<enqueued, topic, notified>>
AnnounceStep ==
    wpc = "handle" /\ Insert(Message) /\ UNCHANGED <<enqueued, published, topic>>

LEMMA DeliverySteps ==
    ASSUME [Next]_vars
    PROVE  \/ \E i \in Rows : Enqueue(i)
           \/ \E r \in Relays, tp \in TopicPartitions : LogStep(r, tp)
           \/ \E r \in Relays : SettleStep(r)
           \/ AnnounceStep
           \/ Rest
<1> USE DEF outboxVars, relayVars, kafka, workerVars
<1>1. ASSUME NEW r \in Relays, Publish(r)
      PROVE  \/ \E tp \in TopicPartitions : LogStep(r, tp)
             \/ SettleStep(r) \/ Rest
  <2>1. CASE \E tp \in TopicPartitions : Write(r, tp)
    BY <2>1 DEF Write, LogStep
  <2>2. CASE MarkPublished(r)
    BY <2>2 DEF MarkPublished, SettleStep
  <2> QED BY <1>1, <2>1, <2>2
          DEF Publish, TopicsReady, FetchUnpublished, Fetched, TopicsMissing, WriteError, Rest
<1>2. ASSUME NEW r \in Relays, Interrupt(r)
      PROVE  (\E tp \in TopicPartitions : LogStep(r, tp)) \/ Rest
  <2>1. CASE \E tp \in TopicPartitions : WriteUnacknowledged(r, tp)
    BY <2>1 DEF WriteUnacknowledged, LogStep
  <2> QED BY <1>2, <2>1 DEF Interrupt, StartsWithoutTopics, WriteFails, WriteError, MarkFails,
                            RelayRestart, Rest
<1>3. CASE Consume \/ HandleFails \/ CommitFails \/ WorkerRestart \/ WorkerExits
  BY <1>3 DEF Consume, JoinGroup, FetchMessage, Handle, CommitMessages, HandleFails,
              CommitFails, WorkerRestart, WorkerExits, AnnounceStep, Rest
<1>4. CASE Quiet \/ UNCHANGED vars
  BY <1>4 DEF Quiet, vars, Rest
<1> QED BY <1>1, <1>2, <1>3, <1>4 DEF Next

LEMMA AtHomeAlways == Spec => []AtHome
<1>1. Init => AtHome
  BY DEF Init, AtHome, Elements
<1>2. ASSUME Inv, AtHome, [Next]_vars PROVE AtHome'
  <2>1. ASSUME NEW r \in Relays, NEW tp \in TopicPartitions, Store(r, tp) PROVE AtHome'
    BY <1>2, <2>1, LogGrows DEF AtHome, Home
  <2>2. CASE UNCHANGED topic
    BY <1>2, <2>2 DEF AtHome, Home
  <2> QED BY <1>2, <2>1, <2>2, DeliverySteps
          DEF LogStep, SettleStep, AnnounceStep, Rest, Enqueue, kafka
<1> QED BY <1>1, <1>2, Invariance, PTL DEF Spec

Logged == {i \in Rows : i \in Elements(topic[Home(i)])}

LEMMA DeliveryInit == Init => Delivery!Init
<1> SUFFICES ASSUME Init PROVE Delivery!Init
  OBVIOUS
<1>1. \A i \in Rows : Elements(topic[Home(i)]) = {}
  BY HomeTyped DEF Init, Elements
<1> QED BY <1>1 DEF Init, Delivery!Init

LEMMA DeliveryStep == Inv /\ AtHome /\ [Next]_vars => [Delivery!Next]_Delivery!vars
<1> SUFFICES ASSUME Inv, AtHome, [Next]_vars PROVE Delivery!Next \/ UNCHANGED Delivery!vars
  OBVIOUS
<1>0. UNCHANGED topic => Logged' = Logged
  BY DEF Logged, Home
<1>1. ASSUME NEW i \in Rows, Enqueue(i) PROVE Delivery!Next
  <2>1. Delivery!Happen(i)
    BY <1>0, <1>1 DEF Delivery!Happen, Logged, Enqueue, kafka, workerVars
  <2> QED BY <2>1 DEF Delivery!Next
<1>2. ASSUME NEW r \in Relays, NEW tp \in TopicPartitions, LogStep(r, tp) PROVE Delivery!Next
  <2> DEFINE new == {i \in batch[r] : Home(i) = tp}
  <2>1. Store(r, tp) /\ UNCHANGED <<enqueued, published, notified>>
    BY <1>2 DEF LogStep
  <2>2. new \subseteq enqueued /\ new \subseteq Rows
    BY DEF Inv, TypeOK, RelayInStep
  <2>3. Logged' = Logged \cup new
    <3>1. /\ \A q \in TopicPartitions \ {tp} : Elements(topic'[q]) = Elements(topic[q])
          /\ Elements(topic'[tp]) = Elements(topic[tp]) \cup new
      BY <2>1, LogGrows
    <3>2. ASSUME NEW i \in Rows
          PROVE  i \in Elements(topic'[Home(i)]) <=> i \in Elements(topic[Home(i)]) \/ i \in new
      BY <3>1, HomeTyped
    <3>3. Logged' = {i \in Rows : i \in Elements(topic'[Home(i)])}
      BY DEF Logged, Home
    <3> HIDE DEF new
    <3> QED BY <2>2, <3>2, <3>3 DEF Logged
  <2>4. PICK events \in SUBSET Rows : events = new
    BY <2>2
  <2> HIDE DEF new
  <2>5. Delivery!Log(events)
    BY <2>1, <2>2, <2>3, <2>4 DEF Delivery!Log, Logged
  <2> QED BY <2>5 DEF Delivery!Next
<1>3. ASSUME NEW r \in Relays, SettleStep(r) PROVE Delivery!Next
  <2>1. batch[r] \subseteq Logged /\ batch[r] \subseteq Rows
    BY <1>3 DEF SettleStep, Inv, TypeOK, RelayInStep, InLog, Logged
  <2>2. Delivery!Settle(batch[r])
    BY <1>0, <1>3, <2>1 DEF Delivery!Settle, SettleStep, Logged
  <2> QED BY <2>1, <2>2 DEF Delivery!Next
<1>4. ASSUME AnnounceStep PROVE Delivery!Next \/ UNCHANGED Delivery!vars
  <2>1. /\ UNCHANGED <<enqueued, published, topic>> /\ Insert(Message) /\ wpc = "handle"
        /\ Logged' = Logged
    BY <1>0, <1>4 DEF AnnounceStep
  <2>2. CASE Message \in Elements(notified)
    BY <2>1, <2>2 DEF Insert, Delivery!vars, Logged
  <2>3. CASE Message \notin Elements(notified)
    <3>1. Message \in Rows /\ hand.part \in TopicPartitions
          /\ hand.offset \in 1..Len(topic[hand.part])
      BY <2>1, MessageIsEnqueued
    <3>2. topic[hand.part] \in Seq(Rows)
      BY <3>1 DEF Inv, TypeOK
    <3>3. Message \in Elements(topic[hand.part])
      BY <3>1, <3>2, ElementsTyped DEF Message
    <3>4. Message \in Logged
      BY <3>1, <3>3 DEF AtHome, Logged
    <3>5. \A k \in DOMAIN notified : notified[k] # Message
      BY <2>3 DEF Elements
    <3>6. Delivery!Announce(Message)
      BY <2>1, <2>3, <3>4, <3>5 DEF Insert, Delivery!Announce, Logged
    <3> QED BY <3>1, <3>6 DEF Delivery!Next
  <2> QED BY <2>2, <2>3
<1>5. CASE Rest
  BY <1>0, <1>5 DEF Rest, Delivery!vars, Logged
<1> QED BY <1>1, <1>2, <1>3, <1>4, <1>5, DeliverySteps

-----------------------------------------------------------------------------
(* While no INSERT fails, the worker leaves nothing behind.                *)

Done(tp, k) == topic[tp][k] \in Elements(notified)
AtHand(tp, k) == wpc = "handle" /\ hand.part = tp /\ hand.offset = k

(* All that was fetched is notified, but for the message at hand, which is *)
(* the last of its partition and not committed yet.                        *)
Thorough ==
    /\ NothingSkipped
    /\ \A tp \in TopicPartitions :
         /\ committed[tp] <= position[tp]
         /\ \A k \in 1..position[tp] : Done(tp, k) \/ AtHand(tp, k)
    /\ wpc \in {"handle", "commit"} => hand.offset = position[hand.part]

(* The offsets and the log, as the steps below need them.                  *)
LEMMA Offsets ==
    ASSUME Inv
    PROVE  /\ position \in [TopicPartitions -> Nat] /\ committed \in [TopicPartitions -> Nat]
           /\ topic \in [TopicPartitions -> Seq(Rows)]
           /\ \A tp \in TopicPartitions : position[tp] <= Len(topic[tp]) /\ Len(topic[tp]) \in Nat
           /\ notified \in Seq(Rows)
  BY DEF Inv, TypeOK

(* What the log holds stays where it is.                                   *)
LEMMA LogIsAppended ==
    ASSUME Inv, NEW r \in Relays, NEW q \in TopicPartitions, Store(r, q),
           NEW tp \in TopicPartitions, NEW k \in 1..position[tp]
    PROVE  topic'[tp][k] = topic[tp][k]
<1>1. PICK s \in Messages(r, q) : topic' = [topic EXCEPT ![q] = @ \o s]
  BY DEF Store
<1>2. s \in Seq(Rows)
  BY MessagesAreRows DEF Inv, RelayInStep
<1>3. topic[q] \in Seq(Rows) /\ topic \in [TopicPartitions -> Seq(Rows)]
  BY Offsets
<1>4. CASE tp = q
  <2>1. topic'[tp] = topic[tp] \o s
    BY <1>1, <1>3, <1>4
  <2>2. k \in 1..Len(topic[tp])
    BY Offsets
  <2> QED BY <1>2, <1>3, <1>4, <2>1, <2>2
<1>5. CASE tp # q
  BY <1>1, <1>3, <1>5
<1> QED BY <1>4, <1>5

(* A step that leaves the worker alone.                                    *)
LEMMA ThoroughOthers ==
    ASSUME Inv, Thorough, UNCHANGED workerVars,
           UNCHANGED topic \/ \E r \in Relays, q \in TopicPartitions : Store(r, q)
    PROVE  Thorough'
<1>1. UNCHANGED <<wpc, hand, position, committed, notified>>
  BY DEF workerVars
<1>2. \A tp \in TopicPartitions : \A k \in 1..position[tp] : topic'[tp][k] = topic[tp][k]
  BY LogIsAppended
<1>3. \A tp \in TopicPartitions : \A k \in 1..committed[tp] : k \in 1..position[tp]
  BY Offsets DEF Thorough
<1> QED BY <1>1, <1>2, <1>3 DEF Thorough, Done, AtHand, NothingSkipped

LEMMA ThoroughFetch ==
    ASSUME Inv, Thorough, NEW tp \in TopicPartitions, FetchMessage(tp) PROVE Thorough'
<1>1. /\ position[tp] < Len(topic[tp]) /\ position' = [position EXCEPT ![tp] = position[tp] + 1]
      /\ hand' = [part |-> tp, offset |-> position[tp] + 1]
      /\ wpc = "fetch" /\ wpc' = "handle" /\ UNCHANGED <<topic, committed, notified>>
  BY DEF FetchMessage, kafka
<1>2. \A q \in TopicPartitions : committed[q] \in Nat /\ position[q] \in Nat
  BY Offsets
<1>3. ASSUME NEW q \in TopicPartitions
      PROVE  /\ committed'[q] <= position'[q]
             /\ \A k \in 1..position'[q] : Done(q, k)' \/ AtHand(q, k)'
  <2>1. \A k \in 1..position[q] : Done(q, k)'
    BY <1>1 DEF Thorough, Done, AtHand
  <2>2. CASE q = tp
    <3>1. position'[q] = position[q] + 1
      BY <1>1, <2>2, Offsets
    <3>2. ASSUME NEW k \in 1..position'[q] PROVE Done(q, k)' \/ AtHand(q, k)'
      <4>1. CASE k \in 1..position[q]
        BY <2>1, <4>1
      <4>2. CASE k = position[q] + 1
        BY <1>1, <2>2, <4>2 DEF AtHand
      <4> QED BY <1>2, <3>1, <4>1, <4>2
    <3>3. committed'[q] <= position'[q]
      <4>1. committed[q] <= position[q] /\ committed'[q] = committed[q]
        BY <1>1 DEF Thorough
      <4> QED BY <1>2, <3>1, <4>1
    <3> QED BY <3>2, <3>3
  <2>3. CASE q # tp
    <3>1. position'[q] = position[q]
      BY <1>1, <2>3, Offsets
    <3> QED BY <1>1, <2>1, <3>1 DEF Thorough
  <2> QED BY <2>2, <2>3
<1>4. hand'.offset = position'[hand'.part]
  BY <1>1, Offsets
<1> QED BY <1>1, <1>3, <1>4 DEF Thorough, NothingSkipped

LEMMA ThoroughHandle == ASSUME Inv, Thorough, Handle PROVE Thorough'
<1>1. /\ wpc = "handle" /\ wpc' = "commit" /\ Insert(Message)
      /\ UNCHANGED <<topic, hand, position, committed>>
  BY DEF Handle, kafka
<1>2. Message \in Rows /\ Message = topic[hand.part][hand.offset]
  BY <1>1, MessageIsEnqueued DEF Message
<1>3. Elements(notified') = Elements(notified) \cup {Message}
  <2>1. CASE Message \in Elements(notified)
    BY <1>1, <2>1 DEF Insert
  <2>2. CASE Message \notin Elements(notified)
    BY <1>1, <1>2, <2>2, Offsets, ElementsOfAppend DEF Insert
  <2> QED BY <2>1, <2>2
<1>4. ASSUME NEW q \in TopicPartitions, NEW k \in 1..position[q] PROVE Done(q, k)'
  <2>1. Done(q, k) \/ AtHand(q, k)
    BY <1>4 DEF Thorough
  <2> QED BY <1>1, <1>2, <1>3, <2>1 DEF Done, AtHand
<1>5. NothingSkipped'
  BY <1>1, <1>3 DEF Thorough, NothingSkipped
<1> QED BY <1>1, <1>4, <1>5 DEF Thorough

LEMMA ThoroughCommit ==
    ASSUME Inv, Thorough, CommitMessages \/ CommitFails PROVE Thorough'
<1>1. /\ wpc = "commit" /\ wpc' = "fetch" /\ UNCHANGED <<topic, hand, position, notified>>
      /\ committed' = [committed EXCEPT ![hand.part] = hand.offset] \/ UNCHANGED committed
  BY DEF CommitMessages, CommitFails, kafka
<1>2. hand.part \in TopicPartitions /\ hand.offset = position[hand.part]
  BY <1>1, MessageIsEnqueued DEF Thorough
<1>3. \A q \in TopicPartitions : committed'[q] \in {committed[q], position[q]}
  BY <1>1, <1>2, Offsets
<1>4. ASSUME NEW q \in TopicPartitions
      PROVE  committed'[q] <= position[q] /\ committed'[q] \in Nat /\ position[q] \in Nat
  <2>1. committed[q] \in Nat /\ position[q] \in Nat /\ committed[q] <= position[q]
    BY Offsets DEF Thorough
  <2>2. committed'[q] = committed[q] \/ committed'[q] = position[q]
    BY <1>3
  <2>3. CASE committed'[q] = committed[q]
    BY <2>1, <2>3
  <2>4. CASE committed'[q] = position[q]
    BY <2>1, <2>4
  <2> QED BY <2>2, <2>3, <2>4
<1>5. \A q \in TopicPartitions : \A k \in 1..position[q] : Done(q, k)
  BY <1>1 DEF Thorough, AtHand
<1>6. ASSUME NEW q \in TopicPartitions, NEW k \in 1..committed'[q] PROVE k \in 1..position[q]
  BY <1>4
<1>7. NothingSkipped'
  BY <1>1, <1>5, <1>6 DEF NothingSkipped, Done
<1> QED BY <1>1, <1>4, <1>5, <1>7 DEF Thorough, Done

LEMMA ThoroughStart ==
    ASSUME Inv, Thorough, JoinGroup \/ WorkerExits \/ WorkerRestart PROVE Thorough'
<1>1. /\ wpc' \in {"start", "fetch", "exited"} /\ UNCHANGED <<topic, committed, notified>>
      /\ \/ position' = committed
         \/ position' = position /\ wpc = "start"
  BY DEF JoinGroup, WorkerExits, WorkerRestart, kafka
<1>2. ASSUME NEW q \in TopicPartitions
      PROVE  committed[q] <= position'[q] /\ \A k \in 1..position'[q] : Done(q, k)
  <2>1. CASE position' = committed
    BY <2>1, Offsets DEF Thorough, NothingSkipped, Done
  <2>2. CASE position' = position /\ wpc = "start"
    BY <2>2 DEF Thorough, AtHand
  <2> QED BY <1>1, <2>1, <2>2
<1> QED BY <1>1, <1>2 DEF Thorough, NothingSkipped, Done

LEMMA ThoroughAlways ==
    ASSUME "handle" \notin Faults PROVE Spec => []Thorough
<1>1. Init => Thorough
  BY DEF Init, Thorough, NothingSkipped
<1>2. ASSUME Inv, Thorough, [Next]_vars PROVE Thorough'
  <2>1. CASE \E i \in Rows : Enqueue(i)
    BY <1>2, <2>1, ThoroughOthers DEF Enqueue, kafka
  <2>2. ASSUME NEW r \in Relays, Publish(r) PROVE Thorough'
    BY <1>2, <2>2, ThoroughOthers
       DEF Publish, TopicsReady, FetchUnpublished, Fetched, Write, TopicsMissing, WriteError,
           MarkPublished, kafka
  <2>3. ASSUME NEW r \in Relays, Interrupt(r) PROVE Thorough'
    BY <1>2, <2>3, ThoroughOthers
       DEF Interrupt, StartsWithoutTopics, WriteUnacknowledged, WriteFails, WriteError,
           MarkFails, RelayRestart, kafka
  <2>4. CASE Consume
    BY <1>2, <2>4, ThoroughStart, ThoroughFetch, ThoroughHandle, ThoroughCommit DEF Consume
  <2>5. CASE CommitFails \/ WorkerRestart \/ WorkerExits
    BY <1>2, <2>5, ThoroughCommit, ThoroughStart
  <2>6. CASE Quiet \/ UNCHANGED vars
    BY <1>2, <2>6, ThoroughOthers DEF Quiet, vars, kafka
  <2>7. ~HandleFails
    BY DEF HandleFails, Fault
  <2> QED BY <1>2, <2>1, <2>2, <2>3, <2>4, <2>5, <2>6, <2>7 DEF Next
<1> QED BY <1>1, <1>2, Invariance, PTL DEF Spec

-----------------------------------------------------------------------------
(* With a single relay and no INSERT that fails, order is kept all the way *)
(* from the transactions to the notifications: what comes first in the     *)
(* outbox comes first in every batch, in the log, and so at the worker.    *)

Precedes(i, j) == i < j /\ TicketOf[i] = TicketOf[j] /\ TopicOf[i] = TopicOf[j]
Before(s, k, i) == \E m \in 1..(k - 1) : s[m] = i

EnqueuedInOrder == \A i \in Rows, j \in enqueued : Precedes(i, j) => i \in enqueued
BatchClosed(r) ==
    \A i \in Rows, j \in batch[r] : Precedes(i, j) => i \in batch[r] \cup published
LogInOrder ==
    \A tp \in TopicPartitions : \A k \in 1..Len(topic[tp]) : \A i \in Rows :
        Precedes(i, topic[tp][k]) => Before(topic[tp], k, i)
NotifiedInOrder ==
    \A k \in 1..Len(notified) : \A i \in Rows :
        Precedes(i, notified[k]) => Before(notified, k, i)

Ordered == /\ EnqueuedInOrder /\ LogInOrder /\ NotifiedInOrder
           /\ \A r \in Relays : BatchClosed(r)

(* A row is written to the partition of every row that it precedes.        *)
LEMMA SamePartition ==
    ASSUME NEW i \in Rows, NEW j \in Rows, Precedes(i, j) PROVE Home(i) = Home(j)
  BY DEF Precedes, Home

(* A batch written after what was published extends the order of the log.  *)
LEMMA StoreInOrder ==
    ASSUME Inv, Ordered, NEW r \in Relays, NEW tp \in TopicPartitions, Store(r, tp)
    PROVE  LogInOrder'
<1>1. PICK s \in Messages(r, tp) : topic' = [topic EXCEPT ![tp] = @ \o s]
  BY DEF Store
<1>2. s \in Seq(Rows) /\ Elements(s) = {i \in batch[r] : Home(i) = tp}
  BY MessagesAreRows DEF Inv, RelayInStep
<1>3. \A x, y \in DOMAIN s : x < y => s[x] < s[y]
  BY DEF Messages
<1>4. PICK log : log = topic[tp]
  OBVIOUS
<1>5. log \in Seq(Rows) /\ topic'[tp] = log \o s
  BY <1>1, <1>4, Offsets
<1>6. /\ Len(log \o s) = Len(log) + Len(s) /\ Len(log) \in Nat /\ Len(s) \in Nat
      /\ \A k \in 1..Len(log) : (log \o s)[k] = log[k]
      /\ \A y \in 1..Len(s) : Len(log) + y \in 1..(Len(log) + Len(s))
                              /\ (log \o s)[Len(log) + y] = s[y]
      /\ DOMAIN s = 1..Len(s)
  BY <1>2, <1>5
<1>7. ASSUME NEW k \in 1..Len(log), NEW i \in Rows, Precedes(i, (log \o s)[k])
      PROVE  Before(log \o s, k, i)
  <2>1. Precedes(i, log[k])
    BY <1>6, <1>7
  <2>2. PICK m \in 1..(k - 1) : log[m] = i
    BY <1>4, <2>1 DEF Ordered, LogInOrder, Before
  <2>3. m \in 1..Len(log)
    BY <1>6
  <2> QED BY <1>6, <2>2, <2>3 DEF Before
<1>8. ASSUME NEW x \in 1..Len(s), NEW i \in Rows, Precedes(i, s[x])
      PROVE  Before(log \o s, Len(log) + x, i)
  <2>1. s[x] \in batch[r] /\ Home(s[x]) = tp /\ s[x] \in Rows
    BY <1>2, <1>6 DEF Elements
  <2>2. Home(i) = tp
    BY <1>8, <2>1, SamePartition
  <2>3. CASE i \in published
    <3>1. i \in Elements(log)
      BY <1>4, <2>2, <2>3 DEF Inv, PublishedIsInLog
    <3>2. PICK m \in 1..Len(log) : log[m] = i
      BY <1>5, <3>1 DEF Elements
    <3>3. m \in 1..(Len(log) + x - 1)
      BY <1>6
    <3> QED BY <1>6, <3>2, <3>3 DEF Before
  <2>4. CASE i \in batch[r]
    <3>1. i \in Elements(s)
      BY <1>2, <2>2, <2>4
    <3>2. PICK y \in 1..Len(s) : s[y] = i
      BY <1>6, <3>1 DEF Elements
    <3>3. i < s[x] /\ i \in Nat /\ s[x] \in Nat
      BY <1>8, <2>1, RelayAssumption DEF Precedes
    <3>4. ~(x < y)
      BY <1>3, <1>6, <3>2, <3>3
    <3>5. x # y
      BY <3>2, <3>3
    <3>6. Len(log) + y \in 1..(Len(log) + x - 1)
      BY <1>6, <3>4, <3>5
    <3> QED BY <1>6, <3>2, <3>6 DEF Before
  <2> QED BY <1>8, <2>1, <2>3, <2>4 DEF Ordered, BatchClosed
<1>9. ASSUME NEW k \in 1..Len(log \o s), NEW i \in Rows, Precedes(i, (log \o s)[k])
      PROVE  Before(log \o s, k, i)
  <2>1. CASE k <= Len(log)
    <3>1. k \in 1..Len(log)
      BY <1>6, <2>1
    <3> QED BY <1>7, <1>9, <3>1
  <2>2. CASE k > Len(log)
    <3>1. PICK x \in 1..Len(s) : k = Len(log) + x
      <4>1. k - Len(log) \in 1..Len(s) /\ k = Len(log) + (k - Len(log))
        BY <1>6, <2>2
      <4> QED BY <4>1
    <3>2. Precedes(i, s[x])
      BY <1>6, <1>9, <3>1
    <3> QED BY <1>8, <3>1, <3>2
  <2> QED BY <1>6, <2>1, <2>2
<1>10. ASSUME NEW q \in TopicPartitions, NEW k \in 1..Len(topic'[q]), NEW i \in Rows,
              Precedes(i, topic'[q][k])
       PROVE  Before(topic'[q], k, i)
  <2>1. CASE q = tp
    BY <1>5, <1>9, <1>10, <2>1
  <2>2. CASE q # tp
    <3>1. topic'[q] = topic[q]
      BY <1>1, <2>2, Offsets
    <3> QED BY <1>10, <3>1 DEF Ordered, LogInOrder
  <2> QED BY <2>1, <2>2
<1> QED BY <1>10 DEF LogInOrder, Precedes, Before

(* A fetch leaves no unpublished row behind that precedes one it takes.    *)
LEMMA FetchClosed ==
    ASSUME \A r, q \in Relays : r = q, Inv, Ordered, NEW r \in Relays, FetchUnpublished(r)
    PROVE  BatchClosed(r)'
<1>1. PICK B \in FirstRows(Unpublished(r)) : batch' = [batch EXCEPT ![r] = B]
  BY DEF FetchUnpublished
<1>2. batch'[r] = B /\ published' = published
  BY <1>1 DEF FetchUnpublished, outboxVars, Inv, TypeOK
<1>3. Unpublished(r) = enqueued \ published
  BY DEF Unpublished, LockedByOthers
<1>4. B \subseteq enqueued \ published /\ \A i \in B, j \in (enqueued \ published) \ B : i < j
  BY <1>3 DEF FirstRows
<1>5. ASSUME NEW i \in Rows, NEW j \in B, Precedes(i, j) PROVE i \in B \cup published
  <2>1. i \in enqueued /\ j \in Rows
    BY <1>4, <1>5 DEF Ordered, EnqueuedInOrder, Inv, TypeOK
  <2>2. i < j /\ i \in Nat /\ j \in Nat
    BY <1>5, <2>1, RelayAssumption DEF Precedes
  <2>3. ~(j < i)
    BY <2>2
  <2> QED BY <1>4, <2>1, <2>3
<1> QED BY <1>2, <1>5 DEF BatchClosed, Precedes

(* The step of a relay or of a transaction that leaves batches alone or    *)
(* ends them.                                                              *)
LEMMA OrderedOthers ==
    ASSUME Inv, Ordered, UNCHANGED notified,
           UNCHANGED enqueued, published \subseteq published',
           \A r \in Relays : batch'[r] = batch[r] \/ batch'[r] = {},
           UNCHANGED topic \/ \E r \in Relays, q \in TopicPartitions : Store(r, q)
    PROVE  Ordered'
<1>1. EnqueuedInOrder' /\ NotifiedInOrder'
  BY DEF Ordered, EnqueuedInOrder, NotifiedInOrder, Precedes, Before
<1>2. LogInOrder'
  <2>1. CASE UNCHANGED topic
    BY <2>1 DEF Ordered, LogInOrder, Precedes, Before
  <2> QED BY <2>1, StoreInOrder
<1>3. ASSUME NEW r \in Relays PROVE BatchClosed(r)'
  BY DEF Ordered, BatchClosed, Precedes
<1> QED BY <1>1, <1>2, <1>3 DEF Ordered

LEMMA OrderedEnqueue == ASSUME Inv, Ordered, NEW i \in Rows, Enqueue(i) PROVE Ordered'
<1>1. /\ enqueued' = enqueued \cup {i} /\ UNCHANGED <<published, batch, topic, notified>>
      /\ \A j \in Rows : j < i /\ TicketOf[j] = TicketOf[i] => j \in enqueued
  BY DEF Enqueue, relayVars, kafka, workerVars
<1>2. EnqueuedInOrder'
  BY <1>1 DEF Ordered, EnqueuedInOrder, Precedes
<1>3. LogInOrder' /\ NotifiedInOrder'
  BY <1>1 DEF Ordered, LogInOrder, NotifiedInOrder, Precedes, Before
<1>4. \A r \in Relays : BatchClosed(r)'
  BY <1>1 DEF Ordered, BatchClosed, Precedes
<1> QED BY <1>2, <1>3, <1>4 DEF Ordered

(* What is to be notified first was handled already.                       *)
LEMMA OrderedHandle == ASSUME Inv, Thorough, Ordered, Handle PROVE Ordered'
<1>1. /\ wpc = "handle" /\ Insert(Message)
      /\ UNCHANGED <<enqueued, published, batch, topic>>
  BY DEF Handle, outboxVars, relayVars, kafka
<1>2. EnqueuedInOrder' /\ LogInOrder' /\ \A r \in Relays : BatchClosed(r)'
  BY <1>1 DEF Ordered, EnqueuedInOrder, LogInOrder, BatchClosed, Precedes, Before
<1>3. NotifiedInOrder'
  <2>1. CASE notified' = notified
    BY <2>1 DEF Ordered, NotifiedInOrder, Precedes, Before
  <2>2. CASE notified' # notified
    <3>1. PICK msg \in Rows : msg = Message
      BY <1>1, MessageIsEnqueued
    <3>2. notified' = Append(notified, msg)
      BY <1>1, <2>2, <3>1 DEF Insert
    <3>3. PICK old : old = notified /\ old \in Seq(Rows)
      BY Offsets
    <3>4. /\ Len(Append(old, msg)) = Len(old) + 1 /\ Len(old) \in Nat
          /\ Append(old, msg)[Len(old) + 1] = msg
          /\ \A k \in 1..Len(old) : Append(old, msg)[k] = old[k]
      BY <3>1, <3>3
    <3>5. ASSUME NEW i \in Rows, Precedes(i, msg) PROVE \E m \in 1..Len(old) : old[m] = i
      <4>1. /\ hand.part \in TopicPartitions /\ hand.offset \in 1..Len(topic[hand.part])
            /\ hand.offset = position[hand.part]
            /\ msg = topic[hand.part][hand.offset]
        BY <1>1, <3>1, MessageIsEnqueued DEF Message, Thorough, Inv, TypeOK, WorkerInStep
      <4>2. PICK m \in 1..(hand.offset - 1) : topic[hand.part][m] = i
        BY <3>5, <4>1 DEF Ordered, LogInOrder, Before
      <4>3. m \in 1..position[hand.part] /\ m # hand.offset
        BY <4>1, <4>2, Offsets
      <4>4. i \in Elements(notified)
        BY <4>1, <4>2, <4>3 DEF Thorough, Done, AtHand
      <4> QED BY <3>3, <4>4 DEF Elements
    <3>6. ASSUME NEW k \in 1..(Len(old) + 1), NEW i \in Rows, Precedes(i, Append(old, msg)[k])
          PROVE  Before(Append(old, msg), k, i)
      <4>1. CASE k = Len(old) + 1
        <5>1. PICK m \in 1..Len(old) : old[m] = i
          BY <3>4, <3>5, <3>6, <4>1
        <5> QED BY <3>4, <4>1, <5>1 DEF Before
      <4>2. CASE k \in 1..Len(old)
        <5>1. PICK m \in 1..(k - 1) : old[m] = i
          BY <3>3, <3>4, <3>6, <4>2 DEF Ordered, NotifiedInOrder, Before
        <5>2. m \in 1..Len(old)
          BY <3>4, <4>2
        <5> QED BY <3>4, <5>1, <5>2 DEF Before
      <4> QED BY <3>4, <4>1, <4>2
    <3>7. notified' = Append(old, msg) /\ Len(notified') = Len(old) + 1
      BY <3>2, <3>3, <3>4
    <3> QED BY <3>6, <3>7 DEF NotifiedInOrder, Precedes, Before
  <2> QED BY <2>1, <2>2
<1> QED BY <1>2, <1>3 DEF Ordered

LEMMA OrderedAlways ==
    ASSUME \A r, q \in Relays : r = q, "handle" \notin Faults
    PROVE  Spec => []Ordered
<1>1. Init => Ordered
  BY DEF Init, Ordered, EnqueuedInOrder, LogInOrder, NotifiedInOrder, BatchClosed
<1>2. ASSUME Inv, Thorough, Ordered, [Next]_vars PROVE Ordered'
  <2>1. ASSUME NEW i \in Rows, Enqueue(i) PROVE Ordered'
    BY <1>2, <2>1, OrderedEnqueue
  <2>2. ASSUME NEW r \in Relays, FetchUnpublished(r) PROVE Ordered'
    <3>1. BatchClosed(r)'
      BY <1>2, <2>2, FetchClosed
    <3>2. \A q \in Relays : BatchClosed(q)'
      BY <3>1
    <3>3. UNCHANGED <<enqueued, topic, notified>>
      BY <2>2 DEF FetchUnpublished, outboxVars, kafka, workerVars
    <3> QED BY <1>2, <3>2, <3>3
            DEF Ordered, EnqueuedInOrder, LogInOrder, NotifiedInOrder, Precedes, Before
  <2>3. ASSUME NEW r \in Relays, Publish(r), ~FetchUnpublished(r) PROVE Ordered'
    <3>1. /\ UNCHANGED <<enqueued, notified>> /\ published \subseteq published'
          /\ UNCHANGED topic \/ \E tp \in TopicPartitions : Store(r, tp)
          /\ UNCHANGED batch \/ batch' = [batch EXCEPT ![r] = {}]
      BY <2>3 DEF Publish, TopicsReady, Fetched, Write, TopicsMissing, WriteError,
                  MarkPublished, Reset, Forget, outboxVars, kafka, workerVars
    <3>2. \A q \in Relays : batch'[q] = batch[q] \/ batch'[q] = {}
      BY <1>2, <3>1 DEF Inv, TypeOK
    <3> QED BY <1>2, <3>1, <3>2, OrderedOthers
  <2>4. ASSUME NEW r \in Relays, Interrupt(r) PROVE Ordered'
    <3>1. /\ UNCHANGED <<enqueued, notified, published>>
          /\ UNCHANGED topic \/ \E tp \in TopicPartitions : Store(r, tp)
          /\ UNCHANGED batch \/ batch' = [batch EXCEPT ![r] = {}]
      BY <2>4 DEF Interrupt, StartsWithoutTopics, WriteUnacknowledged, WriteFails,
                  WriteError, MarkFails, RelayRestart, Reset, Forget, outboxVars, relayVars, kafka, workerVars
    <3>2. \A q \in Relays : batch'[q] = batch[q] \/ batch'[q] = {}
      BY <1>2, <3>1 DEF Inv, TypeOK
    <3> QED BY <1>2, <3>1, <3>2, OrderedOthers
  <2>5. CASE Handle
    BY <1>2, <2>5, OrderedHandle
  <2>6. CASE \/ JoinGroup \/ CommitMessages \/ CommitFails \/ WorkerRestart \/ WorkerExits
             \/ Quiet \/ UNCHANGED vars \/ \E tp \in TopicPartitions : FetchMessage(tp)
    <3>1. UNCHANGED <<enqueued, notified, published, topic, batch>>
      BY <2>6 DEF JoinGroup, CommitMessages, CommitFails, WorkerRestart, WorkerExits, Quiet,
                  FetchMessage, vars, outboxVars, relayVars, kafka, workerVars
    <3> QED BY <1>2, <3>1, OrderedOthers
  <2>7. ~HandleFails
    BY DEF HandleFails, Fault
  <2> QED BY <1>2, <2>1, <2>2, <2>3, <2>4, <2>5, <2>6, <2>7 DEF Next, Consume
<1> QED BY <1>1, <1>2, Invariance, ThoroughAlways, PTL DEF Spec

-----------------------------------------------------------------------------
(* Theorems.                                                               *)

\* Relays and worker keep to their types: the worker's offsets never leave the
\* log, and a relay holds rows exactly while it publishes a batch.
THEOREM RelayTyping == Spec => []TypeOK
<1>1. Inv => TypeOK
  BY DEF Inv
<1> QED BY <1>1, Invariance, PTL

\* publishBatch never marks a row that Kafka does not hold, for any number of
\* relays that fail, die or fetch the same rows.
THEOREM NothingIsLost == Spec => []PublishedIsInLog
<1>1. Inv => PublishedIsInLog
  BY DEF Inv
<1> QED BY <1>1, Invariance, PTL

\* The unique message id makes redelivery harmless: one notification at most
\* for an event, and none for a transaction that did not commit.
THEOREM RedeliveryIsHarmless == Spec => []NotifiedOnce
<1>1. Inv => NotifiedOnce
  BY DEF Inv
<1> QED BY <1>1, Invariance, PTL

\* Any number of relays and one worker, whatever fails, deliver events: what the log
\* holds is never lost sight of, and no announcement is made twice or taken back.
THEOREM RelaysDeliverEvents == Spec => DeliversEvents
  BY DeliveryInit, DeliveryStep, AtHomeAlways, Invariance, PTL
  DEF Spec, DeliversEvents, Delivery!Spec

\* As long as no INSERT fails, a committed offset has no message before it that was
\* not notified, however often relays and worker die and start again.
THEOREM WorkerSkipsNothing ==
    ASSUME "handle" \notin Faults PROVE Spec => []NothingSkipped
<1>1. Thorough => NothingSkipped
  BY DEF Thorough
<1> QED BY <1>1, ThoroughAlways, PTL

\* One relay and no INSERT that fails: the notifications about one ticket within one
\* topic come in the order of its transactions, whatever is written or read twice.
THEOREM NotificationsKeepOrder ==
    ASSUME \A r, q \in Relays : r = q, "handle" \notin Faults
    PROVE  Spec => []InOrderWithinTopic
<1>1. Inv /\ Ordered => InOrderWithinTopic
  <2> SUFFICES ASSUME Inv, Ordered, NEW j \in DOMAIN notified, NEW k \in DOMAIN notified,
                      Home(notified[j]) = Home(notified[k]),
                      TicketOf[notified[j]] = TicketOf[notified[k]], j < k
               PROVE  notified[j] < notified[k]
    BY DEF InOrderWithinTopic
  <2>1. /\ notified[j] \in Rows /\ notified[k] \in Rows
        /\ j \in 1..Len(notified) /\ k \in 1..Len(notified)
    BY Offsets
  <2>2. notified[j] \in Nat /\ notified[k] \in Nat /\ notified[j] # notified[k]
    <3>1. j # k
      BY <2>1
    <3>2. notified[j] # notified[k]
      BY <3>1 DEF Inv, NotifiedOnce
    <3> QED BY <2>1, <3>2, RelayAssumption
  <2>3. TopicOf[notified[j]] = TopicOf[notified[k]]
    BY DEF Home
  <2>4. ~(notified[k] < notified[j])
    <3> SUFFICES ASSUME notified[k] < notified[j] PROVE FALSE
      OBVIOUS
    <3>1. Precedes(notified[k], notified[j])
      BY <2>3 DEF Precedes
    <3>2. PICK m \in 1..(j - 1) : notified[m] = notified[k]
      BY <2>1, <3>1 DEF Ordered, NotifiedInOrder, Before
    <3>3. m \in DOMAIN notified /\ m # k
      BY <2>1, Offsets
    <3> QED BY <3>2, <3>3 DEF Inv, NotifiedOnce
  <2> QED BY <2>2, <2>4
<1> QED BY <1>1, Invariance, OrderedAlways, PTL
=============================================================================
