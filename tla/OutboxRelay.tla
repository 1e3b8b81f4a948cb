---------------------------- MODULE OutboxRelay ----------------------------
(***************************************************************************)
(* How an outbox row becomes a notification: the relays of the ticket      *)
(* service (internal/outbox/relay.go), the Kafka topics, and the           *)
(* notification worker (internal/outbox/consumer.go).  A relay fetches a   *)
(* batch, produces it and marks it in three separate steps, so that it may *)
(* fail or die between any two; the worker fetches, handles and commits.   *)
(***************************************************************************)
EXTENDS Integers, Sequences, FiniteSets

CONSTANTS
    Rows,       \* ids of the outbox rows that are ever written
    Tickets,    \* aggregate ids
    Topics,     \* one per event type
    Partitions, \* partitions of each topic
    TicketOf,   \* TicketOf[i]: aggregate_id of row i
    TopicOf,    \* TopicOf[i]: topic of row i
    HashOf,     \* HashOf[t]: the partition the hash balancer gives ticket t
    Relays,     \* relays, one in each replica of the ticket service
    BatchSize,  \* rows that a relay fetches at a time, at most
    Faults,     \* the kinds of failure that may happen
    MaxFaults   \* how many failures happen in all: bounds the run

FaultKinds ==
    { "topics",   \* the server's WaitForTopics gives up
      "exit",     \* the worker's does, and it exits
      "broker",   \* a write to Kafka fails
      "ack",      \* a write to Kafka is stored and reported as failed
      "mark",     \* the transaction that records the outcome fails
      "relay",    \* a relay dies
      "handle",   \* the worker's INSERT fails
      "offset",   \* the worker's offset commit fails
      "worker" }  \* the worker dies, or its partitions are assigned anew

ASSUME RelayAssumption ==
    /\ Rows \subseteq Nat
    /\ TicketOf \in [Rows -> Tickets]
    /\ TopicOf \in [Rows -> Topics]
    /\ HashOf \in [Tickets -> Partitions]
    /\ BatchSize \in Nat \ {0}
    /\ Faults \subseteq FaultKinds
    /\ MaxFaults \in Nat

VARIABLES
    enqueued,  \* rows whose transaction has committed
    published, \* rows with published_at set
    failed,    \* rows with a failure recorded: attempts > 0, last_error set
    rpc,       \* where each relay stands in publishBatch
    batch,     \* batch[r]: the rows relay r fetched
    unsent,    \* unsent[r]: the topic partitions relay r has yet to write
    created,   \* Kafka has the topics
    topic,     \* topic[tp]: the row ids that partition tp stores, in order
    wpc,       \* where the worker stands: before its loop, in it, or gone
    assigned,  \* the worker's group was assigned the partitions
    hand,      \* the message the worker holds
    position,  \* position[tp]: the last offset the worker has fetched
    committed, \* committed[tp]: the group's committed offset
    notified,  \* the notifications rows, in the order of insertion
    faults     \* failures so far

outboxVars == <<enqueued, published, failed>>
relayVars == <<rpc, batch, unsent>>
kafka == <<created, topic>>
workerVars == <<wpc, assigned, hand, position, committed, notified>>
vars == <<outboxVars, relayVars, kafka, workerVars, faults>>

TopicPartitions == Topics \X Partitions
NoMessage == [part |-> <<>>, offset |-> 0]

\* kafka.Hash keyed by the aggregate id, within the row's own topic.
Home(i) == <<TopicOf[i], HashOf[TicketOf[i]]>>

Elements(s) == {s[k] : k \in DOMAIN s}

Init ==
    /\ enqueued = {} /\ published = {} /\ failed = {}
    /\ rpc = [r \in Relays |-> "start"]
    /\ batch = [r \in Relays |-> {}]
    /\ unsent = [r \in Relays |-> {}]
    /\ created \in BOOLEAN /\ topic = [tp \in TopicPartitions |-> <<>>]
    /\ wpc = "start" /\ assigned = FALSE /\ hand = NoMessage
    /\ position = [tp \in TopicPartitions |-> 0]
    /\ committed = [tp \in TopicPartitions |-> 0]
    /\ notified = <<>>
    /\ faults = 0

Fault(kind) == kind \in Faults /\ faults < MaxFaults /\ faults' = faults + 1

-----------------------------------------------------------------------------
\* The transaction that wrote row i commits.  Ids are handed out before the
\* commit, so rows of different tickets may appear out of id order; those of
\* one ticket may not, because its row lock orders the transactions.
Enqueue(i) ==
    /\ i \notin enqueued
    /\ \A j \in Rows : j < i /\ TicketOf[j] = TicketOf[i] => j \in enqueued
    /\ enqueued' = enqueued \cup {i}
    /\ UNCHANGED <<published, failed, relayVars, kafka, workerVars, faults>>

-----------------------------------------------------------------------------
(* Start-up: the server of each replica and the worker call WaitForTopics. *)

\* EnsureTopics leaves topics that exist as they are.
TopicsReady(r) ==
    /\ rpc[r] = "start"
    /\ created' = TRUE
    /\ rpc' = [rpc EXCEPT ![r] = "idle"]
    /\ UNCHANGED <<outboxVars, batch, unsent, topic, workerVars, faults>>

\* Fifteen attempts failed, one of them perhaps after the topics were created: the
\* server logs it and starts the relay.
StartsWithoutTopics(r) ==
    /\ Fault("topics")
    /\ rpc[r] = "start"
    /\ created' \in {created, TRUE}
    /\ rpc' = [rpc EXCEPT ![r] = "idle"]
    /\ UNCHANGED <<outboxVars, batch, unsent, topic, workerVars>>

\* The worker joins its group, which is assigned the partitions of topics that exist
\* then; those created later it does not pick up.  Faulty variant: it does not wait.
JoinGroup_AtOnce ==
    /\ wpc = "start"
    /\ wpc' = "fetch" /\ assigned' = created
    /\ UNCHANGED <<outboxVars, relayVars, kafka, hand, position, committed, notified, faults>>

JoinGroup ==
    /\ wpc = "start"
    /\ created' = TRUE
    /\ wpc' = "fetch" /\ assigned' = created'
    /\ UNCHANGED <<outboxVars, relayVars, topic, hand, position, committed, notified, faults>>

\* log.Fatalf, and nothing starts the worker again.
WorkerExits ==
    /\ Fault("exit")
    /\ wpc = "start"
    /\ created' \in {created, TRUE}
    /\ wpc' = "exited"
    /\ UNCHANGED <<outboxVars, relayVars, topic, assigned, hand, position, committed, notified>>

-----------------------------------------------------------------------------
(* Relay.publishBatch.                                                     *)

\* Rows that another relay's open transaction has locked.
LockedByOthers(r) ==
    UNION {batch[q] : q \in {q \in Relays \ {r} : rpc[q] \in {"fetching", "marking"}}}

\* published_at IS NULL ... FOR UPDATE SKIP LOCKED.
Unpublished(r) == (enqueued \ published) \ LockedByOthers(r)

\* ORDER BY id LIMIT BatchSize.  Faulty variant: without the ORDER BY.
FirstRows_Unordered(S) ==
    {B \in SUBSET S : /\ Cardinality(B) <= BatchSize
                      /\ B # S => Cardinality(B) = BatchSize}
FirstRows(S) ==
    {B \in SUBSET S : /\ Cardinality(B) <= BatchSize
                      /\ \A i \in B, j \in S \ B : i < j
                      /\ B # S => Cardinality(B) = BatchSize}

\* FetchUnpublished, in its own transaction: the rows stay locked until Fetched.
FetchUnpublished(r) ==
    /\ rpc[r] = "idle"
    /\ Unpublished(r) # {}
    /\ \E B \in FirstRows(Unpublished(r)) : batch' = [batch EXCEPT ![r] = B]
    /\ rpc' = [rpc EXCEPT ![r] = "fetching"]
    /\ UNCHANGED <<outboxVars, unsent, kafka, workerVars, faults>>

Fetched(r) ==
    /\ rpc[r] = "fetching"
    /\ rpc' = [rpc EXCEPT ![r] = "producing"]
    /\ unsent' = [unsent EXCEPT ![r] = {Home(i) : i \in batch[r]}]
    /\ UNCHANGED <<outboxVars, batch, kafka, workerVars, faults>>

\* The messages of batch[r] for one partition, in the order of their ids.
Messages(r, tp) ==
    LET S == {i \in batch[r] : Home(i) = tp}
    IN {s \in [1..Cardinality(S) -> S] :
           /\ Elements(s) = S
           /\ \A j, k \in DOMAIN s : j < k => s[j] < s[k]}

\* WriteMessages writes to each partition on its own, of topics that exist: the writer
\* leaves AllowAutoTopicCreation false, so that the broker creates none for it.
Store(r, tp) ==
    /\ rpc[r] = "producing"
    /\ tp \in unsent[r]
    /\ created /\ UNCHANGED created
    /\ \E s \in Messages(r, tp) : topic' = [topic EXCEPT ![tp] = @ \o s]

\* Faulty variant: the relay goes on once the first partition is written.
Write_First(r, tp) ==
    /\ Store(r, tp)
    /\ unsent' = [unsent EXCEPT ![r] = {}]
    /\ rpc' = [rpc EXCEPT ![r] = "marking"]
    /\ UNCHANGED <<outboxVars, batch, workerVars, faults>>

Write(r, tp) ==
    /\ Store(r, tp)
    /\ unsent' = [unsent EXCEPT ![r] = @ \ {tp}]
    /\ rpc' = [rpc EXCEPT ![r] = IF unsent[r] = {tp} THEN "marking" ELSE @]
    /\ UNCHANGED <<outboxVars, batch, workerVars, faults>>

\* The acknowledgement is lost: the writer tries again, or gives up.
WriteUnacknowledged(r, tp) ==
    /\ Fault("ack")
    /\ Store(r, tp)
    /\ UNCHANGED <<outboxVars, relayVars, workerVars>>

\* The batch is over, and the rows it did not mark are fetched again.
Forget(r, place) ==
    /\ rpc' = [rpc EXCEPT ![r] = place]
    /\ batch' = [batch EXCEPT ![r] = {}]
    /\ unsent' = [unsent EXCEPT ![r] = {}]
Reset(r) == Forget(r, "idle")

\* WriteMessages returns an error: MarkFailed for the whole batch, whose own failure is
\* only logged.  Nothing that decides reads what it records.
WriteError(r) ==
    /\ rpc[r] = "producing"
    /\ failed' \in {failed, failed \cup batch[r]}
    /\ Reset(r)
    /\ UNCHANGED <<enqueued, published, kafka, workerVars>>

WriteFails(r) == Fault("broker") /\ WriteError(r)

\* Until somebody's EnsureTopics has succeeded, every write is refused.
TopicsMissing(r) == ~created /\ WriteError(r) /\ UNCHANGED faults

MarkPublished(r) ==
    /\ rpc[r] = "marking"
    /\ published' = published \cup batch[r]
    /\ Reset(r)
    /\ UNCHANGED <<enqueued, failed, kafka, workerVars, faults>>

MarkFails(r) ==
    /\ Fault("mark")
    /\ rpc[r] = "marking"
    /\ Reset(r)
    /\ UNCHANGED <<outboxVars, kafka, workerVars>>

\* The server dies and is started again, with nothing in its memory.  That somebody
\* starts it is an assumption of EventuallyNotified: docker-compose.yml gives it no
\* restart policy.  A server that stays down takes no step, which Spec allows.
RelayRestart(r) ==
    /\ Fault("relay")
    /\ rpc[r] # "start"
    /\ Forget(r, "start")
    /\ UNCHANGED <<outboxVars, kafka, workerVars>>

-----------------------------------------------------------------------------
(* NotificationConsumer.Run.                                               *)

\* FetchMessage: the next message of any assigned partition.  The reader's
\* position moves on whatever becomes of the message.
FetchMessage(tp) ==
    /\ wpc = "fetch" /\ assigned
    /\ position[tp] < Len(topic[tp])
    /\ hand' = [part |-> tp, offset |-> position[tp] + 1]
    /\ position' = [position EXCEPT ![tp] = @ + 1]
    /\ wpc' = "handle"
    /\ UNCHANGED <<outboxVars, relayVars, kafka, assigned, committed, notified, faults>>

Message == topic[hand.part][hand.offset]

\* INSERT ... ON CONFLICT (message_id) DO NOTHING.  Faulty variant: without
\* the conflict clause and the unique index.
Insert_Always(i) == notified' = Append(notified, i)
Insert(i) ==
    notified' = IF i \in Elements(notified) THEN notified ELSE Append(notified, i)

\* Faulty variant: the offset is committed before the message is handled.
Handle_CommitFirst ==
    /\ wpc = "handle"
    /\ \/ wpc' = "commit" /\ Insert(Message) /\ UNCHANGED committed
       \/ wpc' = "fetch" /\ committed' = [committed EXCEPT ![hand.part] = hand.offset]
                         /\ UNCHANGED notified
    /\ UNCHANGED <<outboxVars, relayVars, kafka, assigned, hand, position, faults>>

Handle ==
    /\ wpc = "handle"
    /\ Insert(Message)
    /\ wpc' = "commit"
    /\ UNCHANGED <<outboxVars, relayVars, kafka, assigned, hand, position, committed, faults>>

\* The message is dropped with a log line: the loop fetches the next one.
HandleFails ==
    /\ Fault("handle")
    /\ wpc = "handle"
    /\ Insert(Message) \/ UNCHANGED notified
    /\ wpc' = "fetch"
    /\ UNCHANGED <<outboxVars, relayVars, kafka, assigned, hand, position, committed>>

\* Faulty variant: the offset of the message after the one that was handled.
CommitMessages_Next ==
    /\ wpc = "commit"
    /\ committed' = [committed EXCEPT ![hand.part] = hand.offset + 1]
    /\ wpc' = "fetch"
    /\ UNCHANGED <<outboxVars, relayVars, kafka, assigned, hand, position, notified, faults>>

CommitMessages ==
    /\ wpc = "commit"
    /\ committed' = [committed EXCEPT ![hand.part] = hand.offset]
    /\ wpc' = "fetch"
    /\ UNCHANGED <<outboxVars, relayVars, kafka, assigned, hand, position, notified, faults>>

CommitFails ==
    /\ Fault("offset")
    /\ wpc = "commit"
    /\ wpc' = "fetch"
    /\ UNCHANGED <<outboxVars, relayVars, kafka, assigned, hand, position, committed, notified>>

\* A new reader, in a new process or after a rebalance, starts at the committed
\* offsets.  A dead worker, too, is taken to be started again by somebody.
WorkerRestart ==
    /\ Fault("worker")
    /\ wpc \in {"fetch", "handle", "commit"}
    /\ \/ wpc' = "start" /\ assigned' = FALSE
       \/ wpc' = "fetch" /\ assigned' = created
    /\ position' = committed
    /\ hand' = NoMessage
    /\ UNCHANGED <<outboxVars, relayVars, kafka, committed, notified>>

-----------------------------------------------------------------------------
Publish(r) ==
    \/ TopicsReady(r)
    \/ FetchUnpublished(r) \/ Fetched(r)
    \/ \E tp \in TopicPartitions : Write(r, tp)
    \/ TopicsMissing(r) \/ MarkPublished(r)

Interrupt(r) ==
    \/ \E tp \in TopicPartitions : WriteUnacknowledged(r, tp)
    \/ StartsWithoutTopics(r) \/ WriteFails(r) \/ MarkFails(r) \/ RelayRestart(r)

Consume ==
    \/ JoinGroup
    \/ \E tp \in TopicPartitions : FetchMessage(tp)
    \/ Handle \/ CommitMessages

\* Everything is enqueued, published, and consumed by whatever there is to consume it.
Quiet ==
    /\ enqueued = Rows /\ published = Rows
    /\ \A r \in Relays : rpc[r] = "idle"
    /\ wpc \in {"fetch", "exited"}
    /\ wpc = "fetch" /\ assigned => \A tp \in TopicPartitions : position[tp] = Len(topic[tp])
    /\ UNCHANGED vars

Next ==
    \/ \E i \in Rows : Enqueue(i)
    \/ \E r \in Relays : Publish(r) \/ Interrupt(r)
    \/ Consume
    \/ HandleFails \/ CommitFails \/ WorkerRestart \/ WorkerExits
    \/ Quiet

Spec == Init /\ [][Next]_vars

\* The relay's ticker fires every second and every call of it is bounded by a
\* timeout; the worker loops until its context ends.  A relay that finds no topics
\* runs in a circle until the worker or another server has created them.  Faults
\* are not fair.
FairSpec == Spec /\ (\A r \in Relays : WF_vars(Publish(r))) /\ WF_vars(Consume)

-----------------------------------------------------------------------------
(* Properties.                                                             *)

\* Every variable has its type, a relay holds rows only within a batch, and the
\* worker's offsets are offsets of messages that exist.
TypeOK ==
    /\ enqueued \subseteq Rows /\ published \subseteq Rows /\ failed \subseteq Rows
    /\ rpc \in [Relays -> {"start", "idle", "fetching", "producing", "marking"}]
    /\ batch \in [Relays -> SUBSET Rows]
    /\ unsent \in [Relays -> SUBSET TopicPartitions]
    /\ topic \in [TopicPartitions -> Seq(Rows)]
    /\ created \in BOOLEAN /\ assigned \in BOOLEAN
    /\ wpc \in {"start", "fetch", "handle", "commit", "exited"}
    /\ hand \in [part : TopicPartitions, offset : Nat] \cup {NoMessage}
    /\ position \in [TopicPartitions -> Nat] /\ committed \in [TopicPartitions -> Nat]
    /\ \A tp \in TopicPartitions : committed[tp] <= Len(topic[tp]) /\ position[tp] <= Len(topic[tp])
    /\ \A r \in Relays : rpc[r] \in {"start", "idle"} <=> batch[r] = {}
    /\ hand # NoMessage => hand.offset \in 1..Len(topic[hand.part])
    /\ notified \in Seq(Rows)
    /\ faults \in 0..MaxFaults

\* Losing an event "would be the serious failure" (publishBatch's comment): a
\* row is marked published only when the partition of its ticket holds it,
\* whatever the other relays do and however the write was cut short.
PublishedIsInLog ==
    \A i \in published : i \in enqueued /\ i \in Elements(topic[Home(i)])

\* However often a message is produced and delivered, it leaves one
\* notification, and none is left by a transaction that did not commit.
NotifiedOnce ==
    /\ \A j, k \in DOMAIN notified : notified[j] = notified[k] => j = k
    /\ Elements(notified) \subseteq enqueued

\* No committed offset lies beyond a message that was not handled: the worker
\* may die at any moment and lose none.  Holds while the INSERT does not fail.
NothingSkipped ==
    \A tp \in TopicPartitions : \A k \in 1..committed[tp] : topic[tp][k] \in Elements(notified)

\* With a single relay, the notifications about one ticket within one topic
\* come in the order of its transactions, redelivery or not.
InOrderWithinTopic ==
    \A j, k \in DOMAIN notified :
        (Home(notified[j]) = Home(notified[k]) /\ TicketOf[notified[j]] = TicketOf[notified[k]]
           /\ j < k) => notified[j] < notified[k]

\* What the relays and the worker are for, together: whatever fails, and however often
\* rows are fetched, written and read again, the rows are delivered as EventDelivery
\* says.  An event is logged when the partition of its own ticket holds it.
Delivery == INSTANCE EventDelivery WITH
    Events <- Rows,
    happened <- enqueued,
    logged <- {i \in Rows : i \in Elements(topic[Home(i)])},
    settled <- published,
    announced <- notified
DeliversEvents == Delivery!Spec

\* Every committed event is announced in the end.
EventuallyNotified ==
    \A i \in Rows : i \in enqueued ~> i \in Elements(notified)
=============================================================================
