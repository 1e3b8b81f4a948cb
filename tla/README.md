# Verification of the event-ticketing system

TLA+ models of the event-ticketing system, TLC configurations that check them on small
instances, and TLAPS proofs of what matters most for instances of any size. Paths are
relative to the repository; `ticket.go`, `relay.go` and so on are the files of
`services/ticket-service/internal/`.

## 1. The system

A browser talks to an API gateway, which forwards by path prefix to three Go services
over one PostgreSQL database. The ticket service also runs a relay that copies its
outbox table to Kafka; a separate worker turns the messages into notification rows.
Charges and refunds go to Stripe, or to a fake provider when no key is configured.

| Part | State | Operations | Talks to |
|---|---|---|---|
| `handlers/ticket.go` | `tickets`, `ticket_cancellation_logs` | `PurchaseTicket`, `CancelTicket`, `CreateTickets`, reads | payments store, provider, outbox |
| `store/payment.go` | `payments` | `InsertPending`, `MarkStatus`, `ByTicket`, `MarkRefunded` | called inside and after the handlers' transactions |
| `payments/` | charges and refunds at the provider | `Charge`, `Refund`, keyed | network |
| `idempotency/`, `store/idempotency.go` | `idempotency_keys` | `ReserveKey`, `LoadKey`, `CompleteKey`, `ReleaseKey` | wraps purchase and cancel |
| `outbox/relay.go`, `outbox/store.go` | `outbox`, Kafka topics | fetch, write, mark | Kafka |
| `outbox/topics.go`, both `main.go` | the topics, the worker's assignment | `EnsureTopics`, `WaitForTopics`, join the group | Kafka |
| `outbox/consumer.go` | `notifications`, group offsets | fetch, handle, commit | Kafka |
| event service | `events`; reads `users.role` | `CreateEvent`, `UpdateEvent`, `MyEvents`, list, search | - |
| user service | `users` | `RegisterUser`, `LoginUser` | signs tokens |
| gateway | none | route, verify token, CORS | the services |
| `pkg/database` | connection pool, open transactions | `Pool`, `Ping`, `InTx`, `InSerializableTx` | PostgreSQL |
| `pkg/httpx` | none | `Live`, `Ready`, `SelfCheck`, log | the pool |
| web client | a token in `localStorage`; a form and its key | checkout, cancel, organiser pages | gateway, Stripe |

### What is hard

- **Interleaving.** A purchase is a transaction, a call to the provider, and another
  transaction. The seat is sold as soon as the first commits, so a cancellation, and
  then another purchase of the same seat, may run in between. Inside a transaction, a
  claim holds a row that others step over, and a cancellation works on a snapshot and
  may be aborted and run again.
- **Failure between two systems.** A charge may succeed and its answer be lost, or be
  answered with an intent that still awaits the customer; a commit may be applied and
  reported as failed; the process may die anywhere; a client that goes away cancels the
  context of every later statement.
- **Retries.** One key may arrive many times and at the same time, while the first
  attempt runs, after it failed, or after its process died.
- **Checks before writes.** Roles are read before the statement that relies on them, the
  permission to mint before the transaction that mints.
- **What the customer is told.** The page turns a status into a sentence about his
  money, while the attempt it belongs to may still run, and each retry carries another
  payment method under the same key.
- **At-least-once delivery.** The relay writes before it marks, replicas may fetch the
  same rows, the worker inserts before it commits. A worker that joins its group before
  the topics exist is assigned nothing.
- **Shared connections.** Requests, the middleware's statements, the relay and the
  readiness probe draw on one pool; a request takes a connection several times, and its
  context ends when its client leaves.

### What makes each part correct

- *Sale and cancellation*: a claim finds its seat unsold when it writes it; behind a
  sold seat is a payment of its owner that did not fail and does not go back, settled or
  about to be, or left pending by a purchase that a failing transaction or a crash cut
  short; money is paid back only to a customer who gave the seat up or lost it, and once
  with Stripe; a refused customer was not charged; the books agree with the provider; a
  cancellation gives up its caller's seat; the outbox tells who holds a seat, and what
  each cancellation undoes; every request is answered.
- *Idempotency*: a key runs once at a time, buys once, is charged once, replays only an
  answer that its caller was given and paid for, and runs again after a charge only if
  the charge's answer was lost.
- *Outbox and worker*: nothing is marked published that Kafka does not hold, an event is
  notified once and in the end, a ticket's events keep their order within a topic.
- *Connection pool*: who waits for a connection, for Stripe or for Kafka holds no
  connection and no lock, and no threads wait for each other in a circle, so that every
  wait for the database ends.
- *Accounts, events, minting*: an address has one account; what a request is granted its
  caller could do while it ran; a mint is whole; a ticket is on sale or one customer's,
  in every read.
- *Checkout page*: the submissions of a form make one charge; "payment received" is said
  of a charge of this very submission, "nothing was charged" of a sold-out event only
  where no charge is known; the page does not wait for ever.

The hazards, each with its line and with the properties that cover it, are listed in
`PROJECT.json`.

## 2. Modules

| Module | Stands for |
|---|---|
| `TicketSales` | `PurchaseTicket` and `CancelTicket`, the payments store, the provider |
| `SeatLedger` | abstract specification of `TicketSales`: seats held and payments' stages |
| `IdempotencyKeys` | the middleware and its table, around an outline of a purchase |
| `OnceByKey` | abstract specification of `IdempotencyKeys`: the calls of a key at work, charged, unsure, bought and repeated |
| `Checkout` | the checkout page and its session; extends `IdempotencyKeys` and composes with it |
| `OutboxRelay` | relays, Kafka, and the notification worker |
| `EventDelivery` | abstract specification of `OutboxRelay`: events that happened, are logged, settled and announced |
| `ConnectionPool` | who waits for whom: the pool of a process and the rows its transactions lock |
| `Catalogue` | user service, event service, `CreateTickets` and the reads |
| `MCTicketSales`, `MCIdempotencyKeys`, `MCCheckout`, `MCOutboxRelay`, `MCConnectionPool`, `MCCatalogue` | instances, symmetry sets and constant definitions for TLC |
| `TicketSalesProofs`, `IdempotencyKeysProofs`, `CheckoutProofs`, `OutboxRelayProofs`, `ConnectionPoolProofs`, `CatalogueProofs` | theorems and proofs |

`PROJECT.json` maps each definition to its lines. A definition named `X_Something` that
stands before `X` is a *faulty variant*: what `X` would be after a plausible slip in the
code. No specification uses it; putting it in the place of `X` makes TLC report the
property it is listed with, which shows that the property can fail.

### TicketSales

A request is a process; `pc` says where it stands. What a transaction writes takes
effect in one step, its commit; what it locked or read before is a step of its own,
because others act in between.

| Code | Action |
|---|---|
| decode, `callerID`, `BEGIN` | `BeginPurchase` (fixes `created_at`) |
| `SELECT ... FOR UPDATE SKIP LOCKED` | `LockSeat`; `SoldOut` if it finds no row |
| `UPDATE tickets ... AND status = 'available'`, `InsertPending`, `Enqueue`, `COMMIT` | `Claim` where the row is `Unsold`; `ClaimUnacknowledged` if the commit is reported as failed; `ClaimFails` also if no row matched |
| `Charge` | `ProviderCharges` or `ProviderDefers`, then `ChargeAnswered` or `ChargeAnswerLost`; `CardDeclined`, `ProviderUnavailable` |
| `MarkStatus(succeeded)` | `Settle`, `SettleFails` |
| `releaseAfterFailedCharge` | `Release`, `ReleaseFails` |
| `CancelTicket`'s first two queries, in its SERIALIZABLE transaction | `ReadSnapshot`, `CancelRejected` |
| its `UPDATE`, log, `Enqueue`, `COMMIT` | `CancelAndRefund`, `CancelOnly`, `CancelUnacknowledged`, `CancelFails` |
| `InSerializableTx` after an aborted attempt | `CancelRetries`, `CancelGivesUp` |
| `Refund`, `markRefunded` | `ProviderRefunds`, `RefundFails`, `MarkRefunded`, `MarkRefundedFails` |
| the process dies | `Crash` |

`Claimable` gives the seats a claim may find: the available ones that no open claim has
locked; `LockSeat` takes the first, where each other claim that has begun may have
locked one for a moment. Its `UPDATE` matches the seat only if it is still unsold
(`Unsold`); otherwise the claim fails. A cancellation commits only if the row is still
the one of its snapshot (`RowUnchanged`), and may be aborted without any such reason
(`conflict`), as Postgres may; `owed` is the Go variable `payment`, which outlives an
aborted attempt. `ByTicket` takes the settled payment whose claim *began* last, because
`created_at` is the transaction's start. `ProviderDefers` is `Charge` returning an
intent that requires an action of the customer: the provider knows it, no money moves,
and `PurchaseTicket` does not read its status. `RefundsKeyed` tells the providers apart:
Stripe returns the first refund for a repeated key, the fake provider (`fake.go:68-84`)
ignores it and pays again. The handlers run on `r.Context()`, so a client that leaves
also cancels the compensation: that is a lost answer followed by failing statements,
both of them faults. The event is not represented: a purchase only ever looks at one
event's seats.

### IdempotencyKeys

An attempt is an HTTP request with a key. `ReserveKey`'s `INSERT` (`Reserve`,
`KeyExists`) and `SELECT` (`Load`, `LoadNothing`) are separate steps, because they run
on the pool without a transaction. The handler inside is kept to what the two layers
guard: the charge and the answer. The seat, the settlement and the event are left to
`TicketSales`: a stale release or a cancellation may take the seat of any attempt, so
nothing here may rest on it. `ParamsChecked` tells the providers apart: Stripe refuses a
known key with other parameters, among which are the caller (in the metadata) and the
payment method; the fake provider returns the charge it knows, whoever asks
(`fake.go:47`). `keys` and `checkout` have Stripe; the proofs cover both, and a property
that needs the comparison says so. A request without a key passes through and is not
modelled. Attempts die one by one (`Die`), which includes the death of a process with
several of them.

`OnceByKey` says what all this is for, with neither table nor statuses nor faults. An
attempt that runs the handler is a call *at work*, one whose run was answered 200 has
*bought*, and one that was answered from the table *repeats*; a charge counts for the
key its attempt came with, whatever the provider was given. A call that was charged and
answered 502 is *unsure*. A charged key is put to work again in one case only, when the
call that was charged is unsure; the code's comments say that it never is (section 3).

### Checkout

`Checkout` extends `IdempotencyKeys`: what the page sends arrives there as an attempt,
and the page hears that attempt's status. A step of the page leaves the middleware's
state alone, except `Send`.

| Code | Action |
|---|---|
| `setToken`, another tab's login or sign-out | `SignIn`, `SignOut` |
| `CheckoutForm` renders `PaymentForm`; navigation or reload | `Mount`, `Leave` |
| `handleSubmit` to `createPaymentMethod` | `Submit`, `CardRejected` |
| `fetch` | `Send`, `Unauthorized` (401 of the gateway) |
| `res.ok`, `switch (res.status)`, `finally` | `Hear`, with the sentence of the status |
| the reverse proxy's 502 | `BadGateway` at any moment; `LearnOfDeath` is the one that must come |
| `catch` | `LoseConnection` |

An attempt's body is its payment method, and Stripe makes one per submission: so the
body is the attempt itself. A submission whose connection broke goes on at the service.
Attempts and keys are handed out in a fixed order, the ids being random.

### Catalogue

| Code | Action |
|---|---|
| `RegisterUser`, `LoginUser`, the 24 hours of a token | `RegisterUser`, `LoginUser`, `TokenExpires` |
| changes in SQL (`scripts/seed.sql` sets roles; no handler does) | `SetRole`, `HandOver` |
| a request with a valid token | `Arrive` |
| `userRole`, then the statement | `ReadRole`, then `CreateEvent` or `UpdateEvent` |
| `MayMintTickets`, `INSERT` in a loop, `COMMIT` | `CheckMint`, `InsertTicket`, `CommitTickets` |
| an error, the foreign key, a rollback | `RequestFails` |
| the sale and the cancellation, in one step each | `PurchaseTicket`, `CancelTicket` |
| the queries of the reads | `ListAvailableTickets`, `GetUserTickets`, `GetTicketReceipt`, `Figures` (of `MyEvents`), `GetEvents`, `GetEvent` |

`could` is an auxiliary variable: it records whether the caller was entitled to the
request at some moment since it arrived, and `GrantsAreTimely` is about it. It
influences nothing. A refused registration or login changes nothing and is no step.

### OutboxRelay

| Code | Action |
|---|---|
| `WaitForTopics` in the server | `TopicsReady`; `StartsWithoutTopics` after fifteen attempts |
| `WaitForTopics` in the worker, then `Run` | `JoinGroup`; `WorkerExits` after fifteen attempts |
| an outbox row commits | `Enqueue`, in the order of its ticket's transactions |
| `publishBatch` | `FetchUnpublished`, `Fetched`, `Write`, `MarkPublished`; `WriteFails` with `MarkFailed`, `MarkFails` |
| a write to a topic that does not exist | `TopicsMissing`, until an `EnsureTopics` has succeeded |
| a write that is stored and reported as failed | `WriteUnacknowledged` |
| the worker's loop | `FetchMessage`, `Handle` or `HandleFails`, `CommitMessages` or `CommitFails` |
| a new process, a rebalance | `RelayRestart`, `WorkerRestart` |

Each replica has a relay. The fetch holds row locks until `Fetched`; the write goes out
per topic partition; the mark is a transaction of its own. Kafka is one sequence of row
ids per topic partition, chosen by topic and by the hash of the ticket. The writer
creates no topics (`relay.go:30` leaves `AllowAutoTopicCreation` false), so `Store`
needs them to be there. `failed` holds the rows for which `MarkFailed` has recorded an
error; no code reads it. A write whose acknowledgement is lost is stored and stays to be
written again. The worker's position moves on at the fetch and goes back to the
committed offsets only at a restart or rebalance, as that of kafka-go's reader does. A
group that is joined before the topics exist is assigned nothing (`assigned`). A write
that arrives after its relay gave up is a write that arrived just before.

`EventDelivery` is what is left when relays, partitions, offsets and faults are taken
away: a committed row has *happened*, one that the partition of its ticket holds is
*logged*, one with `published_at` is *settled*, and the notifications are what was
*announced*. None of the four ever loses a member.

### ConnectionPool

What a handler does to the tables is in the other modules; here it is a routine of
*blocks*. A block on the pool is one `InTx`, or one statement that runs on the pool
itself; it takes a connection, locks rows one by one and gives all back. A block outside
the pool is a call to Stripe or Kafka, or the wait for a request or a tick, and may take
for ever. `Purchase`, `Cancel`, `Publish`, `Ready` and `Keyed` are the routines, each
block with the blocks that may follow it after a success and after an error.

| Code | Action |
|---|---|
| a request or tick arrives; `Charge`, `Refund`, `WriteMessages` return | `CallReturns` |
| `BeginTx` waits in `Acquire` | `Granted`; `AcquireCancelled` on a dead context |
| a statement locks a row | `LockRow`; `StepOver` where `SKIP LOCKED` finds none |
| `InTx` returns | `Commit`, `Rollback` |
| `InSerializableTx` after 40001 or 40P01 | `Conflict` |
| `r.Context()` ends; the two seconds of `Ready` | `ClientLeaves`, `ProbeTimesOut` |

All requests meet on one seat, its payment and one idempotency key, all relays on one
outbox row, which is the worst case: `ReserveKey`'s `INSERT` waits for another one of
the same key, and `CompleteKey` and `ReleaseKey` lock the row. `pool.go:48` says "Fail
fast rather than queueing forever" of `ConnectTimeout`; that bounds the opening of a
connection, and a request waits in `Acquire` as long as its client does. The model has
it that way.

## 3. Runs

| Run | Instance | States | Shows |
|---|---|---|---|
| `sales` | 1 seat, 2 customers, 3 purchases, 2 cancellations, all faults (the third purchase: see *Bounds*) | 2.0 million | all safety properties, the refinement of `SeatLedger` |
| `sales_live` | 2 seats, 2 customers, 2 purchases, 1 cancellation; declined cards, deferred intents, aborted cancellations | 110,000 | requests served, books complete, no seat kept for a refused charge, cancellations refunded |
| `keys` | 3 attempts, 2 keys, 2 callers, 2 bodies, all faults | 105,000 | all properties of the keys, the refinement of `OnceByKey` |
| `checkout` | 1 form, 3 submissions, 2 users, lost answers, death, sold out | 290,000 | one charge for a form, confirmed and denied payments, no stuck page |
| `catalogue` | 2 accounts, 2 addresses, 2 events, 2 tickets, 2 requests, failing statements and commits | 500,000 | timely grants, whole mints, reads that agree |
| `outbox` | 2 relays, 3 rows, 2 topics, any one failure, of start-up too | 1.0 million | nothing lost, the refinement of `EventDelivery`: nothing notified twice or taken back |
| `outbox_live` | 1 relay, 3 rows, 2 partitions, two failures, no failing `INSERT`, no worker that gives up | 84,000 | nothing skipped, order within a topic, everything notified |
| `pool` | 2 connections; 1 purchase, 1 cancellation, the relay, the probe | 110,000 | nothing held while waiting, no circle of waits, every wait for the database ends |

Four runs are expected to fail. Each checks one sentence of a comment that the code does
not keep; `PROJECT.json` quotes the sentence:

| Run | The shortest counterexample |
|---|---|
| `stale_release` | A buys, A cancels, B buys the same seat, A's card is declined: the release takes B's seat |
| `intent_not_captured` | the intent requires an action of the customer; the payment is recorded as succeeded and the answer is 200 |
| `skipped_message` | one `INSERT` fails, the next message of the partition is committed |
| `rejected_key_stuck` | a declined card answers in plain text, which the JSONB column refuses: the key stays in progress |

More sentences were met that the code does not keep, and have no run of their own:

- `ticket.go:201` says that the money did not move when `Charge` returns an error; after
  a lost answer it may have (`ChargeAnswerLost`), which is why `SoldOutIsTrue` has its
  exception, and why the page's "The payment provider is unreachable. Nothing was
  charged" may be false.
- A customer who cancels while his charge is under way gives the seat up, and the charge
  may succeed: `ByTicket` found no settled payment, so nothing is refunded. The money of
  such a purchase stays with its record, and `BooksFollowProvider` holds.
- The checkout form says that a resubmission replays; its new payment method is another
  body, and the answer is 422.
- `middleware.go:143` says that a retry re-runs when `CompleteKey` failed; the row keeps
  it out (`rejected_key_stuck`).
- Migration 000012 says that a cancellation is never consumed before its purchase; the
  two events have different topics, so only `InOrderWithinTopic` holds.
- `ticket.go:244` says that a failed release leaves the seat "stranded as purchased with
  a failed payment". The two writes are one transaction, so both are undone: the payment
  stays pending for ever, like that of a crash. That is why `SeatBacked` names the
  purchases that were cut short.
- `middleware.go:132` says that "a failure that may have charged a card must never look
  fresh", and `idempotency.go:111` that it "must keep its key, so the retry is
  recognised as a replay". A charge whose answer is lost is answered 502, and `run`
  releases the key: the retry runs the handler again, may take a second seat if the
  release of the first failed, and only the provider's key keeps it to one charge.
  `RunsOnce` admits that run (`unsure`) and no other.
- The README (line 726) and migration 000011 (line 31) say that keys are reaped after 24
  hours. No code does it, and `BoughtOnce`, by which a key that bought is never free
  again, rests on that.
- `ticket.go:493` says that a ticket is refunded at most once. `MarkRefunded` refuses to
  *record* a second refund; what keeps the provider from paying it is the refund's key,
  not the UNIQUE constraint that `ticket.go:616` calls "the real guarantee". The fake
  provider ignores that key, so `RefundedOnce` counts to one under `RefundsKeyed` only.
- `ByTicket` takes the newest settled payment of the seat, whoever made it. After a
  stale release has opened the seat, the customer who lost it may be repaid by another
  one's cancellation, who then is not; `RefundedOnce` names that case (`TakenAway`).
- "Payment received. Your ticket is confirmed", says the page. The first sentence is
  `ConfirmationIsTrue`; the second fails where a stale release or a cancellation takes
  the seat while the charge is under way, for `PurchaseTicket` does not look again.
- With the fake provider a second caller of a key whose charge was lost is answered 200
  with the first one's charge (`ParamsChecked` false).
- `topics.go:17` says that auto-creation fires when something produces. It does not for
  this writer (`TopicsMissing`), so that `EnsureTopics` is needed and not only
  convenient.
- `pool.go:48`, see *ConnectionPool*.

**Bounds.** Every conflict of the sale is about one seat, and `sales` has two
cancellations and three purchases on it: the second purchase may claim what the first
one's customer cancelled while his charge is under way, two cancellations may aim at one
payment, and a snapshot may be of a seat that has been sold again; claims meet on the
row lock. A third purchase lets a seat be lost to a stale release, sold again and
cancelled by its new owner, which is where refunds go astray. For TLC's sake it is
followed only in behaviours without crash, abort, deferred intent or an answer 500
(`ThirdPurchase`, a state constraint): what those faults do, two purchases show, and the
proofs need no such bound. `sales_live` has two seats, so that the order of claims
matters and a claim steps over a locked row and takes the next. Three attempts are
enough for a key to be run, released, taken again and replayed. Three submissions are
enough for a form to lose one, be refused one and have one still running; two users
share the browser. The second form's key is another key, which `keys` has. The statement
failures of the middleware are left to `keys`: for the page they are a 500 like any
other. Two requests, two accounts and two events let a role or an owner change between
the check and the write of one request while the other one writes. Three rows give two
events of one ticket and one of another in between; a batch of two makes a backlog of
two batches. Two connections and four threads make a queue in which all wait for each
other's connections and rows; the purchase and the cancellation each take four or five
connections one after the other. `MaxFaults` bounds only the number of failures of the
relay and the worker; it is the one counter bounded for TLC's sake. Symmetry is used for
customers, requests, keys, relays, addresses, events and tickets in runs without
liveness.

**Deadlock** is checked in every run. `Quiet` is the only way to stop, when all requests
are finished or all events are notified (or nobody is left to consume them); the session
of the browser, the trade in seats, and relay and probe of the pool never stop.

**Fairness.** A request that has been received goes on: `net/http` gives it a goroutine,
every statement and provider call ends, with an error if need be. So `sales_live` has
weak fairness on the steps of each request and none on the arrival of requests. The
relay's ticker fires every second and each write is bounded by time-outs; the worker
loops until its context ends: weak fairness on `Publish(r)` and on `Consume`, whose
first step says that Kafka is reached before the worker's attempts are used up;
`WorkerExits` is the fault that it is not. A relay or worker that died is started again
by somebody (`RelayRestart`, `WorkerRestart`): this is an assumption of
`EventuallyNotified` and not a fact of the deployment, for `docker-compose.yml` gives no
service a restart policy. The safety properties need nothing of the kind, since `Spec`
lets a dead process take no further step. In `ConnectionPool` Postgres answers and a
free connection is handed on; nothing is assumed of Stripe and Kafka, so
`DatabaseWaitsEnd` holds even if no call of theirs ever returns. `CFairness` lets a
service finish what it has begun, Stripe answer, and the browser run its callbacks; the
user is never obliged to submit. Faults are never fair, and their number is bounded,
which is what eventual delivery needs of a broker.

## 4. Proofs

The theorems hold for any sets of customers, seats, requests, keys, rows, relays and
connections, and any faults unless they say otherwise. The only assumptions are those
named in the modules (`SalesAssumption`, `KeysAssumption`, `CheckoutAssumption`,
`RelayAssumption`, `PoolAssumption`, `CatalogueAssumption`): sets are disjoint where the
code's types are, ids are ordered, the seats, the purchases and the cancellations are
finitely many, a pool has a connection (`envInt` takes no other limit). Each proof
states an inductive invariant, one lemma per action, and combines them in `Invariance`.

**TicketSales**: `Inv` is `TypeOK`, `InStep`, `SeatBacked`, `HeldSeatAnnounced`,
`OpenSeatExplained`, `Followed` and `CancellationsUndoPurchases`. `SeatBacked` alone is
not inductive: a release or a refund would be free to hit the payment that backs
another's seat. `InStep` says why it is not: a purchase between claim and answer is
pending, a settled one has its intent, a locked row is available and locked once, a
payment that a cancellation read or captured, in whatever attempt, is settled and is for
the seat that was given up. From `Inv` follow `BooksFollowProvider`,
`RefusedNotCharged`, `LockedSeatUnsold` and `PaymentLifecycle` (an action property with
a theorem and no run of its own: the ledger's stages, which a run checks, are its
substance). `RefundedOnce` needs `Followed`: the customer of a payment that counts is in
the seat, or has given it up, or has lost it to a failed payment's release; so whoever
captures that payment is that customer or came after he had left, and what has happened
once stays so (`PartedStays`). `CancellationsUndoPurchases` is inductive with
`HeldSeatAnnounced`: the seat of a cancellation is its caller's, so the last row about
it is his purchase. `CancelsOwnSeat` uses that the snapshot is the caller's and that a
commit finds it unchanged. `SucceededIsCaptured`, which `intent_not_captured` refutes,
is proved for a provider that defers nothing. `BooksComplete` is proved where nothing is
lost, fails or dies, from an invariant of each purchase (`CompleteSoFar`).
`ServiceRunsTheLedger` is the refinement: each action is a step of `SeatLedger` on the
mapped state or leaves it alone; a release, which may take a seat from another customer,
is why the ledger's `Undo` opens the seat whoever holds it.

**IdempotencyKeys**: `OneRunner` needs that a running attempt's row is its own
reservation; `BoughtOnce` that a key that bought is never free; `ReplayIsOriginal` that
a complete row is that of the attempt that bought (`RowsAreOriginal`); `ChargedOnce`
that charges of one key are one (`IntentsKeyed`). `Alone` and `InStep` say where an
attempt stands when it has bought, and that it was paid for (`Paid`). `ChargesStand`
says that a key that was charged stays taken, by the attempt that made the charge,
unless that attempt was answered 502. `RequestsRunOnce` is the refinement of
`OnceByKey`. `StepKinds` sorts the steps of an attempt by what they do to four sets of
attempts behind the abstract state (nothing, begin, charge, buy, stop, repeat),
`LosersMove` adds the fifth, those whose answer is lost, `CallsMove` carries that over
to the sets of calls, and the guards of the abstract steps follow from the invariant: a
key that is begun has no row, so nobody is at work with it, has bought with it, or was
charged under it and knows; one that buys is alone; an answer is repeated from a row
whose attempt is done.

**Checkout**: by `PageSteps` a step of the page is a step of `IdempotencyKeys` or none,
so that its invariant holds behind the page, and so does `OnceByKey` (`PageRunsOnce`).
`OneChargePerForm` then needs `Keyed`: a submission belongs to one form, and every
request it became carries that form's key, which never changes. What the page says needs
`Told`: a submission has a body of its own, so that nothing is ever replayed to it and,
where the provider compares parameters, its charge is no other's; who was charged and
has not failed keeps the key's row (`ChargesKeepKeys`), and so does who was refused for
want of a seat (`RefusalsKeepKeys`), so that the two never meet under one key; and each
sentence is about the answer of the latest submission (`Spoken`).

**Catalogue**: `Sound` is the inductive form of `GrantsAreTimely`: whoever has found a
permission (a role read for a creation, an administrator's role, the leave to mint) had
it while the request ran, and an owner's edit finds the owner in the statement itself.
`Held` couples owner and status of a ticket, from which `ShownOnce` follows.
`MintedWhole` needs `Whole`: drafts belong to one open mint each, and committed tickets
to one that is over.

**OutboxRelay**: `PublishedIsInLog` needs `RelayInStep`: what a relay is about to mark
is in the log, because the log only grows and a batch is marked only when no partition
is left to write. `NotifiedOnce` needs that the log holds committed rows only.
`RelaysDeliverEvents` is the refinement of `EventDelivery`. It needs, beside the
invariant, that a partition holds rows of its own tickets only (`AtHome`), so that what
the worker announces is logged in the sense of the abstract specification; of all the
steps only those of `DeliverySteps` are seen there. `NothingSkipped` is proved where no
`INSERT` fails, from `Thorough`: all that was fetched is notified, but for the message
at hand, and that is the last one fetched. `InOrderWithinTopic` is proved for a single
relay where no `INSERT` fails, from `Ordered`: order passes from the commits
(`EnqueuedInOrder`) to the batches (`BatchClosed`: whatever precedes a row of the batch
is in it, or published), to the log (`LogInOrder`: a row comes after the first copy of
each that precedes it) and to the notifications (`NotifiedInOrder`).

**ConnectionPool**: `NothingHeldOutside` is inductive with the types of the three
variables it is about. It needs neither a fair queue nor any order of a routine's
blocks, which is why handlers may be added without it being lost. `NobodyWaitsInACircle`
does need the routines. `RoutineTyped` shows of each of them that a block locks one row
at most, or a seat and then its payment, and that its successors are blocks of the
routine. Then `PoolInv` adds to `Inv` where a thread stands (`Placed`), that it has
locked the first rows of its block and no others (`LocksInOrder`), and that the queue is
made of those who wait, once each (`Queued`). Take any set of threads. If one of them
waits for a row (`RowsEnd`), the holder of that row has either all its rows or only a
seat, so it waits for nobody, or for a payment whose holder has all its rows. If none
does (`QueueEnds`), each waits for a connection, so by `NothingHeldOutside` none of them
has one; then the first of them in the queue waits for nobody in the set. `PoolTyped` is
the type invariant, from the same invariant and lemmas about joining, serving and
leaving the queue.

Only model-checked: everything about liveness (`RequestsServed`, `CancelledIsRefunded`,
`EventuallyNotified`, `NeverStuck`, `DatabaseWaitsEnd`), which these provers do not
reach. Of `DatabaseWaitsEnd` the proofs have the part that is safety: there is always
somebody in a set of waiting threads who need not wait for the others. Every invariant
and every action property that a run expects to hold is a theorem.

## 5. What is not modelled

- *The gateway's routing.* It keeps no state; it goes over a map of prefixes in any
  order, and prefixes that overlap lead to one service, so the order has no effect. What
  a page sees of the gateway (401, 502) is in `Checkout`.
- *Other pages.* The cancellation dialog sends one key for all its tries with one body,
  which is what `IdempotencyKeys` is about; it shows every 409, also that of a
  cancellation in progress, as "already cancelled". The organiser's mint is sent without
  a key, so that a second click mints again.
- *Amounts.* `CreateTickets` accepts prices that the payments' `CHECK` refuses
  (`ticket.go:91`); their effect on a purchase is the fault `database`.
- *What becomes of a deferred intent* at Stripe: the code never asks.
- *Health and start-up of the server.* `Ready` is a thread of `ConnectionPool`. The
  server serves no `/health` until `WaitForTopics` ends, which may take half a minute.
- Signatures of tokens, CORS, logging, full-text search, QR codes, styling, build,
  deployment, load and smoke tests.

Worth adding next: the cancellation dialog over `IdempotencyKeys`, as `Checkout` is for
the purchase; a composition of `TicketSales` with `OutboxRelay`, in which the events are
those of the claims and cancellations.
