---------------------------- MODULE TicketSales ----------------------------
(***************************************************************************)
(* The sale and the cancellation of the seats of one event, as the ticket  *)
(* service runs them: handlers/ticket.go over the tables tickets,          *)
(* payments, ticket_cancellation_logs and outbox, and the payment          *)
(* provider.  A request is a process.  A transaction takes effect in one   *)
(* step, its commit; what it read or locked earlier is a step before, for  *)
(* others act in between: the claim locks its seat, and a cancellation     *)
(* works on the snapshot of its SERIALIZABLE transaction.  A call to the   *)
(* provider is two steps, because it may act and its answer be lost.  Any  *)
(* step may meet the faults that Faults allows.                            *)
(***************************************************************************)
EXTENDS Integers, Sequences, FiniteSets

CONSTANTS
    Users,       \* customers (the user_id of a verified token)
    Tickets,     \* ids of the event's seats, in the order of ORDER BY id
    Purchases,   \* POST /tickets/purchase requests; at most one payments row each
    Cancels,     \* POST /tickets/cancel requests; at most one log row each
    NoUser,      \* SQL NULL in tickets.user_id
    NoTicket,    \* no ticket: no row written yet
    NoPayment,   \* Go nil in CancelTicket's variable payment
    Faults,      \* the kinds of failure that may happen
    RefundsKeyed \* TRUE: a provider that honours the refund's idempotency key

FaultKinds ==
    { "decline",   \* the card is refused
      "outage",    \* the provider is not reached, or fails before it acts
      "deferred",  \* the provider answers with an intent that awaits the customer
      "lost",      \* the provider acts and its answer does not arrive
      "database",  \* a transaction is not committed (also: client gone, context cancelled)
      "commit",    \* a transaction commits and its acknowledgement does not arrive
      "conflict",  \* Postgres aborts a cancellation to keep the serial order
      "crash" }    \* the service dies, and every request in it

ASSUME SalesAssumption ==
    /\ Tickets \subseteq Nat
    /\ IsFiniteSet(Tickets) /\ IsFiniteSet(Purchases) /\ IsFiniteSet(Cancels)
    /\ Purchases \cap Cancels = {}
    /\ NoUser \notin Users /\ NoTicket \notin Tickets /\ NoPayment \notin Purchases
    /\ Faults \subseteq FaultKinds
    /\ RefundsKeyed \in BOOLEAN

VARIABLES
    tickets,   \* tickets[t]: the row's status, user_id and purchased_at (0: NULL)
    payments,  \* payments[p]: the row that purchase p inserted
    log,       \* log[c]: the seat whose cancellation c recorded
    outbox,    \* the outbox rows in id order
    intents,   \* the purchases for which the provider holds a PaymentIntent
    charged,   \* the purchases whose money it took
    refunds,   \* refunds[p]: refunds the provider issued against p's charge
    pc,        \* where each request stands
    status,    \* the HTTP status it answers, or is bound to answer
    caller,    \* the user of the request's token
    began,     \* began[p]: place of p's BEGIN, the NOW() of all that it writes
    lock,      \* lock[p]: the row that p's claim holds FOR UPDATE
    wanted,    \* wanted[c]: the ticket_id of the request
    seen,      \* seen[c]: what c's open transaction read in its snapshot
    tries,     \* tries[c]: how many of c's transactions Postgres aborted
    owed       \* owed[c]: CancelTicket's variable payment

db == <<tickets, payments, log, outbox>>
provider == <<intents, charged, refunds>>
claims == <<began, lock>>
cancels == <<wanted, seen, tries, owed>>
locals == <<caller, claims, cancels>>
vars == <<db, provider, pc, status, locals>>

Requests == Purchases \cup Cancels
Final == {"done", "dead"}

MaxTxAttempts == 3

OpenSeat == [status |-> "available", user |-> NoUser, at |-> 0]
Sold(u, now) == [status |-> "purchased", user |-> u, at |-> now]
NoRow == [status |-> "none", ticket |-> NoTicket]
NoSnapshot == [row |-> OpenSeat, payment |-> NoPayment]

Init ==
    /\ tickets = [t \in Tickets |-> OpenSeat]
    /\ payments = [p \in Purchases |-> NoRow]
    /\ log = [c \in Cancels |-> NoTicket]
    /\ outbox = <<>>
    /\ intents = {} /\ charged = {}
    /\ refunds = [p \in Purchases |-> 0]
    /\ pc = [r \in Requests |-> "idle"]
    /\ status = [r \in Requests |-> 0]
    /\ caller = [r \in Requests |-> NoUser]
    /\ began = [p \in Purchases |-> 0]
    /\ lock = [p \in Purchases |-> NoTicket]
    /\ wanted = [c \in Cancels |-> NoTicket]
    /\ seen = [c \in Cancels |-> NoSnapshot]
    /\ tries = [c \in Cancels |-> 0]
    /\ owed = [c \in Cancels |-> NoPayment]

-----------------------------------------------------------------------------
Goto(r, place) == pc' = [pc EXCEPT ![r] = place]
Answer(r, code) == status' = [status EXCEPT ![r] = code]

\* The UPDATE that returns a row to the pool, in CancelTicket and in
\* releaseAfterFailedCharge.  Faulty variant: user_id is left as it was.
Reopened_KeepsUser(row) == [row EXCEPT !.status = "available", !.at = 0]
Reopened(row) == [row EXCEPT !.status = "available", !.user = NoUser, !.at = 0]

\* outbox.Enqueue: a row in the transaction of the change it announces.
\* Faulty variant: the event is produced beside the transaction and may be lost.
Enqueue_Lossy(topic, t, u) ==
    outbox' \in {outbox, Append(outbox, [topic |-> topic, ticket |-> t, user |-> u])}
Enqueue(topic, t, u) ==
    outbox' = Append(outbox, [topic |-> topic, ticket |-> t, user |-> u])

-----------------------------------------------------------------------------
(* PurchaseTicket: the claim transaction.                                  *)

\* The request is decoded, its caller known, and its transaction begun: NOW(),
\* the purchased_at and created_at of what it writes, is the time of this step.
BeginPurchase(p, u) ==
    /\ pc[p] = "idle"
    /\ Goto(p, "claim")
    /\ caller' = [caller EXCEPT ![p] = u]
    /\ began' = [began EXCEPT ![p] = 1 + Cardinality({q \in Purchases : began[q] > 0})]
    /\ UNCHANGED <<db, provider, status, lock, cancels>>

Available == {t \in Tickets : tickets[t].status = "available"}
Locked == {lock[p] : p \in Purchases} \ {NoTicket}

\* What FOR UPDATE SKIP LOCKED may return.  Faulty variant: no row lock.
Claimable_Unlocked == Available
Claimable == Available \ Locked

\* ORDER BY id LIMIT 1 FOR UPDATE SKIP LOCKED: the first row no other claim holds.
LockSeat(p, t) ==
    /\ pc[p] = "claim"
    /\ t \in Claimable /\ \A s \in Claimable : t <= s
    /\ lock' = [lock EXCEPT ![p] = t]
    /\ Goto(p, "locked")
    /\ UNCHANGED <<db, provider, status, caller, began, cancels>>

\* pgx.ErrNoRows: each available row, if any, is locked by another claim.
SoldOut(p) ==
    /\ pc[p] = "claim"
    /\ Claimable = {}
    /\ Goto(p, "done")
    /\ Answer(p, 409)
    /\ UNCHANGED <<db, provider, locals>>

Unlock(p) == lock' = [lock EXCEPT ![p] = NoTicket]

\* The row that the claim's UPDATE matches: "guarding the UPDATE means a logic error
\* upstream cannot silently resell a purchased ticket".
Unsold(p) == {t \in {lock[p]} : tickets[t].status = "available"}

\* The transaction's writes: the seat, the pending payment, the outbox row.
ClaimSeat(p) ==
    /\ pc[p] = "locked"
    /\ Unsold(p) # {}
    /\ tickets' = [tickets EXCEPT ![lock[p]] = Sold(caller[p], began[p])]
    /\ payments' = [payments EXCEPT ![p] = [status |-> "pending", ticket |-> lock[p]]]
    /\ Enqueue("ticket.purchased", lock[p], caller[p])
    /\ Unlock(p)
    /\ UNCHANGED <<log, provider, caller, began, cancels>>

Claim(p) ==
    /\ ClaimSeat(p)
    /\ Goto(p, "charge")
    /\ UNCHANGED status

\* The commit is applied but reported as an error: 500, and nobody charges.
ClaimUnacknowledged(p) ==
    /\ "commit" \in Faults
    /\ ClaimSeat(p)
    /\ Goto(p, "done")
    /\ Answer(p, 500)

\* A statement or the commit fails, or the UPDATE did not match one row.
ClaimFails(p) ==
    /\ pc[p] \in {"claim", "locked"}
    /\ "database" \in Faults \/ (pc[p] = "locked" /\ Unsold(p) = {})
    /\ Unlock(p)
    /\ Goto(p, "done")
    /\ Answer(p, 500)
    /\ UNCHANGED <<db, provider, caller, began, cancels>>

-----------------------------------------------------------------------------
(* PurchaseTicket: the charge, outside any transaction, and what follows.  *)

\* The provider carries the charge out; the answer is on its way.
ProviderCharges(p) ==
    /\ pc[p] = "charge"
    /\ intents' = intents \cup {p}
    /\ charged' = charged \cup {p}
    /\ Goto(p, "answer")
    /\ UNCHANGED <<db, refunds, status, locals>>

\* An intent whose status is not "succeeded", requires_action say, is no error to
\* the client, and PurchaseTicket does not read charge.Status.
ProviderDefers(p) ==
    /\ "deferred" \in Faults
    /\ pc[p] = "charge"
    /\ intents' = intents \cup {p}
    /\ Goto(p, "answer")
    /\ UNCHANGED <<db, charged, refunds, status, locals>>

\* Charge returned an error: the seat is released next, then code is answered.
\* Faulty variant: the error is dropped and the payment settled.
ChargeError_Ignored(p, place, code) ==
    /\ pc[p] = place
    /\ Goto(p, "settle")
    /\ Answer(p, code)
    /\ UNCHANGED <<db, provider, locals>>

ChargeError(p, place, code) ==
    /\ pc[p] = place
    /\ Goto(p, "release")
    /\ Answer(p, code)
    /\ UNCHANGED <<db, provider, locals>>

CardDeclined(p) == "decline" \in Faults /\ ChargeError(p, "charge", 402)
ProviderUnavailable(p) == "outage" \in Faults /\ ChargeError(p, "charge", 502)

\* Faulty variant: a lost answer is reported as a refused card.
ChargeAnswerLost_Refused(p) == "lost" \in Faults /\ ChargeError(p, "answer", 402)
ChargeAnswerLost(p) == "lost" \in Faults /\ ChargeError(p, "answer", 502)

ChargeAnswered(p) ==
    /\ pc[p] = "answer"
    /\ Goto(p, "settle")
    /\ Answer(p, 200)
    /\ UNCHANGED <<db, provider, locals>>

\* store.MarkStatus, and the release's UPDATE of payments: by payment id, whatever
\* the row's present status.  Faulty variant: by ticket id.
MarkStatus_ByTicket(p, s) ==
    payments' = [q \in Purchases |->
        IF payments[q].ticket = payments[p].ticket
          THEN [payments[q] EXCEPT !.status = s] ELSE payments[q]]
MarkStatus(p, s) == payments' = [payments EXCEPT ![p].status = s]

Settle(p) ==
    /\ pc[p] = "settle"
    /\ MarkStatus(p, "succeeded")
    /\ Goto(p, "done")
    /\ UNCHANGED <<tickets, log, outbox, provider, status, locals>>

\* Not fatal: the row stays pending and the answer is still 200.
SettleFails(p) ==
    /\ "database" \in Faults
    /\ pc[p] = "settle"
    /\ Goto(p, "done")
    /\ UNCHANGED <<db, provider, status, locals>>

\* The rows the release UPDATE matches: by ticket id and status, nothing else.
\* Faulty variant: the status it looks for is the one it writes.
Releasable_Misfiltered(p) == {t \in {payments[p].ticket} : tickets[t].status = "available"}
Releasable(p) == {t \in {payments[p].ticket} : tickets[t].status = "purchased"}

\* releaseAfterFailedCharge, one transaction.
Release(p) ==
    /\ pc[p] = "release"
    /\ tickets' = [t \in Tickets |-> IF t \in Releasable(p) THEN Reopened(tickets[t])
                                             ELSE tickets[t]]
    /\ MarkStatus(p, "failed")
    /\ Goto(p, "done")
    /\ UNCHANGED <<log, outbox, provider, status, locals>>

ReleaseFails(p) ==
    /\ "database" \in Faults
    /\ pc[p] = "release"
    /\ Goto(p, "done")
    /\ UNCHANGED <<db, provider, status, locals>>

-----------------------------------------------------------------------------
(* CancelTicket.                                                           *)

\* store.ByTicket: the newest settled payment of the seat, whoever made it.
Settled(t) == {p \in Purchases : payments[p].ticket = t
                               /\ payments[p].status \in {"succeeded", "refunded"}}
ByTicket(t) == {p \in Settled(t) : \A q \in Settled(t) : began[q] <= began[p]}

\* The row that the transaction reads, if it finds one that is not paid back yet.
ToRefund(t) == {p \in ByTicket(t) : payments[p].status # "refunded"}
Found(t) == IF ToRefund(t) = {} THEN {NoPayment} ELSE ToRefund(t)

OwnedBy(t, u) == tickets[t].status = "purchased" /\ tickets[t].user = u

\* A transaction for u's seat t begins: the first one, or one after an abort.
Attempt(c, u, t) ==
    /\ \/ pc[c] = "idle"
       \/ pc[c] = "retry" /\ caller[c] = u /\ wanted[c] = t
    /\ caller' = [caller EXCEPT ![c] = u]
    /\ wanted' = [wanted EXCEPT ![c] = t]

\* What it reads is fixed by the snapshot of its first statement.
ReadSnapshot(c, u, t) ==
    /\ Attempt(c, u, t)
    /\ OwnedBy(t, u)
    /\ \E q \in Found(t) : seen' = [seen EXCEPT ![c] = [row |-> tickets[t], payment |-> q]]
    /\ Goto(c, "commit")
    /\ UNCHANGED <<db, provider, status, claims, tries, owed>>

\* No transaction: the caller does not own the seat, or the database fails.
CancelRejected(c, u, t) ==
    /\ Attempt(c, u, t)
    /\ \/ ~OwnedBy(t, u) /\ Answer(c, 404)
       \/ "database" \in Faults /\ Answer(c, 500)
    /\ Goto(c, "done")
    /\ UNCHANGED <<db, provider, claims, seen, tries, owed>>

\* The UPDATE of a SERIALIZABLE transaction fails (40001) on a row written since its
\* snapshot.  Faulty variant: at READ COMMITTED it writes the row as it is now.
RowUnchanged_ReadCommitted(c) == tickets[wanted[c]].status = "purchased"
RowUnchanged(c) == tickets[wanted[c]] = seen[c].row

\* The closure's last statement, payment = p, where it is reached: nothing resets
\* what an attempt that was aborted has left.
Payment(c) == IF seen[c].payment = NoPayment THEN owed[c] ELSE seen[c].payment
Capture(c) == owed' = [owed EXCEPT ![c] = Payment(c)]
EndOfSnapshot(c) == seen' = [seen EXCEPT ![c] = NoSnapshot]

\* The writes of the transaction.
CancelSeat(c) ==
    /\ pc[c] = "commit"
    /\ RowUnchanged(c)
    /\ tickets' = [tickets EXCEPT ![wanted[c]] = Reopened(@)]
    /\ log' = [log EXCEPT ![c] = wanted[c]]
    /\ Enqueue("ticket.cancelled", wanted[c], caller[c])
    /\ Capture(c) /\ EndOfSnapshot(c)
    /\ UNCHANGED <<payments, provider, caller, claims, wanted, tries>>

CancelAndRefund(c) ==
    /\ Payment(c) # NoPayment
    /\ CancelSeat(c)
    /\ Goto(c, "refund")
    /\ Answer(c, 200)

\* ErrPaymentNotFound, or refunded already: there is nothing to pay back.
CancelOnly(c) ==
    /\ Payment(c) = NoPayment
    /\ CancelSeat(c)
    /\ Goto(c, "done")
    /\ Answer(c, 200)

\* The commit is applied but reported as an error: 500, and nobody refunds.
CancelUnacknowledged(c) ==
    /\ "commit" \in Faults
    /\ CancelSeat(c)
    /\ Goto(c, "done")
    /\ Answer(c, 500)

\* Aborted by its UPDATE, or as it commits: payment has a value by then.
\* Faulty variant: the attempts are not counted.
CancelAborted_Uncounted(c) ==
    /\ pc[c] = "commit"
    /\ \/ ~RowUnchanged(c) /\ UNCHANGED owed
       \/ "conflict" \in Faults /\ RowUnchanged(c) /\ Capture(c)
    /\ EndOfSnapshot(c)
    /\ UNCHANGED <<db, provider, caller, claims, wanted, tries>>
CancelAborted(c) ==
    /\ pc[c] = "commit"
    /\ \/ ~RowUnchanged(c) /\ UNCHANGED owed
       \/ "conflict" \in Faults /\ RowUnchanged(c) /\ Capture(c)
    /\ tries' = [tries EXCEPT ![c] = @ + 1]
    /\ EndOfSnapshot(c)
    /\ UNCHANGED <<db, provider, caller, claims, wanted>>

\* InSerializableTx runs the closure again, MaxTxAttempts times in all.
CancelRetries(c) ==
    /\ CancelAborted(c)
    /\ tries'[c] < MaxTxAttempts
    /\ Goto(c, "retry")
    /\ UNCHANGED status

CancelGivesUp(c) ==
    /\ CancelAborted(c)
    /\ tries'[c] = MaxTxAttempts
    /\ Goto(c, "done")
    /\ Answer(c, 500)

CancelFails(c) ==
    /\ "database" \in Faults
    /\ pc[c] = "commit"
    /\ EndOfSnapshot(c)
    /\ Goto(c, "done")
    /\ Answer(c, 500)
    /\ UNCHANGED <<db, provider, caller, claims, wanted, tries, owed>>

\* The provider pays back money it took.  A repeated key returns the first refund.
\* Faulty variant: each refund is asked for under a key of its own.
ProviderRefunds_FreshKey(c) ==
    /\ pc[c] = "refund"
    /\ owed[c] \in charged
    /\ refunds' = [refunds EXCEPT ![owed[c]] = @ + 1]
    /\ Goto(c, "refunded")
    /\ UNCHANGED <<db, intents, charged, status, locals>>
ProviderRefunds(c) ==
    /\ pc[c] = "refund"
    /\ owed[c] \in charged
    /\ refunds' = [refunds EXCEPT ![owed[c]] = IF RefundsKeyed THEN 1 ELSE @ + 1]
    /\ Goto(c, "refunded")
    /\ UNCHANGED <<db, intents, charged, status, locals>>

\* Refund returned an error: the answer says the refund is pending.
RefundFails(c) ==
    /\ \/ "outage" \in Faults /\ pc[c] = "refund"
       \/ owed[c] \notin charged /\ pc[c] = "refund"
       \/ "lost" \in Faults /\ pc[c] = "refunded"
    /\ Goto(c, "done")
    /\ UNCHANGED <<db, provider, status, locals>>

\* store.MarkRefunded's WHERE: only a succeeded payment.  Faulty variant: the
\* status is compared with the pending one.
Markable_Pending(p) == payments[p].status = "pending"
Markable(p) == payments[p].status = "succeeded"

\* markRefunded: ErrAlreadyRefunded is logged and nothing else.
MarkRefunded(c) ==
    /\ pc[c] = "refunded"
    /\ IF Markable(owed[c])
         THEN payments' = [payments EXCEPT ![owed[c]].status = "refunded"]
         ELSE UNCHANGED payments
    /\ Goto(c, "done")
    /\ UNCHANGED <<tickets, log, outbox, provider, status, locals>>

MarkRefundedFails(c) ==
    /\ "database" \in Faults
    /\ pc[c] = "refunded"
    /\ Goto(c, "done")
    /\ UNCHANGED <<db, provider, status, locals>>

-----------------------------------------------------------------------------
InFlight == {r \in Requests : pc[r] \notin Final \cup {"idle"}}

\* The process dies: what was committed stays, no request of it goes on.
Crash ==
    /\ "crash" \in Faults
    /\ InFlight # {}
    /\ pc' = [r \in Requests |-> IF r \in InFlight THEN "dead" ELSE pc[r]]
    /\ lock' = [p \in Purchases |-> NoTicket]
    /\ seen' = [c \in Cancels |-> NoSnapshot]
    /\ UNCHANGED <<db, provider, status, caller, began, wanted, tries, owed>>

\* Every request has been served or has died with the process.
Quiet ==
    /\ \A r \in Requests : pc[r] \in Final
    /\ UNCHANGED vars

PurchaseStep(p) ==
    \/ \E t \in Tickets : LockSeat(p, t)
    \/ SoldOut(p) \/ Claim(p) \/ ClaimUnacknowledged(p) \/ ClaimFails(p)
    \/ ProviderCharges(p) \/ ProviderDefers(p) \/ CardDeclined(p) \/ ProviderUnavailable(p)
    \/ ChargeAnswered(p) \/ ChargeAnswerLost(p)
    \/ Settle(p) \/ SettleFails(p)
    \/ Release(p) \/ ReleaseFails(p)

Cancel(c, u, t) == ReadSnapshot(c, u, t) \/ CancelRejected(c, u, t)

CancelStep(c) ==
    \/ pc[c] = "retry" /\ Cancel(c, caller[c], wanted[c])
    \/ CancelAndRefund(c) \/ CancelOnly(c) \/ CancelUnacknowledged(c)
    \/ CancelRetries(c) \/ CancelGivesUp(c) \/ CancelFails(c)
    \/ ProviderRefunds(c) \/ RefundFails(c)
    \/ MarkRefunded(c) \/ MarkRefundedFails(c)

Next ==
    \/ \E p \in Purchases : PurchaseStep(p) \/ \E u \in Users : BeginPurchase(p, u)
    \/ \E c \in Cancels : CancelStep(c) \/ \E u \in Users, t \in Tickets : Cancel(c, u, t)
    \/ Crash
    \/ Quiet

Spec == Init /\ [][Next]_vars

\* A request that has been received is carried on: the Go scheduler runs its
\* goroutine, the database answers, and the provider's client gives up on a
\* call in the end.  Nothing makes a client send a request.
FairSpec ==
    /\ Spec
    /\ \A p \in Purchases : WF_vars(PurchaseStep(p))
    /\ \A c \in Cancels : WF_vars(CancelStep(c))

-----------------------------------------------------------------------------
(* Properties.                                                             *)

Places == {"idle", "claim", "locked", "charge", "answer", "settle", "release",
           "commit", "retry", "refund", "refunded"} \cup Final
Seat == [status : {"available", "purchased"}, user : Users \cup {NoUser}, at : Nat]
Event == [topic : {"ticket.purchased", "ticket.cancelled"},
          ticket : Tickets, user : Users]
PaymentRow == [status : {"none", "pending", "succeeded", "failed", "refunded"},
               ticket : Tickets \cup {NoTicket}]
Snapshot == [row : Seat, payment : Purchases \cup {NoPayment}]

TablesTyped ==
    /\ tickets \in [Tickets -> Seat]
    /\ \A t \in Tickets : IF tickets[t].status = "available" THEN tickets[t] = OpenSeat
                                                          ELSE tickets[t].user \in Users
    /\ payments \in [Purchases -> PaymentRow]
    /\ log \in [Cancels -> Tickets \cup {NoTicket}]
    /\ outbox \in Seq(Event)
ProviderTyped ==
    /\ intents \subseteq Purchases /\ charged \subseteq intents
    /\ refunds \in [Purchases -> Nat]
RequestsTyped ==
    /\ pc \in [Requests -> Places]
    /\ status \in [Requests -> {0, 200, 402, 404, 409, 500, 502}]
    /\ caller \in [Requests -> Users \cup {NoUser}]
    /\ \A r \in Requests : pc[r] # "idle" => caller[r] \in Users
LocalsTyped ==
    /\ began \in [Purchases -> Nat]
    /\ lock \in [Purchases -> Tickets \cup {NoTicket}]
    /\ wanted \in [Cancels -> Tickets \cup {NoTicket}]
    /\ seen \in [Cancels -> Snapshot]
    /\ tries \in [Cancels -> 0..MaxTxAttempts]
    /\ owed \in [Cancels -> Purchases \cup {NoPayment}]

\* Every variable has its type; a seat row is open or has an owner; money is taken
\* for an intent only; and a request that has been received has a caller.
TypeOK == TablesTyped /\ ProviderTyped /\ RequestsTyped /\ LocalsTyped

\* PurchaseTicket is on its way from the commit of the claim to the end of the books.
UnderWay(p) == pc[p] \in {"charge", "answer", "settle", "release"}

\* It was cut short on that way: by the death of the process, an error for a commit that
\* was applied, or a settlement or release that failed.
CutShort(p) ==
    \/ pc[p] = "dead" /\ "crash" \in Faults
    \/ pc[p] = "done" /\ status[p] = 500 /\ "commit" \in Faults
    \/ pc[p] = "done" /\ status[p] \in {200, 402, 502} /\ "database" \in Faults

\* How far a purchase has come agrees with its payment row and its charge.
PurchaseInStep(p) ==
    /\ pc[p] \in {"idle", "claim", "locked"} => payments[p].status = "none"
    /\ pc[p] \in {"charge", "answer", "settle", "release"} => payments[p].status = "pending"
    /\ payments[p].status = "none" <=> payments[p].ticket = NoTicket
    /\ pc[p] \in {"idle", "claim", "locked", "charge"} => p \notin intents
    /\ pc[p] \in {"answer", "settle"} => p \in intents
    /\ payments[p].status \in {"succeeded", "refunded"} => p \in intents
    /\ p \in intents \ charged => "deferred" \in Faults
    /\ status[p] \in {402, 409, 500} => p \notin intents /\ pc[p] \in {"release"} \cup Final
    /\ pc[p] = "settle" => status[p] = 200
    /\ pc[p] = "release" => status[p] \in {402, 502}
    /\ payments[p].status = "pending" => UnderWay(p) \/ CutShort(p)

\* A claim holds one row, an available one, and no other claim holds it.
ClaimInStep(p) ==
    /\ pc[p] = "locked" <=> lock[p] # NoTicket
    /\ pc[p] = "locked" => /\ tickets[lock[p]].status = "available"
                           /\ \A q \in Purchases \ {p} : lock[q] # lock[p]

\* What was paid back was asked for by a cancellation that had committed, and was
\* recorded afterwards.
PaymentInStep(p) ==
    /\ refunds[p] > 0 => p \in charged /\ \E c \in Cancels : owed[c] = p /\ log[c] # NoTicket
    /\ RefundsKeyed => refunds[p] <= 1
    /\ payments[p].status = "refunded" => refunds[p] > 0

\* A payment that a cancellation read or captured, in this attempt or in one that was
\* aborted, is a settled payment of the seat that the request names.
CancelInStep(c) ==
    /\ pc[c] = "idle" => seen[c] = NoSnapshot /\ owed[c] = NoPayment
    /\ pc[c] \in {"commit", "retry", "refund", "refunded"} => wanted[c] \in Tickets
    /\ pc[c] \in {"idle", "commit", "retry"} => tries[c] < MaxTxAttempts
    /\ pc[c] \in {"refund", "refunded"} => owed[c] \in Purchases /\ log[c] # NoTicket
    /\ pc[c] = "refunded" => refunds[owed[c]] > 0
    /\ pc[c] = "commit" => seen[c].row.status = "purchased" /\ seen[c].row.user = caller[c]
    /\ log[c] # NoTicket => log[c] = wanted[c] /\ pc[c] \in {"refund", "refunded"} \cup Final
    /\ \A p \in {owed[c], seen[c].payment} \ {NoPayment} :
          payments[p].status \in {"succeeded", "refunded"} /\ payments[p].ticket = wanted[c]

\* The requests, the payments table and the provider are in step with each
\* other: what the properties below rest on.
InStep ==
    /\ \A p \in Purchases : PurchaseInStep(p) /\ ClaimInStep(p) /\ PaymentInStep(p)
    /\ \A c \in Cancels : CancelInStep(c)

\* A payment that stands behind a seat: made by its owner, not failed, and with
\* no refund paid, recorded or on its way; it is settled, about to be, or cut short.
Backs(p, t) ==
    /\ payments[p].ticket = t
    /\ payments[p].status \in {"pending", "succeeded"}
    /\ tickets[t].user = caller[p]
    /\ refunds[p] = 0
    /\ \A c \in Cancels : owed[c] = p => pc[c] \notin {"refund", "refunded"}
    /\ payments[p].status = "pending" => UnderWay(p) \/ CutShort(p)

\* Nobody keeps a seat whose money went back, and nobody has one for nothing where no
\* transaction fails and no process dies: a sold seat has a payment of its owner that is
\* settled or about to be, or whose row still says "pending" because its purchase was
\* cut short.  A customer who was refused (402, 502) has a seat in that last case only.
\* About the claim, the release and the refund path of handlers/ticket.go, across
\* every interleaving of requests that meet on one seat.
SeatBacked ==
    \A t \in Tickets : tickets[t].status = "purchased" => \E p \in Purchases : Backs(p, t)

\* "The row is already locked, so it cannot change underneath us": a claim that has
\* chosen its seat finds it unsold at its UPDATE, so that without a fault nobody is told
\* 500 for a seat that others claim, give up or release meanwhile.  About FOR UPDATE
\* SKIP LOCKED, and the status in each UPDATE of a seat.
LockedSeatUnsold ==
    \A p \in Purchases : pc[p] = "locked" => Unsold(p) # {}

\* The books never run ahead of the provider: a payment recorded as succeeded
\* has its intent there, and one recorded as refunded was paid back.  About
\* MarkStatus and MarkRefunded being called after the provider's answer only.
BooksFollowProvider ==
    \A p \in Purchases :
        /\ payments[p].status \in {"succeeded", "refunded"} => p \in intents
        /\ payments[p].status = "refunded" => refunds[p] > 0

GaveUp(u, t) == \E c \in Cancels : log[c] = t /\ caller[c] = u

\* The release of another payment of the seat may have opened it.
TakenAway(p) ==
    \E q \in Purchases \ {p} : payments[q] = [status |-> "failed", ticket |-> payments[p].ticket]

\* Only money that was taken is paid back, and only to a customer who gave the seat up,
\* or who lost it to the release of another's failed purchase; and "a ticket is refunded at
\* most once" (CancelTicket's comment) by a provider that honours the refund's key.
\* Several cancellations may aim at one payment, also such of other customers: ByTicket
\* does not look at who paid, and the variable payment keeps the value of an attempt
\* that was aborted.
RefundedOnce ==
    \A p \in Purchases : refunds[p] > 0 =>
        /\ RefundsKeyed => refunds[p] = 1
        /\ p \in charged
        /\ GaveUp(caller[p], payments[p].ticket) \/ TakenAway(p)

\* A cancellation gives up the seat of the customer who asked for it and no other,
\* though the seat may have been returned and sold again since it was looked up.
\* About CancelTicket's SERIALIZABLE transaction.
GivesUpOwnSeat ==
    \A c \in Cancels : log'[c] # log[c] => tickets[log'[c]].user = caller[c]
CancelsOwnSeat == [][GivesUpOwnSeat]_vars

\* A customer who is told "declined", "sold out" or "failed" (402, 409, 500) has
\* no charge.  About the order of claim, charge and answer in PurchaseTicket.
RefusedNotCharged ==
    \A p \in Purchases : pc[p] = "done" /\ status[p] \in {402, 409, 500} => p \notin intents

\* Row i is the last one of the outbox about seat t.
LastAbout(t, i) ==
    /\ i \in DOMAIN outbox /\ outbox[i].ticket = t
    /\ \A j \in DOMAIN outbox : j > i => outbox[j].ticket # t

\* The last outbox row of a sold seat is its owner's purchase: whoever replays
\* the outbox in id order never takes a sold seat for another customer's.
\* About Enqueue sharing the transaction of each change.
HeldSeatAnnounced ==
    \A t \in Tickets : tickets[t].status = "purchased" =>
        \E i \in DOMAIN outbox :
            LastAbout(t, i) /\ outbox[i].topic = "ticket.purchased"
                            /\ outbox[i].user = tickets[t].user

\* Row i is the one before row j, of those about the seat of row j.
Precedes(i, j) ==
    /\ i < j /\ outbox[i].ticket = outbox[j].ticket
    /\ \A k \in DOMAIN outbox : i < k /\ k < j => outbox[k].ticket # outbox[j].ticket

\* Each cancellation in the outbox undoes the purchase that comes before it about that
\* seat, of the same customer: none is written twice, for a seat that was released,
\* or for another's purchase, though the release announces nothing.  About Enqueue in
\* CancelTicket's SERIALIZABLE transaction.
CancellationsUndoPurchases ==
    \A j \in DOMAIN outbox : outbox[j].topic = "ticket.cancelled" =>
        \E i \in DOMAIN outbox :
            Precedes(i, j) /\ outbox[i].topic = "ticket.purchased"
                           /\ outbox[i].user = outbox[j].user

\* A buyer who was announced and whose seat is open all the same, with no
\* cancellation after it, is explained by a failed payment of that seat: the release
\* announces nothing, so the payments table is where the correction is found.
OpenSeatExplained ==
    \A t \in Tickets, i \in DOMAIN outbox :
        /\ tickets[t].status = "available"
        /\ LastAbout(t, i) /\ outbox[i].topic = "ticket.purchased"
        => \E p \in Purchases : payments[p] = [status |-> "failed", ticket |-> t]

\* A payment goes from none to pending, then to succeeded or failed, and from
\* succeeded to refunded, and never any other way: MarkStatus and the release
\* write without looking at the present status.
LegalMoves == {<<"none", "pending">>, <<"pending", "succeeded">>,
               <<"pending", "failed">>, <<"succeeded", "refunded">>}
PaymentMoves ==
    \A p \in Purchases : payments'[p] # payments[p] =>
        /\ <<payments[p].status, payments'[p].status>> \in LegalMoves
        /\ payments[p].status # "none" => payments'[p].ticket = payments[p].ticket
PaymentLifecycle == [][PaymentMoves]_vars

\* When no call is lost and no transaction fails, the books of a served purchase
\* are complete: nothing is left pending, and exactly the purchases recorded as
\* succeeded or refunded have an intent.  About the two ways out of the charge.
BooksComplete ==
    \A p \in Purchases : pc[p] = "done" /\ payments[p].status # "none" =>
        /\ payments[p].status # "pending"
        /\ p \in intents <=> payments[p].status \in {"succeeded", "refunded"}

\* A request that was received is answered, whatever the others do to its seat
\* and however often Postgres aborts its transaction.
RequestsServed ==
    \A r \in Requests : pc[r] # "idle" ~> pc[r] = "done"

\* A cancellation that found a payment of money to return returns it: the payment
\* ends as refunded.  About Refund and markRefunded running after the commit.
CancelledIsRefunded ==
    \A c \in Cancels, p \in Purchases :
        pc[c] = "refund" /\ owed[c] = p /\ p \in charged ~> payments[p].status = "refunded"

\* Seen from the seats and the payments table alone, the service runs the
\* ledger: PurchaseTicket sells, confirms or undoes, CancelTicket gives up and
\* pays back, and everything else leaves the ledger as it was.
Ledger == INSTANCE SeatLedger WITH
    holder <- [t \in Tickets |-> tickets[t].user],
    stage <- [p \in Purchases |-> payments[p].status],
    seat <- [p \in Purchases |-> payments[p].ticket],
    payer <- [p \in Purchases |-> IF payments[p].status = "none" THEN NoUser ELSE caller[p]]
RunsTheLedger == Ledger!Spec

(* What the code's comments say, and the code does not do.                 *)

\* payments/provider.go: "Charge is the result of a successful authorisation and
\* capture": what the books call succeeded, the provider has taken.
SucceededIsCaptured ==
    \A p \in Purchases : payments[p].status = "succeeded" => p \in charged

\* handlers/ticket.go, before releaseAfterFailedCharge: "the money did not move,
\* so the seat must go back": the seat that this purchase took, not another's.
ReleasesOwnSeat ==
    \A p \in Purchases : pc[p] = "release" /\ pc'[p] = "done" =>
        \A t \in Tickets : tickets'[t] # tickets[t] => tickets[t].user = caller[p]
ReleaseReturnsOwnSeat == [][ReleasesOwnSeat]_vars
=============================================================================
