------------------------- MODULE TicketSalesProofs -------------------------
(***************************************************************************)
(* Proofs about TicketSales, for any number of customers, seats and        *)
(* requests and any set of faults.                                         *)
(***************************************************************************)
EXTENDS TicketSales, FiniteSetTheorems, TLAPS

(* Whatever the row, the UPDATE of a cancellation or a release opens it.   *)
LEMMA ReopenedIsOpen == ASSUME NEW row \in Seat PROVE Reopened(row) = OpenSeat
<1>1. Reopened(row) \in Seat /\ OpenSeat \in Seat
  BY DEF Reopened, OpenSeat, Seat
<1>2. /\ Reopened(row).status = "available" /\ Reopened(row).user = NoUser
      /\ Reopened(row).at = 0
  BY DEF Reopened, Seat
<1>3. OpenSeat.status = "available" /\ OpenSeat.user = NoUser /\ OpenSeat.at = 0
  BY DEF OpenSeat
<1>4. \A r, s \in Seat : r.status = s.status /\ r.user = s.user /\ r.at = s.at => r = s
  BY DEF Seat
<1> QED BY <1>1, <1>2, <1>3, <1>4

(* What the two kinds of row hold.                                         *)
LEMMA RowContents ==
    /\ OpenSeat \in Seat /\ OpenSeat.status = "available" /\ OpenSeat.user = NoUser
    /\ \A u \in Users, n \in Nat :
          Sold(u, n) \in Seat /\ Sold(u, n).status = "purchased" /\ Sold(u, n).user = u
  BY DEF Seat, OpenSeat, Sold

(* Every row of the table is an open seat or is sold to a customer.        *)
LEMMA RowKinds ==
    ASSUME TypeOK, NEW t \in Tickets
    PROVE  /\ Reopened(tickets[t]) = OpenSeat
           /\ tickets[t].status = "available" => tickets[t] = OpenSeat
           /\ tickets[t].status # "available" =>
                tickets[t].status = "purchased" /\ tickets[t].user \in Users
<1>1. tickets[t] \in Seat
  BY DEF TypeOK, TablesTyped
<1> QED BY <1>1, ReopenedIsOpen DEF TypeOK, TablesTyped, Seat

(* The UPDATE of a seat to an open or a sold row keeps the table typed.    *)
LEMMA RowsTyped ==
    ASSUME TypeOK,
           \A t \in Tickets : \/ tickets'[t] = tickets[t] \/ tickets'[t] = OpenSeat
                              \/ \E u \in Users, n \in Nat : tickets'[t] = Sold(u, n),
           tickets' = [t \in Tickets |-> tickets'[t]]
    PROVE  /\ tickets' \in [Tickets -> Seat]
           /\ \A t \in Tickets : IF tickets'[t].status = "available" THEN tickets'[t] = OpenSeat
                                                       ELSE tickets'[t].user \in Users
<1>1. ASSUME NEW t \in Tickets
      PROVE  /\ tickets'[t] \in Seat
             /\ IF tickets'[t].status = "available" THEN tickets'[t] = OpenSeat
                                                     ELSE tickets'[t].user \in Users
  BY RowContents DEF TypeOK, TablesTyped
<1> QED BY <1>1

LEMMA TypeInit == Init => TypeOK
  BY SalesAssumption, RowContents
  DEF Init, TypeOK, TablesTyped, ProviderTyped, RequestsTyped, LocalsTyped, PaymentRow, NoRow,
      Event, Places, Final, Requests, Snapshot, NoSnapshot, MaxTxAttempts

(* The UPDATEs of one payment's status keep the table well-typed.          *)
LEMMA StatusUpdate ==
    ASSUME TypeOK, NEW p \in Purchases, NEW s \in {"succeeded", "failed", "refunded"}
    PROVE  [payments EXCEPT ![p].status = s] \in [Purchases -> PaymentRow]
<1>1. [payments[p] EXCEPT !.status = s] \in PaymentRow
  BY DEF TypeOK, TablesTyped, PaymentRow
<1> QED BY <1>1 DEF TypeOK, TablesTyped

(* A payment that a cancellation finds, reads or captures is a purchase's. *)
LEMMA PaymentTyped ==
    ASSUME TypeOK, NEW c \in Cancels
    PROVE  Payment(c) \in Purchases \cup {NoPayment}
  BY DEF TypeOK, LocalsTyped, Snapshot, Payment

(* The tables: only the transactions write them.                           *)
LEMMA TablesNext == TypeOK /\ InStep /\ [Next]_vars => TablesTyped'
<1> SUFFICES ASSUME TypeOK, InStep, [Next]_vars PROVE TablesTyped'
  OBVIOUS
<1> USE SalesAssumption DEF Requests, db, provider, locals, claims, cancels
<1>1. ASSUME UNCHANGED db PROVE TablesTyped'
  BY <1>1 DEF TypeOK, TablesTyped
<1>2. ASSUME NEW p \in Purchases, ClaimSeat(p) PROVE TablesTyped'
  <2>1. caller[p] \in Users /\ lock[p] \in Tickets /\ began[p] \in Nat
    BY <1>2 DEF ClaimSeat, TypeOK, RequestsTyped, LocalsTyped, InStep, ClaimInStep
  <2>2. [topic |-> "ticket.purchased", ticket |-> lock[p], user |-> caller[p]] \in Event
    BY <2>1 DEF Event
  <2>3. outbox' \in Seq(Event)
    BY <1>2, <2>2 DEF TypeOK, TablesTyped, ClaimSeat, Enqueue
  <2>4. /\ tickets' = [t \in Tickets |-> tickets'[t]]
        /\ \A t \in Tickets : tickets'[t] = tickets[t] \/ tickets'[t] = Sold(caller[p], began[p])
    BY <1>2 DEF TypeOK, TablesTyped, ClaimSeat
  <2>5. payments' \in [Purchases -> PaymentRow]
    BY <1>2, <2>1 DEF TypeOK, TablesTyped, ClaimSeat, PaymentRow
  <2> QED BY <1>2, <2>1, <2>3, <2>4, <2>5, RowsTyped DEF TypeOK, TablesTyped, ClaimSeat
<1>3. ASSUME NEW p \in Purchases, Settle(p) PROVE TablesTyped'
  BY <1>3, StatusUpdate DEF TypeOK, TablesTyped, Settle, MarkStatus
<1>4. ASSUME NEW p \in Purchases, Release(p) PROVE TablesTyped'
  <2>1. /\ tickets' = [t \in Tickets |-> tickets'[t]]
        /\ \A t \in Tickets : tickets'[t] = tickets[t] \/ tickets'[t] = OpenSeat
    BY <1>4, RowKinds DEF Release
  <2> QED BY <1>4, <2>1, RowsTyped, StatusUpdate DEF TypeOK, TablesTyped, Release, MarkStatus
<1>5. ASSUME NEW c \in Cancels, CancelSeat(c) PROVE TablesTyped'
  <2>1. caller[c] \in Users /\ wanted[c] \in Tickets
    BY <1>5 DEF CancelSeat, TypeOK, RequestsTyped, InStep, CancelInStep
  <2>2. [topic |-> "ticket.cancelled", ticket |-> wanted[c], user |-> caller[c]] \in Event
    BY <2>1 DEF Event
  <2>3. outbox' \in Seq(Event)
    BY <1>5, <2>2 DEF TypeOK, TablesTyped, CancelSeat, Enqueue
  <2>4. /\ tickets' = [t \in Tickets |-> tickets'[t]]
        /\ \A t \in Tickets : tickets'[t] = tickets[t] \/ tickets'[t] = OpenSeat
    BY <1>5, <2>1, RowKinds DEF CancelSeat, TypeOK, TablesTyped
  <2> QED BY <1>5, <2>1, <2>3, <2>4, RowsTyped DEF TypeOK, TablesTyped, CancelSeat
<1>6. ASSUME NEW c \in Cancels, MarkRefunded(c) PROVE TablesTyped'
  <2>1. owed[c] \in Purchases
    BY <1>6 DEF MarkRefunded, InStep, CancelInStep
  <2>2. /\ UNCHANGED <<tickets, log, outbox>>
        /\ \/ payments' = [payments EXCEPT ![owed[c]].status = "refunded"]
           \/ UNCHANGED payments
    BY <1>6 DEF MarkRefunded
  <2>3. payments' \in [Purchases -> PaymentRow]
    BY <2>1, <2>2, StatusUpdate DEF TypeOK, TablesTyped
  <2> QED BY <2>2, <2>3 DEF TypeOK, TablesTyped
<1>7. ASSUME NEW p \in Purchases, PurchaseStep(p) \/ \E u \in Users : BeginPurchase(p, u)
      PROVE  TablesTyped'
  <2>1. CASE \/ \E u \in Users : BeginPurchase(p, u)
             \/ \E t \in Tickets : LockSeat(p, t)
    BY <1>1, <2>1 DEF BeginPurchase, LockSeat
  <2>2. CASE SoldOut(p) \/ Claim(p) \/ ClaimUnacknowledged(p) \/ ClaimFails(p)
    BY <1>1, <1>2, <2>2 DEF SoldOut, Claim, ClaimUnacknowledged, ClaimFails
  <2>3. CASE ProviderCharges(p) \/ ProviderDefers(p) \/ CardDeclined(p) \/ ProviderUnavailable(p)
    BY <1>1, <2>3
    DEF ProviderCharges, ProviderDefers, CardDeclined, ProviderUnavailable, ChargeError
  <2>4. CASE ChargeAnswered(p) \/ ChargeAnswerLost(p) \/ SettleFails(p) \/ ReleaseFails(p)
    BY <1>1, <2>4 DEF ChargeAnswered, ChargeAnswerLost, ChargeError, SettleFails, ReleaseFails
  <2> QED BY <1>3, <1>4, <1>7, <2>1, <2>2, <2>3, <2>4 DEF PurchaseStep
<1>8. ASSUME NEW c \in Cancels, CancelStep(c) \/ \E u \in Users, t \in Tickets : Cancel(c, u, t)
      PROVE  TablesTyped'
  BY <1>1, <1>5, <1>6, <1>8
  DEF CancelStep, Cancel, ReadSnapshot, CancelRejected, CancelAndRefund, CancelOnly,
      CancelUnacknowledged, CancelRetries, CancelGivesUp, CancelAborted, CancelFails,
      ProviderRefunds, RefundFails, MarkRefundedFails
<1> QED BY <1>1, <1>7, <1>8 DEF Next, Crash, Quiet, vars

(* The provider: it charges, defers and refunds.                           *)
LEMMA ProviderNext == TypeOK /\ InStep /\ [Next]_vars => ProviderTyped'
<1> SUFFICES ASSUME TypeOK, InStep, [Next]_vars PROVE ProviderTyped'
  OBVIOUS
<1> USE DEF Requests, db, provider, locals, claims, cancels
<1>1. ASSUME UNCHANGED provider PROVE ProviderTyped'
  BY <1>1 DEF TypeOK, ProviderTyped
<1>2. ASSUME NEW p \in Purchases, ProviderCharges(p) \/ ProviderDefers(p) PROVE ProviderTyped'
  BY <1>2 DEF ProviderCharges, ProviderDefers, TypeOK, ProviderTyped
<1>3. ASSUME NEW c \in Cancels, ProviderRefunds(c) PROVE ProviderTyped'
  <2>1. owed[c] \in Purchases /\ refunds[owed[c]] \in Nat
    BY <1>3 DEF ProviderRefunds, InStep, CancelInStep, TypeOK, ProviderTyped
  <2>2. (IF RefundsKeyed THEN 1 ELSE refunds[owed[c]] + 1) \in Nat
    BY <2>1
  <2> QED BY <1>3, <2>1, <2>2 DEF ProviderRefunds, TypeOK, ProviderTyped
<1>4. ASSUME NEW p \in Purchases, PurchaseStep(p) \/ \E u \in Users : BeginPurchase(p, u)
      PROVE  ProviderTyped'
  <2>1. CASE \/ \E u \in Users : BeginPurchase(p, u)
             \/ \E t \in Tickets : LockSeat(p, t)
    BY <1>1, <2>1 DEF BeginPurchase, LockSeat
  <2>2. CASE SoldOut(p) \/ Claim(p) \/ ClaimUnacknowledged(p) \/ ClaimFails(p)
    BY <1>1, <2>2 DEF SoldOut, Claim, ClaimUnacknowledged, ClaimSeat, ClaimFails
  <2>3. CASE CardDeclined(p) \/ ProviderUnavailable(p) \/ ChargeAnswered(p) \/ ChargeAnswerLost(p)
    BY <1>1, <2>3
    DEF CardDeclined, ProviderUnavailable, ChargeAnswered, ChargeAnswerLost, ChargeError
  <2>4. CASE Settle(p) \/ SettleFails(p) \/ Release(p) \/ ReleaseFails(p)
    BY <1>1, <2>4 DEF Settle, SettleFails, Release, ReleaseFails
  <2> QED BY <1>2, <1>4, <2>1, <2>2, <2>3, <2>4 DEF PurchaseStep
<1>5. ASSUME NEW c \in Cancels, CancelStep(c) \/ \E u \in Users, t \in Tickets : Cancel(c, u, t)
      PROVE  ProviderTyped'
  BY <1>1, <1>3, <1>5
  DEF CancelStep, Cancel, ReadSnapshot, CancelRejected, CancelAndRefund, CancelOnly,
      CancelUnacknowledged, CancelSeat, CancelRetries, CancelGivesUp, CancelAborted, CancelFails,
      RefundFails, MarkRefunded, MarkRefundedFails
<1> QED BY <1>1, <1>4, <1>5 DEF Next, Crash, Quiet, vars

(* The places, answers and callers of the requests.                        *)
LEMMA RequestsNext == TypeOK /\ [Next]_vars => RequestsTyped'
<1> SUFFICES ASSUME TypeOK, [Next]_vars PROVE RequestsTyped'
  OBVIOUS
<1> USE SalesAssumption DEF Requests, Places, Final, locals, claims, cancels, Goto, Answer,
                            TypeOK, RequestsTyped
<1>1. ASSUME NEW p \in Purchases, PurchaseStep(p) \/ \E u \in Users : BeginPurchase(p, u)
      PROVE  RequestsTyped'
  <2>1. ASSUME NEW u \in Users, BeginPurchase(p, u) PROVE RequestsTyped'
    BY <2>1 DEF BeginPurchase
  <2>2. ASSUME NEW t \in Tickets, LockSeat(p, t) PROVE RequestsTyped'
    BY <2>2 DEF LockSeat
  <2>3. CASE SoldOut(p) \/ Claim(p) \/ ClaimUnacknowledged(p) \/ ClaimFails(p)
    BY <2>3 DEF SoldOut, Claim, ClaimUnacknowledged, ClaimSeat, ClaimFails
  <2>4. CASE \/ ProviderCharges(p) \/ ProviderDefers(p) \/ CardDeclined(p)
             \/ ProviderUnavailable(p) \/ ChargeAnswered(p) \/ ChargeAnswerLost(p)
    BY <2>4 DEF ProviderCharges, ProviderDefers, CardDeclined, ProviderUnavailable,
                ChargeAnswered, ChargeAnswerLost, ChargeError
  <2>5. CASE Settle(p) \/ SettleFails(p) \/ Release(p) \/ ReleaseFails(p)
    BY <2>5 DEF Settle, SettleFails, Release, ReleaseFails
  <2> QED BY <1>1, <2>1, <2>2, <2>3, <2>4, <2>5 DEF PurchaseStep
<1>2. ASSUME NEW c \in Cancels, CancelStep(c) \/ \E u \in Users, t \in Tickets : Cancel(c, u, t)
      PROVE  RequestsTyped'
  <2>1. ASSUME NEW u \in Users, NEW t \in Tickets, Cancel(c, u, t) PROVE RequestsTyped'
    BY <2>1 DEF Cancel, ReadSnapshot, CancelRejected, Attempt
  <2>2. CASE pc[c] = "retry" /\ Cancel(c, caller[c], wanted[c])
    BY <2>2 DEF Cancel, ReadSnapshot, CancelRejected, Attempt
  <2>3. CASE CancelAndRefund(c) \/ CancelOnly(c) \/ CancelUnacknowledged(c)
    BY <2>3 DEF CancelAndRefund, CancelOnly, CancelUnacknowledged, CancelSeat
  <2>4. CASE CancelRetries(c) \/ CancelGivesUp(c) \/ CancelFails(c)
    BY <2>4 DEF CancelRetries, CancelGivesUp, CancelFails, CancelAborted
  <2>5. CASE ProviderRefunds(c) \/ RefundFails(c) \/ MarkRefunded(c) \/ MarkRefundedFails(c)
    BY <2>5 DEF ProviderRefunds, RefundFails, MarkRefunded, MarkRefundedFails
  <2> QED BY <1>2, <2>1, <2>2, <2>3, <2>4, <2>5 DEF CancelStep
<1>3. CASE Crash
  BY <1>3 DEF Crash, InFlight
<1>4. CASE UNCHANGED vars
  BY <1>4 DEF vars
<1> QED BY <1>1, <1>2, <1>3, <1>4 DEF Next, Quiet

(* What the requests keep for themselves.                                  *)
LEMMA LocalsNext == TypeOK /\ InStep /\ [Next]_vars => LocalsTyped'
<1> SUFFICES ASSUME TypeOK, InStep, [Next]_vars PROVE LocalsTyped'
  OBVIOUS
<1> USE SalesAssumption DEF Requests, locals, claims, cancels
<1>1. ASSUME NEW p \in Purchases, PurchaseStep(p) \/ \E u \in Users : BeginPurchase(p, u)
      PROVE  LocalsTyped'
  <2>1. ASSUME NEW u \in Users, BeginPurchase(p, u) PROVE LocalsTyped'
    <3>1. Cardinality({q \in Purchases : began[q] > 0}) \in Nat
      BY FS_Subset, FS_CardinalityType
    <3> QED BY <2>1, <3>1 DEF BeginPurchase, TypeOK, LocalsTyped
  <2>2. ASSUME NEW t \in Tickets, LockSeat(p, t) PROVE LocalsTyped'
    BY <2>2 DEF LockSeat, TypeOK, LocalsTyped
  <2>3. CASE Claim(p) \/ ClaimUnacknowledged(p) \/ ClaimFails(p)
    BY <2>3 DEF Claim, ClaimUnacknowledged, ClaimSeat, ClaimFails, Unlock, TypeOK, LocalsTyped
  <2>4. CASE UNCHANGED locals
    BY <2>4 DEF TypeOK, LocalsTyped
  <2> QED BY <1>1, <2>1, <2>2, <2>3, <2>4
      DEF PurchaseStep, SoldOut, ProviderCharges, ProviderDefers, CardDeclined,
          ProviderUnavailable, ChargeAnswered, ChargeAnswerLost, ChargeError, Settle,
          SettleFails, Release, ReleaseFails
<1>2. ASSUME NEW c \in Cancels, CancelStep(c) \/ \E u \in Users, t \in Tickets : Cancel(c, u, t)
      PROVE  LocalsTyped'
  <2>0. NoSnapshot \in Snapshot /\ Payment(c) \in Purchases \cup {NoPayment}
    BY RowContents, PaymentTyped DEF NoSnapshot, Snapshot
  <2>1. ASSUME NEW u \in Users, NEW t \in Tickets, ReadSnapshot(c, u, t) PROVE LocalsTyped'
    <3>1. PICK q \in Found(t) : seen' = [seen EXCEPT ![c] = [row |-> tickets[t], payment |-> q]]
      BY <2>1 DEF ReadSnapshot
    <3>2. [row |-> tickets[t], payment |-> q] \in Snapshot
      BY DEF Found, ToRefund, ByTicket, Settled, TypeOK, TablesTyped, Snapshot
    <3> QED BY <2>1, <3>1, <3>2 DEF ReadSnapshot, Attempt, TypeOK, LocalsTyped
  <2>2. ASSUME NEW u \in Users, NEW t \in Tickets, CancelRejected(c, u, t) PROVE LocalsTyped'
    BY <2>2 DEF CancelRejected, Attempt, TypeOK, LocalsTyped
  <2>3. CASE CancelAndRefund(c) \/ CancelOnly(c) \/ CancelUnacknowledged(c)
    BY <2>0, <2>3 DEF CancelAndRefund, CancelOnly, CancelUnacknowledged, CancelSeat, Capture,
                EndOfSnapshot, TypeOK, LocalsTyped
  <2>4. CASE CancelRetries(c) \/ CancelGivesUp(c)
    <3>1. CancelAborted(c)
      BY <2>4 DEF CancelRetries, CancelGivesUp
    <3>2. tries[c] \in 0..MaxTxAttempts /\ tries[c] < MaxTxAttempts
      BY <3>1 DEF CancelAborted, InStep, CancelInStep, TypeOK, LocalsTyped
    <3>3. tries' \in [Cancels -> 0..MaxTxAttempts]
      BY <3>1, <3>2 DEF CancelAborted, TypeOK, LocalsTyped, MaxTxAttempts
    <3>4. owed' \in [Cancels -> Purchases \cup {NoPayment}]
      BY <2>0, <3>1 DEF CancelAborted, Capture, TypeOK, LocalsTyped
    <3> QED BY <2>0, <3>1, <3>3, <3>4 DEF CancelAborted, EndOfSnapshot, TypeOK, LocalsTyped
  <2>5. CASE CancelFails(c)
    BY <2>0, <2>5 DEF CancelFails, EndOfSnapshot, TypeOK, LocalsTyped
  <2>6. CASE UNCHANGED locals
    BY <2>6 DEF TypeOK, LocalsTyped
  <2>7. pc[c] = "retry" => caller[c] \in Users /\ wanted[c] \in Tickets
    BY DEF TypeOK, RequestsTyped, InStep, CancelInStep
  <2> QED BY <1>2, <2>1, <2>2, <2>3, <2>4, <2>5, <2>6, <2>7
      DEF CancelStep, Cancel, ProviderRefunds, RefundFails, MarkRefunded, MarkRefundedFails
<1>3. CASE Crash
  <2>1. NoSnapshot \in Snapshot
    BY RowContents DEF NoSnapshot, Snapshot
  <2> QED BY <1>3, <2>1 DEF Crash, TypeOK, LocalsTyped
<1>4. CASE UNCHANGED vars
  BY <1>4 DEF vars, TypeOK, LocalsTyped
<1> QED BY <1>1, <1>2, <1>3, <1>4 DEF Next, Quiet

LEMMA TypeNext == TypeOK /\ InStep /\ [Next]_vars => TypeOK'
  BY TablesNext, ProviderNext, RequestsNext, LocalsNext DEF TypeOK
-----------------------------------------------------------------------------
(* The requests, the table and the provider stay in step.                  *)

LEMMA InStepInit == Init => InStep
<1> SUFFICES ASSUME Init PROVE InStep
  OBVIOUS
<1> USE SalesAssumption DEF Init, NoRow, NoSnapshot, Requests, Final, MaxTxAttempts
<1>1. ASSUME NEW p \in Purchases PROVE PurchaseInStep(p) /\ ClaimInStep(p) /\ PaymentInStep(p)
  BY DEF PurchaseInStep, ClaimInStep, PaymentInStep
<1>2. ASSUME NEW c \in Cancels PROVE CancelInStep(c)
  BY DEF CancelInStep
<1> QED BY <1>1, <1>2 DEF InStep

(* The claims: a step that takes and gives up no lock, and sells no seat,  *)
(* leaves them in step.                                                    *)
LEMMA ClaimFrame ==
    ASSUME InStep, UNCHANGED lock,
           \A p \in Purchases : pc'[p] = "locked" <=> pc[p] = "locked",
           \A t \in Tickets : tickets[t].status = "available" => tickets'[t].status = "available",
           \A p \in Purchases : lock[p] \in Tickets \cup {NoTicket},
           NEW p \in Purchases
    PROVE  ClaimInStep(p)'
  BY SalesAssumption DEF InStep, ClaimInStep

LEMMA ClaimsNext ==
    ASSUME TypeOK, InStep, [Next]_vars, NEW q \in Purchases
    PROVE  ClaimInStep(q)'
<1> USE SalesAssumption DEF Requests, Goto, db, provider, locals, claims, cancels
<1>0. /\ \A p \in Purchases : lock[p] \in Tickets \cup {NoTicket}
      /\ pc \in [Requests -> Places] /\ \A p \in Purchases : ClaimInStep(p)
  BY DEF TypeOK, LocalsTyped, RequestsTyped, InStep
<1>1. ASSUME NEW p \in Purchases, NEW t \in Tickets, LockSeat(p, t) PROVE ClaimInStep(q)'
  <2>1. t \in Tickets /\ tickets[t].status = "available" /\ \A r \in Purchases : lock[r] # t
    BY <1>1 DEF LockSeat, Claimable, Available, Locked
  <2>2. /\ lock' = [lock EXCEPT ![p] = t] /\ pc' = [pc EXCEPT ![p] = "locked"]
        /\ UNCHANGED tickets
    BY <1>1 DEF LockSeat
  <2>3. lock \in [Purchases -> Tickets \cup {NoTicket}]
    BY DEF TypeOK, LocalsTyped
  <2> QED BY <1>0, <2>1, <2>2, <2>3 DEF ClaimInStep
<1>2. ASSUME NEW p \in Purchases, ClaimSeat(p), pc' \in {[pc EXCEPT ![p] = "charge"], [pc EXCEPT ![p] = "done"]}
      PROVE  ClaimInStep(q)'
  <2>1. /\ tickets' = [tickets EXCEPT ![lock[p]] = Sold(caller[p], began[p])]
        /\ Unlock(p) /\ pc[p] = "locked"
    BY <1>2 DEF ClaimSeat
  <2>2. /\ tickets \in [Tickets -> Seat]
        /\ lock \in [Purchases -> Tickets \cup {NoTicket}]
    BY DEF TypeOK, TablesTyped, LocalsTyped
  <2>3. \A t \in Tickets \ {lock[p]} : tickets'[t] = tickets[t]
    BY ONLY <2>1, <2>2
  <2>4. lock' = [lock EXCEPT ![p] = NoTicket]
    BY <2>1 DEF Unlock
  <2>5. pc'[p] # "locked" /\ lock'[p] = NoTicket
    BY <1>0, <1>2, <2>2, <2>4
  <2>6. \A r \in Purchases \ {p} : pc'[r] = pc[r] /\ lock'[r] = lock[r]
    BY <1>0, <1>2, <2>2, <2>4
  <2>7. CASE q = p
    BY <2>5, <2>7 DEF ClaimInStep
  <2>8. CASE q # p /\ pc[q] # "locked"
    BY <1>0, <2>6, <2>8 DEF ClaimInStep
  <2>9. ASSUME q # p, pc[q] = "locked" PROVE ClaimInStep(q)'
    <3>1. lock[q] # lock[p] /\ lock[q] \in Tickets /\ tickets'[lock[q]] = tickets[lock[q]]
      BY <1>0, <2>1, <2>2, <2>3, <2>9 DEF ClaimInStep
    <3>2. \A r \in Purchases \ {q} : lock'[r] # lock'[q]
      BY <1>0, <2>2, <2>5, <2>6, <2>9, <3>1 DEF ClaimInStep
    <3> QED BY <1>0, <2>6, <2>9, <3>1, <3>2 DEF ClaimInStep
  <2> QED BY <2>7, <2>8, <2>9
<1>3. ASSUME NEW p \in Purchases, ClaimFails(p) PROVE ClaimInStep(q)'
  <2>1. /\ lock' = [lock EXCEPT ![p] = NoTicket] /\ pc' = [pc EXCEPT ![p] = "done"]
        /\ UNCHANGED tickets
    BY <1>3 DEF ClaimFails, Unlock
  <2>2. lock \in [Purchases -> Tickets \cup {NoTicket}]
    BY DEF TypeOK, LocalsTyped
  <2> QED BY <1>0, <2>1, <2>2 DEF ClaimInStep
<1>4. CASE Crash
  <2>1. lock' = [p \in Purchases |-> NoTicket] /\ pc'[q] # "locked"
    BY <1>0, <1>4 DEF Crash, InFlight, Final
  <2> QED BY <2>1 DEF ClaimInStep
<1>5. ASSUME NEW p \in Purchases, Release(p) PROVE ClaimInStep(q)'
  <2>1. \A t \in Tickets : tickets[t].status = "available" => tickets'[t] = tickets[t]
    BY <1>5 DEF Release, Releasable
  <2> QED BY <1>0, <1>5, <2>1, ClaimFrame DEF Release
<1>6. ASSUME NEW p \in Purchases,
             \/ \E u \in Users : BeginPurchase(p, u)
             \/ SoldOut(p) \/ ProviderCharges(p) \/ ProviderDefers(p) \/ CardDeclined(p)
             \/ ProviderUnavailable(p) \/ ChargeAnswered(p) \/ ChargeAnswerLost(p)
             \/ Settle(p) \/ SettleFails(p) \/ ReleaseFails(p)
      PROVE  ClaimInStep(q)'
  <2>1. UNCHANGED <<lock, tickets>>
    BY <1>6 DEF BeginPurchase, SoldOut, ProviderCharges, ProviderDefers, CardDeclined,
                ProviderUnavailable, ChargeAnswered, ChargeAnswerLost, ChargeError, Settle,
                SettleFails, ReleaseFails
  <2>2. \A r \in Purchases : pc'[r] = "locked" <=> pc[r] = "locked"
    BY <1>0, <1>6 DEF BeginPurchase, SoldOut, ProviderCharges, ProviderDefers, CardDeclined,
                ProviderUnavailable, ChargeAnswered, ChargeAnswerLost, ChargeError, Settle,
                SettleFails, ReleaseFails
  <2> QED BY <1>0, <2>1, <2>2, ClaimFrame
<1>7. ASSUME NEW c \in Cancels, CancelStep(c) \/ \E u \in Users, t \in Tickets : Cancel(c, u, t)
      PROVE  ClaimInStep(q)'
  <2>1. UNCHANGED lock
    BY <1>7 DEF CancelStep, Cancel, ReadSnapshot, CancelRejected, CancelAndRefund, CancelOnly,
      CancelUnacknowledged, CancelSeat, CancelRetries, CancelGivesUp, CancelAborted, CancelFails,
      ProviderRefunds, RefundFails, MarkRefunded, MarkRefundedFails
  <2>2. \A r \in Purchases : pc'[r] = pc[r]
    BY <1>0, <1>7 DEF CancelStep, Cancel, ReadSnapshot, CancelRejected, CancelAndRefund, CancelOnly,
      CancelUnacknowledged, CancelSeat, CancelRetries, CancelGivesUp, CancelAborted, CancelFails,
      ProviderRefunds, RefundFails, MarkRefunded, MarkRefundedFails
  <2>3. \A t \in Tickets : tickets[t].status = "available" => tickets'[t].status = "available"
    <3>1. CASE CancelSeat(c)
      BY <3>1, RowKinds, RowContents DEF CancelSeat, TypeOK, TablesTyped
    <3>2. CASE UNCHANGED tickets
      BY <3>2
    <3> QED BY <1>7, <3>1, <3>2
        DEF CancelStep, Cancel, ReadSnapshot, CancelRejected, CancelAndRefund, CancelOnly,
            CancelUnacknowledged, CancelRetries, CancelGivesUp, CancelAborted, CancelFails,
            ProviderRefunds, RefundFails, MarkRefunded, MarkRefundedFails
  <2> QED BY <1>0, <2>1, <2>2, <2>3, ClaimFrame
<1>8. CASE UNCHANGED vars
  BY <1>0, <1>8, ClaimFrame DEF vars
<1> QED
  BY <1>1, <1>2, <1>3, <1>4, <1>5, <1>6, <1>7, <1>8
  DEF Next, PurchaseStep, Claim, ClaimUnacknowledged, Quiet
(* A step of purchase p that leaves the refunds and the cancellations alone *)
(* need only be examined at p.                                              *)
LEMMA PurchaseFrame ==
    ASSUME TypeOK, InStep, NEW p \in Purchases, NEW place, NEW code, NEW row,
           Goto(p, place), status' = [status EXCEPT ![p] = code],
           payments' = [payments EXCEPT ![p] = row],
           \A c \in Cancels : caller'[c] = caller[c],
           intents' \in {intents, intents \cup {p}}, charged' \in {charged, charged \cup {p}},
           UNCHANGED <<log, refunds, cancels>>,
           row.status # "refunded", payments[p].status \notin {"succeeded", "refunded"},
           PurchaseInStep(p)'
    PROVE  /\ \A q \in Purchases : PurchaseInStep(q)' /\ PaymentInStep(q)'
           /\ \A c \in Cancels : CancelInStep(c)'
<1> USE SalesAssumption DEF Requests, Goto, cancels
<1>1. ASSUME NEW q \in Purchases PROVE PurchaseInStep(q)'
  BY DEF InStep, PurchaseInStep, UnderWay, CutShort, TypeOK, TablesTyped, RequestsTyped, Final
<1>2. ASSUME NEW q \in Purchases PROVE PaymentInStep(q)'
  BY DEF InStep, PaymentInStep, TypeOK, TablesTyped
<1>3. ASSUME NEW c \in Cancels PROVE CancelInStep(c)'
  BY DEF InStep, CancelInStep, TypeOK, TablesTyped, RequestsTyped
<1> QED BY <1>1, <1>2, <1>3

LEMMA InStepPurchase ==
    ASSUME TypeOK, InStep, NEW p \in Purchases,
           PurchaseStep(p) \/ \E u \in Users : BeginPurchase(p, u)
    PROVE  /\ \A q \in Purchases : PurchaseInStep(q)' /\ PaymentInStep(q)'
           /\ \A c \in Cancels : CancelInStep(c)'
<1> DEFINE Goal == /\ \A q \in Purchases : PurchaseInStep(q)' /\ PaymentInStep(q)'
                   /\ \A c \in Cancels : CancelInStep(c)'
<1> SUFFICES Goal
  OBVIOUS
<1> HIDE DEF Goal
<1> USE SalesAssumption DEF Requests, Goto, Answer, db, provider, locals, claims
<1>0. /\ payments = [payments EXCEPT ![p] = payments[p]]
      /\ status = [status EXCEPT ![p] = status[p]]
      /\ pc[p] \in Places /\ PurchaseInStep(p) /\ ClaimInStep(p)
      /\ lock[p] \in Tickets \cup {NoTicket}
  BY DEF TypeOK, TablesTyped, RequestsTyped, LocalsTyped, InStep
<1>1. ASSUME NEW u \in Users, BeginPurchase(p, u) PROVE Goal
  <2>1. PurchaseInStep(p)' /\ payments[p].status = "none"
    BY <1>0, <1>1 DEF BeginPurchase, PurchaseInStep, UnderWay, CutShort, TypeOK, RequestsTyped, Final
  <2>2. \A c \in Cancels : caller'[c] = caller[c]
    BY <1>1 DEF BeginPurchase, TypeOK, RequestsTyped
  <2> QED BY <1>0, <1>1, <2>1, <2>2, PurchaseFrame DEF BeginPurchase, Goal
<1>2. CASE Claim(p) \/ ClaimUnacknowledged(p)
  <2> DEFINE row == [status |-> "pending", ticket |-> lock[p]]
  <2>1. ClaimSeat(p) /\ payments' = [payments EXCEPT ![p] = row] /\ lock[p] # NoTicket
    BY <1>0, <1>2 DEF Claim, ClaimUnacknowledged, ClaimSeat, ClaimInStep
  <2>2. PurchaseInStep(p)' /\ payments[p].status = "none"
    BY <1>0, <1>2, <2>1
    DEF Claim, ClaimUnacknowledged, ClaimSeat, PurchaseInStep, UnderWay, CutShort, TypeOK, TablesTyped, RequestsTyped, Final
  <2>3. row.status = "pending"
    OBVIOUS
  <2> HIDE DEF row
  <2>4. CASE Claim(p)
    BY <1>0, <2>1, <2>2, <2>3, <2>4, PurchaseFrame DEF Claim, ClaimSeat, Goal
  <2>5. CASE ClaimUnacknowledged(p)
    BY <1>0, <2>1, <2>2, <2>3, <2>5, PurchaseFrame DEF ClaimUnacknowledged, ClaimSeat, Goal
  <2> QED BY <1>2, <2>4, <2>5
<1>3. CASE SoldOut(p) \/ ClaimFails(p) \/ \E t \in Tickets : LockSeat(p, t)
  <2>1. PurchaseInStep(p)' /\ payments[p].status = "none"
    BY <1>0, <1>3 DEF SoldOut, ClaimFails, LockSeat, PurchaseInStep, UnderWay, CutShort, TypeOK, RequestsTyped, Final
  <2> QED BY <1>0, <1>3, <2>1, PurchaseFrame DEF SoldOut, ClaimFails, LockSeat, Goal
<1>4. CASE ProviderCharges(p) \/ ProviderDefers(p) \/ ChargeAnswered(p)
  <2>1. PurchaseInStep(p)' /\ payments[p].status = "pending"
    BY <1>0, <1>4 DEF ProviderCharges, ProviderDefers, ChargeAnswered, PurchaseInStep,
                      UnderWay, CutShort, TypeOK, ProviderTyped, RequestsTyped, Final
  <2> QED BY <1>0, <1>4, <2>1, PurchaseFrame
      DEF ProviderCharges, ProviderDefers, ChargeAnswered, Goal
<1>5. CASE CardDeclined(p) \/ ProviderUnavailable(p) \/ ChargeAnswerLost(p)
  <2> USE DEF CardDeclined, ProviderUnavailable, ChargeAnswerLost, ChargeError
  <2>1. PurchaseInStep(p)' /\ payments[p].status = "pending"
    BY <1>0, <1>5 DEF PurchaseInStep, UnderWay, CutShort, TypeOK, RequestsTyped, Final
  <2> QED BY <1>0, <1>5, <2>1, PurchaseFrame DEF Goal
<1>6. CASE SettleFails(p) \/ ReleaseFails(p)
  <2>1. PurchaseInStep(p)' /\ payments[p].status = "pending"
    BY <1>0, <1>6 DEF SettleFails, ReleaseFails, PurchaseInStep, UnderWay, CutShort, TypeOK, RequestsTyped, Final
  <2> QED BY <1>0, <1>6, <2>1, PurchaseFrame DEF SettleFails, ReleaseFails, Goal
<1>7. CASE Settle(p)
  <2> DEFINE row == [payments[p] EXCEPT !.status = "succeeded"]
  <2>1. payments' = [payments EXCEPT ![p] = row] /\ row.status = "succeeded"
        /\ row.ticket = payments[p].ticket
    BY <1>7 DEF Settle, MarkStatus, TypeOK, TablesTyped, PaymentRow
  <2>2. PurchaseInStep(p)' /\ payments[p].status = "pending"
    BY <1>0, <1>7, <2>1 DEF Settle, PurchaseInStep, UnderWay, CutShort, TypeOK, TablesTyped, RequestsTyped, Final
  <2> HIDE DEF row
  <2> QED BY <1>0, <1>7, <2>1, <2>2, PurchaseFrame DEF Settle, Goal
<1>8. CASE Release(p)
  <2> DEFINE row == [payments[p] EXCEPT !.status = "failed"]
  <2>1. payments' = [payments EXCEPT ![p] = row] /\ row.status = "failed"
        /\ row.ticket = payments[p].ticket
    BY <1>8 DEF Release, MarkStatus, TypeOK, TablesTyped, PaymentRow
  <2>2. PurchaseInStep(p)' /\ payments[p].status = "pending"
    BY <1>0, <1>8, <2>1 DEF Release, PurchaseInStep, UnderWay, CutShort, TypeOK, TablesTyped, RequestsTyped, Final
  <2> HIDE DEF row
  <2> QED BY <1>0, <1>8, <2>1, <2>2, PurchaseFrame DEF Release, Goal
<1> QED
  BY <1>1, <1>2, <1>3, <1>4, <1>5, <1>6, <1>7, <1>8 DEF PurchaseStep

(* What CancelTicket finds to refund is a settled payment of its seat, and  *)
(* so is what it ends with, kept from an earlier attempt or not.            *)
LEMMA FoundIsSettled ==
    ASSUME NEW t \in Tickets, NEW q \in Found(t), q # NoPayment
    PROVE  q \in Purchases /\ payments[q].status = "succeeded" /\ payments[q].ticket = t
  BY DEF Found, ToRefund, ByTicket, Settled

LEMMA PaymentIsSettled ==
    ASSUME TypeOK, NEW c \in Cancels, CancelInStep(c), Payment(c) # NoPayment
    PROVE  /\ Payment(c) \in Purchases /\ payments[Payment(c)].ticket = wanted[c]
           /\ payments[Payment(c)].status \in {"succeeded", "refunded"}
  BY PaymentTyped DEF CancelInStep, Payment

(* A step of cancellation c that leaves the payments and the refunds alone  *)
(* need only be examined at c.                                              *)
LEMMA CancelFrame ==
    ASSUME TypeOK, InStep, NEW c \in Cancels,
           UNCHANGED <<payments, provider>>,
           \A r \in Requests \ {c} : /\ pc'[r] = pc[r] /\ status'[r] = status[r]
                                     /\ caller'[r] = caller[r],
           \A d \in Cancels \ {c} : /\ log'[d] = log[d] /\ wanted'[d] = wanted[d]
                                    /\ seen'[d] = seen[d] /\ tries'[d] = tries[d]
                                    /\ owed'[d] = owed[d],
           log[c] # NoTicket => owed'[c] = owed[c] /\ log'[c] # NoTicket,
           CancelInStep(c)'
    PROVE  /\ \A q \in Purchases : PurchaseInStep(q)' /\ PaymentInStep(q)'
           /\ \A d \in Cancels : CancelInStep(d)'
<1> USE SalesAssumption DEF Requests, provider
<1>1. ASSUME NEW q \in Purchases PROVE PurchaseInStep(q)'
  BY DEF InStep, PurchaseInStep, UnderWay, CutShort
<1>2. ASSUME NEW q \in Purchases PROVE PaymentInStep(q)'
  BY DEF InStep, PaymentInStep
<1>3. ASSUME NEW d \in Cancels, d # c PROVE CancelInStep(d)'
  BY <1>3 DEF InStep, CancelInStep
<1> QED BY <1>1, <1>2, <1>3

LEMMA InStepCancel ==
    ASSUME TypeOK, InStep, NEW c \in Cancels,
           CancelStep(c) \/ \E u \in Users, t \in Tickets : Cancel(c, u, t)
    PROVE  /\ \A q \in Purchases : PurchaseInStep(q)' /\ PaymentInStep(q)'
           /\ \A d \in Cancels : CancelInStep(d)'
<1> DEFINE Goal == /\ \A q \in Purchases : PurchaseInStep(q)' /\ PaymentInStep(q)'
                   /\ \A d \in Cancels : CancelInStep(d)'
<1> SUFFICES Goal
  OBVIOUS
<1> HIDE DEF Goal
<1> USE SalesAssumption DEF Requests, Goto, Answer, db, provider, locals, claims, cancels
<1>0. /\ CancelInStep(c) /\ pc[c] \in Places
      /\ wanted[c] \in Tickets \cup {NoTicket} /\ owed[c] \in Purchases \cup {NoPayment}
      /\ pc \in [Requests -> Places] /\ caller \in [Requests -> Users \cup {NoUser}]
      /\ status \in [Requests -> {0, 200, 402, 404, 409, 500, 502}]
      /\ log \in [Cancels -> Tickets \cup {NoTicket}]
  BY DEF InStep, TypeOK, TablesTyped, RequestsTyped, LocalsTyped
<1>00. /\ wanted \in [Cancels -> Tickets \cup {NoTicket}] /\ seen \in [Cancels -> Snapshot]
       /\ tries \in [Cancels -> 0..MaxTxAttempts]
       /\ owed \in [Cancels -> Purchases \cup {NoPayment}]
  BY DEF TypeOK, LocalsTyped
<1>1. ASSUME NEW u \in Users, NEW t \in Tickets, ReadSnapshot(c, u, t) PROVE Goal
  <2>1. PICK q \in Found(t) : seen' = [seen EXCEPT ![c] = [row |-> tickets[t], payment |-> q]]
    BY <1>1 DEF ReadSnapshot
  <2>2. /\ wanted'[c] = t /\ caller'[c] = u /\ pc'[c] = "commit"
        /\ seen'[c].row = tickets[t] /\ seen'[c].payment = q
        /\ UNCHANGED <<payments, log, tries, owed>>
    BY <1>0, <1>00, <1>1, <2>1 DEF ReadSnapshot, Attempt
  <2>3. pc[c] = "idle" \/ (pc[c] = "retry" /\ wanted[c] = t)
    BY <1>1 DEF ReadSnapshot, Attempt
  <2>4. log[c] = NoTicket /\ tries[c] < MaxTxAttempts /\ (owed[c] # NoPayment => wanted[c] = t)
    BY <1>0, <1>00, <2>3 DEF CancelInStep, Final, MaxTxAttempts
  <2>5. CancelInStep(c)'
    BY <1>0, <1>1, <2>2, <2>3, <2>4, FoundIsSettled
    DEF ReadSnapshot, OwnedBy, CancelInStep, Final
  <2>6. /\ \A r \in Requests \ {c} : /\ pc'[r] = pc[r] /\ status'[r] = status[r]
                                     /\ caller'[r] = caller[r]
        /\ \A d \in Cancels \ {c} : /\ log'[d] = log[d] /\ wanted'[d] = wanted[d]
                                    /\ seen'[d] = seen[d] /\ tries'[d] = tries[d]
                                    /\ owed'[d] = owed[d]
    BY <1>0, <1>00, <1>1, <2>1 DEF ReadSnapshot, Attempt
  <2> QED BY <1>1, <2>4, <2>5, <2>6, CancelFrame DEF ReadSnapshot, Goal
<1>2. ASSUME NEW u \in Users, NEW t \in Tickets, CancelRejected(c, u, t) PROVE Goal
  <2>1. CancelInStep(c)' /\ (log[c] = NoTicket)
    BY <1>0, <1>00, <1>2 DEF CancelRejected, Attempt, CancelInStep, NoSnapshot, Final
  <2>2. /\ \A r \in Requests \ {c} : /\ pc'[r] = pc[r] /\ status'[r] = status[r]
                                     /\ caller'[r] = caller[r]
        /\ \A d \in Cancels \ {c} : /\ log'[d] = log[d] /\ wanted'[d] = wanted[d]
                                    /\ seen'[d] = seen[d] /\ tries'[d] = tries[d]
                                    /\ owed'[d] = owed[d]
    BY <1>0, <1>00, <1>2 DEF CancelRejected, Attempt
  <2> QED BY <1>2, <2>1, <2>2, CancelFrame DEF CancelRejected, Goal
<1>3. CASE CancelAndRefund(c) \/ CancelOnly(c) \/ CancelUnacknowledged(c)
  <2>1. CancelSeat(c)
    BY <1>3 DEF CancelAndRefund, CancelOnly, CancelUnacknowledged
  <2>2. /\ pc[c] = "commit" /\ wanted[c] \in Tickets /\ log[c] = NoTicket
        /\ seen'[c] = NoSnapshot /\ owed'[c] = Payment(c) /\ log'[c] = wanted[c]
        /\ wanted'[c] = wanted[c] /\ UNCHANGED <<payments, provider>>
    BY <1>0, <1>00, <2>1 DEF CancelSeat, Capture, EndOfSnapshot, CancelInStep, Final
  <2>3. pc'[c] = "done" \/ (pc'[c] = "refund" /\ Payment(c) # NoPayment)
    BY <1>0, <1>3 DEF CancelAndRefund, CancelOnly, CancelUnacknowledged
  <2>4. CancelInStep(c)'
    <3>1. Payment(c) # NoPayment =>
            /\ Payment(c) \in Purchases /\ payments[Payment(c)].ticket = wanted[c]
            /\ payments[Payment(c)].status \in {"succeeded", "refunded"}
      BY <1>0, PaymentIsSettled
    <3> QED BY <2>2, <2>3, <3>1 DEF CancelInStep, NoSnapshot, Final
  <2>5. /\ \A r \in Requests \ {c} : /\ pc'[r] = pc[r] /\ status'[r] = status[r]
                                     /\ caller'[r] = caller[r]
        /\ \A d \in Cancels \ {c} : /\ log'[d] = log[d] /\ wanted'[d] = wanted[d]
                                    /\ seen'[d] = seen[d] /\ tries'[d] = tries[d]
                                    /\ owed'[d] = owed[d]
    BY <1>0, <1>00, <1>3, <2>1
    DEF CancelAndRefund, CancelOnly, CancelUnacknowledged, CancelSeat, Capture, EndOfSnapshot
  <2> QED BY <2>2, <2>4, <2>5, CancelFrame DEF Goal
<1>4. CASE CancelRetries(c) \/ CancelGivesUp(c)
  <2>1. CancelAborted(c)
    BY <1>4 DEF CancelRetries, CancelGivesUp
  <2>2. /\ pc[c] = "commit" /\ wanted[c] \in Tickets /\ log[c] = NoTicket
        /\ seen'[c] = NoSnapshot /\ owed'[c] \in {owed[c], Payment(c)}
        /\ UNCHANGED <<payments, provider, log, wanted>>
    BY <1>0, <1>00, <2>1 DEF CancelAborted, Capture, EndOfSnapshot, CancelInStep, Final
  <2>3. pc'[c] = "done" \/ (pc'[c] = "retry" /\ tries'[c] < MaxTxAttempts)
    BY <1>0, <1>4 DEF CancelRetries, CancelGivesUp
  <2>4. CancelInStep(c)'
    <3>1. Payment(c) # NoPayment =>
            /\ Payment(c) \in Purchases /\ payments[Payment(c)].ticket = wanted[c]
            /\ payments[Payment(c)].status \in {"succeeded", "refunded"}
      BY <1>0, PaymentIsSettled
    <3> QED BY <1>0, <2>2, <2>3, <3>1 DEF CancelInStep, NoSnapshot, Final
  <2>5. /\ \A r \in Requests \ {c} : /\ pc'[r] = pc[r] /\ status'[r] = status[r]
                                     /\ caller'[r] = caller[r]
        /\ \A d \in Cancels \ {c} : /\ log'[d] = log[d] /\ wanted'[d] = wanted[d]
                                    /\ seen'[d] = seen[d] /\ tries'[d] = tries[d]
                                    /\ owed'[d] = owed[d]
    BY <1>0, <1>00, <1>4, <2>1
    DEF CancelRetries, CancelGivesUp, CancelAborted, Capture, EndOfSnapshot
  <2> QED BY <2>2, <2>4, <2>5, CancelFrame DEF Goal
<1>5. CASE CancelFails(c)
  <2>1. CancelInStep(c)' /\ log[c] = NoTicket
    BY <1>0, <1>00, <1>5 DEF CancelFails, EndOfSnapshot, CancelInStep, NoSnapshot, Final
  <2>2. /\ \A r \in Requests \ {c} : /\ pc'[r] = pc[r] /\ status'[r] = status[r]
                                     /\ caller'[r] = caller[r]
        /\ \A d \in Cancels \ {c} : /\ log'[d] = log[d] /\ wanted'[d] = wanted[d]
                                    /\ seen'[d] = seen[d] /\ tries'[d] = tries[d]
                                    /\ owed'[d] = owed[d]
    BY <1>0, <1>00, <1>5 DEF CancelFails, EndOfSnapshot
  <2> QED BY <1>5, <2>1, <2>2, CancelFrame DEF CancelFails, Goal
<1>6. CASE RefundFails(c) \/ MarkRefundedFails(c)
  <2>1. CancelInStep(c)' /\ \A r \in Requests \ {c} : pc'[r] = pc[r]
    BY <1>0, <1>6 DEF RefundFails, MarkRefundedFails, CancelInStep, Final
  <2> QED BY <1>6, <2>1, CancelFrame DEF RefundFails, MarkRefundedFails, Goal
<1>7. CASE ProviderRefunds(c)
  <2> DEFINE w == owed[c]
  <2>1. /\ w \in Purchases /\ w \in charged /\ log[c] # NoTicket
        /\ UNCHANGED <<payments, intents, charged, status, caller, cancels, log>>
        /\ pc' = [pc EXCEPT ![c] = "refunded"] /\ pc[c] = "refund"
    BY <1>0, <1>7 DEF ProviderRefunds, CancelInStep
  <2>2. /\ refunds' \in [Purchases -> Nat]
        /\ refunds'[w] > 0 /\ (RefundsKeyed => refunds'[w] = 1)
        /\ \A p \in Purchases \ {w} : refunds'[p] = refunds[p]
    BY <1>7, <2>1 DEF ProviderRefunds, TypeOK, ProviderTyped
  <2>3. ASSUME NEW p \in Purchases PROVE PurchaseInStep(p)'
    BY <1>0, <2>1 DEF InStep, PurchaseInStep, UnderWay, CutShort
  <2>4. ASSUME NEW p \in Purchases PROVE PaymentInStep(p)'
    BY <2>1, <2>2 DEF InStep, PaymentInStep
  <2>5. ASSUME NEW d \in Cancels PROVE CancelInStep(d)'
    <3>1. CASE d = c
      BY <1>0, <2>1, <2>2, <3>1 DEF CancelInStep, Final
    <3>2. CASE d # c
      <4>1. CancelInStep(d) /\ pc'[d] = pc[d]
        BY <1>0, <2>1, <3>2 DEF InStep
      <4>2. owed[d] \in Purchases /\ refunds[owed[d]] > 0 => refunds'[owed[d]] > 0
        BY <2>2
      <4> QED BY <2>1, <4>1, <4>2 DEF CancelInStep
    <3> QED BY <3>1, <3>2
  <2> QED BY <2>3, <2>4, <2>5 DEF Goal
<1>8. CASE MarkRefunded(c)
  <2> DEFINE w == owed[c]
  <2>1. /\ w \in Purchases /\ refunds[w] > 0
        /\ UNCHANGED <<intents, charged, refunds, status, caller, cancels, log>>
        /\ pc' = [pc EXCEPT ![c] = "done"] /\ pc[c] = "refunded"
    BY <1>0, <1>8 DEF MarkRefunded, CancelInStep
  <2>2. ASSUME NEW p \in Purchases
        PROVE  /\ payments'[p].ticket = payments[p].ticket
               /\ \/ payments'[p].status = payments[p].status
                  \/ p = w /\ payments[p].status = "succeeded" /\ payments'[p].status = "refunded"
    <3>1. payments \in [Purchases -> PaymentRow] /\ payments[p] \in PaymentRow
      BY DEF TypeOK, TablesTyped
    <3>2. CASE Markable(w)
      <4>1. payments' = [payments EXCEPT ![w] = [payments[w] EXCEPT !.status = "refunded"]]
        BY <1>8, <3>2 DEF MarkRefunded
      <4> QED BY <2>1, <3>1, <3>2, <4>1 DEF Markable, PaymentRow
    <3>3. CASE ~Markable(w)
      BY <1>8, <3>3 DEF MarkRefunded
    <3> QED BY <3>2, <3>3
  <2>3. ASSUME NEW p \in Purchases PROVE PurchaseInStep(p)'
    BY <1>0, <2>1, <2>2 DEF InStep, PurchaseInStep, UnderWay, CutShort
  <2>4. ASSUME NEW p \in Purchases PROVE PaymentInStep(p)'
    BY <2>1, <2>2 DEF InStep, PaymentInStep
  <2>5. ASSUME NEW d \in Cancels PROVE CancelInStep(d)'
    <3>1. CancelInStep(d) /\ seen[d].payment \in Purchases \cup {NoPayment}
          /\ owed[d] \in Purchases \cup {NoPayment}
      BY <1>00 DEF InStep, Snapshot
    <3>2. \A q \in {owed[d], seen[d].payment} \ {NoPayment} :
             payments'[q].status \in {"succeeded", "refunded"} /\ payments'[q].ticket = wanted[d]
      BY <2>2, <3>1 DEF CancelInStep
    <3> QED BY <1>0, <2>1, <3>1, <3>2 DEF CancelInStep, Final
  <2> QED BY <2>3, <2>4, <2>5 DEF Goal
<1>9. pc[c] = "retry" => caller[c] \in Users /\ wanted[c] \in Tickets
  BY <1>0 DEF TypeOK, RequestsTyped, CancelInStep
<1> QED
  BY <1>1, <1>2, <1>3, <1>4, <1>5, <1>6, <1>7, <1>8, <1>9 DEF CancelStep, Cancel

LEMMA InStepNext == TypeOK /\ InStep /\ [Next]_vars => InStep'
<1> SUFFICES ASSUME TypeOK, InStep, [Next]_vars PROVE InStep'
  OBVIOUS
<1>1. CASE Crash
  <2> USE SalesAssumption, <1>1 DEF Crash, InFlight, Requests, Final, db, provider, locals
  <2>1. ASSUME NEW p \in Purchases PROVE PurchaseInStep(p)' /\ PaymentInStep(p)'
    BY DEF InStep, PurchaseInStep, UnderWay, CutShort, PaymentInStep, TypeOK, RequestsTyped
  <2>2. ASSUME NEW c \in Cancels PROVE CancelInStep(c)'
    BY DEF InStep, CancelInStep, TypeOK, RequestsTyped, NoSnapshot
  <2> QED BY <2>1, <2>2, ClaimsNext DEF InStep
<1>2. CASE UNCHANGED vars
  BY <1>2, ClaimsNext DEF vars, db, provider, locals, claims, cancels, InStep, PurchaseInStep,
                          UnderWay, CutShort, PaymentInStep, CancelInStep
<1> QED
  BY <1>1, <1>2, InStepPurchase, InStepCancel, ClaimsNext DEF Next, Quiet, InStep

(* Types and steps hold together.                                          *)
LEMMA Consistency == Spec => [](TypeOK /\ InStep)
  BY TypeInit, TypeNext, InStepInit, InStepNext, PTL DEF Spec

(* Every state the service reaches is well-typed.                          *)
THEOREM TypeCorrect == Spec => []TypeOK
  BY Consistency, PTL

(* Every request is in step with its payment, its claim and the provider.  *)
THEOREM StepsAgree == Spec => []InStep
  BY Consistency, PTL
-----------------------------------------------------------------------------
(* Every sold seat has its owner's payment behind it.  The witness is the  *)
(* same before and after every step but a claim, whose own payment is new: *)
(* a payment leaves Backs only by failing, which opens its seat, or by     *)
(* being aimed at by a cancellation, which has just opened it.             *)

Occupied(t) == tickets[t].status = "purchased"

(* Backing survives a step that leaves the seat and the payment's row, its *)
(* payer and its refunds as they are, and starts no refund of it.          *)
LEMMA BackingKept ==
    ASSUME InStep', NEW p \in Purchases, NEW t \in Tickets, Backs(p, t),
           tickets'[t] = tickets[t], caller'[p] = caller[p], refunds'[p] = refunds[p],
           payments'[p].ticket = payments[p].ticket,
           payments'[p].status \in {"pending", "succeeded"},
           \A c \in Cancels : owed'[c] = p /\ pc'[c] \in {"refund", "refunded"} =>
                                 owed[c] = p /\ pc[c] \in {"refund", "refunded"}
    PROVE  Backs(p, t)'
  BY DEF Backs, InStep, PurchaseInStep

LEMMA SeatBackedPurchase ==
    ASSUME TypeOK, InStep, InStep', SeatBacked, NEW p \in Purchases,
           PurchaseStep(p) \/ \E u \in Users : BeginPurchase(p, u)
    PROVE  SeatBacked'
<1> USE SalesAssumption DEF Requests, Goto, Answer, db, provider, locals, claims, cancels
<1>0. (\A c \in Cancels : c # p) /\ pc \in [Requests -> Places]
  BY DEF TypeOK, RequestsTyped
<1>1. ASSUME NEW u \in Users, BeginPurchase(p, u) PROVE SeatBacked'
  <2> SUFFICES ASSUME NEW t \in Tickets, Occupied(t)' PROVE \E q \in Purchases : Backs(q, t)'
    BY DEF SeatBacked, Occupied
  <2>1. PICK q \in Purchases : Backs(q, t)
    BY <1>1 DEF BeginPurchase, SeatBacked, Occupied
  <2>2. q # p
    BY <1>1, <2>1 DEF BeginPurchase, InStep, PurchaseInStep, Backs
  <2> QED
    BY <1>0, <1>1, <2>1, <2>2, BackingKept DEF BeginPurchase, Backs, TypeOK, RequestsTyped
<1>2. CASE Claim(p) \/ ClaimUnacknowledged(p)
  <2>0. ClaimSeat(p) /\ lock[p] \in Tickets
    BY <1>2 DEF Claim, ClaimUnacknowledged, ClaimSeat, InStep, ClaimInStep, TypeOK, LocalsTyped
  <2>1. PICK s \in Tickets : ClaimSeat(p) /\ s = lock[p]
    BY <2>0
  <2>2. \A c \in Cancels : pc'[c] = pc[c]
    BY <1>0, <1>2 DEF Claim, ClaimUnacknowledged
  <2>3. payments[p].status = "none" /\ caller[p] \in Users /\ began[p] \in Nat
    BY <2>1 DEF ClaimSeat, InStep, PurchaseInStep, TypeOK, RequestsTyped, LocalsTyped
  <2>4. Backs(p, s)'
    <3>1. payments'[p] = [status |-> "pending", ticket |-> s] /\ tickets'[s] = Sold(caller[p], began[p])
      BY <2>1 DEF ClaimSeat, TypeOK, TablesTyped
    <3>2. \A c \in Cancels : owed[c] # p
      BY <2>3 DEF InStep, CancelInStep
    <3>3. refunds[p] = 0
      BY <3>2 DEF InStep, PaymentInStep, TypeOK, ProviderTyped
    <3> QED BY <2>1, <2>3, <3>1, <3>2, <3>3, RowContents DEF ClaimSeat, Backs, InStep, PurchaseInStep
  <2> SUFFICES ASSUME NEW t \in Tickets, Occupied(t)', t # s PROVE \E q \in Purchases : Backs(q, t)'
    BY <2>4 DEF SeatBacked, Occupied
  <2>5. tickets'[t] = tickets[t]
    BY <2>1 DEF ClaimSeat, TypeOK, TablesTyped
  <2>6. PICK q \in Purchases : Backs(q, t)
    BY <2>5 DEF SeatBacked, Occupied
  <2>7. q # p /\ payments'[q] = payments[q]
    BY <2>1, <2>3, <2>6 DEF ClaimSeat, Backs, TypeOK, TablesTyped
  <2> QED BY <2>1, <2>2, <2>5, <2>6, <2>7, BackingKept DEF ClaimSeat, Backs
<1>3. CASE \/ SoldOut(p) \/ ClaimFails(p) \/ \E t \in Tickets : LockSeat(p, t)
           \/ ProviderCharges(p) \/ ProviderDefers(p) \/ ChargeAnswered(p)
           \/ SettleFails(p) \/ ReleaseFails(p)
           \/ CardDeclined(p) \/ ProviderUnavailable(p) \/ ChargeAnswerLost(p)
  <2>1. /\ UNCHANGED <<tickets, payments, caller, refunds, owed>>
        /\ \A c \in Cancels : pc'[c] = pc[c]
    BY <1>0, <1>3
    DEF SoldOut, ClaimFails, LockSeat, ProviderCharges, ProviderDefers, ChargeAnswered, SettleFails,
        ReleaseFails, CardDeclined, ProviderUnavailable, ChargeAnswerLost, ChargeError
  <2> SUFFICES ASSUME NEW t \in Tickets, Occupied(t)' PROVE \E q \in Purchases : Backs(q, t)'
    BY DEF SeatBacked, Occupied
  <2>2. PICK q \in Purchases : Backs(q, t)
    BY <2>1 DEF SeatBacked, Occupied
  <2> QED BY <2>1, <2>2, BackingKept DEF Backs
<1>4. CASE Settle(p)
  <2>1. /\ UNCHANGED <<tickets, caller, refunds, owed>>
        /\ \A c \in Cancels : pc'[c] = pc[c]
        /\ \A q \in Purchases :
              /\ payments'[q].ticket = payments[q].ticket
              /\ payments[q].status \in {"pending", "succeeded"} =>
                   payments'[q].status \in {"pending", "succeeded"}
    BY <1>0, <1>4 DEF Settle, MarkStatus, TypeOK, TablesTyped, PaymentRow
  <2> SUFFICES ASSUME NEW t \in Tickets, Occupied(t)' PROVE \E q \in Purchases : Backs(q, t)'
    BY DEF SeatBacked, Occupied
  <2>2. PICK q \in Purchases : Backs(q, t)
    BY <2>1 DEF SeatBacked, Occupied
  <2> QED BY <2>1, <2>2, BackingKept DEF Backs
<1>5. CASE Release(p)
  <2> SUFFICES ASSUME NEW t \in Tickets, Occupied(t)' PROVE \E q \in Purchases : Backs(q, t)'
    BY DEF SeatBacked, Occupied
  <2>1. tickets'[t] = tickets[t] /\ t # payments[p].ticket
    BY <1>5, RowKinds, RowContents DEF Release, Releasable, Occupied, TypeOK, TablesTyped
  <2>2. PICK q \in Purchases : Backs(q, t)
    BY <2>1 DEF SeatBacked, Occupied
  <2>3. q # p /\ payments'[q] = payments[q]
    BY <1>5, <2>1, <2>2 DEF Release, MarkStatus, Backs, TypeOK, TablesTyped
  <2>4. \A c \in Cancels : pc'[c] = pc[c]
    BY <1>0, <1>5 DEF Release
  <2> QED BY <1>5, <2>1, <2>2, <2>3, <2>4, BackingKept DEF Release, Backs
<1> QED BY <1>1, <1>2, <1>3, <1>4, <1>5 DEF PurchaseStep

LEMMA SeatBackedCancel ==
    ASSUME TypeOK, InStep, InStep', SeatBacked, NEW c \in Cancels,
           CancelStep(c) \/ \E u \in Users, t \in Tickets : Cancel(c, u, t)
    PROVE  SeatBacked'
<1> USE SalesAssumption DEF Requests, Goto, Answer, db, provider, locals, claims, cancels
<1>0. /\ \A p \in Purchases : p # c
      /\ CancelInStep(c) /\ pc \in [Requests -> Places]
      /\ owed \in [Cancels -> Purchases \cup {NoPayment}]
  BY DEF InStep, TypeOK, RequestsTyped, LocalsTyped
<1>1. CASE CancelAndRefund(c) \/ CancelOnly(c) \/ CancelUnacknowledged(c)
  <2>0. CancelSeat(c) /\ wanted[c] \in Tickets
    BY <1>0, <1>1 DEF CancelAndRefund, CancelOnly, CancelUnacknowledged, CancelSeat, CancelInStep
  <2> SUFFICES ASSUME NEW t \in Tickets, Occupied(t)' PROVE \E q \in Purchases : Backs(q, t)'
    BY DEF SeatBacked, Occupied
  <2>1. t # wanted[c] /\ tickets'[t] = tickets[t]
    BY <2>0, RowKinds, RowContents DEF CancelSeat, Occupied, TypeOK, TablesTyped
  <2>2. PICK q \in Purchases : Backs(q, t)
    BY <2>1 DEF SeatBacked, Occupied
  <2>3. /\ \A d \in Cancels \ {c} : owed'[d] = owed[d] /\ pc'[d] = pc[d]
        /\ owed'[c] = Payment(c)
    BY <1>0, <1>1, <2>0
    DEF CancelSeat, Capture, CancelAndRefund, CancelOnly, CancelUnacknowledged
  <2>4. owed'[c] # q
    BY <1>0, <2>1, <2>2, <2>3, PaymentIsSettled DEF Backs
  <2>5. UNCHANGED <<caller, payments, refunds>>
    BY <2>0 DEF CancelSeat
  <2> QED BY <2>1, <2>2, <2>3, <2>4, <2>5, BackingKept DEF Backs
<1>2. CASE \/ CancelRetries(c) \/ CancelGivesUp(c) \/ CancelFails(c)
           \/ RefundFails(c) \/ MarkRefundedFails(c)
           \/ \E u \in Users, s \in Tickets : Cancel(c, u, s)
  <2>1. /\ UNCHANGED <<tickets, payments, refunds>>
        /\ \A p \in Purchases : caller'[p] = caller[p]
        /\ \A d \in Cancels \ {c} : owed'[d] = owed[d] /\ pc'[d] = pc[d]
        /\ pc'[c] \notin {"refund", "refunded"}
    BY <1>0, <1>2
    DEF CancelRetries, CancelGivesUp, CancelAborted, Capture, CancelFails, RefundFails,
        MarkRefundedFails, Cancel, ReadSnapshot, CancelRejected, Attempt, TypeOK, RequestsTyped
  <2> SUFFICES ASSUME NEW t \in Tickets, Occupied(t)' PROVE \E q \in Purchases : Backs(q, t)'
    BY DEF SeatBacked, Occupied
  <2>2. PICK q \in Purchases : Backs(q, t)
    BY <2>1 DEF SeatBacked, Occupied
  <2> QED BY <2>1, <2>2, BackingKept DEF Backs
<1>3. CASE ProviderRefunds(c) \/ MarkRefunded(c)
  <2> SUFFICES ASSUME NEW t \in Tickets, Occupied(t)' PROVE \E q \in Purchases : Backs(q, t)'
    BY DEF SeatBacked, Occupied
  <2>1. /\ UNCHANGED <<tickets, caller, owed>> /\ pc[c] \in {"refund", "refunded"}
        /\ \A d \in Cancels \ {c} : pc'[d] = pc[d]
    BY <1>0, <1>3 DEF ProviderRefunds, MarkRefunded
  <2>2. PICK q \in Purchases : Backs(q, t)
    BY <2>1 DEF SeatBacked, Occupied
  <2>3. q # owed[c] /\ owed[c] \in Purchases
    BY <1>0, <2>1, <2>2 DEF Backs, CancelInStep
  <2>4. refunds'[q] = refunds[q] /\ payments'[q] = payments[q]
    BY <1>3, <2>3
    DEF ProviderRefunds, MarkRefunded, TypeOK, TablesTyped, ProviderTyped
  <2> QED BY <2>1, <2>2, <2>3, <2>4, BackingKept DEF Backs
<1>4. pc[c] = "retry" => caller[c] \in Users /\ wanted[c] \in Tickets
  BY <1>0 DEF TypeOK, RequestsTyped, CancelInStep
<1> QED BY <1>1, <1>2, <1>3, <1>4 DEF CancelStep

LEMMA SeatBackedNext == TypeOK /\ InStep /\ InStep' /\ SeatBacked /\ [Next]_vars => SeatBacked'
<1> SUFFICES ASSUME TypeOK, InStep, InStep', SeatBacked, [Next]_vars PROVE SeatBacked'
  OBVIOUS
<1>1. CASE Crash
  BY <1>1
  DEF Crash, InFlight, Requests, Final, db, provider, locals, SeatBacked, Backs, TypeOK,
      RequestsTyped, InStep, PurchaseInStep
<1>2. CASE UNCHANGED vars
  BY <1>2 DEF vars, db, provider, locals, cancels, SeatBacked, Backs, UnderWay, CutShort
<1> QED
  BY <1>1, <1>2, SeatBackedPurchase, SeatBackedCancel DEF Next, Quiet
-----------------------------------------------------------------------------
(* The last outbox row about a seat.                                       *)

(* After a row is appended, the last one about any other seat is the one   *)
(* that it was.                                                            *)
LEMMA LastElsewhere ==
    ASSUME NEW e \in Event, outbox \in Seq(Event), outbox' = Append(outbox, e),
           NEW t, NEW i, t # e.ticket
    PROVE  /\ LastAbout(t, i)' <=> LastAbout(t, i)
           /\ LastAbout(t, i) => outbox'[i] = outbox[i]
<1>0. PICK n \in Nat : n = Len(outbox)
  OBVIOUS
<1>1. /\ DOMAIN outbox = 1..n /\ DOMAIN outbox' = 1..(n + 1)
      /\ outbox'[n + 1] = e
      /\ \A k \in 1..n : outbox'[k] = outbox[k]
  BY <1>0
<1>2. LastAbout(t, i) => LastAbout(t, i)' /\ outbox'[i] = outbox[i]
  BY <1>1 DEF LastAbout
<1>3. LastAbout(t, i)' => LastAbout(t, i)
  BY <1>1 DEF LastAbout
<1> QED BY <1>2, <1>3

(* And it is the last one about its own seat.                              *)
LEMMA LastAppended ==
    ASSUME NEW e \in Event, outbox \in Seq(Event), outbox' = Append(outbox, e)
    PROVE  /\ \E i \in DOMAIN outbox' : outbox'[i] = e /\ LastAbout(e.ticket, i)'
           /\ \A i : LastAbout(e.ticket, i)' => outbox'[i] = e
<1>0. PICK n \in Nat : n = Len(outbox)
  OBVIOUS
<1>1. DOMAIN outbox' = 1..(n + 1) /\ outbox'[n + 1] = e
  BY <1>0
<1>2. n + 1 \in DOMAIN outbox' /\ LastAbout(e.ticket, n + 1)'
  BY <1>1 DEF LastAbout
<1>3. ASSUME NEW i, LastAbout(e.ticket, i)' PROVE outbox'[i] = e
  <2>1. i \in 1..(n + 1) /\ ~(n + 1 > i)
    BY <1>1, <1>3 DEF LastAbout
  <2> QED BY <1>1, <2>1
<1> QED BY <1>1, <1>2, <1>3

Announced ==
    /\ HeldSeatAnnounced
    /\ OpenSeatExplained

LEMMA AnnouncedNext == TypeOK /\ InStep /\ Announced /\ [Next]_vars => Announced'
<1> SUFFICES ASSUME TypeOK, InStep, Announced, [Next]_vars PROVE Announced'
  OBVIOUS
<1> USE SalesAssumption DEF db, provider, locals, claims, cancels
<1> DEFINE Explained(t) == \E p \in Purchases : payments[p] = [status |-> "failed", ticket |-> t]
<1>0. outbox \in Seq(Event) /\ payments \in [Purchases -> PaymentRow]
  BY DEF TypeOK, TablesTyped
(* A row about seat s is appended, and no other seat changes.              *)
<1>1. ASSUME NEW e \in Event, outbox' = Append(outbox, e),
             \A t \in Tickets \ {e.ticket} : tickets'[t] = tickets[t],
             \/ /\ tickets'[e.ticket].status = "purchased"
                /\ e.topic = "ticket.purchased" /\ e.user = tickets'[e.ticket].user
             \/ /\ tickets'[e.ticket].status = "available"
                /\ e.topic = "ticket.cancelled",
             \A t \in Tickets : Explained(t) => Explained(t)'
      PROVE  Announced'
  <2> HIDE DEF Explained
  <2>1. HeldSeatAnnounced'
    <3> SUFFICES ASSUME NEW t \in Tickets, Occupied(t)'
                 PROVE \E i \in DOMAIN outbox' : /\ LastAbout(t, i)'
                                                 /\ outbox'[i].topic = "ticket.purchased"
                                                 /\ outbox'[i].user = tickets'[t].user
      BY DEF HeldSeatAnnounced, Occupied
    <3>1. CASE t = e.ticket
      BY <1>0, <1>1, <3>1, LastAppended DEF Occupied
    <3>2. CASE t # e.ticket
      <4>1. PICK i \in DOMAIN outbox : LastAbout(t, i) /\ outbox[i].topic = "ticket.purchased"
                                       /\ outbox[i].user = tickets[t].user
        BY <1>1, <3>2 DEF Announced, HeldSeatAnnounced, Occupied
      <4>2. LastAbout(t, i)' /\ outbox'[i] = outbox[i]
        BY <1>0, <1>1, <3>2, <4>1, LastElsewhere
      <4> QED BY <1>1, <3>2, <4>1, <4>2 DEF LastAbout
    <3> QED BY <3>1, <3>2
  <2>2. OpenSeatExplained'
    <3> SUFFICES ASSUME NEW t \in Tickets, NEW i \in DOMAIN outbox',
                        tickets'[t].status = "available", LastAbout(t, i)',
                        outbox'[i].topic = "ticket.purchased"
                 PROVE  Explained(t)'
      BY DEF OpenSeatExplained, Explained
    <3>1. t # e.ticket
      BY <1>0, <1>1, LastAppended
    <3>2. LastAbout(t, i) /\ outbox'[i] = outbox[i] /\ tickets'[t] = tickets[t]
      BY <1>0, <1>1, <3>1, LastElsewhere
    <3>3. Explained(t)
      BY <3>2 DEF Announced, OpenSeatExplained, LastAbout, Explained
    <3> QED BY <1>1, <3>3
  <2> QED BY <2>1, <2>2 DEF Announced
(* No row is appended; a seat that opens is explained.                     *)
<1>2. ASSUME UNCHANGED outbox,
             \A t \in Tickets : \/ tickets'[t] = tickets[t]
                                \/ tickets'[t].status = "available" /\ Explained(t)',
             \A t \in Tickets : Explained(t) => Explained(t)'
      PROVE  Announced'
  <2> HIDE DEF Explained
  <2>0. \A t \in Tickets, i \in DOMAIN outbox : LastAbout(t, i)' <=> LastAbout(t, i)
    BY <1>2 DEF LastAbout
  <2>1. HeldSeatAnnounced'
    <3> SUFFICES ASSUME NEW t \in Tickets, Occupied(t)'
                 PROVE \E i \in DOMAIN outbox' : /\ LastAbout(t, i)'
                                                 /\ outbox'[i].topic = "ticket.purchased"
                                                 /\ outbox'[i].user = tickets'[t].user
      BY DEF HeldSeatAnnounced, Occupied
    <3>1. tickets'[t] = tickets[t]
      BY <1>2 DEF Occupied
    <3> QED BY <1>2, <2>0, <3>1 DEF Announced, HeldSeatAnnounced, Occupied
  <2>2. OpenSeatExplained'
    <3> SUFFICES ASSUME NEW t \in Tickets, NEW i \in DOMAIN outbox',
                        tickets'[t].status = "available", LastAbout(t, i)',
                        outbox'[i].topic = "ticket.purchased"
                 PROVE  Explained(t)'
      BY DEF OpenSeatExplained, Explained
    <3>1. CASE tickets'[t] = tickets[t]
      BY <1>2, <2>0, <3>1 DEF Announced, OpenSeatExplained, Explained
    <3> QED BY <1>2, <3>1
  <2> QED BY <2>1, <2>2 DEF Announced
<1>3. ASSUME NEW p \in Purchases, ClaimSeat(p) PROVE Announced'
  <2> DEFINE e == [topic |-> "ticket.purchased", ticket |-> lock[p], user |-> caller[p]]
  <2>1. lock[p] \in Tickets /\ caller[p] \in Users /\ began[p] \in Nat /\ payments[p].status = "none"
    BY <1>3 DEF ClaimSeat, InStep, ClaimInStep, PurchaseInStep, TypeOK, LocalsTyped, RequestsTyped, Requests
  <2>2. /\ tickets'[lock[p]] = Sold(caller[p], began[p])
        /\ \A t \in Tickets \ {lock[p]} : tickets'[t] = tickets[t]
    BY <1>3, <2>1 DEF ClaimSeat, TypeOK, TablesTyped
  <2>3. \A t \in Tickets : Explained(t) => Explained(t)'
    <3> SUFFICES ASSUME NEW q \in Purchases, payments[q].status = "failed"
                 PROVE  payments'[q] = payments[q]
      OBVIOUS
    <3> QED BY <1>0, <1>3, <2>1 DEF ClaimSeat
  <2>4. PICK f \in Event : f = e
    BY <2>1 DEF Event
  <2>5. f.ticket = lock[p] /\ f.topic = "ticket.purchased" /\ f.user = caller[p]
    BY <2>4
  <2>6. outbox' = Append(outbox, f)
    BY <1>3, <2>4 DEF ClaimSeat, Enqueue
  <2> HIDE DEF e, Explained
  <2> QED BY <1>1, <2>1, <2>2, <2>3, <2>5, <2>6, RowContents
<1>4. ASSUME NEW c \in Cancels, CancelSeat(c) PROVE Announced'
  <2> DEFINE e == [topic |-> "ticket.cancelled", ticket |-> wanted[c], user |-> caller[c]]
  <2>1. wanted[c] \in Tickets /\ caller[c] \in Users
    BY <1>4 DEF CancelSeat, InStep, CancelInStep, TypeOK, RequestsTyped, Requests
  <2>2. /\ tickets'[wanted[c]] = OpenSeat
        /\ \A t \in Tickets \ {wanted[c]} : tickets'[t] = tickets[t]
    BY <1>4, <2>1, RowKinds DEF CancelSeat, TypeOK, TablesTyped
  <2>3. \A t \in Tickets : Explained(t) => Explained(t)'
    BY <1>4 DEF CancelSeat
  <2>4. PICK f \in Event : f = e
    BY <2>1 DEF Event
  <2>5. f.ticket = wanted[c] /\ f.topic = "ticket.cancelled"
    BY <2>4
  <2>6. outbox' = Append(outbox, f)
    BY <1>4, <2>4 DEF CancelSeat, Enqueue
  <2> HIDE DEF e, Explained
  <2> QED BY <1>1, <2>2, <2>3, <2>5, <2>6, RowContents
<1>5. ASSUME NEW p \in Purchases, Release(p) PROVE Announced'
  <2>1. payments[p].status = "pending" /\ payments[p] \in PaymentRow
    BY <1>0, <1>5 DEF Release, InStep, PurchaseInStep
  <2>2. payments' = [payments EXCEPT ![p] = [payments[p] EXCEPT !.status = "failed"]]
    BY <1>5 DEF Release, MarkStatus
  <2>3. [payments[p] EXCEPT !.status = "failed"] = [status |-> "failed", ticket |-> payments[p].ticket]
    BY <2>1 DEF PaymentRow
  <2>4. payments'[p] = [status |-> "failed", ticket |-> payments[p].ticket]
    BY <1>0, <2>2, <2>3
  <2>5. \A q \in Purchases \ {p} : payments'[q] = payments[q]
    BY <1>0, <2>2
  <2>6. \A t \in Tickets : Explained(t) => Explained(t)'
    BY <2>1, <2>5
  <2>7. \A t \in Tickets : \/ tickets'[t] = tickets[t]
                           \/ tickets'[t] = OpenSeat /\ t = payments[p].ticket
    BY <1>5, RowKinds DEF Release, Releasable
  <2>8. \A t \in Tickets : t = payments[p].ticket => Explained(t)'
    BY <2>4
  <2>9. UNCHANGED outbox
    BY <1>5 DEF Release
  <2> HIDE DEF Explained
  <2> QED BY <1>2, <2>6, <2>7, <2>8, <2>9, RowContents
<1>6. ASSUME NEW p \in Purchases, Settle(p) PROVE Announced'
  <2>1. payments[p].status = "pending" /\ UNCHANGED <<tickets, outbox>>
    BY <1>6 DEF Settle, InStep, PurchaseInStep
  <2>2. \A q \in Purchases \ {p} : payments'[q] = payments[q]
    BY <1>0, <1>6 DEF Settle, MarkStatus
  <2>3. \A t \in Tickets : Explained(t) => Explained(t)'
    BY <2>1, <2>2
  <2> HIDE DEF Explained
  <2> QED BY <1>2, <2>1, <2>3
<1>7. ASSUME NEW c \in Cancels, MarkRefunded(c) PROVE Announced'
  <2>1. \A q \in Purchases : payments[q].status = "failed" => payments'[q] = payments[q]
    BY <1>0, <1>7 DEF MarkRefunded, Markable
  <2>2. \A t \in Tickets : Explained(t) => Explained(t)'
    BY <2>1
  <2>3. UNCHANGED <<tickets, outbox>>
    BY <1>7 DEF MarkRefunded
  <2> HIDE DEF Explained
  <2> QED BY <1>2, <2>2, <2>3
<1>8. ASSUME UNCHANGED <<tickets, payments, outbox>> PROVE Announced'
  BY <1>2, <1>8
<1> HIDE DEF Explained
<1>9. ASSUME NEW p \in Purchases, PurchaseStep(p) \/ \E u \in Users : BeginPurchase(p, u)
      PROVE  Announced'
  <2>1. CASE \/ \E u \in Users : BeginPurchase(p, u)
             \/ \E t \in Tickets : LockSeat(p, t)
    BY <1>8, <2>1 DEF BeginPurchase, LockSeat
  <2>2. CASE SoldOut(p) \/ Claim(p) \/ ClaimUnacknowledged(p) \/ ClaimFails(p)
    BY <1>3, <1>8, <2>2 DEF SoldOut, Claim, ClaimUnacknowledged, ClaimFails
  <2>3. CASE ProviderCharges(p) \/ ProviderDefers(p) \/ CardDeclined(p) \/ ProviderUnavailable(p)
    BY <1>8, <2>3
    DEF ProviderCharges, ProviderDefers, CardDeclined, ProviderUnavailable, ChargeError
  <2>4. CASE ChargeAnswered(p) \/ ChargeAnswerLost(p) \/ SettleFails(p) \/ ReleaseFails(p)
    BY <1>8, <2>4 DEF ChargeAnswered, ChargeAnswerLost, ChargeError, SettleFails, ReleaseFails
  <2> QED BY <1>5, <1>6, <1>9, <2>1, <2>2, <2>3, <2>4 DEF PurchaseStep
<1>10. ASSUME NEW c \in Cancels, CancelStep(c) \/ \E u \in Users, t \in Tickets : Cancel(c, u, t)
       PROVE  Announced'
  BY <1>4, <1>7, <1>8, <1>10
  DEF CancelStep, Cancel, ReadSnapshot, CancelRejected, CancelAndRefund, CancelOnly,
      CancelUnacknowledged, CancelRetries, CancelGivesUp, CancelAborted, CancelFails,
      ProviderRefunds, RefundFails, MarkRefundedFails
<1> QED BY <1>8, <1>9, <1>10 DEF Next, Crash, Quiet, vars
-----------------------------------------------------------------------------
(* What a step can do to the rows that the refunds and the outbox rest on. *)

(* A payment's row is inserted once and moves along its lifecycle.         *)
LEMMA MovesLegal == TypeOK /\ InStep /\ [Next]_vars => PaymentMoves
<1> SUFFICES ASSUME TypeOK, InStep, [Next]_vars PROVE PaymentMoves
  OBVIOUS
<1> USE SalesAssumption DEF db, provider, locals, TypeOK
<1>1. CASE UNCHANGED payments
  BY <1>1 DEF PaymentMoves
<1>2. ASSUME NEW p \in Purchases, ClaimSeat(p) PROVE PaymentMoves
  BY <1>2 DEF ClaimSeat, InStep, PurchaseInStep, PaymentMoves, LegalMoves, TablesTyped
<1>3. ASSUME NEW p \in Purchases, Settle(p) PROVE PaymentMoves
  BY <1>3 DEF Settle, MarkStatus, InStep, PurchaseInStep, PaymentMoves, LegalMoves,
              TablesTyped, PaymentRow
<1>4. ASSUME NEW p \in Purchases, Release(p) PROVE PaymentMoves
  BY <1>4 DEF Release, MarkStatus, InStep, PurchaseInStep, PaymentMoves, LegalMoves,
              TablesTyped, PaymentRow
<1>5. ASSUME NEW c \in Cancels, MarkRefunded(c) PROVE PaymentMoves
  BY <1>5 DEF MarkRefunded, Markable, InStep, CancelInStep, PaymentMoves, LegalMoves,
              TablesTyped, PaymentRow
<1>6. ASSUME NEW p \in Purchases, PurchaseStep(p) \/ \E u \in Users : BeginPurchase(p, u)
      PROVE  PaymentMoves
  BY <1>1, <1>2, <1>3, <1>4, <1>6
  DEF PurchaseStep, BeginPurchase, LockSeat, SoldOut, Claim, ClaimUnacknowledged, ClaimFails,
      ProviderCharges, ProviderDefers, ChargeAnswered, SettleFails, ReleaseFails, CardDeclined,
      ProviderUnavailable, ChargeAnswerLost, ChargeError
<1>7. ASSUME NEW c \in Cancels, CancelStep(c) \/ \E u \in Users, t \in Tickets : Cancel(c, u, t)
      PROVE  PaymentMoves
  BY <1>1, <1>5, <1>7
  DEF CancelStep, Cancel, ReadSnapshot, CancelRejected, CancelAndRefund, CancelOnly,
      CancelUnacknowledged, CancelSeat, CancelRetries, CancelGivesUp, CancelAborted, CancelFails,
      ProviderRefunds, RefundFails, MarkRefundedFails
<1> QED BY <1>1, <1>6, <1>7 DEF Next, Crash, Quiet, vars

(* The purchase or the cancellation that a step belongs to.                *)
StepOfPurchase(p) == PurchaseStep(p) \/ \E u \in Users : BeginPurchase(p, u)
StepOfCancel(c) == CancelStep(c) \/ \E u \in Users, t \in Tickets : Cancel(c, u, t)

(* Seats and outbox change, and payments appear, by the writes of a claim  *)
(* or a cancellation and by releases only.                                 *)
LEMMA SeatChanges ==
    ASSUME TypeOK, InStep, [Next]_vars
    PROVE  \/ \E p \in Purchases : ClaimSeat(p) \/ Release(p)
           \/ \E c \in Cancels : CancelSeat(c)
           \/ /\ UNCHANGED <<tickets, outbox>>
              /\ \A p \in Purchases : payments[p].status = "none" => payments'[p].status = "none"
<1> DEFINE Still == /\ UNCHANGED <<tickets, outbox>>
                    /\ \A p \in Purchases : payments[p].status = "none" => payments'[p].status = "none"
<1> USE DEF db, provider, locals
<1>1. ASSUME NEW p \in Purchases, Settle(p) PROVE Still
  BY <1>1 DEF Settle, MarkStatus, InStep, PurchaseInStep, TypeOK, TablesTyped
<1>2. ASSUME NEW c \in Cancels, MarkRefunded(c) PROVE Still
  BY <1>2 DEF MarkRefunded, Markable, TypeOK, TablesTyped
<1>3. ASSUME UNCHANGED <<tickets, outbox, payments>> PROVE Still
  BY <1>3
<1> HIDE DEF Still
<1>4. ASSUME NEW p \in Purchases, StepOfPurchase(p) PROVE ClaimSeat(p) \/ Release(p) \/ Still
  <2>1. CASE Claim(p) \/ ClaimUnacknowledged(p) \/ Release(p) \/ Settle(p)
    BY <1>1, <2>1 DEF Claim, ClaimUnacknowledged
  <2>2. CASE (\E u \in Users : BeginPurchase(p, u)) \/ (\E t \in Tickets : LockSeat(p, t))
    BY <1>3, <2>2 DEF BeginPurchase, LockSeat
  <2>3. CASE SoldOut(p) \/ ClaimFails(p) \/ ProviderCharges(p) \/ ProviderDefers(p)
    BY <1>3, <2>3 DEF SoldOut, ClaimFails, ProviderCharges, ProviderDefers
  <2>4. CASE CardDeclined(p) \/ ProviderUnavailable(p) \/ ChargeAnswerLost(p) \/ ChargeAnswered(p)
    BY <1>3, <2>4
    DEF CardDeclined, ProviderUnavailable, ChargeAnswerLost, ChargeError, ChargeAnswered
  <2>5. CASE SettleFails(p) \/ ReleaseFails(p)
    BY <1>3, <2>5 DEF SettleFails, ReleaseFails
  <2> QED BY <1>4, <2>1, <2>2, <2>3, <2>4, <2>5 DEF StepOfPurchase, PurchaseStep
<1>5. ASSUME NEW c \in Cancels, StepOfCancel(c) PROVE CancelSeat(c) \/ Still
  BY <1>2, <1>3, <1>5
  DEF StepOfCancel, CancelStep, Cancel, ReadSnapshot, CancelRejected, CancelAndRefund, CancelOnly,
      CancelUnacknowledged, CancelRetries, CancelGivesUp, CancelAborted, CancelFails,
      ProviderRefunds, RefundFails, MarkRefundedFails
<1> QED BY <1>3, <1>4, <1>5 DEF Next, StepOfPurchase, StepOfCancel, Crash, Quiet, vars, Still

(* A request keeps its caller, and a committed cancellation what it found. *)
LEMMA CallersKept ==
    ASSUME TypeOK, InStep, [Next]_vars
    PROVE  /\ \A p \in Purchases : payments[p].status # "none" => caller'[p] = caller[p]
           /\ \A c \in Cancels : log[c] # NoTicket =>
                 log'[c] = log[c] /\ caller'[c] = caller[c] /\ owed'[c] = owed[c]
           /\ \A c \in Cancels : log'[c] # log[c] => CancelSeat(c)
<1> USE SalesAssumption DEF Requests, db, provider, locals, claims, cancels
<1>0. /\ caller \in [Requests -> Users \cup {NoUser}]
      /\ \A r \in Purchases : r \notin Cancels
      /\ log \in [Cancels -> Tickets \cup {NoTicket}] /\ owed \in [Cancels -> Purchases \cup {NoPayment}]
      /\ \A p \in Purchases : payments[p].status # "none" => pc[p] # "idle"
      /\ \A c \in Cancels : log[c] # NoTicket => pc[c] \notin {"idle", "commit", "retry"}
  BY DEF TypeOK, RequestsTyped, TablesTyped, LocalsTyped, InStep, PurchaseInStep, CancelInStep, Final
<1> DEFINE Goal ==
      /\ \A p \in Purchases : payments[p].status # "none" => caller'[p] = caller[p]
      /\ \A c \in Cancels : log[c] # NoTicket =>
            log'[c] = log[c] /\ caller'[c] = caller[c] /\ owed'[c] = owed[c]
      /\ \A c \in Cancels : log'[c] # log[c] => CancelSeat(c)
<1>1. ASSUME UNCHANGED <<caller, log, owed>> PROVE Goal
  BY <1>1
<1>2. ASSUME NEW p \in Purchases, StepOfPurchase(p) PROVE Goal
  <2>1. CASE \E u \in Users : BeginPurchase(p, u)
    BY <1>0, <2>1 DEF BeginPurchase
  <2>2. CASE PurchaseStep(p)
    <3>1. UNCHANGED <<caller, log, owed>>
      BY <2>2
      DEF PurchaseStep, LockSeat, SoldOut, Claim, ClaimUnacknowledged, ClaimSeat, ClaimFails,
          ProviderCharges, ProviderDefers, ChargeAnswered, Settle, SettleFails, Release,
          ReleaseFails, CardDeclined, ProviderUnavailable, ChargeAnswerLost, ChargeError
    <3> QED BY <1>1, <3>1
  <2> QED BY <1>2, <2>1, <2>2 DEF StepOfPurchase
<1>3. ASSUME NEW c \in Cancels, StepOfCancel(c) PROVE Goal
  <2>1. CASE CancelSeat(c)
    BY <1>0, <2>1 DEF CancelSeat, Capture
  <2>2. CASE \E u \in Users, t \in Tickets : Cancel(c, u, t)
    BY <1>0, <2>2 DEF Cancel, ReadSnapshot, CancelRejected, Attempt
  <2>3. CASE CancelRetries(c) \/ CancelGivesUp(c)
    BY <1>0, <2>3 DEF CancelRetries, CancelGivesUp, CancelAborted, Capture
  <2>4. CASE CancelFails(c) \/ ProviderRefunds(c) \/ RefundFails(c) \/ MarkRefunded(c) \/ MarkRefundedFails(c)
    BY <1>1, <2>4 DEF CancelFails, ProviderRefunds, RefundFails, MarkRefunded, MarkRefundedFails
  <2>5. pc[c] = "retry" => caller[c] \in Users /\ wanted[c] \in Tickets
    BY <1>0 DEF TypeOK, RequestsTyped, InStep, CancelInStep
  <2> QED BY <1>3, <2>1, <2>2, <2>3, <2>4, <2>5
      DEF StepOfCancel, CancelStep, CancelAndRefund, CancelOnly, CancelUnacknowledged
<1> QED BY <1>1, <1>2, <1>3 DEF Next, StepOfPurchase, StepOfCancel, Crash, Quiet, vars

-----------------------------------------------------------------------------
(* Whoever is paid back gave the seat up, or lost it to the release of     *)
(* another's payment.  A payment that counts has its customer in the seat, *)
(* or that has happened already; so when a cancellation captures it, the   *)
(* customer in the seat, who is the one that asks, is either the payer or  *)
(* came after it.                                                          *)

Parted(p) == GaveUp(caller[p], payments[p].ticket) \/ TakenAway(p)
Followed ==
    /\ \A p \in Purchases : payments[p].status \notin {"none", "failed"} =>
          tickets[payments[p].ticket].user = caller[p] \/ Parted(p)
    /\ \A c \in Cancels : log[c] # NoTicket /\ owed[c] # NoPayment => Parted(owed[c])

LEMMA PartedStays ==
    ASSUME TypeOK, InStep, [Next]_vars, NEW p \in Purchases, payments[p].status # "none", Parted(p)
    PROVE  Parted(p)'
<1>1. payments[p].ticket # NoTicket
  BY DEF InStep, PurchaseInStep
<1>2. payments'[p].ticket = payments[p].ticket /\ caller'[p] = caller[p]
  BY MovesLegal, CallersKept DEF PaymentMoves
<1>3. CASE GaveUp(caller[p], payments[p].ticket)
  BY <1>1, <1>2, <1>3, CallersKept DEF GaveUp, Parted
<1>4. CASE TakenAway(p)
  <2>1. PICK q \in Purchases \ {p} : payments[q] = [status |-> "failed", ticket |-> payments[p].ticket]
    BY <1>4 DEF TakenAway
  <2>2. payments'[q] = payments[q]
    BY <2>1, MovesLegal DEF PaymentMoves, LegalMoves
  <2> QED BY <1>2, <2>1, <2>2 DEF TakenAway, Parted
<1> QED BY <1>3, <1>4 DEF Parted

LEMMA FollowedInit == Init => Followed
  BY DEF Init, NoRow, Followed

LEMMA FollowedNext == TypeOK /\ InStep /\ Followed /\ [Next]_vars => Followed'
<1> SUFFICES ASSUME TypeOK, InStep, Followed, [Next]_vars PROVE Followed'
  OBVIOUS
<1> USE SalesAssumption
<1>0. /\ tickets \in [Tickets -> Seat] /\ payments \in [Purchases -> PaymentRow]
      /\ log \in [Cancels -> Tickets \cup {NoTicket}]
      /\ owed \in [Cancels -> Purchases \cup {NoPayment}] /\ owed' \in [Cancels -> Purchases \cup {NoPayment}]
  BY TypeNext DEF TypeOK, TablesTyped, LocalsTyped
<1>1. ASSUME NEW p \in Purchases, payments'[p].status \notin {"none", "failed"}
      PROVE  tickets'[payments'[p].ticket].user = caller'[p] \/ Parted(p)'
  <2>1. CASE payments[p].status = "none"
    <3>1. PICK q \in Purchases : ClaimSeat(q)
      <4>1. ~Release(p) /\ payments'[p] # payments[p]
        BY <1>1, <2>1 DEF Release, InStep, PurchaseInStep
      <4>2. \A q \in Purchases \ {p} : ~Release(q)
        BY <1>0, <4>1 DEF Release, MarkStatus
      <4>3. \A c \in Cancels : ~CancelSeat(c)
        BY <4>1 DEF CancelSeat
      <4> QED BY <1>1, <2>1, <4>1, <4>2, <4>3, SeatChanges
    <3>2. q = p /\ lock[p] \in Tickets /\ payments'[p].ticket = lock[p] /\ caller'[p] = caller[p]
      BY <1>0, <1>1, <2>1, <3>1 DEF ClaimSeat, InStep, ClaimInStep, TypeOK, LocalsTyped
    <3>3. tickets'[lock[p]].user = caller[p]
      BY <1>0, <3>1, <3>2 DEF ClaimSeat, Sold
    <3> QED BY <3>2, <3>3
  <2>2. CASE payments[p].status # "none"
    <3> DEFINE t == payments[p].ticket
    <3>1. /\ payments'[p].ticket = t /\ caller'[p] = caller[p] /\ caller[p] \in Users
          /\ payments[p].status # "failed" /\ t \in Tickets
      <4>1. payments'[p].ticket = t /\ payments[p].status # "failed" /\ caller'[p] = caller[p]
        BY <1>1, <2>2, MovesLegal, CallersKept DEF PaymentMoves, LegalMoves
      <4>2. pc[p] # "idle" /\ t # NoTicket
        BY <2>2 DEF InStep, PurchaseInStep
      <4> QED BY <1>0, <4>1, <4>2 DEF TypeOK, RequestsTyped, Requests, PaymentRow
    <3>2. CASE Parted(p)
      BY <2>2, <3>2, PartedStays
    <3>3. CASE tickets[t].user = caller[p] /\ tickets'[t] = tickets[t]
      BY <3>1, <3>3
    <3>4. CASE tickets[t].user = caller[p] /\ tickets'[t] # tickets[t]
      <4>0. tickets[t].status = "purchased"
        BY <3>1, <3>4, RowKinds, RowContents
      <4>1. CASE \E q \in Purchases : ClaimSeat(q)
        <5>1. PICK q \in Purchases : ClaimSeat(q)
          BY <4>1
        <5>2. t # lock[q]
          BY <4>0, <5>1 DEF ClaimSeat, Unsold
        <5> QED BY <1>0, <3>1, <3>4, <5>1, <5>2 DEF ClaimSeat
      <4>2. CASE \E q \in Purchases : Release(q)
        <5>1. PICK q \in Purchases : Release(q)
          BY <4>2
        <5>2. payments[q].ticket = t /\ payments'[q].status = "failed" /\ payments'[q].ticket = t
          BY <1>0, <3>1, <3>4, <5>1 DEF Release, Releasable, MarkStatus, PaymentRow
        <5>3. payments'[q] = [status |-> "failed", ticket |-> t] /\ q # p
          BY <1>0, <1>1, <5>1, <5>2 DEF Release, MarkStatus, PaymentRow
        <5> QED BY <3>1, <5>3 DEF Parted, TakenAway
      <4>3. CASE \E c \in Cancels : CancelSeat(c)
        <5>1. PICK c \in Cancels : CancelSeat(c)
          BY <4>3
        <5>2. t = wanted[c] /\ log'[c] = t
          BY <1>0, <3>1, <3>4, <5>1 DEF CancelSeat
        <5>3. caller'[c] = caller[c] /\ caller[c] = caller[p]
          BY <3>4, <5>1, <5>2 DEF CancelSeat, RowUnchanged, InStep, CancelInStep
        <5> QED BY <3>1, <5>2, <5>3 DEF Parted, GaveUp
      <4> QED BY <3>4, <4>1, <4>2, <4>3, SeatChanges
    <3> QED BY <2>2, <3>1, <3>2, <3>3, <3>4 DEF Followed
  <2> QED BY <2>1, <2>2
<1>2. ASSUME NEW c \in Cancels, log'[c] # NoTicket, owed'[c] # NoPayment PROVE Parted(owed[c])'
  <2>1. CASE log[c] # NoTicket
    <3>1. owed'[c] = owed[c] /\ owed[c] \in Purchases /\ Parted(owed[c])
      BY <1>0, <1>2, <2>1, CallersKept DEF Followed
    <3>2. PICK p \in Purchases : p = owed[c]
      BY <3>1
    <3>3. payments[p].status # "none" /\ Parted(p)
      BY <1>0, <3>1, <3>2 DEF InStep, CancelInStep
    <3>4. Parted(p)'
      BY <3>3, PartedStays
    <3> QED BY <3>1, <3>2, <3>4 DEF Parted, GaveUp, TakenAway
  <2>2. CASE log[c] = NoTicket
    <3>1. CancelSeat(c) /\ CancelInStep(c)
      BY <1>2, <2>2, CallersKept DEF InStep
    <3>2. owed'[c] = Payment(c)
      BY <1>0, <3>1 DEF CancelSeat, Capture
    <3>3. PICK p \in Purchases : p = Payment(c)
      BY <1>0, <1>2, <3>2
    <3>4. payments[p].ticket = wanted[c] /\ payments[p].status \in {"succeeded", "refunded"}
          /\ wanted[c] \in Tickets
      BY <1>2, <3>1, <3>2, <3>3, PaymentIsSettled DEF CancelSeat, CancelInStep
    <3>5. tickets'[wanted[c]].user = NoUser /\ payments' = payments
      BY <1>0, <3>1, <3>4, RowKinds, RowContents DEF CancelSeat
    <3>6. caller'[p] \in Users
      <4>1. PurchaseInStep(p) /\ p \in Requests /\ caller' = caller
        BY <3>1 DEF InStep, Requests, CancelSeat, locals
      <4>2. pc[p] # "idle"
        BY <3>4, <4>1 DEF PurchaseInStep
      <4> QED BY <4>1, <4>2 DEF TypeOK, RequestsTyped
    <3>7. Parted(p)'
      BY <1>1, <3>4, <3>5, <3>6
    <3> QED BY <3>2, <3>3, <3>7 DEF Parted, GaveUp, TakenAway
  <2> QED BY <2>1, <2>2
<1> QED BY <1>1, <1>2 DEF Followed

-----------------------------------------------------------------------------
(* A cancellation is announced when the last row about its seat is the     *)
(* caller's purchase, and rows are never changed.                          *)

LEMMA UndoneNext ==
    TypeOK /\ InStep /\ HeldSeatAnnounced /\ CancellationsUndoPurchases /\ [Next]_vars
        => CancellationsUndoPurchases'
<1> SUFFICES ASSUME TypeOK, InStep, HeldSeatAnnounced, CancellationsUndoPurchases, [Next]_vars
             PROVE  CancellationsUndoPurchases'
  OBVIOUS
<1>1. ASSUME UNCHANGED outbox PROVE CancellationsUndoPurchases'
  BY <1>1 DEF CancellationsUndoPurchases, Precedes
<1>2. ASSUME NEW e \in Event, outbox' = Append(outbox, e),
             e.topic = "ticket.cancelled" =>
               \E i \in DOMAIN outbox : LastAbout(e.ticket, i) /\ outbox[i].topic = "ticket.purchased"
                                                             /\ outbox[i].user = e.user
      PROVE  CancellationsUndoPurchases'
  <2>0. PICK n \in Nat : n = Len(outbox)
    BY DEF TypeOK, TablesTyped
  <2>1. /\ DOMAIN outbox = 1..n /\ DOMAIN outbox' = 1..(n + 1)
        /\ outbox'[n + 1] = e /\ \A k \in 1..n : outbox'[k] = outbox[k]
    BY <1>2, <2>0 DEF TypeOK, TablesTyped
  <2> SUFFICES ASSUME NEW j \in 1..(n + 1), outbox'[j].topic = "ticket.cancelled"
               PROVE  \E i \in 1..(n + 1) : /\ Precedes(i, j)'
                                            /\ outbox'[i].topic = "ticket.purchased"
                                            /\ outbox'[i].user = outbox'[j].user
    BY <2>1 DEF CancellationsUndoPurchases
  <2>2. CASE j \in 1..n
    <3>1. PICK i \in 1..n : Precedes(i, j) /\ outbox[i].topic = "ticket.purchased"
                                          /\ outbox[i].user = outbox[j].user
      BY <2>1, <2>2 DEF CancellationsUndoPurchases
    <3>2. Precedes(i, j)'
      BY <2>1, <2>2, <3>1 DEF Precedes
    <3> QED BY <2>1, <2>2, <3>1, <3>2
  <2>3. CASE j = n + 1
    <3>1. PICK i \in 1..n : LastAbout(e.ticket, i) /\ outbox[i].topic = "ticket.purchased"
                                                  /\ outbox[i].user = e.user
      BY <1>2, <2>1, <2>3
    <3>2. Precedes(i, j)'
      BY <2>1, <2>3, <3>1 DEF Precedes, LastAbout
    <3> QED BY <2>1, <2>3, <3>1, <3>2
  <2> QED BY <2>2, <2>3
<1>3. ASSUME NEW p \in Purchases, ClaimSeat(p) PROVE CancellationsUndoPurchases'
  <2>1. lock[p] \in Tickets /\ caller[p] \in Users
    BY <1>3 DEF ClaimSeat, InStep, ClaimInStep, PurchaseInStep, TypeOK, LocalsTyped, RequestsTyped, Requests
  <2>2. PICK f \in Event : f = [topic |-> "ticket.purchased", ticket |-> lock[p], user |-> caller[p]]
    BY <2>1 DEF Event
  <2>3. f.topic = "ticket.purchased"
    BY <2>2
  <2>4. outbox' = Append(outbox, f)
    BY <1>3, <2>2 DEF ClaimSeat, Enqueue
  <2> QED BY <1>2, <2>3, <2>4
<1>4. ASSUME NEW c \in Cancels, CancelSeat(c) PROVE CancellationsUndoPurchases'
  <2>1. wanted[c] \in Tickets /\ caller[c] \in Users /\ tickets[wanted[c]].status = "purchased"
        /\ tickets[wanted[c]].user = caller[c]
    BY <1>4 DEF CancelSeat, RowUnchanged, InStep, CancelInStep, TypeOK, RequestsTyped, Requests
  <2>2. PICK f \in Event : f = [topic |-> "ticket.cancelled", ticket |-> wanted[c], user |-> caller[c]]
    BY <2>1 DEF Event
  <2>3. f.ticket = wanted[c] /\ f.user = caller[c]
    BY <2>2
  <2>4. outbox' = Append(outbox, f)
    BY <1>4, <2>2 DEF CancelSeat, Enqueue
  <2>5. \E i \in DOMAIN outbox : LastAbout(f.ticket, i) /\ outbox[i].topic = "ticket.purchased"
                                                      /\ outbox[i].user = f.user
    BY <2>1, <2>3 DEF HeldSeatAnnounced
  <2> QED BY <1>2, <2>4, <2>5
<1>5. ASSUME NEW p \in Purchases, Release(p) PROVE CancellationsUndoPurchases'
  BY <1>1, <1>5 DEF Release
<1> QED BY <1>1, <1>3, <1>4, <1>5, SeatChanges
-----------------------------------------------------------------------------
(* The invariant, and what follows from it.                                *)

Inv == TypeOK /\ InStep /\ SeatBacked /\ Announced /\ Followed /\ CancellationsUndoPurchases

LEMMA Invariance == Spec => []Inv
<1>1. Init => Inv
  <2>1. Init => SeatBacked /\ Announced
    BY RowContents DEF Init, SeatBacked, Announced, HeldSeatAnnounced, OpenSeatExplained, LastAbout
  <2>2. Init => CancellationsUndoPurchases
    BY DEF Init, CancellationsUndoPurchases
  <2> QED BY <2>1, <2>2, TypeInit, InStepInit, FollowedInit DEF Inv
<1>2. Inv /\ [Next]_vars => Inv'
  BY TypeNext, InStepNext, SeatBackedNext, AnnouncedNext, FollowedNext, UndoneNext
  DEF Inv, Announced
<1> QED BY <1>1, <1>2, PTL DEF Spec

(* A sold seat always has a payment of its owner behind it that neither    *)
(* failed nor goes back: settled, about to be, or left behind by a         *)
(* purchase that a crash or a failing transaction cut short.               *)
THEOREM SeatsAreBacked == Spec => []SeatBacked
<1>1. Inv => SeatBacked
  BY DEF Inv
<1> QED BY <1>1, Invariance, PTL

(* The books never record what the provider has not acted upon.            *)
THEOREM BooksAreTrue == Spec => []BooksFollowProvider
<1>1. Inv => BooksFollowProvider
  BY DEF Inv, InStep, PurchaseInStep, PaymentInStep, BooksFollowProvider
<1> QED BY <1>1, Invariance, PTL

(* A refusal is never followed by a charge, nor given after one.           *)
THEOREM RefusedIsNotCharged == Spec => []RefusedNotCharged
<1>1. Inv => RefusedNotCharged
  BY DEF Inv, InStep, PurchaseInStep, RefusedNotCharged
<1> QED BY <1>1, Invariance, PTL

(* Only a charged payment is refunded, whose customer gave the seat up or  *)
(* lost it to a failed payment's release; and at most once with a provider *)
(* that honours the refund's key.                                          *)
THEOREM RefundsAreSingle == Spec => []RefundedOnce
<1>1. Inv => RefundedOnce
  <2> SUFFICES ASSUME Inv, NEW p \in Purchases, refunds[p] > 0
               PROVE  (RefundsKeyed => refunds[p] = 1) /\ p \in charged /\ Parted(p)
    BY DEF RefundedOnce, Parted
  <2>1. (RefundsKeyed => refunds[p] = 1) /\ p \in charged
    BY DEF Inv, InStep, PaymentInStep, TypeOK, ProviderTyped
  <2>2. PICK c \in Cancels : owed[c] = p /\ log[c] # NoTicket
    BY DEF Inv, InStep, PaymentInStep
  <2>3. Parted(p)
    BY <2>2, SalesAssumption DEF Inv, Followed
  <2> QED BY <2>1, <2>3
<1> QED BY <1>1, Invariance, PTL

(* A claim that holds its seat's lock finds the seat unsold at its UPDATE. *)
THEOREM LockedSeatsAreUnsold == Spec => []LockedSeatUnsold
<1>1. Inv => LockedSeatUnsold
  BY DEF Inv, InStep, ClaimInStep, LockedSeatUnsold, Unsold
<1> QED BY <1>1, Invariance, PTL

(* Every cancellation in the outbox undoes the purchase just before it.    *)
THEOREM CancellationsUndo == Spec => []CancellationsUndoPurchases
<1>1. Inv => CancellationsUndoPurchases
  BY DEF Inv
<1> QED BY <1>1, Invariance, PTL

(* Whoever reads the outbox in order never takes a sold seat for another's. *)
THEOREM SalesAreAnnounced == Spec => []HeldSeatAnnounced
<1>1. Inv => HeldSeatAnnounced
  BY DEF Inv, Announced
<1> QED BY <1>1, Invariance, PTL

(* An open seat whose last announcement is a purchase has a failed payment. *)
THEOREM SilentReleasesAreExplained == Spec => []OpenSeatExplained
<1>1. Inv => OpenSeatExplained
  BY DEF Inv, Announced
<1> QED BY <1>1, Invariance, PTL

(* Where every intent is captured at once, what the books call succeeded   *)
(* was taken: with a provider that defers, the code does not ensure it.    *)
THEOREM CapturedWithoutDeferral ==
    ASSUME "deferred" \notin Faults PROVE Spec => []SucceededIsCaptured
<1>1. Inv => SucceededIsCaptured
  BY DEF Inv, InStep, PurchaseInStep, SucceededIsCaptured
<1> QED BY <1>1, Invariance, PTL

(* A payment moves only along its lifecycle, although MarkStatus and the   *)
(* release write whatever the row says.                                    *)
THEOREM PaymentsMoveLegally == Spec => PaymentLifecycle
<1>1. Inv /\ [Next]_vars => [PaymentMoves]_vars
  BY MovesLegal DEF Inv
<1> QED BY <1>1, Invariance, PTL DEF Spec, PaymentLifecycle

(* Whatever happened to the seat since the cancellation looked it up, what *)
(* it gives up is the caller's.                                            *)
THEOREM CancellationsAreTheOwners == Spec => CancelsOwnSeat
<1>1. Inv /\ [Next]_vars => [GivesUpOwnSeat]_vars
  <2> SUFFICES ASSUME Inv, Next PROVE GivesUpOwnSeat
    OBVIOUS
  <2> USE SalesAssumption DEF db, provider, locals, Inv, TypeOK
  <2>1. CASE UNCHANGED log
    BY <2>1 DEF GivesUpOwnSeat
  <2>2. ASSUME NEW c \in Cancels, CancelSeat(c) PROVE GivesUpOwnSeat
    <3>1. log' = [log EXCEPT ![c] = wanted[c]] /\ log \in [Cancels -> Tickets \cup {NoTicket}]
      BY <2>2 DEF CancelSeat, TablesTyped
    <3>2. tickets[wanted[c]].user = caller[c]
      BY <2>2 DEF CancelSeat, RowUnchanged, InStep, CancelInStep
    <3> QED BY <3>1, <3>2 DEF GivesUpOwnSeat
  <2>3. ASSUME NEW p \in Purchases, PurchaseStep(p) \/ \E u \in Users : BeginPurchase(p, u)
        PROVE  UNCHANGED log
    BY <2>3
    DEF PurchaseStep, BeginPurchase, LockSeat, SoldOut, Claim, ClaimUnacknowledged, ClaimSeat,
        ClaimFails, ProviderCharges, ProviderDefers, ChargeAnswered, Settle, SettleFails, Release,
        ReleaseFails, CardDeclined, ProviderUnavailable, ChargeAnswerLost, ChargeError
  <2>4. ASSUME NEW c \in Cancels, CancelStep(c) \/ \E u \in Users, t \in Tickets : Cancel(c, u, t)
        PROVE  GivesUpOwnSeat
    BY <2>1, <2>2, <2>4
    DEF CancelStep, Cancel, ReadSnapshot, CancelRejected, CancelAndRefund, CancelOnly,
        CancelUnacknowledged, CancelRetries, CancelGivesUp, CancelAborted, CancelFails,
        ProviderRefunds, RefundFails, MarkRefunded, MarkRefundedFails
  <2> QED BY <2>1, <2>3, <2>4 DEF Next, Crash, Quiet, vars
<1> QED BY <1>1, Invariance, PTL DEF Spec, CancelsOwnSeat

-----------------------------------------------------------------------------
(* The books of a served purchase, where no call is lost and nothing dies. *)

(* BooksComplete with what makes it inductive: a seat is released only for *)
(* a charge that was not carried out.                                      *)
CompleteSoFar(p) ==
    /\ pc[p] = "release" => p \notin intents
    /\ pc[p] = "done" /\ payments[p].status # "none" =>
          /\ payments[p].status # "pending"
          /\ p \in intents <=> payments[p].status \in {"succeeded", "refunded"}

LEMMA CompleteNext ==
    ASSUME Faults \cap {"lost", "database", "commit", "crash"} = {},
           TypeOK, InStep, [Next]_vars, NEW p \in Purchases, CompleteSoFar(p)
    PROVE  CompleteSoFar(p)'
<1> USE SalesAssumption DEF Requests, Goto, Answer, db, provider, locals, claims, cancels
<1>0. /\ pc \in [Requests -> Places] /\ payments \in [Purchases -> PaymentRow]
      /\ \A q \in Purchases : PurchaseInStep(q)
  BY DEF TypeOK, RequestsTyped, TablesTyped, InStep
<1>1. ASSUME pc'[p] = pc[p], payments'[p] = payments[p], p \in intents' <=> p \in intents
      PROVE  CompleteSoFar(p)'
  BY <1>1 DEF CompleteSoFar
<1>2. ASSUME NEW q \in Purchases, q # p, PurchaseStep(q) \/ \E u \in Users : BeginPurchase(q, u)
      PROVE  CompleteSoFar(p)'
  <2>1. pc'[p] = pc[p]
    BY <1>0, <1>2
    DEF PurchaseStep, BeginPurchase, LockSeat, SoldOut, Claim, ClaimUnacknowledged, ClaimSeat,
        ClaimFails, ProviderCharges, ProviderDefers, ChargeAnswered, Settle, SettleFails, Release,
        ReleaseFails, CardDeclined, ProviderUnavailable, ChargeAnswerLost, ChargeError
  <2>2. payments'[p] = payments[p] /\ (p \in intents' <=> p \in intents)
    BY <1>0, <1>2
    DEF PurchaseStep, BeginPurchase, LockSeat, SoldOut, Claim, ClaimUnacknowledged, ClaimSeat,
        ClaimFails, ProviderCharges, ProviderDefers, ChargeAnswered, Settle, SettleFails, Release,
        ReleaseFails, CardDeclined, ProviderUnavailable, ChargeAnswerLost, ChargeError, MarkStatus
  <2> QED BY <1>1, <2>1, <2>2
<1>3. ASSUME PurchaseStep(p) \/ \E u \in Users : BeginPurchase(p, u) PROVE CompleteSoFar(p)'
  <2>1. CASE \E u \in Users : BeginPurchase(p, u)
    BY <1>0, <2>1 DEF BeginPurchase, CompleteSoFar
  <2>2. CASE \/ \E t \in Tickets : LockSeat(p, t)
             \/ Claim(p) \/ ProviderCharges(p) \/ ProviderDefers(p) \/ ChargeAnswered(p)
    BY <1>0, <2>2 DEF LockSeat, Claim, ClaimSeat, ProviderCharges, ProviderDefers,
                      ChargeAnswered, CompleteSoFar
  <2>3. CASE SoldOut(p)
    BY <1>0, <2>3 DEF SoldOut, PurchaseInStep, CompleteSoFar
  <2>4. CASE CardDeclined(p) \/ ProviderUnavailable(p)
    BY <1>0, <2>4 DEF CardDeclined, ProviderUnavailable, ChargeError, PurchaseInStep, CompleteSoFar
  <2>5. CASE Settle(p)
    <3>1. payments'[p].status = "succeeded" /\ p \in intents' /\ pc'[p] = "done"
      BY <1>0, <2>5 DEF Settle, MarkStatus, PurchaseInStep, PaymentRow
    <3> QED BY <3>1 DEF CompleteSoFar
  <2>6. CASE Release(p)
    <3>1. payments'[p].status = "failed" /\ p \notin intents' /\ pc'[p] = "done"
      BY <1>0, <2>6 DEF Release, MarkStatus, CompleteSoFar, PaymentRow
    <3> QED BY <3>1 DEF CompleteSoFar
  <2>7. ~ClaimFails(p)
    BY DEF ClaimFails, Unsold, InStep, ClaimInStep
  <2> QED BY <1>3, <2>1, <2>2, <2>3, <2>4, <2>5, <2>6, <2>7
      DEF PurchaseStep, ClaimUnacknowledged, ChargeAnswerLost, SettleFails, ReleaseFails
<1>4. ASSUME NEW c \in Cancels, CancelStep(c) \/ \E u \in Users, t \in Tickets : Cancel(c, u, t)
      PROVE  CompleteSoFar(p)'
  <2>1. pc'[p] = pc[p] /\ UNCHANGED intents
    BY <1>0, <1>4
    DEF CancelStep, Cancel, ReadSnapshot, CancelRejected, CancelAndRefund, CancelOnly,
        CancelUnacknowledged, CancelSeat, CancelRetries, CancelGivesUp, CancelAborted, CancelFails,
        ProviderRefunds, RefundFails, MarkRefunded, MarkRefundedFails
  <2>2. CASE UNCHANGED payments
    BY <1>1, <2>1, <2>2
  <2>3. CASE MarkRefunded(c)
    <3>1. \/ payments'[p] = payments[p]
          \/ payments[p].status = "succeeded" /\ payments'[p].status = "refunded"
      BY <1>0, <2>3 DEF MarkRefunded, Markable, PaymentRow
    <3> QED BY <1>1, <2>1, <3>1 DEF CompleteSoFar
  <2> QED BY <1>4, <2>2, <2>3
    DEF CancelStep, Cancel, ReadSnapshot, CancelRejected, CancelAndRefund, CancelOnly,
        CancelUnacknowledged, CancelSeat, CancelRetries, CancelGivesUp, CancelAborted, CancelFails,
        ProviderRefunds, RefundFails, MarkRefundedFails
<1>5. CASE UNCHANGED vars
  BY <1>1, <1>5 DEF vars
<1> QED BY <1>2, <1>3, <1>4, <1>5 DEF Next, Crash, Quiet

(* When no call is lost, no transaction fails and nothing dies, the books  *)
(* of every served purchase are complete.                                  *)
THEOREM BooksAreComplete ==
    ASSUME Faults \cap {"lost", "database", "commit", "crash"} = {}
    PROVE  Spec => []BooksComplete
<1> DEFINE AllComplete == \A p \in Purchases : CompleteSoFar(p)
<1>1. Init => AllComplete
  BY SalesAssumption DEF Init, CompleteSoFar, Requests
<1>2. AllComplete /\ (TypeOK /\ InStep) /\ [Next]_vars => AllComplete'
  <2> SUFFICES ASSUME AllComplete, TypeOK, InStep, [Next]_vars, NEW p \in Purchases
               PROVE  CompleteSoFar(p)'
    OBVIOUS
  <2> QED BY CompleteNext
<1>3. AllComplete => BooksComplete
  BY DEF CompleteSoFar, BooksComplete
<1> HIDE DEF AllComplete
<1> QED BY <1>1, <1>2, <1>3, Consistency, PTL DEF Spec

-----------------------------------------------------------------------------
(* The service runs the ledger.                                            *)

Holder == [t \in Tickets |-> tickets[t].user]
Stage == [p \in Purchases |-> payments[p].status]
SeatOf == [p \in Purchases |-> payments[p].ticket]
Payer == [p \in Purchases |-> IF payments[p].status = "none" THEN NoUser ELSE caller[p]]

(* An occupied seat and a held one are the same.                           *)
LEMMA HeldIsOccupied ==
    ASSUME TypeOK, NEW t \in Tickets
    PROVE  Ledger!Held(t) <=> Occupied(t)
<1>1. tickets[t].user # NoUser <=> Occupied(t)
  BY RowKinds, RowContents, SalesAssumption DEF Occupied
<1> QED BY <1>1 DEF Ledger!Held

LEMMA LedgerInit == Init => Ledger!Init
  BY RowContents DEF Init, Ledger!Init, NoRow

LEMMA LedgerStep == Inv /\ Inv' /\ [Next]_vars => [Ledger!Next]_Ledger!vars
<1> SUFFICES ASSUME Inv, Inv', [Next]_vars PROVE Ledger!Next \/ UNCHANGED Ledger!vars
  OBVIOUS
<1> USE SalesAssumption DEF db, provider, locals, claims, cancels, Requests
<1>0. /\ tickets \in [Tickets -> Seat] /\ payments \in [Purchases -> PaymentRow]
      /\ caller \in [Requests -> Users \cup {NoUser}] /\ TypeOK /\ InStep /\ TypeOK'
      /\ \A q \in Purchases : PurchaseInStep(q)
  BY DEF Inv, TypeOK, TablesTyped, RequestsTyped, InStep
(* A step seen by neither tables nor payers is a stutter.                  *)
<1>1. ASSUME UNCHANGED <<tickets, payments>>,
             \A q \in Purchases : payments[q].status # "none" => caller'[q] = caller[q]
      PROVE  UNCHANGED Ledger!vars
  BY <1>1 DEF Ledger!vars, Ledger!book
<1>2. ASSUME NEW p \in Purchases, ClaimSeat(p) PROVE Ledger!Next
  <2>0. pc[p] = "locked" /\ lock[p] \in Tickets /\ caller[p] \in Users
    BY <1>0, <1>2 DEF ClaimSeat, InStep, ClaimInStep, TypeOK, LocalsTyped, RequestsTyped
  <2>1. PICK t \in Tickets, u \in Users : t = lock[p] /\ u = caller[p]
    BY <2>0
  <2>2. /\ payments[p].status = "none" /\ tickets[t].status = "available" /\ began[p] \in Nat
        /\ tickets' = [tickets EXCEPT ![t] = Sold(u, began[p])]
        /\ payments' = [payments EXCEPT ![p] = [status |-> "pending", ticket |-> t]]
        /\ UNCHANGED caller
    BY <1>0, <1>2, <2>1 DEF ClaimSeat, Inv, InStep, ClaimInStep, PurchaseInStep, TypeOK, LocalsTyped
  <2>3. ~Ledger!Held(t)
    BY <1>0, <2>2, HeldIsOccupied DEF Occupied
  <2>4. Holder' = [Holder EXCEPT ![t] = u]
    BY <1>0, <2>2, RowContents DEF Holder
  <2>5. Stage' = [Stage EXCEPT ![p] = "pending"] /\ Stage[p] = "none"
    BY <1>0, <2>2 DEF Stage
  <2>6. SeatOf' = [SeatOf EXCEPT ![p] = t]
    BY <1>0, <2>2 DEF SeatOf
  <2>7. Payer' = [Payer EXCEPT ![p] = u]
    BY <1>0, <2>1, <2>2 DEF Payer
  <2>8. Ledger!Sell(p, t, u)
    BY <2>3, <2>4, <2>5, <2>6, <2>7 DEF Ledger!Sell, Holder, Stage, SeatOf, Payer
  <2> QED BY <2>8 DEF Ledger!Next
<1>3. ASSUME NEW p \in Purchases, Settle(p) PROVE Ledger!Next
  <2>1. /\ payments[p].status = "pending" /\ UNCHANGED <<tickets, caller>>
        /\ payments' = [payments EXCEPT ![p] = [payments[p] EXCEPT !.status = "succeeded"]]
    BY <1>0, <1>3 DEF Settle, MarkStatus, PurchaseInStep
  <2>2. Stage' = [Stage EXCEPT ![p] = "succeeded"] /\ Stage[p] = "pending"
    BY <1>0, <2>1 DEF Stage, PaymentRow
  <2>3. UNCHANGED <<Holder, SeatOf, Payer>>
    BY <1>0, <2>1 DEF Holder, SeatOf, Payer, PaymentRow
  <2>4. Ledger!Confirm(p)
    BY <2>2, <2>3 DEF Ledger!Confirm, Ledger!book, Holder, Stage, SeatOf, Payer
  <2> QED BY <2>4 DEF Ledger!Next
<1>4. ASSUME NEW p \in Purchases, Release(p) PROVE Ledger!Next
  <2>1. /\ payments[p].status = "pending" /\ UNCHANGED caller
        /\ payments' = [payments EXCEPT ![p] = [payments[p] EXCEPT !.status = "failed"]]
    BY <1>0, <1>4 DEF Release, MarkStatus, PurchaseInStep
  <2>2. Stage' = [Stage EXCEPT ![p] = "failed"] /\ Stage[p] = "pending"
    BY <1>0, <2>1 DEF Stage, PaymentRow
  <2>3. UNCHANGED <<SeatOf, Payer>>
    BY <1>0, <2>1 DEF SeatOf, Payer, PaymentRow
  <2>4. Holder' = [Holder EXCEPT ![SeatOf[p]] = NoUser]
    <3>1. SeatOf[p] = payments[p].ticket
      BY DEF SeatOf
    <3>2. ASSUME NEW t \in Tickets
          PROVE  tickets'[t].user = IF t = payments[p].ticket THEN NoUser ELSE tickets[t].user
      BY <1>0, <1>4, RowKinds, RowContents DEF Release, Releasable
    <3>3. tickets' = [t \in Tickets |-> tickets'[t]]
      BY <1>4 DEF Release
    <3> QED BY <3>1, <3>2 DEF Holder
  <2>5. Ledger!Undo(p)
    BY <2>2, <2>3, <2>4 DEF Ledger!Undo, Ledger!book, Holder, Stage, SeatOf, Payer
  <2> QED BY <2>5 DEF Ledger!Next
<1>5. ASSUME NEW c \in Cancels, CancelSeat(c) PROVE Ledger!Next
  <2>1. PICK t \in Tickets : t = wanted[c]
    BY <1>5 DEF CancelSeat, Inv, InStep, CancelInStep
  <2>2. /\ tickets[t].status = "purchased" /\ UNCHANGED <<payments, caller>>
        /\ tickets' = [tickets EXCEPT ![t] = OpenSeat]
    BY <1>0, <1>5, <2>1, RowKinds DEF CancelSeat, RowUnchanged, Inv, InStep, CancelInStep
  <2>3. Ledger!Held(t)
    BY <1>0, <2>2, HeldIsOccupied DEF Occupied
  <2>4. Holder' = [Holder EXCEPT ![t] = NoUser]
    BY <1>0, <2>2, RowContents DEF Holder
  <2>5. UNCHANGED <<Stage, SeatOf, Payer>>
    BY <2>2 DEF Stage, SeatOf, Payer
  <2>6. Ledger!GiveUp(t)
    BY <2>3, <2>4, <2>5 DEF Ledger!GiveUp, Ledger!book, Holder, Stage, SeatOf, Payer
  <2> QED BY <2>6 DEF Ledger!Next
<1>6. ASSUME NEW c \in Cancels, MarkRefunded(c) PROVE Ledger!Next \/ UNCHANGED Ledger!vars
  <2>1. owed[c] \in Purchases /\ UNCHANGED <<tickets, caller>>
    BY <1>6 DEF MarkRefunded, Inv, InStep, CancelInStep
  <2>2. CASE ~Markable(owed[c])
    BY <1>1, <1>6, <2>1, <2>2 DEF MarkRefunded
  <2>3. CASE Markable(owed[c])
    <3>1. PICK p \in Purchases : p = owed[c]
      BY <2>1
    <3>2. /\ payments[p].status = "succeeded"
          /\ payments' = [payments EXCEPT ![p] = [payments[p] EXCEPT !.status = "refunded"]]
      BY <1>6, <2>3, <3>1 DEF MarkRefunded, Markable
    <3>3. Stage' = [Stage EXCEPT ![p] = "refunded"] /\ Stage[p] = "succeeded"
      BY <1>0, <3>2 DEF Stage, PaymentRow
    <3>4. UNCHANGED <<Holder, SeatOf, Payer>>
      BY <1>0, <2>1, <3>2 DEF Holder, SeatOf, Payer, PaymentRow
    <3>5. Ledger!Covered'
      <4> SUFFICES ASSUME NEW t \in Tickets, Ledger!Held(t)'
                   PROVE  \E q \in Purchases : Ledger!Covers(q, t)'
        BY DEF Ledger!Covered
      <4>1. Occupied(t)'
        BY <1>0, RowKinds, RowContents, PTL, HeldIsOccupied
      <4>2. PICK q \in Purchases : Backs(q, t)'
        BY <4>1 DEF Inv, SeatBacked, Occupied
      <4> QED BY <4>2 DEF Backs, Ledger!Covers
    <3>6. Ledger!PayBack(p)
      BY <3>3, <3>4, <3>5 DEF Ledger!PayBack, Ledger!book, Holder, Stage, SeatOf, Payer
    <3> QED BY <3>6 DEF Ledger!Next
  <2> QED BY <2>2, <2>3
<1>7. ASSUME NEW p \in Purchases, PurchaseStep(p) \/ \E u \in Users : BeginPurchase(p, u)
      PROVE  Ledger!Next \/ UNCHANGED Ledger!vars
  <2>1. ASSUME NEW u \in Users, BeginPurchase(p, u) PROVE UNCHANGED Ledger!vars
    BY <1>0, <1>1, <2>1 DEF BeginPurchase, PurchaseInStep
  <2> QED BY <1>1, <1>2, <1>3, <1>4, <1>7, <2>1
    DEF PurchaseStep, LockSeat, SoldOut, Claim, ClaimUnacknowledged, ClaimFails,
        ProviderCharges, ProviderDefers, ChargeAnswered, SettleFails, ReleaseFails, CardDeclined,
        ProviderUnavailable, ChargeAnswerLost, ChargeError
<1>8. ASSUME NEW c \in Cancels, CancelStep(c) \/ \E u \in Users, t \in Tickets : Cancel(c, u, t)
      PROVE  Ledger!Next \/ UNCHANGED Ledger!vars
  <2>1. ASSUME NEW u, NEW t, Cancel(c, u, t) PROVE UNCHANGED Ledger!vars
    BY <1>0, <1>1, <2>1 DEF Cancel, ReadSnapshot, CancelRejected, Attempt
  <2> QED BY <1>1, <1>5, <1>6, <1>8, <2>1
    DEF CancelStep, CancelAndRefund, CancelOnly,
        CancelUnacknowledged, CancelRetries, CancelGivesUp, CancelAborted, CancelFails,
        ProviderRefunds, RefundFails, MarkRefundedFails
<1>9. CASE Crash \/ UNCHANGED vars
  BY <1>1, <1>9 DEF Crash, vars
<1> QED BY <1>7, <1>8, <1>9 DEF Next, Quiet

(* Seen from the seats and the payments alone, every behaviour of the      *)
(* service is one of the ledger's.                                         *)
THEOREM ServiceRunsTheLedger == Spec => RunsTheLedger
  BY LedgerInit, LedgerStep, Invariance, PTL DEF Spec, RunsTheLedger, Ledger!Spec

=============================================================================
