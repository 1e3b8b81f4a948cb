----------------------------- MODULE SeatLedger -----------------------------
(***************************************************************************)
(* What the sale of an event's seats promises, with no requests, faults or *)
(* messages: a seat is open or held by one customer, a payment is made for *)
(* one seat and moves through its stages once, and money is never paid     *)
(* back while that payment is all that stands behind a held seat.          *)
(***************************************************************************)
CONSTANTS
    Users, Tickets, Purchases, NoUser, NoTicket

VARIABLES
    holder,  \* holder[t]: the customer who holds seat t, or NoUser
    stage,   \* stage[p]: how far payment p has come
    seat,    \* seat[p]: the seat payment p is for
    payer    \* payer[p]: the customer who makes payment p

book == <<seat, payer>>
vars == <<holder, stage, book>>

Init ==
    /\ holder = [t \in Tickets |-> NoUser]
    /\ stage = [p \in Purchases |-> "none"]
    /\ seat = [p \in Purchases |-> NoTicket]
    /\ payer = [p \in Purchases |-> NoUser]

Held(t) == holder[t] # NoUser

\* Payment p stands behind seat t.
Covers(p, t) ==
    seat[p] = t /\ payer[p] = holder[t] /\ stage[p] \in {"pending", "succeeded"}
Covered == \A t \in Tickets : Held(t) => \E p \in Purchases : Covers(p, t)

\* An open seat goes to a customer, with the payment that is to cover it.
Sell(p, t, u) ==
    /\ ~Held(t) /\ stage[p] = "none"
    /\ holder' = [holder EXCEPT ![t] = u]
    /\ stage' = [stage EXCEPT ![p] = "pending"]
    /\ seat' = [seat EXCEPT ![p] = t]
    /\ payer' = [payer EXCEPT ![p] = u]

\* The money arrived.
Confirm(p) ==
    /\ stage[p] = "pending"
    /\ stage' = [stage EXCEPT ![p] = "succeeded"]
    /\ UNCHANGED <<holder, book>>

\* The money did not arrive: the seat of that payment is open again.
Undo(p) ==
    /\ stage[p] = "pending"
    /\ stage' = [stage EXCEPT ![p] = "failed"]
    /\ holder' = [holder EXCEPT ![seat[p]] = NoUser]
    /\ UNCHANGED book

\* The holder gives the seat up.
GiveUp(t) ==
    /\ Held(t)
    /\ holder' = [holder EXCEPT ![t] = NoUser]
    /\ UNCHANGED <<stage, book>>

\* The money goes back, if every held seat has another payment behind it.
PayBack(p) ==
    /\ stage[p] = "succeeded"
    /\ stage' = [stage EXCEPT ![p] = "refunded"]
    /\ UNCHANGED <<holder, book>>
    /\ Covered'

Next ==
    \/ \E p \in Purchases, t \in Tickets, u \in Users : Sell(p, t, u)
    \/ \E p \in Purchases : Confirm(p) \/ Undo(p) \/ PayBack(p)
    \/ \E t \in Tickets : GiveUp(t)

Spec == Init /\ [][Next]_vars
=============================================================================
