\* A cancelled purchase whose card is refused, and a second buyer.
SPECIFICATION Spec
CONSTANTS
    Users = {u1, u2}
    Tickets = {1}
    Purchases = {p1, p2}
    Cancels = {c1}
    NoUser = NoUser
    NoTicket = NoTicket
    NoPayment = NoPayment
    Faults = {"decline"}
    RefundsKeyed = TRUE
PROPERTIES ReleaseReturnsOwnSeat
