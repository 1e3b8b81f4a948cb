\* One purchase of one seat, whose intent awaits the customer.
SPECIFICATION Spec
CONSTANTS
    Users = {u1}
    Tickets = {1}
    Purchases = {p1}
    Cancels = {c1}
    NoUser = NoUser
    NoTicket = NoTicket
    NoPayment = NoPayment
    Faults = {"deferred"}
    RefundsKeyed = TRUE
SYMMETRY Symmetry
INVARIANTS SucceededIsCaptured
