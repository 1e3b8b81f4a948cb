\* Two customers, two purchases, one cancellation, two seats; cards are refused, intents
\* await the customer and Postgres aborts cancellations, but nothing fails: what must
\* come about comes about.
SPECIFICATION FairSpec
CONSTANTS
    Users = {u1, u2}
    Tickets = {1, 2}
    Purchases = {p1, p2}
    Cancels = {c1}
    NoUser = NoUser
    NoTicket = NoTicket
    NoPayment = NoPayment
    Faults = {"decline", "deferred", "conflict"}
    RefundsKeyed = TRUE
INVARIANTS BooksComplete SeatBacked
PROPERTIES RequestsServed CancelledIsRefunded
