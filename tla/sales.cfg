\* Two purchases and two cancellations by two customers meet on one seat, with every
\* fault; a third purchase joins them where only cards and providers fail.
SPECIFICATION Spec
CONSTANTS
    Users = {u1, u2}
    Tickets = {1}
    Purchases = {p1, p2, p3}
    Cancels = {c1, c2}
    NoUser = NoUser
    NoTicket = NoTicket
    NoPayment = NoPayment
    Faults = {"decline", "outage", "deferred", "lost", "database", "commit", "conflict", "crash"}
    RefundsKeyed = TRUE
SYMMETRY Symmetry
CONSTRAINT ThirdPurchase
INVARIANTS TypeOK LockedSeatUnsold SeatBacked BooksFollowProvider RefundedOnce RefusedNotCharged HeldSeatAnnounced CancellationsUndoPurchases OpenSeatExplained
PROPERTIES CancelsOwnSeat RunsTheLedger
