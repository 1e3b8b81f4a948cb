\* Two accounts, two events, two requests, two tickets.
SPECIFICATION Spec
CONSTANTS
    Users = {u1, u2}
    Addresses = {x, y}
    Passwords = {p, q}
    Events = {e1, e2}
    Tickets = {t1, t2}
    Requests = {r1, r2}
    Quantity = 2
    NoRow = NoRow
    NoUser = NoUser
    NoEvent = NoEvent
    Faults = {"database", "commit"}
SYMMETRY Symmetry
INVARIANTS TypeOK FoundByAnySpelling GrantsAreTimely MintedWhole ShownOnce
