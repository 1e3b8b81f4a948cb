\* Three attempts, of one caller or two, with one key or two, and every fault.
SPECIFICATION Spec
CONSTANTS
    Attempts = {a1, a2, a3}
    Keys = {k1, k2}
    Users = {u1, u2}
    Bodies = {b1, b2}
    NoRow = NoRow
    NoRequest = NoRequest
    Faults = {"soldout", "decline", "outage", "lost", "mismatch", "database", "commit", "crash"}
    ParamsChecked = TRUE
SYMMETRY Symmetry
INVARIANTS TypeOK OneRunner BoughtOnce ReplayIsOriginal ChargedOnce
PROPERTIES RunsOnce
