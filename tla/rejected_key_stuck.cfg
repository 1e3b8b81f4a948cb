\* A refused card, and nothing that fails.
SPECIFICATION Spec
CONSTANTS
    Attempts = {a1, a2, a3}
    Keys = {k1}
    Users = {u1}
    Bodies = {b1}
    NoRow = NoRow
    NoRequest = NoRequest
    Faults = {"decline"}
    ParamsChecked = TRUE
SYMMETRY Symmetry
INVARIANTS RejectionKept
