\* One form, submitted three times by two users of one browser.  The faults of the
\* database are left to keys.cfg: to the page their answers are all a 500.
SPECIFICATION CLiveSpec
CONSTANTS
    Attempts = {a1, a2, a3}
    Bodies = {a1, a2, a3}
    Keys = {k1, k2, k3}
    Users = {u1, u2}
    Forms = {f1}
    NoRow = NoRow
    NoRequest = NoRequest
    NoUser = NoUser
    NoKey = NoKey
    Faults = {"soldout", "lost", "mismatch", "crash"}
    ParamsChecked = TRUE
INVARIANTS OneChargePerForm  SoldOutIsTrue
PROPERTIES NeverStuck
