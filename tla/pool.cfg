\* A purchase, a cancellation, the relay and the probe share two connections, and
\* all meet on one row of each table.
SPECIFICATION FairSpec
CONSTANTS
    Purchases = {p1}
    Cancels = {c1}
    Relays = {r1}
    Probes = {h1}
    Conns = {k1, k2}
    Nobody = Nobody
INVARIANTS TypeOK NothingHeldOutside NobodyWaitsInACircle
PROPERTIES DatabaseWaitsEnd
