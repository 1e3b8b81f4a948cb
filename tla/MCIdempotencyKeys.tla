------------------------- MODULE MCIdempotencyKeys -------------------------
(* Instances of IdempotencyKeys for TLC.                                   *)
EXTENDS IdempotencyKeys, TLC

Symmetry ==
    Permutations(Attempts) \cup Permutations(Keys)
        \cup Permutations(Users) \cup Permutations(Bodies)
=============================================================================
