---------------------------- MODULE MCCatalogue ----------------------------
(* Instances of Catalogue for TLC.                                         *)
EXTENDS Catalogue, TLC

Symmetry ==
    Permutations(Users) \cup Permutations(Addresses) \cup Permutations(Passwords)
        \cup Permutations(Events) \cup Permutations(Tickets) \cup Permutations(Requests)
=============================================================================
