--------------------------- MODULE MCTicketSales ---------------------------
(* Instances of TicketSales for TLC.                                       *)
EXTENDS TicketSales, TLC

\* Requests of one kind, and customers, are interchangeable; seats are not,
\* because claims follow their order.
Symmetry == Permutations(Users) \cup Permutations(Purchases) \cup Permutations(Cancels)

\* A third purchase is followed only as long as cards and providers are all that fails: with
\* two, every fault is met at every step.
ThirdPurchase ==
    (\A p \in Purchases : pc[p] # "idle") =>
        /\ \A r \in Requests : pc[r] # "dead" /\ status[r] # 500
        /\ \A c \in Cancels : tries[c] = 0
        /\ intents = charged
=============================================================================
