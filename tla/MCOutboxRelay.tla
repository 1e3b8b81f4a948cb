--------------------------- MODULE MCOutboxRelay ---------------------------
(* Instances of OutboxRelay for TLC.                                       *)
EXTENDS OutboxRelay, TLC

MCTopics == {"ticket.purchased", "ticket.cancelled"}

\* Seat a is bought and cancelled, seat b is bought: two topics.
CancelTicketOf == <<"a", "a", "b">>
CancelTopicOf == <<"ticket.purchased", "ticket.cancelled", "ticket.purchased">>
OnePartition == [t \in {"a", "b"} |-> 0]

\* Seat a is bought, released without an event because the charge failed, and
\* bought again; seat b is bought in between: one topic, two partitions.
RebuyTicketOf == <<"a", "b", "a">>
RebuyTopicOf == [i \in 1..3 |-> "ticket.purchased"]
TwoPartitions == [t \in {"a", "b"} |-> IF t = "a" THEN 0 ELSE 1]

Symmetry == Permutations(Relays)
=============================================================================
