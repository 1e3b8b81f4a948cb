--------------------------- MODULE EventDelivery ---------------------------
(***************************************************************************)
(* What the outbox promises of the events it carries, with no relays,      *)
(* partitions, offsets or faults.  Only what has happened is put into the  *)
(* log; an event is settled, so that nobody tries again, only once the log *)
(* holds it; it is announced from the log and once; and nothing is ever    *)
(* taken back.                                                             *)
(***************************************************************************)
EXTENDS Sequences

CONSTANTS
    Events

VARIABLES
    happened,  \* the events whose transaction has committed
    logged,    \* those that the log holds
    settled,   \* those that are no longer tried
    announced  \* those the customers were told of, in that order

vars == <<happened, logged, settled, announced>>

Init == happened = {} /\ logged = {} /\ settled = {} /\ announced = <<>>

Happen(e) ==
    /\ e \notin happened
    /\ happened' = happened \cup {e}
    /\ UNCHANGED <<logged, settled, announced>>

\* Some of them perhaps once more.
Log(events) ==
    /\ events \subseteq happened
    /\ logged' = logged \cup events
    /\ UNCHANGED <<happened, settled, announced>>

Settle(events) ==
    /\ events \subseteq logged
    /\ settled' = settled \cup events
    /\ UNCHANGED <<happened, logged, announced>>

Announce(e) ==
    /\ e \in logged
    /\ \A k \in DOMAIN announced : announced[k] # e
    /\ announced' = Append(announced, e)
    /\ UNCHANGED <<happened, logged, settled>>

Next ==
    \/ \E e \in Events : Happen(e) \/ Announce(e)
    \/ \E events \in SUBSET Events : Log(events) \/ Settle(events)

Spec == Init /\ [][Next]_vars
=============================================================================
