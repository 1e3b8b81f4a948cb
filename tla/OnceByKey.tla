----------------------------- MODULE OnceByKey -----------------------------
(***************************************************************************)
(* What a customer who repeats a purchase under one key is promised, with  *)
(* no table, no statuses and no faults.  A call is one attempt with what   *)
(* it asks for.  At most one call of a key is at work at a time, the key   *)
(* is charged once and buys once, nothing is bought that was not charged,  *)
(* and an answer is repeated only to a call that asks for the very same.   *)
(* A key that was charged is put to work again in one case only, when the  *)
(* answer to its charge was lost.  The code's comments promise more:       *)
(* "a failure that may have charged a card must never look fresh"          *)
(* (middleware.go), and "must keep its key" (store/idempotency.go); but    *)
(* run gives the key back after the 502 of a lost answer.                  *)
(***************************************************************************)
CONSTANTS
    Attempts,
    Requests   \* what may be asked for: records, one field of which is the key

VARIABLES
    working,   \* the calls that are being carried out
    charged,   \* the calls for which money was taken
    unsure,    \* those of them that will never know, for the answer was lost
    bought,    \* the calls that bought
    repeated   \* the calls answered with the answer of one that bought

vars == <<working, charged, unsure, bought, repeated>>

Calls == [by : Attempts, request : Requests]
OfKey(calls, c) == \E d \in calls : d.request.key = c.request.key

Init == working = {} /\ charged = {} /\ unsure = {} /\ bought = {} /\ repeated = {}

\* A key that is not in use, and has not bought, is put to work: a new one, or
\* one whose charge nobody knows of.
Begin(c) ==
    /\ ~OfKey(working, c) /\ ~OfKey(bought, c) /\ ~OfKey(charged \ unsure, c)
    /\ working' = working \cup {c}
    /\ UNCHANGED <<charged, unsure, bought, repeated>>

\* The first charge of the key; later calls of the key find it made.
Charge(c) ==
    /\ c \in working
    /\ ~OfKey(charged, c)
    /\ charged' = charged \cup {c}
    /\ UNCHANGED <<working, unsure, bought, repeated>>

\* The answer to the charge is lost: c itself will not buy.
Lose(c) ==
    /\ c \in working \cap charged /\ c \notin bought
    /\ unsure' = unsure \cup {c}
    /\ UNCHANGED <<working, charged, bought, repeated>>

Buy(c) ==
    /\ c \in working
    /\ OfKey(charged, c) /\ ~OfKey(bought, c) /\ c \notin unsure
    /\ bought' = bought \cup {c}
    /\ UNCHANGED <<working, charged, unsure, repeated>>

\* Whether it bought or not; a call that did not may be made again.
Stop(c) ==
    /\ c \in working
    /\ working' = working \ {c}
    /\ UNCHANGED <<charged, unsure, bought, repeated>>

\* A call that bought has come to its end and its answer is given once more.
Repeat(c) ==
    /\ \E d \in bought \ working : d.request = c.request
    /\ c \notin bought
    /\ repeated' = repeated \cup {c}
    /\ UNCHANGED <<working, charged, unsure, bought>>

Next == \E c \in Calls : Begin(c) \/ Charge(c) \/ Lose(c) \/ Buy(c) \/ Stop(c) \/ Repeat(c)

Spec == Init /\ [][Next]_vars
=============================================================================
