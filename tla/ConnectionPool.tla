--------------------------- MODULE ConnectionPool ---------------------------
(***************************************************************************)
(* Who waits for whom in one process of the ticket service: its requests,  *)
(* the relay and the readiness probe share the connections of pkg/database *)
(* (pool.go) and meet on the same rows of Postgres.  What a handler does   *)
(* to the tables is in the other modules; here it is a routine of blocks.  *)
(* A block on the pool is one database.InTx, or one statement that runs on *)
(* the pool itself: it takes a connection, locks rows one by one, and      *)
(* gives all of it back.  A block outside it is a call to the payment      *)
(* provider or to Kafka, which may take for ever.                          *)
(***************************************************************************)
EXTENDS Integers, SequencesExt

CONSTANTS
    Purchases, \* POST /tickets/purchase requests
    Cancels,   \* POST /tickets/cancel requests
    Relays,    \* the goroutine of Relay.Run
    Probes,    \* GET /health/ready, again and again
    Conns,     \* the connections: DB_MAX_CONNS of them
    Nobody     \* no thread

Requests == Purchases \cup Cancels
Threads == Requests \cup Relays \cup Probes

ASSUME PoolAssumption ==
    /\ Nobody \notin Threads
    /\ Purchases \cap Cancels = {} /\ Requests \cap (Relays \cup Probes) = {}
    /\ Relays \cap Probes = {}
    /\ Conns # {}

VARIABLES
    at,    \* at[t]: the block of its routine that t is in, or comes to next
    phase, \* phase[t]: how far it is with the block
    queue, \* the threads that wait for a connection, in the order they asked
    user,  \* user[c]: the thread that has acquired connection c
    lock,  \* lock[r]: the thread whose open transaction has locked r
    got,   \* got[t]: how many of the block's rows t has locked
    tries, \* tries[t]: how many transactions of t Postgres has aborted
    gone   \* the requests whose client left: their context is cancelled

vars == <<at, phase, queue, user, lock, got, tries, gone>>

\* All requests meet on one seat, its payment and one idempotency key, all relays on
\* one outbox row.
Rows == {"seat", "payment", "outbox", "key"}
MaxTxAttempts == 3

-----------------------------------------------------------------------------
(* The routines.  ok and fail: where a thread may go on after the block.   *)

OnPool(rows, ok, fail) ==
    [pooled |-> TRUE, rows |-> rows, skips |-> FALSE, ok |-> ok, fail |-> fail]
SkipLocked(rows, ok, fail) == [OnPool(rows, ok, fail) EXCEPT !.skips = TRUE]
Outside(ok, fail) ==
    [pooled |-> FALSE, rows |-> <<>>, skips |-> FALSE, ok |-> ok, fail |-> fail]

\* The middleware, before and after the handler: an INSERT waits for another one of
\* the same key, and the UPDATE or DELETE of the answered key locks its row.  A
\* request without the header enters the handler at once and ends with it.
Keyed(first) ==
    [start   |-> Outside({"reserve", first}, {"end"}),
     reserve |-> OnPool(<<"key">>, {first}, {"load", "end"}),
     load    |-> OnPool(<<>>, {"end"}, {"end"}),
     keep    |-> OnPool(<<"key">>, {"end"}, {"end"})]
After(blocks) == blocks \cup {"keep", "end"}

Purchase ==
    [claim   |-> SkipLocked(<<"seat">>, {"charge"}, After({})),
     charge  |-> Outside({"settle"}, {"release"}),
     settle  |-> OnPool(<<"payment">>, After({}), After({})),
     release |-> OnPool(<<"seat", "payment">>, After({}), After({}))]

\* Faulty variant: the payment is marked in the cancellation's own transaction.
Cancel_MarksFirst ==
    [cancel       |-> OnPool(<<"payment", "seat">>, After({"refund"}), After({})),
     refund       |-> Outside({"markRefunded"}, After({})),
     markRefunded |-> OnPool(<<"payment">>, After({}), After({}))]
Cancel ==
    [cancel       |-> OnPool(<<"seat">>, After({"refund"}), After({})),
     refund       |-> Outside({"markRefunded"}, After({})),
     markRefunded |-> OnPool(<<"payment">>, After({}), After({}))]

Publish ==
    [start         |-> Outside({"fetch"}, {"fetch"}),
     fetch         |-> SkipLocked(<<"outbox">>, {"produce", "end"}, {"end"}),
     produce       |-> Outside({"markPublished"}, {"markFailed"}),
     markPublished |-> OnPool(<<"outbox">>, {"end"}, {"end"}),
     markFailed    |-> OnPool(<<"outbox">>, {"end"}, {"end"})]

Ready == [start |-> Outside({"ping"}, {"ping"}), ping |-> OnPool(<<>>, {"end"}, {"end"})]

Both(f, g) == [b \in DOMAIN f \cup DOMAIN g |-> IF b \in DOMAIN f THEN f[b] ELSE g[b]]

Routine == [t \in Threads |->
    CASE t \in Purchases -> Both(Purchase, Keyed("claim"))
      [] t \in Cancels   -> Both(Cancel, Keyed("cancel"))
      [] t \in Relays    -> Publish
      [] t \in Probes    -> Ready]

Block(t) == Routine[t][at[t]]

-----------------------------------------------------------------------------
Init ==
    /\ at = [t \in Threads |-> "start"]
    /\ phase = [t \in Threads |-> "calling"]
    /\ queue = <<>>
    /\ user = [c \in Conns |-> Nobody]
    /\ lock = [r \in Rows |-> Nobody]
    /\ got = [t \in Threads |-> 0]
    /\ tries = [t \in Threads |-> 0]
    /\ gone = {}

\* t goes on to block b.  A request ends once; relay and probe begin again.  A block
\* on the pool asks for a connection at once, in q, the queue without t; on a context
\* that is cancelled Acquire does not queue and returns its error.
Go(t, b, q) ==
    LET next == IF b = "end" /\ t \notin Requests THEN "start" ELSE b
        asks == next # "end" /\ Routine[t][next].pooled
    IN  /\ at' = [at EXCEPT ![t] = next]
        /\ phase' = [phase EXCEPT ![t] =
               IF next = "end" THEN "over" ELSE IF asks THEN "waiting" ELSE "calling"]
        /\ queue' = IF asks /\ t \notin gone' THEN Append(q, t) ELSE q

\* An answer comes from outside; for "start", the request or the tick of the clock.
CallReturns(t) ==
    /\ phase[t] = "calling"
    /\ UNCHANGED <<user, lock, got, tries, gone>>
    /\ \E b \in Block(t).ok \cup Block(t).fail : Go(t, b, queue)

-----------------------------------------------------------------------------
(* A block on the pool.                                                    *)

AcquireCancelled(t) ==
    /\ phase[t] = "waiting"
    /\ t \in gone
    /\ UNCHANGED <<user, lock, got, tries, gone>>
    /\ \E b \in Block(t).fail : Go(t, b, queue)

\* Whoever asked first, when a connection is free or there is room for a new one.
Granted(t) ==
    /\ phase[t] = "waiting" /\ queue # <<>> /\ Head(queue) = t
    /\ \E c \in Conns : user[c] = Nobody /\ user' = [user EXCEPT ![c] = t]
    /\ queue' = Tail(queue)
    /\ phase' = [phase EXCEPT ![t] = "running"]
    /\ UNCHANGED <<at, lock, got, tries, gone>>

Remaining(t) == got[t] < Len(Block(t).rows)
NextRow(t) == Block(t).rows[got[t] + 1]

\* A statement takes the row's lock, now or when its holder has ended.
LockRow(t) ==
    /\ phase[t] = "running"
    /\ Remaining(t)
    /\ lock[NextRow(t)] = Nobody
    /\ lock' = [lock EXCEPT ![NextRow(t)] = t]
    /\ got' = [got EXCEPT ![t] = @ + 1]
    /\ UNCHANGED <<at, phase, queue, user, tries, gone>>

\* The connection goes back to the pool and the locks end with the transaction.
\* Faulty variant: one transaction around relay.go's three steps, as it once was.
PutBack_AfterMark(t) ==
    IF at[t] = "fetch" THEN UNCHANGED <<user, lock, got>> ELSE
    /\ user' = [c \in Conns |-> IF user[c] = t THEN Nobody ELSE user[c]]
    /\ lock' = [r \in Rows |-> IF lock[r] = t THEN Nobody ELSE lock[r]]
    /\ got' = [got EXCEPT ![t] = 0]
PutBack(t) ==
    /\ user' = [c \in Conns |-> IF user[c] = t THEN Nobody ELSE user[c]]
    /\ lock' = [r \in Rows |-> IF lock[r] = t THEN Nobody ELSE lock[r]]
    /\ got' = [got EXCEPT ![t] = 0]

Commit(t) ==
    /\ phase[t] = "running"
    /\ ~Remaining(t)
    /\ PutBack(t)
    /\ UNCHANGED <<tries, gone>>
    /\ \E b \in Block(t).ok : Go(t, b, queue)

\* fn returned an error, or Commit did.  Faulty variant: InTx returns without the
\* Rollback.
Fail_Leaks(t) ==
    /\ UNCHANGED <<user, lock, got>>
    /\ \E b \in Block(t).fail : Go(t, b, queue)
Fail(t) ==
    /\ PutBack(t)
    /\ \E b \in Block(t).fail : Go(t, b, queue)

\* A statement fails, the new connection cannot be dialled, the row is gone.
Rollback(t) ==
    /\ phase[t] = "running"
    /\ UNCHANGED <<tries, gone>>
    /\ Fail(t)

\* No row that is not locked: SKIP LOCKED does not wait for it.
StepOver(t) ==
    /\ phase[t] = "running"
    /\ Block(t).skips /\ Remaining(t)
    /\ lock[NextRow(t)] # Nobody
    /\ UNCHANGED <<tries, gone>>
    /\ Fail(t)

\* InSerializableTx: the connection is given back before the pause.
Conflict(t) ==
    /\ phase[t] = "running"
    /\ at[t] = "cancel"
    /\ tries' = [tries EXCEPT ![t] = @ + 1]
    /\ tries'[t] < MaxTxAttempts
    /\ UNCHANGED gone
    /\ PutBack(t)
    /\ Go(t, "cancel", queue)

\* A waiter whose context ends leaves the queue.  Faulty variant: it does not.
Leaves_Stays(t) == queue
Leaves(t) == RemoveAt(queue, CHOOSE i \in DOMAIN queue : queue[i] = t)

\* The context of a thread that waits for the database ends.
Interrupt(t) ==
    \/ phase[t] = "running" /\ Fail(t)
    \/ /\ phase[t] = "waiting"
       /\ UNCHANGED <<user, lock, got>>
       /\ \E b \in Block(t).fail : Go(t, b, Leaves(t))

\* The client closes its connection: the handler goes on with a dead context.
ClientLeaves(t) ==
    /\ at[t] # "start" /\ t \in Requests \ gone
    /\ gone' = gone \cup {t}
    /\ UNCHANGED tries
    /\ \/ Interrupt(t)
       \/ phase[t] = "calling" /\ UNCHANGED <<at, phase, queue, user, lock, got>>

\* Ready's two seconds are over.
ProbeTimesOut(t) ==
    /\ t \in Probes
    /\ UNCHANGED <<tries, gone>>
    /\ Interrupt(t)

Step(t) ==
    \/ CallReturns(t) \/ AcquireCancelled(t) \/ Granted(t)
    \/ LockRow(t) \/ Commit(t) \/ Rollback(t) \/ StepOver(t) \/ Conflict(t)
    \/ ClientLeaves(t) \/ ProbeTimesOut(t)

Next == \E t \in Threads : Step(t)

Spec == Init /\ [][Next]_vars

\* Postgres answers, and a free connection is handed on.  Nothing is assumed of the
\* calls to Stripe and Kafka, nor that a statement fails or a client leaves.
FairSpec ==
    /\ Spec
    /\ \A t \in Threads :
         /\ WF_vars(AcquireCancelled(t) \/ Granted(t))
         /\ WF_vars(LockRow(t) \/ StepOver(t))
         /\ WF_vars(Commit(t))

-----------------------------------------------------------------------------
(* Properties.                                                             *)

\* The threads that queue for a connection: a dead context does not.
Waiters == {t \in Threads \ gone : phase[t] = "waiting"}

\* The queue holds each thread that waits for a connection, once.
TypeOK ==
    /\ \A t \in Threads : at[t] \in DOMAIN Routine[t] \cup {"end"}
    /\ phase \in [Threads -> {"calling", "waiting", "running", "over"}]
    /\ user \in [Conns -> Threads \cup {Nobody}]
    /\ lock \in [Rows -> Threads \cup {Nobody}]
    /\ got \in [Threads -> 0 .. 2]
    /\ tries \in [Threads -> 0 .. MaxTxAttempts - 1]
    /\ gone \subseteq Requests
    /\ queue \in Seq(Waiters)
    /\ \A i, j \in DOMAIN queue : queue[i] = queue[j] => i = j
    /\ \A t \in Waiters : \E i \in DOMAIN queue : queue[i] = t

\* Whoever has a connection or a row's lock is in the middle of a block on the pool:
\* not waiting for another connection, not in a call to Stripe or Kafka, not over; and
\* it has one connection.  About InTx, which returns on three paths, and the handlers
\* and publishBatch, which leave the database before they call anybody else.
NothingHeldOutside ==
    /\ \A c \in Conns : user[c] # Nobody => phase[user[c]] = "running"
    /\ \A c, d \in Conns : user[c] = user[d] /\ user[c] # Nobody => c = d
    /\ \A r \in Rows : lock[r] # Nobody => phase[lock[r]] = "running"

\* t can go on only after one of D has: a row that it needs is locked by one of them,
\* or it asked for a connection after one of them, or they have all the connections.
WaitsOn(t, D) ==
    \/ /\ phase[t] = "running" /\ Remaining(t)
       /\ ~Block(t).skips /\ lock[NextRow(t)] \in D
    \/ /\ t \in Waiters
       /\ \/ \A c \in Conns : user[c] \in D
          \/ \E i, j \in DOMAIN queue : i < j /\ queue[i] \in D /\ queue[j] = t

\* No deadlock: no threads, one or more, each wait for one of themselves.  Postgres
\* would break a circle of rows by failing one of them, but nothing breaks one that
\* runs through the pool.  About the order in which the handlers, the releases, the
\* marks and the relay lock rows, and InTx asking for one connection at a time.
NobodyWaitsInACircle ==
    \A D \in (SUBSET Threads) \ {{}} : \E t \in D : ~WaitsOn(t, D)

\* Every wait for the database ends, for a connection as for a row, even if no call
\* to Stripe or Kafka ever returns: nobody keeps the others from the pool for ever.
\* About pool.go's one pool for all, and the order in which handlers lock rows.
DatabaseWaitsEnd ==
    \A t \in Threads : phase[t] \in {"waiting", "running"} ~> phase[t] \in {"calling", "over"}
=============================================================================
