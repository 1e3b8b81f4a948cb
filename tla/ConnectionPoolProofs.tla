------------------------ MODULE ConnectionPoolProofs ------------------------
(***************************************************************************)
(* Nobody keeps a connection or a row's lock while it waits for anything   *)
(* but the database, and no threads wait for each other in a circle, for   *)
(* every number of requests, relays, probes and connections.               *)
(*                                                                         *)
(* Inv says who may have something; it does not need the queue to be fair, *)
(* nor that a routine's blocks come in any particular order.  PoolInv adds *)
(* what the absence of a circle rests on: where each thread is, which rows *)
(* of its block it has locked, and that the queue holds each waiter once.  *)
(***************************************************************************)
EXTENDS ConnectionPool, WellFoundedInduction, TLAPS

Phases == {"calling", "waiting", "running", "over"}

Inv ==
    /\ phase \in [Threads -> Phases]
    /\ user \in [Conns -> Threads \cup {Nobody}]
    /\ lock \in [Rows -> Threads \cup {Nobody}]
    /\ NothingHeldOutside

LEMMA InitInv == ASSUME Init PROVE Inv
  BY PoolAssumption DEF Init, Inv, Phases, NothingHeldOutside

LEMMA StutterInv == ASSUME Inv, UNCHANGED <<phase, user, lock>> PROVE Inv'
  BY DEF Inv, NothingHeldOutside

(* Going on to a block does not enter it.                                  *)
LEMMA GoesOn ==
    ASSUME NEW t \in Threads, NEW b, NEW q, Go(t, b, q)
    PROVE  \E x \in {"over", "waiting", "calling"} : phase' = [phase EXCEPT ![t] = x]
  BY DEF Go

(* A step of a thread that has nothing.                                    *)
LEMMA EmptyHanded ==
    ASSUME Inv, NEW t \in Threads, NEW b, NEW q,
           phase[t] # "running", Go(t, b, q), UNCHANGED <<user, lock>>
    PROVE  Inv'
<1>1. PICK x \in {"over", "waiting", "calling"} : phase' = [phase EXCEPT ![t] = x]
  BY GoesOn
<1>2. phase' \in [Threads -> Phases]
  BY <1>1 DEF Inv, Phases
<1>3. \A s \in Threads : phase[s] = "running" => phase'[s] = "running"
  BY <1>1 DEF Inv
<1>4. \A c \in Conns : user[c] # Nobody => phase'[user[c]] = "running"
  BY <1>3 DEF Inv, NothingHeldOutside
<1>5. \A r \in Rows : lock[r] # Nobody => phase'[lock[r]] = "running"
  BY <1>3 DEF Inv, NothingHeldOutside
<1> QED BY <1>2, <1>4, <1>5 DEF Inv, NothingHeldOutside

(* The end of a block, which gives back all that the thread has.           *)
LEMMA GivesBack ==
    ASSUME Inv, NEW t \in Threads, NEW b, NEW q, PutBack(t), Go(t, b, q)
    PROVE  Inv'
<1>1. PICK x \in {"over", "waiting", "calling"} : phase' = [phase EXCEPT ![t] = x]
  BY GoesOn
<1>2. phase' \in [Threads -> Phases]
  BY <1>1 DEF Inv, Phases
<1>3. /\ user' = [c \in Conns |-> IF user[c] = t THEN Nobody ELSE user[c]]
      /\ lock' = [r \in Rows |-> IF lock[r] = t THEN Nobody ELSE lock[r]]
  BY DEF PutBack
<1>4. user' \in [Conns -> Threads \cup {Nobody}] /\ lock' \in [Rows -> Threads \cup {Nobody}]
  BY <1>3 DEF Inv
<1>5. \A s \in Threads \ {t} : phase'[s] = phase[s]
  BY <1>1 DEF Inv
<1>6. \A c \in Conns : user'[c] # Nobody => user'[c] = user[c] /\ user[c] # t
  BY <1>3
<1>7. \A r \in Rows : lock'[r] # Nobody => lock'[r] = lock[r] /\ lock[r] # t
  BY <1>3
<1>8. ASSUME NEW c \in Conns, user'[c] # Nobody PROVE phase'[user'[c]] = "running"
  BY <1>5, <1>6, <1>8 DEF Inv, NothingHeldOutside
<1>9. ASSUME NEW r \in Rows, lock'[r] # Nobody PROVE phase'[lock'[r]] = "running"
  BY <1>5, <1>7, <1>9 DEF Inv, NothingHeldOutside
<1>10. \A c, d \in Conns : user'[c] = user'[d] /\ user'[c] # Nobody => c = d
  BY <1>6 DEF Inv, NothingHeldOutside
<1> QED BY <1>2, <1>4, <1>8, <1>9, <1>10 DEF Inv, NothingHeldOutside

LEMMA FailInv == ASSUME Inv, NEW t \in Threads, Fail(t) PROVE Inv'
<1>1. PICK b \in Block(t).fail : PutBack(t) /\ Go(t, b, queue)
  BY DEF Fail
<1> QED BY <1>1, GivesBack

(* Whoever is granted a connection had none.                               *)
LEMMA GrantedInv == ASSUME Inv, NEW t \in Threads, Granted(t) PROVE Inv'
<1>1. PICK c \in Conns : user[c] = Nobody /\ user' = [user EXCEPT ![c] = t]
  BY DEF Granted
<1>2. phase[t] = "waiting" /\ phase' = [phase EXCEPT ![t] = "running"] /\ lock' = lock
  BY DEF Granted
<1>3. phase' \in [Threads -> Phases] /\ user' \in [Conns -> Threads \cup {Nobody}]
  BY <1>1, <1>2 DEF Inv, Phases
<1>4. \A s \in Threads : phase[s] = "running" => phase'[s] = "running"
  BY <1>2 DEF Inv
<1>5. phase'[t] = "running"
  BY <1>2 DEF Inv
<1>6. \A d \in Conns : user'[d] = IF d = c THEN t ELSE user[d]
  BY <1>1 DEF Inv
<1>7. \A d \in Conns : user[d] # t
  BY <1>2, PoolAssumption DEF Inv, NothingHeldOutside
<1>8. ASSUME NEW d \in Conns, user'[d] # Nobody PROVE phase'[user'[d]] = "running"
  BY <1>4, <1>5, <1>6, <1>8 DEF Inv, NothingHeldOutside
<1>9. \A d, e \in Conns : user'[d] = user'[e] /\ user'[d] # Nobody => d = e
  BY <1>6, <1>7 DEF Inv, NothingHeldOutside
<1>10. \A r \in Rows : lock'[r] # Nobody => phase'[lock'[r]] = "running"
  BY <1>2, <1>4 DEF Inv, NothingHeldOutside
<1> QED BY <1>2, <1>3, <1>8, <1>9, <1>10 DEF Inv, NothingHeldOutside

LEMMA LockRowInv == ASSUME Inv, NEW t \in Threads, LockRow(t) PROVE Inv'
<1>1. phase[t] = "running" /\ lock' = [lock EXCEPT ![NextRow(t)] = t]
      /\ UNCHANGED <<phase, user>>
  BY DEF LockRow
<1>2. lock' \in [Rows -> Threads \cup {Nobody}]
  BY <1>1 DEF Inv
<1>3. \A r \in Rows : lock'[r] = t \/ lock'[r] = lock[r]
  BY <1>1 DEF Inv
<1> QED BY <1>1, <1>2, <1>3 DEF Inv, NothingHeldOutside

LEMMA InterruptInv == ASSUME Inv, NEW t \in Threads, Interrupt(t) PROVE Inv'
<1>1. CASE Fail(t)
  BY <1>1, FailInv
<1>2. CASE phase[t] = "waiting" /\ UNCHANGED <<user, lock>>
           /\ \E b \in Block(t).fail : Go(t, b, Leaves(t))
  BY <1>2, EmptyHanded
<1> QED BY <1>1, <1>2 DEF Interrupt

LEMMA StepInv == ASSUME Inv, NEW t \in Threads, Step(t) PROVE Inv'
<1>1. CASE CallReturns(t)
  BY <1>1, EmptyHanded DEF CallReturns
<1>2. CASE AcquireCancelled(t)
  BY <1>2, EmptyHanded DEF AcquireCancelled
<1>3. CASE Granted(t)
  BY <1>3, GrantedInv
<1>4. CASE LockRow(t)
  BY <1>4, LockRowInv
<1>5. CASE Commit(t)
  BY <1>5, GivesBack DEF Commit
<1>6. CASE Rollback(t) \/ StepOver(t)
  BY <1>6, FailInv DEF Rollback, StepOver
<1>7. CASE Conflict(t)
  BY <1>7, GivesBack DEF Conflict
<1>8. CASE ClientLeaves(t)
  <2>1. CASE Interrupt(t)
    BY <2>1, InterruptInv
  <2>2. CASE UNCHANGED <<phase, user, lock>>
    BY <2>2, StutterInv
  <2> QED BY <1>8, <2>1, <2>2 DEF ClientLeaves
<1>9. CASE ProbeTimesOut(t)
  BY <1>9, InterruptInv DEF ProbeTimesOut
<1> QED BY <1>1, <1>2, <1>3, <1>4, <1>5, <1>6, <1>7, <1>8, <1>9 DEF Step

(* While a thread waits for a connection, for Stripe or for Kafka, it has  *)
(* no connection and locks no row, and it never has two: so the pool's     *)
(* limit cannot make two threads wait for each other.  InTx gives back     *)
(* what it acquired on each of its three returns.                          *)
THEOREM NobodyWaitsWithAConnection == Spec => []NothingHeldOutside
<1>1. Inv /\ [Next]_vars => Inv'
  <2> SUFFICES ASSUME Inv, [Next]_vars PROVE Inv'
    OBVIOUS
  <2>1. CASE Next
    BY <2>1, StepInv DEF Next
  <2>2. CASE UNCHANGED vars
    BY <2>2, StutterInv DEF vars
  <2> QED BY <2>1, <2>2
<1>2. Inv => NothingHeldOutside
  BY DEF Inv
<1> QED BY InitInv, <1>1, <1>2, PTL DEF Spec

-----------------------------------------------------------------------------
(* The routines: which rows a block locks, and where it leads.             *)

\* The rows that a block locks, in their order.
LockOrders ==
    {<<>>, <<"seat">>, <<"payment">>, <<"outbox">>, <<"key">>, <<"seat", "payment">>}

BlockTyped(b, names) ==
    b.rows \in LockOrders /\ b.ok \cup b.fail \subseteq names \cup {"end"}

RoutineTyped(f) ==
    /\ "start" \in DOMAIN f /\ "end" \notin DOMAIN f
    /\ \A b \in DOMAIN f : BlockTyped(f[b], DOMAIN f)

HandlerTyped(f, first) ==
    /\ first \in DOMAIN f
    /\ DOMAIN f \cap {"start", "reserve", "load", "keep", "end"} = {}
    /\ \A b \in DOMAIN f : BlockTyped(f[b], DOMAIN f \cup {"keep"})

LEMMA KindsTyped ==
    ASSUME NEW rows \in LockOrders, NEW ok, NEW fail, NEW names,
           ok \cup fail \subseteq names \cup {"end"}
    PROVE  /\ BlockTyped(OnPool(rows, ok, fail), names)
           /\ BlockTyped(SkipLocked(rows, ok, fail), names)
           /\ BlockTyped(Outside(ok, fail), names)
<1>1. BlockTyped(OnPool(rows, ok, fail), names)
  BY DEF BlockTyped, OnPool
<1>2. BlockTyped(Outside(ok, fail), names)
  BY DEF BlockTyped, Outside, LockOrders
<1>3. BlockTyped(SkipLocked(rows, ok, fail), names)
  BY DEF BlockTyped, SkipLocked, OnPool
<1> QED BY <1>1, <1>2, <1>3

LEMMA PurchaseTyped == HandlerTyped(Purchase, "claim")
<1> DEFINE names == {"claim", "charge", "settle", "release"}
           places == names \cup {"keep"}
<1>1. DOMAIN Purchase = names
  BY DEF Purchase
<1>2. /\ Purchase["claim"] = SkipLocked(<<"seat">>, {"charge"}, After({}))
      /\ Purchase["charge"] = Outside({"settle"}, {"release"})
      /\ Purchase["settle"] = OnPool(<<"payment">>, After({}), After({}))
      /\ Purchase["release"] = OnPool(<<"seat", "payment">>, After({}), After({}))
  BY DEF Purchase
<1>3. {<<"seat">>, <<"payment">>, <<"seat", "payment">>} \subseteq LockOrders
  BY DEF LockOrders
<1>4. /\ After({}) \cup After({}) \subseteq places \cup {"end"}
      /\ {"charge"} \cup After({}) \subseteq places \cup {"end"}
      /\ {"settle"} \cup {"release"} \subseteq places \cup {"end"}
      /\ <<>> \in LockOrders
  BY DEF After, LockOrders
<1> HIDE DEF places
<1>5. /\ BlockTyped(Purchase["claim"], places) /\ BlockTyped(Purchase["charge"], places)
      /\ BlockTyped(Purchase["settle"], places) /\ BlockTyped(Purchase["release"], places)
  BY <1>2, <1>3, <1>4, KindsTyped
<1> QED BY <1>1, <1>5 DEF HandlerTyped, places

LEMMA CancelTyped == HandlerTyped(Cancel, "cancel")
<1> DEFINE names == {"cancel", "refund", "markRefunded"}
           places == names \cup {"keep"}
<1>1. DOMAIN Cancel = names
  BY DEF Cancel
<1>2. /\ Cancel["cancel"] = OnPool(<<"seat">>, After({"refund"}), After({}))
      /\ Cancel["refund"] = Outside({"markRefunded"}, After({}))
      /\ Cancel["markRefunded"] = OnPool(<<"payment">>, After({}), After({}))
  BY DEF Cancel
<1>3. {<<"seat">>, <<"payment">>, <<>>} \subseteq LockOrders
  BY DEF LockOrders
<1>4. /\ After({"refund"}) \cup After({}) \subseteq places \cup {"end"}
      /\ {"markRefunded"} \cup After({}) \subseteq places \cup {"end"}
      /\ After({}) \cup After({}) \subseteq places \cup {"end"}
  BY DEF After
<1> HIDE DEF places
<1>5. /\ BlockTyped(Cancel["cancel"], places) /\ BlockTyped(Cancel["refund"], places)
      /\ BlockTyped(Cancel["markRefunded"], places)
  BY <1>2, <1>3, <1>4, KindsTyped
<1> QED BY <1>1, <1>5 DEF HandlerTyped, places

LEMMA PublishTyped == RoutineTyped(Publish)
<1> DEFINE names == {"start", "fetch", "produce", "markPublished", "markFailed"}
<1>1. DOMAIN Publish = names
  BY DEF Publish
<1>2. /\ Publish["start"] = Outside({"fetch"}, {"fetch"})
      /\ Publish["fetch"] = SkipLocked(<<"outbox">>, {"produce", "end"}, {"end"})
      /\ Publish["produce"] = Outside({"markPublished"}, {"markFailed"})
      /\ Publish["markPublished"] = OnPool(<<"outbox">>, {"end"}, {"end"})
      /\ Publish["markFailed"] = OnPool(<<"outbox">>, {"end"}, {"end"})
  BY DEF Publish
<1>3. {<<"outbox">>, <<>>} \subseteq LockOrders
  BY DEF LockOrders
<1> HIDE DEF names
<1>4. /\ BlockTyped(Publish["start"], names) /\ BlockTyped(Publish["fetch"], names)
      /\ BlockTyped(Publish["produce"], names)
      /\ BlockTyped(Publish["markPublished"], names) /\ BlockTyped(Publish["markFailed"], names)
  BY <1>2, <1>3, KindsTyped DEF names
<1> QED BY <1>1, <1>4 DEF RoutineTyped, names

LEMMA ReadyTyped == RoutineTyped(Ready)
<1> DEFINE names == {"start", "ping"}
<1>1. DOMAIN Ready = names
  BY DEF Ready
<1>2. /\ Ready["start"] = Outside({"ping"}, {"ping"})
      /\ Ready["ping"] = OnPool(<<>>, {"end"}, {"end"})
  BY DEF Ready
<1>3. <<>> \in LockOrders
  BY DEF LockOrders
<1> HIDE DEF names
<1>4. BlockTyped(Ready["start"], names) /\ BlockTyped(Ready["ping"], names)
  BY <1>2, <1>3, KindsTyped DEF names
<1> QED BY <1>1, <1>4 DEF RoutineTyped, names

(* The middleware's blocks around a handler's.                             *)
LEMMA KeyedTyped ==
    ASSUME NEW f, NEW first, HandlerTyped(f, first)
    PROVE  RoutineTyped(Both(f, Keyed(first)))
<1> DEFINE k == Keyed(first)
           g == Both(f, k)
           names == DOMAIN g
<1>1. DOMAIN k = {"start", "reserve", "load", "keep"}
  BY DEF Keyed
<1>2. /\ k["start"] = Outside({"reserve", first}, {"end"})
      /\ k["reserve"] = OnPool(<<"key">>, {first}, {"load", "end"})
      /\ k["load"] = OnPool(<<>>, {"end"}, {"end"})
      /\ k["keep"] = OnPool(<<"key">>, {"end"}, {"end"})
  BY DEF Keyed
<1> HIDE DEF k
<1>3. DOMAIN g = DOMAIN f \cup DOMAIN k
  BY DEF Both
<1>4. /\ \A b \in DOMAIN f : g[b] = f[b]
      /\ \A b \in DOMAIN k : g[b] = k[b]
  BY <1>1 DEF Both, HandlerTyped
<1> HIDE DEF g
<1>5. {"start", "reserve", "load", "keep", first} \subseteq names
      /\ {<<>>, <<"key">>} \subseteq LockOrders
  BY <1>1, <1>3 DEF HandlerTyped, LockOrders
<1> HIDE DEF names
<1>6. /\ BlockTyped(k["start"], names) /\ BlockTyped(k["reserve"], names)
      /\ BlockTyped(k["load"], names) /\ BlockTyped(k["keep"], names)
  BY <1>2, <1>5, KindsTyped
<1>7. \A b \in DOMAIN f : BlockTyped(f[b], names)
  BY <1>3, <1>5 DEF HandlerTyped, BlockTyped, names
<1>8. \A b \in names : BlockTyped(g[b], names)
  BY <1>1, <1>3, <1>4, <1>6, <1>7 DEF names
<1>9. "end" \notin names
  BY <1>1, <1>3 DEF HandlerTyped, names
<1> QED BY <1>5, <1>8, <1>9 DEF RoutineTyped, names, g, k

LEMMA RoutinesTyped == ASSUME NEW t \in Threads PROVE RoutineTyped(Routine[t])
<1>1. Routine[t] \in {Both(Purchase, Keyed("claim")), Both(Cancel, Keyed("cancel")), Publish, Ready}
  BY DEF Routine, Threads, Requests
<1> QED BY <1>1, KeyedTyped, PurchaseTyped, CancelTyped, PublishTyped, ReadyTyped

-----------------------------------------------------------------------------
(* The queue.                                                              *)

LEMMA LeastPlace ==
    ASSUME NEW P \in SUBSET Nat, P # {}
    PROVE  \E i \in P : \A j \in P : i <= j
<1> DEFINE R == OpToRel(<, Nat)
<1>1. IsWellFoundedOn(R, Nat)
  BY NatLessThanWellFounded
<1>2. \A i, j \in Nat : <<j, i>> \in R <=> j < i
  BY DEF OpToRel
<1> HIDE DEF R
<1>3. PICK i \in P : \A j \in P : <<j, i>> \notin R
  BY <1>1, WFMin
<1>4. i \in Nat /\ \A j \in P : j \in Nat /\ ~(j < i)
  BY <1>2, <1>3
<1> QED BY <1>4

\* q is a queue of the members of W, each in it once.
QueueOf(q, W) ==
    /\ q \in Seq(W)
    /\ \A i, j \in DOMAIN q : q[i] = q[j] => i = j
    /\ \A t \in W : \E i \in DOMAIN q : q[i] = t

LEMMA JoinQueue ==
    ASSUME NEW W, NEW q, QueueOf(q, W), NEW t, t \notin W
    PROVE  QueueOf(Append(q, t), W \cup {t})
<1> DEFINE a == Append(q, t)
<1>1. q \in Seq(W \cup {t}) /\ a \in Seq(W \cup {t}) /\ Len(a) = Len(q) + 1
  BY DEF QueueOf
<1>2. \A i \in 1..Len(q) : a[i] = q[i] /\ q[i] \in W
  BY DEF QueueOf
<1>3. a[Len(q) + 1] = t
  BY <1>1
<1>4. DOMAIN q = 1..Len(q) /\ DOMAIN a = 1..(Len(q) + 1) /\ Len(q) \in Nat
  BY <1>1 DEF QueueOf
<1> HIDE DEF a
<1>5. \A i, j \in DOMAIN a : a[i] = a[j] => i = j
  BY <1>2, <1>3, <1>4 DEF QueueOf
<1>6. \A s \in W \cup {t} : \E i \in DOMAIN a : a[i] = s
  BY <1>2, <1>3, <1>4 DEF QueueOf
<1> QED BY <1>1, <1>5, <1>6 DEF QueueOf, a

LEMMA ServeQueue ==
    ASSUME NEW W, NEW q, QueueOf(q, W), q # <<>>
    PROVE  Head(q) \in W /\ QueueOf(Tail(q), W \ {Head(q)})
<1> DEFINE a == Tail(q)
           t == Head(q)
<1>1. q \in Seq(W) /\ Len(q) \in Nat \ {0} /\ DOMAIN q = 1..Len(q)
  BY DEF QueueOf
<1>2. Len(a) = Len(q) - 1 /\ a \in Seq(W) /\ DOMAIN a = 1..(Len(q) - 1)
  BY <1>1
<1>3. \A i \in 1..(Len(q) - 1) : a[i] = q[i + 1]
  BY <1>1
<1>4. t = q[1] /\ t \in W
  BY <1>1
<1> HIDE DEF a, t
<1>5. ASSUME NEW i \in 1..(Len(q) - 1) PROVE a[i] \in W \ {t}
  <2>1. i + 1 \in 1..Len(q) /\ 1 \in 1..Len(q) /\ i + 1 # 1 /\ a[i] = q[i + 1]
    BY <1>1, <1>3
  <2>2. q[i + 1] \in W /\ q[i + 1] # q[1]
    BY <1>1, <2>1 DEF QueueOf
  <2> QED BY <1>4, <2>1, <2>2
<1>6. a \in Seq(W \ {t})
  BY <1>2, <1>5
<1>7. ASSUME NEW i \in DOMAIN a, NEW j \in DOMAIN a, a[i] = a[j] PROVE i = j
  <2>1. /\ i \in Int /\ i + 1 \in DOMAIN q /\ a[i] = q[i + 1]
        /\ j \in Int /\ j + 1 \in DOMAIN q /\ a[j] = q[j + 1]
    BY <1>1, <1>2, <1>3
  <2>2. i + 1 = j + 1
    BY <1>7, <2>1 DEF QueueOf
  <2> QED BY <2>1, <2>2
<1>8. ASSUME NEW s \in W \ {t} PROVE \E i \in DOMAIN a : a[i] = s
  <2>1. PICK i \in 1..Len(q) : q[i] = s
    BY <1>1 DEF QueueOf
  <2>2. i # 1 /\ i - 1 \in 1..(Len(q) - 1)
    BY <1>1, <1>4, <2>1
  <2>3. a[i - 1] = s
    BY <1>3, <2>1, <2>2
  <2> QED BY <1>2, <2>2, <2>3
<1> QED BY <1>4, <1>6, <1>7, <1>8 DEF QueueOf, a, t

LEMMA LeaveQueue ==
    ASSUME NEW W, NEW q, QueueOf(q, W), NEW k \in DOMAIN q
    PROVE  QueueOf(RemoveAt(q, k), W \ {q[k]})
<1> DEFINE a == RemoveAt(q, k)
           n == Len(q)
           left == SubSeq(q, 1, k - 1)
           right == SubSeq(q, k + 1, n)
<1>1. q \in Seq(W) /\ n \in Nat /\ DOMAIN q = 1..n /\ k \in 1..n
  BY DEF QueueOf
<1>2. left \in Seq(W) /\ Len(left) = k - 1 /\ \A i \in 1..(k - 1) : left[i] = q[i]
  BY <1>1
<1>3. right \in Seq(W) /\ Len(right) = n - k /\ \A i \in 1..(n - k) : right[i] = q[k + i]
  BY <1>1
<1>4. a = left \o right
  BY DEF RemoveAt
<1> HIDE DEF left, right, a, n
<1>5. a \in Seq(W) /\ Len(a) = n - 1 /\ DOMAIN a = 1..(n - 1)
  BY <1>1, <1>2, <1>3, <1>4
<1>6. \A i \in 1..(n - 1) : a[i] = IF i < k THEN q[i] ELSE q[i + 1]
  <2> TAKE i \in 1..(n - 1)
  <2>1. CASE i < k
    BY <1>1, <1>2, <1>3, <1>4, <2>1
  <2>2. CASE i >= k
    <3>1. i - (k - 1) \in 1..(n - k) /\ k + (i - (k - 1)) = i + 1
      BY <1>1, <2>2
    <3>2. i \in 1..(Len(left) + Len(right)) /\ ~(i <= Len(left)) /\ i - Len(left) = i - (k - 1)
      BY <1>1, <1>2, <1>3, <2>2
    <3>3. (left \o right)[i] = right[i - Len(left)]
      BY <1>2, <1>3, <3>2
    <3>4. a[i] = right[i - (k - 1)]
      BY <1>4, <3>2, <3>3
    <3>5. right[i - (k - 1)] = q[i + 1]
      BY <1>3, <3>1
    <3> QED BY <1>1, <2>2, <3>4, <3>5
  <2> QED BY <1>1, <2>1, <2>2
<1>7. ASSUME NEW i \in 1..(n - 1) PROVE a[i] \in W \ {q[k]}
  <2> DEFINE j == IF i < k THEN i ELSE i + 1
  <2>1. j \in DOMAIN q /\ j # k /\ a[i] = q[j]
    BY <1>1, <1>6
  <2> HIDE DEF j
  <2>2. q[j] \in W /\ q[j] # q[k]
    BY <1>1, <2>1 DEF QueueOf
  <2> QED BY <2>1, <2>2
<1>8. a \in Seq(W \ {q[k]})
  BY <1>5, <1>7
<1>9. ASSUME NEW i \in DOMAIN a, NEW j \in DOMAIN a, a[i] = a[j] PROVE i = j
  <2> DEFINE x(l) == IF l < k THEN l ELSE l + 1
  <2>1. /\ i \in Int /\ x(i) \in DOMAIN q /\ a[i] = q[x(i)]
        /\ j \in Int /\ x(j) \in DOMAIN q /\ a[j] = q[x(j)]
    BY <1>1, <1>5, <1>6
  <2>2. x(i) = x(j)
    <3> HIDE DEF x
    <3> QED BY <1>9, <2>1 DEF QueueOf
  <2> QED BY <1>1, <2>1, <2>2
<1>10. ASSUME NEW s \in W \ {q[k]} PROVE \E i \in DOMAIN a : a[i] = s
  <2>1. PICK i \in 1..n : q[i] = s /\ i # k
    BY <1>1 DEF QueueOf
  <2>2. CASE i < k
    BY <1>1, <1>5, <1>6, <2>1, <2>2
  <2>3. CASE i > k
    <3>1. i - 1 \in 1..(n - 1) /\ ~(i - 1 < k)
      BY <1>1, <2>3
    <3> QED BY <1>5, <1>6, <2>1, <3>1
  <2> QED BY <1>1, <2>1, <2>2, <2>3
<1> QED BY <1>8, <1>9, <1>10 DEF QueueOf, a

-----------------------------------------------------------------------------
(* The invariant.                                                          *)

\* Each thread is at a block of its routine, or over.
Placed ==
    /\ DOMAIN at = Threads
    /\ \A t \in Threads : at[t] \in DOMAIN Routine[t] \cup {"end"}
    /\ \A t \in Threads : phase[t] = "over" <=> at[t] = "end"

\* A thread has locked the first rows of its block and no other, and has a block's
\* rows only while it runs it.
LocksInOrder ==
    /\ got \in [Threads -> Nat]
    /\ \A t \in Threads : IF phase[t] = "running" THEN got[t] <= Len(Block(t).rows)
                                                  ELSE got[t] = 0
    /\ \A r \in Rows, t \in Threads : lock[r] = t => \E i \in 1..got[t] : Block(t).rows[i] = r

Queued == QueueOf(queue, Waiters)

Counted == tries \in [Threads -> 0 .. MaxTxAttempts - 1] /\ gone \subseteq Requests

PoolInv == Inv /\ Placed /\ LocksInOrder /\ Queued /\ Counted

-----------------------------------------------------------------------------
(* What a thread that is not over may lock, and where it may go on.        *)
LEMMA RowsTyped ==
    ASSUME Placed, NEW t \in Threads, phase[t] # "over"
    PROVE  /\ at[t] \in DOMAIN Routine[t]
           /\ Block(t).rows \in LockOrders
           /\ Block(t).ok \cup Block(t).fail \subseteq DOMAIN Routine[t] \cup {"end"}
<1>1. at[t] \in DOMAIN Routine[t]
  BY DEF Placed
<1> QED BY <1>1, RoutinesTyped DEF RoutineTyped, BlockTyped, Block

(* Whoever locks two rows locks the seat and then the payment.             *)
LEMMA OrdersTyped ==
    ASSUME NEW rows \in LockOrders
    PROVE  /\ Len(rows) \in 0..2
           /\ \A i \in 1..Len(rows) : rows[i] \in Rows
           /\ \A i \in 1..Len(rows) : i < Len(rows) => rows[i] = "seat" /\ rows[i + 1] = "payment"
<1>1. CASE rows = <<>>
  BY <1>1
<1>2. CASE rows = <<"seat", "payment">>
  <2>1. Len(rows) = 2 /\ rows[1] = "seat" /\ rows[2] = "payment"
    BY <1>2
  <2> QED BY <2>1 DEF Rows
<1>3. ASSUME NEW r \in Rows, rows = <<r>> PROVE Len(rows) = 1 /\ rows[1] = r
  BY <1>3
<1> QED BY <1>1, <1>2, <1>3 DEF LockOrders, Rows

LEMMA InitPoolInv == ASSUME Init PROVE PoolInv
<1>1. Inv
  BY PoolAssumption DEF Init, Inv, Phases, NothingHeldOutside
<1>2. Placed
  BY RoutinesTyped DEF Init, Placed, RoutineTyped
<1>3. LocksInOrder
  BY PoolAssumption DEF Init, LocksInOrder
<1>4. Queued
  <2>1. Waiters = {} /\ queue = <<>>
    BY DEF Init, Waiters
  <2> QED BY <2>1 DEF Queued, QueueOf
<1>5. Counted
  BY DEF Init, Counted, MaxTxAttempts
<1> QED BY <1>1, <1>2, <1>3, <1>4, <1>5 DEF PoolInv

(* Where a thread goes on, and what it is then.                            *)
LEMMA GoPlaced ==
    ASSUME Inv, Placed, NEW t \in Threads, NEW b \in DOMAIN Routine[t] \cup {"end"},
           NEW q, Go(t, b, q)
    PROVE  /\ Placed'
           /\ DOMAIN at' = Threads /\ \A s \in Threads \ {t} : at'[s] = at[s]
           /\ phase' \in [Threads -> {"calling", "waiting", "running", "over"}]
           /\ \A s \in Threads \ {t} : phase'[s] = phase[s]
           /\ phase'[t] # "running"
           /\ queue' = IF phase'[t] = "waiting" /\ t \notin gone' THEN Append(q, t) ELSE q
<1> DEFINE next == IF b = "end" /\ t \notin Requests THEN "start" ELSE b
           asks == next # "end" /\ Routine[t][next].pooled
<1>1. next \in DOMAIN Routine[t] \cup {"end"}
  BY RoutinesTyped DEF RoutineTyped
<1>2. /\ at' = [at EXCEPT ![t] = next]
      /\ phase' = [phase EXCEPT ![t] =
             IF next = "end" THEN "over" ELSE IF asks THEN "waiting" ELSE "calling"]
      /\ queue' = IF asks /\ t \notin gone' THEN Append(q, t) ELSE q
  BY DEF Go
<1> HIDE DEF next
<1>3. DOMAIN at' = Threads /\ \A s \in Threads \ {t} : at'[s] = at[s]
  BY <1>2 DEF Placed
<1>4. at'[t] = next
  BY <1>2 DEF Placed
<1>5. /\ phase' \in [Threads -> {"calling", "waiting", "running", "over"}]
      /\ \A s \in Threads \ {t} : phase'[s] = phase[s]
  BY <1>2 DEF Inv, Phases
<1>6. phase'[t] = IF next = "end" THEN "over" ELSE IF asks THEN "waiting" ELSE "calling"
  BY <1>2 DEF Inv, Phases
<1>7. (phase'[t] = "over") <=> (next = "end")
  BY <1>6
<1>8. (phase'[t] = "waiting") <=> asks
  BY <1>6
<1>9. phase'[t] # "running"
  BY <1>6
<1> HIDE DEF asks
<1>10. queue' = IF phase'[t] = "waiting" /\ t \notin gone' THEN Append(q, t) ELSE q
  BY <1>2, <1>8
<1>11. Placed'
  <2>1. \A s \in Threads : at'[s] \in DOMAIN Routine[s] \cup {"end"}
    BY <1>1, <1>3, <1>4 DEF Placed
  <2>2. \A s \in Threads : (phase'[s] = "over") <=> (at'[s] = "end")
    BY <1>3, <1>4, <1>5, <1>7 DEF Placed
  <2> QED BY <1>3, <2>1, <2>2 DEF Placed
<1> QED BY <1>3, <1>5, <1>9, <1>10, <1>11

(* A thread that leaves a block empty-handed, or having put back what it   *)
(* had.                                                                    *)
LEMMA MovesOn ==
    ASSUME PoolInv, NEW t \in Threads, NEW b \in DOMAIN Routine[t] \cup {"end"}, NEW q,
           Go(t, b, q), QueueOf(q, Waiters \ {t}),
           gone' = gone \/ gone' = gone \cup {t},
           PutBack(t) \/ (phase[t] # "running" /\ UNCHANGED <<user, lock, got>>)
    PROVE  Placed' /\ LocksInOrder' /\ Queued'
<1>1. /\ Placed'
      /\ DOMAIN at' = Threads /\ \A s \in Threads \ {t} : at'[s] = at[s]
      /\ phase' \in [Threads -> {"calling", "waiting", "running", "over"}]
      /\ \A s \in Threads \ {t} : phase'[s] = phase[s]
      /\ phase'[t] # "running"
      /\ queue' = IF phase'[t] = "waiting" /\ t \notin gone' THEN Append(q, t) ELSE q
  BY GoPlaced DEF PoolInv
<1>2. /\ got' \in [Threads -> Nat] /\ got'[t] = 0
      /\ \A s \in Threads \ {t} : got'[s] = got[s]
  BY DEF PoolInv, LocksInOrder, PutBack
<1>3. \A r \in Rows, s \in Threads : lock'[r] = s => lock[r] = s /\ s # t
  <2>1. CASE PutBack(t)
    BY <2>1, PoolAssumption DEF PutBack, PoolInv, Inv
  <2>2. CASE phase[t] # "running" /\ UNCHANGED lock
    BY <2>2, PoolAssumption DEF PoolInv, Inv, NothingHeldOutside
  <2> QED BY <2>1, <2>2
<1>4. LocksInOrder'
  <2>1. \A s \in Threads : IF phase'[s] = "running"
                             THEN got'[s] <= Len(Routine[s][at'[s]].rows) ELSE got'[s] = 0
    BY <1>1, <1>2 DEF PoolInv, LocksInOrder, Block
  <2>2. ASSUME NEW r \in Rows, NEW s \in Threads, lock'[r] = s
        PROVE  \E i \in 1..got'[s] : Routine[s][at'[s]].rows[i] = r
    <3>1. lock[r] = s /\ got'[s] = got[s] /\ at'[s] = at[s]
      BY <1>1, <1>2, <1>3, <2>2
    <3> QED BY <3>1 DEF PoolInv, LocksInOrder, Block
  <2> QED BY <1>2, <2>1, <2>2 DEF LocksInOrder, Block
<1>5. Queued'
  <2>1. Waiters' = IF phase'[t] = "waiting" /\ t \notin gone' THEN (Waiters \ {t}) \cup {t}
                                                              ELSE Waiters \ {t}
    BY <1>1 DEF Waiters
  <2>2. t \notin Waiters \ {t}
    OBVIOUS
  <2> QED BY <1>1, <2>1, <2>2, JoinQueue DEF Queued
<1> QED BY <1>1, <1>4, <1>5

LEMMA GrantedOn == ASSUME PoolInv, NEW t \in Threads, Granted(t) PROVE Placed' /\ LocksInOrder' /\ Queued'
<1>1. /\ phase[t] = "waiting" /\ phase' = [phase EXCEPT ![t] = "running"]
      /\ queue # <<>> /\ Head(queue) = t /\ queue' = Tail(queue)
      /\ UNCHANGED <<at, lock, got, tries, gone>>
  BY DEF Granted
<1>2. phase \in [Threads -> Phases]
  BY DEF PoolInv, Inv
<1>3. phase'[t] = "running" /\ \A s \in Threads \ {t} : phase'[s] = phase[s]
  BY <1>1, <1>2
<1>4. Placed'
  BY <1>1, <1>3 DEF PoolInv, Placed
<1>5. LocksInOrder'
  <2>1. got[t] = 0
    BY <1>1 DEF PoolInv, LocksInOrder
  <2>2. 0 <= Len(Block(t).rows)
    BY <1>1, RowsTyped, OrdersTyped DEF PoolInv
  <2> QED BY <1>1, <1>3, <2>1, <2>2 DEF PoolInv, LocksInOrder, Block
<1>6. Queued'
  <2>1. Waiters' = Waiters \ {t}
    BY <1>1, <1>3 DEF Waiters
  <2> QED BY <1>1, <2>1, ServeQueue DEF PoolInv, Queued
<1> QED BY <1>4, <1>5, <1>6

LEMMA LockRowOn == ASSUME PoolInv, NEW t \in Threads, LockRow(t) PROVE Placed' /\ LocksInOrder' /\ Queued'
<1> DEFINE r == NextRow(t)
<1>1. /\ phase[t] = "running" /\ got[t] < Len(Block(t).rows) /\ lock[r] = Nobody
      /\ lock' = [lock EXCEPT ![r] = t] /\ got' = [got EXCEPT ![t] = got[t] + 1]
      /\ UNCHANGED <<at, phase, queue, user, tries, gone>>
  BY DEF LockRow, Remaining
<1>2. Placed' /\ Queued'
  BY <1>1 DEF PoolInv, Placed, Queued, Waiters
<1>3. got \in [Threads -> Nat]
  BY DEF PoolInv, LocksInOrder
<1>4. got'[t] = got[t] + 1 /\ \A s \in Threads \ {t} : got'[s] = got[s]
  BY <1>1, <1>3
<1>5. Len(Block(t).rows) \in Nat
  BY <1>1, RowsTyped, OrdersTyped DEF PoolInv
<1>6. \A s \in Threads : IF phase'[s] = "running"
                           THEN got'[s] <= Len(Routine[s][at'[s]].rows) ELSE got'[s] = 0
  BY <1>1, <1>3, <1>4, <1>5 DEF PoolInv, LocksInOrder, Block
<1>7. ASSUME NEW x \in Rows, NEW s \in Threads, lock'[x] = s
      PROVE  \E i \in 1..got'[s] : Routine[s][at'[s]].rows[i] = x
  <2>1. lock \in [Rows -> Threads \cup {Nobody}]
    BY DEF PoolInv, Inv
  <2>2. CASE x = r
    <3>1. s = t
      BY <1>1, <1>7, <2>1, <2>2
    <3>2. got[t] + 1 \in 1..got'[t]
      BY <1>3, <1>4
    <3>3. Routine[s][at'[s]].rows[got[t] + 1] = x
      BY <1>1, <2>2, <3>1 DEF NextRow, Block
    <3> QED BY <3>1, <3>2, <3>3
  <2>3. CASE x # r
    <3>1. lock[x] = s
      BY <1>1, <1>7, <2>1, <2>3
    <3>2. PICK i \in 1..got[s] : Routine[s][at[s]].rows[i] = x
      BY <3>1 DEF PoolInv, LocksInOrder, Block
    <3>3. i \in 1..got'[s]
      BY <1>3, <1>4
    <3> QED BY <1>1, <3>2, <3>3
  <2> QED BY <2>2, <2>3
<1>8. got' \in [Threads -> Nat]
  BY <1>1, <1>3
<1> QED BY <1>2, <1>6, <1>7, <1>8 DEF LocksInOrder, Block

LEMMA StutterOn ==
    ASSUME PoolInv, NEW t \in Threads, UNCHANGED <<at, phase, queue, user, lock, got>>,
           gone' = gone \/ (gone' = gone \cup {t} /\ phase[t] # "waiting")
    PROVE  Placed' /\ LocksInOrder' /\ Queued'
<1>1. Waiters' = Waiters
  BY DEF Waiters
<1> QED BY <1>1 DEF PoolInv, Placed, LocksInOrder, Queued, Block

(* A thread that is not in the queue takes nobody out of it.               *)
LEMMA NotQueued ==
    ASSUME PoolInv, NEW t \in Threads, phase[t] # "waiting" \/ t \in gone
    PROVE  QueueOf(queue, Waiters \ {t})
<1>1. Waiters \ {t} = Waiters
  BY DEF Waiters
<1> QED BY <1>1 DEF PoolInv, Queued

LEMMA FailOn ==
    ASSUME PoolInv, NEW t \in Threads, phase[t] = "running", Fail(t),
           gone' = gone \/ gone' = gone \cup {t}
    PROVE  Placed' /\ LocksInOrder' /\ Queued'
<1>1. PICK b \in Block(t).fail : PutBack(t) /\ Go(t, b, queue)
  BY DEF Fail
<1>2. b \in DOMAIN Routine[t] \cup {"end"}
  BY RowsTyped DEF PoolInv
<1> QED BY <1>1, <1>2, NotQueued, MovesOn

LEMMA InterruptOn ==
    ASSUME PoolInv, NEW t \in Threads \ gone, Interrupt(t),
           gone' = gone \/ gone' = gone \cup {t}
    PROVE  Placed' /\ LocksInOrder' /\ Queued'
<1>1. CASE phase[t] = "running" /\ Fail(t)
  BY <1>1, FailOn
<1>2. CASE phase[t] = "waiting" /\ UNCHANGED <<user, lock, got>>
           /\ \E b \in Block(t).fail : Go(t, b, Leaves(t))
  <2>1. PICK b \in Block(t).fail : Go(t, b, Leaves(t))
    BY <1>2
  <2>2. b \in DOMAIN Routine[t] \cup {"end"}
    BY <1>2, RowsTyped DEF PoolInv
  <2>3. t \in Waiters
    BY <1>2 DEF Waiters
  <2>4. QueueOf(Leaves(t), Waiters \ {t})
    <3> DEFINE k == CHOOSE i \in DOMAIN queue : queue[i] = t
    <3>1. k \in DOMAIN queue /\ queue[k] = t
      BY <2>3 DEF PoolInv, Queued, QueueOf
    <3> QED BY <3>1, LeaveQueue DEF PoolInv, Queued, Leaves
  <2> QED BY <1>2, <2>1, <2>2, <2>4, MovesOn
<1> QED BY <1>1, <1>2 DEF Interrupt

LEMMA StepOn == ASSUME PoolInv, NEW t \in Threads, Step(t) PROVE Placed' /\ LocksInOrder' /\ Queued'
<1>1. CASE CallReturns(t)
  <2>1. PICK b \in Block(t).ok \cup Block(t).fail : Go(t, b, queue)
    BY <1>1 DEF CallReturns
  <2>2. b \in DOMAIN Routine[t] \cup {"end"}
    BY <1>1, RowsTyped DEF CallReturns, PoolInv
  <2> QED BY <1>1, <2>1, <2>2, NotQueued, MovesOn DEF CallReturns
<1>2. CASE AcquireCancelled(t)
  <2>1. PICK b \in Block(t).fail : Go(t, b, queue)
    BY <1>2 DEF AcquireCancelled
  <2>2. b \in DOMAIN Routine[t] \cup {"end"}
    BY <1>2, RowsTyped DEF AcquireCancelled, PoolInv
  <2> QED BY <1>2, <2>1, <2>2, NotQueued, MovesOn DEF AcquireCancelled
<1>3. CASE Granted(t)
  BY <1>3, GrantedOn
<1>4. CASE LockRow(t)
  BY <1>4, LockRowOn
<1>5. CASE Commit(t)
  <2>1. PICK b \in Block(t).ok : Go(t, b, queue)
    BY <1>5 DEF Commit
  <2>2. b \in DOMAIN Routine[t] \cup {"end"}
    BY <1>5, RowsTyped DEF Commit, PoolInv
  <2> QED BY <1>5, <2>1, <2>2, NotQueued, MovesOn DEF Commit
<1>6. CASE Rollback(t) \/ StepOver(t)
  BY <1>6, FailOn DEF Rollback, StepOver
<1>7. CASE Conflict(t)
  <2>1. "cancel" \in DOMAIN Routine[t]
    BY <1>7, RowsTyped DEF Conflict, PoolInv
  <2> QED BY <1>7, <2>1, NotQueued, MovesOn DEF Conflict
<1>8. CASE ClientLeaves(t)
  <2>1. t \in Threads \ gone /\ gone' = gone \cup {t}
    BY <1>8 DEF ClientLeaves
  <2>2. CASE Interrupt(t)
    BY <2>1, <2>2, InterruptOn
  <2>3. CASE phase[t] = "calling" /\ UNCHANGED <<at, phase, queue, user, lock, got>>
    BY <2>1, <2>3, StutterOn
  <2> QED BY <1>8, <2>2, <2>3 DEF ClientLeaves
<1>9. CASE ProbeTimesOut(t)
  <2>1. t \in Threads \ gone
    BY <1>9, PoolAssumption DEF ProbeTimesOut, PoolInv, Counted
  <2> QED BY <1>9, <2>1, InterruptOn DEF ProbeTimesOut
<1> QED BY <1>1, <1>2, <1>3, <1>4, <1>5, <1>6, <1>7, <1>8, <1>9 DEF Step

LEMMA StepCounted == ASSUME Counted, NEW t \in Threads, Step(t) PROVE Counted'
<1>1. CASE Conflict(t)
  BY <1>1 DEF Conflict, Counted, MaxTxAttempts
<1>2. CASE ClientLeaves(t)
  BY <1>2 DEF ClientLeaves, Counted
<1>3. CASE UNCHANGED <<tries, gone>>
  BY <1>3 DEF Counted
<1> QED BY <1>1, <1>2, <1>3 DEF Step, CallReturns, AcquireCancelled, Granted, LockRow,
           Commit, Rollback, StepOver, ProbeTimesOut

-----------------------------------------------------------------------------
LEMMA PoolInvTyped == PoolInv => TypeOK
<1> SUFFICES ASSUME PoolInv PROVE TypeOK
  OBVIOUS
<1>1. \A t \in Threads : at[t] \in DOMAIN Routine[t] \cup {"end"}
  BY DEF PoolInv, Placed
<1>2. got \in [Threads -> 0..2]
  <2>1. ASSUME NEW t \in Threads PROVE got[t] \in 0..2
    <3>1. CASE phase[t] = "running"
      BY <3>1, RowsTyped, OrdersTyped DEF PoolInv, LocksInOrder
    <3>2. CASE phase[t] # "running"
      BY <3>2 DEF PoolInv, LocksInOrder
    <3> QED BY <3>1, <3>2
  <2> QED BY <2>1 DEF PoolInv, LocksInOrder
<1> QED BY <1>1, <1>2 DEF PoolInv, TypeOK, Inv, Phases, Counted, Queued, QueueOf

(* Whoever waits for a row waits for a thread that waits for nothing: the  *)
(* release locks its seat before its payment, and everybody else locks one *)
(* row.                                                                    *)
LEMMA RowsEnd ==
    ASSUME PoolInv, NEW D \in SUBSET Threads, NEW t \in D, phase[t] = "running", WaitsOn(t, D)
    PROVE  \E s \in D : ~WaitsOn(s, D)
<1>1. Remaining(t) /\ lock[NextRow(t)] \in D
  BY DEF WaitsOn, Waiters
<1> DEFINE s == lock[NextRow(t)]
<1>2. NextRow(t) \in Rows
  <2>1. Block(t).rows \in LockOrders /\ got[t] \in Nat
    BY RowsTyped DEF PoolInv, LocksInOrder
  <2> QED BY <1>1, <2>1, OrdersTyped DEF Remaining, NextRow
<1>3. s \in Threads /\ phase[s] = "running"
  BY <1>1, <1>2, PoolAssumption DEF PoolInv, Inv, NothingHeldOutside
<1>4. SUFFICES ASSUME WaitsOn(s, D) PROVE \E u \in D : ~WaitsOn(u, D)
  BY <1>1
<1>5. Remaining(s) /\ lock[NextRow(s)] \in D
  BY <1>3, <1>4 DEF WaitsOn, Waiters
<1> DEFINE u == lock[NextRow(s)]
<1>6. NextRow(s) = "payment"
  <2>1. PICK i \in 1..got[s] : Block(s).rows[i] = NextRow(t)
    BY <1>2, <1>3 DEF PoolInv, LocksInOrder
  <2>2. Block(s).rows \in LockOrders /\ got[s] \in Nat
    BY <1>3, RowsTyped DEF PoolInv, LocksInOrder
  <2>3. Len(Block(s).rows) \in 0..2 /\ got[s] \in 1..Len(Block(s).rows) /\ got[s] < Len(Block(s).rows)
    BY <1>5, <2>1, <2>2, OrdersTyped DEF Remaining
  <2> QED BY <2>2, <2>3, OrdersTyped DEF NextRow
<1>7. u \in Threads /\ phase[u] = "running"
  BY <1>5, <1>6, PoolAssumption DEF PoolInv, Inv, NothingHeldOutside, Rows
<1>8. ~Remaining(u)
  <2>1. PICK i \in 1..got[u] : Block(u).rows[i] = "payment"
    BY <1>6, <1>7 DEF PoolInv, LocksInOrder, Rows
  <2>2. Block(u).rows \in LockOrders /\ got[u] \in Nat
    BY <1>7, RowsTyped DEF PoolInv, LocksInOrder
  <2>3. Len(Block(u).rows) \in 0..2 /\ got[u] <= Len(Block(u).rows)
    BY <1>7, <2>2, OrdersTyped DEF PoolInv, LocksInOrder
  <2>4. ~(i < Len(Block(u).rows))
    BY <2>1, <2>2, <2>3, OrdersTyped
  <2> QED BY <2>1, <2>2, <2>3, <2>4 DEF Remaining
<1>9. ~WaitsOn(u, D)
  BY <1>7, <1>8 DEF WaitsOn, Waiters
<1> QED BY <1>5, <1>9

(* Of the threads that wait for a connection, the first in the queue waits *)
(* for none of the others: they have no connection.                        *)
LEMMA QueueEnds ==
    ASSUME PoolInv, NEW D \in SUBSET Threads, D # {}, \A t \in D : phase[t] # "running"
    PROVE  \E t \in D : ~WaitsOn(t, D)
<1>1. SUFFICES ASSUME \A t \in D : WaitsOn(t, D) PROVE FALSE
  OBVIOUS
<1>2. D \subseteq Waiters
  BY <1>1 DEF WaitsOn
<1> DEFINE P == {i \in DOMAIN queue : queue[i] \in D}
<1>3. P \in SUBSET Nat /\ P # {}
  BY <1>2 DEF PoolInv, Queued, QueueOf
<1>4. PICK k \in P : \A j \in P : k <= j
  BY <1>3, LeastPlace
<1> DEFINE t == queue[k]
<1>5. t \in D
  OBVIOUS
<1>6. ~\E i, j \in DOMAIN queue : i < j /\ queue[i] \in D /\ queue[j] = t
  <2> SUFFICES ASSUME NEW i \in DOMAIN queue, NEW j \in DOMAIN queue,
                      i < j, queue[i] \in D, queue[j] = t
               PROVE  FALSE
    OBVIOUS
  <2>1. j = k
    BY DEF PoolInv, Queued, QueueOf
  <2>2. k <= i /\ i \in Nat /\ k \in Nat
    BY <1>3, <1>4
  <2> QED BY <2>1, <2>2
<1>7. ~\A c \in Conns : user[c] \in D
  BY PoolAssumption DEF PoolInv, Inv, NothingHeldOutside
<1> HIDE DEF t, P
<1>8. phase[t] # "running"
  BY <1>5
<1>9. ~WaitsOn(t, D)
  BY <1>6, <1>7, <1>8 DEF WaitsOn
<1> QED BY <1>1, <1>5, <1>9

LEMMA PoolInvNoCircle == PoolInv => NobodyWaitsInACircle
<1> SUFFICES ASSUME PoolInv, NEW D \in (SUBSET Threads) \ {{}} PROVE \E t \in D : ~WaitsOn(t, D)
  BY DEF NobodyWaitsInACircle
<1>1. CASE \A t \in D : phase[t] # "running"
  BY <1>1, QueueEnds
<1>2. ASSUME NEW t \in D, phase[t] = "running" PROVE \E s \in D : ~WaitsOn(s, D)
  BY <1>2, RowsEnd
<1> QED BY <1>1, <1>2

-----------------------------------------------------------------------------
LEMMA SpecPoolInv == Spec => []PoolInv
<1>1. PoolInv /\ [Next]_vars => PoolInv'
  <2> SUFFICES ASSUME PoolInv, [Next]_vars PROVE PoolInv'
    OBVIOUS
  <2>1. ASSUME NEW t \in Threads, Step(t) PROVE PoolInv'
    BY <2>1, StepInv, StepOn, StepCounted DEF PoolInv
  <2>2. CASE UNCHANGED vars
    BY <2>2, StutterInv DEF vars, PoolInv, Placed, LocksInOrder, Queued, Waiters, Counted, Block
  <2> QED BY <2>1, <2>2 DEF Next
<1> QED BY InitPoolInv, <1>1, PTL DEF Spec

(* Every variable has its type, and the queue holds each thread that waits *)
(* for a connection with a living context once, whoever leaves it early.   *)
THEOREM PoolTyped == Spec => []TypeOK
BY SpecPoolInv, PoolInvTyped, PTL

(* No deadlock, whatever the limit of the pool: among any threads at least *)
(* one can go on without the others.  About the order in which the         *)
(* handlers, the releases, the marks and the relay lock rows, and InTx     *)
(* asking for one connection at a time.                                    *)
THEOREM NoDeadlock == Spec => []NobodyWaitsInACircle
BY SpecPoolInv, PoolInvNoCircle, PTL
=============================================================================
