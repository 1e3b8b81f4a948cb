----------------------- MODULE IdempotencyKeysProofs -----------------------
(***************************************************************************)
(* Proofs about IdempotencyKeys, for any number of attempts, keys, callers *)
(* and bodies and any set of faults.                                       *)
(***************************************************************************)
EXTENDS IdempotencyKeys, TLAPS

(* How far an attempt has come agrees with its answer and its charge.      *)
InStep ==
    \A a \in Attempts :
        /\ pc[a] \in {"idle", "reserve", "load", "claim", "charge", "answer"} => status[a] = 0
        /\ pc[a] = "release" => status[a] \in {402, 502}
        /\ pc[a] \notin Final => a \notin replayed
        /\ pc[a] = "answer" => Paid(a)
        /\ Bought(a) => pc[a] \in {"store"} \cup Final /\ Paid(a)

(* Once an attempt has bought, no other one with its key is at work.       *)
Alone ==
    \A a, b \in Attempts : SameKey(a, b) /\ Bought(a) /\ pc[b] \in Running => a = b

(* A complete row was written by the attempt that bought.                  *)
RowsAreOriginal ==
    \A k \in Keys : keys[k] # NoRow /\ keys[k].status = 200 => \E b \in Attempts :
        /\ Made(b) /\ KeyOf(b) = k /\ Bought(b) /\ pc[b] = "done"
        /\ keys[k].user = request[b].user /\ keys[k].body = request[b].body

(* The provider knows a charge by the key of the attempt that made it.     *)
IntentsKeyed ==
    /\ \A i \in intents : Made(i.by) /\ i.key = KeyOf(i.by)
    /\ \A i, j \in intents : i.key = j.key => i = j

(* A key that was charged stays taken, and only the attempt that made the  *)
(* charge is at work with it, unless that attempt lost the answer.         *)
ChargesStand ==
    \A i \in intents :
        /\ pc[i.by] \in {"answer", "release", "store"} \cup Final
        /\ status[i.by] \in {0, 200, 502}
        /\ status[i.by] = 0 => pc[i.by] \in {"answer", "dead"}
        /\ status[i.by] # 502 =>
             /\ keys[KeyOf(i.by)] # NoRow
             /\ \A a \in Attempts : pc[a] \in Running /\ KeyOf(a) = KeyOf(i.by) => a = i.by

Inv == /\ TypeOK /\ InStep /\ OneRunner /\ Alone /\ BoughtOnce
       /\ RowsAreOriginal /\ ReplayIsOriginal /\ IntentsKeyed /\ ChargesStand

-----------------------------------------------------------------------------
(* An attempt that has begun carries a request, for a key with a row or    *)
(* without one.                                                            *)
LEMMA Requests ==
    ASSUME TypeOK, NEW a \in Attempts, pc[a] # "idle"
    PROVE  /\ Made(a) /\ request[a] \in Request /\ KeyOf(a) \in Keys
           /\ Reservation(a) \in KeyRow /\ Reservation(a) # NoRow /\ Reservation(a).status = 0
<1>1. request[a] \in Request /\ request[a] # NoRequest
  BY DEF TypeOK
<1>2. Reservation(a) \in KeyRow /\ Reservation(a).status = 0
  BY <1>1 DEF Reservation, KeyRow, Request
<1>3. NoRow \notin KeyRow
  BY KeysAssumption DEF KeyRow
<1> QED BY <1>1, <1>2, <1>3 DEF Made, Request, KeyOf

(* The row that attempt a leaves when its answer is recorded.              *)
Completed(a) == [Reservation(a) EXCEPT !.status = 200]

LEMMA CompletedRows ==
    ASSUME TypeOK, NEW a \in Attempts, pc[a] # "idle"
    PROVE  /\ Completed(a) \in KeyRow /\ Completed(a) # NoRow /\ Completed(a).status = 200
           /\ Completed(a).user = request[a].user /\ Completed(a).body = request[a].body
<1>1. request[a].user \in Users /\ request[a].body \in Bodies
  BY Requests DEF Request
<1>2. /\ Completed(a) \in KeyRow /\ Completed(a).status = 200
      /\ Completed(a).user = request[a].user /\ Completed(a).body = request[a].body
  BY <1>1 DEF Completed, Reservation, KeyRow
<1>3. NoRow \notin KeyRow
  BY KeysAssumption DEF KeyRow
<1> QED BY <1>2, <1>3

(* What a request says never changes.                                      *)
LEMMA RequestsKept ==
    ASSUME TypeOK, [Next]_vars, NEW a \in Attempts, Made(a)
    PROVE  request'[a] = request[a] /\ Made(a)' /\ KeyOf(a)' = KeyOf(a)
                                   /\ Reservation(a)' = Reservation(a)
<1>1. request'[a] = request[a]
  BY DEF TypeOK, Made, Next, Arrive, Serve, Lookup, Handle, Store, Quiet, vars, Reserve,
         ReserveUnacknowledged, Insert, KeyExists, ReserveFails, LoadNothing, Load, Claim,
         ClaimFails, ProviderCharges, ChargeRefused, ChargeError, ChargeAnswered, Release,
         CompleteKey, ReleaseKey, StoreFails, Die
<1> QED BY <1>1 DEF Made, KeyOf, Reservation

LEMMA TypeInit == Init => TypeOK
  BY DEF Init, TypeOK, Final, Running, InHandler

LEMMA TypeNext == TypeOK /\ OneRunner /\ [Next]_vars => TypeOK'
<1> SUFFICES ASSUME TypeOK, OneRunner, [Next]_vars PROVE TypeOK'
  OBVIOUS
<1> USE KeysAssumption DEF Final, Running, InHandler, Goto, Finish, Respond
<1>1. ASSUME NEW a \in Attempts, NEW r \in Request, Arrive(a, r) PROVE TypeOK'
  BY <1>1 DEF TypeOK, Arrive, Request
<1>2. ASSUME NEW a \in Attempts, Reserve(a) \/ ReserveUnacknowledged(a) PROVE TypeOK'
  <2>1. Insert(a) /\ pc[a] = "reserve"
    BY <1>2 DEF Reserve, ReserveUnacknowledged, Insert
  <2>2. Reservation(a) \in KeyRow /\ KeyOf(a) \in Keys
    BY <2>1, Requests
  <2>3. keys' \in [Keys -> KeyRow \cup {NoRow}]
    BY <2>1, <2>2 DEF TypeOK, Insert
  <2> QED BY <1>2, <2>1, <2>3 DEF TypeOK, Reserve, ReserveUnacknowledged, Insert
<1>3. ASSUME NEW a \in Attempts, KeyExists(a) \/ ReserveFails(a) \/ LoadNothing(a)
      PROVE  TypeOK'
  BY <1>3 DEF TypeOK, KeyExists, ReserveFails, LoadNothing
<1>4. ASSUME NEW a \in Attempts, Load(a) PROVE TypeOK'
  <2>1. keys[KeyOf(a)] \in KeyRow
    BY <1>4, Requests DEF Load, Loadable, TypeOK
  <2>2. keys[KeyOf(a)].status \in {0, 200}
    BY <2>1 DEF KeyRow
  <2> QED BY <1>4, <2>2 DEF TypeOK, Load
<1>5. ASSUME NEW a \in Attempts, Claim(a) \/ ClaimFails(a) PROVE TypeOK'
  BY <1>5 DEF TypeOK, Claim, ClaimFails
<1>6. ASSUME NEW a \in Attempts, ProviderCharges(a) PROVE TypeOK'
  <2>1. [key |-> KeyOf(a), by |-> a] \in [key : Keys, by : Attempts]
    BY <1>6, Requests DEF ProviderCharges
  <2> QED BY <1>6, <2>1 DEF TypeOK, ProviderCharges, ForwardedKey
<1>7. ASSUME NEW a \in Attempts, ChargeRefused(a) \/ ChargeAnswered(a) \/ Release(a)
      PROVE  TypeOK'
  BY <1>7 DEF TypeOK, ChargeRefused, ChargeAnswered, ChargeError, Release
<1>8. ASSUME NEW a \in Attempts, CompleteKey(a) PROVE TypeOK'
  <2>1. status[a] = 200 /\ KeyOf(a) \in Keys
    BY <1>8, Requests DEF CompleteKey, Storable
  <2>2. keys[KeyOf(a)] \in KeyRow
    BY <1>8, Requests DEF CompleteKey, OneRunner
  <2>3. [keys[KeyOf(a)] EXCEPT !.status = 200] \in KeyRow
    BY <2>2 DEF KeyRow
  <2>4. keys' \in [Keys -> KeyRow \cup {NoRow}]
    BY <1>8, <2>1, <2>3 DEF TypeOK, CompleteKey
  <2> QED BY <1>8, <2>4 DEF TypeOK, CompleteKey
<1>9. ASSUME NEW a \in Attempts, ReleaseKey(a) \/ StoreFails(a) \/ Die(a) PROVE TypeOK'
  BY <1>9 DEF TypeOK, ReleaseKey, StoreFails, Die
<1>10. CASE UNCHANGED vars
  BY <1>10 DEF TypeOK, vars
<1> QED
  BY <1>1, <1>2, <1>3, <1>4, <1>5, <1>6, <1>7, <1>8, <1>9, <1>10
  DEF Next, Request, Serve, Lookup, Handle, Store, Quiet

-----------------------------------------------------------------------------
(* The provider forgets nothing, and what was paid for stays so.           *)
LEMMA ChargesStay == [Next]_vars => intents \subseteq intents'
  BY DEF Next, Arrive, Serve, Lookup, Handle, Store, Quiet, vars, Reserve,
         ReserveUnacknowledged, Insert, KeyExists, ReserveFails, LoadNothing, Load, Claim,
         ClaimFails, ProviderCharges, ChargeRefused, ChargeError, ChargeAnswered, Release,
         CompleteKey, ReleaseKey, StoreFails, Die

LEMMA PaidStays ==
    ASSUME TypeOK, IntentsKeyed, [Next]_vars, NEW a \in Attempts, Made(a), Paid(a)
    PROVE  Paid(a)'
<1>1. PICK i \in intents : i.key = KeyOf(a) /\ (ParamsChecked => SameCall(i, a))
  BY DEF Paid
<1>2. i \in intents' /\ i.by \in Attempts /\ Made(i.by)
  BY ChargesStay DEF TypeOK, IntentsKeyed
<1>3. KeyOf(a)' = KeyOf(a) /\ request'[a] = request[a] /\ request'[i.by] = request[i.by]
  BY <1>2, RequestsKept
<1> QED BY <1>1, <1>2, <1>3 DEF Paid, SameCall

Acts(a) == Serve(a) \/ Die(a) \/ \E r \in Request : Arrive(a, r)

LEMMA Steps == [Next]_vars => (\E a \in Attempts : Acts(a)) \/ UNCHANGED vars
  BY DEF Acts, Next, Quiet, Request

(* A step of one attempt leaves the others where they are.                 *)
LEMMA OthersKept ==
    ASSUME TypeOK, NEW a \in Attempts, Acts(a), NEW b \in Attempts, b # a
    PROVE  /\ pc'[b] = pc[b] /\ status'[b] = status[b]
           /\ b \in replayed' <=> b \in replayed
  BY DEF Acts, TypeOK, Goto, Finish, Respond,
         Arrive, Serve, Lookup, Handle, Store, Reserve, ReserveUnacknowledged, Insert,
         KeyExists, ReserveFails, LoadNothing, Load, Claim, ClaimFails, ProviderCharges,
         ChargeRefused, ChargeError, ChargeAnswered, Release, CompleteKey, ReleaseKey, StoreFails, Die

(* InStep for one attempt.                                                 *)
Stands(a) ==
    /\ pc[a] \in {"idle", "reserve", "load", "claim", "charge", "answer"} => status[a] = 0
    /\ pc[a] = "release" => status[a] \in {402, 502}
    /\ pc[a] \notin Final => a \notin replayed
    /\ pc[a] = "answer" => Paid(a)
    /\ Bought(a) => pc[a] \in {"store"} \cup Final /\ Paid(a)

LEMMA InStepNext == TypeOK /\ InStep /\ OneRunner /\ IntentsKeyed /\ [Next]_vars => InStep'
<1> SUFFICES ASSUME TypeOK, InStep, OneRunner, IntentsKeyed, [Next]_vars PROVE InStep'
  OBVIOUS
<1>0. InStep <=> \A b \in Attempts : Stands(b)
  BY DEF InStep, Stands
<1>00. InStep' <=> \A b \in Attempts : Stands(b)'
  BY DEF InStep, Stands
<1> USE DEF Final, Goto, Finish, Respond
(* An attempt that the step leaves alone stands where it stood.            *)
<1>1. ASSUME NEW b \in Attempts, pc'[b] = pc[b], status'[b] = status[b],
             b \in replayed' <=> b \in replayed
      PROVE  Stands(b)'
  <2>1. Stands(b)
    BY <1>0
  <2>2. pc[b] # "idle" /\ Paid(b) => Paid(b)'
    BY Requests, PaidStays
  <2> QED BY <1>1, <2>1, <2>2 DEF Stands, Bought
<1>2. ASSUME NEW a \in Attempts, \E r \in Request : Arrive(a, r) PROVE Stands(a)'
  BY <1>2, <1>0 DEF Arrive, TypeOK, Stands, Bought
<1>3. ASSUME NEW a \in Attempts, Lookup(a) PROVE Stands(a)'
  <2>1. Stands(a)
    BY <1>0
  <2>2. CASE Load(a)
    BY <2>1, <2>2 DEF Load, TypeOK, Stands, Bought
  <2> QED BY <1>3, <2>1, <2>2 DEF Lookup, Reserve, ReserveUnacknowledged, Insert, KeyExists,
                                   ReserveFails, LoadNothing, TypeOK, Stands, Bought
<1>4. ASSUME NEW a \in Attempts, Handle(a) PROVE Stands(a)'
  <2>1. Stands(a)
    BY <1>0
  <2>2. CASE Claim(a) \/ ClaimFails(a)
    BY <2>1, <2>2 DEF Claim, ClaimFails, TypeOK, Stands, Bought
  <2>3. CASE ProviderCharges(a)
    <3>1. pc[a] = "charge" /\ Accepted(a) /\ Made(a) /\ UNCHANGED request
      BY <2>3, Requests DEF ProviderCharges
    <3>2. ASSUME Original(a) # {} PROVE Paid(a)'
      <4>1. PICK i \in Original(a) : TRUE
        BY <3>2
      <4>2. i \in intents /\ i.key = KeyOf(a) /\ (ParamsChecked => SameCall(i, a))
        BY <3>1, <4>1 DEF Original, Accepted, ForwardedKey
      <4>3. Paid(a)
        BY <4>2 DEF Paid
      <4> QED BY <3>1, <4>3, PaidStays
    <3>3. ASSUME Original(a) = {} PROVE Paid(a)'
      <4>1. [key |-> KeyOf(a), by |-> a] \in intents'
        BY <2>3, <3>3 DEF ProviderCharges, ForwardedKey
      <4>2. PICK i \in intents' : i.key = KeyOf(a) /\ i.by = a
        BY <4>1
      <4>3. KeyOf(a)' = KeyOf(a)
        BY <3>1 DEF KeyOf
      <4>4. SameCall(i, a)'
        BY <4>2 DEF SameCall
      <4> QED BY <4>2, <4>3, <4>4 DEF Paid
    <3>4. Paid(a)'
      BY <3>2, <3>3
    <3> QED BY <2>1, <2>3, <3>4 DEF ProviderCharges, TypeOK, Stands, Bought
  <2>4. CASE ChargeRefused(a)
    BY <2>1, <2>4 DEF ChargeRefused, ChargeError, TypeOK, Stands, Bought
  <2>5. CASE ChargeAnswered(a)
    <3>1. Paid(a)'
      BY <2>1, <2>5, Requests, PaidStays DEF ChargeAnswered, Stands
    <3> QED BY <2>1, <2>5, <3>1 DEF ChargeAnswered, ChargeError, TypeOK, Stands, Bought
  <2>6. CASE Release(a)
    BY <2>1, <2>6 DEF Release, TypeOK, Stands, Bought
  <2> QED BY <1>4, <2>2, <2>3, <2>4, <2>5, <2>6 DEF Handle
<1>5. ASSUME NEW a \in Attempts, Store(a) \/ Die(a) PROVE Stands(a)'
  <2>1. Stands(a)
    BY <1>0
  <2>2. pc[a] # "idle"
    BY <1>5 DEF Store, CompleteKey, ReleaseKey, StoreFails, Die
  <2>3. Paid(a) => Paid(a)'
    BY <2>2, Requests, PaidStays
  <2> QED BY <1>5, <2>1, <2>3
          DEF Store, CompleteKey, ReleaseKey, StoreFails, Die, TypeOK, Stands, Bought
<1>6. CASE UNCHANGED vars
  BY <1>1, <1>6, <1>00 DEF vars
<1> QED
  BY <1>00, <1>1, <1>2, <1>3, <1>4, <1>5, <1>6, Steps, OthersKept DEF Acts, Serve

-----------------------------------------------------------------------------
(* The four ways in which a step of attempt a leaves the table of keys.    *)
KeysKept == keys' = keys
KeyTaken(a) ==
    /\ pc[a] = "reserve" /\ keys[KeyOf(a)] = NoRow
    /\ keys' = [keys EXCEPT ![KeyOf(a)] = Reservation(a)]
    /\ pc'[a] = "claim" \/ (pc'[a] = "done" /\ status'[a] = 500)
KeyCompleted(a) ==
    /\ pc[a] = "store" /\ status[a] = 200 /\ pc'[a] = "done" /\ status' = status
    /\ replayed' = replayed
    /\ keys' = [keys EXCEPT ![KeyOf(a)] = Completed(a)]
KeyGivenBack(a) ==
    /\ pc[a] = "store" /\ status[a] >= 500 /\ pc'[a] = "done" /\ status' = status
    /\ keys' = [keys EXCEPT ![KeyOf(a)] = NoRow]

LEMMA KeyTakings ==
    ASSUME TypeOK, NEW a \in Attempts, Reserve(a) \/ ReserveUnacknowledged(a)
    PROVE  KeyTaken(a) /\ replayed' = replayed
<1>1. Insert(a)
  BY DEF Reserve, ReserveUnacknowledged
<1>2. /\ pc[a] = "reserve" /\ keys[KeyOf(a)] = NoRow
      /\ keys' = [keys EXCEPT ![KeyOf(a)] = Reservation(a)]
      /\ replayed' = replayed
  BY <1>1 DEF Insert, Insertable
<1>3. pc'[a] = "claim" \/ (pc'[a] = "done" /\ status'[a] = 500)
  BY DEF Reserve, ReserveUnacknowledged, Goto, Finish, TypeOK
<1> QED BY <1>2, <1>3 DEF KeyTaken

LEMMA KeyChanges ==
    ASSUME TypeOK, OneRunner, NEW a \in Attempts, Acts(a)
    PROVE  KeysKept \/ KeyTaken(a) \/ KeyCompleted(a) \/ KeyGivenBack(a)
<1> USE DEF Goto, Finish, Respond
<1>1. CASE Reserve(a) \/ ReserveUnacknowledged(a)
  BY <1>1, KeyTakings
<1>2. CASE CompleteKey(a)
  <2>1. keys[KeyOf(a)] = Reservation(a) /\ status[a] = 200
    BY <1>2 DEF CompleteKey, Storable, OneRunner, Running
  <2> QED BY <1>2, <2>1 DEF CompleteKey, KeyCompleted, Completed, TypeOK
<1>3. CASE ReleaseKey(a)
  <2>1. keys[KeyOf(a)] = Reservation(a) /\ Reservation(a).status = 0 /\ Reservation(a) # NoRow
    BY <1>3, Requests DEF ReleaseKey, OneRunner, Running
  <2> QED BY <1>3, <2>1 DEF ReleaseKey, Retryable, KeyGivenBack, TypeOK
<1> QED
  BY <1>1, <1>2, <1>3
  DEF Acts, KeysKept, Arrive, Serve, Lookup, Handle, Store,
      KeyExists, ReserveFails, LoadNothing, Load, Claim, ClaimFails, ProviderCharges,
      ChargeRefused, ChargeError, ChargeAnswered, Release, StoreFails, Die

(* The handler is entered by taking the key, and success is reached in it. *)
LEMMA Entries ==
    ASSUME TypeOK, InStep, NEW a \in Attempts, Acts(a)
    PROVE  /\ pc'[a] \in Running => pc[a] \in Running \/ KeyTaken(a)
           /\ Bought(a)' => Bought(a) \/ (pc[a] = "answer" /\ pc'[a] = "store" /\ KeysKept)
<1> USE DEF Goto, Finish, Respond, Running, InHandler, Final
<1>1. CASE \E r \in Request : Arrive(a, r)
  BY <1>1 DEF Arrive, InStep, TypeOK, Bought
<1>2. CASE Lookup(a)
  <2>1. CASE Reserve(a) \/ ReserveUnacknowledged(a)
    BY <2>1, KeyTakings DEF Reserve, ReserveUnacknowledged, Insert, InStep, TypeOK, Bought
  <2>2. CASE Load(a)
    BY <2>2 DEF Load, InStep, TypeOK, Bought
  <2>3. CASE KeyExists(a) \/ ReserveFails(a) \/ LoadNothing(a)
    BY <2>3 DEF KeyExists, ReserveFails, LoadNothing, InStep, TypeOK, Bought
  <2> QED BY <1>2, <2>1, <2>2, <2>3 DEF Lookup
<1>3. CASE Handle(a)
  BY <1>3 DEF Handle, Claim, ClaimFails, ProviderCharges, ChargeRefused, ChargeError,
              ChargeAnswered, Release, InStep, TypeOK, Bought, KeysKept
<1>4. CASE Store(a) \/ Die(a)
  BY <1>4 DEF Store, CompleteKey, ReleaseKey, StoreFails, Die, InStep, TypeOK, Bought
<1> QED BY <1>1, <1>2, <1>3, <1>4 DEF Acts, Serve

LEMMA BoughtRows ==
    ASSUME BoughtOnce, NEW b \in Attempts, Made(b), Bought(b)
    PROVE  keys[KeyOf(b)] \in {Reservation(b), Completed(b)}
  BY Zenon DEF BoughtOnce, Completed

LEMMA ActsAreSteps == ASSUME NEW a \in Attempts, Acts(a) PROVE [Next]_vars
  BY DEF Acts, Next, Request

LEMMA DoneIsDone == ASSUME NEW a \in Attempts, Acts(a) PROVE pc[a] \notin Final
  BY DEF Acts, Arrive, Serve, Lookup, Handle, Store, Reserve, ReserveUnacknowledged, Insert,
         KeyExists, ReserveFails, LoadNothing, Load, Claim, ClaimFails, ProviderCharges,
         ChargeRefused, ChargeAnswered, Release, CompleteKey, ReleaseKey, StoreFails, Die, Final

-----------------------------------------------------------------------------
(* One attempt of a key is at work, and the row is its reservation.        *)
LEMMA OneRunnerNext ==
    ASSUME TypeOK, InStep, OneRunner, NEW a \in Attempts, Acts(a)
    PROVE  OneRunner'
<1>1. ASSUME NEW b \in Attempts, pc'[b] \in Running
      PROVE  /\ pc[b] # "idle" /\ KeyOf(b)' = KeyOf(b) /\ Reservation(b)' = Reservation(b)
             /\ pc[b] \in Running \/ (b = a /\ KeyTaken(a))
  <2>1. pc[b] \in Running \/ (b = a /\ KeyTaken(a))
    BY <1>1, OthersKept, Entries
  <2>2. pc[b] # "idle"
    BY <2>1 DEF Running, InHandler, KeyTaken
  <2> QED BY <2>1, <2>2, Requests, RequestsKept, ActsAreSteps
<1>2. ASSUME NEW b \in Attempts, pc[b] \in Running
      PROVE  /\ keys[KeyOf(b)] = Reservation(b) /\ keys[KeyOf(b)] # NoRow /\ KeyOf(b) \in Keys
             /\ \A c \in Attempts : pc[c] \in Running /\ KeyOf(c) = KeyOf(b) => c = b
  BY <1>2, Requests DEF OneRunner, Running, InHandler, SameKey
<1>3. ASSUME NEW b \in Attempts, pc'[b] \in Running PROVE keys'[KeyOf(b)] = Reservation(b)
  <2>1. CASE KeyTaken(a)
    <3>1. CASE b = a
      BY <2>1, <3>1, Requests DEF KeyTaken, TypeOK
    <3>2. CASE b # a
      BY <1>1, <1>2, <1>3, <2>1, <3>2 DEF KeyTaken, TypeOK
    <3> QED BY <3>1, <3>2
  <2>2. CASE KeyCompleted(a) \/ KeyGivenBack(a)
    <3>1. pc'[a] \notin Running /\ pc[a] \in Running
      BY <2>2 DEF KeyCompleted, KeyGivenBack, Running, InHandler
    <3>2. pc[b] \in Running /\ b # a
      BY <1>3, <3>1, OthersKept
    <3>3. KeyOf(b) # KeyOf(a)
      BY <1>2, <3>1, <3>2
    <3> QED BY <1>2, <2>2, <3>2, <3>3 DEF KeyCompleted, KeyGivenBack, TypeOK
  <2>3. CASE KeysKept
    <3>1. pc[b] \in Running \/ (b = a /\ KeyTaken(a))
      BY <1>1, <1>3
    <3> QED BY <1>2, <2>1, <2>3, <3>1 DEF KeysKept
  <2> QED BY <2>1, <2>2, <2>3, KeyChanges
<1>4. ASSUME NEW b \in Attempts, NEW c \in Attempts, pc'[b] \in Running, pc'[c] \in Running,
             KeyOf(b) = KeyOf(c)
      PROVE  b = c
  <2>1. pc[b] \in Running /\ pc[c] \in Running => b = c
    BY <1>2, <1>4
  <2>2. ASSUME KeyTaken(a), NEW d \in Attempts, pc[d] \in Running PROVE KeyOf(d) # KeyOf(a)
    BY <1>2, <2>2 DEF KeyTaken
  <2> QED BY <1>1, <1>4, <2>1, <2>2
<1> QED BY <1>1, <1>3, <1>4 DEF OneRunner, SameKey

(* Nobody else is at work with the key of an attempt that bought.          *)
LEMMA AloneNext ==
    ASSUME TypeOK, InStep, OneRunner, Alone, BoughtOnce, NEW a \in Attempts, Acts(a)
    PROVE  Alone'
<1> SUFFICES ASSUME NEW b \in Attempts, NEW c \in Attempts,
                    SameKey(b, c)', Bought(b)', pc'[c] \in Running
             PROVE  b = c
  BY DEF Alone
<1>1. Bought(b) \/ (b = a /\ pc[a] = "answer" /\ pc'[a] = "store" /\ KeysKept)
  BY Entries, OthersKept DEF Bought
<1>2. pc[c] \in Running \/ (c = a /\ KeyTaken(a))
  BY Entries, OthersKept
<1>3. pc[b] # "idle" /\ pc[c] # "idle"
  BY <1>1, <1>2 DEF InStep, Bought, Running, InHandler, KeyTaken
<1>4. Made(b) /\ Made(c) /\ KeyOf(b) = KeyOf(c)
  BY <1>3, Requests, RequestsKept, ActsAreSteps DEF SameKey
<1>5. CASE Bought(b) /\ pc[c] \in Running
  BY <1>4, <1>5 DEF Alone, SameKey
<1>6. CASE Bought(b) /\ KeyTaken(a) /\ c = a
  <2>1. keys[KeyOf(b)] # NoRow
    BY <1>3, <1>4, <1>6, Requests, CompletedRows, BoughtRows
  <2> QED BY <1>4, <1>6, <2>1 DEF KeyTaken
<1>7. CASE b = a /\ pc[a] = "answer" /\ pc[c] \in Running
  BY <1>4, <1>7 DEF OneRunner, SameKey, Running, InHandler
<1> QED BY <1>1, <1>2, <1>5, <1>6, <1>7 DEF KeyTaken

(* A key buys once, and the row of the attempt that bought stays.          *)
LEMMA BoughtOnceNext ==
    ASSUME TypeOK, InStep, OneRunner, Alone, BoughtOnce, NEW a \in Attempts, Acts(a)
    PROVE  BoughtOnce'
<1>1. ASSUME NEW b \in Attempts, Bought(b)'
      PROVE  /\ Bought(b) \/ (b = a /\ pc[a] = "answer" /\ pc'[a] = "store" /\ KeysKept)
             /\ pc[b] # "idle" /\ Made(b) /\ KeyOf(b)' = KeyOf(b) /\ KeyOf(b) \in Keys
             /\ Reservation(b)' = Reservation(b) /\ Completed(b)' = Completed(b)
  <2>1. Bought(b) \/ (b = a /\ pc[a] = "answer" /\ pc'[a] = "store" /\ KeysKept)
    BY <1>1, Entries, OthersKept DEF Bought
  <2>2. pc[b] # "idle"
    BY <2>1 DEF InStep, Bought
  <2> QED BY <2>1, <2>2, Requests, RequestsKept, ActsAreSteps DEF Completed
<1>2. ASSUME NEW b \in Attempts, Bought(b)'
      PROVE  keys'[KeyOf(b)] \in {Reservation(b), Completed(b)}
  <2>1. CASE b = a /\ pc[a] = "answer" /\ KeysKept
    BY <2>1 DEF OneRunner, Running, InHandler, KeysKept
  <2>2. CASE Bought(b)
    <3>0. keys[KeyOf(b)] \in {Reservation(b), Completed(b)}
      BY <1>1, <1>2, <2>2, BoughtRows
    <3>1. /\ keys[KeyOf(b)] \in {Reservation(b), Completed(b)} /\ keys[KeyOf(b)] # NoRow
      BY <1>1, <1>2, <3>0, Requests, CompletedRows
    <3>2. CASE KeyTaken(a)
      BY <1>1, <1>2, <3>1, <3>2 DEF KeyTaken, TypeOK
    <3>3. CASE KeyCompleted(a) \/ KeyGivenBack(a)
      <4>1. pc[a] \in Running /\ Made(a) /\ KeyOf(a) \in Keys
        BY <3>3, Requests DEF KeyCompleted, KeyGivenBack, Running
      <4>2. CASE KeyOf(a) # KeyOf(b)
        BY <1>1, <1>2, <3>1, <3>3, <4>2 DEF KeyCompleted, KeyGivenBack, TypeOK
      <4>3. CASE KeyOf(a) = KeyOf(b)
        <5>1. a = b /\ status[a] = 200
          BY <1>1, <1>2, <2>2, <4>1, <4>3 DEF Alone, SameKey, Bought
        <5>2. KeyCompleted(a)
          BY <3>3, <5>1 DEF KeyGivenBack
        <5> QED BY <4>1, <5>1, <5>2 DEF KeyCompleted, TypeOK
      <4> QED BY <4>2, <4>3
    <3>4. CASE KeysKept
      BY <3>1, <3>4 DEF KeysKept
    <3> QED BY <3>2, <3>3, <3>4, KeyChanges
  <2> QED BY <1>1, <1>2, <2>1, <2>2
<1>3. ASSUME NEW b \in Attempts, NEW c \in Attempts, Bought(b)', Bought(c)', KeyOf(b) = KeyOf(c)
      PROVE  b = c
  <2>1. CASE Bought(b) /\ Bought(c)
    BY <1>1, <1>3, <2>1 DEF BoughtOnce, SameKey
  <2>2. ASSUME NEW d \in Attempts, Bought(d), Made(d), Made(a), KeyOf(d) = KeyOf(a), pc[a] = "answer"
        PROVE  d = a
    BY <2>2 DEF Alone, SameKey, Running, InHandler
  <2> QED BY <1>1, <1>3, <2>1, <2>2
<1> SUFFICES ASSUME NEW b \in Attempts, Bought(b)'
             PROVE  /\ \A c \in Attempts : SameKey(b, c)' /\ Bought(c)' => b = c
                    /\ (keys[KeyOf(b)] \in {Reservation(b), Completed(b)})'
  BY Zenon DEF BoughtOnce, Completed
<1>4. ASSUME NEW c \in Attempts, SameKey(b, c)', Bought(c)' PROVE b = c
  BY <1>1, <1>3, <1>4 DEF SameKey
<1>5. (keys[KeyOf(b)] \in {Reservation(b), Completed(b)})'
  BY <1>1, <1>2
<1> QED BY <1>4, <1>5

(* A complete row stays that of the attempt that bought.                   *)
LEMMA RowsAreOriginalNext ==
    ASSUME TypeOK, InStep, OneRunner, RowsAreOriginal, NEW a \in Attempts, Acts(a)
    PROVE  RowsAreOriginal'
<1> DEFINE Wrote(b, k) ==
        /\ Made(b) /\ KeyOf(b) = k /\ Bought(b) /\ pc[b] = "done"
        /\ keys[k].user = request[b].user /\ keys[k].body = request[b].body
<1> SUFFICES ASSUME NEW k \in Keys, (keys[k] # NoRow /\ keys[k].status = 200)'
             PROVE  \E b \in Attempts : Wrote(b, k)'
  BY DEF RowsAreOriginal
<1>1. CASE keys'[k] = keys[k]
  <2>1. PICK b \in Attempts : Wrote(b, k)
    BY <1>1 DEF RowsAreOriginal
  <2>2. b # a
    BY <2>1, DoneIsDone DEF Final
  <2>3. request'[b] = request[b] /\ Made(b)' /\ KeyOf(b)' = KeyOf(b)
    BY <2>1, RequestsKept, ActsAreSteps
  <2>4. pc'[b] = pc[b] /\ status'[b] = status[b] /\ (b \in replayed' <=> b \in replayed)
    BY <2>2, OthersKept
  <2> QED BY <1>1, <2>1, <2>3, <2>4 DEF Bought
<1>2. CASE keys'[k] # keys[k]
  <2>1. KeyCompleted(a) /\ k = KeyOf(a)
    <3>1. KeyTaken(a) => keys'[k].status # 200
      BY <1>2, Requests DEF KeyTaken, TypeOK
    <3> QED BY <1>2, <3>1, KeyChanges DEF KeysKept, KeyCompleted, KeyGivenBack, TypeOK
  <2>2. keys'[k] = Completed(a) /\ pc[a] = "store" /\ pc'[a] = "done" /\ status'[a] = 200
        /\ a \notin replayed'
    BY <2>1 DEF KeyCompleted, TypeOK, InStep, Final
  <2>3. request'[a] = request[a] /\ Made(a)' /\ KeyOf(a)' = KeyOf(a)
    BY <2>2, Requests, RequestsKept, ActsAreSteps
  <2>4. Wrote(a, k)'
    BY <2>1, <2>2, <2>3, CompletedRows DEF Bought
  <2> QED BY <2>4
<1> QED BY <1>1, <1>2

(* What is replayed was answered by the attempt that bought.               *)
LEMMA ReplayIsOriginalNext ==
    ASSUME TypeOK, InStep, OneRunner, IntentsKeyed, RowsAreOriginal, ReplayIsOriginal,
           NEW a \in Attempts, Acts(a)
    PROVE  ReplayIsOriginal'
<1> DEFINE First(c, b) ==
        /\ request[b] = request[c]
        /\ Bought(b) /\ pc[b] = "done" /\ status[c] = 200
        /\ Paid(b)
<1> SUFFICES ASSUME NEW c \in Attempts, c \in replayed'
             PROVE  \E b \in Attempts : First(c, b)'
  BY TypeNext, ActsAreSteps DEF ReplayIsOriginal, TypeOK
<1>1. ASSUME NEW b \in Attempts, pc[b] = "done", Bought(b), Paid(b)
      PROVE  /\ Bought(b)' /\ pc'[b] = "done" /\ Paid(b)'
             /\ request'[b] = request[b]
  <2>1. b # a
    BY <1>1, DoneIsDone DEF Final
  <2>2. Made(b) /\ request'[b] = request[b]
    BY <1>1, Requests, RequestsKept, ActsAreSteps
  <2>3. Paid(b)'
    BY <1>1, <2>2, PaidStays, ActsAreSteps
  <2> QED BY <1>1, <2>1, <2>2, <2>3, OthersKept DEF Bought
<1>2. CASE c \in replayed
  <2>1. PICK b \in Attempts : First(c, b)
    BY <1>2 DEF ReplayIsOriginal
  <2>2. pc[c] \in Final
    BY <1>2 DEF InStep
  <2>3. request'[c] = request[c] /\ status'[c] = status[c]
    BY <2>2, DoneIsDone, OthersKept, Requests, RequestsKept, ActsAreSteps DEF Final
  <2>4. First(c, b)'
    BY <1>1, <2>1, <2>3
  <2> QED BY <2>4
<1>3. CASE c \notin replayed
  <2>1. c = a
    BY <1>3, OthersKept
  <2>2. Load(a) /\ keys[KeyOf(a)].status > 0 /\ keys[KeyOf(a)].body = request[a].body
        /\ status'[a] = keys[KeyOf(a)].status
    BY <1>3, <2>1
    DEF Acts, Arrive, Serve, Lookup, Handle, Store, Reserve, ReserveUnacknowledged, Insert,
        KeyExists, ReserveFails, LoadNothing, Load, Claim, ClaimFails, ProviderCharges,
        ChargeRefused, ChargeError, ChargeAnswered, Release, CompleteKey, ReleaseKey, StoreFails,
        Die, TypeOK, Finish
  <2>3. /\ pc[a] = "load" /\ Loadable(a) /\ KeyOf(a) \in Keys
        /\ request[a] \in Request /\ request'[a] = request[a]
    BY <2>2, Requests, RequestsKept, ActsAreSteps DEF Load
  <2>4. keys[KeyOf(a)] # NoRow /\ keys[KeyOf(a)].user = request[a].user
    BY <2>3 DEF Loadable
  <2>5. keys[KeyOf(a)].status = 200
    BY <2>2, <2>3, <2>4 DEF TypeOK, KeyRow
  <2>6. PICK b \in Attempts :
            /\ Made(b) /\ KeyOf(b) = KeyOf(a) /\ Bought(b) /\ pc[b] = "done"
            /\ keys[KeyOf(a)].user = request[b].user /\ keys[KeyOf(a)].body = request[b].body
    BY <2>3, <2>4, <2>5 DEF RowsAreOriginal
  <2>7. request[b] \in Request
    BY <2>6, Requests
  <2>8. request[b] = request[a]
    <3>1. \A r, q \in Request : r.key = q.key /\ r.user = q.user /\ r.body = q.body => r = q
      BY DEF Request
    <3>2. /\ request[b].key = request[a].key /\ request[b].user = request[a].user
          /\ request[b].body = request[a].body
      BY <2>2, <2>4, <2>6 DEF KeyOf
    <3> QED BY <2>3, <2>7, <3>1, <3>2
  <2>9. Paid(b)
    BY <2>6 DEF InStep
  <2>10. First(a, b)'
    BY <1>1, <2>2, <2>3, <2>5, <2>6, <2>8, <2>9
  <2> QED BY <2>1, <2>10
<1> QED BY <1>2, <1>3

(* A charge is known by the key of the attempt, and a key has one charge.  *)
LEMMA IntentsKeyedNext ==
    ASSUME TypeOK, IntentsKeyed, NEW a \in Attempts, Acts(a)
    PROVE  IntentsKeyed'
<1>1. ASSUME NEW i \in intents PROVE Made(i.by)' /\ i.key = KeyOf(i.by)'
  <2>1. i.by \in Attempts /\ Made(i.by) /\ i.key = KeyOf(i.by)
    BY DEF IntentsKeyed, TypeOK
  <2> QED BY <2>1, RequestsKept, ActsAreSteps
<1>2. CASE intents' = intents
  BY <1>1, <1>2 DEF IntentsKeyed
<1>3. CASE intents' # intents
  <2> DEFINE new == [key |-> KeyOf(a), by |-> a]
  <2>1. /\ pc[a] = "charge" /\ Original(a) = {} /\ intents' = intents \cup {new}
    BY <1>3
    DEF Acts, Arrive, Serve, Lookup, Handle, Store, Reserve, ReserveUnacknowledged, Insert,
        KeyExists, ReserveFails, LoadNothing, Load, Claim, ClaimFails, ProviderCharges,
        ChargeRefused, ChargeError, ChargeAnswered, Release, CompleteKey, ReleaseKey, StoreFails,
        Die, ForwardedKey
  <2>2. new.key = KeyOf(a) /\ new.by = a
    OBVIOUS
  <2>3. Made(a)' /\ KeyOf(a)' = KeyOf(a)
    BY <2>1, Requests, RequestsKept, ActsAreSteps
  <2>4. \A i \in intents : i.key # new.key
    BY <2>1, <2>2 DEF Original, ForwardedKey
  <2> HIDE DEF new
  <2>5. \A i \in intents' : Made(i.by)' /\ i.key = KeyOf(i.by)'
    BY <1>1, <2>1, <2>2, <2>3
  <2>6. \A i, j \in intents' : i.key = j.key => i = j
    BY <2>1, <2>4 DEF IntentsKeyed
  <2> QED BY <2>5, <2>6 DEF IntentsKeyed
<1> QED BY <1>2, <1>3

(* The key of a charge is given back by the attempt that lost its answer.  *)
LEMMA ChargesStandNext ==
    ASSUME TypeOK, InStep, OneRunner, IntentsKeyed, ChargesStand, NEW a \in Attempts, Acts(a)
    PROVE  ChargesStand'
<1> DEFINE Taken(b) == /\ keys[KeyOf(b)] # NoRow
                       /\ \A c \in Attempts : pc[c] \in Running /\ KeyOf(c) = KeyOf(b) => c = b
           Come(b) == /\ pc[b] \in {"answer", "release", "store"} \cup Final
                      /\ status[b] \in {0, 200, 502}
                      /\ status[b] = 0 => pc[b] \in {"answer", "dead"}
(* Whoever is at work after the step was before, or has just taken a key.  *)
<1>1. ASSUME NEW c \in Attempts, pc'[c] \in Running
      PROVE  /\ KeyOf(c)' = KeyOf(c) /\ Made(c)
             /\ pc[c] \in Running \/ (c = a /\ KeyTaken(a))
  <2>1. pc[c] \in Running \/ (c = a /\ KeyTaken(a))
    BY <1>1, OthersKept, Entries
  <2>2. pc[c] # "idle"
    BY <2>1 DEF Running, InHandler, KeyTaken
  <2> QED BY <2>1, <2>2, Requests, RequestsKept, ActsAreSteps
<1>2. ASSUME NEW b \in Attempts, pc[b] # "idle", Taken(b), Come(b), status[b] # 502 PROVE Taken(b)'
  <2>1. Made(b) /\ KeyOf(b) \in Keys /\ KeyOf(b)' = KeyOf(b)
    BY <1>2, Requests, RequestsKept, ActsAreSteps
  <2>2. KeyTaken(a) => KeyOf(a) # KeyOf(b)
    BY <1>2 DEF KeyTaken
  <2>3. keys'[KeyOf(b)] # NoRow
    <3>1. CASE KeyTaken(a)
      BY <1>2, <2>1, <2>2, <3>1 DEF KeyTaken, TypeOK
    <3>2. CASE KeyCompleted(a)
      <4>1. Completed(a) # NoRow
        BY <3>2, CompletedRows DEF KeyCompleted
      <4> QED BY <1>2, <2>1, <3>2, <4>1 DEF KeyCompleted, TypeOK
    <3>3. CASE KeyGivenBack(a)
      <4>1. KeyOf(a) # KeyOf(b)
        <5>1. pc[a] \in Running /\ status[a] >= 500 /\ a = b => FALSE
          BY <1>2
        <5> QED BY <1>2, <3>3, <5>1 DEF KeyGivenBack, Running
      <4> QED BY <1>2, <2>1, <3>3, <4>1 DEF KeyGivenBack, TypeOK
    <3>4. CASE KeysKept
      BY <1>2, <3>4 DEF KeysKept
    <3> QED BY <3>1, <3>2, <3>3, <3>4, KeyChanges
  <2>4. ASSUME NEW c \in Attempts, pc'[c] \in Running, KeyOf(c)' = KeyOf(b)' PROVE c = b
    BY <1>1, <1>2, <2>1, <2>2, <2>4
  <2> QED BY <2>1, <2>3, <2>4
<1>3. ASSUME NEW b \in Attempts, Come(b) PROVE Come(b)' /\ (status'[b] # 502 => status[b] # 502)
  <2>1. CASE b # a
    BY <1>3, <2>1, OthersKept
  <2>2. CASE b = a
    <3>1. ChargeAnswered(a) \/ Release(a) \/ Store(a) \/ Die(a)
      BY <1>3, <2>2
      DEF Acts, Arrive, Serve, Lookup, Handle, Reserve, ReserveUnacknowledged, Insert, KeyExists,
          ReserveFails, LoadNothing, Load, Claim, ClaimFails, ProviderCharges, ChargeRefused, Final
    <3>2. pc[a] = "answer" => status[a] = 0
      BY DEF InStep
    <3>3. pc[a] = "release" => status[a] \in {402, 502}
      BY DEF InStep
    <3> QED BY <1>3, <2>2, <3>1, <3>2, <3>3
        DEF ChargeAnswered, ChargeError, Release, Store, CompleteKey, ReleaseKey, StoreFails, Die,
            Goto, Respond, TypeOK, Final, Storable, Retryable
  <2> QED BY <2>1, <2>2
<1>4. ASSUME NEW i \in intents' PROVE Come(i.by)' /\ (status'[i.by] # 502 => Taken(i.by)')
  <2>1. CASE i \in intents
    <3>1. i.by \in Attempts /\ Come(i.by) /\ (status[i.by] # 502 => Taken(i.by))
      BY <2>1 DEF ChargesStand, TypeOK
    <3>2. pc[i.by] # "idle"
      BY <3>1 DEF Final
    <3> HIDE DEF Taken, Come
    <3> QED BY <1>2, <1>3, <3>1, <3>2
  <2>2. CASE i \notin intents
    <3>1. ProviderCharges(a) /\ i.by = a
      BY <2>2
      DEF Acts, Arrive, Serve, Lookup, Handle, Store, Reserve, ReserveUnacknowledged, Insert,
          KeyExists, ReserveFails, LoadNothing, Load, Claim, ClaimFails, ProviderCharges,
          ChargeRefused, ChargeError, ChargeAnswered, Release, CompleteKey, ReleaseKey, StoreFails,
          Die
    <3>2. pc[a] = "charge" /\ status[a] = 0 /\ pc'[a] = "answer" /\ status'[a] = 0 /\ keys' = keys
      BY <3>1 DEF ProviderCharges, InStep, TypeOK, Goto
    <3>3. Made(a) /\ KeyOf(a)' = KeyOf(a) /\ Reservation(a) # NoRow
      BY <3>2, Requests, RequestsKept, ActsAreSteps
    <3>4. keys[KeyOf(a)] = Reservation(a)
      BY <3>2 DEF OneRunner, Running, InHandler
    <3>5. ASSUME NEW c \in Attempts, pc'[c] \in Running, KeyOf(c)' = KeyOf(a)' PROVE c = a
      <4>1. pc[c] \in Running /\ Made(c) /\ KeyOf(c) = KeyOf(a)
        BY <1>1, <3>2, <3>3, <3>5 DEF KeyTaken
      <4> QED BY <3>2, <3>3, <4>1 DEF OneRunner, SameKey, Running, InHandler
    <3>6. Taken(a)'
      BY <3>2, <3>3, <3>4, <3>5
    <3> QED BY <3>1, <3>2, <3>6
  <2> QED BY <2>1, <2>2
<1> QED BY <1>4 DEF ChargesStand

-----------------------------------------------------------------------------
(* The invariant, and what follows from it.                                *)

LEMMA InvInit == Init => Inv
<1>1. Init => TypeOK
  BY TypeInit
<1>2. Init => InStep /\ OneRunner /\ Alone /\ BoughtOnce /\ RowsAreOriginal /\ ReplayIsOriginal
              /\ IntentsKeyed /\ ChargesStand
  BY DEF Init, ChargesStand, InStep, OneRunner, Alone, BoughtOnce, RowsAreOriginal, ReplayIsOriginal,
         IntentsKeyed, Running, InHandler, Final, Bought, Made, SameKey
<1> QED BY <1>1, <1>2 DEF Inv

LEMMA InvStep == Inv /\ [Next]_vars => Inv'
<1> SUFFICES ASSUME Inv, [Next]_vars PROVE Inv'
  OBVIOUS
<1>1. TypeOK' /\ InStep'
  BY TypeNext, InStepNext DEF Inv
<1>2. ASSUME NEW a \in Attempts, Acts(a) PROVE Inv'
  BY <1>1, <1>2, OneRunnerNext, AloneNext, BoughtOnceNext, RowsAreOriginalNext,
     ReplayIsOriginalNext, IntentsKeyedNext, ChargesStandNext DEF Inv
<1>3. CASE UNCHANGED vars
  <2> USE <1>3 DEF Inv, vars, Bought, SameKey, Made, KeyOf
  <2>2. OneRunner'
    BY DEF OneRunner, Reservation
  <2>3. Alone'
    BY DEF Alone
  <2>4. BoughtOnce'
    BY DEF BoughtOnce, Reservation
  <2>5. RowsAreOriginal'
    BY DEF RowsAreOriginal
  <2>6. ReplayIsOriginal'
    BY DEF ReplayIsOriginal, Paid, SameCall
  <2>7. IntentsKeyed'
    BY DEF IntentsKeyed
  <2>8. ChargesStand'
    BY DEF ChargesStand
  <2> QED BY <1>1, <2>2, <2>3, <2>4, <2>5, <2>6, <2>7, <2>8
<1> QED BY <1>2, <1>3, Steps

LEMMA Invariance == Spec => []Inv
  BY InvInit, InvStep, PTL DEF Spec

(* Every variable keeps its type.                                          *)
THEOREM KeysTyped == Spec => []TypeOK
<1>1. Inv => TypeOK
  BY DEF Inv
<1> QED BY <1>1, Invariance, PTL

(* Two attempts with one key never run the handler at the same time.       *)
THEOREM RunnersAreAlone == Spec => []OneRunner
<1>1. Inv => OneRunner
  BY DEF Inv
<1> QED BY <1>1, Invariance, PTL

(* A key never buys twice, whatever fails and however often it is retried. *)
THEOREM KeysBuyOnce == Spec => []BoughtOnce
<1>1. Inv => BoughtOnce
  BY DEF Inv
<1> QED BY <1>1, Invariance, PTL

(* A replayed answer is that of a purchase by the same caller, whose own   *)
(* money the provider took, if it looks at a repeated key's parameters.    *)
THEOREM ReplaysAreTrue == Spec => []ReplayIsOriginal
<1>1. Inv => ReplayIsOriginal
  BY DEF Inv
<1> QED BY <1>1, Invariance, PTL

(* With the caller's key forwarded, a key is charged at most once.         *)
THEOREM KeysChargeOnce == Spec => []ChargedOnce
<1>1. Inv => ChargedOnce
  BY DEF Inv, IntentsKeyed, ChargedOnce, SameKey
<1> QED BY <1>1, Invariance, PTL

-----------------------------------------------------------------------------
(* The requests are carried out once.                                      *)

(* The attempts behind the five sets of calls.                             *)
Workers == {a \in Attempts : pc[a] \in Running}
Payers == {i.by : i \in intents}
Losers == {a \in Payers : status[a] = 502}
Buyers == {a \in Attempts : Bought(a)}
ACall(a) == [by |-> a, request |-> request[a]]

(* A call is in a set of calls when its attempt is among the attempts.     *)
LEMMA CallsNamed ==
    ASSUME NEW S, NEW a
    PROVE  /\ ACall(a) \in CallsOf(S) <=> a \in S
           /\ ACall(a).by = a /\ ACall(a).request = request[a]
           /\ CallsOf(S \cup {a}) = CallsOf(S) \cup {ACall(a)}
           /\ CallsOf(S \ {a}) = CallsOf(S) \ {ACall(a)}
<1>1. \A b : ACall(b).by = b /\ ACall(b).request = request[b]
  BY DEF ACall
<1>2. CallsOf(S) = {ACall(b) : b \in S} /\ CallsOf(S \cup {a}) = {ACall(b) : b \in S \cup {a}}
      /\ CallsOf(S \ {a}) = {ACall(b) : b \in S \ {a}}
  BY DEF CallsOf, ACall
<1>3. \A b, c : ACall(b) = ACall(c) => b = c
  BY <1>1
<1> HIDE DEF ACall
<1>4. ACall(a) \in CallsOf(S) <=> a \in S
  BY <1>2, <1>3
<1>5. CallsOf(S \cup {a}) = CallsOf(S) \cup {ACall(a)}
  BY <1>2
<1>6. CallsOf(S \ {a}) = CallsOf(S) \ {ACall(a)}
  <2>1. ASSUME NEW c \in CallsOf(S), c # ACall(a) PROVE c \in CallsOf(S \ {a})
    BY <1>2, <2>1
  <2>2. ASSUME NEW c \in CallsOf(S \ {a}) PROVE c \in CallsOf(S) /\ c # ACall(a)
    BY <1>2, <1>3, <2>2
  <2> QED BY <2>1, <2>2
<1> QED BY <1>1, <1>4, <1>5, <1>6

(* The calls of attempts that were made say what they said.                *)
LEMMA CallsStay ==
    ASSUME TypeOK, [Next]_vars, NEW S, \A b \in S : b \in Attempts /\ Made(b)
    PROVE  {[by |-> b, request |-> request'[b]] : b \in S} = CallsOf(S)
<1>1. \A b \in S : request'[b] = request[b]
  BY RequestsKept
<1> QED BY <1>1 DEF CallsOf

(* Every attempt behind a call was made.                                   *)
LEMMA CallersMade ==
    ASSUME Inv
    PROVE  \A b \in Workers \cup Payers \cup Buyers \cup replayed : b \in Attempts /\ Made(b)
<1>1. ASSUME NEW b \in Workers PROVE b \in Attempts /\ Made(b)
  BY Requests DEF Inv, Workers, Running, InHandler
<1>2. ASSUME NEW b \in Payers PROVE b \in Attempts /\ Made(b)
  BY DEF Payers, Inv, TypeOK, IntentsKeyed
<1>3. ASSUME NEW b \in Buyers PROVE b \in Attempts /\ Made(b)
  BY Requests DEF Buyers, Inv, InStep, Final
<1>4. ASSUME NEW b \in replayed PROVE b \in Attempts /\ Made(b)
  BY Requests DEF Inv, TypeOK, InStep, Final
<1> QED BY <1>1, <1>2, <1>3, <1>4

(* What a step of attempt a does to the sets of attempts, but the losers.  *)
Unseen == Workers' = Workers /\ Payers' = Payers /\ Buyers' = Buyers /\ replayed' = replayed
Begins(a) ==
    /\ KeyTaken(a) /\ Workers' = Workers \cup {a}
    /\ Payers' = Payers /\ Buyers' = Buyers /\ replayed' = replayed
Charges(a) ==
    /\ a \in Workers /\ Original(a) = {} /\ Payers' = Payers \cup {a}
    /\ Workers' = Workers /\ Buyers' = Buyers /\ replayed' = replayed
Buys(a) ==
    /\ pc[a] = "answer" /\ status[a] = 0 /\ Buyers' = Buyers \cup {a}
    /\ Workers' = Workers /\ Payers' = Payers /\ replayed' = replayed
Stops(a) ==
    /\ a \in Workers /\ Workers' = Workers \ {a}
    /\ Payers' = Payers /\ Buyers' = Buyers /\ replayed' = replayed
Repeats(a) ==
    /\ pc[a] = "load" /\ status[a] = 0 /\ replayed' = replayed \cup {a} /\ a \in replayed'
    /\ Workers' = Workers /\ Payers' = Payers /\ Buyers' = Buyers

(* The money is taken by the step of the provider, and by no other.        *)
LEMMA ChargesByProvider ==
    ASSUME NEW a \in Attempts, Acts(a)
    PROVE  intents' = intents \/ (ProviderCharges(a) /\ Original(a) = {})
<1>1. CASE ProviderCharges(a)
  BY <1>1 DEF ProviderCharges, ForwardedKey
<1> QED
  BY <1>1
  DEF Acts, Arrive, Serve, Lookup, Handle, Store, Reserve, ReserveUnacknowledged, Insert,
      KeyExists, ReserveFails, LoadNothing, Load, Claim, ClaimFails,
      ChargeRefused, ChargeError, ChargeAnswered, Release, CompleteKey, ReleaseKey, StoreFails,
      Die

LEMMA StepKinds ==
    ASSUME Inv, NEW a \in Attempts, Acts(a)
    PROVE  Unseen \/ Begins(a) \/ Charges(a) \/ Buys(a) \/ Stops(a) \/ Repeats(a)
<1>0. TypeOK /\ InStep
  BY DEF Inv
(* Only a may enter or leave one of the sets.                              *)
<1>1. /\ \A b \in Attempts : b # a => /\ b \in Workers' <=> b \in Workers
                                      /\ b \in Buyers' <=> b \in Buyers
                                      /\ b \in replayed' <=> b \in replayed
      /\ Workers \subseteq Attempts /\ Workers' \subseteq Attempts
      /\ Buyers \subseteq Attempts /\ Buyers' \subseteq Attempts
      /\ replayed \subseteq Attempts
  BY <1>0, OthersKept DEF Workers, Buyers, Bought, TypeOK
<1>2. replayed' \subseteq Attempts
  BY <1>0, TypeNext, ActsAreSteps DEF Inv, TypeOK
<1>3. intents' = intents => Payers' = Payers
  BY DEF Payers
<1> USE DEF Goto, Finish, Respond, Final, Running, InHandler
<1>4. CASE \E r \in Request : Arrive(a, r)
  <2>1. pc[a] = "idle" /\ pc'[a] = "reserve" /\ status'[a] = status[a]
        /\ replayed' = replayed /\ intents' = intents
    BY <1>0, <1>4 DEF Arrive, TypeOK
  <2> QED BY <1>1, <1>3, <2>1 DEF Unseen, Workers, Buyers, Bought
<1>5. CASE Reserve(a)
  <2>0. KeyTaken(a)
    BY <1>0, <1>5, KeyTakings
  <2>1. KeyTaken(a) /\ pc[a] = "reserve" /\ pc'[a] = "claim" /\ status' = status
        /\ replayed' = replayed /\ intents' = intents
    BY <1>0, <1>5, <2>0 DEF Reserve, Insert, TypeOK
  <2>2. Workers' = Workers \cup {a} /\ Buyers' = Buyers
    BY <1>1, <2>1 DEF Workers, Buyers, Bought
  <2> QED BY <1>3, <2>1, <2>2 DEF Begins
<1>6. CASE ReserveUnacknowledged(a) \/ KeyExists(a) \/ ReserveFails(a) \/ LoadNothing(a)
  <2>1. /\ pc[a] \notin Running /\ pc'[a] \notin Running /\ status[a] # 200 /\ status'[a] # 200
        /\ replayed' = replayed /\ intents' = intents
    BY <1>0, <1>6 DEF ReserveUnacknowledged, Insert, KeyExists, ReserveFails, LoadNothing,
                      TypeOK, InStep
  <2> QED BY <1>1, <1>3, <2>1 DEF Unseen, Workers, Buyers, Bought
<1>7. CASE Load(a)
  <2>1. /\ pc[a] = "load" /\ pc'[a] = "done" /\ status[a] = 0 /\ intents' = intents
    BY <1>0, <1>7 DEF Load, TypeOK, InStep
  <2>2. \/ replayed' = replayed /\ status'[a] # 200
        \/ replayed' = replayed \cup {a}
    BY <1>0, <1>7 DEF Load, TypeOK
  <2>3. Workers' = Workers /\ Buyers' = Buyers
    BY <1>1, <2>1, <2>2 DEF Workers, Buyers, Bought
  <2> QED BY <1>3, <2>1, <2>2, <2>3 DEF Unseen, Repeats
<1>8. CASE Handle(a)
  <2>1. /\ pc[a] \in InHandler /\ pc'[a] \in Running /\ replayed' = replayed
    BY <1>0, <1>8 DEF Handle, Claim, ClaimFails, ProviderCharges, ChargeRefused, ChargeError,
                      ChargeAnswered, Release, TypeOK
  <2>2. Workers' = Workers /\ a \in Workers
    BY <1>1, <2>1 DEF Workers
  <2>3. CASE ProviderCharges(a)
    <3>1. Buyers' = Buyers
      BY <2>3, <2>1 DEF ProviderCharges, Buyers, Bought
    <3>2. intents' # intents => Payers' = Payers \cup {a} /\ Original(a) = {}
      <4> DEFINE new == [key |-> KeyOf(a), by |-> a]
      <4>1. intents' # intents => Original(a) = {} /\ intents' = intents \cup {new}
        BY <2>3, Zenon DEF ProviderCharges, ForwardedKey
      <4>2. new.by = a
        OBVIOUS
      <4> HIDE DEF new
      <4> QED BY <4>1, <4>2 DEF Payers
    <3> QED BY <1>3, <2>1, <2>2, <3>1, <3>2 DEF Unseen, Charges
  <2>4. CASE ~ProviderCharges(a)
    <3>1. intents' = intents
      BY <2>4, ChargesByProvider
    <3>2. \/ Bought(a)' <=> Bought(a)
          \/ pc[a] = "answer" /\ status[a] = 0 /\ Bought(a)'
      BY <1>0, <1>8, <2>4 DEF Handle, Claim, ClaimFails, ChargeRefused, ChargeError,
                              ChargeAnswered, Release, TypeOK, InStep, Bought
    <3>3. Buyers' = Buyers
          \/ (pc[a] = "answer" /\ status[a] = 0 /\ Buyers' = Buyers \cup {a})
      BY <1>1, <3>2 DEF Buyers
    <3> QED BY <1>3, <2>1, <2>2, <3>1, <3>3 DEF Unseen, Buys
  <2> QED BY <2>3, <2>4
<1>9. CASE Store(a) \/ Die(a)
  <2>1. /\ pc'[a] \in Final /\ status' = status /\ replayed' = replayed /\ intents' = intents
    BY <1>0, <1>9 DEF Store, CompleteKey, ReleaseKey, StoreFails, Die, TypeOK
  <2>2. Buyers' = Buyers
    BY <2>1 DEF Buyers, Bought
  <2>3. Workers' = Workers \ {a}
    BY <1>1, <2>1 DEF Workers
  <2> QED BY <1>3, <2>1, <2>2, <2>3 DEF Unseen, Stops
<1> QED BY <1>4, <1>5, <1>6, <1>7, <1>8, <1>9 DEF Acts, Serve, Lookup

(* The losers change by an answer that is lost to an attempt that charged, *)
(* and then nothing else does.                                             *)
Loses(a) ==
    /\ a \in Workers /\ a \in Payers /\ a \notin Buyers /\ Losers' = Losers \cup {a}
    /\ Workers' = Workers /\ Payers' = Payers /\ Buyers' = Buyers /\ replayed' = replayed

LEMMA LosersMove ==
    ASSUME Inv, NEW a \in Attempts, Acts(a)
    PROVE  Losers' = Losers \/ Loses(a)
<1>0. TypeOK /\ InStep /\ ChargesStand
  BY DEF Inv
<1>1. \A b \in Attempts \ {a} : pc'[b] = pc[b] /\ status'[b] = status[b]
  BY <1>0, OthersKept
<1>2. /\ Payers \subseteq Attempts
      /\ \A b \in Payers : pc[b] \in {"answer", "release", "store"} \cup Final
  BY <1>0 DEF Payers, ChargesStand, TypeOK
<1>20. \A b \in Payers \ {a} : status'[b] = status[b]
  <2> SUFFICES ASSUME NEW b \in Payers \ {a} PROVE status'[b] = status[b]
    OBVIOUS
  <2>1. b \in Attempts \ {a}
    BY <1>2
  <2> QED BY <1>1, <2>1
<1>3. CASE ProviderCharges(a)
  <2>1. status' = status /\ status[a] = 0
    BY <1>0, <1>3 DEF ProviderCharges, InStep
  <2>2. Payers' \ {a} = Payers \ {a}
    <3>1. intents \subseteq intents' /\ \A i \in intents' \ intents : i.by = a
      BY <1>3 DEF ProviderCharges
    <3> QED BY <3>1 DEF Payers
  <2>3. \A b : b \in Losers' <=> b \in Losers
    BY <2>1, <2>2 DEF Losers
  <2> QED BY <2>3
<1>4. ASSUME Payers' = Payers, a \in Payers => (status'[a] = 502 <=> status[a] = 502)
      PROVE  Losers' = Losers
  <2>1. \A b \in Payers : status'[b] = 502 <=> status[b] = 502
    BY <1>20, <1>4
  <2> QED BY <1>4, <2>1 DEF Losers
<1>5. CASE ~ProviderCharges(a)
  <2>1. Payers' = Payers
    BY <1>5, ChargesByProvider DEF Payers
  <2>2. CASE a \notin Payers
    BY <1>4, <2>1, <2>2
  <2>3. CASE a \in Payers /\ ChargeAnswered(a)
    <3>1. /\ pc[a] = "answer" /\ status[a] = 0 /\ replayed' = replayed
      BY <1>0, <2>3 DEF ChargeAnswered, ChargeError, InStep
    <3>2. CASE ChargeError(a, 502)
      <4>1. pc'[a] = "release" /\ status'[a] = 502
        BY <1>0, <2>3, <3>2 DEF ChargeError, Goto, TypeOK
      <4>2. a \in Workers /\ a \notin Buyers
        BY <3>1 DEF Workers, Running, InHandler, Buyers, Bought
      <4>3. Workers' = Workers
        <5>1. \A b \in Attempts : pc'[b] \in Running <=> pc[b] \in Running
          BY <1>1, <3>1, <4>1 DEF Running, InHandler
        <5> QED BY <5>1 DEF Workers
      <4>4. Buyers' = Buyers
        <5>1. \A b \in Attempts : Bought(b)' <=> Bought(b)
          BY <1>1, <3>1, <4>1 DEF Bought
        <5> QED BY <5>1 DEF Buyers
      <4>5. \A b \in Payers \cup {a} : status'[b] = 502 <=> status[b] = 502 \/ b = a
        BY <1>20, <4>1
      <4>6. Losers' = Losers \cup {a}
        BY <2>1, <2>3, <4>5 DEF Losers
      <4> QED BY <2>1, <2>3, <3>1, <4>2, <4>3, <4>4, <4>6 DEF Loses
    <3>3. CASE Respond(a, 200)
      <4>1. status'[a] = 200
        BY <1>0, <2>3, <3>3 DEF Respond, TypeOK
      <4> QED BY <1>4, <2>1, <3>1, <4>1
    <3> QED BY <2>3, <3>2, <3>3 DEF ChargeAnswered
  <2>4. CASE a \in Payers /\ ~ChargeAnswered(a)
    <3>1. pc[a] \in {"answer", "release", "store"} \cup Final
      BY <1>2, <2>4
    <3>2. CASE Release(a) \/ Store(a) \/ Die(a)
      BY <1>4, <2>1, <3>2 DEF Release, Store, CompleteKey, ReleaseKey, StoreFails, Die
    <3>3. CASE ~(Release(a) \/ Store(a) \/ Die(a))
      BY <1>5, <2>4, <3>1, <3>3
      DEF Acts, Arrive, Serve, Lookup, Handle, Reserve, ReserveUnacknowledged, Insert,
          KeyExists, ReserveFails, LoadNothing, Load, Claim, ClaimFails, ChargeRefused, Final
    <3> QED BY <3>2, <3>3
  <2> QED BY <2>2, <2>3, <2>4
<1> QED BY <1>3, <1>5

(* A step that enters, leaves or joins a set of attempts does the same to  *)
(* the set of their calls.                                                 *)
LEMMA CallsMove ==
    ASSUME Inv, [Next]_vars, NEW a \in Attempts
    PROVE  /\ Workers' = Workers => CallsOf(Workers)' = CallsOf(Workers)
           /\ Payers' = Payers => CallsOf(Payers)' = CallsOf(Payers)
           /\ Buyers' = Buyers => CallsOf(Buyers)' = CallsOf(Buyers)
           /\ replayed' = replayed => CallsOf(replayed)' = CallsOf(replayed)
           /\ Losers' = Losers => CallsOf(Losers)' = CallsOf(Losers)
           /\ Made(a) =>
                /\ Workers' = Workers \cup {a} =>
                        CallsOf(Workers)' = CallsOf(Workers) \cup {ACall(a)}
                /\ Workers' = Workers \ {a} =>
                        CallsOf(Workers)' = CallsOf(Workers) \ {ACall(a)}
                /\ Payers' = Payers \cup {a} =>
                        CallsOf(Payers)' = CallsOf(Payers) \cup {ACall(a)}
                /\ Buyers' = Buyers \cup {a} =>
                        CallsOf(Buyers)' = CallsOf(Buyers) \cup {ACall(a)}
                /\ replayed' = replayed \cup {a} =>
                        CallsOf(replayed)' = CallsOf(replayed) \cup {ACall(a)}
                /\ Losers' = Losers \cup {a} =>
                        CallsOf(Losers)' = CallsOf(Losers) \cup {ACall(a)}
<1> DEFINE Rec(S) == {[by |-> b, request |-> request'[b]] : b \in S}
           OfMade(S) == \A b \in S : b \in Attempts /\ Made(b)
<1>0. TypeOK
  BY DEF Inv
<1>1. \A S : OfMade(S) => Rec(S) = CallsOf(S)
  BY <1>0, CallsStay
<1>2. /\ CallsOf(Workers)' = Rec(Workers') /\ CallsOf(Payers)' = Rec(Payers')
      /\ CallsOf(Buyers)' = Rec(Buyers') /\ CallsOf(replayed)' = Rec(replayed')
      /\ CallsOf(Losers)' = Rec(Losers')
  BY DEF CallsOf
<1>3. /\ OfMade(Workers) /\ OfMade(Payers) /\ OfMade(Buyers) /\ OfMade(replayed)
      /\ OfMade(Losers)
  BY CallersMade DEF Losers
<1>4. \A S : OfMade(S) /\ Made(a) =>
            /\ OfMade(S \cup {a}) /\ OfMade(S \ {a})
            /\ CallsOf(S \cup {a}) = CallsOf(S) \cup {ACall(a)}
            /\ CallsOf(S \ {a}) = CallsOf(S) \ {ACall(a)}
  BY CallsNamed
<1> HIDE DEF Rec, OfMade
<1> QED BY <1>1, <1>2, <1>3, <1>4

(* The steps of the two layers are steps of OnceByKey.                     *)
LEMMA OnceInit == Init => Once!Init
  BY DEF Init, Once!Init, CallsOf, Running, InHandler, Bought

LEMMA OnceStep == Inv /\ Inv' /\ [Next]_vars => [Once!Next]_Once!vars
<1> SUFFICES ASSUME Inv, Inv', [Next]_vars PROVE Once!Next \/ UNCHANGED Once!vars
  OBVIOUS
<1>0. /\ TypeOK /\ InStep /\ OneRunner /\ Alone /\ BoughtOnce /\ IntentsKeyed /\ ChargesStand
      /\ ReplayIsOriginal'
  BY DEF Inv
<1>1. ASSUME UNCHANGED vars PROVE UNCHANGED Once!vars
  BY <1>1 DEF vars, Once!vars, CallsOf, Bought
<1> SUFFICES ASSUME NEW a \in Attempts, Acts(a) PROVE Once!Next \/ UNCHANGED Once!vars
  BY <1>1, Steps
<1> DEFINE w == CallsOf(Workers)
           p == CallsOf(Payers)
           l == CallsOf(Losers)
           b == CallsOf(Buyers)
           r == CallsOf(replayed)
           c == ACall(a)
<1>2. ASSUME Unseen, Losers' = Losers PROVE UNCHANGED Once!vars
  <2>1. w' = w /\ p' = p /\ l' = l /\ b' = b /\ r' = r
    BY <1>2, CallsMove DEF Unseen
  <2> QED BY <2>1 DEF Once!vars, Workers, Payers, Losers, Buyers
(* When a's request is made, its call is one of the calls; and the calls   *)
(* of a set that share its key are those of the attempts that do.          *)
<1>3. ASSUME pc[a] # "idle" PROVE Made(a) /\ c \in Once!Calls /\ c.request.key = KeyOf(a)
  <2>1. Made(a) /\ request[a] \in Request
    BY <1>0, <1>3, Requests
  <2> QED BY <2>1 DEF ACall, Once!Calls, KeyOf
<1>4. ASSUME pc[a] # "idle", NEW S,
             \A d \in S : d \in Attempts /\ Made(d) /\ KeyOf(d) # KeyOf(a)
      PROVE  ~Once!OfKey(CallsOf(S), c)
  BY <1>3, <1>4 DEF Once!OfKey, CallsOf, KeyOf
<1>5. ASSUME pc[a] # "idle", NEW S, NEW d \in S, KeyOf(d) = KeyOf(a)
      PROVE  Once!OfKey(CallsOf(S), c)
  <2>1. ACall(d) \in CallsOf(S) /\ ACall(d).request = request[d]
    BY CallsNamed
  <2> QED BY <1>3, <1>5, <2>1 DEF Once!OfKey, KeyOf
<1>6. ASSUME Begins(a), Losers' = Losers PROVE Once!Begin(c)
  <2>0. pc[a] = "reserve" /\ keys[KeyOf(a)] = NoRow
    BY <1>6 DEF Begins, KeyTaken
  <2>01. w' = w \cup {c} /\ p' = p /\ l' = l /\ b' = b /\ r' = r
    BY <1>3, <1>6, <2>0, CallsMove DEF Begins
  <2>1. /\ pc[a] = "reserve" /\ keys[KeyOf(a)] = NoRow
        /\ w' = w \cup {c} /\ p' = p /\ l' = l /\ b' = b /\ r' = r
    BY <2>0, <2>01
  <2>2. \A d \in Workers : KeyOf(d) # KeyOf(a)
    BY <1>0, <2>1, Requests DEF Workers, OneRunner, Running, InHandler
  <2>3. \A d \in Buyers : KeyOf(d) # KeyOf(a)
    <3> SUFFICES ASSUME NEW d \in Buyers PROVE keys[KeyOf(d)] # NoRow
      BY <2>1
    <3>1. d \in Attempts /\ Made(d) /\ Bought(d) /\ pc[d] # "idle"
      BY <1>0, CallersMade DEF Buyers, TypeOK, Made
    <3> QED BY <1>0, <3>1, BoughtRows, Requests, CompletedRows
  <2>4. ~Once!OfKey(w, c) /\ ~Once!OfKey(b, c)
    BY <1>4, <2>1, <2>2, <2>3, CallersMade
  <2>5. \A d \in Payers \ Losers : KeyOf(d) # KeyOf(a)
    BY <1>0, <2>1 DEF Payers, Losers, ChargesStand
  <2>6. ~Once!OfKey(CallsOf(Payers \ Losers), c)
    BY <1>4, <2>1, <2>5, CallersMade
  <2>7. p \ l \subseteq CallsOf(Payers \ Losers)
    <3> SUFFICES ASSUME NEW d \in p, d \notin l PROVE d \in CallsOf(Payers \ Losers)
      OBVIOUS
    <3>1. PICK e \in Payers : d = ACall(e)
      BY DEF CallsOf, ACall
    <3>2. e \notin Losers
      BY <3>1, CallsNamed
    <3> QED BY <3>1, <3>2, CallsNamed
  <2>8. ~Once!OfKey(p \ l, c)
    BY <2>6, <2>7 DEF Once!OfKey
  <2> QED BY <2>1, <2>4, <2>8 DEF Once!Begin, Workers, Payers, Losers, Buyers
<1>7. ASSUME Charges(a), Losers' = Losers PROVE Once!Charge(c)
  <2>1. pc[a] # "idle"
    BY <1>7 DEF Charges, Workers, Running, InHandler
  <2>2. /\ c \in w /\ p' = p \cup {c} /\ w' = w /\ l' = l /\ b' = b /\ r' = r
    BY <1>3, <1>7, <2>1, CallsMove, CallsNamed DEF Charges
  <2>3. \A d \in Payers : KeyOf(d) # KeyOf(a)
    BY <1>0, <1>7 DEF Charges, Original, ForwardedKey, IntentsKeyed, Payers
  <2>4. ~Once!OfKey(p, c)
    BY <1>4, <2>1, <2>3, CallersMade
  <2> QED BY <2>2, <2>4 DEF Once!Charge, Workers, Payers, Losers, Buyers
<1>8. ASSUME Buys(a), Losers' = Losers PROVE Once!Buy(c)
  <2>1. pc[a] = "answer" /\ status[a] = 0 /\ a \in Workers
    BY <1>8 DEF Buys, Workers, Running, InHandler
  <2>2. /\ c \in w /\ b' = b \cup {c} /\ w' = w /\ p' = p /\ l' = l /\ r' = r
    BY <1>3, <1>8, <2>1, CallsMove, CallsNamed DEF Buys
  <2>3. \E d \in Payers : KeyOf(d) = KeyOf(a)
    BY <1>0, <2>1 DEF InStep, Paid, IntentsKeyed, Payers
  <2>4. \A d \in Buyers : KeyOf(d) # KeyOf(a)
    <3> SUFFICES ASSUME NEW d \in Buyers, KeyOf(d) = KeyOf(a) PROVE FALSE
      OBVIOUS
    <3>1. d \in Attempts /\ Made(d) /\ Bought(d)
      BY CallersMade DEF Buyers
    <3>2. d = a
      BY <1>0, <1>3, <2>1, <3>1 DEF Alone, SameKey, Running, InHandler
    <3> QED BY <2>1, <3>1, <3>2 DEF Bought
  <2>5. Once!OfKey(p, c) /\ ~Once!OfKey(b, c)
    BY <1>4, <1>5, <2>1, <2>3, <2>4, CallersMade
  <2>6. c \notin l
    <3>1. a \notin Losers
      BY <2>1 DEF Losers
    <3> QED BY <3>1, CallsNamed
  <2> QED BY <2>2, <2>5, <2>6 DEF Once!Buy, Workers, Payers, Losers, Buyers
<1>9. ASSUME Stops(a), Losers' = Losers PROVE Once!Stop(c)
  <2>1. pc[a] # "idle"
    BY <1>9 DEF Stops, Workers, Running, InHandler
  <2>2. /\ c \in w /\ w' = w \ {c} /\ p' = p /\ l' = l /\ b' = b /\ r' = r
    BY <1>3, <1>9, <2>1, CallsMove, CallsNamed DEF Stops
  <2> QED BY <2>2 DEF Once!Stop, Workers, Payers, Losers, Buyers
<1>10. ASSUME Repeats(a), Losers' = Losers PROVE Once!Repeat(c)
  <2>1. pc[a] = "load" /\ status[a] = 0 /\ a \in replayed'
    BY <1>10 DEF Repeats
  <2>2. /\ r' = r \cup {c} /\ w' = w /\ p' = p /\ l' = l /\ b' = b
    BY <1>3, <1>10, <2>1, CallsMove DEF Repeats
  <2>3. c \notin b
    <3>1. a \notin Buyers
      BY <2>1 DEF Buyers, Bought
    <3> QED BY <3>1, CallsNamed
  <2>4. PICK d \in Attempts : request'[d] = request'[a] /\ Bought(d)' /\ pc'[d] = "done"
    BY <1>0, <2>1 DEF ReplayIsOriginal
  <2>5. d \in Buyers /\ d \notin Workers
    BY <1>10, <2>4 DEF Repeats, Buyers, Workers, Running, InHandler
  <2>6. request[d] = request[a]
    BY <1>0, <1>3, <2>1, <2>4, <2>5, CallersMade, RequestsKept
  <2>7. ACall(d) \in b \ w /\ ACall(d).request = c.request
    BY <2>5, <2>6, CallsNamed
  <2>8. \E e \in b \ w : e.request = c.request
    BY <2>7
  <2> QED BY <2>2, <2>3, <2>8 DEF Once!Repeat, Workers, Payers, Losers, Buyers
<1>11. ASSUME Loses(a) PROVE Once!Lose(c)
  <2>1. pc[a] # "idle"
    BY <1>11 DEF Loses, Workers, Running, InHandler
  <2>2. /\ c \in w \cap p /\ c \notin b /\ l' = l \cup {c}
        /\ w' = w /\ p' = p /\ b' = b /\ r' = r
    BY <1>3, <1>11, <2>1, CallsMove, CallsNamed DEF Loses
  <2> QED BY <2>2 DEF Once!Lose, Workers, Payers, Losers, Buyers
<1>12. ASSUME Begins(a) \/ Charges(a) \/ Buys(a) \/ Stops(a) \/ Repeats(a) \/ Loses(a)
       PROVE  c \in Once!Calls
  <2>1. pc[a] # "idle"
    BY <1>12 DEF Begins, KeyTaken, Charges, Buys, Stops, Repeats, Loses, Workers, Running, InHandler
  <2> QED BY <1>3, <2>1
<1> HIDE DEF c
<1> QED BY <1>2, <1>6, <1>7, <1>8, <1>9, <1>10, <1>11, <1>12, StepKinds, LosersMove DEF Once!Next

(* Whatever fails and whoever repeats what, the two layers do no more than *)
(* OnceByKey allows.                                                       *)
THEOREM RequestsRunOnce == Spec => RunsOnce
  BY OnceInit, OnceStep, Invariance, PTL DEF Spec, RunsOnce, Once!Spec
=============================================================================
