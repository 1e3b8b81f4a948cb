-------------------------- MODULE IdempotencyKeys --------------------------
(***************************************************************************)
(* Repeated purchase requests: idempotency/middleware.go over the table    *)
(* idempotency_keys (layer one), and the same key forwarded to the payment *)
(* provider (layer two).  An attempt is one HTTP request that carries a    *)
(* key; a client may send as many as it likes, and several at a time.  Of  *)
(* PurchaseTicket, which the middleware wraps, only what the two layers    *)
(* have to guard is kept: the money, and the answer.  The seats are in     *)
(* TicketSales: a later claim, release or cancellation may take the one    *)
(* that an attempt has bought.                                             *)
(***************************************************************************)
EXTENDS Naturals

CONSTANTS
    Attempts,  \* requests with the header Idempotency-Key
    Keys,      \* values of the header
    Users,     \* callers
    Bodies,    \* request bodies, as far as their hashes tell them apart
    NoRow,     \* no row for a key
    NoRequest, \* the attempt has not been made
    Faults,    \* the kinds of failure that may happen
    ParamsChecked \* TRUE: a provider that refuses a key with other parameters

FaultKinds ==
    { "soldout",  \* no seat is left
      "decline",  \* the card is refused
      "outage",   \* the provider is not reached
      "lost",     \* the provider acts and its answer does not arrive
      "mismatch", \* the provider refuses a known key, which comes with another seat
      "database", \* a statement is not carried out (also: client gone, context cancelled)
      "commit",   \* it is carried out and reported as failed
      "crash" }   \* the process that serves the attempt dies

ASSUME KeysAssumption ==
    /\ NoRequest \notin [key : Keys, user : Users, body : Bodies]
    /\ NoRow \notin [user : Users, body : Bodies, status : Nat]
    /\ Faults \subseteq FaultKinds
    /\ ParamsChecked \in BOOLEAN

VARIABLES
    keys,     \* keys[k]: the row of key k; status 0 is SQL NULL
    request,  \* request[a]: what attempt a carries
    pc,       \* where each attempt stands
    status,   \* the HTTP status it answers, or is bound to answer
    replayed, \* the attempts answered with a stored response
    intents   \* the charges the provider carried out: their key and attempt

vars == <<keys, request, pc, status, replayed, intents>>

Final == {"done", "dead"}
InHandler == {"claim", "charge", "answer", "release"}
Running == InHandler \cup {"store"}

KeyOf(a) == request[a].key
Reservation(a) == [user |-> request[a].user, body |-> request[a].body, status |-> 0]

Init ==
    /\ keys = [k \in Keys |-> NoRow]
    /\ request = [a \in Attempts |-> NoRequest]
    /\ pc = [a \in Attempts |-> "idle"]
    /\ status = [a \in Attempts |-> 0]
    /\ replayed = {}
    /\ intents = {}

-----------------------------------------------------------------------------
Goto(a, place) == pc' = [pc EXCEPT ![a] = place]
Finish(a, code) == Goto(a, "done") /\ status' = [status EXCEPT ![a] = code]
Respond(a, code) == Goto(a, "store") /\ status' = [status EXCEPT ![a] = code]

Arrive(a, r) ==
    /\ pc[a] = "idle"
    /\ request' = [request EXCEPT ![a] = r]
    /\ Goto(a, "reserve")
    /\ UNCHANGED <<keys, status, replayed, intents>>

(* ReserveKey: the INSERT, and the SELECT that follows a unique violation.  *)

\* The primary key is free.  Faulty variant: the INSERT is an upsert.
Insertable_Upsert(k) == k \in Keys
Insertable(k) == keys[k] = NoRow

Insert(a) ==
    /\ pc[a] = "reserve"
    /\ Insertable(KeyOf(a))
    /\ keys' = [keys EXCEPT ![KeyOf(a)] = Reservation(a)]
    /\ UNCHANGED <<request, replayed, intents>>

Reserve(a) == Insert(a) /\ Goto(a, "claim") /\ UNCHANGED status

\* Nobody will ever complete or release this row.
ReserveUnacknowledged(a) == "commit" \in Faults /\ Insert(a) /\ Finish(a, 500)

KeyExists(a) ==
    /\ pc[a] = "reserve"
    /\ ~Insertable(KeyOf(a))
    /\ Goto(a, "load")
    /\ UNCHANGED <<keys, request, status, replayed, intents>>

\* The INSERT or the SELECT fails.
ReserveFails(a) ==
    /\ "database" \in Faults
    /\ pc[a] \in {"reserve", "load"}
    /\ Finish(a, 500)
    /\ UNCHANGED <<keys, request, replayed, intents>>

\* LoadKey's WHERE.  Faulty variant: not scoped by user_id.
Loadable_AnyUser(a) == keys[KeyOf(a)] # NoRow
Loadable(a) == keys[KeyOf(a)] # NoRow /\ keys[KeyOf(a)].user = request[a].user

\* Another caller's key, or one released since the INSERT: LoadKey finds no row,
\* and Middleware takes that for a failure.
LoadNothing(a) ==
    /\ pc[a] = "load"
    /\ ~Loadable(a)
    /\ Finish(a, 500)
    /\ UNCHANGED <<keys, request, replayed, intents>>

\* The key is the caller's: another body, still in progress, or answered.
Load(a) ==
    LET row == keys[KeyOf(a)]
        same == row.body = request[a].body
    IN  /\ pc[a] = "load"
        /\ Loadable(a)
        /\ \/ ~same /\ Finish(a, 422) /\ UNCHANGED replayed
           \/ same /\ row.status = 0 /\ Finish(a, 409) /\ UNCHANGED replayed
           \/ same /\ row.status > 0 /\ Finish(a, row.status)
                                     /\ replayed' = replayed \cup {a}
        /\ UNCHANGED <<keys, request, intents>>

-----------------------------------------------------------------------------
(* next.ServeHTTP: PurchaseTicket.                                         *)

\* The claim transaction commits; an error for a commit that was applied is a 500.
Claim(a) ==
    /\ pc[a] = "claim"
    /\ \/ Goto(a, "charge") /\ UNCHANGED status
       \/ "commit" \in Faults /\ Respond(a, 500)
    /\ UNCHANGED <<keys, request, replayed, intents>>

ClaimFails(a) ==
    /\ pc[a] = "claim"
    /\ \/ "soldout" \in Faults /\ Respond(a, 409)
       \/ "database" \in Faults /\ Respond(a, 500)
    /\ UNCHANGED <<keys, request, replayed, intents>>

\* The key that Charge forwards to the provider.  Faulty variant: one that is
\* made up for each attempt.
ForwardedKey_Fresh(a) == a
ForwardedKey(a) == KeyOf(a)

\* The charge that the provider knows by this key, and whether it was made for the
\* same caller and body: user_id and payment method are among its parameters.
Original(a) == {i \in intents : i.key = ForwardedKey(a)}
SameCall(i, a) ==
    request[i.by].user = request[a].user /\ request[i.by].body = request[a].body
Accepted(a) == ParamsChecked => \A i \in Original(a) : SameCall(i, a)

\* The provider answers a key it knows with the charge it made for it.
ProviderCharges(a) ==
    /\ pc[a] = "charge"
    /\ Accepted(a)
    /\ intents' = IF Original(a) # {} THEN intents
                  ELSE intents \cup {[key |-> ForwardedKey(a), by |-> a]}
    /\ Goto(a, "answer")
    /\ UNCHANGED <<keys, request, status, replayed>>

\* Charge returned an error: the seat is released before code is answered.
ChargeError(a, code) ==
    /\ Goto(a, "release")
    /\ status' = [status EXCEPT ![a] = code]
    /\ UNCHANGED <<keys, request, replayed, intents>>

ChargeRefused(a) ==
    /\ pc[a] = "charge"
    /\ \/ "decline" \in Faults /\ ChargeError(a, 402)
       \/ "outage" \in Faults /\ ChargeError(a, 502)
       \/ /\ Original(a) # {}
          /\ "mismatch" \in Faults \/ ~Accepted(a)
          /\ ChargeError(a, 502)

ChargeAnswered(a) ==
    /\ pc[a] = "answer"
    /\ \/ Respond(a, 200) /\ UNCHANGED <<keys, request, replayed, intents>>
       \/ "lost" \in Faults /\ ChargeError(a, 502)

\* releaseAfterFailedCharge: a failure of its own is only logged, so that the answer
\* is the same and a retry may take a second seat.
Release(a) ==
    /\ pc[a] = "release"
    /\ Goto(a, "store")
    /\ UNCHANGED <<keys, request, status, replayed, intents>>

-----------------------------------------------------------------------------
(* run: CompleteKey or ReleaseKey, by the status of the response.          *)

\* response_body is JSONB: only the answer 200 has a body the column accepts;
\* http.Error writes plain text.  Faulty variant: the column takes any text, so that
\* a rejection is stored, and replayed as if it were JSON.
Storable_Any(code) == code > 0
Storable(code) == code = 200

\* Faulty variant: every answer gives the key back.
Retryable_Always(code) == code > 0
Retryable(code) == code >= 500

CompleteKey(a) ==
    /\ pc[a] = "store"
    /\ ~Retryable(status[a]) /\ Storable(status[a])
    /\ keys' = [keys EXCEPT ![KeyOf(a)].status = status[a]]
    /\ Goto(a, "done")
    /\ UNCHANGED <<request, status, replayed, intents>>

\* DELETE ... WHERE response_status IS NULL.
ReleaseKey(a) ==
    /\ pc[a] = "store"
    /\ Retryable(status[a])
    /\ keys' = IF keys[KeyOf(a)] # NoRow /\ keys[KeyOf(a)].status = 0
                 THEN [keys EXCEPT ![KeyOf(a)] = NoRow] ELSE keys
    /\ Goto(a, "done")
    /\ UNCHANGED <<request, status, replayed, intents>>

\* The statement fails and is logged: the row stays as it was reserved.
StoreFails(a) ==
    /\ pc[a] = "store"
    /\ "database" \in Faults \/ ~(Retryable(status[a]) \/ Storable(status[a]))
    /\ Goto(a, "done")
    /\ UNCHANGED <<keys, request, status, replayed, intents>>

Die(a) ==
    /\ "crash" \in Faults
    /\ pc[a] \notin Final \cup {"idle"}
    /\ Goto(a, "dead")
    /\ UNCHANGED <<keys, request, status, replayed, intents>>

-----------------------------------------------------------------------------
Lookup(a) ==
    \/ Reserve(a) \/ ReserveUnacknowledged(a) \/ KeyExists(a) \/ ReserveFails(a)
    \/ LoadNothing(a) \/ Load(a)
Handle(a) ==
    \/ Claim(a) \/ ClaimFails(a)
    \/ ProviderCharges(a) \/ ChargeRefused(a) \/ ChargeAnswered(a) \/ Release(a)
Store(a) == CompleteKey(a) \/ ReleaseKey(a) \/ StoreFails(a)
Serve(a) == Lookup(a) \/ Handle(a) \/ Store(a)

Quiet ==
    /\ \A a \in Attempts : pc[a] \in Final
    /\ UNCHANGED vars

Next ==
    \/ \E a \in Attempts, r \in [key : Keys, user : Users, body : Bodies] : Arrive(a, r)
    \/ \E a \in Attempts : Serve(a) \/ Die(a)
    \/ Quiet

Spec == Init /\ [][Next]_vars

-----------------------------------------------------------------------------
(* Properties.                                                             *)

Request == [key : Keys, user : Users, body : Bodies]
KeyRow == [user : Users, body : Bodies, status : {0, 200}]

\* Every variable has its type, and exactly the attempts made carry a request.
TypeOK ==
    /\ keys \in [Keys -> KeyRow \cup {NoRow}]
    /\ request \in [Attempts -> Request \cup {NoRequest}]
    /\ pc \in [Attempts -> {"idle", "reserve", "load"} \cup Running \cup Final]
    /\ \A a \in Attempts : pc[a] = "idle" <=> request[a] = NoRequest
    /\ status \in [Attempts -> {0, 200, 402, 409, 422, 500, 502}]
    /\ replayed \subseteq Attempts
    /\ intents \subseteq [key : Keys, by : Attempts]

Made(a) == request[a] # NoRequest
SameKey(a, b) == Made(a) /\ Made(b) /\ KeyOf(a) = KeyOf(b)

\* "The original attempt is still running": while an attempt runs the handler,
\* and until its answer is recorded, no other attempt with its key does, and the
\* row of the key is its own reservation.  About ReserveKey running on the pool.
OneRunner ==
    \A a \in Attempts : pc[a] \in Running =>
        /\ keys[KeyOf(a)] = Reservation(a)
        /\ \A b \in Attempts : SameKey(a, b) /\ pc[b] \in Running => a = b

\* The attempts whose own run of the handler was answered with success.
Bought(a) == status[a] = 200 /\ a \notin replayed

\* A key buys once: whatever failed or was retried, at most one attempt of a key
\* ran the handler to success; the key is never free again, and the row, once it
\* is complete, is that attempt's.
BoughtOnce ==
    \A a \in Attempts : Made(a) /\ Bought(a) =>
        /\ \A b \in Attempts : SameKey(a, b) /\ Bought(b) => a = b
        /\ keys[KeyOf(a)] \in {Reservation(a), [Reservation(a) EXCEPT !.status = 200]}

\* The provider took money under the key of attempt a, and where it looks at the
\* parameters, the money of a's caller for what a asks for.
Paid(a) == \E i \in intents : i.key = KeyOf(a) /\ (ParamsChecked => SameCall(i, a))

\* A replayed answer is true: the same caller sent the same body with the same key, was
\* answered with success, and was charged for that very body, also where the key was
\* given back in between and others have used it.
ReplayIsOriginal ==
    \A a \in replayed : \E b \in Attempts :
        /\ request[b] = request[a]
        /\ Bought(b) /\ pc[b] = "done" /\ status[a] = 200
        /\ Paid(b)

\* Layer two: however often the handler runs for a key, after answers lost,
\* failed releases and crashes, its customer is charged once.
ChargedOnce ==
    \A i, j \in intents : SameKey(i.by, j.by) => i = j

\* What the two layers are for: seen from the calls alone, the requests are carried
\* out as OnceByKey says, which knows neither the table nor the faults.  A charge
\* counts for the key its attempt came with, whatever key the provider was given; its
\* answer is lost to an attempt that made it and ends with 502 all the same.
CallsOf(attempts) == {[by |-> a, request |-> request[a]] : a \in attempts}
Once == INSTANCE OnceByKey WITH
    Requests <- Request,
    working  <- CallsOf({a \in Attempts : pc[a] \in Running}),
    charged  <- CallsOf({i.by : i \in intents}),
    unsure   <- CallsOf({a \in {i.by : i \in intents} : status[a] = 502}),
    bought   <- CallsOf({a \in Attempts : Bought(a)}),
    repeated <- CallsOf(replayed)
RunsOnce == Once!Spec

(* What the code's comments say, and the code does not do.                 *)

\* middleware.go, run: "Client errors keep their key: replaying the same rejection
\* is the correct answer to a repeated bad request".
RejectionKept ==
    \A a \in Attempts : pc[a] = "done" /\ status[a] = 402 =>
        keys[KeyOf(a)] = [Reservation(a) EXCEPT !.status = 402]
=============================================================================
