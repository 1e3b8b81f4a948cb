-------------------------- MODULE CatalogueProofs --------------------------
(***************************************************************************)
(* Proofs about Catalogue, for any number of accounts, addresses, events,  *)
(* tickets and requests, any quantity and any set of faults.               *)
(***************************************************************************)
EXTENDS Catalogue, FiniteSetTheorems, TLAPS

(* Where r stands says what it asks for, and only an answered request has  *)
(* an answer.  A permission that was found is one that the caller had: the *)
(* role that was read for a creation or as an administrator's, the leave   *)
(* to mint, and in the end the grant.                                      *)
Could(r) == TRUE \in could[r]
Sound(r) ==
    /\ pc[r] # "idle" => request[r] \in Asked
    /\ pc[r] = "write" => request[r].kind \in {"create", "edit"}
    /\ pc[r] = "mint" => request[r].kind = "mint"
    /\ pc[r] # "done" => answer[r] = 0
    /\ pc[r] = "mint" => Could(r)
    /\ pc[r] = "write" /\ (request[r].kind = "create" \/ role[r] = "admin") => Could(r)
    /\ answer[r] \in {200, 201} => Could(r)

(* A ticket has an owner exactly when it is sold.                          *)
Held ==
    \A t \in Tickets : tickets[t] # NoRow =>
        (tickets[t].user = NoUser <=> tickets[t].status = "available")

(* Who sends a request has an account: he had a token, and no account goes. *)
Callers == \A r \in Requests : pc[r] # "idle" => Known(Caller(r))

Inv == TypeOK /\ (\A r \in Requests : Sound(r)) /\ Held /\ Callers

-----------------------------------------------------------------------------
(* The conditions that the code looks at are the entitlement.              *)
LEMMA EntitledWhen ==
    ASSUME NEW r \in Requests, request[r] \in Asked,
           \/ request[r].kind = "create" /\ users[Caller(r)].role \in {"organizer", "admin"}
           \/ request[r].kind = "edit" /\ users[Caller(r)].role = "admin"
           \/ /\ request[r].kind = "edit"
              /\ events[Event(r)] # NoRow /\ events[Event(r)].owner = Caller(r)
           \/ request[r].kind = "mint" /\ MayMintTickets(r)
    PROVE  Entitled(r) = TRUE
<1>1. request[r].kind \in {"edit", "mint"} => Event(r) \in Events
  BY DEF Asked, Event
<1> QED BY <1>1 DEF Entitled, MayMintTickets

(* What a caller could do is not forgotten, and the moment after a step    *)
(* counts for a request that is open before it.                            *)
LEMMA Observed ==
    ASSUME TypeOK, Observe, NEW r \in Requests
    PROVE  /\ Could(r) => Could(r)'
           /\ pc[r] # "done" /\ pc'[r] # "idle" /\ Entitled(r)' = TRUE => Could(r)'
  BY DEF TypeOK, Observe, Could

LEMMA ObserveTyped ==
    ASSUME TypeOK, Observe
    PROVE  could' \in [Requests -> SUBSET BOOLEAN]
<1>1. \A r \in Requests : Entitled(r)' \in BOOLEAN
  BY DEF Entitled
<1> QED BY <1>1 DEF TypeOK, Observe

(* A request that a step does not touch.                                   *)
LEMMA Untouched ==
    ASSUME Inv, Observe, NEW r \in Requests,
           request'[r] = request[r], role'[r] = role[r], pc'[r] = pc[r], answer'[r] = answer[r]
    PROVE  Sound(r)'
<1>1. (Could(r) => Could(r)') /\ Sound(r)
  BY Observed DEF Inv
<1> QED BY <1>1 DEF Sound

(* A step that touches no request: the operator's, a trade, a login.       *)
LEMMA Aside ==
    ASSUME Inv, Observe, UNCHANGED <<request, role, pc, answer>>
    PROVE  (\A r \in Requests : Sound(r)') /\ could' \in [Requests -> SUBSET BOOLEAN]
<1>1. \A r \in Requests : Sound(r)'
  BY Untouched
<1> QED BY <1>1, ObserveTyped DEF Inv

(* A step of the handler of r.                                             *)
LEMMA OneHandler ==
    ASSUME Inv, Observe, NEW r \in Requests, Sound(r)',
           \A q \in Requests \ {r} : /\ request'[q] = request[q] /\ role'[q] = role[q]
                                     /\ pc'[q] = pc[q] /\ answer'[q] = answer[q]
    PROVE  (\A q \in Requests : Sound(q)') /\ could' \in [Requests -> SUBSET BOOLEAN]
<1>1. \A q \in Requests : Sound(q)'
  BY Untouched
<1> QED BY <1>1, ObserveTyped DEF Inv

-----------------------------------------------------------------------------
(* What one action does to the types and to the holders, and to the        *)
(* request it belongs to.                                                  *)

LEMMA AccountKeeps ==
    ASSUME Inv, Observe, Account
    PROVE  Inv'
<1>1. UNCHANGED <<request, role, pc, answer, events, tickets, drafts>>
  BY DEF Account, RegisterUser, LoginUser, TokenExpires
<1>2. users' \in [Users -> UserRow \cup {NoRow}] /\ tokens' \subseteq {u \in Users : Known(u)'}
  <2>1. ASSUME NEW u \in Users, NEW s \in Spelling, NEW p \in Passwords, RegisterUser(u, s, p)
        PROVE  users' \in [Users -> UserRow \cup {NoRow}] /\ tokens' \subseteq {v \in Users : Known(v)'}
    <3>1. Normal(s) \in Spelling
      BY DEF Normal, Spelling
    <3>2. [email |-> Normal(s), password |-> p, role |-> "attendee"] \in UserRow
      BY <3>1 DEF UserRow, Roles
    <3>3. users' \in [Users -> UserRow \cup {NoRow}]
      BY <2>1, <3>2 DEF RegisterUser, Inv, TypeOK
    <3>4. \A v \in tokens : v \in Users /\ v # u /\ Known(v) /\ users'[v] = users[v]
      BY <2>1 DEF RegisterUser, Inv, TypeOK, Known
    <3>5. tokens' = tokens
      BY <2>1 DEF RegisterUser
    <3> QED BY <3>3, <3>4, <3>5 DEF Known
  <2>2. ASSUME NEW s \in Spelling, NEW p \in Passwords, LoginUser(s, p)
        PROVE  users' \in [Users -> UserRow \cup {NoRow}] /\ tokens' \subseteq {v \in Users : Known(v)'}
    BY <2>2 DEF LoginUser, Lookup, Known, Inv, TypeOK
  <2>3. ASSUME NEW u \in Users, TokenExpires(u)
        PROVE  users' \in [Users -> UserRow \cup {NoRow}] /\ tokens' \subseteq {v \in Users : Known(v)'}
    BY <2>3 DEF TokenExpires, Known, Inv, TypeOK
  <2> QED BY <2>1, <2>2, <2>3 DEF Account
<1>3. \A u \in Users : Known(u) => Known(u)'
  BY CatalogueAssumption DEF Account, RegisterUser, LoginUser, TokenExpires, Known, Inv, TypeOK
<1>4. Held' /\ Callers'
  BY <1>1, <1>3 DEF Inv, Held, Callers, Sound, Caller, Asked
<1>5. TypeOK'
  BY <1>1, <1>2, Aside DEF Inv, TypeOK
<1> QED BY <1>1, <1>4, <1>5, Aside DEF Inv

LEMMA OperateKeeps ==
    ASSUME Inv, Observe, Operate
    PROVE  Inv'
<1>1. UNCHANGED <<request, role, pc, answer, tokens, tickets, drafts>>
  BY DEF Operate, SetRole, HandOver, inputs
<1>2. /\ users' \in [Users -> UserRow \cup {NoRow}]
      /\ \A u \in Users : Known(u) => Known(u)'
      /\ events' \in [Events -> EventRow \cup {NoRow}]
  <2>1. ASSUME NEW u \in Users, NEW new \in Roles, SetRole(u, new)
        PROVE  /\ users' \in [Users -> UserRow \cup {NoRow}]
               /\ \A v \in Users : Known(v) => Known(v)'
               /\ events' \in [Events -> EventRow \cup {NoRow}]
    <3> DEFINE row == [users[u] EXCEPT !.role = new]
    <3>1. users[u] \in UserRow /\ row \in UserRow
      BY <2>1 DEF SetRole, Known, Inv, TypeOK, UserRow
    <3>2. users' = [users EXCEPT ![u] = row]
      BY <2>1 DEF SetRole
    <3> HIDE DEF row
    <3>3. row # NoRow
      BY <3>1, CatalogueAssumption
    <3> QED BY <2>1, <3>1, <3>2, <3>3 DEF SetRole, Known, Inv, TypeOK
  <2>2. ASSUME NEW u \in Users, NEW e \in Events, HandOver(e, u)
        PROVE  /\ users' \in [Users -> UserRow \cup {NoRow}]
               /\ \A v \in Users : Known(v) => Known(v)'
               /\ events' \in [Events -> EventRow \cup {NoRow}]
    BY <2>2 DEF HandOver, inputs, Known, Inv, TypeOK, EventRow
  <2> QED BY <2>1, <2>2 DEF Operate
<1>3. Held' /\ Callers'
  BY <1>1, <1>2 DEF Inv, Held, Callers, Sound, Caller, Asked
<1>4. TypeOK'
  BY <1>1, <1>2, Aside DEF Inv, TypeOK
<1> QED BY <1>1, <1>3, <1>4, Aside DEF Inv

LEMMA TradeKeeps ==
    ASSUME Inv, Observe, Trade
    PROVE  Inv'
<1> PICK u \in Users, t \in Tickets : PurchaseTicket(u, t) \/ CancelTicket(u, t)
  BY DEF Trade
<1>1. UNCHANGED <<request, role, pc, answer, users, tokens, events, drafts>>
  BY DEF PurchaseTicket, CancelTicket, inputs
<1>2. tickets[t] # NoRow /\ tickets[t] \in TicketRow
  BY DEF PurchaseTicket, CancelTicket, OnSale, Inv, TypeOK
<1>3. PICK row \in TicketRow : /\ tickets' = [tickets EXCEPT ![t] = row]
                               /\ row.user = NoUser <=> row.status = "available"
  <2>1. CASE PurchaseTicket(u, t)
    <3> DEFINE row == [tickets[t] EXCEPT !.status = "purchased", !.user = u]
    <3>1. row \in TicketRow /\ row.user = u /\ row.status = "purchased"
      BY <1>2 DEF TicketRow
    <3>2. tickets' = [tickets EXCEPT ![t] = row]
      BY <2>1 DEF PurchaseTicket
    <3> QED BY <3>1, <3>2, CatalogueAssumption
  <2>2. CASE CancelTicket(u, t)
    <3> DEFINE row == Returned(tickets[t])
    <3>1. row \in TicketRow /\ row.user = NoUser /\ row.status = "available"
      BY <1>2 DEF TicketRow, Returned
    <3>2. tickets' = [tickets EXCEPT ![t] = row]
      BY <2>2 DEF CancelTicket
    <3> QED BY <3>1, <3>2
  <2> QED BY <2>1, <2>2
<1>4. tickets' \in [Tickets -> TicketRow \cup {NoRow}] /\ Held'
  BY <1>3 DEF Inv, TypeOK, Held
<1>5. TypeOK'
  BY <1>1, <1>4, Aside DEF Inv, TypeOK, Known
<1>6. Callers'
  BY <1>1 DEF Inv, Callers, Caller, Known
<1> QED BY <1>1, <1>4, <1>5, <1>6, Aside DEF Inv

-----------------------------------------------------------------------------
(* The actions of a handler.                                               *)

LEMMA ArriveKeeps ==
    ASSUME Inv, Observe, NEW r \in Requests, NEW q \in Asked, Arrive(r, q)
    PROVE  Inv'
<1>1. request' = [request EXCEPT ![r] = q] /\ pc' = [pc EXCEPT ![r] = "check"]
  BY DEF Arrive, Goto
<1>2. UNCHANGED <<users, tokens, events, tickets, drafts, role, answer>>
  BY DEF Arrive, Goto, inputs
<1>3. Sound(r)'
  <2>1. request'[r] = q /\ pc'[r] = "check"
    BY <1>1 DEF Inv, TypeOK
  <2>2. answer'[r] = 0
    BY <1>2 DEF Arrive, Inv, Sound
  <2> QED BY <2>1, <2>2 DEF Sound
<1>4. (\A p \in Requests : Sound(p)') /\ could' \in [Requests -> SUBSET BOOLEAN]
  BY <1>1, <1>2, <1>3, OneHandler DEF Inv, TypeOK
<1>5. TypeOK'
  BY <1>1, <1>2, <1>4 DEF Inv, TypeOK, Known
<1>6. Callers'
  BY <1>1, <1>2 DEF Arrive, Inv, TypeOK, Callers, Caller, Known
<1> QED BY <1>2, <1>4, <1>5, <1>6 DEF Inv, Held

LEMMA ReadRoleKeeps ==
    ASSUME Inv, Observe, NEW r \in Requests, ReadRole(r)
    PROVE  Inv'
<1> DEFINE held == users[Caller(r)].role
<1>1. UNCHANGED <<users, tokens, events, tickets, drafts, request>>
  BY DEF ReadRole, inputs
<1>2. /\ pc[r] = "check" /\ request[r] \in Asked /\ answer[r] = 0
      /\ request[r].kind \in {"create", "edit"} /\ Caller(r) \in Users
  BY DEF ReadRole, Inv, Sound, Asked, Caller
<1>3. held \in Roles
  BY <1>2 DEF Inv, Callers, Known, TypeOK, UserRow
<1>4. role' = [role EXCEPT ![r] = held]
  BY DEF ReadRole
<1>5. \/ /\ pc' = [pc EXCEPT ![r] = "write"] /\ UNCHANGED answer
         /\ request[r].kind = "create" => MayCreate(held)
      \/ pc' = [pc EXCEPT ![r] = "done"] /\ answer' = [answer EXCEPT ![r] = 403]
  BY DEF ReadRole, Goto, Answer
<1>6. Sound(r)'
  <2>1. CASE /\ pc' = [pc EXCEPT ![r] = "write"] /\ UNCHANGED answer
             /\ request[r].kind = "create" => MayCreate(held)
    <3>1. pc'[r] = "write" /\ answer'[r] = 0 /\ role'[r] = held /\ request'[r] = request[r]
      BY <1>1, <1>2, <1>4, <2>1 DEF Inv, TypeOK
    <3>2. request[r].kind = "create" \/ held = "admin" => Entitled(r)' = TRUE
      BY <1>1, <1>2, <2>1 DEF Entitled, MayCreate, Caller
    <3>3. request[r].kind = "create" \/ held = "admin" => Could(r)'
      BY <1>2, <3>1, <3>2, Observed DEF Inv
    <3> QED BY <1>2, <3>1, <3>3 DEF Sound
  <2>2. CASE pc' = [pc EXCEPT ![r] = "done"] /\ answer' = [answer EXCEPT ![r] = 403]
    <3>1. pc'[r] = "done" /\ answer'[r] = 403 /\ request'[r] = request[r]
      BY <1>1, <2>2 DEF Inv, TypeOK
    <3> QED BY <1>2, <3>1 DEF Sound
  <2> QED BY <1>5, <2>1, <2>2
<1>7. (\A q \in Requests : Sound(q)') /\ could' \in [Requests -> SUBSET BOOLEAN]
  <2>1. \A q \in Requests \ {r} : /\ request'[q] = request[q] /\ role'[q] = role[q]
                                  /\ pc'[q] = pc[q] /\ answer'[q] = answer[q]
    BY <1>1, <1>4, <1>5 DEF Inv, TypeOK
  <2> QED BY <1>6, <2>1, OneHandler
<1>8. TypeOK'
  <2>1. role' \in [Requests -> Roles \cup {"none"}]
    BY <1>3, <1>4 DEF Inv, TypeOK
  <2>2. /\ pc' \in [Requests -> {"idle", "check", "write", "mint", "done"}]
        /\ answer' \in [Requests -> {0, 200, 201, 403, 404, 500}]
    BY <1>5 DEF Inv, TypeOK
  <2> QED BY <1>1, <1>7, <2>1, <2>2 DEF Inv, TypeOK, Known
<1>9. Callers'
  BY <1>1, <1>2, <1>5 DEF Inv, TypeOK, Callers, Caller, Known
<1> QED BY <1>1, <1>7, <1>8, <1>9 DEF Inv, Held

(* What follows the check: request and role stay as they are.              *)
LEMMA Moves ==
    ASSUME Inv, Observe, NEW r \in Requests,
           UNCHANGED <<users, tokens, request, role>>,
           pc' \in [Requests -> {"idle", "check", "write", "mint", "done"}],
           answer' \in [Requests -> {0, 200, 201, 403, 404, 500}],
           \A q \in Requests \ {r} : pc'[q] = pc[q] /\ answer'[q] = answer[q],
           pc[r] # "idle",
           pc'[r] = "done" \/ (pc'[r] = "mint" /\ request[r].kind = "mint" /\ answer'[r] = 0),
           pc'[r] = "mint" \/ answer'[r] \in {200, 201} => Could(r)'
    PROVE  /\ \A q \in Requests : Sound(q)'
           /\ could' \in [Requests -> SUBSET BOOLEAN]
           /\ Callers'
<1>1. Sound(r)'
  <2>1. request[r] \in Asked
    BY DEF Inv, Sound
  <2> QED BY <2>1 DEF Sound
<1>2. Callers'
  BY DEF Inv, Callers, Caller, Known
<1> QED BY <1>1, <1>2, OneHandler

LEMMA WriteKeeps ==
    ASSUME Inv, Observe, NEW r \in Requests, Write(r)
    PROVE  Inv'
<1>1. UNCHANGED <<users, tokens, tickets, drafts, request, role>>
  BY DEF Write, CreateEvent, UpdateEvent, inputs
<1>2. PICK code \in {200, 201, 404} :
        pc' = [pc EXCEPT ![r] = "done"] /\ answer' = [answer EXCEPT ![r] = code]
  BY DEF Write, CreateEvent, UpdateEvent, Answer
<1>3. pc[r] = "write" /\ request[r] \in Asked
  BY DEF Write, CreateEvent, UpdateEvent, Inv, Sound
<1>4. /\ pc' \in [Requests -> {"idle", "check", "write", "mint", "done"}]
      /\ answer' \in [Requests -> {0, 200, 201, 403, 404, 500}]
      /\ \A q \in Requests \ {r} : pc'[q] = pc[q] /\ answer'[q] = answer[q]
      /\ pc'[r] = "done" /\ answer'[r] = code
  BY <1>2 DEF Inv, TypeOK
<1>5. Caller(r) \in Users
  BY <1>3 DEF Asked, Caller
<1>6. events' \in [Events -> EventRow \cup {NoRow}]
  <2>1. ASSUME NEW e \in Events, events' = [events EXCEPT ![e] = [owner |-> Caller(r), text |-> r]]
        PROVE  events' \in [Events -> EventRow \cup {NoRow}]
    BY <1>5, <2>1 DEF Inv, TypeOK, EventRow
  <2>2. CASE Editable(r) /\ events' = [events EXCEPT ![Event(r)].text = r] /\ Event(r) \in Events
    BY <2>2 DEF Editable, Inv, TypeOK, EventRow
  <2>3. request[r].kind = "edit" => Event(r) \in Events
    BY <1>3 DEF Asked, Event
  <2> QED BY <2>1, <2>2, <2>3 DEF Write, CreateEvent, UpdateEvent, Inv, TypeOK
<1>7. code \in {200, 201} => Could(r)'
  <2>1. CASE CreateEvent(r)
    <3>1. Could(r)
      BY <2>1 DEF CreateEvent, Inv, Sound
    <3> QED BY <3>1, Observed DEF Inv
  <2>2. CASE UpdateEvent(r) /\ role[r] = "admin"
    <3>1. Could(r)
      BY <2>2 DEF UpdateEvent, Inv, Sound
    <3> QED BY <3>1, Observed DEF Inv
  <2>3. CASE UpdateEvent(r) /\ Editable(r) /\ role[r] # "admin"
    <3>1. Event(r) \in Events /\ request[r].kind = "edit"
      BY <1>3, <2>3 DEF UpdateEvent, Asked, Event
    <3>2. events' = [events EXCEPT ![Event(r)].text = r] /\ events[Event(r)] \in EventRow
          /\ events[Event(r)].owner = Caller(r)
      BY <2>3, <3>1 DEF UpdateEvent, Editable, Inv, TypeOK
    <3>3. events'[Event(r)] \in EventRow /\ events'[Event(r)].owner = Caller(r)
      BY <3>1, <3>2 DEF Inv, TypeOK, EventRow
    <3>4. events'[Event(r)] # NoRow
      BY <3>3, CatalogueAssumption
    <3>5. Entitled(r)' = TRUE
      BY <1>1, <3>1, <3>3, <3>4 DEF Entitled, Caller, Event
    <3> QED BY <1>3, <1>4, <3>5, Observed DEF Inv
  <2>4. UpdateEvent(r) /\ ~Editable(r) => code = 404
    BY <1>4 DEF UpdateEvent, Answer, Inv, TypeOK
  <2> QED BY <2>1, <2>2, <2>3, <2>4 DEF Write
<1>8. /\ \A q \in Requests : Sound(q)'
      /\ could' \in [Requests -> SUBSET BOOLEAN]
      /\ Callers'
  BY <1>1, <1>3, <1>4, <1>7, Moves
<1>9. TypeOK'
  BY <1>1, <1>4, <1>6, <1>8 DEF Inv, TypeOK, Known
<1> QED BY <1>1, <1>8, <1>9 DEF Inv, Held

LEMMA CheckMintKeeps ==
    ASSUME Inv, Observe, NEW r \in Requests, CheckMint(r)
    PROVE  Inv'
<1>1. UNCHANGED <<users, tokens, events, tickets, drafts, request, role>>
  BY DEF CheckMint, inputs
<1>2. pc[r] = "check" /\ request[r].kind = "mint" /\ request[r] \in Asked /\ answer[r] = 0
  BY DEF CheckMint, Inv, Sound
<1>3. \/ MayMintTickets(r) /\ pc' = [pc EXCEPT ![r] = "mint"] /\ UNCHANGED answer
      \/ pc' = [pc EXCEPT ![r] = "done"] /\ answer' = [answer EXCEPT ![r] = 403]
  BY DEF CheckMint, Goto, Answer
<1>4. /\ pc' \in [Requests -> {"idle", "check", "write", "mint", "done"}]
      /\ answer' \in [Requests -> {0, 200, 201, 403, 404, 500}]
      /\ \A q \in Requests \ {r} : pc'[q] = pc[q] /\ answer'[q] = answer[q]
      /\ \/ MayMintTickets(r) /\ pc'[r] = "mint" /\ answer'[r] = 0
         \/ pc'[r] = "done" /\ answer'[r] = 403
  BY <1>2, <1>3 DEF Inv, TypeOK
<1>5. MayMintTickets(r) /\ pc'[r] = "mint" => Could(r)'
  <2>1. MayMintTickets(r) => Entitled(r)' = TRUE
    <3>1. Event(r) \in Events
      BY <1>2 DEF Asked, Event
    <3> QED BY <1>1, <1>2, <3>1 DEF Entitled, MayMintTickets, Caller, Event
  <2> QED BY <1>2, <2>1, Observed DEF Inv
<1>6. /\ \A q \in Requests : Sound(q)'
      /\ could' \in [Requests -> SUBSET BOOLEAN]
      /\ Callers'
  BY <1>1, <1>2, <1>4, <1>5, Moves
<1>7. TypeOK'
  BY <1>1, <1>4, <1>6 DEF Inv, TypeOK, Known
<1> QED BY <1>1, <1>6, <1>7 DEF Inv, Held

LEMMA InsertTicketKeeps ==
    ASSUME Inv, Observe, NEW r \in Requests, InsertTicket(r)
    PROVE  Inv'
<1>1. UNCHANGED <<users, tokens, events, tickets, request, role, pc, answer>>
  BY DEF InsertTicket, inputs
<1>2. drafts' \in [Requests -> SUBSET Tickets]
  BY DEF InsertTicket, Inv, TypeOK
<1>3. TypeOK' /\ Callers'
  BY <1>1, <1>2, Aside DEF Inv, TypeOK, Known, Callers, Caller
<1> QED BY <1>1, <1>3, Aside DEF Inv, Held

LEMMA CommitTicketsKeeps ==
    ASSUME Inv, Observe, NEW r \in Requests, CommitTickets(r)
    PROVE  Inv'
<1>1. UNCHANGED <<users, tokens, events, request, role>>
  BY DEF CommitTickets, inputs
<1>2. pc[r] = "mint" /\ request[r] \in Asked /\ request[r].kind = "mint" /\ Could(r)
  BY DEF CommitTickets, Inv, Sound
<1>3. PICK code \in {201, 500} :
        pc' = [pc EXCEPT ![r] = "done"] /\ answer' = [answer EXCEPT ![r] = code]
  BY DEF CommitTickets, Answer
<1>4. /\ pc' \in [Requests -> {"idle", "check", "write", "mint", "done"}]
      /\ answer' \in [Requests -> {0, 200, 201, 403, 404, 500}]
      /\ \A q \in Requests \ {r} : pc'[q] = pc[q] /\ answer'[q] = answer[q]
      /\ pc'[r] = "done"
  BY <1>3 DEF Inv, TypeOK
<1>5. drafts' \in [Requests -> SUBSET Tickets]
  BY DEF CommitTickets, Inv, TypeOK
<1>6. NewTicket(r) \in TicketRow /\ NewTicket(r).user = NoUser /\ NewTicket(r).status = "available"
  <2>1. Event(r) \in Events
    BY <1>2 DEF Asked, Event
  <2> QED BY <2>1 DEF NewTicket, TicketRow
<1>7. tickets' \in [Tickets -> TicketRow \cup {NoRow}] /\ Held'
  BY <1>6 DEF CommitTickets, WithTickets, Inv, TypeOK, Held
<1>8. /\ \A q \in Requests : Sound(q)'
      /\ could' \in [Requests -> SUBSET BOOLEAN]
      /\ Callers'
  <2>1. Could(r)'
    BY <1>2, Observed DEF Inv
  <2> QED BY <1>1, <1>2, <1>4, <2>1, Moves
<1>9. TypeOK'
  BY <1>1, <1>4, <1>5, <1>7, <1>8 DEF Inv, TypeOK, Known
<1> QED BY <1>7, <1>8, <1>9 DEF Inv

LEMMA RequestFailsKeeps ==
    ASSUME Inv, Observe, NEW r \in Requests, RequestFails(r)
    PROVE  Inv'
<1>1. UNCHANGED <<users, tokens, events, tickets, request, role>>
  BY DEF RequestFails, inputs
<1>2. pc[r] # "idle" /\ pc' = [pc EXCEPT ![r] = "done"] /\ answer' = [answer EXCEPT ![r] = 500]
  BY DEF RequestFails, Answer
<1>3. /\ pc' \in [Requests -> {"idle", "check", "write", "mint", "done"}]
      /\ answer' \in [Requests -> {0, 200, 201, 403, 404, 500}]
      /\ \A q \in Requests \ {r} : pc'[q] = pc[q] /\ answer'[q] = answer[q]
      /\ pc'[r] = "done" /\ answer'[r] = 500
  BY <1>2 DEF Inv, TypeOK
<1>4. drafts' \in [Requests -> SUBSET Tickets]
  BY DEF RequestFails, Inv, TypeOK
<1>5. /\ \A q \in Requests : Sound(q)'
      /\ could' \in [Requests -> SUBSET BOOLEAN]
      /\ Callers'
  BY <1>1, <1>2, <1>3, Moves
<1>6. TypeOK'
  BY <1>1, <1>3, <1>4, <1>5 DEF Inv, TypeOK, Known
<1> QED BY <1>1, <1>5, <1>6 DEF Inv, Held

-----------------------------------------------------------------------------
LEMMA InvInit == Init => Inv
<1> SUFFICES ASSUME Init PROVE Inv
  OBVIOUS
<1>1. \A r \in Requests : Sound(r)
  BY DEF Init, Sound
<1> QED BY <1>1 DEF Init, Inv, TypeOK, Held, Callers

LEMMA InvStep == Inv /\ [Next]_vars => Inv'
<1> SUFFICES ASSUME Inv, [Next]_vars PROVE Inv'
  OBVIOUS
<1>1. CASE UNCHANGED vars
  <2>1. UNCHANGED <<users, tokens, events, tickets, drafts, request, role, pc, answer, could>>
    BY <1>1 DEF vars, inputs
  <2>2. \A r \in Requests : Sound(r)'
    BY <2>1 DEF Inv, Sound, Could
  <2> QED BY <2>1, <2>2 DEF Inv, TypeOK, Held, Callers, Caller, Known
<1>2. CASE Next
  <2>1. Observe /\ Step
    BY <1>2 DEF Next
  <2>2. ASSUME NEW r \in Requests, Handle(r) PROVE Inv'
    BY <2>1, <2>2, ReadRoleKeeps, WriteKeeps, CheckMintKeeps, InsertTicketKeeps,
       CommitTicketsKeeps, RequestFailsKeeps DEF Handle, Mint
  <2> QED BY <2>1, <2>2, ArriveKeeps, AccountKeeps, OperateKeeps, TradeKeeps DEF Step
<1> QED BY <1>1, <1>2

LEMMA Invariance == Spec => []Inv
  BY InvInit, InvStep, PTL DEF Spec

-----------------------------------------------------------------------------
(* The types of all variables, for instances of any size.                  *)
THEOREM CatalogueTyped == Spec => []TypeOK
  BY Invariance, PTL DEF Inv

(* What is granted, the caller could do at some moment of the request,     *)
(* whatever roles and owners are changed meanwhile.                        *)
THEOREM GrantsAreJustified == Spec => []GrantsAreTimely
<1>1. Inv => GrantsAreTimely
  BY DEF Inv, Sound, Could, GrantsAreTimely
<1> QED BY <1>1, Invariance, PTL

(* What a ticket's row says, as the reads look at it.                      *)
LEMMA RowsAreRead ==
    ASSUME Inv, NEW t \in Tickets, tickets[t] # NoRow
    PROVE  /\ tickets[t].user \in Users \cup {NoUser}
           /\ \A u \in Users : t \in GetUserTickets(u) <=> tickets[t].user = u
           /\ OnSale(t) <=> tickets[t].user = NoUser
           /\ tickets[t].status \in {"available", "purchased"}
           /\ tickets[t].user = NoUser <=> tickets[t].status = "available"
<1>1. /\ tickets[t].user \in Users \cup {NoUser}
      /\ tickets[t].status \in {"available", "purchased"}
      /\ tickets[t].user = NoUser <=> tickets[t].status = "available"
  BY DEF Inv, TypeOK, TicketRow, Held
<1>2. \A u \in Users : t \in GetUserTickets(u) <=> tickets[t].user = u
  BY <1>1, CatalogueAssumption DEF GetUserTickets
<1> QED BY <1>1, <1>2 DEF OnSale

LEMMA OneSeesIt == ASSUME Inv, NEW t \in Tickets, tickets[t] # NoRow PROVE ShownToOne(t)
<1> DEFINE holders == {u \in Users : t \in GetUserTickets(u)}
<1>1. \A u \in Users : u \in holders <=> tickets[t].user = u
  BY RowsAreRead
<1>2. \A u \in Users : t \in GetTicketReceipt(u) <=> tickets[t].user = u
  BY DEF GetTicketReceipt
<1>3. t \in ListAvailableTickets(tickets[t].event) <=> tickets[t].user = NoUser
  BY RowsAreRead DEF ListAvailableTickets
<1>4. holders \subseteq Users
  OBVIOUS
<1>5. ShownToOne(t) <=> /\ holders = {} <=> t \in ListAvailableTickets(tickets[t].event)
                        /\ \A u, v \in holders : u = v
                        /\ \A u \in Users : t \in GetTicketReceipt(u) <=> u \in holders
  BY DEF ShownToOne
<1> HIDE DEF holders
<1>6. holders = {} <=> tickets[t].user = NoUser
  BY <1>1, <1>4, RowsAreRead, CatalogueAssumption
<1> QED BY <1>1, <1>2, <1>3, <1>4, <1>5, <1>6

(* The counted sets are the same sets; what counting is does not matter.   *)
LEMMA SameTicketsCounted == ASSUME Inv, NEW e \in Events PROVE FiguresAgree(e)
<1> DEFINE held == {t \in TicketsOf(e) : \E u \in Users : t \in GetUserTickets(u)}
<1>1. \A t \in TicketsOf(e) : t \in Tickets /\ tickets[t] # NoRow /\ tickets[t].event = e
  BY DEF TicketsOf
<1>2. held = {t \in TicketsOf(e) : tickets[t].status = "purchased"}
  BY <1>1, RowsAreRead, CatalogueAssumption
<1>3. ListAvailableTickets(e) = {t \in TicketsOf(e) : tickets[t].status = "available"}
  BY DEF ListAvailableTickets, OnSale, TicketsOf
<1>4. TicketsOf(e) = held \cup ListAvailableTickets(e)
  BY <1>1, <1>2, <1>3, RowsAreRead
<1>5. FiguresAgree(e) <=> Figures(e) = [total     |-> Cardinality(held \cup ListAvailableTickets(e)),
                                        sold      |-> Cardinality(held),
                                        available |-> Cardinality(ListAvailableTickets(e))]
  BY DEF FiguresAgree
<1> HIDE DEF held
<1> QED BY <1>2, <1>3, <1>4, <1>5 DEF Figures

(* No two customers see a ticket as theirs, and none that is on sale; the  *)
(* receipt is the holder's alone, and the organiser counts the same.       *)
THEOREM TicketsAreShownOnce == Spec => []ShownOnce
<1>1. Inv => ShownOnce
  BY OneSeesIt, SameTicketsCounted DEF ShownOnce, GetEvents
<1> QED BY <1>1, Invariance, PTL

-----------------------------------------------------------------------------
(* Minting.  Rows inserted and not committed are of one open mint each;    *)
(* committed ones are of a mint that is over, and are all of them.         *)
Minted(r) == {t \in Tickets : tickets[t] # NoRow /\ tickets[t].by = r}
Whole(r) ==
    /\ pc[r] # "mint" => drafts[r] = {}
    /\ \A t \in drafts[r] : tickets[t] = NoRow /\ events[Event(r)] # NoRow
    /\ \A q \in Requests : drafts[r] \cap drafts[q] # {} => q = r
    /\ pc[r] # "done" => Minted(r) = {}
    /\ Minted(r) # {} => /\ Cardinality(Minted(r)) = request[r].quantity
                         /\ events[Event(r)] # NoRow /\ request[r].kind = "mint"
    /\ answer[r] = 201 /\ request[r].kind = "mint" => Minted(r) # {}

(* No event is deleted.                                                    *)
LEMMA EventsStay ==
    ASSUME Inv, Next, NEW e \in Events, events[e] # NoRow
    PROVE  events'[e] # NoRow
<1>1. events[e] \in EventRow
  BY DEF Inv, TypeOK
<1>2. ASSUME NEW u \in Users, NEW f \in Events, HandOver(f, u) PROVE events'[e] # NoRow
  <2>1. [events[e] EXCEPT !.owner = u] \in EventRow
    BY <1>1 DEF EventRow
  <2> QED BY <1>2, <2>1, CatalogueAssumption DEF HandOver, Inv, TypeOK
<1>3. ASSUME NEW r \in Requests, Write(r) PROVE events'[e] # NoRow
  <2>1. [events[e] EXCEPT !.text = r] \in EventRow
    BY <1>1 DEF EventRow
  <2> QED BY <1>3, <2>1, CatalogueAssumption DEF Write, CreateEvent, UpdateEvent, Inv, TypeOK
<1>4. events' = events \/ (\E u \in Users, f \in Events : HandOver(f, u))
        \/ \E r \in Requests : Write(r)
  BY DEF Next, Step, Account, Operate, Trade, Handle, Mint, RegisterUser, LoginUser,
         TokenExpires, SetRole, PurchaseTicket, CancelTicket, Arrive, ReadRole, CheckMint,
         InsertTicket, CommitTickets, RequestFails, inputs
<1> QED BY <1>2, <1>3, <1>4

(* What is left to show of a request whose tickets and drafts are as before. *)
LEMMA SameTickets ==
    ASSUME Inv, Next, NEW r \in Requests, Whole(r),
           drafts'[r] = drafts[r], Minted(r)' = Minted(r),
           \A t \in drafts[r] : tickets'[t] = tickets[t],
           \A q \in Requests : drafts'[r] \cap drafts'[q] # {} => q = r,
           pc[r] # "idle" => request'[r] = request[r],
           pc[r] = "mint" => pc'[r] = "mint" \/ drafts[r] = {},
           pc[r] = "done" => pc'[r] = "done",
           answer'[r] = 201 => answer[r] = 201 \/ (pc[r] # "idle" /\ request[r].kind # "mint")
    PROVE  Whole(r)'
<1>1. CASE pc[r] = "idle"
  BY <1>1 DEF Whole, Inv, Sound
<1>2. CASE pc[r] # "idle"
  <2>1. request'[r] = request[r] /\ request[r] \in Asked
    BY <1>2 DEF Inv, Sound
  <2>2. Event(r)' = Event(r)
    BY <2>1 DEF Event
  <2>3. request[r].kind = "mint" => Event(r) \in Events
    BY <2>1 DEF Asked, Event
  <2>4. request[r].kind = "mint" /\ events[Event(r)] # NoRow => events'[Event(r)] # NoRow
    BY <2>3, EventsStay
  <2>5. drafts[r] # {} => pc[r] = "mint" /\ request[r].kind = "mint"
    BY DEF Whole, Inv, Sound
  <2> QED BY <1>2, <2>1, <2>2, <2>4, <2>5 DEF Whole
<1> QED BY <1>1, <1>2

(* Tickets that are sold, given back or left alone are still of their mint. *)
LEMMA SameMint ==
    ASSUME Inv, \A t \in Tickets : /\ tickets'[t] = NoRow <=> tickets[t] = NoRow
                                   /\ tickets[t] # NoRow => tickets'[t].by = tickets[t].by,
           NEW r \in Requests
    PROVE  Minted(r)' = Minted(r)
  BY DEF Minted

LEMMA OthersKeep ==
    ASSUME Inv, Next, \A r \in Requests : Whole(r), UNCHANGED <<drafts, tickets>>,
           \A r \in Requests :
             /\ pc[r] # "idle" => request'[r] = request[r]
             /\ pc[r] = "mint" => pc'[r] = "mint"
             /\ pc[r] = "done" => pc'[r] = "done"
             /\ answer'[r] = 201 => answer[r] = 201 \/ (pc[r] # "idle" /\ request[r].kind # "mint")
    PROVE  \A r \in Requests : Whole(r)'
<1> SUFFICES ASSUME NEW r \in Requests PROVE Whole(r)'
  OBVIOUS
<1>1. Whole(r) /\ Minted(r)' = Minted(r)
  BY DEF Minted
<1>2. \A q \in Requests : drafts'[r] \cap drafts'[q] # {} => q = r
  BY <1>1 DEF Whole
<1> QED BY <1>1, <1>2, SameTickets

LEMMA WholeTrade ==
    ASSUME Inv, Next, \A r \in Requests : Whole(r), Trade
    PROVE  \A r \in Requests : Whole(r)'
<1> SUFFICES ASSUME NEW r \in Requests PROVE Whole(r)'
  OBVIOUS
<1> PICK u \in Users, t \in Tickets : PurchaseTicket(u, t) \/ CancelTicket(u, t)
  BY DEF Trade
<1>1. UNCHANGED <<request, pc, answer, drafts>>
  BY DEF PurchaseTicket, CancelTicket
<1>2. tickets[t] \in TicketRow /\ tickets[t] # NoRow
  BY DEF PurchaseTicket, CancelTicket, OnSale, Inv, TypeOK
<1>3. PICK row \in TicketRow : tickets' = [tickets EXCEPT ![t] = row] /\ row.by = tickets[t].by
  <2>1. CASE PurchaseTicket(u, t)
    <3> DEFINE row == [tickets[t] EXCEPT !.status = "purchased", !.user = u]
    <3>1. row \in TicketRow /\ row.by = tickets[t].by
      BY <1>2 DEF TicketRow
    <3>2. tickets' = [tickets EXCEPT ![t] = row]
      BY <2>1 DEF PurchaseTicket
    <3> QED BY <3>1, <3>2
  <2>2. CASE CancelTicket(u, t)
    <3> DEFINE row == Returned(tickets[t])
    <3>1. row \in TicketRow /\ row.by = tickets[t].by
      BY <1>2 DEF TicketRow, Returned
    <3>2. tickets' = [tickets EXCEPT ![t] = row]
      BY <2>2 DEF CancelTicket
    <3> QED BY <3>1, <3>2
  <2> QED BY <2>1, <2>2
<1>4. \A s \in Tickets : /\ tickets'[s] = NoRow <=> tickets[s] = NoRow
                         /\ tickets[s] # NoRow => tickets'[s].by = tickets[s].by
  BY <1>2, <1>3, CatalogueAssumption DEF Inv, TypeOK
<1>5. Minted(r)' = Minted(r)
  BY <1>4, SameMint
<1>6. \A s \in drafts[r] : tickets'[s] = tickets[s]
  BY <1>2, <1>3 DEF Whole, Inv, TypeOK
<1>7. \A q \in Requests : drafts'[r] \cap drafts'[q] # {} => q = r
  BY <1>1 DEF Whole
<1> QED BY <1>1, <1>5, <1>6, <1>7, SameTickets

LEMMA WholeInsert ==
    ASSUME Inv, Next, \A r \in Requests : Whole(r), NEW p \in Requests, InsertTicket(p)
    PROVE  \A r \in Requests : Whole(r)'
<1>1. UNCHANGED <<events, request, pc, answer, tickets>>
  BY DEF InsertTicket
<1>2. PICK t \in Tickets : Blank(t) /\ drafts' = [drafts EXCEPT ![p] = @ \cup {t}]
  BY DEF InsertTicket
<1>3. \A r \in Requests : drafts'[r] = IF r = p THEN drafts[p] \cup {t} ELSE drafts[r]
  BY <1>2 DEF Inv, TypeOK
<1>4. tickets[t] = NoRow /\ \A r \in Requests : t \notin drafts[r]
  BY <1>2 DEF Blank
<1>5. pc[p] = "mint" /\ events[Event(p)] # NoRow
  BY DEF InsertTicket
<1> SUFFICES ASSUME NEW r \in Requests PROVE Whole(r)'
  OBVIOUS
<1>6. Minted(r)' = Minted(r) /\ Event(r)' = Event(r)
  BY <1>1 DEF Minted, Event
<1>7. \A q \in Requests : drafts'[r] \cap drafts'[q] # {} => q = r
  BY <1>3, <1>4 DEF Whole
<1> QED BY <1>1, <1>3, <1>4, <1>5, <1>6, <1>7 DEF Whole

LEMMA WholeCommit ==
    ASSUME Inv, Next, \A r \in Requests : Whole(r), NEW p \in Requests, CommitTickets(p)
    PROVE  \A r \in Requests : Whole(r)'
<1>1. UNCHANGED <<events, request>> /\ drafts' = [drafts EXCEPT ![p] = {}]
  BY DEF CommitTickets
<1>2. PICK code \in {201, 500} :
        pc' = [pc EXCEPT ![p] = "done"] /\ answer' = [answer EXCEPT ![p] = code]
  BY DEF CommitTickets, Answer
<1>3. /\ pc[p] = "mint" /\ Cardinality(drafts[p]) = request[p].quantity
      /\ request[p].kind = "mint" /\ request[p] \in Asked /\ drafts[p] \subseteq Tickets
  BY DEF CommitTickets, Complete, Inv, Sound, TypeOK
<1>4. drafts[p] # {}
  <2>1. request[p].quantity \in 1..Quantity
    BY <1>3 DEF Asked
  <2>2. request[p].quantity # 0
    BY <2>1, CatalogueAssumption
  <2> QED BY <1>3, <2>2, FS_EmptySet
<1>5. tickets' = [t \in Tickets |-> IF t \in drafts[p] THEN NewTicket(p) ELSE tickets[t]]
  BY DEF CommitTickets, WithTickets
<1>6. NewTicket(p).by = p /\ NewTicket(p) # NoRow
  <2>1. Event(p) \in Events
    BY <1>3 DEF Asked, Event
  <2>2. NewTicket(p) \in TicketRow
    BY <2>1 DEF NewTicket, TicketRow
  <2> QED BY <2>2, CatalogueAssumption DEF NewTicket
<1>7. Whole(p)'
  <2>1. Minted(p) = {}
    BY <1>3 DEF Whole
  <2>2. Minted(p)' = drafts[p]
    BY <1>3, <1>5, <1>6, <2>1 DEF Minted
  <2>3. drafts'[p] = {} /\ pc'[p] = "done" /\ Event(p)' = Event(p)
    BY <1>1, <1>2 DEF Inv, TypeOK, Event
  <2>4. events[Event(p)] # NoRow
    BY <1>4 DEF Whole
  <2> QED BY <1>1, <1>3, <1>4, <2>2, <2>3, <2>4 DEF Whole
<1>8. ASSUME NEW r \in Requests, r # p PROVE Whole(r)'
  <2>1. drafts'[r] = drafts[r] /\ pc'[r] = pc[r] /\ answer'[r] = answer[r]
    <3>1. drafts'[r] = drafts[r]
      BY <1>1, <1>8 DEF Inv, TypeOK
    <3>2. pc'[r] = pc[r] /\ answer'[r] = answer[r]
      BY <1>2, <1>8 DEF Inv, TypeOK
    <3> QED BY <3>1, <3>2
  <2>2. Minted(r)' = Minted(r)
    <3>1. \A t \in Tickets : IF t \in drafts[p] THEN tickets[t] = NoRow /\ tickets'[t].by # r
                                               ELSE tickets'[t] = tickets[t]
      BY <1>5, <1>6, <1>8 DEF Whole
    <3> QED BY <1>3, <1>5, <1>8, <3>1 DEF Minted
  <2>3. \A t \in drafts[r] : tickets'[t] = tickets[t]
    BY <1>5, <1>8 DEF Whole, Inv, TypeOK
  <2>4. \A q \in Requests : drafts'[r] \cap drafts'[q] # {} => q = r
    BY <1>1, <1>8 DEF Whole, Inv, TypeOK
  <2> QED BY <1>1, <2>1, <2>2, <2>3, <2>4, SameTickets
<1> QED BY <1>7, <1>8

LEMMA WholeFails ==
    ASSUME Inv, Next, \A r \in Requests : Whole(r), NEW p \in Requests, RequestFails(p)
    PROVE  \A r \in Requests : Whole(r)'
<1>1. /\ UNCHANGED <<events, request, tickets>> /\ drafts' = [drafts EXCEPT ![p] = {}]
      /\ pc' = [pc EXCEPT ![p] = "done"] /\ answer' = [answer EXCEPT ![p] = 500]
      /\ pc[p] \in {"check", "write", "mint"}
  BY DEF RequestFails, Answer
<1>2. \A r \in Requests : Minted(r)' = Minted(r) /\ Event(r)' = Event(r)
  BY <1>1 DEF Minted, Event
<1>3. \A r, q \in Requests : drafts'[r] \cap drafts'[q] # {} => q = r
  BY <1>1 DEF Whole, Inv, TypeOK
<1>4. Whole(p)'
  <2>1. drafts'[p] = {} /\ answer'[p] = 500 /\ pc'[p] = "done"
    BY <1>1 DEF Inv, TypeOK
  <2> QED BY <1>1, <1>2, <1>3, <2>1 DEF Whole
<1>5. ASSUME NEW r \in Requests, r # p PROVE Whole(r)'
  <2>1. drafts'[r] = drafts[r] /\ pc'[r] = pc[r] /\ answer'[r] = answer[r]
    BY <1>1, <1>5 DEF Inv, TypeOK
  <2> QED BY <1>1, <1>2, <1>3, <2>1 DEF Whole
<1> QED BY <1>4, <1>5

LEMMA WholeStep == Inv /\ (\A r \in Requests : Whole(r)) /\ [Next]_vars
                     => \A r \in Requests : Whole(r)'
<1> SUFFICES ASSUME Inv, \A r \in Requests : Whole(r), [Next]_vars
             PROVE  \A r \in Requests : Whole(r)'
  OBVIOUS
<1>1. CASE UNCHANGED vars
  BY <1>1 DEF vars, inputs, Whole, Minted, Event
<1>2. ASSUME Next, Account \/ Operate PROVE \A r \in Requests : Whole(r)'
  BY <1>2, OthersKeep DEF Account, Operate, RegisterUser, LoginUser, TokenExpires, SetRole, HandOver
<1>3. ASSUME Next, NEW p \in Requests,
             ReadRole(p) \/ Write(p) \/ CheckMint(p) \/ \E q \in Asked : Arrive(p, q)
      PROVE  \A r \in Requests : Whole(r)'
  <2>1. UNCHANGED <<drafts, tickets>>
    BY <1>3 DEF ReadRole, Write, CreateEvent, UpdateEvent, CheckMint, Arrive
  <2>2. CASE \E q \in Asked : Arrive(p, q)
    <3>1. \A r \in Requests : /\ pc[r] # "idle" => request'[r] = request[r] /\ pc'[r] = pc[r]
                              /\ answer'[r] = answer[r]
      BY <2>2 DEF Arrive, Goto, Inv, TypeOK
    <3> QED BY <1>3, <2>1, <3>1, OthersKeep
  <2>3. CASE ReadRole(p) \/ Write(p) \/ CheckMint(p)
    <3>1. UNCHANGED request /\ pc[p] \in {"check", "write"}
      BY <2>3 DEF ReadRole, Write, CreateEvent, UpdateEvent, CheckMint
    <3>2. \A r \in Requests \ {p} : pc'[r] = pc[r] /\ answer'[r] = answer[r]
      <4>1. CASE ReadRole(p)
        BY <4>1 DEF ReadRole, Goto, Answer, Inv, TypeOK
      <4>2. CASE Write(p)
        BY <4>2 DEF Write, CreateEvent, UpdateEvent, Goto, Answer, Inv, TypeOK
      <4>3. CASE CheckMint(p)
        BY <4>3 DEF CheckMint, Goto, Answer, Inv, TypeOK
      <4> QED BY <2>3, <4>1, <4>2, <4>3
    <3>3. answer'[p] = 201 => answer[p] = 201 \/ request[p].kind # "mint"
      <4>1. CASE ReadRole(p)
        BY <4>1 DEF ReadRole, Goto, Answer, Inv, TypeOK
      <4>2. CASE Write(p)
        BY <4>2 DEF Write, CreateEvent, UpdateEvent
      <4>3. CASE CheckMint(p)
        BY <4>3 DEF CheckMint, Goto, Answer, Inv, TypeOK
      <4> QED BY <2>3, <4>1, <4>2, <4>3
    <3> QED BY <1>3, <2>1, <3>1, <3>2, <3>3, OthersKeep
  <2> QED BY <1>3, <2>2, <2>3
<1>4. CASE Next
  BY <1>2, <1>3, <1>4, WholeTrade, WholeInsert, WholeCommit, WholeFails
     DEF Next, Step, Handle, Mint
<1> QED BY <1>1, <1>4

(* A mint puts all of its tickets on sale or none, whatever fails, and for *)
(* an event that exists; all of them if it is answered 201.                *)
THEOREM MintsAreWhole == Spec => []MintedWhole
<1> DEFINE All == \A r \in Requests : Whole(r)
<1>1. Init => All
  BY DEF Init, Whole, Minted
<1>2. Inv /\ All /\ [Next]_vars => All'
  BY WholeStep
<1>3. Inv /\ All => MintedWhole
  <2> SUFFICES ASSUME Inv, All, NEW r \in Requests
               PROVE  /\ Minted(r) # {} => /\ Cardinality(Minted(r)) = request[r].quantity
                                           /\ GetEvent(Event(r)) # {}
                      /\ answer[r] = 201 /\ request[r].kind = "mint" => Minted(r) # {}
    BY DEF MintedWhole, Minted
  <2>1. Minted(r) # {} => request[r] \in Asked /\ request[r].kind = "mint"
    BY DEF Whole, Inv, Sound
  <2>2. request[r] \in Asked /\ request[r].kind = "mint" => Event(r) \in Events
    BY DEF Asked, Event
  <2>3. Event(r) \in Events /\ events[Event(r)] # NoRow => GetEvent(Event(r)) # {}
    BY DEF GetEvent, GetEvents
  <2> QED BY <2>1, <2>2, <2>3 DEF Whole
<1> QED BY <1>1, <1>2, <1>3, Invariance, PTL DEF Spec

-----------------------------------------------------------------------------
(* Addresses are stored as they are looked up, and once.                   *)
Plain == \A u \in Users : Known(u) => users[u].email = Normal(users[u].email)
Unique == \A u, v \in Users : Known(u) /\ Known(v) /\ users[u].email = users[v].email => u = v

LEMMA NormalIsPlain ==
    ASSUME NEW s \in Spelling
    PROVE  Normal(s) \in Spelling /\ Normal(s) = [address |-> s.address, style |-> "plain"]
  BY DEF Normal, Spelling

LEMMA AddressesStep == TypeOK /\ Plain /\ Unique /\ [Next]_vars => Plain' /\ Unique'
<1> SUFFICES ASSUME TypeOK, Plain, Unique, [Next]_vars PROVE Plain' /\ Unique'
  OBVIOUS
<1>1. ASSUME NEW u \in Users, NEW s \in Spelling, NEW p \in Passwords, RegisterUser(u, s, p)
      PROVE  Plain' /\ Unique'
  <2>1. Normal(s) \in Spelling /\ Normal(Normal(s)) = Normal(s)
    BY NormalIsPlain
  <2>2. users'[u].email = Normal(s) /\ \A v \in Users \ {u} : users'[v] = users[v]
    BY <1>1 DEF RegisterUser, TypeOK
  <2>3. \A v \in Users : Known(v) => users[v].email # Normal(s)
    BY <1>1 DEF RegisterUser, Lookup
  <2> QED BY <2>1, <2>2, <2>3 DEF Plain, Unique, Known
<1>2. ASSUME NEW u \in Users, NEW new \in Roles, SetRole(u, new) PROVE Plain' /\ Unique'
  <2>1. users[u] \in UserRow /\ users' = [users EXCEPT ![u].role = new]
    BY <1>2 DEF SetRole, Known, TypeOK
  <2>2. \A v \in Users : users'[v].email = users[v].email
    BY <2>1 DEF TypeOK, UserRow
  <2>3. \A v \in Users : Known(v)' => Known(v)
    BY <1>2, <2>1 DEF SetRole, Known, TypeOK
  <2> QED BY <2>2, <2>3 DEF Plain, Unique
<1>3. UNCHANGED users \/ (\E u \in Users, s \in Spelling, p \in Passwords : RegisterUser(u, s, p))
        \/ \E u \in Users, new \in Roles : SetRole(u, new)
  BY DEF Next, Step, Account, Operate, Trade, Handle, Write, Mint, LoginUser, TokenExpires,
         HandOver, PurchaseTicket, CancelTicket, Arrive, ReadRole, CreateEvent, UpdateEvent,
         CheckMint, InsertTicket, CommitTickets, RequestFails, inputs, vars
<1>4. CASE UNCHANGED users
  BY <1>4 DEF Plain, Unique, Known
<1> QED BY <1>1, <1>2, <1>3, <1>4

(* Each address has one account, found by any spelling of it.              *)
THEOREM AccountsAreFound == Spec => []FoundByAnySpelling
<1>1. Init => Plain /\ Unique
  BY DEF Init, Plain, Unique, Known
<1>2. TypeOK /\ Plain /\ Unique => FoundByAnySpelling
  <2> SUFFICES ASSUME TypeOK, Plain, Unique, NEW u \in Users, NEW s \in Spelling,
                      Known(u), users[u].email.address = s.address
               PROVE  Lookup(s) = {u}
    BY DEF FoundByAnySpelling
  <2>1. users[u].email \in Spelling
    BY DEF TypeOK, Known, UserRow
  <2>2. users[u].email = Normal(s)
    BY <2>1, NormalIsPlain DEF Plain
  <2> QED BY <2>2 DEF Lookup, Unique
<1> QED BY <1>1, <1>2, AddressesStep, CatalogueTyped, PTL DEF Spec
=============================================================================
