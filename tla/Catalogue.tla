----------------------------- MODULE Catalogue -----------------------------
(***************************************************************************)
(* Accounts, events and the seats on sale: user-service, event-service,    *)
(* CreateTickets and the reads of ticket-service, over the tables users,   *)
(* events and tickets.  A request that asks for permission first and       *)
(* writes later takes a step for each statement; meanwhile roles and       *)
(* owners may be changed, which only operators do, in SQL.  Seats are sold *)
(* and cancelled in one step: TicketSales has the details.                 *)
(***************************************************************************)
EXTENDS Naturals, FiniteSets

CONSTANTS
    Users,     \* account ids
    Addresses, \* e-mail addresses
    Passwords,
    Events,    \* event ids
    Tickets,   \* ticket ids
    Requests,  \* requests that create or edit an event, or mint tickets
    Quantity,  \* how many tickets a request mints at most
    NoRow,     \* no row with an id
    NoUser,    \* tickets.user_id is NULL
    NoEvent,   \* a request that names no event
    Faults     \* "database": a statement fails; "commit": COMMIT is reported as failed

Roles == {"attendee", "organizer", "admin"}

\* How an address can be typed: as it is, in capitals, with spaces around it.
Spelling == [address : Addresses, style : {"plain", "capitals", "padded"}]

UserRow == [email : Spelling, password : Passwords, role : Roles]
EventRow == [owner : Users, text : Requests]
TicketRow == [event : Events, by : Requests, status : {"available", "purchased"},
              user : Users \cup {NoUser}]

ASSUME CatalogueAssumption ==
    /\ Quantity \in Nat \ {0}
    /\ NoUser \notin Users
    /\ NoEvent \notin Events
    /\ NoRow \notin UserRow \cup EventRow \cup TicketRow
    /\ Faults \subseteq {"database", "commit"}

VARIABLES
    users,    \* users[u]: address as it is stored, password, role
    tokens,   \* the users for whom a token is valid
    events,   \* events[e]: organizer_id, and the request that wrote the details
    tickets,  \* tickets[t]: a committed row
    drafts,   \* drafts[r]: the rows that r has inserted and not committed
    request,  \* request[r]: kind, caller, event and quantity
    role,     \* role[r]: the role that r has read
    pc,       \* where each request stands
    answer,   \* its HTTP status
    could     \* could[r]: whether, from r's arrival to its answer, the caller could
              \* do what r asks for: the values this had.  Not in the code

inputs == <<users, tokens>>
vars == <<inputs, events, tickets, drafts, request, role, pc, answer, could>>

Known(u) == users[u] # NoRow
Caller(r) == request[r].user
Event(r) == request[r].event

Init ==
    /\ users = [u \in Users |-> NoRow]
    /\ tokens = {}
    /\ events = [e \in Events |-> NoRow]
    /\ tickets = [t \in Tickets |-> NoRow]
    /\ drafts = [r \in Requests |-> {}]
    /\ request = [r \in Requests |-> NoRow]
    /\ role = [r \in Requests |-> "none"]
    /\ pc = [r \in Requests |-> "idle"]
    /\ answer = [r \in Requests |-> 0]
    /\ could = [r \in Requests |-> {}]

-----------------------------------------------------------------------------
(* user-service.                                                           *)

\* strings.TrimSpace(strings.ToLower(email)).  Faulty variant: the e-mail is stored
\* and looked up as it was typed.
Normal_AsTyped(s) == s
Normal(s) == [s EXCEPT !.style = "plain"]

\* SELECT ... WHERE email = $1.
Lookup(s) == {u \in Users : Known(u) /\ users[u].email = Normal(s)}

\* A taken address violates UNIQUE (email) and is answered 409.
RegisterUser(u, s, p) ==
    /\ ~Known(u)
    /\ Lookup(s) = {}
    /\ users' = [users EXCEPT ![u] = [email |-> Normal(s), password |-> p, role |-> "attendee"]]
    /\ UNCHANGED <<tokens, events, tickets, drafts, request, role, pc, answer>>

LoginUser(s, p) ==
    /\ \E u \in Lookup(s) :
         /\ users[u].password = p
         /\ u \notin tokens
         /\ tokens' = tokens \cup {u}
    /\ UNCHANGED <<users, events, tickets, drafts, request, role, pc, answer>>

\* Its 24 hours are over.
TokenExpires(u) ==
    /\ u \in tokens
    /\ tokens' = tokens \ {u}
    /\ UNCHANGED <<users, events, tickets, drafts, request, role, pc, answer>>

(* The operator.                                                           *)

SetRole(u, new) ==
    /\ Known(u) /\ users[u].role # new
    /\ users' = [users EXCEPT ![u].role = new]
    /\ UNCHANGED <<tokens, events, tickets, drafts, request, role, pc, answer>>

HandOver(e, u) ==
    /\ Known(u) /\ events[e] # NoRow /\ events[e].owner # u
    /\ events' = [events EXCEPT ![e].owner = u]
    /\ UNCHANGED <<inputs, tickets, drafts, request, role, pc, answer>>

-----------------------------------------------------------------------------
(* A request with a valid token.                                           *)

Goto(r, place) == pc' = [pc EXCEPT ![r] = place] /\ UNCHANGED answer
Answer(r, code) ==
    /\ pc' = [pc EXCEPT ![r] = "done"]
    /\ answer' = [answer EXCEPT ![r] = code]

Asked == [kind : {"create"}, user : Users, event : {NoEvent}, quantity : {0}]
         \cup [kind : {"edit"}, user : Users, event : Events, quantity : {0}]
         \cup [kind : {"mint"}, user : Users, event : Events, quantity : 1..Quantity]

Arrive(r, q) ==
    /\ pc[r] = "idle"
    /\ q.user \in tokens
    /\ request' = [request EXCEPT ![r] = q]
    /\ Goto(r, "check")
    /\ UNCHANGED <<inputs, events, tickets, drafts, role>>

\* userRole, in CreateEvent and UpdateEvent.
MayCreate(held) == held \in {"organizer", "admin"}

ReadRole(r) ==
    /\ pc[r] = "check" /\ request[r].kind \in {"create", "edit"}
    /\ role' = [role EXCEPT ![r] = users[Caller(r)].role]
    /\ IF request[r].kind = "create" /\ ~MayCreate(users[Caller(r)].role)
         THEN Answer(r, 403) ELSE Goto(r, "write")
    /\ UNCHANGED <<inputs, events, tickets, drafts, request>>

\* The INSERT gives the event a new id.
CreateEvent(r) ==
    /\ pc[r] = "write" /\ request[r].kind = "create"
    /\ \E e \in Events :
         /\ events[e] = NoRow
         /\ events' = [events EXCEPT ![e] = [owner |-> Caller(r), text |-> r]]
    /\ Answer(r, 201)
    /\ UNCHANGED <<inputs, tickets, drafts, request, role>>

\* WHERE id = $6 AND ($8 = 'admin' OR organizer_id = $7).
Editable(r) ==
    /\ events[Event(r)] # NoRow
    /\ role[r] = "admin" \/ events[Event(r)].owner = Caller(r)

UpdateEvent(r) ==
    /\ pc[r] = "write" /\ request[r].kind = "edit"
    /\ \/ /\ Editable(r)
          /\ events' = [events EXCEPT ![Event(r)].text = r]
          /\ Answer(r, 200)
       \/ /\ ~Editable(r)
          /\ UNCHANGED events
          /\ Answer(r, 404)
    /\ UNCHANGED <<inputs, tickets, drafts, request, role>>

\* One query; an admin need not name an event that exists.  Faulty variant: the
\* role is asked, and not whose event it is.
MayMintTickets_ByRole(r) == MayCreate(users[Caller(r)].role)
MayMintTickets(r) ==
    \/ users[Caller(r)].role = "admin"
    \/ /\ users[Caller(r)].role = "organizer"
       /\ events[Event(r)] # NoRow /\ events[Event(r)].owner = Caller(r)

CheckMint(r) ==
    /\ pc[r] = "check" /\ request[r].kind = "mint"
    /\ IF MayMintTickets(r) THEN Goto(r, "mint") ELSE Answer(r, 403)
    /\ UNCHANGED <<inputs, events, tickets, drafts, request, role>>

Blank(t) == tickets[t] = NoRow /\ \A r \in Requests : t \notin drafts[r]
NewTicket(r) == [event |-> Event(r), by |-> r, status |-> "available", user |-> NoUser]
WithTickets(r, new) == [t \in Tickets |-> IF t \in new THEN NewTicket(r) ELSE tickets[t]]

\* One INSERT of the loop.  Faulty variant: outside the transaction.
InsertTicket_AutoCommit(r) ==
    /\ pc[r] = "mint"
    /\ \E t \in Tickets :
         /\ Blank(t)
         /\ drafts' = [drafts EXCEPT ![r] = @ \cup {t}]
         /\ tickets' = WithTickets(r, {t})
    /\ UNCHANGED <<inputs, events, request, role, pc, answer>>
InsertTicket(r) ==
    /\ pc[r] = "mint" /\ Cardinality(drafts[r]) < request[r].quantity
    /\ events[Event(r)] # NoRow
    /\ \E t \in Tickets :
         /\ Blank(t)
         /\ drafts' = [drafts EXCEPT ![r] = @ \cup {t}]
    /\ UNCHANGED <<inputs, events, tickets, request, role, pc, answer>>

Complete(r) == Cardinality(drafts[r]) = request[r].quantity

CommitTickets(r) ==
    /\ pc[r] = "mint" /\ Complete(r)
    /\ tickets' = WithTickets(r, drafts[r])
    /\ drafts' = [drafts EXCEPT ![r] = {}]
    /\ \/ Answer(r, 201)
       \/ "commit" \in Faults /\ Answer(r, 500)
    /\ UNCHANGED <<inputs, events, request, role>>

\* A statement fails, the foreign key of a ticket without an event among them, or
\* the service dies; an open transaction is rolled back.
RequestFails(r) ==
    /\ \/ "database" \in Faults /\ pc[r] \in {"check", "write", "mint"}
       \/ pc[r] = "mint" /\ events[Event(r)] = NoRow
    /\ drafts' = [drafts EXCEPT ![r] = {}]
    /\ Answer(r, 500)
    /\ UNCHANGED <<inputs, events, tickets, request, role>>

-----------------------------------------------------------------------------
(* Sales, and the reads.                                                   *)

OnSale(t) == tickets[t] # NoRow /\ tickets[t].status = "available"

PurchaseTicket(u, t) ==
    /\ u \in tokens /\ OnSale(t)
    /\ tickets' = [tickets EXCEPT ![t].status = "purchased", ![t].user = u]
    /\ UNCHANGED <<inputs, events, drafts, request, role, pc, answer>>

\* UPDATE tickets SET status = 'available', user_id = NULL.  Faulty variants: the
\* buyer is left in the row; the status that the CHECK of the table also allows.
Returned_KeepsBuyer(row) == [row EXCEPT !.status = "available"]
Returned_Cancelled(row) == [row EXCEPT !.status = "cancelled", !.user = NoUser]
Returned(row) == [row EXCEPT !.status = "available", !.user = NoUser]

CancelTicket(u, t) ==
    /\ u \in tokens
    /\ tickets[t] # NoRow /\ tickets[t].status = "purchased" /\ tickets[t].user = u
    /\ tickets' = [tickets EXCEPT ![t] = Returned(@)]
    /\ UNCHANGED <<inputs, events, drafts, request, role, pc, answer>>

\* What each read finds.  A search (GET /events?q=) finds some of the events.
GetEvents == {e \in Events : events[e] # NoRow}
GetEvent(e) == GetEvents \cap {e}
ListAvailableTickets(e) == {t \in Tickets : OnSale(t) /\ tickets[t].event = e}
GetUserTickets(u) ==
    {t \in Tickets : /\ tickets[t] # NoRow
                     /\ tickets[t].user = u /\ tickets[t].status = "purchased"}
GetTicketReceipt(u) == {t \in Tickets : tickets[t] # NoRow /\ tickets[t].user = u}

\* A row of MyEvents.
TicketsOf(e) == {t \in Tickets : tickets[t] # NoRow /\ tickets[t].event = e}
Figures(e) ==
    [total     |-> Cardinality(TicketsOf(e)),
     sold      |-> Cardinality({t \in TicketsOf(e) : tickets[t].status = "purchased"}),
     available |-> Cardinality({t \in TicketsOf(e) : tickets[t].status = "available"})]

-----------------------------------------------------------------------------
\* Whether the caller can do now what r asks for: the roles' definition.
Entitled(r) ==
    LET held == users[Caller(r)].role
        owns == Event(r) \in Events /\ events[Event(r)] # NoRow
                  /\ events[Event(r)].owner = Caller(r)
    IN  \/ request[r].kind = "create" /\ held # "attendee"
        \/ request[r].kind = "edit" /\ (held = "admin" \/ owns)
        \/ request[r].kind = "mint" /\ (held = "admin" \/ (held = "organizer" /\ owns))

Observe ==
    could' = [r \in Requests |->
        IF pc[r] = "done" \/ pc'[r] = "idle" THEN could[r] ELSE could[r] \cup {Entitled(r)'}]

Write(r) == CreateEvent(r) \/ UpdateEvent(r)
Mint(r) == CheckMint(r) \/ InsertTicket(r) \/ CommitTickets(r)
Handle(r) == ReadRole(r) \/ Write(r) \/ Mint(r) \/ RequestFails(r)

Operate ==
    \/ \E u \in Users, new \in Roles : SetRole(u, new)
    \/ \E u \in Users, e \in Events : HandOver(e, u)

Account ==
    \/ \E u \in Users, s \in Spelling, p \in Passwords : RegisterUser(u, s, p)
    \/ \E s \in Spelling, p \in Passwords : LoginUser(s, p)
    \/ \E u \in Users : TokenExpires(u)

Trade == \E u \in Users, t \in Tickets : PurchaseTicket(u, t) \/ CancelTicket(u, t)

Step ==
    \/ Account \/ Operate \/ Trade
    \/ \E r \in Requests : Handle(r) \/ \E q \in Asked : Arrive(r, q)

Next == Step /\ Observe

Spec == Init /\ [][Next]_vars

-----------------------------------------------------------------------------
(* Properties.                                                             *)

TypeOK ==
    /\ users \in [Users -> UserRow \cup {NoRow}]
    /\ tokens \subseteq {u \in Users : Known(u)}
    /\ events \in [Events -> EventRow \cup {NoRow}]
    /\ tickets \in [Tickets -> TicketRow \cup {NoRow}]
    /\ drafts \in [Requests -> SUBSET Tickets]
    /\ request \in [Requests -> Asked \cup {NoRow}]
    /\ role \in [Requests -> Roles \cup {"none"}]
    /\ pc \in [Requests -> {"idle", "check", "write", "mint", "done"}]
    /\ answer \in [Requests -> {0, 200, 201, 403, 404, 500}]
    /\ could \in [Requests -> SUBSET BOOLEAN]

\* One account for an address, found however the address was typed when the account
\* was made and however it is typed at the login.  About RegisterUser, LoginUser
\* and UNIQUE (email).
FoundByAnySpelling ==
    \A u \in Users, s \in Spelling :
        Known(u) /\ users[u].email.address = s.address => Lookup(s) = {u}

\* What a request is granted, its caller could do at some moment while it ran,
\* whatever the operator changed meanwhile: no role or owner from before the request
\* is relied on.  It bounds the window between check and write and does not close
\* it: a role taken away in between is still honoured, in UpdateEvent as in
\* CreateTickets.  About userRole, MayMintTickets and the WHERE of UpdateEvent.
GrantsAreTimely ==
    \A r \in Requests : answer[r] \in {200, 201} => TRUE \in could[r]

\* A mint puts all of its tickets on sale or none, for an event that exists; all of
\* them if it is answered 201.  About the transaction around the loop.
MintedWhole ==
    \A r \in Requests :
        LET minted == {t \in Tickets : tickets[t] # NoRow /\ tickets[t].by = r}
        IN  /\ minted # {} => /\ Cardinality(minted) = request[r].quantity
                              /\ GetEvent(Event(r)) # {}
            /\ answer[r] = 201 /\ request[r].kind = "mint" => minted # {}

ShownToOne(t) ==
    LET holders == {u \in Users : t \in GetUserTickets(u)}
    IN  /\ holders = {} <=> t \in ListAvailableTickets(tickets[t].event)
        /\ \A u, v \in holders : u = v
        /\ \A u \in Users : t \in GetTicketReceipt(u) <=> u \in holders

FiguresAgree(e) ==
    LET held == {t \in TicketsOf(e) : \E u \in Users : t \in GetUserTickets(u)}
    IN  Figures(e) = [total     |-> Cardinality(held \cup ListAvailableTickets(e)),
                      sold      |-> Cardinality(held),
                      available |-> Cardinality(ListAvailableTickets(e))]

\* The reads agree, whose queries count and filter differently.  A ticket is on the
\* list of its event or on that of one customer, and its receipt is to be had by that
\* customer alone, although GetTicketReceipt does not look at the status; and the
\* organiser's figures count the same tickets, and no other.  About the columns that a
\* sale and a cancellation write.
ShownOnce ==
    /\ \A t \in Tickets : tickets[t] # NoRow => ShownToOne(t)
    /\ \A e \in GetEvents : FiguresAgree(e)
=============================================================================
