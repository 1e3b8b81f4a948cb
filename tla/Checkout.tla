------------------------------ MODULE Checkout ------------------------------
(***************************************************************************)
(* The checkout page of one browser (CheckoutForm.tsx, UserContext.tsx),   *)
(* behind which the gateway and IdempotencyKeys answer.  A form is one     *)
(* mounted PaymentForm; an attempt is one submission of it, and carries    *)
(* the payment method that Stripe makes for that submission.  Tabs share   *)
(* the token in localStorage.                                              *)
(***************************************************************************)
EXTENDS IdempotencyKeys, Sequences

CONSTANTS
    Forms,     \* mounts of PaymentForm
    NoUser,    \* localStorage holds no token
    NoKey      \* idempotencyKey.current === null

ASSUME CheckoutAssumption ==
    /\ Attempts \subseteq Bodies
    /\ NoUser \notin Users
    /\ NoKey \notin Keys

VARIABLES
    token,       \* the user whose token localStorage holds
    mounted,     \* the forms on a page
    stage,       \* how far handleSubmit of each form is
    key,         \* idempotencyKey.current of each form
    submissions, \* the attempts each form made, in order
    said         \* the sentence that the form, or the page it leads to, shows

page == <<token, mounted, stage, key, submissions, said>>
cvars == <<vars, page>>

\* submitting is true from the click to the finally block.
Submitting == {"paying", "waiting"}
Current(f) == submissions[f][Len(submissions[f])]
Submitted(a) == \E f \in Forms : \E i \in DOMAIN submissions[f] : submissions[f][i] = a

CInit ==
    /\ Init
    /\ token = NoUser
    /\ mounted = {}
    /\ stage = [f \in Forms |-> "new"]
    /\ key = [f \in Forms |-> NoKey]
    /\ submissions = [f \in Forms |-> <<>>]
    /\ said = [f \in Forms |-> "nothing"]

-----------------------------------------------------------------------------
(* The session: setToken, in this tab or another one.                      *)

SignIn(u) ==
    /\ token # u
    /\ token' = u
    /\ UNCHANGED <<vars, mounted, stage, key, submissions, said>>

\* CheckoutForm returns before PaymentForm: the forms of every tab are unmounted.
SignOut ==
    /\ token # NoUser
    /\ token' = NoUser
    /\ mounted' = {}
    /\ UNCHANGED <<vars, stage, key, submissions, said>>

Mount(f) ==
    /\ stage[f] = "new" /\ token # NoUser
    /\ stage' = [stage EXCEPT ![f] = "idle"]
    /\ mounted' = mounted \cup {f}
    /\ UNCHANGED <<vars, token, key, submissions, said>>

\* A navigation within the app leaves handleSubmit running; a reload does not.
Leave(f) ==
    /\ f \in mounted
    /\ mounted' = mounted \ {f}
    /\ \/ UNCHANGED stage
       \/ stage' = [stage EXCEPT ![f] = "gone"]
    /\ UNCHANGED <<vars, token, key, submissions, said>>

-----------------------------------------------------------------------------
(* handleSubmit.                                                           *)

Unused == {k \in Keys : \A f \in Forms : key[f] # k}

\* crypto.randomUUID, once per form.  Faulty variant: once per submission.
KeyFor_EachSubmit(f) == CHOOSE k \in Unused : TRUE
KeyFor(f) == IF key[f] = NoKey THEN CHOOSE k \in Unused : TRUE ELSE key[f]

Submit(f) ==
    /\ f \in mounted /\ stage[f] = "idle"
    /\ \E a \in Attempts : ~Submitted(a)
    /\ key[f] = NoKey => Unused # {}
    /\ submissions' = [submissions EXCEPT
         ![f] = Append(@, CHOOSE a \in Attempts : ~Submitted(a))]
    /\ key' = [key EXCEPT ![f] = KeyFor(f)]
    /\ stage' = [stage EXCEPT ![f] = "paying"]
    /\ said' = [said EXCEPT ![f] = "nothing"]
    /\ UNCHANGED <<vars, token, mounted>>

\* setError, or the navigation to My tickets; then the finally block.  Faulty
\* variant: setSubmitting(false) is forgotten.
Say_StillSubmitting(f, sentence) ==
    /\ said' = [said EXCEPT ![f] = sentence]
    /\ UNCHANGED <<token, mounted, stage, key, submissions>>
Say(f, sentence) ==
    /\ said' = [said EXCEPT ![f] = sentence]
    /\ stage' = [stage EXCEPT ![f] = "idle"]
    /\ UNCHANGED <<token, mounted, key, submissions>>

\* createPaymentMethod reports an error.
CardRejected(f) ==
    /\ stage[f] = "paying"
    /\ Say(f, "card")
    /\ UNCHANGED vars

\* Stripe makes a new payment method at each call.  Faulty variant: the form keeps
\* the first one, so that its requests are all the same.
PaymentMethod_Kept(f) == submissions[f][1]
PaymentMethod(f) == Current(f)

Send(f) ==
    /\ stage[f] = "paying" /\ token # NoUser
    /\ Arrive(Current(f), [key |-> key[f], user |-> token, body |-> PaymentMethod(f)])
    /\ stage' = [stage EXCEPT ![f] = "waiting"]
    /\ UNCHANGED <<token, mounted, key, submissions, said>>

\* No token, or one the gateway takes for expired: the service sees nothing.
Unauthorized(f) ==
    /\ stage[f] = "paying"
    /\ Say(f, "expired")
    /\ UNCHANGED vars

\* The sentence for each status.  Faulty variant: res.ok is not looked at, as if
\* fetch failed for a status that is an error.
Sentence_AnyAnswer(code) == IF code > 0 THEN "confirmed" ELSE "failed"
Sentence(code) ==
    CASE code = 200 -> "confirmed"
      [] code = 409 -> "soldout"
      [] code = 402 -> "declined"
      [] code = 422 -> "changed"
      [] code = 502 -> "unreachable"
      [] OTHER -> "failed"

Hear(f) ==
    /\ stage[f] = "waiting"
    /\ pc[Current(f)] = "done"
    /\ Say(f, Sentence(status[Current(f)]))
    /\ UNCHANGED vars

\* The connection between gateway and service breaks, or the service dies: the
\* reverse proxy answers 502.
BadGateway(f) ==
    /\ stage[f] = "waiting"
    /\ Say(f, Sentence(502))
    /\ UNCHANGED vars

LearnOfDeath(f) == stage[f] = "waiting" /\ pc[Current(f)] = "dead" /\ BadGateway(f)

\* The catch block: the browser's own connection breaks.
LoseConnection(f) ==
    /\ stage[f] \in Submitting
    /\ Say(f, "lost")
    /\ UNCHANGED vars

-----------------------------------------------------------------------------
ServeAttempt(a) == Serve(a) /\ UNCHANGED page
KillAttempt(a) == Die(a) /\ UNCHANGED page

CNext ==
    \/ \E u \in Users : SignIn(u)
    \/ SignOut
    \/ \E f \in Forms :
         \/ Mount(f) \/ Leave(f)
         \/ Submit(f) \/ CardRejected(f) \/ Send(f)
         \/ Unauthorized(f) \/ Hear(f) \/ BadGateway(f) \/ LoseConnection(f)
    \/ \E a \in Attempts : ServeAttempt(a) \/ KillAttempt(a)

CSpec == CInit /\ [][CNext]_cvars

\* Every service answers what it has begun, or its connection breaks; Stripe
\* answers; the browser runs its callbacks.
CFairness ==
    /\ \A a \in Attempts : WF_cvars(ServeAttempt(a))
    /\ \A f \in Forms :
         /\ WF_cvars(Send(f) \/ Unauthorized(f))
         /\ WF_cvars(Hear(f) \/ LearnOfDeath(f))

CLiveSpec == CSpec /\ CFairness

-----------------------------------------------------------------------------
(* Properties.                                                             *)

CTypeOK ==
    /\ TypeOK
    /\ token \in Users \cup {NoUser}
    /\ mounted \subseteq Forms
    /\ stage \in [Forms -> {"new", "idle", "gone"} \cup Submitting]
    /\ key \in [Forms -> Keys \cup {NoKey}]
    /\ submissions \in [Forms -> Seq(Attempts)]
    /\ said \in [Forms -> {"nothing", "confirmed", "soldout", "declined", "changed",
                           "unreachable", "expired", "failed", "card", "lost"}]

SubmittedBy(f, a) == \E i \in DOMAIN submissions[f] : submissions[f][i] = a

\* "Your card is charged once. Retrying a failed request will not charge you
\* twice": whatever is lost, and however often a form is submitted, also by
\* another user, its submissions make one charge.  About the key of the form.
OneChargePerForm ==
    \A f \in Forms : \A i, j \in intents :
        SubmittedBy(f, i.by) /\ SubmittedBy(f, j.by) => i = j

\* Of "Payment received. Your ticket is confirmed" the first half: with a provider that
\* looks at the parameters, the charge is the one of this very submission, and of its
\* payment method, not that of an earlier one or of another user of the browser.  The
\* second half the code does not keep: a stale release or a cancellation during the
\* charge takes the seat, and PurchaseTicket answers 200 all the same (TicketSales).
ConfirmationIsTrue ==
    \A f \in Forms : said[f] = "confirmed" =>
        \E i \in intents : /\ i.key = KeyOf(Current(f))
                           /\ ParamsChecked => i.by = Current(f)

\* "Sold out ... Nothing was charged" is true of all submissions of the form,
\* also of one whose connection was lost and that still runs: the middleware's own
\* 409, for a request in progress, does not reach the form.  The exception is a
\* charge whose answer the provider's client did not get, which counts as failed.
SoldOutIsTrue ==
    \A f \in Forms : said[f] = "soldout" =>
        \A i \in intents : SubmittedBy(f, i.by) => status[i.by] = 502

\* The page does not stay at "Processing".
NeverStuck ==
    \A f \in Forms : stage[f] \in Submitting ~> stage[f] \notin Submitting
=============================================================================
