--------------------------- MODULE CheckoutProofs ---------------------------
(***************************************************************************)
(* Proofs about Checkout, for any number of forms, submissions, keys and   *)
(* users and any set of faults.  The page is shown to be a client of       *)
(* IdempotencyKeys, and inherits what is proved of the keys.               *)
(***************************************************************************)
EXTENDS Checkout, IdempotencyKeysProofs

Stages == {"new", "idle", "gone"} \cup Submitting

(* The variables of the page have their types, but for what it says, which *)
(* is of no consequence for what it does.                                  *)
PageTyped ==
    /\ token \in Users \cup {NoUser}
    /\ key \in [Forms -> Keys \cup {NoKey}]
    /\ submissions \in [Forms -> Seq(Attempts)]
    /\ stage \in [Forms -> Stages]

(* A submission belongs to one form and goes out with the key of the form; *)
(* a form that is about to send has submitted.                             *)
Keyed ==
    /\ \A f \in Forms : stage[f] = "paying" => submissions[f] # <<>> /\ key[f] \in Keys
    /\ \A f, g \in Forms, a \in Attempts : SubmittedBy(f, a) /\ SubmittedBy(g, a) => f = g
    /\ \A f \in Forms, a \in Attempts : SubmittedBy(f, a) /\ Made(a) => KeyOf(a) = key[f]
    /\ \A a \in Attempts : Made(a) => Submitted(a)

CInv == PageTyped /\ Keyed

-----------------------------------------------------------------------------
(* The submission that a form is about to send is one of its own.          *)
LEMMA CurrentIsSubmitted ==
    ASSUME PageTyped, Keyed, NEW f \in Forms, stage[f] = "paying"
    PROVE  Current(f) \in Attempts /\ SubmittedBy(f, Current(f)) /\ key[f] \in Keys
<1>1. submissions[f] \in Seq(Attempts) /\ submissions[f] # <<>> /\ key[f] \in Keys
  BY DEF PageTyped, Keyed
<1>2. Len(submissions[f]) \in DOMAIN submissions[f]
  BY <1>1
<1> QED BY <1>1, <1>2 DEF Current, SubmittedBy

(* What a step of the page does to the attempts is a step of them.         *)
LEMMA PageSteps ==
    ASSUME PageTyped, Keyed, [CNext]_cvars
    PROVE  [Next]_vars
<1>1. CASE UNCHANGED cvars
  BY <1>1 DEF cvars
<1>2. ASSUME NEW u \in Users, SignIn(u) PROVE UNCHANGED vars
  BY <1>2 DEF SignIn
<1>3. CASE SignOut
  BY <1>3 DEF SignOut
<1>4. ASSUME NEW f \in Forms, Send(f) PROVE Next
  <2>1. Current(f) \in Attempts /\ key[f] \in Keys /\ token \in Users
    BY <1>4, CurrentIsSubmitted DEF Send, PageTyped
  <2>2. PaymentMethod(f) \in Bodies
    BY <2>1, CheckoutAssumption DEF PaymentMethod
  <2>3. [key |-> key[f], user |-> token, body |-> PaymentMethod(f)]
          \in [key : Keys, user : Users, body : Bodies]
    BY <2>1, <2>2
  <2> QED BY <1>4, <2>1, <2>3 DEF Send, Next
<1>5. ASSUME NEW f \in Forms,
             \/ Mount(f) \/ Leave(f) \/ Submit(f) \/ CardRejected(f) \/ Unauthorized(f)
             \/ Hear(f) \/ BadGateway(f) \/ LoseConnection(f)
      PROVE  UNCHANGED vars
  BY <1>5 DEF Mount, Leave, Submit, CardRejected, Unauthorized, Hear, BadGateway, LoseConnection
<1>6. ASSUME NEW a \in Attempts, ServeAttempt(a) \/ KillAttempt(a) PROVE Next
  BY <1>6 DEF ServeAttempt, KillAttempt, Next
<1> QED BY <1>1, <1>2, <1>3, <1>4, <1>5, <1>6 DEF CNext

-----------------------------------------------------------------------------
(* An action that leaves keys and submissions alone, and that lets no form *)
(* begin to pay, keeps CInv if requests are kept.                          *)
LEMMA Quietly ==
    ASSUME CInv,
           UNCHANGED <<key, submissions, request>>,
           token' \in Users \cup {NoUser},
           stage' \in [Forms -> Stages],
           \A f \in Forms : stage'[f] = "paying" => stage[f] = "paying"
    PROVE  CInv'
  BY DEF CInv, PageTyped, Keyed, Submitted, SubmittedBy, Made, KeyOf

LEMMA SaysQuietly ==
    ASSUME CInv, NEW f \in Forms, NEW s, Say(f, s), UNCHANGED vars
    PROVE  CInv'
<1>1. stage' \in [Forms -> Stages] /\ \A g \in Forms : stage'[g] = "paying" => stage[g] = "paying"
  BY DEF CInv, PageTyped, Say, Stages
<1>2. UNCHANGED <<key, submissions, request, token>>
  BY DEF Say, vars
<1> QED BY <1>1, <1>2, Quietly DEF CInv, PageTyped

(* A new submission is of no other form; if the key is new as well, no     *)
(* request of the form has gone out yet.                                   *)
LEMMA SubmitKeeps ==
    ASSUME CInv, TypeOK, NEW f \in Forms, Submit(f)
    PROVE  CInv'
<1> DEFINE a == CHOOSE x \in Attempts : ~Submitted(x)
<1>1. a \in Attempts /\ ~Submitted(a)
  BY DEF Submit
<1>2. submissions' = [submissions EXCEPT ![f] = Append(@, a)]
  BY DEF Submit
<1> HIDE DEF a
<1>3. key' = [key EXCEPT ![f] = KeyFor(f)] /\ key \in [Forms -> Keys \cup {NoKey}]
  BY DEF Submit, CInv, PageTyped
<1>4. key'[f] \in Keys /\ key' \in [Forms -> Keys \cup {NoKey}]
  <2>1. CASE key[f] = NoKey
    <3>1. Unused # {} /\ Unused \subseteq Keys
      BY <2>1 DEF Submit, Unused
    <3>2. (CHOOSE k \in Unused : TRUE) \in Keys
      BY <3>1
    <3> QED BY <1>3, <2>1, <3>2 DEF KeyFor
  <2>2. CASE key[f] # NoKey
    BY <1>3, <2>2 DEF KeyFor
  <2> QED BY <2>1, <2>2
<1>5. \A g \in Forms \ {f} : key'[g] = key[g] /\ submissions'[g] = submissions[g]
  BY <1>2 DEF Submit, CInv, PageTyped
<1>6. submissions[f] \in Seq(Attempts)
  BY DEF CInv, PageTyped
<1>7. submissions'[f] = Append(submissions[f], a)
  BY <1>2 DEF CInv, PageTyped
<1>8. submissions' \in [Forms -> Seq(Attempts)] /\ submissions'[f] # <<>>
  <2>1. Append(submissions[f], a) \in Seq(Attempts)
    BY <1>1, <1>6
  <2>2. Len(Append(submissions[f], a)) = Len(submissions[f]) + 1 /\ Len(submissions[f]) \in Nat
    BY <1>1, <1>6
  <2>3. Append(submissions[f], a) # <<>>
    BY <2>2
  <2> QED BY <2>1, <2>3, <1>2, <1>7 DEF CInv, PageTyped
<1>9. stage' \in [Forms -> Stages] /\ UNCHANGED <<token, request>>
  BY DEF Submit, vars, CInv, PageTyped, Stages, Submitting
<1>10. PageTyped'
  BY <1>4, <1>8, <1>9 DEF CInv, PageTyped
<1>11. \A g \in Forms, b \in Attempts :
         SubmittedBy(g, b)' <=> SubmittedBy(g, b) \/ (g = f /\ b = a)
  <2> SUFFICES ASSUME NEW g \in Forms, NEW b \in Attempts
               PROVE  SubmittedBy(g, b)' <=> SubmittedBy(g, b) \/ (g = f /\ b = a)
    OBVIOUS
  <2>1. CASE g # f
    BY <2>1, <1>5 DEF SubmittedBy
  <2>2. CASE g = f
    <3> DEFINE n == Len(submissions[f])
    <3>1. n \in Nat /\ DOMAIN submissions[f] = 1..n /\ DOMAIN submissions'[f] = 1..(n + 1)
      BY <1>1, <1>6, <1>7
    <3>2. submissions'[f][n + 1] = a
      BY <1>1, <1>6, <1>7
    <3>3. \A i \in 1..n : submissions'[f][i] = submissions[f][i]
      BY <1>1, <1>6, <1>7
    <3> HIDE DEF n
    <3>4. 1..(n + 1) = 1..n \cup {n + 1}
      BY <3>1
    <3> QED BY <2>2, <3>1, <3>2, <3>3, <3>4 DEF SubmittedBy
  <2> QED BY <2>1, <2>2
<1>12. \A g \in Forms : ~SubmittedBy(g, a)
  BY <1>1 DEF Submitted, SubmittedBy
<1>13. \A g \in Forms : stage'[g] = "paying" => submissions'[g] # <<>> /\ key'[g] \in Keys
  BY <1>4, <1>5, <1>8 DEF CInv, Keyed, Submit, PageTyped
<1>14. \A g, h \in Forms, b \in Attempts : SubmittedBy(g, b)' /\ SubmittedBy(h, b)' => g = h
  BY <1>1, <1>11, <1>12 DEF CInv, Keyed
<1>15. \A g \in Forms, b \in Attempts : SubmittedBy(g, b)' /\ Made(b)' => KeyOf(b)' = key'[g]
  <2> SUFFICES ASSUME NEW g \in Forms, NEW b \in Attempts, SubmittedBy(g, b)', Made(b)'
               PROVE  KeyOf(b)' = key'[g]
    OBVIOUS
  <2>1. Made(b) /\ KeyOf(b)' = KeyOf(b)
    BY <1>9 DEF Made, KeyOf
  <2>2. CASE SubmittedBy(g, b)
    <3>1. KeyOf(b) = key[g] /\ KeyOf(b) \in Keys
      BY <2>1, <2>2 DEF CInv, Keyed, TypeOK, Made, KeyOf, Request
    <3>2. key[g] # NoKey
      BY <3>1, CheckoutAssumption
    <3>3. key'[g] = key[g]
      BY <3>2, <1>3 DEF KeyFor
    <3> QED BY <2>1, <3>1, <3>3
  <2>3. CASE g = f /\ b = a
    <3>1. ~Made(a)
      BY <1>1 DEF CInv, Keyed
    <3> QED BY <2>1, <2>3, <3>1
  <2> QED BY <2>2, <2>3, <1>11
<1>16. \A b \in Attempts : Made(b)' => Submitted(b)'
  BY <1>9, <1>11 DEF CInv, Keyed, Made, Submitted, SubmittedBy
<1> QED BY <1>10, <1>13, <1>14, <1>15, <1>16 DEF CInv, Keyed

(* The attempt that goes out is the form's, with the form's key.           *)
LEMMA SendKeeps ==
    ASSUME CInv, TypeOK, NEW f \in Forms, Send(f)
    PROVE  CInv'
<1> DEFINE a == Current(f)
           r == [key |-> key[f], user |-> token, body |-> PaymentMethod(f)]
<1>1. a \in Attempts /\ SubmittedBy(f, a)
  BY CurrentIsSubmitted DEF CInv, Send
<1>2. request' = [request EXCEPT ![a] = r] /\ request \in [Attempts -> Request \cup {NoRequest}]
  BY DEF Send, Arrive, TypeOK
<1>3. r.key = key[f]
  OBVIOUS
<1> HIDE DEF r, a
<1>4. request'[a] = r /\ \A b \in Attempts \ {a} : request'[b] = request[b]
  BY <1>1, <1>2
<1>5. UNCHANGED <<key, submissions, token>>
  BY DEF Send
<1>6. stage' = [stage EXCEPT ![f] = "waiting"]
  BY DEF Send
<1>7. PageTyped'
  BY <1>5, <1>6 DEF CInv, PageTyped, Stages, Submitting
<1>8. \A g \in Forms : stage'[g] = "paying" => submissions'[g] # <<>> /\ key'[g] \in Keys
  BY <1>5, <1>6 DEF CInv, Keyed, PageTyped
<1>9. \A g, h \in Forms, b \in Attempts : SubmittedBy(g, b)' /\ SubmittedBy(h, b)' => g = h
  BY <1>5 DEF CInv, Keyed, SubmittedBy
<1>10. \A g \in Forms, b \in Attempts : SubmittedBy(g, b)' /\ Made(b)' => KeyOf(b)' = key'[g]
  <2> SUFFICES ASSUME NEW g \in Forms, NEW b \in Attempts, SubmittedBy(g, b)', Made(b)'
               PROVE  KeyOf(b)' = key'[g]
    OBVIOUS
  <2>1. SubmittedBy(g, b)
    BY <1>5 DEF SubmittedBy
  <2>2. CASE b = a
    <3>1. g = f
      BY <1>1, <2>1, <2>2 DEF CInv, Keyed
    <3> QED BY <1>3, <1>4, <1>5, <2>2, <3>1 DEF KeyOf
  <2>3. CASE b # a
    BY <1>4, <1>5, <2>1, <2>3 DEF CInv, Keyed, Made, KeyOf
  <2> QED BY <2>2, <2>3
<1>11. \A b \in Attempts : Made(b)' => Submitted(b)'
  BY <1>1, <1>4, <1>5 DEF CInv, Keyed, Made, Submitted, SubmittedBy
<1> QED BY <1>7, <1>8, <1>9, <1>10, <1>11 DEF CInv, Keyed

(* The service makes no requests.                                          *)
LEMMA ServiceKeeps ==
    ASSUME CInv, NEW a \in Attempts, ServeAttempt(a) \/ KillAttempt(a)
    PROVE  CInv'
<1>1. UNCHANGED request
  BY DEF ServeAttempt, KillAttempt, Serve, Lookup, Handle, Store, Reserve,
         ReserveUnacknowledged, Insert, KeyExists, ReserveFails, LoadNothing, Load, Claim,
         ClaimFails, ProviderCharges, ChargeRefused, ChargeError, ChargeAnswered, Release,
         CompleteKey, ReleaseKey, StoreFails, Die
<1>2. UNCHANGED page
  BY DEF ServeAttempt, KillAttempt
<1> QED BY <1>1, <1>2, Quietly DEF page, CInv, PageTyped

LEMMA CInvNext == CInv /\ TypeOK /\ [CNext]_cvars => CInv'
<1> SUFFICES ASSUME CInv, TypeOK, [CNext]_cvars PROVE CInv'
  OBVIOUS
<1>1. CASE UNCHANGED cvars
  BY <1>1, Quietly DEF cvars, vars, page, CInv, PageTyped
<1>2. ASSUME NEW u \in Users, SignIn(u) PROVE CInv'
  BY <1>2, Quietly DEF SignIn, vars, CInv, PageTyped
<1>3. CASE SignOut
  BY <1>3, Quietly DEF SignOut, vars, CInv, PageTyped
<1>4. ASSUME NEW f \in Forms, Mount(f) PROVE CInv'
  BY <1>4, Quietly DEF Mount, vars, CInv, PageTyped, Stages
<1>5. ASSUME NEW f \in Forms, Leave(f) PROVE CInv'
  BY <1>5, Quietly DEF Leave, vars, CInv, PageTyped, Stages
<1>6. ASSUME NEW f \in Forms, Submit(f) PROVE CInv'
  BY <1>6, SubmitKeeps
<1>7. ASSUME NEW f \in Forms,
             \/ CardRejected(f) \/ Unauthorized(f) \/ Hear(f) \/ BadGateway(f)
             \/ LoseConnection(f)
      PROVE  CInv'
  BY <1>7, SaysQuietly DEF CardRejected, Unauthorized, Hear, BadGateway, LoseConnection
<1>8. ASSUME NEW f \in Forms, Send(f) PROVE CInv'
  BY <1>8, SendKeeps
<1>9. ASSUME NEW a \in Attempts, ServeAttempt(a) \/ KillAttempt(a) PROVE CInv'
  BY <1>9, ServiceKeeps
<1> QED BY <1>1, <1>2, <1>3, <1>4, <1>5, <1>6, <1>7, <1>8, <1>9 DEF CNext

(* The invariant of the page is kept together with that of the keys.       *)
LEMMA CInvariance == CSpec => [](Inv /\ CInv) /\ [][Next]_vars
<1>1. CInit => CInv
  BY DEF CInit, Init, CInv, PageTyped, Keyed, Stages, Submitted, SubmittedBy, Made
<1>2. CInv /\ [CNext]_cvars => [Next]_vars
  BY PageSteps DEF CInv
<1>3. Inv /\ CInv /\ [CNext]_cvars => CInv'
  BY CInvNext DEF Inv
<1>5. CInit => Init
  BY DEF CInit
<1>6. Inv /\ [Next]_vars => Inv'
  BY InvStep
<1>7. Init => Inv
  BY InvInit
<1> QED BY <1>1, <1>2, <1>3, <1>5, <1>6, <1>7, PTL DEF CSpec

(* The page is one of the clients that IdempotencyKeys allows for, so that *)
(* all that holds of the keys holds behind the page.                       *)
LEMMA PageUsesTheKeys == CSpec => Spec
<1>1. CInit => Init
  BY DEF CInit
<1> QED BY <1>1, CInvariance, PTL DEF CSpec, Spec

(* What the browsers' requests bring about is what OnceByKey allows.       *)
THEOREM PageRunsOnce == CSpec => RunsOnce
  BY PageUsesTheKeys, RequestsRunOnce

(* However often a form is submitted, whatever is lost on the way and      *)
(* whoever is signed in meanwhile: its submissions make one charge.        *)
THEOREM FormsChargeOnce == CSpec => []OneChargePerForm
<1>1. Inv /\ CInv => OneChargePerForm
  <2> SUFFICES ASSUME Inv, CInv, NEW f \in Forms, NEW i \in intents, NEW j \in intents,
                      SubmittedBy(f, i.by), SubmittedBy(f, j.by)
               PROVE  i = j
    BY DEF OneChargePerForm
  <2>1. i.by \in Attempts /\ j.by \in Attempts
    BY DEF Inv, TypeOK
  <2>2. Made(i.by) /\ Made(j.by) /\ i.key = KeyOf(i.by) /\ j.key = KeyOf(j.by)
    BY DEF Inv, IntentsKeyed
  <2>3. i.key = j.key
    BY <2>1, <2>2 DEF CInv, Keyed
  <2> QED BY <2>3 DEF Inv, IntentsKeyed
<1> QED BY <1>1, CInvariance, PTL
-----------------------------------------------------------------------------
(* What the page says.  Stripe makes a payment method per submission, so    *)
(* that no two requests are equal: nothing is ever replayed to the page,    *)
(* and a row of the table can be told from the rows of other submissions.   *)
OwnBody == \A a \in Attempts : Made(a) => request[a].body = a

RowIsOf(a) == keys[KeyOf(a)] = Reservation(a) \/ keys[KeyOf(a)] = Completed(a)

(* Who was charged and has not failed keeps the key.                       *)
ChargesKeepKeys ==
    \A i \in intents :
        /\ pc[i.by] \in {"answer", "release", "store", "done", "dead"}
        /\ status[i.by] = 502 \/ (status[i.by] \in {0, 200} /\ RowIsOf(i.by))

(* Who was refused for want of a seat keeps the key as well.               *)
RefusalsKeepKeys ==
    \A a \in Attempts : Made(a) /\ status[a] = 409 => keys[KeyOf(a)] = Reservation(a)

(* A sentence is about an answer to the latest submission.                 *)
Heard(f, code) ==
    /\ submissions[f] # <<>> /\ Made(Current(f))
    /\ pc[Current(f)] = "done" /\ status[Current(f)] = code
Sentences == {"nothing", "confirmed", "soldout", "declined", "changed",
              "unreachable", "expired", "failed", "card", "lost"}
Spoken ==
    /\ mounted \subseteq Forms
    /\ said \in [Forms -> Sentences]
    /\ \A f \in Forms : stage[f] = "waiting" => submissions[f] # <<>> /\ Made(Current(f))
    /\ \A f \in Forms : said[f] = "confirmed" => Heard(f, 200)
    /\ \A f \in Forms : said[f] = "soldout" => Heard(f, 409)

Told == OwnBody /\ ChargesKeepKeys /\ RefusalsKeepKeys /\ Spoken

-----------------------------------------------------------------------------
LEMMA NoReplays == Inv /\ OwnBody => replayed = {}
<1> SUFFICES ASSUME Inv, OwnBody, NEW a \in replayed PROVE FALSE
  OBVIOUS
<1>1. PICK b \in Attempts : request[b] = request[a] /\ Bought(b)
  BY DEF Inv, ReplayIsOriginal
<1>2. a \in Attempts /\ Made(b)
  BY <1>1, Requests DEF Inv, TypeOK, InStep, Bought, Final
<1>3. a = b
  BY <1>1, <1>2 DEF OwnBody, Made
<1> QED BY <1>1, <1>3 DEF Bought

(* The latest submission is one of the form.                               *)
LEMMA CurrentOf ==
    ASSUME PageTyped, NEW f \in Forms, submissions[f] # <<>>
    PROVE  Current(f) \in Attempts /\ SubmittedBy(f, Current(f))
<1>1. submissions[f] \in Seq(Attempts)
  BY DEF PageTyped
<1>2. Len(submissions[f]) \in DOMAIN submissions[f]
  BY <1>1
<1> QED BY <1>1, <1>2 DEF Current, SubmittedBy

(* A row can be told by its body from those of other attempts.             *)
LEMMA RowsDiffer ==
    ASSUME Inv, OwnBody, NEW a \in Attempts, NEW b \in Attempts, Made(a), Made(b),
           Reservation(a) = Reservation(b) \/ Reservation(a) = Completed(b)
    PROVE  a = b
<1>1. pc[a] # "idle" /\ pc[b] # "idle"
  BY DEF Inv, TypeOK, Made
<1>2. Reservation(a).body = request[a].body /\ Reservation(b).body = request[b].body
  BY DEF Reservation
<1>3. Completed(b).body = request[b].body
  BY <1>1, CompletedRows DEF Inv
<1> QED BY <1>2, <1>3 DEF OwnBody

(* The step of one attempt does not take the row of another away, nor its  *)
(* own unless its answer is recorded.                                      *)
LEMMA RowsStay ==
    ASSUME Inv, OwnBody, NEW a \in Attempts, Acts(a), NEW b \in Attempts, Made(b)
    PROVE  /\ RowIsOf(b) /\ ~(a = b /\ KeyGivenBack(a)) => RowIsOf(b)'
           /\ /\ keys[KeyOf(b)] = Reservation(b)
              /\ ~(a = b /\ (KeyGivenBack(a) \/ KeyCompleted(a)))
              => keys'[KeyOf(b)] = Reservation(b)
<1>1. pc[b] # "idle"
  BY DEF Inv, TypeOK, Made
<1>2. /\ KeyOf(b) \in Keys /\ KeyOf(b)' = KeyOf(b)
      /\ Reservation(b)' = Reservation(b) /\ Completed(b)' = Completed(b)
  BY <1>1, Requests, RequestsKept, ActsAreSteps DEF Inv, Completed
<1>3. RowIsOf(b) => keys[KeyOf(b)] # NoRow
  BY <1>1, Requests, CompletedRows DEF Inv, RowIsOf
<1>4. CASE KeysKept
  BY <1>2, <1>4 DEF KeysKept, RowIsOf
<1>5. CASE KeyTaken(a)
  BY <1>2, <1>3, <1>5 DEF KeyTaken, RowIsOf, Inv, TypeOK
<1>6. CASE KeyCompleted(a) \/ KeyGivenBack(a)
  <2>1. pc[a] \in Running /\ pc[a] # "idle"
    BY <1>6 DEF KeyCompleted, KeyGivenBack, Running
  <2>2. Made(a) /\ keys[KeyOf(a)] = Reservation(a) /\ KeyOf(a) \in Keys
    BY <2>1, Requests DEF Inv, OneRunner
  <2>3. RowIsOf(b) /\ KeyOf(a) = KeyOf(b) => a = b
    BY <2>2, RowsDiffer DEF RowIsOf
  <2>4. KeyOf(a) # KeyOf(b) => keys'[KeyOf(b)] = keys[KeyOf(b)]
    BY <1>2, <1>6, <2>2 DEF KeyCompleted, KeyGivenBack, Inv, TypeOK
  <2>5. a = b /\ KeyCompleted(a) => keys'[KeyOf(b)] = Completed(b)
    BY <1>2 DEF KeyCompleted, Inv, TypeOK
  <2> QED BY <1>2, <1>6, <2>3, <2>4, <2>5 DEF RowIsOf
<1> QED BY <1>4, <1>5, <1>6, KeyChanges DEF Inv

-----------------------------------------------------------------------------
(* A charge is answered by success, or by 502.                             *)
LEMMA ChargesNext ==
    ASSUME Inv, OwnBody, ChargesKeepKeys, NEW a \in Attempts, Acts(a)
    PROVE  ChargesKeepKeys'
<1> USE DEF Goto, Finish, Respond
<1> DEFINE Kept(b) == /\ pc[b] \in {"answer", "release", "store", "done", "dead"}
                      /\ status[b] = 502 \/ (status[b] \in {0, 200} /\ RowIsOf(b))
<1> SUFFICES ASSUME NEW i \in intents' PROVE Kept(i.by)'
  BY DEF ChargesKeepKeys
<1>1. TypeOK /\ InStep /\ OneRunner
  BY DEF Inv
<1>2. ASSUME NEW b \in Attempts, Made(b), Kept(b), b # a PROVE Kept(b)'
  <2>1. RowIsOf(b) => RowIsOf(b)'
    BY <1>2, RowsStay
  <2> QED BY <1>1, <1>2, <2>1, OthersKept
<1>3. ASSUME Made(a), Kept(a) PROVE Kept(a)'
  <2>1. CASE ChargeAnswered(a) \/ Release(a) \/ StoreFails(a) \/ Die(a)
    <3>1. keys' = keys /\ request' = request
      BY <2>1 DEF ChargeAnswered, ChargeError, Release, StoreFails, Die
    <3>2. RowIsOf(a)' <=> RowIsOf(a)
      BY <3>1 DEF RowIsOf, KeyOf, Reservation, Completed
    <3> HIDE DEF Kept
    <3>3. /\ pc'[a] \in {"release", "store", "done", "dead"}
          /\ status'[a] = status[a] \/ (pc[a] = "answer" /\ status'[a] \in {200, 502})
      BY <1>1, <2>1 DEF ChargeAnswered, ChargeError, Release, StoreFails, Die, TypeOK
    <3>4. pc[a] = "answer" => status[a] = 0
      BY <1>1 DEF InStep
    <3> QED BY <1>3, <3>2, <3>3, <3>4 DEF Kept
  <2>2. CASE CompleteKey(a) \/ ReleaseKey(a)
    <3>1. pc'[a] = "done" /\ status' = status /\ pc[a] = "store"
      BY <1>1, <2>2 DEF CompleteKey, ReleaseKey, TypeOK
    <3>2. status[a] = 502 \/ ~KeyGivenBack(a)
      BY <1>3 DEF KeyGivenBack
    <3>3. status[a] = 502 \/ RowIsOf(a)'
      BY <1>3, <3>2, RowsStay
    <3> QED BY <1>3, <3>1, <3>3
  <2>3. pc[a] \in {"answer", "release", "store"}
    BY <1>3, DoneIsDone DEF Final
  <2> QED
    BY <2>1, <2>2, <2>3
    DEF Acts, Arrive, Serve, Lookup, Handle, Store, Reserve, ReserveUnacknowledged, Insert,
        KeyExists, ReserveFails, LoadNothing, Load, Claim, ClaimFails, ProviderCharges,
        ChargeRefused
<1>4. CASE i \in intents
  <2>1. i.by \in Attempts /\ Made(i.by) /\ Kept(i.by)
    BY <1>1, <1>4 DEF Inv, IntentsKeyed, ChargesKeepKeys, TypeOK
  <2> QED BY <1>2, <1>3, <2>1
<1>5. CASE i \notin intents
  <2>1. ProviderCharges(a) /\ i = [key |-> ForwardedKey(a), by |-> a]
    BY <1>5
    DEF Acts, Arrive, Serve, Lookup, Handle, Store, Reserve, ReserveUnacknowledged, Insert,
        KeyExists, ReserveFails, LoadNothing, Load, Claim, ClaimFails, ProviderCharges,
        ChargeRefused, ChargeError, ChargeAnswered, Release, CompleteKey, ReleaseKey, StoreFails,
        Die
  <2>2. i.by = a /\ pc'[a] = "answer" /\ status'[a] = 0
    BY <1>1, <2>1 DEF ProviderCharges, TypeOK, InStep
  <2>3. keys[KeyOf(a)] = Reservation(a)
    BY <1>1, <2>1 DEF ProviderCharges, OneRunner, Running, InHandler
  <2>4. keys' = keys /\ request' = request
    BY <2>1 DEF ProviderCharges
  <2>5. RowIsOf(a)'
    BY <2>3, <2>4 DEF RowIsOf, KeyOf, Reservation
  <2> QED BY <2>2, <2>5
<1> QED BY <1>4, <1>5

(* A refusal by 409 is the handler's own: the row is the reservation.      *)
LEMMA RefusalsNext ==
    ASSUME Inv, OwnBody, RefusalsKeepKeys, NEW a \in Attempts, Acts(a)
    PROVE  RefusalsKeepKeys'
<1> USE DEF Goto, Finish, Respond
<1> SUFFICES ASSUME NEW b \in Attempts, Made(b)', status'[b] = 409
             PROVE  (keys[KeyOf(b)] = Reservation(b))'
  BY DEF RefusalsKeepKeys
<1>1. TypeOK /\ InStep /\ OneRunner
  BY DEF Inv
<1>2. CASE Made(b) /\ status[b] = 409
  <2>1. keys[KeyOf(b)] = Reservation(b)
    BY <1>2 DEF RefusalsKeepKeys
  <2>2. ~(a = b /\ (KeyGivenBack(a) \/ KeyCompleted(a)))
    BY <1>2 DEF KeyGivenBack, KeyCompleted
  <2>3. KeyOf(b)' = KeyOf(b) /\ Reservation(b)' = Reservation(b)
    BY <1>1, <1>2, RequestsKept, ActsAreSteps
  <2> QED BY <1>2, <2>1, <2>2, <2>3, RowsStay
<1>3. CASE ~(Made(b) /\ status[b] = 409)
  <2>1. status[b] # 409
    BY <1>1, <1>3 DEF TypeOK, Made, InStep
  <2>2. b = a
    BY <1>1, <2>1, OthersKept
  <2>3. ClaimFails(a) \/ Load(a)
    BY <1>1, <2>1, <2>2
    DEF Acts, Arrive, Serve, Lookup, Handle, Store, Reserve, ReserveUnacknowledged, Insert,
        KeyExists, ReserveFails, LoadNothing, Claim, ProviderCharges, TypeOK,
        ChargeRefused, ChargeError, ChargeAnswered, Release, CompleteKey, ReleaseKey, StoreFails,
        Die
  <2>4. keys' = keys /\ request' = request
    BY <2>3 DEF ClaimFails, Load
  <2>5. CASE ClaimFails(a)
    <3>1. keys[KeyOf(a)] = Reservation(a)
      BY <1>1, <2>5 DEF ClaimFails, OneRunner, Running, InHandler
    <3> QED BY <2>2, <2>4, <3>1 DEF KeyOf, Reservation
  <2>6. CASE Load(a)
    <3> DEFINE row == keys[KeyOf(a)]
    <3>1. pc[a] = "load" /\ Loadable(a)
      BY <2>6 DEF Load
    <3>2. row \in KeyRow /\ row.user = request[a].user /\ Reservation(a) \in KeyRow
      BY <1>1, <3>1, Requests DEF Loadable, TypeOK
    <3>3. row.status \in {0, 200}
      BY <3>2 DEF KeyRow
    <3>4. row.body = request[a].body /\ row.status = 0
      BY <1>1, <2>2, <2>6, <3>3 DEF Load, TypeOK
    <3>5. row = Reservation(a)
      BY <3>2, <3>4 DEF KeyRow, Reservation
    <3> QED BY <2>2, <2>4, <3>5 DEF KeyOf, Reservation
  <2> QED BY <2>3, <2>5, <2>6
<1> QED BY <1>2, <1>3

-----------------------------------------------------------------------------
(* Every request that goes out carries the payment method of its attempt.  *)
LEMMA OwnBodyNext == CInv /\ TypeOK /\ OwnBody /\ [CNext]_cvars => OwnBody'
<1> SUFFICES ASSUME CInv, TypeOK, OwnBody, [CNext]_cvars, NEW a \in Attempts, Made(a)'
             PROVE  request'[a].body = a
  BY DEF OwnBody
<1>1. CASE Made(a)
  <2>1. [Next]_vars
    BY PageSteps DEF CInv
  <2> QED BY <1>1, <2>1, RequestsKept DEF OwnBody
<1>2. ASSUME NEW f \in Forms, Send(f), ~Made(a) PROVE request'[a].body = a
  BY <1>2 DEF Send, Arrive, PaymentMethod, TypeOK, Made
<1>3. ASSUME NEW b \in Attempts, ServeAttempt(b) \/ KillAttempt(b) PROVE request' = request
  BY <1>3
  DEF ServeAttempt, KillAttempt, Serve, Lookup, Handle, Store, Reserve,
      ReserveUnacknowledged, Insert, KeyExists, ReserveFails, LoadNothing, Load, Claim,
      ClaimFails, ProviderCharges, ChargeRefused, ChargeError, ChargeAnswered, Release,
      CompleteKey, ReleaseKey, StoreFails, Die
<1> QED
  BY <1>1, <1>2, <1>3
  DEF CNext, cvars, vars, Made, SignIn, SignOut, Mount, Leave, Submit, CardRejected,
      Unauthorized, Hear, BadGateway, LoseConnection

(* What is heard stays said of the latest submission while it is that.     *)
LEMMA HeardStays ==
    ASSUME CInv, Inv, [Next]_vars, NEW f \in Forms, NEW code,
           submissions'[f] = submissions[f], Heard(f, code)
    PROVE  Heard(f, code)'
<1>0. PICK a : a = Current(f)
  OBVIOUS
<1>1. a \in Attempts /\ Made(a) /\ pc[a] = "done" /\ status[a] = code /\ submissions[f] # <<>>
  BY <1>0, CurrentOf DEF CInv, Heard
<1>2. Current(f)' = a
  BY <1>0 DEF Current
<1>3. Made(a)'
  BY <1>1, RequestsKept DEF Inv
<1>4. pc'[a] = "done" /\ status'[a] = code
  BY <1>1, Steps, DoneIsDone, OthersKept DEF Inv, Final, vars
<1> QED BY <1>2, <1>3, <1>4 DEF Heard

(* A sentence that is no news of a seat may be said at any time.           *)
LEMMA SaysLittle ==
    ASSUME CInv, Inv, Spoken, NEW f \in Forms, UNCHANGED vars,
           NEW s \in Sentences \ {"confirmed", "soldout"}, Say(f, s)
    PROVE  Spoken'
<1>1. /\ submissions' = submissions /\ mounted' = mounted
      /\ said' = [said EXCEPT ![f] = s] /\ stage' = [stage EXCEPT ![f] = "idle"]
  BY DEF Say
<1>2. \A g \in Forms : (Heard(g, 200)' <=> Heard(g, 200)) /\ (Heard(g, 409)' <=> Heard(g, 409))
  BY <1>1 DEF Heard, Made, Current, vars
<1>3. \A g \in Forms : Made(Current(g))' <=> Made(Current(g))
  BY <1>1 DEF Made, Current, vars
<1> QED BY <1>1, <1>2, <1>3 DEF Spoken, CInv, PageTyped

(* The answer to the latest submission is put into words.                  *)
LEMMA HearsTrue ==
    ASSUME CInv, Inv, Spoken, NEW f \in Forms, Hear(f)
    PROVE  Spoken'
<1> DEFINE code == status[Current(f)]
<1>1. /\ stage[f] = "waiting" /\ pc[Current(f)] = "done" /\ UNCHANGED vars
      /\ Say(f, Sentence(code))
  BY DEF Hear
<1>2. submissions[f] # <<>> /\ Made(Current(f))
  BY <1>1 DEF Spoken
<1>3. code \in {0, 200, 402, 409, 422, 500, 502}
  BY <1>2, CurrentOf DEF CInv, Inv, TypeOK
<1> HIDE DEF code
<1>4. CASE Sentence(code) \notin {"confirmed", "soldout"}
  <2>1. Sentence(code) \in Sentences
    BY <1>3 DEF Sentence, Sentences
  <2> QED BY <1>1, <1>4, <2>1, SaysLittle
<1>5. CASE Sentence(code) \in {"confirmed", "soldout"}
  <2>1. /\ Sentence(code) = "confirmed" => Heard(f, 200)
        /\ Sentence(code) = "soldout" => Heard(f, 409)
    BY <1>1, <1>2, <1>3, <1>5 DEF code, Sentence, Heard
  <2>2. /\ submissions' = submissions /\ mounted' = mounted
        /\ said' = [said EXCEPT ![f] = Sentence(code)]
        /\ stage' = [stage EXCEPT ![f] = "idle"]
    BY <1>1 DEF Say
  <2>3. \A g \in Forms : (Heard(g, 200)' <=> Heard(g, 200)) /\ (Heard(g, 409)' <=> Heard(g, 409))
    BY <1>1, <2>2 DEF Heard, Made, Current, vars
  <2>4. \A g \in Forms : Made(Current(g))' <=> Made(Current(g))
    BY <1>1, <2>2 DEF Made, Current, vars
  <2>5. Sentence(code) \in Sentences
    BY <1>5 DEF Sentences
  <2> QED BY <2>1, <2>2, <2>3, <2>4, <2>5 DEF Spoken, CInv, PageTyped
<1> QED BY <1>4, <1>5

(* Steps that say nothing and submit nothing.                              *)
LEMMA SilentSteps ==
    ASSUME CInv, Inv, Spoken, [Next]_vars, UNCHANGED <<submissions, said>>,
           mounted' \subseteq Forms,
           \A f \in Forms : stage'[f] = "waiting" => stage[f] = "waiting"
    PROVE  Spoken'
<1>1. \A f \in Forms : (Heard(f, 200) => Heard(f, 200)') /\ (Heard(f, 409) => Heard(f, 409)')
  BY HeardStays
<1>2. ASSUME NEW f \in Forms, stage'[f] = "waiting"
      PROVE  submissions'[f] # <<>> /\ Made(Current(f))'
  <2>0. PICK a : a = Current(f)
    OBVIOUS
  <2>1. submissions[f] # <<>> /\ Made(a)
    BY <1>2, <2>0 DEF Spoken
  <2>2. a \in Attempts
    BY <2>0, <2>1, CurrentOf DEF CInv
  <2>3. Current(f)' = a
    BY <2>0 DEF Current
  <2>4. Made(a)'
    BY <2>1, <2>2, RequestsKept DEF Inv
  <2> QED BY <2>1, <2>3, <2>4
<1> QED BY <1>1, <1>2 DEF Spoken

LEMMA SpokenNext == CInv /\ Inv /\ Spoken /\ [CNext]_cvars => Spoken'
<1> SUFFICES ASSUME CInv, Inv, Spoken, [CNext]_cvars PROVE Spoken'
  OBVIOUS
<1>0. [Next]_vars
  BY PageSteps DEF CInv
<1>1. CASE UNCHANGED cvars
  BY <1>0, <1>1, SilentSteps DEF cvars, page, Spoken
<1>2. ASSUME NEW u \in Users, SignIn(u) PROVE Spoken'
  BY <1>0, <1>2, SilentSteps DEF SignIn, Spoken
<1>3. CASE SignOut
  BY <1>0, <1>3, SilentSteps DEF SignOut
<1>4. ASSUME NEW f \in Forms, Mount(f) \/ Leave(f) PROVE Spoken'
  BY <1>0, <1>4, SilentSteps DEF Mount, Leave, Spoken, CInv, PageTyped
<1>5. ASSUME NEW f \in Forms, Submit(f) PROVE Spoken'
  <2>1. /\ said' = [said EXCEPT ![f] = "nothing"] /\ stage' = [stage EXCEPT ![f] = "paying"]
        /\ mounted' = mounted /\ UNCHANGED vars
    BY <1>5 DEF Submit
  <2>2. \A g \in Forms \ {f} : submissions'[g] = submissions[g]
    BY <1>5 DEF Submit, CInv, PageTyped
  <2>3. \A g \in Forms \ {f} : (Heard(g, 200)' <=> Heard(g, 200)) /\ (Heard(g, 409)' <=> Heard(g, 409))
    BY <2>1, <2>2 DEF Heard, Made, Current, vars
  <2>4. \A g \in Forms \ {f} : Made(Current(g))' <=> Made(Current(g))
    BY <2>1, <2>2 DEF Made, Current, vars
  <2> QED BY <2>1, <2>2, <2>3, <2>4 DEF Spoken, CInv, PageTyped, Sentences
<1>6. ASSUME NEW f \in Forms, CardRejected(f) \/ Unauthorized(f) \/ BadGateway(f) \/ LoseConnection(f)
      PROVE  Spoken'
  <2>1. UNCHANGED vars /\ \E s \in {"card", "expired", "unreachable", "lost"} : Say(f, s)
    BY <1>6 DEF CardRejected, Unauthorized, BadGateway, LoseConnection, Sentence
  <2> QED BY <2>1, SaysLittle DEF Sentences
<1>7. ASSUME NEW f \in Forms, Hear(f) PROVE Spoken'
  BY <1>7, HearsTrue
<1>8. ASSUME NEW f \in Forms, Send(f) PROVE Spoken'
  <2>0. PICK a : a = Current(f)
    OBVIOUS
  <2>1. a \in Attempts /\ submissions[f] # <<>> /\ pc[a] = "idle"
    BY <1>8, <2>0, CurrentIsSubmitted DEF CInv, Send, Arrive, Keyed
  <2>2. /\ stage' = [stage EXCEPT ![f] = "waiting"] /\ UNCHANGED <<submissions, said, mounted>>
    BY <1>8 DEF Send
  <2>3. Made(a)'
    <3>1. pc'[a] = "reserve" /\ TypeOK'
      BY <1>0, <1>8, <2>0, <2>1, TypeNext DEF Send, Arrive, Goto, Inv, TypeOK
    <3> QED BY <2>1, <3>1 DEF TypeOK, Made
  <2>4. Current(f)' = a
    BY <2>0, <2>2 DEF Current
  <2>5. \A g \in Forms : (Heard(g, 200) => Heard(g, 200)') /\ (Heard(g, 409) => Heard(g, 409)')
    BY <1>0, <2>2, HeardStays
  <2>6. ASSUME NEW g \in Forms \ {f}, stage[g] = "waiting"
        PROVE  submissions'[g] # <<>> /\ Made(Current(g))'
    <3>0. PICK b : b = Current(g)
      OBVIOUS
    <3>1. submissions[g] # <<>> /\ Made(b)
      BY <2>6, <3>0 DEF Spoken
    <3>2. b \in Attempts
      BY <3>0, <3>1, CurrentOf DEF CInv
    <3>3. Current(g)' = b
      BY <2>2, <3>0 DEF Current
    <3>4. Made(b)'
      BY <1>0, <3>1, <3>2, RequestsKept DEF Inv
    <3> QED BY <2>2, <3>1, <3>3, <3>4
  <2> QED BY <2>1, <2>2, <2>3, <2>4, <2>5, <2>6 DEF Spoken, CInv, PageTyped
<1>9. ASSUME NEW a \in Attempts, ServeAttempt(a) \/ KillAttempt(a) PROVE Spoken'
  BY <1>0, <1>9, SilentSteps DEF ServeAttempt, KillAttempt, page, Spoken
<1> QED BY <1>1, <1>2, <1>3, <1>4, <1>5, <1>6, <1>7, <1>8, <1>9 DEF CNext

LEMMA ToldNext == Inv /\ CInv /\ Told /\ [CNext]_cvars => Told'
<1> SUFFICES ASSUME Inv, CInv, Told, [CNext]_cvars PROVE Told'
  OBVIOUS
<1>1. [Next]_vars
  BY PageSteps DEF CInv
<1>2. OwnBody' /\ Spoken'
  BY OwnBodyNext, SpokenNext DEF Told, Inv
<1>3. ChargesKeepKeys' /\ RefusalsKeepKeys'
  <2>1. ASSUME NEW a \in Attempts, Acts(a) PROVE ChargesKeepKeys' /\ RefusalsKeepKeys'
    BY <2>1, ChargesNext, RefusalsNext DEF Told
  <2>2. CASE UNCHANGED vars
    <3> USE <2>2 DEF vars, Told
    <3>1. ChargesKeepKeys'
      BY DEF ChargesKeepKeys, RowIsOf, KeyOf, Reservation, Completed
    <3>2. RefusalsKeepKeys'
      BY DEF RefusalsKeepKeys, Made, KeyOf, Reservation
    <3> QED BY <3>1, <3>2
  <2> QED BY <1>1, <2>1, <2>2, Steps
<1> QED BY <1>2, <1>3 DEF Told

LEMMA ToldInvariance == CSpec => [](Inv /\ CInv /\ Told)
<1>1. CInit => Told
  BY DEF CInit, Init, Told, OwnBody, ChargesKeepKeys, RefusalsKeepKeys, Spoken, Made, Sentences
<1> QED BY <1>1, ToldNext, CInvariance, PTL DEF CSpec

(* Every variable of the page and of the service behind it keeps its type. *)
THEOREM PageIsTyped == CSpec => []CTypeOK
<1>1. Inv /\ CInv /\ Told => CTypeOK
  BY DEF Inv, CInv, PageTyped, Told, Spoken, Sentences, Stages, CTypeOK
<1> QED BY <1>1, ToldInvariance, PTL

(* Who reads that the payment was received was charged, by a provider that *)
(* looks at the parameters for this very submission.                       *)
THEOREM ConfirmationsAreTrue == CSpec => []ConfirmationIsTrue
<1>1. Inv /\ CInv /\ Told => ConfirmationIsTrue
  <2> SUFFICES ASSUME Inv, CInv, Told, NEW f \in Forms, said[f] = "confirmed"
               PROVE  \E i \in intents : /\ i.key = KeyOf(Current(f))
                                         /\ ParamsChecked => i.by = Current(f)
    BY DEF ConfirmationIsTrue
  <2>1. Heard(f, 200)
    BY DEF Told, Spoken
  <2>2. Current(f) \in Attempts /\ status[Current(f)] = 200
    BY <2>1, CurrentOf DEF CInv, Heard
  <2>3. Bought(Current(f))
    BY <2>2, NoReplays DEF Told, Bought
  <2>4. PICK i \in intents :
             i.key = KeyOf(Current(f)) /\ (ParamsChecked => SameCall(i, Current(f)))
    BY <2>2, <2>3 DEF Inv, InStep, Paid
  (* Every submission has a body of its own. *)
  <2>5. request[i.by].body = i.by /\ request[Current(f)].body = Current(f)
    BY <2>1, <2>2, <2>4 DEF Heard, Told, OwnBody, Inv, TypeOK, IntentsKeyed
  <2> QED BY <2>4, <2>5 DEF SameCall
<1> QED BY <1>1, ToldInvariance, PTL

(* Who reads that the event is sold out was charged by no submission of    *)
(* the form, but for a charge whose answer the provider's client lost.     *)
THEOREM RefusalsAreTrue == CSpec => []SoldOutIsTrue
<1>1. Inv /\ CInv /\ Told => SoldOutIsTrue
  <2> SUFFICES ASSUME Inv, CInv, Told, NEW f \in Forms, said[f] = "soldout",
                      NEW i \in intents, SubmittedBy(f, i.by)
               PROVE  status[i.by] = 502
    BY DEF SoldOutIsTrue
  <2> DEFINE a == Current(f)
  <2>1. Made(a) /\ status[a] = 409 /\ submissions[f] # <<>>
    BY DEF Told, Spoken, Heard
  <2>2. a \in Attempts /\ SubmittedBy(f, a)
    BY <2>1, CurrentOf DEF CInv
  <2> HIDE DEF a
  <2>3. i.by \in Attempts /\ Made(i.by)
    BY DEF Inv, TypeOK, IntentsKeyed
  <2>4. KeyOf(i.by) = KeyOf(a)
    BY <2>1, <2>2, <2>3 DEF CInv, Keyed
  <2>5. keys[KeyOf(a)] = Reservation(a)
    BY <2>1, <2>2 DEF Told, RefusalsKeepKeys
  <2>6. status[i.by] = 502 \/ (status[i.by] # 409 /\ RowIsOf(i.by))
    BY DEF Told, ChargesKeepKeys
  <2>7. RowIsOf(i.by) => i.by = a
    BY <2>1, <2>2, <2>3, <2>4, <2>5, RowsDiffer DEF RowIsOf, Told
  <2> QED BY <2>1, <2>6, <2>7
<1> QED BY <1>1, ToldInvariance, PTL
=============================================================================
