------------------------------- MODULE Checkout -------------------------------
(***************************************************************************)
(* Buying: src/services/checkout.ts, src/models/order.ts,                  *)
(* src/services/stripe/customer.ts, and the two routes in front of them.   *)
(*                                                                         *)
(* The browser sends one intent and repeats it while it has no answer.  An *)
(* intent has one order, whose number is also the idempotency key under    *)
(* which Stripe is asked for a session; the customer the session belongs   *)
(* to is found, adopted or made on the way.  A request dies between any    *)
(* two of these calls, others overtake it, and Stripe forgets a key after  *)
(* a day, which is also how long a session can be paid.                    *)
(*                                                                         *)
(* One organization.  An order is known by its intent.  Stripe is          *)
(* external: it is what these files use of it.                             *)
(***************************************************************************)
EXTENDS Integers, FiniteSets

CONSTANTS
  Request,     \* requests at work at the same time
  Intent,      \* Idempotency-Key of the browser
  Terms,       \* product, price, currency and locale: the fingerprint
  Email,       \* of the owners who may manage billing
  Session,     \* Stripe's checkout sessions
  Customer,    \* Stripe's customers
  None,        \* null
  Lifetime,    \* how long a session can be paid: 24 hours
  KeyKept,     \* how long Stripe keeps an idempotency key at least: 24 hours
  Horizon,     \* bound: the last moment
  Faults,      \* bound: requests that die or throw
  Deletions    \* bound: customers deleted at Stripe

ASSUME CheckoutAssumption ==
  /\ None \notin Terms \union Email \union Session \union Customer \union Intent
  /\ IsFiniteSet(Session) /\ IsFiniteSet(Customer)
  /\ Lifetime \in Nat \ {0} /\ KeyKept \in Nat /\ Horizon \in Nat
  /\ Lifetime <= KeyKept
  /\ Faults \in Nat /\ Deletions \in Nat

VARIABLES
  order,        \* orders, by intent
  stored,       \* organizations.stripe_customer_id
  session,      \* Stripe: its sessions
  customer,     \* Stripe: its customers
  sessionKey,   \* Stripe: the key of each order, and what it answered
  customerKey,  \* Stripe: the key of the first customer (None) and of each replacement
  request,      \* what each request holds in memory
  now,
  faults, deletions,
  crossed       \* history: a customer was deleted that somebody went by, while somebody
                \* else went by another that was gone, or by none

stripe == <<session, customer, sessionKey, customerKey>>
vars == <<order, stored, stripe, request, now, faults, deletions, crossed>>

Opt(S) == S \union {None}

PC == {"idle", "insert", "find", "retrieve", "customer", "list", "mint", "remember",
       "create", "store", "return", "look", "told"}

OrderType == [terms : Opt(Terms), email : Opt(Email), session : Opt(Session), paid : BOOLEAN]
SessionType ==
  [status : {"none", "open", "complete", "paid"}, intent : Opt(Intent), shown : BOOLEAN,
   at : 0..Horizon]
CustomerType == [status : {"none", "live", "deleted"}, email : Opt(Email)]
SessionKeyType == [customer : Opt(Customer), session : Opt(Session), at : 0..Horizon]
CustomerKeyType == [email : Opt(Email), customer : Opt(Customer), at : 0..Horizon]
RequestType ==
  [pc : PC, intent : Opt(Intent), terms : Opt(Terms), email : Opt(Email),
   known : Opt(Customer), customer : Opt(Customer), session : Opt(Session),
   paid : BOOLEAN, threw : BOOLEAN, answer : {"none", "success", "processing", "failed"}]

NoOrder == [terms |-> None, email |-> None, session |-> None, paid |-> FALSE]
NoSession == [status |-> "none", intent |-> None, shown |-> FALSE, at |-> 0]
NoSessionKey == [customer |-> None, session |-> None, at |-> 0]
NoCustomerKey == [email |-> None, customer |-> None, at |-> 0]
Idle == [pc |-> "idle", intent |-> None, terms |-> None, email |-> None, known |-> None,
         customer |-> None, session |-> None, paid |-> FALSE, threw |-> FALSE,
         answer |-> "none"]

TypeOK ==
  /\ order \in [Intent -> OrderType]
  /\ stored \in Opt(Customer)
  /\ session \in [Session -> SessionType]
  /\ customer \in [Customer -> CustomerType]
  /\ sessionKey \in [Intent -> SessionKeyType]
  /\ customerKey \in [Opt(Customer) -> CustomerKeyType]
  /\ request \in [Request -> RequestType]
  /\ now \in 0..Horizon /\ faults \in 0..Faults /\ deletions \in 0..Deletions
  /\ crossed \in BOOLEAN

Init ==
  /\ order = [i \in Intent |-> NoOrder]
  /\ stored = None
  /\ session = [s \in Session |-> NoSession]
  /\ customer = [c \in Customer |-> [status |-> "none", email |-> None]]
  /\ sessionKey = [i \in Intent |-> NoSessionKey]
  /\ customerKey = [c \in Opt(Customer) |-> NoCustomerKey]
  /\ request = [q \in Request |-> Idle]
  /\ now = 0 /\ faults = 0 /\ deletions = 0 /\ crossed = FALSE

-----------------------------------------------------------------------------
(* Helpers. *)

Ordered(i) == order[i].terms # None
Elapsed(s) == now >= session[s].at + Lifetime
Live == {c \in Customer : customer[c].status = "live"}
Settled(s) == session[s].status \in {"complete", "paid"}

(* What a customer can still pay.                                          *)
Payable(s) == session[s].status = "open" /\ ~Elapsed(s)

Go(q, pc) == request' = [request EXCEPT ![q].pc = pc]
End(q) == request' = [request EXCEPT ![q] = Idle]

-----------------------------------------------------------------------------
(* createCheckoutSession.                                                  *)

(* The user and the organization are read first, its customer with it.     *)
Ask(q, i, t, e) ==
  /\ request[q] = Idle
  /\ request' = [request EXCEPT ![q] =
       [Idle EXCEPT !.pc = "insert", !.intent = i, !.terms = t, !.email = e, !.known = stored]]
  /\ UNCHANGED <<order, stored, stripe, now, faults, deletions, crossed>>

(* insertOrderForCheckoutIntent, unique by organization and intent.        *)
InsertOrder(q) ==
  LET r == request[q] IN
  /\ r.pc = "insert"
  /\ \/ /\ ~Ordered(r.intent)
        /\ order' = [order EXCEPT ![r.intent] =
             [NoOrder EXCEPT !.terms = r.terms, !.email = r.email]]
        /\ Go(q, "customer")
     \/ Ordered(r.intent) /\ Go(q, "find") /\ UNCHANGED order
  /\ UNCHANGED <<stored, stripe, now, faults, deletions, crossed>>

(* Mutant: the caller's email, not the one of the order. *)
FindOrderOwnEmail(q) ==
  LET r == request[q]
      row == order[r.intent] IN
  /\ r.pc = "find"
  /\ \/ (row.terms # r.terms \/ row.paid) /\ End(q)
     \/ /\ row.terms = r.terms /\ ~row.paid
        /\ request' = [request EXCEPT ![q] =
             [@ EXCEPT !.pc = IF row.session # None THEN "retrieve" ELSE "customer",
                       !.session = row.session]]
  /\ UNCHANGED <<order, stored, stripe, now, faults, deletions, crossed>>

(* Mutant: the stored session is not looked at. *)
FindOrderAgain(q) ==
  LET r == request[q]
      row == order[r.intent] IN
  /\ r.pc = "find"
  /\ \/ (row.terms # r.terms \/ row.paid) /\ End(q)
     \/ /\ row.terms = r.terms /\ ~row.paid
        /\ request' = [request EXCEPT ![q] = [@ EXCEPT !.pc = "customer", !.email = row.email]]
  /\ UNCHANGED <<order, stored, stripe, now, faults, deletions, crossed>>

(* findOrderByCheckoutIntent, and what the row alone decides: other terms  *)
(* are refused, a paid order is answered.  From here on the email is the   *)
(* one of the order.                                                       *)
FindOrder(q) ==
  LET r == request[q]
      row == order[r.intent] IN
  /\ r.pc = "find"
  /\ \/ (row.terms # r.terms \/ row.paid) /\ End(q)
     \/ /\ row.terms = r.terms /\ ~row.paid
        /\ request' = [request EXCEPT ![q] =
             [@ EXCEPT !.pc = IF row.session # None THEN "retrieve" ELSE "customer",
                       !.session = row.session, !.email = row.email]]
  /\ UNCHANGED <<order, stored, stripe, now, faults, deletions, crossed>>

(* checkoutResultForExistingSession: the page of the session, the page     *)
(* after it, or PAYMENT_SESSION_EXPIRED; nothing is written in any case.   *)
RetrieveSession(q) ==
  /\ request[q].pc = "retrieve"
  /\ End(q)
  /\ UNCHANGED <<order, stored, stripe, now, faults, deletions, crossed>>

(* Mutant: a key for every request. *)
SessionReplayNever(i) == FALSE

(* The key of an order answers what it answered before, and refuses        *)
(* another customer.  Stripe refuses a deleted customer.                   *)
SessionReplay(i) == sessionKey[i].session # None

CreateSession(q) ==
  LET r == request[q]
      i == r.intent IN
  /\ r.pc = "create"
  /\ \/ /\ SessionReplay(i) /\ sessionKey[i].customer = r.customer
        /\ request' = [request EXCEPT ![q].pc = "store", ![q].session = sessionKey[i].session]
        /\ UNCHANGED stripe
     \/ /\ ~SessionReplay(i) /\ r.customer \in Live
        /\ \E s \in Session :
             /\ session[s].status = "none"
             /\ session' = [session EXCEPT ![s] =
                  [NoSession EXCEPT !.status = "open", !.intent = i, !.at = now]]
             /\ sessionKey' = [sessionKey EXCEPT ![i] =
                  [customer |-> r.customer, session |-> s, at |-> now]]
             /\ request' = [request EXCEPT ![q].pc = "store", ![q].session = s]
        /\ UNCHANGED <<customer, customerKey>>
     \/ /\ IF SessionReplay(i) THEN sessionKey[i].customer # r.customer ELSE r.customer \notin Live
        /\ End(q)
        /\ UNCHANGED stripe
  /\ UNCHANGED <<order, stored, now, faults, deletions, crossed>>

(* updateOrderSession, and the answer: the browser goes to the page.       *)
UpdateOrderSession(q) ==
  LET r == request[q] IN
  /\ r.pc = "store"
  /\ order' = [order EXCEPT ![r.intent].session = r.session]
  /\ session' = [session EXCEPT ![r.session].shown = TRUE]
  /\ End(q)
  /\ UNCHANGED <<stored, customer, sessionKey, customerKey, now, faults, deletions, crossed>>

-----------------------------------------------------------------------------
(* getOrCreateCustomerIdForOrg.                                            *)

(* The billing portal asks for the customer too, under the email of the    *)
(* owner who opens it.                                                     *)
OpenPortal(q, e) ==
  /\ request[q] = Idle
  /\ request' = [request EXCEPT ![q] =
       [Idle EXCEPT !.pc = "customer", !.email = e, !.known = stored]]
  /\ UNCHANGED <<order, stored, stripe, now, faults, deletions, crossed>>

(* Where a request goes with its customer.                                 *)
With(q, c) ==
  request' = [request EXCEPT ![q] =
    IF @.intent = None THEN Idle ELSE [@ EXCEPT !.pc = "create", !.customer = c]]

(* The customer the organization knows, unless it is deleted.              *)
RetrieveCustomer(q) ==
  LET r == request[q] IN
  /\ r.pc = "customer"
  /\ \/ r.known \in Live /\ With(q, r.known)
     \/ r.known \notin Live /\ Go(q, "list")
  /\ UNCHANGED <<order, stored, stripe, now, faults, deletions, crossed>>

(* Mutant: nothing is adopted. *)
AdoptableNever(e) == {}

(* customers.list({email}) with the organization in the metadata.          *)
Adoptable(e) == {c \in Live : customer[c].email = e}

ListCustomers(q) ==
  LET r == request[q] IN
  /\ r.pc = "list"
  /\ \/ \E c \in Adoptable(r.email) :
          request' = [request EXCEPT ![q].pc = "remember", ![q].customer = c]
     \/ Adoptable(r.email) = {} /\ Go(q, "mint")
  /\ UNCHANGED <<order, stored, stripe, now, faults, deletions, crossed>>

CreateCustomer(q) ==
  LET r == request[q]
      used == customerKey[r.known] IN
  /\ r.pc = "mint"
  /\ \/ /\ used.customer # None /\ used.email = r.email
        /\ request' = [request EXCEPT ![q].pc = "remember", ![q].customer = used.customer]
        /\ UNCHANGED stripe
     \/ /\ used.customer = None
        /\ \E c \in Customer :
             /\ customer[c].status = "none"
             /\ customer' = [customer EXCEPT ![c] = [status |-> "live", email |-> r.email]]
             /\ customerKey' = [customerKey EXCEPT ![r.known] =
                  [email |-> r.email, customer |-> c, at |-> now]]
             /\ request' = [request EXCEPT ![q].pc = "remember", ![q].customer = c]
        /\ UNCHANGED <<session, sessionKey>>
     \/ used.customer # None /\ used.email # r.email /\ End(q) /\ UNCHANGED stripe
  /\ UNCHANGED <<order, stored, now, faults, deletions, crossed>>

(* rememberCustomerId: a write that fails is logged and forgotten.         *)
RememberCustomer(q) ==
  /\ request[q].pc = "remember"
  /\ \/ stored' = request[q].customer /\ UNCHANGED faults
     \/ faults < Faults /\ faults' = faults + 1 /\ UNCHANGED stored
  /\ With(q, request[q].customer)
  /\ UNCHANGED <<order, stripe, now, deletions, crossed>>

-----------------------------------------------------------------------------
(* resolveStripeCheckoutReturn: Stripe sends the browser back.             *)

Return(q, s) ==
  /\ request[q] = Idle
  /\ Settled(s)
  /\ request' = [request EXCEPT ![q] =
       [Idle EXCEPT !.pc = "return", !.intent = session[s].intent, !.session = s]]
  /\ UNCHANGED <<order, stored, stripe, now, faults, deletions, crossed>>

Tell(q, answer) ==
  request' = [request EXCEPT ![q].pc = "told", ![q].answer = answer]

(* The order is read, and that it is paid is remembered; a session that    *)
(* is not the stored one is refused.                                       *)
ReadReturn(q) ==
  LET r == request[q]
      row == order[r.intent] IN
  /\ r.pc = "return"
  /\ IF row.session \notin {None, r.session} THEN Tell(q, "failed")
     ELSE request' = [request EXCEPT ![q].pc = "look", ![q].paid = row.paid]
  /\ UNCHANGED <<order, stored, stripe, now, faults, deletions, crossed>>

(* Stripe is asked whatever the row says, and what the row said comes      *)
(* first in the answer.                                                    *)
LookReturn(q) ==
  LET r == request[q] IN
  /\ r.pc = "look"
  /\ Tell(q, IF r.paid THEN "success" ELSE IF Settled(r.session) THEN "processing" ELSE "failed")
  /\ UNCHANGED <<order, stored, stripe, now, faults, deletions, crossed>>

(* The database or Stripe does not answer, and the route's catch leaves    *)
(* the status it began with.                                               *)
ReturnThrows(q) ==
  /\ request[q].pc \in {"return", "look"}
  /\ faults < Faults
  /\ faults' = faults + 1
  /\ request' = [request EXCEPT ![q].pc = "told", ![q].answer = "failed", ![q].threw = TRUE]
  /\ UNCHANGED <<order, stored, stripe, now, deletions, crossed>>

Answered(q) ==
  /\ request[q].pc = "told"
  /\ End(q)
  /\ UNCHANGED <<order, stored, stripe, now, faults, deletions, crossed>>

-----------------------------------------------------------------------------
(* Stripe, and time. *)

Pay(s) ==
  /\ session[s].shown /\ Payable(s)
  /\ \E status \in {"complete", "paid"} : session' = [session EXCEPT ![s].status = status]
  /\ UNCHANGED <<order, stored, customer, sessionKey, customerKey, request, now, faults, deletions, crossed>>

(* A bank transfer that was under way arrives.                             *)
Settle(s) ==
  /\ session[s].status = "complete"
  /\ session' = [session EXCEPT ![s].status = "paid"]
  /\ UNCHANGED <<order, stored, customer, sessionKey, customerKey, request, now, faults, deletions, crossed>>

(* The webhook: markOrderPaidWithGrant finds the order in the metadata.    *)
MarkOrderPaid(s) ==
  /\ session[s].status = "paid"
  /\ ~order[session[s].intent].paid
  /\ order' = [order EXCEPT ![session[s].intent].paid = TRUE]
  /\ UNCHANGED <<stored, stripe, request, now, faults, deletions, crossed>>

(* No request is under way.                                                *)
Quiet == \A q \in Request : request[q] = Idle

(* Requests on their way to a customer, and what they and the organization *)
(* go by: the customer known, or the one about to be stored.               *)
Asking == {"insert", "find", "customer", "list", "mint", "remember"}

Held(k) ==
  \/ k = stored
  \/ \E q \in Request :
       \/ request[q].pc \in Asking /\ request[q].known = k
       \/ request[q].pc = "remember" /\ request[q].customer = k

(* Somebody deletes a customer at Stripe.                                  *)
DeleteCustomer(c) ==
  /\ deletions < Deletions
  /\ c \in Live
  /\ deletions' = deletions + 1
  /\ customer' = [customer EXCEPT ![c].status = "deleted"]
  /\ crossed' = (crossed \/ (Held(c) /\ \E k \in Opt(Customer) \ Live : Held(k)))
  /\ UNCHANGED <<order, stored, session, sessionKey, customerKey, request, now, faults>>

Old(at) == at + KeyKept <= now + 1

(* A unit of time is long for a request: none lasts from one to the next.  *)
(* Stripe may forget the keys that are old enough.                         *)
Tick ==
  /\ now < Horizon
  /\ Quiet
  /\ now' = now + 1
  /\ \E I \in SUBSET Intent, C \in SUBSET Opt(Customer) :
       /\ sessionKey' = [i \in Intent |->
            IF i \in I /\ Old(sessionKey[i].at) THEN NoSessionKey ELSE sessionKey[i]]
       /\ customerKey' = [c \in Opt(Customer) |->
            IF c \in C /\ Old(customerKey[c].at) THEN NoCustomerKey ELSE customerKey[c]]
  /\ UNCHANGED <<order, stored, session, customer, request, faults, deletions, crossed>>

(* The process dies; or, while buying, the database or Stripe does not     *)
(* answer.                                                                 *)
Fail(q) ==
  /\ request[q] # Idle
  /\ faults < Faults
  /\ faults' = faults + 1
  /\ End(q)
  /\ UNCHANGED <<order, stored, stripe, now, deletions, crossed>>

Work(q) ==
  \/ InsertOrder(q) \/ FindOrder(q) \/ RetrieveSession(q)
  \/ RetrieveCustomer(q) \/ ListCustomers(q) \/ CreateCustomer(q) \/ RememberCustomer(q)
  \/ CreateSession(q) \/ UpdateOrderSession(q)
  \/ ReadReturn(q) \/ LookReturn(q) \/ ReturnThrows(q) \/ Answered(q)

Next ==
  \/ \E q \in Request :
       \/ \E i \in Intent, t \in Terms, e \in Email : Ask(q, i, t, e)
       \/ \E e \in Email : OpenPortal(q, e)
       \/ \E s \in Session : Return(q, s)
       \/ Work(q) \/ Fail(q)
  \/ \E s \in Session : Pay(s) \/ Settle(s) \/ MarkOrderPaid(s)
  \/ \E c \in Customer : DeleteCustomer(c)
  \/ Tick

Spec == Init /\ [][Next]_vars

-----------------------------------------------------------------------------
(* Properties. *)

(* An intent is charged once, whoever repeats it, whatever dies in between *)
(* and however late: at any time at most one of its sessions is paid or    *)
(* can be.                                                                 *)
Chargeable(s) == Settled(s) \/ Payable(s)

ChargedOnce ==
  \A s, t \in Session :
    Chargeable(s) /\ Chargeable(t) /\ session[s].intent = session[t].intent => s = t

(* Who comes back from having paid is told the truth, even when the return *)
(* overtakes the webhook or a retry: that it failed only when a call of    *)
(* this very return threw, since the page that was paid stays the one the  *)
(* order knows; success only of an order that is paid (checkout.ts:158-174 *)
(* and the catch in front of it).                                          *)
ReturnIsHonest ==
  \A q \in Request : request[q].pc = "told" =>
    /\ request[q].answer = "failed" => request[q].threw
    /\ request[q].answer = "success" => order[request[q].intent].paid

(* The organization has one customer per email that bought for it: a crash *)
(* before the id was stored, two checkouts at once or a customer deleted   *)
(* under them strand none.  The exception is a deletion under requests     *)
(* that go by different customers, or one of them by none: they name their *)
(* replacements by different keys.                                         *)
OneCustomer ==
  crossed \/ \A c, d \in Live : customer[c].email = customer[d].email => c = d

(* What the comment of checkout.ts:405 promises, "a crash after Stripe     *)
(* succeeds but before the session id is persisted is therefore repairable *)
(* by the next request": whichever owner repeats the intent, the retry     *)
(* comes to Stripe with the customer of the session, which Stripe insists  *)
(* on.  As long as the organization has one customer and none was deleted. *)
Retry(i) == IF stored \in Live THEN {stored} ELSE Adoptable(order[i].email)

Repairable ==
  \A i \in Intent :
    /\ deletions = 0 /\ Live = {sessionKey[i].customer}
    /\ Ordered(i) /\ order[i].session = None
    => Retry(i) = Live

(* What was charged, what has arrived, and whose order is paid.            *)
Charged == [i \in Intent |-> {s \in Session : Settled(s) /\ session[s].intent = i}]
Received == {s \in Session : session[s].status = "paid"}
PaidOrders == {i \in Intent : order[i].paid}

(* An intent takes money once in its life and its order is paid after it,  *)
(* as Purchase promises, although any page a customer was once shown may   *)
(* be paid until it expires (createCheckoutSession,                        *)
(* markOrderPaidWithGrant).                                                *)
Promise == INSTANCE Purchase WITH charged <- Charged, received <- Received, paid <- PaidOrders

KeepsPromise == Promise!Spec
=============================================================================
