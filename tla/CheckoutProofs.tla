---------------------------- MODULE CheckoutProofs ----------------------------
(***************************************************************************)
(* What holds of Checkout for any number of requests, intents, sessions,   *)
(* customers, faults and deletions, and for any lifetimes that fit.        *)
(*                                                                         *)
(* CheckoutInv is about one purchase: what a key answers is all that can   *)
(* be paid.  CustomerInv is about the customers of the organization: the   *)
(* keys chain each one to its replacement, and what anybody knows lies on  *)
(* one chain, so that two requests that mint name the same key.            *)
(*                                                                         *)
(* At the end Checkout is mapped to Purchase, step by step: only paying,   *)
(* the arrival of a bank transfer and the webhook are steps of money.      *)
(***************************************************************************)
EXTENDS Checkout, TLAPS

(* What a request that is past the order's row goes through.               *)
Buying == {"customer", "list", "mint", "remember", "create", "store"}
Paying == {"insert", "find", "retrieve", "create", "store", "return", "look"}

-----------------------------------------------------------------------------
(* The invariant. *)

(* A key answers with a session of its order, made when the key was.  What *)
(* can be paid is what its key answers with.                               *)
KeysOK ==
  /\ \A i \in Intent : sessionKey[i].session # None =>
       /\ session[sessionKey[i].session].status # "none"
       /\ session[sessionKey[i].session].intent = i
       /\ session[sessionKey[i].session].at = sessionKey[i].at
  /\ \A s \in Session : Payable(s) => sessionKey[session[s].intent].session = s

(* An order is given a session once: nothing else of it can be paid, and   *)
(* no page but that session's was ever shown.                              *)
OrdersOK ==
  /\ \A i \in Intent : order[i].session # None =>
       /\ Ordered(i)
       /\ session[order[i].session].intent = i /\ session[order[i].session].shown
       /\ \A s \in Session : Payable(s) /\ session[s].intent = i => s = order[i].session
  /\ \A s \in Session :
       /\ session[s].status # "none" => session[s].intent \in Intent
       /\ Settled(s) => session[s].shown
       /\ session[s].shown => /\ session[s].status # "none"
                              /\ order[session[s].intent].session = s

(* Whose a customer is.  A session whose order has another email than its  *)
(* customer was made when the organization knew a customer.                *)
CustomersOK ==
  /\ \A c \in Opt(Customer) : customerKey[c].customer # None =>
       /\ customer[customerKey[c].customer].status # "none"
       /\ customer[customerKey[c].customer].email = customerKey[c].email
  /\ stored # None => customer[stored].status # "none"
  /\ deletions = 0 => \A c \in Customer : customer[c].status # "deleted"
  /\ \A i \in Intent : sessionKey[i].customer # None =>
       /\ Ordered(i)
       /\ customer[sessionKey[i].customer].status # "none"
       /\ stored # None \/ customer[sessionKey[i].customer].email = order[i].email

(* What its place in the code tells a request.  One that found the order   *)
(* without a session will be answered by the key if there is one by now.   *)
RequestOK(r) ==
  /\ r.pc \in Paying => r.intent \in Intent
  /\ r.pc \in {"insert", "find"} => r.terms # None
  /\ r.pc \in Buying /\ r.intent # None =>
       /\ r.intent \in Intent /\ Ordered(r.intent)
       /\ r.email = order[r.intent].email
       /\ order[r.intent].session # None =>
            sessionKey[r.intent].session = order[r.intent].session
  /\ r.pc = "store" => r.session # None /\ sessionKey[r.intent].session = r.session
  /\ r.pc \in {"return", "look"} =>
       r.session \in Session /\ Settled(r.session) /\ session[r.session].intent = r.intent
  /\ r.pc = "told" => r.answer # "failed" \/ r.threw
  /\ r.known # None => stored # None
  /\ r.pc \in {"remember", "create"} =>
       /\ r.customer # None /\ customer[r.customer].status # "none"
       /\ stored # None \/ customer[r.customer].email = r.email

RequestsOK == \A q \in Request : RequestOK(request[q])

CheckoutInv == TypeOK /\ KeysOK /\ OrdersOK /\ CustomersOK /\ RequestsOK

tables == <<order, stored, stripe, now, deletions, crossed>>

LEMMA InitCheckoutInv == Init => CheckoutInv
<1> SUFFICES ASSUME Init PROVE CheckoutInv
  OBVIOUS
<1> USE CheckoutAssumption DEF Init
<1>1. TypeOK
  <2>1. Idle \in RequestType
    BY DEF Idle, RequestType, PC, Opt
  <2>2. NoOrder \in OrderType /\ NoSession \in SessionType
    BY DEF NoOrder, OrderType, NoSession, SessionType, Opt
  <2>3. NoSessionKey \in SessionKeyType /\ NoCustomerKey \in CustomerKeyType
    BY DEF NoSessionKey, SessionKeyType, NoCustomerKey, CustomerKeyType, Opt
  <2>4. customer \in [Customer -> CustomerType] /\ stored \in Opt(Customer)
    BY DEF CustomerType, Opt
  <2>5. order \in [Intent -> OrderType] /\ session \in [Session -> SessionType]
    BY <2>2
  <2>6. /\ sessionKey \in [Intent -> SessionKeyType]
        /\ customerKey \in [Opt(Customer) -> CustomerKeyType]
        /\ request \in [Request -> RequestType]
    BY <2>1, <2>3
  <2>7. now \in 0..Horizon /\ faults \in 0..Faults /\ deletions \in 0..Deletions
    <3> HIDE DEF Init
    <3>1. now = 0 /\ faults = 0 /\ deletions = 0
      BY DEF Init
    <3> QED  BY <3>1
  <2>8. crossed \in BOOLEAN
    OBVIOUS
  <2> QED
    BY <2>4, <2>5, <2>6, <2>7, <2>8 DEF TypeOK
<1>2. KeysOK /\ OrdersOK /\ CustomersOK
  BY DEF KeysOK, OrdersOK, CustomersOK, Ordered, Payable, Settled, Opt, NoOrder, NoSession,
         NoSessionKey, NoCustomerKey
<1>3. RequestsOK
  BY DEF RequestsOK, RequestOK, Idle, Paying, Buying
<1> QED
  BY <1>1, <1>2, <1>3 DEF CheckoutInv

-----------------------------------------------------------------------------
(* Steps that only move a request. *)

(* A request moves to a record that its new place allows. *)
LEMMA Moves ==
  ASSUME CheckoutInv, UNCHANGED tables, faults' \in 0..Faults,
         NEW q \in Request, NEW x \in RequestType,
         request' = [request EXCEPT ![q] = x],
         RequestOK(x)
  PROVE  CheckoutInv'
<1> USE DEF CheckoutInv, tables, stripe
<1>1. TypeOK'
  BY DEF TypeOK
<1>2. KeysOK' /\ OrdersOK' /\ CustomersOK'
  BY DEF KeysOK, OrdersOK, CustomersOK, Ordered, Payable, Elapsed, Settled
<1>3. RequestsOK'
  <2> SUFFICES ASSUME NEW p \in Request PROVE RequestOK(request[p])'
    BY DEF RequestsOK
  <2>1. RequestOK(request'[p])
    BY DEF RequestsOK, TypeOK
  <2> QED
    BY <2>1 DEF RequestOK, Ordered, Settled
<1> QED
  BY <1>1, <1>2, <1>3

(* A request that is over knows nothing. *)
LEMMA Ends ==
  ASSUME CheckoutInv, UNCHANGED tables, faults' \in 0..Faults, NEW q \in Request, End(q)
  PROVE  CheckoutInv'
<1>1. Idle \in RequestType /\ RequestOK(Idle)
  BY DEF Idle, RequestType, PC, Opt, RequestOK, Paying, Buying
<1> QED
  BY <1>1, Moves DEF End

LEMMA AskStep ==
  ASSUME CheckoutInv, NEW q \in Request, NEW i \in Intent, NEW t \in Terms, NEW e \in Email,
         Ask(q, i, t, e)
  PROVE  CheckoutInv'
<1> DEFINE x == [Idle EXCEPT !.pc = "insert", !.intent = i, !.terms = t, !.email = e,
                             !.known = stored]
<1>1. x \in RequestType
  BY DEF Idle, RequestType, PC, Opt, CheckoutInv, TypeOK
<1>2. RequestOK(x)
  BY CheckoutAssumption DEF Idle, RequestOK, Paying, Buying
<1> QED
  BY <1>1, <1>2, Moves DEF Ask, tables, CheckoutInv, TypeOK

LEMMA PortalStep ==
  ASSUME CheckoutInv, NEW q \in Request, NEW e \in Email, OpenPortal(q, e)
  PROVE  CheckoutInv'
<1> DEFINE x == [Idle EXCEPT !.pc = "customer", !.email = e, !.known = stored]
<1>1. x \in RequestType
  BY DEF Idle, RequestType, PC, Opt, CheckoutInv, TypeOK
<1>2. RequestOK(x)
  BY DEF Idle, RequestOK, Paying, Buying
<1> QED
  BY <1>1, <1>2, Moves DEF OpenPortal, tables, CheckoutInv, TypeOK

LEMMA FindStep ==
  ASSUME CheckoutInv, NEW q \in Request, FindOrder(q)
  PROVE  CheckoutInv'
<1> DEFINE r == request[q]
           row == order[r.intent]
           x == [r EXCEPT !.pc = IF row.session # None THEN "retrieve" ELSE "customer",
                          !.session = row.session, !.email = row.email]
<1>0. r \in RequestType /\ RequestOK(r) /\ r.intent \in Intent /\ row \in OrderType
  BY DEF CheckoutInv, TypeOK, RequestsOK, RequestOK, Paying, FindOrder
<1>a. faults' \in 0..Faults /\ UNCHANGED tables
  BY DEF FindOrder, CheckoutInv, TypeOK, tables
<1>1. CASE End(q)
  BY <1>1, <1>a, Ends
<1>2. CASE row.terms = r.terms /\ request' = [request EXCEPT ![q] = x] /\ r.pc = "find"
  <2>1. x \in RequestType
    <3>1. row.session \in Opt(Session) /\ row.email \in Opt(Email)
      BY <1>0 DEF OrderType
    <3>2. (IF row.session # None THEN "retrieve" ELSE "customer") \in PC
      BY DEF PC
    <3> QED
      BY <1>0, <3>1, <3>2 DEF RequestType
  <2>2. RequestOK(x)
    <3>1. r.terms # None
      BY <1>0, <1>2 DEF RequestOK
    <3> QED
      BY <1>0, <1>2, <3>1 DEF RequestOK, Paying, Buying, Ordered, RequestType
  <2> QED
    BY <1>2, <1>a, <2>1, <2>2, Moves
<1> QED
  BY <1>1, <1>2 DEF FindOrder

(* A request that goes on with its customer. *)
LEMMA WithIn ==
  ASSUME CheckoutInv, NEW r \in RequestType, RequestOK(r), r.pc \in Buying,
         NEW c \in Customer, customer[c].status # "none",
         stored # None \/ customer[c].email = r.email, r.intent # None
  PROVE  [r EXCEPT !.pc = "create", !.customer = c] \in RequestType
         /\ RequestOK([r EXCEPT !.pc = "create", !.customer = c])
<1> DEFINE x == [r EXCEPT !.pc = "create", !.customer = c]
<1>1. x \in RequestType
  BY DEF RequestType, PC, Opt
<1>2. /\ x.pc = "create" /\ x.customer = c /\ x.intent = r.intent /\ x.email = r.email
      /\ x.known = r.known /\ x.session = r.session /\ c # None
  BY CheckoutAssumption DEF RequestType
<1>3. RequestOK(x)
  BY <1>2 DEF RequestOK, Buying, Paying
<1> QED
  BY <1>1, <1>3

LEMMA CustomerStep ==
  ASSUME CheckoutInv, NEW q \in Request, RetrieveCustomer(q) \/ ListCustomers(q)
  PROVE  CheckoutInv'
<1> DEFINE r == request[q]
<1>0. r \in RequestType /\ RequestOK(r) /\ r.pc \in Buying
  BY DEF CheckoutInv, TypeOK, RequestsOK, RetrieveCustomer, ListCustomers, Buying
<1>a. faults' \in 0..Faults /\ UNCHANGED tables
  BY DEF RetrieveCustomer, ListCustomers, CheckoutInv, TypeOK, tables
<1>1. CASE r.known \in Live /\ With(q, r.known)
  <2>1. CASE r.intent = None
    BY <1>1, <1>a, <2>1, Ends, <1>0 DEF With, End, CheckoutInv, TypeOK
  <2>2. CASE r.intent # None
    <3> DEFINE x == [r EXCEPT !.pc = "create", !.customer = r.known]
    <3>1. r.known \in Customer /\ customer[r.known].status # "none" /\ stored # None
      BY <1>0, <1>1, CheckoutAssumption DEF Live, RequestOK
    <3>2. x \in RequestType /\ RequestOK(x)
      BY <1>0, <2>2, <3>1, WithIn
    <3>3. request' = [request EXCEPT ![q] = x]
      BY <1>1, <2>2 DEF With, CheckoutInv, TypeOK
    <3> QED
      BY <1>a, <3>2, <3>3, Moves
  <2> QED
    BY <2>1, <2>2
<1>2. CASE \E pc \in {"list", "mint"} : Go(q, pc)
  <2>1. PICK pc \in {"list", "mint"} : Go(q, pc)
    BY <1>2
  <2> DEFINE x == [r EXCEPT !.pc = pc]
  <2>2. x \in RequestType
    BY <1>0 DEF RequestType, PC
  <2>3. RequestOK(x)
    BY <1>0 DEF RequestType, RequestOK, Buying, Paying
  <2> QED
    BY <1>a, <2>1, <2>2, <2>3, Moves DEF Go
<1>3. CASE \E c \in Adoptable(r.email) :
             request' = [request EXCEPT ![q].pc = "remember", ![q].customer = c]
  <2>1. PICK c \in Adoptable(r.email) :
               request' = [request EXCEPT ![q].pc = "remember", ![q].customer = c]
    BY <1>3
  <2> DEFINE x == [r EXCEPT !.pc = "remember", !.customer = c]
  <2>2. c \in Customer /\ customer[c].status # "none" /\ customer[c].email = r.email
    BY DEF Adoptable, Live
  <2>3. x \in RequestType
    BY <1>0, <2>2, ZenonT(60) DEF RequestType, PC, Opt
  <2>4. RequestOK(x)
    BY <1>0, <2>2, CheckoutAssumption DEF RequestType, RequestOK, Buying, Paying
  <2>5. request' = [request EXCEPT ![q] = x]
    BY <2>1 DEF CheckoutInv, TypeOK
  <2> QED
    BY <1>a, <2>3, <2>4, <2>5, Moves
<1> QED
  BY <1>1, <1>2, <1>3 DEF RetrieveCustomer, ListCustomers

LEMMA ReturnStep ==
  ASSUME CheckoutInv, NEW q \in Request,
         \/ \E s \in Session : Return(q, s)
         \/ ReadReturn(q) \/ LookReturn(q) \/ ReturnThrows(q)
  PROVE  CheckoutInv'
<1> DEFINE r == request[q]
<1>0. r \in RequestType /\ RequestOK(r)
  BY DEF CheckoutInv, TypeOK, RequestsOK
<1>a. faults' \in 0..Faults /\ UNCHANGED tables
  <2>1. CASE ReturnThrows(q)
    BY <2>1, CheckoutAssumption DEF ReturnThrows, CheckoutInv, TypeOK, tables
  <2>2. CASE ~ReturnThrows(q)
    BY <2>2 DEF Return, ReadReturn, LookReturn, CheckoutInv, TypeOK, tables
  <2> QED  BY <2>1, <2>2
<1>1. CASE \E s \in Session : Return(q, s)
  <2>1. PICK s \in Session : Return(q, s)
    BY <1>1
  <2> DEFINE x == [Idle EXCEPT !.pc = "return", !.intent = session[s].intent, !.session = s]
  <2>2. session[s].intent \in Intent
    BY <2>1 DEF Return, Settled, CheckoutInv, OrdersOK, TypeOK, SessionType
  <2>3. x \in RequestType
    BY <2>2 DEF Idle, RequestType, PC, Opt
  <2>4. RequestOK(x)
    BY <2>1, <2>2 DEF Idle, RequestOK, Paying, Buying, Return
  <2> QED
    BY <1>a, <2>1, <2>3, <2>4, Moves DEF Return
<1>2. ASSUME r.pc = "return", NEW paid \in BOOLEAN,
             request' = [request EXCEPT ![q].pc = "look", ![q].paid = paid]
      PROVE  CheckoutInv'
  <2> DEFINE x == [r EXCEPT !.pc = "look", !.paid = paid]
  <2>1. x \in RequestType
    BY <1>0 DEF RequestType, PC
  <2>2. RequestOK(x)
    BY <1>0, <1>2 DEF RequestType, RequestOK, Paying, Buying
  <2>3. request' = [request EXCEPT ![q] = x]
    BY <1>2 DEF CheckoutInv, TypeOK
  <2> QED
    BY <1>a, <2>1, <2>2, <2>3, Moves
<1>3. ASSUME r.pc \in {"return", "look"}, NEW answer \in {"success", "processing"},
             Tell(q, answer)
      PROVE  CheckoutInv'
  <2> DEFINE x == [r EXCEPT !.pc = "told", !.answer = answer]
  <2>1. x \in RequestType
    BY <1>0 DEF RequestType, PC
  <2>2. RequestOK(x)
    BY <1>0, <1>3 DEF RequestType, RequestOK, Paying, Buying
  <2>3. request' = [request EXCEPT ![q] = x]
    BY <1>3 DEF Tell, CheckoutInv, TypeOK
  <2> QED
    BY <1>a, <2>1, <2>2, <2>3, Moves
<1>4. CASE ReadReturn(q)
  <2>1. order[r.intent].session = r.session
    BY <1>0, <1>4 DEF ReadReturn, RequestOK, CheckoutInv, OrdersOK
  <2>2. r.intent \in Intent /\ order[r.intent].paid \in BOOLEAN
    BY <1>0, <1>4 DEF ReadReturn, RequestOK, Paying, CheckoutInv, TypeOK, OrderType
  <2> QED
    BY <1>2, <1>4, <2>1, <2>2 DEF ReadReturn
<1>5. CASE LookReturn(q)
  BY <1>0, <1>3, <1>5 DEF LookReturn, RequestOK
<1>6. CASE ReturnThrows(q)
  <2> DEFINE x == [r EXCEPT !.pc = "told", !.answer = "failed", !.threw = TRUE]
  <2>1. x \in RequestType
    BY <1>0 DEF RequestType, PC
  <2>2. RequestOK(x)
    BY <1>0 DEF RequestType, RequestOK, Paying, Buying
  <2>3. request' = [request EXCEPT ![q] = x]
    BY <1>6 DEF ReturnThrows, CheckoutInv, TypeOK
  <2> QED
    BY <1>a, <2>1, <2>2, <2>3, Moves
<1> QED
  BY <1>1, <1>4, <1>5, <1>6

-----------------------------------------------------------------------------
(* Steps that write. *)

(* What other requests know is not touched. *)
LEMMA InsertStep ==
  ASSUME CheckoutInv, NEW q \in Request, InsertOrder(q)
  PROVE  CheckoutInv'
<1> DEFINE r == request[q]
           i == r.intent
<1>0. r \in RequestType /\ RequestOK(r) /\ i \in Intent /\ r.terms # None /\ r.pc = "insert"
  BY DEF CheckoutInv, TypeOK, RequestsOK, RequestOK, Paying, InsertOrder
<1>1. CASE Go(q, "find") /\ UNCHANGED order
  <2> DEFINE x == [r EXCEPT !.pc = "find"]
  <2>1. x \in RequestType
    BY <1>0 DEF RequestType, PC
  <2>2. RequestOK(x)
    BY <1>0 DEF RequestType, RequestOK, Paying, Buying
  <2> QED
    BY <1>1, <2>1, <2>2, Moves DEF Go, InsertOrder, tables, CheckoutInv, TypeOK
<1>2. CASE /\ ~Ordered(i)
           /\ order' = [order EXCEPT ![i] = [NoOrder EXCEPT !.terms = r.terms, !.email = r.email]]
           /\ Go(q, "customer")
  <2> DEFINE x == [r EXCEPT !.pc = "customer"]
             row == [NoOrder EXCEPT !.terms = r.terms, !.email = r.email]
  <2> USE <1>0, <1>2 DEF CheckoutInv
  <2>u. UNCHANGED <<stored, session, customer, sessionKey, customerKey, now, faults, deletions, crossed>>
    BY DEF InsertOrder, stripe
  <2>r. row \in OrderType /\ row.terms # None /\ row.session = None /\ row.email = r.email
    BY DEF NoOrder, OrderType, RequestType, Opt
  <2>o. /\ order'[i] = row
        /\ \A j \in Intent \ {i} : order'[j] = order[j]
    BY DEF TypeOK
  <2>x. x \in RequestType
    BY DEF RequestType, PC
  <2>1. TypeOK'
    BY <2>u, <2>r, <2>x DEF TypeOK, Go
  <2>n. sessionKey[i].customer = None /\ order[i].session = None
    BY DEF CustomersOK, OrdersOK
  <2>2. KeysOK'
    BY <2>u DEF KeysOK, Payable, Elapsed
  <2>3. OrdersOK'
    BY <2>u, <2>o, <2>r, <2>n, CheckoutAssumption
       DEF OrdersOK, Ordered, Payable, Elapsed, Settled, TypeOK, SessionType, Opt
  <2>4. CustomersOK'
    BY <2>u, <2>o, <2>r, <2>n DEF CustomersOK, Ordered
  <2>5. RequestsOK'
    <3> SUFFICES ASSUME NEW p \in Request PROVE RequestOK(request[p])'
      BY DEF RequestsOK
    <3>1. CASE p = q
      <4>1. request'[p] = x
        BY <3>1 DEF Go, TypeOK
      <4>2. x.pc = "customer" /\ x.intent = i /\ x.email = r.email /\ x.known = r.known
        BY DEF RequestType
      <4>3. r.known # None => stored # None
        BY DEF RequestOK
      <4> HIDE DEF x
      <4>4. /\ request'[p].pc = "customer" /\ request'[p].intent = i
            /\ request'[p].email = r.email /\ request'[p].known = r.known
        BY <4>1, <4>2
      <4> QED
        BY <4>3, <4>4, <2>u, <2>o, <2>r, ZenonT(60) DEF RequestOK, Buying, Paying, Ordered
    <3>2. CASE p # q
      <4>1. request'[p] = request[p] /\ RequestOK(request[p])
        BY <3>2 DEF Go, TypeOK, RequestsOK
      <4> QED
        BY <4>1, <2>u, <2>o, <2>r DEF RequestOK, Ordered, Settled
    <3> QED
      BY <3>1, <3>2
  <2> QED
    BY <2>1, <2>2, <2>3, <2>4, <2>5
<1> QED
  BY <1>1, <1>2 DEF InsertOrder

LEMMA MintStep ==
  ASSUME CheckoutInv, NEW q \in Request, CreateCustomer(q)
  PROVE  CheckoutInv'
<1> DEFINE r == request[q]
           used == customerKey[r.known]
<1>0. /\ r \in RequestType /\ RequestOK(r) /\ r.pc = "mint" /\ r.known \in Opt(Customer)
      /\ used \in CustomerKeyType
  BY DEF CheckoutInv, TypeOK, RequestsOK, RequestType, CreateCustomer
<1>1. CASE /\ used.customer # None /\ used.email = r.email /\ UNCHANGED stripe
           /\ request' = [request EXCEPT ![q].pc = "remember", ![q].customer = used.customer]
  <2> DEFINE x == [r EXCEPT !.pc = "remember", !.customer = used.customer]
  <2>1. used.customer \in Customer
    BY <1>0, <1>1 DEF CustomerKeyType, Opt
  <2>2. x \in RequestType
    BY <1>0, <2>1 DEF RequestType, PC, Opt
  <2>3. /\ customer[used.customer].status # "none"
        /\ customer[used.customer].email = r.email
    BY <1>0, <1>1 DEF CheckoutInv, CustomersOK
  <2>4. RequestOK(x)
    BY <1>0, <1>1, <2>3 DEF RequestType, RequestOK, Paying, Buying
  <2>5. request' = [request EXCEPT ![q] = x]
    BY <1>1 DEF CheckoutInv, TypeOK
  <2> QED
    BY <1>1, <2>2, <2>4, <2>5, Moves DEF CreateCustomer, tables, CheckoutInv, TypeOK
<1>2. CASE /\ used.customer = None
           /\ \E c \in Customer :
                /\ customer[c].status = "none"
                /\ customer' = [customer EXCEPT ![c] = [status |-> "live", email |-> r.email]]
                /\ customerKey' = [customerKey EXCEPT ![r.known] =
                     [email |-> r.email, customer |-> c, at |-> now]]
                /\ request' = [request EXCEPT ![q].pc = "remember", ![q].customer = c]
           /\ UNCHANGED <<session, sessionKey>>
  <2>c. PICK c \in Customer :
          /\ customer[c].status = "none"
          /\ customer' = [customer EXCEPT ![c] = [status |-> "live", email |-> r.email]]
          /\ customerKey' = [customerKey EXCEPT ![r.known] =
               [email |-> r.email, customer |-> c, at |-> now]]
          /\ request' = [request EXCEPT ![q].pc = "remember", ![q].customer = c]
    BY <1>2
  <2> DEFINE x == [r EXCEPT !.pc = "remember", !.customer = c]
  <2> USE <1>0, <1>2, <2>c, CheckoutAssumption DEF CheckoutInv
  <2>u. UNCHANGED <<order, stored, session, sessionKey, now, faults, deletions, crossed>>
    BY ZenonT(60) DEF CreateCustomer
  <2>x. x \in RequestType
    BY ZenonT(60) DEF RequestType, PC, Opt
  <2>q. \A p \in Request : request'[p] = IF p = q THEN x ELSE request[p]
    BY DEF TypeOK
  <2>n. /\ customer'[c].status = "live" /\ customer'[c].email = r.email
        /\ \A d \in Customer \ {c} : customer'[d] = customer[d]
    BY DEF TypeOK
  <2>k. /\ customerKey'[r.known].customer = c /\ customerKey'[r.known].email = r.email
        /\ \A d \in Opt(Customer) \ {r.known} : customerKey'[d] = customerKey[d]
    BY DEF TypeOK
  <2>1. TypeOK'
    <3>1. r.email \in Opt(Email)
      BY DEF RequestType
    <3>2. [status |-> "live", email |-> r.email] \in CustomerType
      BY <3>1 DEF CustomerType
    <3>3. [email |-> r.email, customer |-> c, at |-> now] \in CustomerKeyType
      BY <3>1 DEF CustomerKeyType, Opt, TypeOK
    <3> QED
      BY <2>u, <2>x, <2>q, <3>2, <3>3 DEF TypeOK
  <2>2. KeysOK' /\ OrdersOK'
    BY <2>u DEF KeysOK, OrdersOK, Ordered, Payable, Elapsed, Settled
  <2>3. CustomersOK'
    <3>1. \A d \in Opt(Customer) : customerKey'[d].customer # None =>
            /\ customer'[customerKey'[d].customer].status # "none"
            /\ customer'[customerKey'[d].customer].email = customerKey'[d].email
      BY <2>n, <2>k DEF CustomersOK, TypeOK, CustomerKeyType, Opt
    <3>2. stored' # None => customer'[stored'].status # "none"
      BY <2>u, <2>n DEF CustomersOK, TypeOK, Opt
    <3>3. deletions' = 0 => \A d \in Customer : customer'[d].status # "deleted"
      BY <2>u, <2>n DEF CustomersOK
    <3>4. \A i \in Intent : sessionKey'[i].customer # None =>
            /\ Ordered(i)'
            /\ customer'[sessionKey'[i].customer].status # "none"
            /\ stored' # None \/ customer'[sessionKey'[i].customer].email = order'[i].email
      BY <2>u, <2>n DEF CustomersOK, TypeOK, SessionKeyType, Opt, Ordered
    <3> QED
      BY <3>1, <3>2, <3>3, <3>4 DEF CustomersOK
  <2>4. RequestsOK'
    <3> SUFFICES ASSUME NEW p \in Request PROVE RequestOK(request[p])'
      BY DEF RequestsOK
    <3>1. CASE p = q
      <4>1. request'[p] = x
        BY <3>1, <2>q
      <4>2. /\ x.pc = "remember" /\ x.customer = c /\ x.intent = r.intent /\ x.email = r.email
            /\ x.known = r.known /\ c # None
        BY DEF RequestType
      <4>3. /\ r.intent # None =>
                 /\ r.intent \in Intent /\ Ordered(r.intent)
                 /\ r.email = order[r.intent].email
                 /\ order[r.intent].session # None =>
                      sessionKey[r.intent].session = order[r.intent].session
            /\ r.known # None => stored # None
        BY DEF RequestOK, Buying
      <4> HIDE DEF x, r
      <4> QED
        BY <4>1, <4>2, <4>3, <2>u, <2>n, ZenonT(60) DEF RequestOK, Buying, Paying, Ordered
    <3>2. CASE p # q
      <4>1. request'[p] = request[p] /\ RequestOK(request[p]) /\ request[p] \in RequestType
        BY <3>2, <2>q DEF RequestsOK, TypeOK
      <4>2. request[p].pc \in {"remember", "create"} => request[p].customer \in Customer \ {c}
        BY <4>1 DEF RequestOK, RequestType, Opt
      <4>3. request[p].pc \in {"remember", "create"} =>
              customer'[request[p].customer] = customer[request[p].customer]
        BY <4>2, <2>n
      <4> QED
        BY ONLY <4>1, <4>3, <2>u DEF RequestOK, Ordered, Settled
    <3> QED
      BY <3>1, <3>2
  <2> QED
    BY <2>1, <2>2, <2>3, <2>4
<1>3. CASE End(q) /\ UNCHANGED stripe
  BY <1>3, Ends DEF CreateCustomer, tables, CheckoutInv, TypeOK
<1> QED
  BY <1>1, <1>2, <1>3 DEF CreateCustomer

(* The organization learns its customer; whoever knows one keeps knowing.  *)
LEMMA RememberStep ==
  ASSUME CheckoutInv, NEW q \in Request, RememberCustomer(q)
  PROVE  CheckoutInv'
<1> DEFINE r == request[q]
           c == r.customer
           x == IF r.intent = None THEN Idle ELSE [r EXCEPT !.pc = "create", !.customer = c]
<1>0. /\ r \in RequestType /\ RequestOK(r) /\ r.pc = "remember"
      /\ c \in Customer /\ customer[c].status # "none"
      /\ stored # None \/ customer[c].email = r.email
  BY DEF CheckoutInv, TypeOK, RequestsOK, RequestType, RequestOK, Opt, RememberCustomer
<1>1. x \in RequestType /\ RequestOK(x)
  <2>1. CASE r.intent = None
    BY <2>1 DEF Idle, RequestType, PC, Opt, RequestOK, Paying, Buying
  <2>2. CASE r.intent # None
    BY <1>0, <2>2, WithIn DEF Buying
  <2> QED
    BY <2>1, <2>2
<1>2. request' = [request EXCEPT ![q] = x]
  BY DEF RememberCustomer, With, CheckoutInv, TypeOK
<1>3. stored' \in {stored, c} /\ faults' \in 0..Faults
      /\ UNCHANGED <<order, session, customer, sessionKey, customerKey, now, deletions, crossed>>
  BY CheckoutAssumption DEF RememberCustomer, stripe, CheckoutInv, TypeOK
<1>4. stored # None => stored' # None
  BY <1>0, <1>3, CheckoutAssumption
<1>q. \A p \in Request : request'[p] = IF p = q THEN x ELSE request[p]
  BY <1>2 DEF CheckoutInv, TypeOK
<1> HIDE DEF x, c
<1> USE DEF CheckoutInv
<1>5. TypeOK'
  BY <1>0, <1>1, <1>2, <1>3 DEF TypeOK, Opt
<1>6. KeysOK' /\ OrdersOK'
  BY <1>3 DEF KeysOK, OrdersOK, Ordered, Payable, Elapsed, Settled
<1>7. CustomersOK'
  BY <1>0, <1>3, <1>4, CheckoutAssumption DEF CustomersOK, Ordered
<1>8. RequestsOK'
  <2> SUFFICES ASSUME NEW p \in Request PROVE RequestOK(request[p])'
    BY DEF RequestsOK
  <2>1. RequestOK(request'[p])
    BY <1>1, <1>q DEF RequestsOK
  <2> QED
    BY <1>3, <1>4, <2>1 DEF RequestOK, Ordered, Settled
<1> QED
  BY <1>5, <1>6, <1>7, <1>8

(* The first session of a key: the order has none, and nothing of it could *)
(* be paid, because a session that can be is the one its key answers with. *)
LEMMA SessionStep ==
  ASSUME CheckoutInv, NEW q \in Request, CreateSession(q)
  PROVE  CheckoutInv'
<1> DEFINE r == request[q]
           i == r.intent
<1>0. /\ r \in RequestType /\ RequestOK(r) /\ r.pc = "create" /\ i \in Intent
      /\ sessionKey[i] \in SessionKeyType
  BY DEF CheckoutInv, TypeOK, RequestsOK, RequestOK, Paying, CreateSession
<1>a. r.customer \in Customer /\ customer[r.customer].status # "none"
      /\ (stored # None \/ customer[r.customer].email = r.email)
      /\ Ordered(i) /\ r.email = order[i].email
      /\ (r.known # None => stored # None)
      /\ (order[i].session # None => sessionKey[i].session = order[i].session)
  BY <1>0, CheckoutAssumption DEF RequestOK, RequestType, Opt, Buying
<1>1. CASE /\ SessionReplay(i) /\ UNCHANGED stripe
           /\ request' = [request EXCEPT ![q].pc = "store", ![q].session = sessionKey[i].session]
  <2> DEFINE x == [r EXCEPT !.pc = "store", !.session = sessionKey[i].session]
  <2>1. x \in RequestType
    BY <1>0 DEF RequestType, PC, Opt, SessionKeyType
  <2>2. /\ x.pc = "store" /\ x.session = sessionKey[i].session /\ x.intent = i
        /\ x.email = r.email /\ x.known = r.known
    BY <1>0 DEF RequestType
  <2>3. request' = [request EXCEPT ![q] = x]
    BY <1>1 DEF CheckoutInv, TypeOK
  <2> HIDE DEF x
  <2>4. RequestOK(x)
    BY <1>0, <1>1, <1>a, <2>2 DEF RequestOK, Paying, Buying, SessionReplay
  <2> QED
    BY <1>1, <2>1, <2>3, <2>4, Moves DEF CreateSession, tables, CheckoutInv, TypeOK
<1>2. ASSUME NEW s \in Session,
             ~SessionReplay(i),
             session[s].status = "none",
             session' = [session EXCEPT ![s] =
               [NoSession EXCEPT !.status = "open", !.intent = i, !.at = now]],
             sessionKey' = [sessionKey EXCEPT ![i] =
               [customer |-> r.customer, session |-> s, at |-> now]],
             request' = [request EXCEPT ![q].pc = "store", ![q].session = s],
             UNCHANGED <<customer, customerKey>>
      PROVE  CheckoutInv'
  <2> DEFINE x == [r EXCEPT !.pc = "store", !.session = s]
  <2>u. UNCHANGED <<order, stored, customer, customerKey, now, faults, deletions, crossed>>
    BY <1>2 DEF CreateSession
  <2>s. s # None /\ None \notin Session /\ None \notin Intent
    BY CheckoutAssumption
  <2>x. x \in RequestType
    BY <1>0 DEF RequestType, PC, Opt
  <2>q. \A p \in Request : request'[p] = IF p = q THEN x ELSE request[p]
    BY <1>2 DEF CheckoutInv, TypeOK
  <2>y. x.pc = "store" /\ x.session = s /\ x.intent = i /\ x.email = r.email /\ x.known = r.known
    BY <1>0 DEF RequestType
  <2>n. /\ session'[s].status = "open" /\ session'[s].intent = i /\ session'[s].at = now
        /\ session'[s].shown = FALSE
        /\ \A t \in Session \ {s} : session'[t] = session[t]
    BY <1>2 DEF CheckoutInv, TypeOK, NoSession
  <2>k. /\ sessionKey'[i].customer = r.customer /\ sessionKey'[i].session = s
        /\ sessionKey'[i].at = now
        /\ \A j \in Intent \ {i} : sessionKey'[j] = sessionKey[j]
    BY <1>0, <1>2 DEF CheckoutInv, TypeOK
  <2>e. sessionKey[i].session = None /\ order[i].session = None
    BY <1>2, <1>a DEF SessionReplay
  <2>p. \A t \in Session : Payable(t) => session[t].intent \in Intent \ {i}
    BY <2>e, <2>s DEF CheckoutInv, KeysOK, OrdersOK, Payable
  <2>o. \A j \in Intent : order[j].session # None =>
          order[j].session \in Session \ {s} /\ order[j].session # s
    BY <1>2 DEF CheckoutInv, OrdersOK, TypeOK, OrderType, Opt
  <2>1. TypeOK'
    <3>1. [NoSession EXCEPT !.status = "open", !.intent = i, !.at = now] \in SessionType
      BY <1>0 DEF NoSession, SessionType, Opt, CheckoutInv, TypeOK
    <3>2. [customer |-> r.customer, session |-> s, at |-> now] \in SessionKeyType
      BY <1>a DEF SessionKeyType, Opt, CheckoutInv, TypeOK
    <3>3. request' \in [Request -> RequestType]
      BY <1>2, <2>q, <2>x DEF CheckoutInv, TypeOK
    <3> QED
      BY <1>2, <2>u, <3>1, <3>2, <3>3 DEF CheckoutInv, TypeOK
  <2>2. KeysOK'
    <3>1. ASSUME NEW j \in Intent, sessionKey'[j].session # None
          PROVE  /\ session'[sessionKey'[j].session].status # "none"
                 /\ session'[sessionKey'[j].session].intent = j
                 /\ session'[sessionKey'[j].session].at = sessionKey'[j].at
      <4>1. CASE j = i
        BY <4>1, <2>n, <2>k
      <4>2. CASE j # i
        <5>1. sessionKey[j].session \in Session \ {s}
          BY <1>2, <3>1, <4>2, <2>k DEF CheckoutInv, KeysOK, TypeOK, SessionKeyType, Opt
        <5> QED
          BY <3>1, <4>2, <5>1, <2>n, <2>k DEF CheckoutInv, KeysOK
      <4> QED
        BY <4>1, <4>2
    <3>2. ASSUME NEW t \in Session, Payable(t)'
          PROVE  sessionKey'[session'[t].intent].session = t
      <4>1. CASE t = s
        BY <4>1, <2>n, <2>k
      <4>2. CASE t # s
        <5>1. Payable(t)
          BY <3>2, <4>2, <2>n, <2>u DEF Payable, Elapsed
        <5> QED
          BY <4>2, <5>1, <2>n, <2>k, <2>p DEF CheckoutInv, KeysOK
      <4> QED
        BY <4>1, <4>2
    <3> QED
      BY <3>1, <3>2 DEF KeysOK
  <2>3. OrdersOK'
    <3>1. ASSUME NEW j \in Intent, order'[j].session # None
          PROVE  /\ Ordered(j)'
                 /\ session'[order'[j].session].intent = j /\ session'[order'[j].session].shown
                 /\ \A t \in Session :
                      Payable(t)' /\ session'[t].intent = j => t = order'[j].session
      <4>1. order'[j] = order[j] /\ order[j].session \in Session \ {s} /\ j # i
        BY <3>1, <2>u, <2>o, <2>e
      <4>2. Ordered(j) /\ session[order[j].session].intent = j /\ session[order[j].session].shown
        BY <4>1, <3>1 DEF CheckoutInv, OrdersOK
      <4>3. ASSUME NEW t \in Session, Payable(t)', session'[t].intent = j
            PROVE  t = order[j].session
        <5>1. t # s
          BY <4>1, <4>3, <2>n
        <5>2. Payable(t) /\ session[t].intent = j
          BY <4>3, <5>1, <2>n, <2>u DEF Payable, Elapsed
        <5> QED
          BY <5>2, <4>1, <3>1 DEF CheckoutInv, OrdersOK
      <4> QED
        BY <4>1, <4>2, <4>3, <2>n, <2>u DEF Ordered
    <3>2. ASSUME NEW t \in Session
          PROVE  /\ session'[t].status # "none" => session'[t].intent \in Intent
                 /\ Settled(t)' => session'[t].shown
                 /\ session'[t].shown => /\ session'[t].status # "none"
                                         /\ order'[session'[t].intent].session = t
      <4>1. CASE t = s
        BY <1>0, <4>1, <2>n DEF Settled
      <4>2. CASE t # s
        BY <4>2, <2>n, <2>u DEF CheckoutInv, OrdersOK, Settled
      <4> QED
        BY <4>1, <4>2
    <3> QED
      BY <3>1, <3>2 DEF OrdersOK
  <2>4. CustomersOK'
    <3>1. ASSUME NEW j \in Intent, sessionKey'[j].customer # None
          PROVE  /\ Ordered(j)'
                 /\ customer'[sessionKey'[j].customer].status # "none"
                 /\ stored' # None \/ customer'[sessionKey'[j].customer].email = order'[j].email
      <4>1. CASE j = i
        BY <4>1, <1>a, <2>k, <2>u DEF Ordered
      <4>2. CASE j # i
        BY <3>1, <4>2, <2>k, <2>u DEF CheckoutInv, CustomersOK, Ordered
      <4> QED
        BY <4>1, <4>2
    <3> QED
      BY <3>1, <2>u DEF CheckoutInv, CustomersOK
  <2>5. RequestsOK'
    <3> SUFFICES ASSUME NEW p \in Request PROVE RequestOK(request[p])'
      BY DEF RequestsOK
    <3>1. CASE p = q
      <4>1. request'[p] = x
        BY <3>1, <2>q
      <4> HIDE DEF x, r, i
      <4> QED
        BY <4>1, <2>y, <1>0, <1>a, <2>u, <2>k, <2>e, <2>s DEF RequestOK, Buying, Paying, Ordered
    <3>2. CASE p # q
      <4>1. request'[p] = request[p] /\ RequestOK(request[p])
        BY <3>2, <2>q DEF CheckoutInv, RequestsOK
      <4>2. request[p].pc \in {"return", "look"} => request[p].session \in Session \ {s}
        BY <4>1, <1>2 DEF RequestOK, Settled
      <4>3. request[p].pc = "store" => request[p].intent \in Intent \ {i}
        BY <4>1, <2>e DEF RequestOK, Paying
      <4> HIDE DEF x, r, i
      <4>4. \A j \in Intent : order[j].session # None => sessionKey'[j] = sessionKey[j]
        BY <2>e, <2>k
      <4>5. \A j \in Intent \ {i} : sessionKey'[j] = sessionKey[j]
        BY <2>k
      <4>6. \A t \in Session \ {s} : session'[t] = session[t]
        BY <2>n
      <4> QED
        BY ONLY <4>1, <4>2, <4>3, <4>4, <4>5, <4>6, <2>u DEF RequestOK, Buying, Ordered, Settled
    <3> QED
      BY <3>1, <3>2
  <2> QED
    BY <2>1, <2>2, <2>3, <2>4, <2>5 DEF CheckoutInv
<1>3. CASE End(q) /\ UNCHANGED stripe
  BY <1>3, Ends DEF CreateSession, tables, CheckoutInv, TypeOK
<1> QED
  BY <1>1, <1>2, <1>3 DEF CreateSession

(* The order takes the session of its key, which is the one it has if it   *)
(* has one.                                                                *)
LEMMA StoreStep ==
  ASSUME CheckoutInv, NEW q \in Request, UpdateOrderSession(q)
  PROVE  CheckoutInv'
<1> DEFINE r == request[q]
           i == r.intent
           s == r.session
<1>0. /\ r \in RequestType /\ RequestOK(r) /\ r.pc = "store" /\ i \in Intent
      /\ s \in Session /\ sessionKey[i].session = s /\ s # None
      /\ Ordered(i) /\ (order[i].session # None => order[i].session = s)
  BY CheckoutAssumption DEF CheckoutInv, TypeOK, RequestsOK, RequestOK, RequestType, Opt,
     Paying, Buying, UpdateOrderSession
<1>1. session[s].status # "none" /\ session[s].intent = i
  BY <1>0 DEF CheckoutInv, KeysOK
<1>u. UNCHANGED <<stored, customer, sessionKey, customerKey, now, faults, deletions, crossed>>
  BY DEF UpdateOrderSession
<1>o. /\ order'[i].session = s /\ order'[i].terms = order[i].terms
      /\ order'[i].email = order[i].email /\ order'[i].paid = order[i].paid
      /\ \A j \in Intent \ {i} : order'[j] = order[j]
  BY <1>0 DEF UpdateOrderSession, CheckoutInv, TypeOK, OrderType
<1>s. /\ session'[s].shown = TRUE /\ session'[s].status = session[s].status
      /\ session'[s].intent = session[s].intent /\ session'[s].at = session[s].at
      /\ \A t \in Session \ {s} : session'[t] = session[t]
  BY <1>0 DEF UpdateOrderSession, CheckoutInv, TypeOK, SessionType
<1>t. /\ \A t \in Session : /\ session'[t].status = session[t].status
                            /\ session'[t].intent = session[t].intent
                            /\ session'[t].at = session[t].at
      /\ \A t \in Session : Payable(t)' <=> Payable(t)
      /\ \A t \in Session : Settled(t)' <=> Settled(t)
  BY <1>s, <1>u DEF Payable, Elapsed, Settled
<1>p. \A t \in Session : Payable(t) /\ session[t].intent = i => t = s
  BY <1>0 DEF CheckoutInv, KeysOK
<1>q. \A p \in Request : request'[p] = IF p = q THEN Idle ELSE request[p]
  BY DEF UpdateOrderSession, End, CheckoutInv, TypeOK
<1>2. TypeOK'
  <2>1. [order[i] EXCEPT !.session = s] \in OrderType
    BY <1>0 DEF CheckoutInv, TypeOK, OrderType, Opt
  <2>2. [session[s] EXCEPT !.shown = TRUE] \in SessionType
    BY <1>0, ZenonT(60) DEF CheckoutInv, TypeOK, SessionType
  <2>3. Idle \in RequestType
    BY DEF Idle, RequestType, PC, Opt
  <2>4. order' \in [Intent -> OrderType] /\ session' \in [Session -> SessionType]
    BY <1>0, <2>1, <2>2 DEF UpdateOrderSession, CheckoutInv, TypeOK
  <2>5. request' \in [Request -> RequestType]
    BY <2>3 DEF UpdateOrderSession, End, CheckoutInv, TypeOK
  <2> QED
    BY <1>u, <2>4, <2>5 DEF CheckoutInv, TypeOK
<1>3. KeysOK'
  <2>1. \A j \in Intent : sessionKey[j].session # None => sessionKey[j].session \in Session
    BY DEF CheckoutInv, TypeOK, SessionKeyType, Opt
  <2> QED
    BY <1>t, <1>u, <2>1 DEF CheckoutInv, KeysOK
<1>4. OrdersOK'
  <2>1. ASSUME NEW j \in Intent, order'[j].session # None
        PROVE  /\ Ordered(j)'
               /\ session'[order'[j].session].intent = j /\ session'[order'[j].session].shown
               /\ \A t \in Session :
                    Payable(t)' /\ session'[t].intent = j => t = order'[j].session
    <3>1. CASE j = i
      BY <3>1, <1>0, <1>1, <1>o, <1>s, <1>t, <1>p DEF Ordered
    <3>2. CASE j # i
      <4>1. order'[j] = order[j] /\ order[j].session \in Session
        BY <2>1, <3>2, <1>o DEF CheckoutInv, TypeOK, OrderType, Opt
      <4>2. /\ Ordered(j) /\ session[order[j].session].intent = j
            /\ session[order[j].session].shown
            /\ \A t \in Session : Payable(t) /\ session[t].intent = j => t = order[j].session
        BY <2>1, <4>1 DEF CheckoutInv, OrdersOK
      <4>3. session'[order[j].session].shown
        BY <4>1, <4>2, <1>s
      <4> QED
        BY <4>1, <4>2, <4>3, <1>t DEF Ordered
    <3> QED
      BY <3>1, <3>2
  <2>2. ASSUME NEW t \in Session
        PROVE  /\ session'[t].status # "none" => session'[t].intent \in Intent
               /\ Settled(t)' => session'[t].shown
               /\ session'[t].shown => /\ session'[t].status # "none"
                                       /\ order'[session'[t].intent].session = t
    <3>1. CASE t = s
      BY <3>1, <1>0, <1>1, <1>o, <1>s
    <3>2. CASE t # s
      <4>1. session'[t] = session[t]
        BY <3>2, <1>s
      <4>2. /\ session[t].status # "none" => session[t].intent \in Intent
            /\ Settled(t) => session[t].shown
            /\ session[t].shown => /\ session[t].status # "none"
                                   /\ order[session[t].intent].session = t
        BY DEF CheckoutInv, OrdersOK
      <4>3. session[t].shown => session[t].intent \in Intent \ {i}
        BY <3>2, <4>2, <1>0, CheckoutAssumption
      <4> QED
        BY <4>1, <4>2, <4>3, <1>o, <1>t
    <3> QED
      BY <3>1, <3>2
  <2> QED
    BY <2>1, <2>2 DEF OrdersOK
<1>5. CustomersOK'
  <2>1. \A j \in Intent : order'[j].email = order[j].email /\ (Ordered(j)' <=> Ordered(j))
    BY <1>o DEF Ordered
  <2> QED
    BY <1>u, <2>1 DEF CheckoutInv, CustomersOK
<1>6. RequestsOK'
  <2> SUFFICES ASSUME NEW p \in Request PROVE RequestOK(request[p])'
    BY DEF RequestsOK
  <2>1. CASE p = q
    BY <2>1, <1>q DEF RequestOK, Idle, Paying, Buying
  <2>2. CASE p # q
    <3>1. request'[p] = request[p] /\ RequestOK(request[p])
      BY <2>2, <1>q DEF CheckoutInv, RequestsOK
    <3>2. \A j \in Intent : order'[j].email = order[j].email /\ (Ordered(j)' <=> Ordered(j))
      BY <1>o DEF Ordered
    <3>3. \A j \in Intent : order'[j].session # None =>
            order'[j].session = order[j].session \/ sessionKey[j].session = order'[j].session
      BY <1>o, <1>0
    <3> HIDE DEF r, i, s
    <3> QED
      BY ONLY <3>1, <3>2, <3>3, <1>t, <1>u DEF RequestOK, Buying
  <2> QED
    BY <2>1, <2>2
<1> QED
  BY <1>2, <1>3, <1>4, <1>5, <1>6 DEF CheckoutInv

(* What Stripe and the webhook do to a session that was shown. *)
LEMMA PayStep ==
  ASSUME CheckoutInv, NEW s \in Session, Pay(s) \/ Settle(s)
  PROVE  CheckoutInv'
<1> USE DEF CheckoutInv
<1>u. UNCHANGED <<order, stored, customer, sessionKey, customerKey, request, now, faults, deletions, crossed>>
  BY DEF Pay, Settle
<1>1. PICK status \in {"complete", "paid"} : session' = [session EXCEPT ![s].status = status]
  BY DEF Pay, Settle
<1>2. session[s].status # "none" /\ session[s].shown
  BY DEF Pay, Settle, Payable, Settled, OrdersOK
<1>s. \A t \in Session :
        /\ session'[t].intent = session[t].intent /\ session'[t].at = session[t].at
        /\ session'[t].shown = session[t].shown
        /\ session'[t].status = IF t = s THEN status ELSE session[t].status
  BY <1>1 DEF TypeOK, SessionType
<1>t. /\ \A t \in Session : Payable(t)' => Payable(t)
      /\ \A t \in Session : Settled(t) => Settled(t)'
      /\ \A t \in Session : Settled(t)' => Settled(t) \/ t = s
      /\ \A t \in Session : session[t].status # "none" <=> session'[t].status # "none"
  BY <1>s, <1>u, <1>2 DEF Payable, Elapsed, Settled
<1>3. TypeOK'
  <2>1. [session[s] EXCEPT !.status = status] \in SessionType
    BY DEF TypeOK, SessionType
  <2> QED
    BY <1>1, <1>u, <2>1 DEF TypeOK
<1>4. KeysOK'
  <2>1. \A j \in Intent : sessionKey[j].session # None => sessionKey[j].session \in Session
    BY DEF TypeOK, SessionKeyType, Opt
  <2> QED
    BY <2>1, <1>s, <1>t, <1>u DEF KeysOK
<1>5. OrdersOK'
  <2>1. \A j \in Intent : order[j].session # None => order[j].session \in Session
    BY DEF TypeOK, OrderType, Opt
  <2> QED
    BY <2>1, <1>2, <1>s, <1>t, <1>u DEF OrdersOK, Ordered
<1>6. CustomersOK'
  BY <1>u DEF CustomersOK, Ordered
<1>7. RequestsOK'
  BY <1>s, <1>t, <1>u DEF RequestsOK, RequestOK, Ordered
<1> QED
  BY <1>3, <1>4, <1>5, <1>6, <1>7

LEMMA PaidStep ==
  ASSUME CheckoutInv, NEW s \in Session, MarkOrderPaid(s)
  PROVE  CheckoutInv'
<1> USE DEF CheckoutInv
<1>u. UNCHANGED <<stored, session, customer, sessionKey, customerKey, request, now, faults, deletions, crossed>>
  BY DEF MarkOrderPaid, stripe
<1>o. \A j \in Intent : /\ order'[j].terms = order[j].terms /\ order'[j].email = order[j].email
                        /\ order'[j].session = order[j].session
  BY DEF MarkOrderPaid, TypeOK, OrderType
<1>1. TypeOK'
  <2>1. \A j \in Intent : [order[j] EXCEPT !.paid = TRUE] \in OrderType
    BY DEF TypeOK, OrderType
  <2> QED
    BY <1>u, <2>1 DEF MarkOrderPaid, TypeOK
<1>2. KeysOK'
  BY <1>u DEF KeysOK, Payable, Elapsed
<1>3. OrdersOK'
  BY <1>u, <1>o DEF OrdersOK, Ordered, Payable, Elapsed, Settled
<1>4. CustomersOK'
  BY <1>u, <1>o DEF CustomersOK, Ordered
<1>5. RequestsOK'
  BY <1>u, <1>o DEF RequestsOK, RequestOK, Ordered, Settled, Buying
<1> QED
  BY <1>1, <1>2, <1>3, <1>4, <1>5

(* What a deletion leaves: nobody loses the trace of a customer. *)
LEMMA DeleteStep ==
  ASSUME CheckoutInv, NEW c \in Customer, DeleteCustomer(c)
  PROVE  CheckoutInv'
<1> USE DEF CheckoutInv
<1>u. UNCHANGED <<order, stored, session, sessionKey, customerKey, request, now, faults>>
  BY DEF DeleteCustomer
<1>c. \A d \in Customer :
        /\ customer'[d].email = customer[d].email
        /\ customer[d].status # "none" => customer'[d].status # "none"
  BY DEF DeleteCustomer, TypeOK, CustomerType
<1>d. deletions' \in 0..Deletions /\ deletions' # 0 /\ crossed' \in BOOLEAN
  BY CheckoutAssumption DEF DeleteCustomer, TypeOK
<1>1. TypeOK'
  <2>1. [customer[c] EXCEPT !.status = "deleted"] \in CustomerType
    BY DEF TypeOK, CustomerType
  <2> QED
    BY <1>u, <1>d, <2>1 DEF DeleteCustomer, TypeOK
<1>2. KeysOK' /\ OrdersOK'
  BY <1>u DEF KeysOK, OrdersOK, Ordered, Payable, Elapsed, Settled
<1>3. CustomersOK'
  <2>1. /\ \A k \in Opt(Customer) : customerKey[k].customer # None =>
             customerKey[k].customer \in Customer
        /\ stored # None => stored \in Customer
        /\ \A i \in Intent : sessionKey[i].customer # None => sessionKey[i].customer \in Customer
    BY DEF TypeOK, CustomerKeyType, SessionKeyType, Opt
  <2> QED
    BY <1>u, <1>c, <1>d, <2>1 DEF CustomersOK, Ordered
<1>4. RequestsOK'
  <2> SUFFICES ASSUME NEW p \in Request PROVE RequestOK(request[p])'
    BY DEF RequestsOK
  <2>1. RequestOK(request[p]) /\ request[p] \in RequestType
    BY DEF RequestsOK, TypeOK
  <2>2. request[p].customer # None => request[p].customer \in Customer
    BY <2>1 DEF RequestType, Opt
  <2> QED
    BY <1>u, <1>c, <2>1, <2>2 DEF RequestOK, Ordered, Settled
<1> QED
  BY <1>1, <1>2, <1>3, <1>4

(* A key is forgotten only when what it answered can no longer be paid.    *)
LEMMA TickStep ==
  ASSUME CheckoutInv, Tick
  PROVE  CheckoutInv'
<1> USE DEF CheckoutInv
<1>u. UNCHANGED <<order, stored, session, customer, request, faults, deletions, crossed>>
  BY DEF Tick
<1>n. now' = now + 1 /\ now' \in 0..Horizon /\ now \in 0..Horizon
  BY CheckoutAssumption DEF Tick, TypeOK
<1>1. PICK I \in SUBSET Intent, C \in SUBSET Opt(Customer) :
       /\ sessionKey' = [i \in Intent |->
            IF i \in I /\ Old(sessionKey[i].at) THEN NoSessionKey ELSE sessionKey[i]]
       /\ customerKey' = [c \in Opt(Customer) |->
            IF c \in C /\ Old(customerKey[c].at) THEN NoCustomerKey ELSE customerKey[c]]
  BY DEF Tick
<1>k. /\ \A i \in Intent : \/ sessionKey'[i] = sessionKey[i]
                           \/ sessionKey'[i] = NoSessionKey /\ Old(sessionKey[i].at)
      /\ \A c \in Opt(Customer) : customerKey'[c] = customerKey[c] \/ customerKey'[c] = NoCustomerKey
  <2>1. ASSUME NEW i \in Intent
        PROVE  \/ sessionKey'[i] = sessionKey[i]
               \/ sessionKey'[i] = NoSessionKey /\ Old(sessionKey[i].at)
    BY <1>1
  <2>2. ASSUME NEW c \in Opt(Customer)
        PROVE  customerKey'[c] = customerKey[c] \/ customerKey'[c] = NoCustomerKey
    BY <1>1
  <2> QED
    BY <2>1, <2>2
<1>e. NoSessionKey.session = None /\ NoSessionKey.customer = None /\ NoCustomerKey.customer = None
  BY DEF NoSessionKey, NoCustomerKey
<1>p. \A s \in Session : Payable(s)' => Payable(s) /\ ~Old(session[s].at)
  <2> SUFFICES ASSUME NEW s \in Session, Payable(s)' PROVE Payable(s) /\ ~Old(session[s].at)
    OBVIOUS
  <2>1. session[s].at \in 0..Horizon
    BY DEF TypeOK, SessionType
  <2> QED
    BY <1>u, <1>n, <2>1, CheckoutAssumption DEF Payable, Elapsed, Old
<1>2. TypeOK'
  <2>1. NoSessionKey \in SessionKeyType /\ NoCustomerKey \in CustomerKeyType
    BY CheckoutAssumption DEF NoSessionKey, NoCustomerKey, SessionKeyType, CustomerKeyType, Opt
  <2> QED
    BY <1>1, <1>u, <1>n, <2>1 DEF TypeOK
<1>3. KeysOK'
  <2>1. ASSUME NEW s \in Session, Payable(s)' PROVE sessionKey'[session'[s].intent].session = s
    <3> DEFINE i == session[s].intent
    <3>1. Payable(s) /\ i \in Intent /\ s # None
      BY <2>1, <1>p, CheckoutAssumption DEF OrdersOK, Payable
    <3>2. sessionKey[i].session = s /\ sessionKey[i].at = session[s].at
      BY <3>1 DEF KeysOK
    <3> QED
      BY <2>1, <1>p, <1>k, <1>u, <3>1, <3>2
  <2>2. ASSUME NEW i \in Intent, sessionKey'[i].session # None
        PROVE  /\ session'[sessionKey'[i].session].status # "none"
               /\ session'[sessionKey'[i].session].intent = i
               /\ session'[sessionKey'[i].session].at = sessionKey'[i].at
    BY <2>2, <1>k, <1>e, <1>u DEF KeysOK
  <2> QED
    BY <2>1, <2>2 DEF KeysOK
<1>4. OrdersOK'
  BY <1>u, <1>p DEF OrdersOK, Ordered, Settled
<1>5. CustomersOK'
  BY <1>u, <1>k, <1>e DEF CustomersOK, Ordered
<1>6. RequestsOK'
  <2>1. \A p \in Request : request'[p] = Idle
    BY <1>u DEF Tick, Quiet
  <2> QED
    BY <2>1 DEF RequestsOK, RequestOK, Idle, Paying, Buying
<1> QED
  BY <1>2, <1>3, <1>4, <1>5, <1>6

-----------------------------------------------------------------------------
LEMMA NextCheckoutInv == CheckoutInv /\ [Next]_vars => CheckoutInv'
<1> SUFFICES ASSUME CheckoutInv, [Next]_vars PROVE CheckoutInv'
  OBVIOUS
<1>1. CASE UNCHANGED vars
  BY <1>1 DEF vars, stripe, CheckoutInv, TypeOK, KeysOK, OrdersOK, CustomersOK, RequestsOK,
     RequestOK, Ordered, Payable, Elapsed, Settled
<1>2. ASSUME NEW q \in Request, NEW i \in Intent, NEW t \in Terms, NEW e \in Email,
             Ask(q, i, t, e)
      PROVE  CheckoutInv'
  BY <1>2, AskStep
<1>3. ASSUME NEW q \in Request, NEW e \in Email, OpenPortal(q, e) PROVE CheckoutInv'
  BY <1>3, PortalStep
<1>4. ASSUME NEW q \in Request, NEW s \in Session, Return(q, s) PROVE CheckoutInv'
  BY <1>4, ReturnStep
<1>5. ASSUME NEW q \in Request, Work(q) PROVE CheckoutInv'
  <2>1. CASE RetrieveSession(q) \/ Answered(q)
    BY <2>1, Ends DEF RetrieveSession, Answered, tables, CheckoutInv, TypeOK
  <2> QED
    BY <1>5, <2>1, InsertStep, FindStep, CustomerStep, MintStep, RememberStep, SessionStep,
       StoreStep, ReturnStep DEF Work
<1>6. ASSUME NEW q \in Request, Fail(q) PROVE CheckoutInv'
  <2>1. faults' \in 0..Faults /\ UNCHANGED tables
    BY <1>6, CheckoutAssumption DEF Fail, tables, CheckoutInv, TypeOK
  <2> QED
    BY <1>6, <2>1, Ends DEF Fail
<1>7. ASSUME NEW s \in Session, Pay(s) \/ Settle(s) \/ MarkOrderPaid(s) PROVE CheckoutInv'
  BY <1>7, PayStep, PaidStep
<1>8. ASSUME NEW c \in Customer, DeleteCustomer(c) PROVE CheckoutInv'
  BY <1>8, DeleteStep
<1>9. CASE Tick
  BY <1>9, TickStep
<1> QED
  BY <1>1, <1>2, <1>3, <1>4, <1>5, <1>6, <1>7, <1>8, <1>9 DEF Next

(* The invariant the others follow from. *)
THEOREM AlwaysCheckoutInv == Spec => []CheckoutInv
<1>1. Init => CheckoutInv
  BY InitCheckoutInv
<1>2. CheckoutInv /\ [Next]_vars => CheckoutInv'
  BY NextCheckoutInv
<1> QED
  BY <1>1, <1>2, PTL DEF Spec

(* The variables keep their types. *)
THEOREM AlwaysTypeOK == Spec => []TypeOK
<1>1. CheckoutInv => TypeOK
  BY DEF CheckoutInv
<1> QED
  BY <1>1, AlwaysCheckoutInv, PTL

(* An intent never has two sessions that are paid or can be: what was paid *)
(* was shown, what was shown is the session of the order, and nothing else *)
(* of an order with a session can be paid.                                 *)
THEOREM AlwaysChargedOnce == Spec => []ChargedOnce
<1>1. CheckoutInv => ChargedOnce
  <2> SUFFICES ASSUME CheckoutInv, NEW s \in Session, NEW t \in Session,
                      Chargeable(s), Chargeable(t), session[s].intent = session[t].intent
               PROVE  s = t
    BY DEF ChargedOnce
  <2> DEFINE i == session[s].intent
  <2>1. s # None /\ t # None
    BY CheckoutAssumption
  <2>2. i \in Intent
    BY DEF CheckoutInv, OrdersOK, Chargeable, Settled, Payable
  <2>3. ASSUME NEW u \in Session, Settled(u), session[u].intent = i PROVE order[i].session = u
    BY <2>3 DEF CheckoutInv, OrdersOK
  <2>4. ASSUME NEW u \in Session, Payable(u), session[u].intent = i
        PROVE  /\ sessionKey[i].session = u
               /\ order[i].session # None => order[i].session = u
    BY <2>2, <2>4 DEF CheckoutInv, OrdersOK, KeysOK
  <2>5. CASE Settled(s) /\ Settled(t)
    BY <2>3, <2>5
  <2>6. CASE Payable(s) /\ Payable(t)
    BY <2>4, <2>6
  <2>7. CASE Settled(s) /\ Payable(t)
    BY <2>1, <2>3, <2>4, <2>7
  <2>8. CASE Payable(s) /\ Settled(t)
    BY <2>1, <2>3, <2>4, <2>8
  <2> QED
    BY <2>5, <2>6, <2>7, <2>8 DEF Chargeable
<1> QED
  BY <1>1, AlwaysCheckoutInv, PTL

(* A session that was made and not stored can be had again: the customer   *)
(* of its key is the stored one, or the one the order's email adopts.      *)
THEOREM AlwaysRepairable == Spec => []Repairable
<1>1. CheckoutInv => Repairable
  <2> SUFFICES ASSUME CheckoutInv, NEW i \in Intent, deletions = 0,
                      Live = {sessionKey[i].customer}, Ordered(i), order[i].session = None
               PROVE  Retry(i) = Live
    BY DEF Repairable
  <2> DEFINE c == sessionKey[i].customer
  <2>1. c \in Customer /\ c # None
    BY CheckoutAssumption DEF Live
  <2>2. CASE stored # None
    <3>1. stored \in Live
      BY <2>2 DEF CheckoutInv, CustomersOK, TypeOK, CustomerType, Opt, Live
    <3> QED
      BY <3>1 DEF Retry
  <2>3. CASE stored = None
    <3>1. stored \notin Live
      BY <2>3, CheckoutAssumption DEF Live
    <3>2. customer[c].email = order[i].email
      BY <2>1, <2>3 DEF CheckoutInv, CustomersOK
    <3> QED
      BY <3>1, <3>2 DEF Retry, Adoptable
  <2> QED
    BY <2>2, <2>3
<1> QED
  BY <1>1, AlwaysCheckoutInv, PTL


-----------------------------------------------------------------------------
(* One customer per email.                                                 *)
(*                                                                         *)
(* A request that mints lists nobody first, but two requests may both list *)
(* nobody.  What stops the second is the key, and the key is named after   *)
(* the customer the request knew: requests that asked at different moments *)
(* know different ones.  As long as nothing is deleted, whatever is known  *)
(* and dead lies on one chain, on which the key of each customer answers   *)
(* with the next; a chain has one end, so only one key on it is free.      *)

(* The key named after k answers with the dead customer m. *)
Follows(k, m) == customerKey[k].customer = m /\ m \notin Live
Closed(S) == \A k \in S, m \in Customer : Follows(k, m) => m \in S
Reach(k) ==
  {x \in Opt(Customer) : \A S \in SUBSET Opt(Customer) : k \in S /\ Closed(S) => x \in S}

(* Whatever somebody goes by and is dead lies on one chain.                *)
OneChain ==
  \E r \in Opt(Customer) : \A k \in Opt(Customer) : Held(k) => k \in Live \/ k \in Reach(r)

(* A request about to mint knows a dead customer or none, and either       *)
(* nobody has its email or the key it will name is used.                   *)
Minting(r) ==
  /\ r.pc \in Asking /\ r.known # None => customer[r.known].status # "none"
  /\ r.pc \in {"list", "mint"} => r.known \notin Live
  /\ r.pc = "mint" => Adoptable(r.email) = {} \/ customerKey[r.known].customer # None

Apart == \A c, d \in Live : customer[c].email = customer[d].email => c = d

CustomerInv ==
  CheckoutInv /\ OneChain /\ (\A q \in Request : Minting(request[q])) /\ Apart

(* Until a deletion crosses the requests. *)
Uncrossed == CheckoutInv /\ (crossed \/ CustomerInv)

(* Reach(k) is the least closed set with k in it. *)
LEMMA ReachLeast ==
  ASSUME NEW k \in Opt(Customer)
  PROVE  /\ k \in Reach(k) /\ Closed(Reach(k))
         /\ \A S \in SUBSET Opt(Customer) : k \in S /\ Closed(S) => Reach(k) \subseteq S
<1>1. ASSUME NEW x \in Reach(k), NEW m \in Customer, Follows(x, m)
      PROVE  m \in Reach(k)
  <2>1. m \in Opt(Customer)
    BY DEF Opt
  <2>2. ASSUME NEW S \in SUBSET Opt(Customer), k \in S, Closed(S) PROVE m \in S
    BY <1>1, <2>2 DEF Reach, Closed
  <2> QED  BY <2>1, <2>2 DEF Reach
<1>2. Closed(Reach(k))
  BY <1>1 DEF Closed
<1> QED  BY <1>2 DEF Reach

(* A chain has one end. *)
LEMMA OneEnd ==
  ASSUME NEW k \in Opt(Customer), NEW a \in Reach(k), NEW b \in Reach(k),
         \A m \in Customer : ~Follows(a, m),
         \A m \in Customer : ~Follows(b, m)
  PROVE  a = b
<1> DEFINE D == {x \in Opt(Customer) : a \in Reach(x)}
<1>0. a \in Opt(Customer) /\ b \in Opt(Customer) /\ Customer \subseteq Opt(Customer)
  BY DEF Reach, Opt
<1>1. ASSUME NEW x \in D, NEW m \in Customer, Follows(x, m)
      PROVE  m \in D
  <2>1. /\ m \in Reach(m) /\ Closed(Reach(m))
        /\ Reach(m) \subseteq Opt(Customer)
    BY <1>0, ReachLeast DEF Reach
  <2>2. Closed(Reach(m) \union {x})
    BY <1>1, <2>1 DEF Closed, Follows
  <2>3. Reach(x) \subseteq Reach(m) \union {x}
    BY <2>1, <2>2, ReachLeast
  <2>4. x # a
    BY <1>1
  <2> QED  BY <1>0, <2>3, <2>4
<1>2. Closed(D)
  BY <1>1 DEF Closed
<1>3. Reach(k) \subseteq D
  <2> HIDE DEF D
  <2>1. k \in D
    BY DEF D
  <2>2. D \subseteq Opt(Customer)
    BY DEF D
  <2> QED  BY <1>2, <2>1, <2>2, ReachLeast
<1>4. a \in Reach(b)
  BY <1>3
<1>5. Closed({b})
  BY DEF Closed
<1>6. Reach(b) \subseteq {b}
  BY <1>0, <1>5, ReachLeast
<1> QED  BY <1>4, <1>6

(* While nobody who is held dies, a chain only grows; what is newly held   *)
(* is alive or next on it.                                                 *)
LEMMA KeepsChain ==
  ASSUME OneChain, \A k \in Live : Held(k)' => k \in Live',
         \A k \in Opt(Customer), m \in Customer : Follows(k, m) => Follows(k, m)',
         \A k \in Opt(Customer) : Held(k)' =>
           \/ Held(k) \/ k \in Live'
           \/ k \in Customer /\ \E h \in Opt(Customer) \ Live : Held(h) /\ Follows(h, k)
  PROVE  OneChain'
<1>1. \A S \in SUBSET Opt(Customer) : Closed(S)' => Closed(S)
  BY DEF Closed
<1>2. \A r \in Opt(Customer) : Reach(r) \subseteq Reach(r)'
  BY <1>1 DEF Reach
<1>3. PICK r \in Opt(Customer) :
        \A k \in Opt(Customer) : Held(k) => k \in Live \/ k \in Reach(r)
  BY DEF OneChain
<1>4. Closed(Reach(r))
  BY ReachLeast
<1>5. ASSUME NEW k \in Opt(Customer), Held(k)'
      PROVE  k \in Live' \/ k \in Reach(r)
  <2>1. CASE k \in Customer /\ \E h \in Opt(Customer) \ Live : Held(h) /\ Follows(h, k)
    BY <1>3, <1>4, <2>1 DEF Closed
  <2> QED  BY <1>3, <1>5, <2>1
<1> QED  BY <1>2, <1>5 DEF OneChain

(* A step of one request that mints nobody. *)
LEMMA CustomerMoves ==
  ASSUME CustomerInv, UNCHANGED <<customer, customerKey>>, NEW q \in Request, NEW x,
         request' = [request EXCEPT ![q] = x],
         \/ UNCHANGED stored
         \/ request[q].pc = "remember" /\ stored' = request[q].customer,
         x.pc \in Asking =>
           \/ x.known = stored
           \/ request[q].pc \in Asking /\ x.known = request[q].known,
         x.pc = "remember" =>
           \/ x.customer \in Live
           \/ /\ request[q].pc = "mint" /\ x.customer \in Customer
              /\ Follows(request[q].known, x.customer),
         Minting(x)
  PROVE  OneChain' /\ (\A p \in Request : Minting(request[p])') /\ Apart'
<1>0. /\ request'[q] = x
      /\ \A p \in Request : p # q => request'[p] = request[p]
      /\ request[q].known \in Opt(Customer)
      /\ Live' = Live
  BY DEF CustomerInv, CheckoutInv, TypeOK, RequestType, Live
<1>1. ASSUME NEW k \in Opt(Customer), Held(k)'
      PROVE  \/ Held(k) \/ k \in Live'
             \/ k \in Customer /\ \E h \in Opt(Customer) \ Live : Held(h) /\ Follows(h, k)
  <2>1. CASE k = stored'
    BY <2>1 DEF Held
  <2>2. ASSUME NEW p \in Request, p # q,
               \/ request'[p].pc \in Asking /\ request'[p].known = k
               \/ request'[p].pc = "remember" /\ request'[p].customer = k
        PROVE  Held(k)
    BY <1>0, <2>2 DEF Held
  <2>3. CASE x.pc \in Asking /\ x.known = k
    BY <2>3 DEF Held
  <2>4. CASE x.pc = "remember" /\ x.customer = k /\ k \notin Live
    <3>1. /\ request[q].known \notin Live /\ Held(request[q].known)
          /\ Follows(request[q].known, k) /\ k \in Customer
      BY <2>4 DEF CustomerInv, Minting, Held, Asking
    <3> QED  BY <1>0, <3>1
  <2> QED  BY <1>0, <1>1, <2>1, <2>2, <2>3, <2>4 DEF Held
<1>2. OneChain'
  BY <1>0, <1>1, KeepsChain DEF CustomerInv, Follows
<1>3. ASSUME NEW p \in Request PROVE Minting(request[p])'
  BY <1>0 DEF CustomerInv, Minting, Adoptable, Live
<1>4. Apart'
  BY <1>0 DEF CustomerInv, Apart
<1> QED  BY <1>2, <1>3, <1>4


(* The first customer of an email is minted under a free key.              *)
LEMMA CustomerMints ==
  ASSUME CustomerInv, CheckoutInv', NEW q \in Request, NEW c \in Customer,
         request[q].pc = "mint", customerKey[request[q].known].customer = None,
         customer[c].status = "none", UNCHANGED stored,
         customer' = [customer EXCEPT ![c] = [status |-> "live", email |-> request[q].email]],
         customerKey' = [customerKey EXCEPT ![request[q].known] =
           [email |-> request[q].email, customer |-> c, at |-> now]],
         request' = [request EXCEPT ![q].pc = "remember", ![q].customer = c]
  PROVE  OneChain' /\ (\A p \in Request : Minting(request[p])') /\ Apart'
<1> PICK k, e : k = request[q].known /\ e = request[q].email
  OBVIOUS
<1>0. /\ TypeOK /\ None \notin Customer /\ k \in Opt(Customer)
      /\ Minting(request[q])
      /\ \A p \in Request : request[p].known \in Opt(Customer)
  BY CheckoutAssumption DEF CustomerInv, CheckoutInv, TypeOK, RequestType
<1>1. /\ Live' = Live \union {c} /\ c \notin Live
      /\ \A d \in Customer \ {c} : customer'[d] = customer[d]
      /\ customer'[c].email = e
  BY <1>0 DEF Live, TypeOK
<1>2. /\ request'[q].pc = "remember" /\ request'[q].customer = c
      /\ request'[q].known = k
      /\ \A p \in Request : p # q => request'[p] = request[p]
  BY <1>0 DEF TypeOK, RequestType
<1>3. /\ customerKey'[k].customer = c
      /\ \A l \in Opt(Customer) : l # k => customerKey'[l] = customerKey[l]
  BY <1>0 DEF TypeOK
<1>4. \A l \in Opt(Customer), m \in Customer : Follows(l, m)' <=> Follows(l, m)
  <2> SUFFICES ASSUME NEW l \in Opt(Customer), NEW m \in Customer
               PROVE  Follows(l, m)' <=> Follows(l, m)
    OBVIOUS
  <2>1. CASE l = k
    BY <1>0, <1>1, <1>3, <2>1 DEF Follows
  <2>2. CASE l # k
    <3>1. ~(customerKey[l].customer = c)
      BY <1>0 DEF CustomerInv, CheckoutInv, CustomersOK
    <3> QED  BY <1>1, <1>3, <2>2, <3>1 DEF Follows
  <2> QED  BY <2>1, <2>2
<1>5. OneChain'
  <2>1. ASSUME NEW l \in Opt(Customer), Held(l)', l \notin Live'
        PROVE  Held(l)
    <3>1. CASE l = stored'
      BY <3>1 DEF Held
    <3>2. ASSUME NEW p \in Request, p # q,
                 \/ request'[p].pc \in Asking /\ request'[p].known = l
                 \/ request'[p].pc = "remember" /\ request'[p].customer = l
          PROVE  Held(l)
      BY <1>2, <3>2 DEF Held
    <3>3. l = k => Held(l)
      BY DEF Held, Asking
    <3>4. l # c
      BY <1>1, <2>1
    <3> QED  BY <1>2, <2>1, <3>1, <3>2, <3>3, <3>4 DEF Held
  <2> QED  BY <1>1, <1>4, <2>1, KeepsChain DEF CustomerInv
<1>6. Adoptable(e) = {}
  BY <1>0 DEF Minting
<1>7. Apart'
  <2>1. \A d \in Live : customer[d].email # e
    BY <1>6 DEF Adoptable
  <2> QED
    <3> SUFFICES ASSUME NEW a \in Live', NEW b \in Live',
                        customer'[a].email = customer'[b].email
                 PROVE  a = b
      BY DEF Apart
    <3>1. Live \subseteq Customer
      BY DEF Live
    <3>2. \A d \in Live : customer'[d] = customer[d]
      BY <1>1, <3>1
    <3>3. a \in Live /\ b \in Live => a = b
      BY <3>2 DEF CustomerInv, Apart
    <3> QED  BY <1>1, <2>1, <3>2, <3>3
<1>8. ASSUME NEW l \in Opt(Customer), l # None, customer[l].status # "none"
      PROVE  customer'[l].status # "none"
  BY <1>1, <1>8 DEF Opt
<1>9. ASSUME NEW p \in Request PROVE Minting(request[p])'
  <2>1. CASE p = q
    BY <1>0, <1>2, <1>8, <2>1 DEF Minting, Asking
  <2>2. CASE p # q
    <3> DEFINE l == request[p].known
    <3>1. request'[p] = request[p] /\ Minting(request[p]) /\ l \in Opt(Customer)
      BY <1>0, <1>2, <2>2 DEF CustomerInv
    <3>2. ASSUME request[p].pc \in {"list", "mint"} PROVE l # c
      BY <1>0, <3>1, <3>2 DEF Minting, Asking
    <3>3. ASSUME request[p].pc \in {"list", "mint"} PROVE l \notin Live'
      BY <1>1, <3>1, <3>2, <3>3 DEF Minting
    <3>4. ASSUME request[p].pc = "mint", customerKey[l].customer = None
          PROVE  l = k
      <4>1. PICK r \in Opt(Customer) :
              \A x \in Opt(Customer) : Held(x) => x \in Live \/ x \in Reach(r)
        BY DEF CustomerInv, OneChain
      <4>2. l \in Reach(r) /\ k \in Reach(r)
        BY <1>0, <3>1, <3>4, <4>1 DEF Minting, Held, Asking
      <4>3. (\A m \in Customer : ~Follows(l, m)) /\ (\A m \in Customer : ~Follows(k, m))
        BY <1>0, <3>4 DEF Follows
      <4> QED  BY <4>2, <4>3, OneEnd
    <3>5. ASSUME request[p].pc = "mint" PROVE customerKey'[l].customer # None
                                               \/ Adoptable(request[p].email)' = {}
      <4>1. CASE l = k
        BY <1>0, <1>3, <4>1
      <4>2. CASE l # k
        BY <1>3, <3>1, <3>4, <3>5, <4>2
      <4> QED  BY <4>1, <4>2
    <3> QED  BY <1>8, <3>1, <3>3, <3>5 DEF Minting
  <2> QED  BY <2>1, <2>2
<1> QED  BY <1>5, <1>7, <1>9


(* A step after which the request asks no more. *)
LEMMA CustomerLeaves ==
  ASSUME CustomerInv, UNCHANGED <<customer, customerKey>>, NEW q \in Request, NEW x,
         request' = [request EXCEPT ![q] = x], x.pc \notin Asking,
         \/ UNCHANGED stored
         \/ request[q].pc = "remember" /\ stored' = request[q].customer
  PROVE  OneChain' /\ (\A p \in Request : Minting(request[p])') /\ Apart'
<1>1. Minting(x) /\ x.pc # "remember"
  BY DEF Minting, Asking
<1> QED  BY <1>1, CustomerMoves

LEMMA CustomerWork ==
  ASSUME CustomerInv, CheckoutInv', NEW q \in Request, Work(q) \/ Fail(q)
  PROVE  CustomerInv'
<1> PICK r : r = request[q]
  OBVIOUS
<1>0. /\ r \in RequestType /\ Minting(r) /\ request \in [Request -> RequestType]
      /\ None \notin Customer /\ RequestOK(r)
  BY CheckoutAssumption DEF CustomerInv, CheckoutInv, TypeOK, RequestsOK
<1>i. Idle.pc \notin Asking
  BY DEF Idle, Asking
<1>1. ASSUME UNCHANGED <<customer, customerKey, stored>>, End(q)
      PROVE  CustomerInv'
  BY <1>1, <1>i, CustomerLeaves DEF End, CustomerInv
<1>2. ASSUME UNCHANGED <<customer, customerKey, stored>>, NEW x,
             request' = [request EXCEPT ![q] = x], x.pc \notin Asking
      PROVE  CustomerInv'
  BY <1>2, CustomerLeaves DEF CustomerInv
<1>3. ASSUME UNCHANGED <<customer, customerKey, stored>>, NEW x,
             request' = [request EXCEPT ![q] = x], r.pc \in Asking, x.known = r.known,
             x.pc \notin {"list", "mint", "remember"}
      PROVE  CustomerInv'
  <2>1. Minting(x)
    BY <1>0, <1>3 DEF Minting
  <2> QED  BY <1>3, <2>1, CustomerMoves DEF CustomerInv
<1>4. CASE Fail(q)
  BY <1>1, <1>4 DEF Fail, stripe
<1>5. CASE InsertOrder(q)
  <2>1. /\ UNCHANGED <<customer, customerKey, stored>> /\ r.pc \in Asking
        /\ \E pc \in {"customer", "find"} : Go(q, pc)
    BY <1>5 DEF InsertOrder, stripe, Asking
  <2>2. PICK pc \in {"customer", "find"} : Go(q, pc)
    BY <2>1
  <2> DEFINE x == [r EXCEPT !.pc = pc]
  <2>3. request' = [request EXCEPT ![q] = x] /\ x.pc = pc /\ x.known = r.known
    BY <1>0, <2>2 DEF Go, RequestType
  <2> HIDE DEF x
  <2> QED  BY <1>3, <2>1, <2>3
<1>6. CASE FindOrder(q)
  <2>1. /\ UNCHANGED <<customer, customerKey, stored>> /\ r.pc \in Asking
    BY <1>6 DEF FindOrder, stripe, Asking
  <2>2. CASE End(q)
    BY <1>1, <2>1, <2>2
  <2>3. CASE ~End(q)
    <3> DEFINE row == order[r.intent]
               x == [r EXCEPT !.pc = IF row.session # None THEN "retrieve" ELSE "customer",
                              !.session = row.session, !.email = row.email]
    <3>1. request' = [request EXCEPT ![q] = x]
      BY <1>6, <2>3 DEF FindOrder
    <3>2. x.pc \in {"retrieve", "customer"} /\ x.known = r.known
      BY <1>0 DEF RequestType
    <3> HIDE DEF x
    <3> QED  BY <1>3, <2>1, <3>1, <3>2
  <2> QED  BY <2>2, <2>3
<1>7. CASE RetrieveSession(q) \/ Answered(q)
  BY <1>1, <1>7 DEF RetrieveSession, Answered, stripe
<1>8. ASSUME NEW c, With(q, c), UNCHANGED <<customer, customerKey>>,
             \/ UNCHANGED stored
             \/ r.pc = "remember" /\ stored' = r.customer
      PROVE  CustomerInv'
  <2> DEFINE x == IF r.intent = None THEN Idle ELSE [r EXCEPT !.pc = "create", !.customer = c]
  <2>1. request' = [request EXCEPT ![q] = x]
    BY <1>8 DEF With
  <2>2. x.pc \notin Asking
    BY <1>0, <1>i DEF RequestType, Asking
  <2> HIDE DEF x
  <2> QED  BY <1>8, <2>1, <2>2, CustomerLeaves DEF CustomerInv
<1>9. CASE RetrieveCustomer(q)
  <2>1. /\ UNCHANGED <<customer, customerKey, stored>> /\ r.pc = "customer"
        /\ \/ With(q, r.known)
           \/ r.known \notin Live /\ Go(q, "list")
    BY <1>9 DEF RetrieveCustomer, stripe
  <2>2. CASE r.known \notin Live /\ Go(q, "list")
    <3> DEFINE x == [r EXCEPT !.pc = "list"]
    <3>1. /\ request' = [request EXCEPT ![q] = x] /\ x.pc = "list" /\ x.known = r.known
          /\ r.pc \in Asking
      BY <1>0, <2>1, <2>2 DEF Go, RequestType, Asking
    <3> HIDE DEF x
    <3>2. Minting(x)
      BY <1>0, <2>2, <3>1 DEF Minting
    <3> QED  BY <2>1, <3>1, <3>2, CustomerMoves DEF CustomerInv
  <2> QED  BY <1>8, <2>1, <2>2
<1>10. CASE ListCustomers(q)
  <2>1. /\ UNCHANGED <<customer, customerKey, stored>> /\ r.pc = "list" /\ r.pc \in Asking
    BY <1>10 DEF ListCustomers, stripe, Asking
  <2>2. CASE Adoptable(r.email) = {} /\ Go(q, "mint")
    <3> DEFINE x == [r EXCEPT !.pc = "mint"]
    <3>1. /\ request' = [request EXCEPT ![q] = x]
          /\ x.pc = "mint" /\ x.known = r.known /\ x.email = r.email
      BY <1>0, <2>2 DEF Go, RequestType
    <3> HIDE DEF x
    <3>2. Minting(x)
      BY <1>0, <2>1, <2>2, <3>1 DEF Minting
    <3> QED  BY <2>1, <3>1, <3>2, CustomerMoves DEF CustomerInv
  <2>3. ASSUME NEW c \in Adoptable(r.email),
               request' = [request EXCEPT ![q].pc = "remember", ![q].customer = c]
        PROVE  CustomerInv'
    <3> DEFINE x == [r EXCEPT !.pc = "remember", !.customer = c]
    <3>1. /\ request' = [request EXCEPT ![q] = x]
          /\ x.pc = "remember" /\ x.known = r.known /\ x.customer = c /\ c \in Live
      BY <1>0, <2>3 DEF RequestType, Adoptable
    <3> HIDE DEF x
    <3>2. Minting(x)
      BY <1>0, <2>1, <3>1 DEF Minting
    <3> QED  BY <2>1, <3>1, <3>2, CustomerMoves DEF CustomerInv
  <2> QED  BY <1>10, <2>2, <2>3 DEF ListCustomers
<1>11. CASE CreateCustomer(q)
  <2> DEFINE used == customerKey[r.known]
  <2>1. /\ UNCHANGED stored /\ r.pc = "mint" /\ r.pc \in Asking
        /\ used \in CustomerKeyType
    BY <1>0, <1>11
    DEF CreateCustomer, Asking, CustomerInv, CheckoutInv, TypeOK, RequestType
  <2>2. CASE /\ used.customer # None /\ UNCHANGED stripe
             /\ request' = [request EXCEPT ![q].pc = "remember",
                                           ![q].customer = used.customer]
    <3> DEFINE x == [r EXCEPT !.pc = "remember", !.customer = used.customer]
    <3>1. /\ request' = [request EXCEPT ![q] = x]
          /\ x.pc = "remember" /\ x.known = r.known /\ x.customer = used.customer
          /\ used.customer \in Customer
      BY <1>0, <2>1, <2>2 DEF RequestType, CustomerKeyType, Opt
    <3> HIDE DEF x
    <3>2. Minting(x)
      BY <1>0, <2>1, <3>1 DEF Minting
    <3>3. x.customer \in Live \/ Follows(r.known, x.customer)
      BY <3>1 DEF Follows
    <3> QED  BY <2>1, <2>2, <3>1, <3>2, <3>3, CustomerMoves DEF CustomerInv, stripe
  <2>3. CASE End(q) /\ UNCHANGED stripe
    BY <1>1, <2>1, <2>3 DEF stripe
  <2>4. ASSUME used.customer = None,
               \E c \in Customer :
                 /\ customer[c].status = "none"
                 /\ customer' = [customer EXCEPT ![c] = [status |-> "live", email |-> r.email]]
                 /\ customerKey' = [customerKey EXCEPT ![r.known] =
                      [email |-> r.email, customer |-> c, at |-> now]]
                 /\ request' = [request EXCEPT ![q].pc = "remember", ![q].customer = c]
        PROVE  CustomerInv'
    BY <2>1, <2>4, CustomerMints DEF CustomerInv
  <2> QED  BY <1>11, <2>2, <2>3, <2>4 DEF CreateCustomer
<1>12. CASE RememberCustomer(q)
  BY <1>8, <1>12 DEF RememberCustomer, stripe
<1>13. CASE CreateSession(q)
  <2>1. UNCHANGED <<customer, customerKey, stored>>
    BY <1>13 DEF CreateSession, stripe
  <2>2. CASE End(q)
    BY <1>1, <2>1, <2>2
  <2>3. CASE \E s : request' = [request EXCEPT ![q].pc = "store", ![q].session = s]
    <3>1. PICK s : request' = [request EXCEPT ![q].pc = "store", ![q].session = s]
      BY <2>3
    <3> DEFINE x == [r EXCEPT !.pc = "store", !.session = s]
    <3>2. request' = [request EXCEPT ![q] = x] /\ x.pc = "store"
      BY <1>0, <3>1 DEF RequestType
    <3> HIDE DEF x
    <3> QED  BY <1>2, <2>1, <3>2 DEF Asking
  <2> QED  BY <1>13, <2>2, <2>3 DEF CreateSession
<1>14. CASE UpdateOrderSession(q)
  BY <1>1, <1>14 DEF UpdateOrderSession
<1>15. CASE ReadReturn(q) \/ LookReturn(q) \/ ReturnThrows(q)
  <2>1. UNCHANGED <<customer, customerKey, stored>>
    BY <1>15 DEF ReadReturn, LookReturn, ReturnThrows, stripe
  <2>2. \/ \E paid : request' = [request EXCEPT ![q].pc = "look", ![q].paid = paid]
        \/ \E answer : Tell(q, answer)
        \/ ReturnThrows(q)
    BY <1>15 DEF ReadReturn, LookReturn
  <2>3. ASSUME NEW paid, request' = [request EXCEPT ![q].pc = "look", ![q].paid = paid]
        PROVE  CustomerInv'
    <3> DEFINE x == [r EXCEPT !.pc = "look", !.paid = paid]
    <3>1. request' = [request EXCEPT ![q] = x] /\ x.pc = "look"
      BY <1>0, <2>3 DEF RequestType
    <3> HIDE DEF x
    <3> QED  BY <1>2, <2>1, <3>1 DEF Asking
  <2>4. ASSUME NEW answer, Tell(q, answer)
        PROVE  CustomerInv'
    <3> DEFINE x == [r EXCEPT !.pc = "told", !.answer = answer]
    <3>1. request' = [request EXCEPT ![q] = x] /\ x.pc = "told"
      BY <1>0, <2>4 DEF Tell, RequestType
    <3> HIDE DEF x
    <3> QED  BY <1>2, <2>1, <3>1 DEF Asking
  <2>5. CASE ReturnThrows(q)
    <3> DEFINE x == [r EXCEPT !.pc = "told", !.answer = "failed", !.threw = TRUE]
    <3>1. request' = [request EXCEPT ![q] = x] /\ x.pc = "told"
      BY <1>0, <2>5 DEF ReturnThrows, RequestType
    <3> HIDE DEF x
    <3> QED  BY <1>2, <2>1, <3>1 DEF Asking
  <2> QED  BY <2>2, <2>3, <2>4, <2>5
<1> QED
  BY <1>4, <1>5, <1>6, <1>7, <1>9, <1>10, <1>11, <1>12, <1>13, <1>14, <1>15 DEF Work

(* A request begins by reading what the organization knows. *)
LEMMA CustomerBegins ==
  ASSUME CustomerInv, CheckoutInv', NEW q \in Request,
         \/ \E i \in Intent, t \in Terms, e \in Email : Ask(q, i, t, e)
         \/ \E e \in Email : OpenPortal(q, e)
         \/ \E s \in Session : Return(q, s)
  PROVE  CustomerInv'
<1>0. UNCHANGED <<customer, customerKey, stored>>
  BY DEF Ask, OpenPortal, Return, stripe
<1>1. \E x : /\ request' = [request EXCEPT ![q] = x]
             /\ \/ x.pc \in {"insert", "customer"} /\ x.known = stored
                \/ x.pc = "return"
  <2>1. ASSUME NEW i \in Intent, NEW t \in Terms, NEW e \in Email, Ask(q, i, t, e)
        PROVE  \E x : /\ request' = [request EXCEPT ![q] = x]
                      /\ x.pc = "insert" /\ x.known = stored
    <3> DEFINE x == [Idle EXCEPT !.pc = "insert", !.intent = i, !.terms = t, !.email = e,
                                 !.known = stored]
    <3>1. x.pc = "insert" /\ x.known = stored
      BY DEF Idle
    <3>2. request' = [request EXCEPT ![q] = x]
      BY <2>1 DEF Ask
    <3> QED  BY <3>1, <3>2
  <2>2. ASSUME NEW e \in Email, OpenPortal(q, e)
        PROVE  \E x : /\ request' = [request EXCEPT ![q] = x]
                      /\ x.pc = "customer" /\ x.known = stored
    <3> DEFINE x == [Idle EXCEPT !.pc = "customer", !.email = e, !.known = stored]
    <3>1. x.pc = "customer" /\ x.known = stored
      BY DEF Idle
    <3>2. request' = [request EXCEPT ![q] = x]
      BY <2>2 DEF OpenPortal
    <3> QED  BY <3>1, <3>2
  <2>3. ASSUME NEW s \in Session, Return(q, s)
        PROVE  \E x : request' = [request EXCEPT ![q] = x] /\ x.pc = "return"
    <3> DEFINE x == [Idle EXCEPT !.pc = "return", !.intent = session[s].intent, !.session = s]
    <3>1. x.pc = "return"
      BY DEF Idle
    <3>2. request' = [request EXCEPT ![q] = x]
      BY <2>3 DEF Return
    <3> QED  BY <3>1, <3>2
  <2> QED  BY <2>1, <2>2, <2>3
<1>2. PICK x : /\ request' = [request EXCEPT ![q] = x]
               /\ \/ x.pc \in {"insert", "customer"} /\ x.known = stored
                  \/ x.pc = "return"
  BY <1>1
<1>3. stored # None => customer[stored].status # "none"
  BY DEF CustomerInv, CheckoutInv, CustomersOK
<1>4. Minting(x)
  BY <1>2, <1>3 DEF Minting, Asking
<1> QED  BY <1>0, <1>2, <1>4, CustomerMoves DEF CustomerInv, Asking

(* When no request is under way, all that is held is what is stored.       *)
LEMMA CustomerQuiet ==
  ASSUME CustomerInv, CheckoutInv', Quiet, UNCHANGED request,
         Live' \subseteq Live,
         \A c \in Live' : customer'[c] = customer[c]
  PROVE  CustomerInv'
<1>1. \A q \in Request : request'[q].pc = "idle"
  BY DEF Quiet, Idle
<1>2. PICK r \in Opt(Customer) : r = stored'
  BY DEF CheckoutInv, TypeOK
<1>3. OneChain'
  <2>1. \A k \in Opt(Customer) : Held(k)' => k = r
    BY <1>1, <1>2 DEF Held, Asking
  <2>2. r \in Reach(r)'
    BY <1>2 DEF Reach
  <2> QED  BY <1>2, <2>1, <2>2 DEF OneChain
<1>4. \A q \in Request : Minting(request[q])'
  BY <1>1 DEF Minting, Asking
<1>5. Apart'
  BY DEF CustomerInv, Apart
<1> QED  BY <1>3, <1>4, <1>5 DEF CustomerInv

(* A customer is deleted that nobody goes by, or while all others are      *)
(* alive: the keys of those who go by it are one key.                      *)
LEMMA CustomerDies ==
  ASSUME CustomerInv, CheckoutInv', NEW c \in Customer, DeleteCustomer(c), ~crossed'
  PROVE  CustomerInv'
<1>1. /\ UNCHANGED <<stored, customerKey, request>> /\ c \in Live
      /\ ~Held(c) \/ \A k \in Opt(Customer) \ Live : ~Held(k)
  BY DEF DeleteCustomer
<1>2. customer' = [customer EXCEPT ![c].status = "deleted"]
  BY DEF DeleteCustomer
<1>3. /\ \A d \in Customer \ {c} : customer'[d] = customer[d]
      /\ customer'[c].status = "deleted"
  BY <1>2 DEF CustomerInv, CheckoutInv, TypeOK, CustomerType
<1>4. Live' = Live \ {c}
  BY <1>3 DEF Live
<1>5. /\ \A k : Held(k)' <=> Held(k)
      /\ \A k \in Opt(Customer), m \in Customer : Follows(k, m) => Follows(k, m)'
  BY <1>1, <1>4 DEF Held, Follows
<1>6. OneChain'
  <2>1. CASE ~Held(c)
    <3>1. \A k \in Live : Held(k)' => k \in Live'
      BY <1>4, <1>5, <2>1
    <3> QED  BY <1>5, <3>1, KeepsChain DEF CustomerInv
  <2>2. CASE \A k \in Opt(Customer) \ Live : ~Held(k)
    <3>1. \A k \in Opt(Customer) : Held(k)' => k \in Live' \/ k = c
      BY <1>4, <1>5, <2>2
    <3>2. c \in Opt(Customer) /\ c \in Reach(c)'
      BY DEF Reach, Opt
    <3> QED  BY <3>1, <3>2 DEF OneChain
  <2> QED  BY <1>1, <2>1, <2>2
<1>7. ASSUME NEW q \in Request PROVE Minting(request[q])'
  <2>1. Minting(request[q])
    BY DEF CustomerInv
  <2>2. request[q].known # None => request[q].known \in Customer
    BY DEF CustomerInv, CheckoutInv, TypeOK, RequestType, Opt
  <2>3. Adoptable(request[q].email)' \subseteq Adoptable(request[q].email)
    BY <1>1, <1>3, <1>4 DEF Adoptable, Live
  <2> QED  BY <1>1, <1>3, <1>4, <2>1, <2>2, <2>3 DEF Minting
<1>8. Apart'
  <2>1. \A d \in Live' : d \in Live /\ customer'[d] = customer[d]
    BY <1>3, <1>4 DEF Live
  <2> QED  BY <2>1 DEF CustomerInv, Apart
<1> QED  BY <1>6, <1>7, <1>8 DEF CustomerInv

LEMMA NextCustomerInv == CustomerInv /\ [Next]_vars /\ ~crossed' => CustomerInv'
<1> SUFFICES ASSUME CustomerInv, [Next]_vars, ~crossed' PROVE CustomerInv'
  OBVIOUS
<1>0. CheckoutInv'
  BY NextCheckoutInv DEF CustomerInv
<1>1. ASSUME NEW q \in Request, Work(q) \/ Fail(q) PROVE CustomerInv'
  BY <1>0, <1>1, CustomerWork
<1>2. ASSUME UNCHANGED <<customer, customerKey, stored, request>>
      PROVE  CustomerInv'
  BY <1>0, <1>2
  DEF CustomerInv, OneChain, Held, Reach, Closed, Follows, Live, Minting, Adoptable, Apart
<1>3. ASSUME NEW s \in Session, Pay(s) \/ Settle(s) \/ MarkOrderPaid(s)
      PROVE  CustomerInv'
  BY <1>2, <1>3 DEF Pay, Settle, MarkOrderPaid, stripe
<1>4. ASSUME NEW c \in Customer, DeleteCustomer(c)
      PROVE  CustomerInv'
  BY <1>0, <1>4, CustomerDies
<1>5. CASE Tick
  <2>1. Quiet /\ UNCHANGED <<request, customer>>
    BY <1>5 DEF Tick
  <2> QED  BY <1>0, <2>1, CustomerQuiet DEF Live
<1>6. CASE UNCHANGED vars
  BY <1>2, <1>6 DEF vars, stripe
<1> QED
  BY <1>0, <1>1, <1>3, <1>4, <1>5, <1>6, CustomerBegins DEF Next

(* What was crossed stays crossed. *)
LEMMA NextUncrossed == Uncrossed /\ [Next]_vars => Uncrossed'
<1> SUFFICES ASSUME Uncrossed, [Next]_vars PROVE Uncrossed'
  OBVIOUS
<1>1. crossed => crossed'
  <2>1. ASSUME NEW q \in Request, Work(q) PROVE UNCHANGED crossed
    BY <2>1, ZenonT(60)
    DEF Work, InsertOrder, FindOrder, RetrieveSession, RetrieveCustomer, ListCustomers,
        CreateCustomer, RememberCustomer, CreateSession, UpdateOrderSession, ReadReturn,
        LookReturn, ReturnThrows, Answered
  <2>2. ASSUME NEW q \in Request,
               \/ \E i \in Intent, t \in Terms, e \in Email : Ask(q, i, t, e)
               \/ \E e \in Email : OpenPortal(q, e)
               \/ \E s \in Session : Return(q, s)
               \/ Fail(q)
        PROVE  UNCHANGED crossed
    BY <2>2 DEF Ask, OpenPortal, Return, Fail
  <2>3. ASSUME \/ \E s \in Session : Pay(s) \/ Settle(s) \/ MarkOrderPaid(s)
               \/ Tick \/ UNCHANGED vars
        PROVE  UNCHANGED crossed
    BY <2>3 DEF Pay, Settle, MarkOrderPaid, Tick, vars
  <2>4. ASSUME NEW c \in Customer, DeleteCustomer(c) PROVE crossed => crossed'
    BY <2>4 DEF DeleteCustomer
  <2> QED  BY <2>1, <2>2, <2>3, <2>4 DEF Next
<1> QED
  BY <1>1, NextCheckoutInv, NextCustomerInv DEF Uncrossed

LEMMA InitCustomerInv == Init => CustomerInv
<1> SUFFICES ASSUME Init PROVE CustomerInv
  OBVIOUS
<1>1. CheckoutInv
  BY InitCheckoutInv
<1>2. /\ stored = None /\ None \in Opt(Customer)
      /\ \A q \in Request : request[q].pc = "idle"
      /\ Live = {}
  BY DEF Init, Idle, Opt, Live
<1>3. OneChain
  <2>1. \A k \in Opt(Customer) : Held(k) => k = None
    BY <1>2 DEF Held, Asking
  <2>2. None \in Reach(None)
    BY <1>2, ReachLeast
  <2> QED  BY <1>2, <2>1, <2>2 DEF OneChain
<1>4. \A q \in Request : Minting(request[q])
  BY <1>2 DEF Minting, Asking
<1>5. Apart
  BY <1>2 DEF Apart
<1> QED  BY <1>1, <1>3, <1>4, <1>5 DEF CustomerInv

(* The organization has one customer per email, whichever requests find,   *)
(* make or adopt it side by side and whatever dies or is forgotten, until  *)
(* a customer is deleted under requests that go by different ones.         *)
THEOREM AlwaysOneCustomer == Spec => []OneCustomer
<1>1. Init => Uncrossed
  BY InitCustomerInv DEF Uncrossed, CustomerInv
<1>2. Uncrossed => OneCustomer
  BY DEF Uncrossed, CustomerInv, Apart, OneCustomer
<1> QED
  BY <1>1, <1>2, NextUncrossed, PTL DEF Spec

-----------------------------------------------------------------------------
(* Checkout implements Purchase.  CheckoutInv says why a session that is   *)
(* paid is the first of its intent; PaidOK that no order loses its mark.   *)

PaidOK == \A i \in Intent : order[i].paid => Ordered(i)

(* The tables say the same of money as before. *)
SameOrders == \A i \in Intent : order'[i].paid = order[i].paid
SameSessions ==
  \A s \in Session :
    /\ session'[s].status = session[s].status \/ ~(Settled(s) \/ Settled(s)')
    /\ Settled(s) => session'[s].intent = session[s].intent

LEMMA SameMoney ==
  /\ SameOrders => UNCHANGED PaidOrders
  /\ SameSessions => UNCHANGED <<Charged, Received>>
<1>1. ASSUME SameOrders PROVE UNCHANGED PaidOrders
  BY <1>1 DEF SameOrders, PaidOrders
<1>2. ASSUME SameSessions PROVE UNCHANGED <<Charged, Received>>
  <2>1. ASSUME NEW s \in Session
        PROVE  /\ Settled(s)' <=> Settled(s)
               /\ session'[s].status = "paid" <=> session[s].status = "paid"
               /\ Settled(s) => session'[s].intent = session[s].intent
    BY <1>2 DEF SameSessions, Settled
  <2>2. UNCHANGED Received
    BY <2>1 DEF Received
  <2>3. ASSUME NEW i \in Intent
        PROVE  {s \in Session : Settled(s)' /\ session'[s].intent = i}
                 = {s \in Session : Settled(s) /\ session[s].intent = i}
    BY <2>1
  <2>4. UNCHANGED Charged
    BY <2>3 DEF Charged
  <2> QED  BY <2>2, <2>4
<1> QED
  BY <1>1, <1>2

(* An order keeps its mark: none is inserted twice. *)
LEMMA NextPaidOK == CheckoutInv /\ PaidOK /\ [Next]_vars => PaidOK'
<1> SUFFICES ASSUME CheckoutInv, PaidOK, [Next]_vars PROVE PaidOK'
  OBVIOUS
<1>1. ASSUME UNCHANGED order PROVE PaidOK'
  BY <1>1 DEF PaidOK, Ordered
<1>2. ASSUME NEW q \in Request, InsertOrder(q) \/ UpdateOrderSession(q) PROVE PaidOK'
  <2>1. \A i \in Intent : order[i] \in OrderType
    BY DEF CheckoutInv, TypeOK
  <2>2. ASSUME NEW i \in Intent, order'[i] # order[i]
        PROVE  \/ ~order'[i].paid
               \/ order'[i].terms = order[i].terms /\ order'[i].paid = order[i].paid
    <3>1. CASE InsertOrder(q)
      <4>1. order' = [order EXCEPT ![request[q].intent] =
              [NoOrder EXCEPT !.terms = request[q].terms, !.email = request[q].email]]
        BY <2>2, <3>1 DEF InsertOrder
      <4>2. order'[i] = [NoOrder EXCEPT !.terms = request[q].terms, !.email = request[q].email]
        BY <2>2, <4>1 DEF CheckoutInv, TypeOK
      <4>3. order'[i].paid = FALSE
        BY <4>2 DEF NoOrder
      <4> QED
        BY <4>3
    <3>2. CASE UpdateOrderSession(q)
      <4>1. order' = [order EXCEPT ![request[q].intent].session = request[q].session]
        BY <3>2 DEF UpdateOrderSession
      <4>2. order'[i] = [order[i] EXCEPT !.session = request[q].session]
        BY <2>2, <4>1 DEF CheckoutInv, TypeOK
      <4>3. order[i] \in OrderType
        BY <2>1
      <4> QED
        BY <4>2, <4>3 DEF OrderType
    <3> QED  BY <1>2, <3>1, <3>2
  <2> QED
    BY <2>2 DEF PaidOK, Ordered
<1>3. ASSUME NEW s \in Session, MarkOrderPaid(s) PROVE PaidOK'
  <2> DEFINE j == session[s].intent
  <2>1. j \in Intent /\ Ordered(j)
    <3>1. session[s].status # "none" /\ session[s].shown
      BY <1>3 DEF MarkOrderPaid, CheckoutInv, OrdersOK, Settled
    <3>2. s # None
      BY CheckoutAssumption
    <3> QED
      BY <3>1, <3>2 DEF CheckoutInv, OrdersOK
  <2>2. \A i \in Intent : /\ order'[i].terms = order[i].terms
                          /\ i # j => order'[i] = order[i]
    BY <1>3 DEF MarkOrderPaid, CheckoutInv, TypeOK, OrderType
  <2> QED
    BY <2>1, <2>2 DEF PaidOK, Ordered
<1>4. ASSUME NEW q \in Request, Work(q) PROVE PaidOK'
  <2>1. ASSUME \/ FindOrder(q) \/ RetrieveSession(q) \/ RetrieveCustomer(q) \/ ListCustomers(q)
               \/ CreateCustomer(q) \/ RememberCustomer(q) \/ CreateSession(q)
               \/ ReadReturn(q) \/ LookReturn(q) \/ ReturnThrows(q)
               \/ Answered(q)
        PROVE  UNCHANGED order
    BY <2>1 DEF FindOrder, RetrieveSession, RetrieveCustomer, ListCustomers, CreateCustomer,
       RememberCustomer, CreateSession, ReadReturn, LookReturn, ReturnThrows, Answered
  <2> QED
    BY <1>1, <1>2, <1>4, <2>1, SMTT(40) DEF Work
<1>5. ASSUME NEW q \in Request,
             \/ \E i \in Intent, t \in Terms, e \in Email : Ask(q, i, t, e)
             \/ \E e \in Email : OpenPortal(q, e)
             \/ \E s \in Session : Return(q, s)
             \/ Fail(q)
      PROVE  UNCHANGED order
  BY <1>5 DEF Ask, OpenPortal, Return, Fail
<1>6. ASSUME \/ \E s \in Session : Pay(s) \/ Settle(s)
             \/ \E c \in Customer : DeleteCustomer(c)
             \/ Tick \/ UNCHANGED vars
      PROVE  UNCHANGED order
  BY <1>6 DEF Pay, Settle, DeleteCustomer, Tick, vars
<1> QED
  BY <1>1, <1>3, <1>4, <1>5, <1>6 DEF Next

(* The steps of money. *)
LEMMA MoneySteps ==
  ASSUME CheckoutInv, NEW s \in Session, Pay(s) \/ Settle(s) \/ MarkOrderPaid(s)
  PROVE  Promise!Next
<1> DEFINE j == session[s].intent
<1>1. s # None
  BY CheckoutAssumption
<1>2. session[s].status # "none" /\ session[s].shown
  BY DEF Pay, Settle, MarkOrderPaid, Payable, Settled, CheckoutInv, OrdersOK
<1>3. j \in Intent /\ order[j].session = s
  BY <1>2 DEF CheckoutInv, OrdersOK
<1>4. ASSUME NEW t \in Session, Settled(t), session[t].intent = j PROVE t = s
  BY <1>3, <1>4 DEF CheckoutInv, OrdersOK
<1>5. Charged \in [Intent -> SUBSET Session] /\ Received \subseteq Session
  BY DEF Charged, Received
<1>6. CASE Pay(s)
  <2>1. PICK status \in {"complete", "paid"} : session' = [session EXCEPT ![s].status = status]
    BY <1>6 DEF Pay
  <2>2. \A t \in Session :
          /\ session'[t].intent = session[t].intent
          /\ session'[t].status = IF t = s THEN status ELSE session[t].status
    BY <2>1 DEF CheckoutInv, TypeOK, SessionType
  <2>3. ~Settled(s)
    BY <1>6 DEF Pay, Payable, Settled
  <2>4. ASSUME NEW t \in Session PROVE Settled(t)' <=> Settled(t) \/ t = s
    BY <2>2 DEF Settled
  <2>5. Charged[j] = {}
    BY <1>3, <1>4, <2>3 DEF Charged
  <2>6. \A i \in Intent : s \notin Charged[i]
    BY <2>3 DEF Charged
  <2>7. Charged' = [Charged EXCEPT ![j] = {s}]
    <3>1. ASSUME NEW i \in Intent
          PROVE  Charged'[i] = IF i = j THEN {s} ELSE Charged[i]
      <4>1. Charged'[i] = {t \in Session : (Settled(t) \/ t = s) /\ session[t].intent = i}
        BY <2>2, <2>4 DEF Charged
      <4>2. Charged[i] = {t \in Session : Settled(t) /\ session[t].intent = i}
        BY DEF Charged
      <4> QED
        BY <1>4, <2>3, <4>1, <4>2
    <3>2. Charged' = [i \in Intent |-> Charged'[i]]
      BY DEF Charged
    <3> QED
      BY <1>3, <1>5, <3>1, <3>2
  <2>8. Received' \in {Received, Received \union {s}}
    BY <2>2, <2>3, Zenon DEF Received, Settled
  <2>9. UNCHANGED PaidOrders
    BY <1>6 DEF Pay, PaidOrders
  <2> HIDE DEF j
  <2>10. Promise!Charge(j, s)
    BY <2>5, <2>6, <2>7, <2>8, <2>9 DEF Promise!Charge
  <2> QED
    BY <1>3, <2>10 DEF Promise!Next
<1>7. CASE Settle(s)
  <2>1. \A t \in Session :
          /\ session'[t].intent = session[t].intent
          /\ session'[t].status = IF t = s THEN "paid" ELSE session[t].status
    BY <1>7 DEF Settle, CheckoutInv, TypeOK, SessionType
  <2>2. session[s].status = "complete"
    BY <1>7 DEF Settle
  <2>3. \A t \in Session : Settled(t)' <=> Settled(t)
    BY <2>1, <2>2 DEF Settled
  <2>4. UNCHANGED Charged
    BY <2>1, <2>3 DEF Charged
  <2>5. s \in Charged[j] \ Received /\ Received' = Received \union {s}
    BY <1>3, <2>1, <2>2 DEF Charged, Received, Settled
  <2>6. UNCHANGED PaidOrders
    BY <1>7 DEF Settle, PaidOrders
  <2> HIDE DEF j
  <2>7. Promise!Arrive(j)
    BY <2>4, <2>5, <2>6 DEF Promise!Arrive
  <2> QED
    BY <1>3, <2>7 DEF Promise!Next
<1>8. CASE MarkOrderPaid(s)
  <2>1. session[s].status = "paid" /\ ~order[j].paid
    BY <1>8 DEF MarkOrderPaid
  <2>2. Charged[j] = {s} /\ s \in Received
    BY <1>3, <1>4, <2>1 DEF Charged, Received, Settled
  <2>3. UNCHANGED <<Charged, Received>>
    BY <1>8 DEF MarkOrderPaid, stripe, Charged, Received, Settled
  <2>4. ASSUME NEW i \in Intent PROVE order'[i].paid <=> order[i].paid \/ i = j
    <3>1. order[i] \in OrderType
      BY DEF CheckoutInv, TypeOK
    <3>2. order'[i] = IF i = j THEN [order[i] EXCEPT !.paid = TRUE] ELSE order[i]
      BY <1>8 DEF MarkOrderPaid, CheckoutInv, TypeOK
    <3> QED
      BY <3>1, <3>2 DEF OrderType
  <2>5. j \notin PaidOrders /\ PaidOrders' = PaidOrders \union {j}
    BY <1>3, <2>1, <2>4 DEF PaidOrders
  <2> HIDE DEF j
  <2>6. Promise!Fulfil(j)
    BY <2>2, <2>3, <2>5 DEF Promise!Fulfil
  <2> QED
    BY <1>3, <2>6 DEF Promise!Next
<1> QED
  BY <1>6, <1>7, <1>8

(* Every other step leaves money alone. *)
LEMMA OtherOrders ==
  ASSUME CheckoutInv, PaidOK,
         NEW q \in Request, InsertOrder(q) \/ UpdateOrderSession(q)
  PROVE  SameOrders
<1>1. CASE InsertOrder(q)
  <2>1. CASE UNCHANGED order
    BY <2>1 DEF SameOrders
  <2>2. CASE order' # order
    <3> DEFINE j == request[q].intent
    <3>1. /\ ~Ordered(j)
          /\ order' = [order EXCEPT ![j] =
               [NoOrder EXCEPT !.terms = request[q].terms, !.email = request[q].email]]
      BY <1>1, <2>2 DEF InsertOrder
    <3>2. ASSUME NEW i \in Intent PROVE order'[i].paid = order[i].paid
      <4>1. CASE i # j
        BY <3>1, <4>1 DEF CheckoutInv, TypeOK
      <4>2. CASE i = j
        <5>1. order'[i] = [NoOrder EXCEPT !.terms = request[q].terms, !.email = request[q].email]
          BY <3>1, <4>2 DEF CheckoutInv, TypeOK
        <5>2. order'[i].paid = FALSE
          BY <5>1 DEF NoOrder
        <5>3. order[i].paid \in BOOLEAN /\ ~order[i].paid
          BY <3>1, <4>2 DEF CheckoutInv, TypeOK, OrderType, PaidOK
        <5> QED
          BY <5>2, <5>3
      <4> QED  BY <4>1, <4>2
    <3> QED
      BY <3>2 DEF SameOrders
  <2> QED  BY <2>1, <2>2
<1>2. CASE UpdateOrderSession(q)
  <2>1. order' = [order EXCEPT ![request[q].intent].session = request[q].session]
    BY <1>2 DEF UpdateOrderSession
  <2>2. ASSUME NEW i \in Intent PROVE order'[i].paid = order[i].paid
    <3>1. order[i] \in OrderType
      BY DEF CheckoutInv, TypeOK
    <3>2. \/ order'[i] = [order[i] EXCEPT !.session = request[q].session]
          \/ order'[i] = order[i]
      BY <2>1 DEF CheckoutInv, TypeOK
    <3> QED
      BY <3>1, <3>2 DEF OrderType
  <2> QED
    BY <2>2 DEF SameOrders
<1> QED
  BY <1>1, <1>2

LEMMA OtherSessions ==
  ASSUME CheckoutInv,
         NEW q \in Request, CreateSession(q) \/ UpdateOrderSession(q)
  PROVE  SameSessions
<1>0. session \in [Session -> SessionType]
  BY DEF CheckoutInv, TypeOK
<1>1. CASE UNCHANGED session
  BY <1>1 DEF SameSessions, Settled
<1>2. CASE CreateSession(q) /\ session' # session
  <2>1. PICK s \in Session :
          /\ session[s].status = "none"
          /\ session' = [session EXCEPT ![s] =
               [NoSession EXCEPT !.status = "open", !.intent = request[q].intent, !.at = now]]
    BY <1>2 DEF CreateSession, stripe
  <2>2. ASSUME NEW t \in Session, t # s PROVE session'[t] = session[t]
    BY <1>0, <2>1, <2>2
  <2>3. session'[s].status = "open"
    BY <1>0, <2>1 DEF NoSession
  <2> QED
    BY <2>1, <2>2, <2>3 DEF SameSessions, Settled
<1>3. CASE UpdateOrderSession(q)
  <2>1. session' = [session EXCEPT ![request[q].session].shown = TRUE]
    BY <1>3 DEF UpdateOrderSession
  <2>2. ASSUME NEW t \in Session
        PROVE  session'[t].status = session[t].status /\ session'[t].intent = session[t].intent
    <3>1. \/ session'[t] = [session[t] EXCEPT !.shown = TRUE]
          \/ session'[t] = session[t]
      BY <1>0, <2>1
    <3>2. session[t] \in SessionType
      BY <1>0
    <3> QED
      BY <3>1, <3>2 DEF SessionType
  <2> QED
    BY <2>2 DEF SameSessions, Settled
<1> QED
  BY <1>1, <1>2, <1>3

LEMMA StepsOfMoney ==
  ASSUME CheckoutInv, PaidOK, [Next]_vars
  PROVE  \/ SameOrders /\ SameSessions
         \/ \E s \in Session : Pay(s) \/ Settle(s) \/ MarkOrderPaid(s)
<1>1. ASSUME UNCHANGED order PROVE SameOrders
  BY <1>1 DEF SameOrders
<1>2. ASSUME UNCHANGED session PROVE SameSessions
  BY <1>2 DEF SameSessions, Settled
<1>3. ASSUME NEW q \in Request, Work(q) PROVE SameOrders /\ SameSessions
  <2>1. ASSUME \/ FindOrder(q) \/ RetrieveSession(q) \/ RetrieveCustomer(q) \/ ListCustomers(q)
               \/ RememberCustomer(q) \/ ReadReturn(q) \/ LookReturn(q) \/ ReturnThrows(q)
               \/ Answered(q)
        PROVE  UNCHANGED <<order, session>>
    BY <2>1 DEF FindOrder, RetrieveSession, RetrieveCustomer, ListCustomers, RememberCustomer,
       ReadReturn, LookReturn, ReturnThrows, Answered, stripe
  <2>2. CreateCustomer(q) => UNCHANGED <<order, session>>
    BY DEF CreateCustomer, stripe
  <2>3. InsertOrder(q) => UNCHANGED session
    BY DEF InsertOrder, stripe
  <2>4. CreateSession(q) => UNCHANGED order
    BY SMTT(40) DEF CreateSession
  <2> QED
    BY <1>1, <1>2, <1>3, <2>1, <2>2, <2>3, <2>4, OtherOrders, OtherSessions DEF Work
<1>4. ASSUME \/ \E q \in Request :
                  \/ \E i \in Intent, t \in Terms, e \in Email : Ask(q, i, t, e)
                  \/ \E e \in Email : OpenPortal(q, e)
                  \/ \E s \in Session : Return(q, s)
                  \/ Fail(q)
             \/ \E c \in Customer : DeleteCustomer(c)
             \/ Tick \/ UNCHANGED vars
      PROVE  UNCHANGED <<order, session>>
  BY <1>4 DEF Ask, OpenPortal, Return, Fail, DeleteCustomer, Tick, vars, stripe
<1> QED
  BY <1>1, <1>2, <1>3, <1>4 DEF Next

LEMMA NextKeepsPromise == CheckoutInv /\ PaidOK /\ [Next]_vars => [Promise!Next]_(Promise!purchase)
<1> SUFFICES ASSUME CheckoutInv, PaidOK, [Next]_vars
             PROVE  Promise!Next \/ UNCHANGED Promise!purchase
  OBVIOUS
<1>1. CASE \E s \in Session : Pay(s) \/ Settle(s) \/ MarkOrderPaid(s)
  BY <1>1, MoneySteps
<1>2. CASE SameOrders /\ SameSessions
  <2>1. UNCHANGED <<Charged, Received, PaidOrders>>
    BY <1>2, SameMoney
  <2> QED
    BY <2>1 DEF Promise!purchase
<1> QED
  BY <1>1, <1>2, StepsOfMoney

(* Who was told of success, or is about to be. *)
Assured(r) ==
  \/ r.pc = "look" /\ r.paid
  \/ r.pc = "told" /\ r.answer = "success"

AssuredOK ==
  \A q \in Request : Assured(request[q]) =>
    request[q].intent \in Intent /\ order[request[q].intent].paid

(* A paid order stays paid. *)
LEMMA PaidStays ==
  ASSUME CheckoutInv, PaidOK, [Next]_vars, NEW i \in Intent, order[i].paid
  PROVE  order'[i].paid
<1>1. ASSUME NEW s \in Session, Pay(s) \/ Settle(s) \/ MarkOrderPaid(s)
      PROVE  order'[i].paid
  <2>1. CASE MarkOrderPaid(s)
    <3>1. \/ order'[i] = [order[i] EXCEPT !.paid = TRUE]
          \/ order'[i] = order[i]
      BY <2>1 DEF MarkOrderPaid, CheckoutInv, TypeOK
    <3>2. order[i] \in OrderType
      BY DEF CheckoutInv, TypeOK
    <3> QED
      BY <3>1, <3>2 DEF OrderType
  <2>2. CASE Pay(s) \/ Settle(s)
    BY <2>2 DEF Pay, Settle
  <2> QED  BY <1>1, <2>1, <2>2
<1> QED
  BY <1>1, StepsOfMoney DEF SameOrders

(* Nobody else comes to be assured. *)
LEMMA Unassured ==
  ASSUME CheckoutInv, [Next]_vars, NEW q \in Request,
         ~ReadReturn(q), ~LookReturn(q), ~ReturnThrows(q)
  PROVE  request'[q] = request[q] \/ request'[q].pc \notin {"look", "told"}
<1>0. request \in [Request -> RequestType] /\ request[q] \in RequestType
  BY DEF CheckoutInv, TypeOK
<1>i. Idle.pc = "idle"
  BY DEF Idle
<1>1. ASSUME NEW p \in Request, p # q, Work(p) PROVE request'[q] = request[q]
  BY <1>0, <1>1, ZenonT(60)
  DEF Work, InsertOrder, FindOrder, RetrieveSession, RetrieveCustomer, ListCustomers,
      CreateCustomer, RememberCustomer, CreateSession, UpdateOrderSession, ReadReturn,
      LookReturn, ReturnThrows, Answered, Go, End, With, Tell
<1>2. ASSUME NEW pc \in {"find", "customer", "list", "mint"}, Go(q, pc)
      PROVE  request'[q].pc \notin {"look", "told"}
  BY <1>0, <1>2 DEF Go, RequestType
<1>3. ASSUME NEW c, With(q, c) PROVE request'[q].pc \notin {"look", "told"}
  BY <1>0, <1>3, <1>i DEF With, RequestType
<1>4. ASSUME End(q) PROVE request'[q].pc \notin {"look", "told"}
  BY <1>0, <1>4, <1>i DEF End
<1>5. ASSUME Work(q) PROVE request'[q].pc \notin {"look", "told"}
  <2>1. CASE FindOrder(q)
    BY <1>0, <1>4, <2>1, ZenonT(60) DEF FindOrder, RequestType
  <2>2. CASE ListCustomers(q)
    BY <1>0, <1>2, <2>2 DEF ListCustomers, RequestType
  <2>3. CASE CreateCustomer(q)
    BY <1>0, <1>4, <2>3 DEF CreateCustomer, RequestType
  <2>4. CASE CreateSession(q)
    BY <1>0, <1>4, <2>4 DEF CreateSession, RequestType
  <2> QED
    BY <1>2, <1>3, <1>4, <1>5, <2>1, <2>2, <2>3, <2>4
    DEF Work, InsertOrder, RetrieveSession, RetrieveCustomer, RememberCustomer,
        UpdateOrderSession, Answered
<1>6. ASSUME NEW p \in Request, Fail(p)
      PROVE  request'[q] = request[q] \/ request'[q].pc = "idle"
  BY <1>0, <1>6, <1>i DEF Fail, End
<1>7. ASSUME NEW p \in Request,
             \/ \E i \in Intent, t \in Terms, e \in Email : Ask(p, i, t, e)
             \/ \E e \in Email : OpenPortal(p, e)
             \/ \E s \in Session : Return(p, s)
      PROVE  request'[q] = request[q] \/ request'[q].pc \in {"insert", "customer", "return"}
  <2>1. ASSUME NEW i \in Intent, NEW t \in Terms, NEW e \in Email, Ask(p, i, t, e)
        PROVE  request'[q] = request[q] \/ request'[q].pc = "insert"
    BY <1>0, <2>1 DEF Ask, Idle
  <2>2. ASSUME NEW e \in Email, OpenPortal(p, e)
        PROVE  request'[q] = request[q] \/ request'[q].pc = "customer"
    BY <1>0, <2>2 DEF OpenPortal, Idle
  <2>3. ASSUME NEW s \in Session, Return(p, s)
        PROVE  request'[q] = request[q] \/ request'[q].pc = "return"
    BY <1>0, <2>3 DEF Return, Idle
  <2> QED  BY <1>7, <2>1, <2>2, <2>3
<1>8. ASSUME \/ \E s \in Session : Pay(s) \/ Settle(s) \/ MarkOrderPaid(s)
             \/ \E c \in Customer : DeleteCustomer(c)
             \/ Tick \/ UNCHANGED vars
      PROVE  request'[q] = request[q]
  BY <1>8 DEF Pay, Settle, MarkOrderPaid, DeleteCustomer, Tick, vars
<1> QED
  BY <1>1, <1>5, <1>6, <1>7, <1>8 DEF Next

LEMMA NextAssured == CheckoutInv /\ PaidOK /\ AssuredOK /\ [Next]_vars => AssuredOK'
<1> SUFFICES ASSUME CheckoutInv, PaidOK, AssuredOK, [Next]_vars,
                    NEW q \in Request, Assured(request'[q])
             PROVE  request'[q].intent \in Intent /\ order'[request'[q].intent].paid
  BY DEF AssuredOK, Assured
<1>1. CASE request'[q] = request[q]
  BY <1>1, PaidStays DEF AssuredOK
<1>2. CASE ReadReturn(q)
  <2>1. /\ request[q].pc = "return" /\ request[q].intent \in Intent
        /\ request[q] \in RequestType /\ request \in [Request -> RequestType]
    BY <1>2 DEF ReadReturn, CheckoutInv, RequestsOK, RequestOK, Paying, TypeOK
  <2>2. CASE Tell(q, "failed")
    BY <2>1, <2>2 DEF Tell, Assured, RequestType
  <2>3. CASE request' = [request EXCEPT ![q].pc = "look",
                                        ![q].paid = order[request[q].intent].paid]
    <3>1. request'[q].intent = request[q].intent /\ order[request[q].intent].paid
      BY <2>1, <2>3 DEF Assured, RequestType
    <3> QED
      BY <2>1, <3>1, PaidStays
  <2> QED  BY <1>2, <2>2, <2>3 DEF ReadReturn
<1>3. CASE LookReturn(q)
  <2>1. PICK answer :
          /\ request' = [request EXCEPT ![q].pc = "told", ![q].answer = answer]
          /\ answer = "success" => request[q].paid
    <3> DEFINE answer == IF request[q].paid THEN "success"
                         ELSE IF Settled(request[q].session) THEN "processing" ELSE "failed"
    <3>1. request' = [request EXCEPT ![q].pc = "told", ![q].answer = answer]
      BY <1>3 DEF LookReturn, Tell
    <3>2. answer = "success" => request[q].paid
      OBVIOUS
    <3> HIDE DEF answer
    <3> QED  BY <3>1, <3>2
  <2>2. request[q].pc = "look" /\ request \in [Request -> RequestType]
    BY <1>3 DEF LookReturn, CheckoutInv, TypeOK
  <2>3. request'[q].intent = request[q].intent /\ Assured(request[q])
    BY <2>1, <2>2 DEF Assured, RequestType
  <2> QED
    BY <2>3, PaidStays DEF AssuredOK
<1>4. CASE ReturnThrows(q)
  BY <1>4 DEF ReturnThrows, Assured, CheckoutInv, TypeOK, RequestType
<1>5. CASE ~ReadReturn(q) /\ ~LookReturn(q) /\ ~ReturnThrows(q)
  BY <1>1, <1>5, Unassured DEF Assured
<1> QED
  BY <1>2, <1>3, <1>4, <1>5

(* Who comes back from having paid is told that it failed only when a call *)
(* of that return threw: what was paid stays the order's session.  Success *)
(* is said of paid orders only.                                            *)
THEOREM AlwaysReturnIsHonest == Spec => []ReturnIsHonest
<1>1. Init => PaidOK /\ AssuredOK
  BY DEF Init, PaidOK, NoOrder, AssuredOK, Assured, Idle
<1>2. CheckoutInv /\ AssuredOK => ReturnIsHonest
  BY DEF CheckoutInv, RequestsOK, RequestOK, AssuredOK, Assured, ReturnIsHonest
<1> QED
  BY <1>1, <1>2, AlwaysCheckoutInv, NextPaidOK, NextAssured, PTL DEF Spec

(* Whoever repeats an intent, whatever dies and however late Stripe        *)
(* answers: it takes money once in its life, and its order is paid only    *)
(* when that money is there, and for good (createCheckoutSession).         *)
THEOREM CheckoutKeepsPromise == Spec => KeepsPromise
<1>1. Init => Promise!Init /\ PaidOK
  BY DEF Init, Promise!Init, PaidOK, Charged, Received, PaidOrders, Settled, NoSession, NoOrder
<1> QED
  BY <1>1, AlwaysCheckoutInv, NextPaidOK, NextKeepsPromise, PTL
  DEF Spec, KeepsPromise, Promise!Spec
=============================================================================
