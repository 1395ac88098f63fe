--------------------------- MODULE StripeWebhook ---------------------------
(***************************************************************************)
(* The Stripe webhook endpoint (src/app/api/pay/webhook/stripe/route.ts):  *)
(* the claim table stripe_webhook_events, the handlers it protects, the    *)
(* order + ledger transaction of src/models/fulfillment.ts, the affiliate  *)
(* commission, and the admin who closes parked events.                     *)
(*                                                                         *)
(* A request is one POST from Stripe being handled.  Every database        *)
(* statement is a step of its own, except the statements of one            *)
(* transaction.  Stripe sends an event until it gets a 2xx or gives up; a  *)
(* person may press Resend.  A request may die anywhere (Crash), any await *)
(* may throw (Throw), and a 200 may never reach Stripe.                    *)
(***************************************************************************)
EXTENDS Integers, FiniteSets

CONSTANTS
  Request,         \* POSTs handled at the same time
  CheckoutEvents,  \* checkout.session.completed / async_payment_succeeded, paid
  RenewalEvents,   \* invoice.payment_succeeded of a subscription cycle
  RefundEvents,    \* charge.refunded, charge.dispute.created
  NoticeEvents,    \* invoice.payment_failed
  OtherEvents,     \* events that touch no order: subscription sync, first invoice
  OrderOf,         \* the order of a checkout, renewal or refund event
  Order,
  Credited,        \* orders whose product carries credits
  Referred,        \* orders whose buyer was invited by someone
  NoEvent,
  MayStall,        \* TRUE: a server without a request time limit (Docker)
  StaleAfter,      \* PROCESSING_STALE_MS
  MaxSends,        \* how often Stripe sends one event on its own
  Sent,            \* bound: how much of that each event has used up already
  MaxResends,      \* bound: presses of Resend
  MaxFaults        \* bound: crashes and exceptions

OrderEvents == CheckoutEvents \union RenewalEvents \union RefundEvents
Event == OrderEvents \union NoticeEvents \union OtherEvents

RenewalOrders == {OrderOf[e] : e \in RenewalEvents}

ASSUME EventAssumption ==
  /\ CheckoutEvents \intersect RenewalEvents = {}
  /\ RefundEvents \intersect (CheckoutEvents \union RenewalEvents) = {}
  /\ (NoticeEvents \union OtherEvents) \intersect OrderEvents = {}
  /\ NoticeEvents \intersect OtherEvents = {}
  /\ OrderOf \in [OrderEvents -> Order]
  /\ Credited \subseteq Order /\ Referred \subseteq Order
  /\ \A e \in CheckoutEvents : OrderOf[e] \notin RenewalOrders
  /\ NoEvent \notin Event

ASSUME BoundAssumption ==
  /\ MayStall \in BOOLEAN
  /\ StaleAfter \in Nat
  /\ MaxSends \in Nat /\ Sent \subseteq [Event -> 0..MaxSends]
  /\ MaxResends \in Nat /\ MaxFaults \in Nat

VARIABLES
  row,       \* stripe_webhook_events: status and updated_at of each event
  request,   \* what each POST holds in memory
  order,     \* orders.status
  ledger,    \* credits rows written by payments
  reward,    \* affiliates.status of the order's commission
  queued,    \* dedupe keys handed to the job queue
  unmapped,  \* events whose order, price or customer cannot be resolved yet
  sends,     \* Stripe: deliveries so far
  sentAt,    \* Stripe: time of the last delivery
  acked,     \* Stripe: events it got a 2xx for
  resends,   \* presses of Resend so far (bound only)
  faults,    \* crashes and exceptions so far (bound only)
  now

tables == <<row, order, ledger, reward, queued>>
outside == <<unmapped, sends, sentAt, acked, resends, faults, now>>
vars == <<tables, request, outside>>

Closed == {"completed", "resolved"}
Resolvable == {"action_required", "failed"}
Reclaimable == {"failed", "action_required"}
Status == {"none", "processing"} \union Closed \union Reclaimable

Claiming == {"insert", "read", "reclaim"}
Working == {"handle", "reward", "cancel", "mail", "alert", "mark"}
Holding == Working \union {"parking", "failing"}

(* `asked` is the claim's `now`, `seen` the status its SELECT returned.    *)
RequestType ==
  [pc : {"idle"}, event : {NoEvent}, asked : {0}, seen : {"none"}]
    \union
  [pc : Claiming, event : Event, asked : Nat, seen : Status]
    \union
  [pc : Holding, event : Event, asked : {0}, seen : {"none"}]

TypeOK ==
  /\ row \in [Event -> [status : Status, updatedAt : Nat]]
  /\ request \in [Request -> RequestType]
  /\ order \in [Order -> {"none", "created", "paid"}]
  /\ ledger \in SUBSET [trans : Order, order : Order]
  /\ reward \in [Order -> {"none", "pending", "canceled"}]
  /\ queued \in SUBSET ({"mail", "alert"} \X Event)
  /\ unmapped \in SUBSET (CheckoutEvents \union RenewalEvents \union OtherEvents)
  /\ sends \in [Event -> 0..MaxSends]
  /\ sentAt \in [Event -> Nat]
  /\ acked \in SUBSET Event
  /\ resends \in 0..MaxResends
  /\ faults \in 0..MaxFaults
  /\ now \in Nat

Idle == [pc |-> "idle", event |-> NoEvent, asked |-> 0, seen |-> "none"]

(* Checkout orders exist before Stripe is asked for a session; the order   *)
(* of a renewal is written by the webhook.                                 *)
Init ==
  /\ row = [e \in Event |-> [status |-> "none", updatedAt |-> 0]]
  /\ request = [q \in Request |-> Idle]
  /\ order = [o \in Order |-> IF o \in RenewalOrders THEN "none" ELSE "created"]
  /\ ledger = {}
  /\ reward = [o \in Order |-> "none"]
  /\ queued = {}
  /\ sends \in Sent
  /\ unmapped \in SUBSET
       {e \in CheckoutEvents \union RenewalEvents \union OtherEvents : sends[e] < MaxSends}
  /\ sentAt = [e \in Event |-> 0]
  /\ acked = {}
  /\ resends = 0
  /\ faults = 0
  /\ now = 0

-----------------------------------------------------------------------------
(* Deliveries. *)

Receive(q, e) ==
  /\ request[q].pc = "idle"
  /\ request' = [request EXCEPT ![q] =
       [pc |-> "insert", event |-> e, asked |-> now, seen |-> "none"]]

(* Stripe sends, and sends again some time later until it is acknowledged. *)
Deliver(q, e) ==
  /\ e \notin acked
  /\ sends[e] < MaxSends
  /\ sends[e] > 0 => sentAt[e] < now
  /\ Receive(q, e)
  /\ sends' = [sends EXCEPT ![e] = @ + 1]
  /\ sentAt' = [sentAt EXCEPT ![e] = now]
  /\ UNCHANGED <<tables, unmapped, acked, resends, faults, now>>

(* Resend in the Stripe dashboard, or Stripe delivering an event twice.    *)
Resend(q, e) ==
  /\ sends[e] > 0
  /\ resends < MaxResends
  /\ Receive(q, e)
  /\ resends' = resends + 1
  /\ UNCHANGED <<tables, unmapped, sends, sentAt, acked, faults, now>>

Goto(q, pc) == request' = [request EXCEPT ![q].pc = pc]

(* The response.  A 2xx ends Stripe's retries if it arrives.               *)
Answer(q, ok) ==
  /\ request' = [request EXCEPT ![q] = Idle]
  /\ \/ UNCHANGED acked
     \/ ok /\ acked' = acked \union {request[q].event}

Write(e, status, time) ==
  row' = [row EXCEPT ![e] = [status |-> status, updatedAt |-> time]]

-----------------------------------------------------------------------------
(* claimStripeWebhookEvent: INSERT, SELECT, guarded UPDATE. *)

(* The handler keeps nothing of the claim but the event.                   *)
Begin(q) ==
  request' = [request EXCEPT ![q] =
    [pc |-> "handle", event |-> @.event, asked |-> 0, seen |-> "none"]]

Stale(e, asked) == row[e].updatedAt < asked - StaleAfter

ClaimInsert(q) ==
  LET e == request[q].event IN
  /\ request[q].pc = "insert"
  /\ \/ /\ row[e].status = "none"
        /\ Write(e, "processing", request[q].asked)
        /\ Begin(q)
     \/ /\ row[e].status # "none"
        /\ Goto(q, "read")
        /\ UNCHANGED row
  /\ UNCHANGED <<order, ledger, reward, queued, outside>>

(* Mutant: an abandoned row is never taken over. *)
CanRetryFinished(e, asked) == row[e].status \in Reclaimable

CanRetry(e, asked) ==
  \/ row[e].status \in Reclaimable
  \/ row[e].status = "processing" /\ Stale(e, asked)

ClaimRead(q) ==
  LET e == request[q].event IN
  /\ request[q].pc = "read"
  /\ \/ row[e].status \in Closed /\ Answer(q, TRUE)
     \/ /\ CanRetry(e, request[q].asked)
        /\ request' = [request EXCEPT ![q] =
             [@ EXCEPT !.pc = "reclaim", !.seen = row[e].status]]
        /\ UNCHANGED acked
     \/ /\ row[e].status \notin Closed
        /\ ~CanRetry(e, request[q].asked)
        /\ Answer(q, FALSE)
  /\ UNCHANGED <<tables, unmapped, sends, sentAt, resends, faults, now>>

(* Mutant: the UPDATE trusts the SELECT. *)
ClaimableWhenRead(q) == request[q].seen # "none"

(* Whatever made the row claimable must still hold.                        *)
StillClaimable(q) ==
  LET e == request[q].event IN
  IF request[q].seen \in Reclaimable THEN row[e].status = request[q].seen
                                     ELSE Stale(e, request[q].asked)

ClaimUpdate(q) ==
  /\ request[q].pc = "reclaim"
  /\ \/ /\ StillClaimable(q)
        /\ Write(request[q].event, "processing", request[q].asked)
        /\ Begin(q)
        /\ UNCHANGED acked
     \/ /\ ~StillClaimable(q)
        /\ Answer(q, FALSE)
        /\ UNCHANGED row
  /\ UNCHANGED <<order, ledger, reward, queued,
                 unmapped, sends, sentAt, resends, faults, now>>

-----------------------------------------------------------------------------
(* Fulfilment. *)

(* Mutant: a ledger key per delivery announcement. *)
TransNoOfEvent(e) == e

(* The ledger key of a payment: derived from the order or billing period,  *)
(* never from the event that announced it.                                 *)
TransNo(e) == OrderOf[e]

(* insertGrant: ON CONFLICT (trans_no) DO NOTHING.                         *)
InsertGrant(e) ==
  LET o == OrderOf[e] IN
  \/ /\ o \in Credited
     /\ \A g \in ledger : g.trans # TransNo(e)
     /\ ledger' = ledger \union {[trans |-> TransNo(e), order |-> o]}
  \/ /\ o \in Credited => \E g \in ledger : g.trans = TransNo(e)
     /\ UNCHANGED ledger

MarkPaid(o) == order' = [order EXCEPT ![o] = "paid"]

(* Mutant: an order already paid needs nothing more. *)
PaidIsEnough(o) == IF order[o] = "paid" THEN "mark" ELSE "reward"

(* Where a checkout goes after the transaction, paid before or not.        *)
AfterCheckout(o) == "reward"

(* handleCheckoutSession -> markOrderPaidWithGrant, one transaction.       *)
MarkOrderPaidWithGrant(q) ==
  LET e == request[q].event IN
  /\ request[q].pc = "handle"
  /\ e \in CheckoutEvents \ unmapped
  /\ MarkPaid(OrderOf[e])
  /\ InsertGrant(e)
  /\ Goto(q, AfterCheckout(OrderOf[e]))
  /\ UNCHANGED <<row, reward, queued, outside>>

(* No order_no, no such order, no tenant, or another currency.             *)
RefuseSession(q) ==
  /\ request[q].pc = "handle"
  /\ request[q].event \in CheckoutEvents \intersect unmapped
  /\ Goto(q, "failing")
  /\ UNCHANGED <<tables, outside>>

(* Mutant: side effects with every delivery. *)
AlwaysReward(o) == "reward"

(* Where a renewal goes after the transaction: its side effects belong to  *)
(* the delivery that created the order.                                    *)
AfterRenewal(o) == IF order[o] = "none" THEN "reward" ELSE "mark"

InsertRenewalOrderWithGrant(q) ==
  LET e == request[q].event IN
  /\ request[q].pc = "handle"
  /\ e \in RenewalEvents \ unmapped
  /\ MarkPaid(OrderOf[e])
  /\ InsertGrant(e)
  /\ Goto(q, AfterRenewal(OrderOf[e]))
  /\ UNCHANGED <<row, reward, queued, outside>>

(* ActionRequiredError before anything is written.                         *)
Park(q) ==
  /\ request[q].pc = "handle"
  /\ request[q].event \in unmapped \ CheckoutEvents
  /\ Goto(q, "parking")
  /\ UNCHANGED <<tables, outside>>

HandleOther(q) ==
  LET e == request[q].event IN
  /\ request[q].pc = "handle"
  /\ \/ e \in OtherEvents \ unmapped /\ Goto(q, "mark")
     \/ e \in NoticeEvents /\ \E pc \in {"mail", "mark"} : Goto(q, pc)
  /\ UNCHANGED <<tables, outside>>

(* assessRefund: the order is found, or Stripe could not be asked.         *)
AssessRefund(q) ==
  LET e == request[q].event IN
  /\ request[q].pc = "handle"
  /\ e \in RefundEvents
  /\ \/ order[OrderOf[e]] # "none" /\ Goto(q, "cancel")
     \/ Goto(q, "alert")
  /\ UNCHANGED <<tables, outside>>

-----------------------------------------------------------------------------
(* Side effects after the transaction. *)

(* Mutant: an upsert instead of an insert. *)
UpsertReward(o) ==
  reward' = IF o \in Referred THEN [reward EXCEPT ![o] = "pending"] ELSE reward

(* updateAffiliateForOrder: one row per paid order, whatever its status.   *)
InsertPaidAffiliateOnce(o) ==
  reward' = IF o \in Referred /\ reward[o] = "none"
              THEN [reward EXCEPT ![o] = "pending"] ELSE reward

(* A session without a customer email skips both messages.                 *)
RewardReferrer(q) ==
  LET e == request[q].event IN
  /\ request[q].pc = "reward"
  /\ InsertPaidAffiliateOnce(OrderOf[e])
  /\ \/ e \in CheckoutEvents /\ \E pc \in {"mail", "mark"} : Goto(q, pc)
     \/ e \in RenewalEvents /\ Goto(q, "alert")
  /\ UNCHANGED <<row, order, ledger, queued, outside>>

(* cancelPendingAffiliateByOrderNo.                                        *)
CancelReward(q) ==
  LET o == OrderOf[request[q].event] IN
  /\ request[q].pc = "cancel"
  /\ reward' = IF reward[o] = "none" THEN reward
                                     ELSE [reward EXCEPT ![o] = "canceled"]
  /\ Goto(q, "alert")
  /\ UNCHANGED <<row, order, ledger, queued, outside>>

(* enqueueJob under a key that names the event.                            *)
Enqueue(q) ==
  LET e == request[q].event IN
  /\ request[q].pc \in {"mail", "alert"}
  /\ queued' = queued \union {<<request[q].pc, e>>}
  /\ Goto(q, IF request[q].pc = "mail" THEN "alert"
             ELSE IF e \in RefundEvents THEN "parking" ELSE "mark")
  /\ UNCHANGED <<row, order, ledger, reward, outside>>

-----------------------------------------------------------------------------
(* The three marks, none of which asks who holds the row. *)

MarkCompleted(q) ==
  /\ request[q].pc = "mark"
  /\ Write(request[q].event, "completed", now)
  /\ Answer(q, TRUE)
  /\ UNCHANGED <<order, ledger, reward, queued,
                 unmapped, sends, sentAt, resends, faults, now>>

MarkActionRequired(q) ==
  /\ request[q].pc = "parking"
  /\ Write(request[q].event, "action_required", now)
  /\ Answer(q, TRUE)
  /\ UNCHANGED <<order, ledger, reward, queued,
                 unmapped, sends, sentAt, resends, faults, now>>

MarkFailed(q) ==
  /\ request[q].pc = "failing"
  /\ Write(request[q].event, "failed", now)
  /\ Answer(q, FALSE)
  /\ UNCHANGED <<order, ledger, reward, queued,
                 unmapped, sends, sentAt, resends, faults, now>>

-----------------------------------------------------------------------------
(* Faults, people and time. *)

(* An await inside the inner try throws.                                   *)
Throw(q) ==
  /\ faults < MaxFaults
  /\ request[q].pc \in Working
  /\ Goto(q, "failing")
  /\ faults' = faults + 1
  /\ UNCHANGED <<tables, unmapped, sends, sentAt, acked, resends, now>>

(* The process dies, or the claim or a mark itself throws: no 2xx.         *)
Crash(q) ==
  /\ faults < MaxFaults
  /\ request[q].pc # "idle"
  /\ request' = [request EXCEPT ![q] = Idle]
  /\ faults' = faults + 1
  /\ UNCHANGED <<tables, unmapped, sends, sentAt, acked, resends, now>>

(* resolveStripeWebhookEvent, from the admin console.                      *)
Resolve(e) ==
  /\ row[e].status \in Resolvable
  /\ Write(e, "resolved", now)
  /\ UNCHANGED <<order, ledger, reward, queued, request, outside>>

(* Someone maps the price, or repairs the order or the customer.           *)
FixCause(e) ==
  /\ e \in unmapped
  /\ unmapped' = unmapped \ {e}
  /\ UNCHANGED <<tables, request, sends, sentAt, acked, resends, faults, now>>

(* Time passes only while it can make a difference, and on a platform that *)
(* stops a request after a minute only when no request is running.         *)
TimeMatters(e) ==
  \/ row[e].status \in {"processing", "failed"} /\ now - row[e].updatedAt <= StaleAfter
  \/ e \notin acked /\ sends[e] \in 1..(MaxSends - 1) /\ sentAt[e] = now

Tick ==
  /\ MayStall \/ \A q \in Request : request[q].pc = "idle"
  /\ \E e \in Event : TimeMatters(e)
  /\ now' = now + 1
  /\ UNCHANGED <<tables, request, unmapped, sends, sentAt, acked, resends, faults>>

Claim(q) == ClaimInsert(q) \/ ClaimRead(q) \/ ClaimUpdate(q)
Handle(q) ==
  \/ MarkOrderPaidWithGrant(q) \/ RefuseSession(q) \/ InsertRenewalOrderWithGrant(q)
  \/ Park(q) \/ HandleOther(q) \/ AssessRefund(q)
SideEffect(q) == RewardReferrer(q) \/ CancelReward(q) \/ Enqueue(q)
Mark(q) == MarkCompleted(q) \/ MarkActionRequired(q) \/ MarkFailed(q)
Serve(q) == Claim(q) \/ Handle(q) \/ SideEffect(q) \/ Mark(q)

Next ==
  \/ \E q \in Request :
       \/ Serve(q) \/ Throw(q) \/ Crash(q)
       \/ \E e \in Event : Deliver(q, e) \/ Resend(q, e)
  \/ \E e \in Event : Resolve(e) \/ FixCause(e)
  \/ Tick

(* A running request makes progress, Stripe retries, and time passes.  No  *)
(* person is assumed to act and no request to survive.                     *)
Fairness ==
  /\ \A q \in Request : WF_vars(Serve(q))
  /\ \A e \in Event : WF_vars(\E q \in Request : Deliver(q, e))
  /\ WF_vars(Tick)

Spec == Init /\ [][Next]_vars /\ Fairness

-----------------------------------------------------------------------------
(* Properties. *)

GrantsOf(o) == {g \in ledger : g.order = o}

(* An order is paid exactly when its credits are in the ledger, once, no   *)
(* matter how many events announce the payment and where a handler died.   *)
(* The audit findPaidOrdersMissingCredits would come back empty.           *)
PaidIffGranted ==
  \A o \in Order :
    Cardinality(GrantsOf(o)) = IF order[o] = "paid" /\ o \in Credited THEN 1 ELSE 0

(* An event recorded as completed has done its work: the order is paid,    *)
(* the referrer of a checkout has the commission, and nothing that needs a *)
(* person (an unmapped price, a refund) was filed as completed.            *)
CompletedFulfilled ==
  \A e \in Event : row[e].status = "completed" =>
    /\ e \notin unmapped \union RefundEvents
    /\ e \in CheckoutEvents \union RenewalEvents => order[OrderOf[e]] = "paid"
    /\ e \in CheckoutEvents /\ OrderOf[e] \in Referred => reward[OrderOf[e]] # "none"

(* Several events for one billing period announce its renewal once.        *)
OneNoticePerCycle ==
  \A e, f \in RenewalEvents :
    OrderOf[e] = OrderOf[f] /\ {<<"alert", e>>, <<"alert", f>>} \subseteq queued => e = f

(* Where requests are stopped after a minute, no two requests hold one     *)
(* event, whatever is resent, reclaimed or abandoned.                      *)
HandledByOne ==
  ~MayStall => \A p, q \in Request :
    /\ {request[p].pc, request[q].pc} \subseteq Holding
    /\ request[p].event = request[q].event
    => p = q

(* There, an event once completed or resolved stays so: no Resend and no   *)
(* late mark reopens it.                                                   *)
ClosedStays ==
  [][~MayStall => \A e \in Event : row[e].status \in Closed => row'[e] = row[e]]_vars

(* The order, its credits and its commission change as PaidOrder allows.   *)
Promise == INSTANCE PaidOrder WITH
  paid <- {o \in Order : order[o] = "paid"},
  grants <- [o \in Order |-> Cardinality(GrantsOf(o))]

KeepsPromise == Promise!PSpec

(* As long as Stripe retries more often than handlers fail, every event is *)
(* eventually completed, resolved or parked (or a session that fails every *)
(* time): a row abandoned in processing by a crash is taken over.          *)
EveryEventSettles ==
  \A e \in Event :
    <>(row[e].status \in Closed \union {"action_required"}
         \/ e \in CheckoutEvents \intersect unmapped)

-----------------------------------------------------------------------------
(* What the repository says, and the code does not do. *)

(* src/app/api/pay/webhook/stripe/route.ts:549: a renewal's side effects   *)
(* "must fire once per cycle"; the commission is the first of them.        *)
RenewalRewarded ==
  \A e \in RenewalEvents :
    row[e].status = "completed" /\ OrderOf[e] \in Referred => reward[OrderOf[e]] # "none"
=============================================================================
