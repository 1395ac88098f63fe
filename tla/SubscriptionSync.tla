-------------------------- MODULE SubscriptionSync --------------------------
(***************************************************************************)
(* How one Stripe subscription reaches its local row                       *)
(* (src/services/subscriptions.ts, src/models/subscription.ts), while the  *)
(* account that bought it may be erased (src/models/account-lifecycle.ts). *)
(*                                                                         *)
(* Stripe's side is a history: change i happened in second[i] and has one  *)
(* webhook event, also called i.  The handler of an event ignores the      *)
(* payload: it retrieves the current subscription, looks the local row up  *)
(* and upserts, three awaits apart.  Events are handled concurrently and   *)
(* in any order; the claim table (StripeWebhook) keeps one request per     *)
(* event, and any request may fail and be sent again.                      *)
(***************************************************************************)
EXTENDS Integers, FiniteSets

CONSTANTS
  Handler,      \* webhook requests handled at the same time
  Checkout,     \* changes announced by checkout.session.completed
  NoUser,       \* no user_uuid
  Buyer,        \* the uuid of the user who bought the subscription
  Erased,       \* the pseudonym an erasure puts in its place
  InMetadata,   \* the subscription's metadata carries user_uuid
  Personal,     \* its organization is torn down with the account
  MaxChanges,   \* bound: changes on Stripe's side
  MaxFailures   \* bound: failed requests

Change == 1..MaxChanges

ASSUME SyncAssumption ==
  /\ MaxChanges \in Nat /\ MaxFailures \in Nat
  /\ Checkout \subseteq Change
  /\ {InMetadata, Personal} \subseteq BOOLEAN
  /\ Cardinality({NoUser, Buyer, Erased}) = 3

VARIABLES
  current,       \* Stripe: changes so far; the version a retrieve returns
  second,        \* Stripe: `created` of each change's event
  ended,         \* Stripe: the change that canceled the subscription, or 0
  unpriced,      \* changes to a price the plan catalog does not know
  event,         \* webhook: what became of each change's event
  subscription,  \* subscriptions: the row with this stripe_subscription_id
  handler,       \* what each request holds in memory
  account,       \* the buyer's account: "live" or "erased"
  failures       \* failed requests so far (bound only)

stripe == <<current, second, ended>>
syncVars == <<stripe, unpriced, event, subscription, handler, account, failures>>

StatusOf(v) == IF v = ended THEN "canceled" ELSE "active"

RowType ==
  [version : {0}, at : {0}, user : {NoUser}, status : {"none"}]
    \union
  [version : Change, at : Nat, user : {Buyer, Erased}, status : {"active", "canceled"}]

Resting == [pc |-> "idle", event |-> 0, version |-> 0, user |-> NoUser]

MemoryType ==
  {Resting}
    \union
  [pc : {"retrieve"}, event : Change, version : {0}, user : {NoUser}]
    \union
  [pc : {"find"}, event : Change, version : Change, user : {NoUser}]
    \union
  [pc : {"upsert"}, event : Change, version : Change, user : {NoUser, Buyer, Erased}]

SyncTypeOK ==
  /\ current \in 0..MaxChanges
  /\ second \in [Change -> Nat]
  /\ ended \in 0..MaxChanges
  /\ unpriced \in SUBSET Change
  /\ event \in [Change -> {"none", "sent", "done", "action_required"}]
  /\ subscription \in RowType
  /\ handler \in [Handler -> MemoryType]
  /\ account \in {"live", "erased"}
  /\ failures \in 0..MaxFailures

SyncInit ==
  /\ current = 0
  /\ second = [i \in Change |-> 0]
  /\ ended = 0
  /\ unpriced \in SUBSET Change
  /\ event = [i \in Change |-> "none"]
  /\ subscription = [version |-> 0, at |-> 0, user |-> NoUser, status |-> "none"]
  /\ handler = [q \in Handler |-> Resting]
  /\ account = "live"
  /\ failures = 0

-----------------------------------------------------------------------------
(* Stripe. *)

LastSecond == IF current = 0 THEN 0 ELSE second[current]

(* The subscription changes, the last time when it is canceled.  `created` *)
(* counts seconds, here from 1: a change may share its second with the one *)
(* before.                                                                 *)
ChangeSubscription ==
  /\ current < MaxChanges
  /\ ended = 0
  /\ current' = current + 1
  /\ \E t \in {LastSecond, LastSecond + 1} \ {0} : second' = [second EXCEPT ![current + 1] = t]
  /\ ended' \in {0} \union ({current + 1} \ Checkout)
  /\ event' = [event EXCEPT ![current + 1] = "sent"]
  /\ UNCHANGED <<unpriced, subscription, handler, account, failures>>

(* The event arrives and is claimed.  A completed event is not run again,  *)
(* one that was parked is when somebody presses Resend.                    *)
Take(q, i) ==
  /\ handler[q] = Resting
  /\ event[i] \in {"sent", "action_required"}
  /\ \A p \in Handler : handler[p].event # i
  /\ handler' = [handler EXCEPT ![q] =
       [pc |-> "retrieve", event |-> i, version |-> 0, user |-> NoUser]]
  /\ UNCHANGED <<stripe, unpriced, event, subscription, account, failures>>

-----------------------------------------------------------------------------
(* The handler. *)

(* subscriptions.retrieve: the canonical object, not the payload.          *)
Retrieve(q) ==
  /\ handler[q].pc = "retrieve"
  /\ handler' = [handler EXCEPT ![q] =
       [pc |-> "find", event |-> @.event, version |-> current, user |-> NoUser]]
  /\ UNCHANGED <<stripe, unpriced, event, subscription, account, failures>>

(* resolveUserUuid: metadata first, then the customer and email of a user  *)
(* row, which an erasure deletes.                                          *)
ResolvedUser == IF InMetadata \/ account = "live" THEN Buyer ELSE NoUser

(* findSubscriptionByStripeId: an attributed row keeps its user.           *)
AttributedUser == IF subscription.version # 0 THEN subscription.user ELSE ResolvedUser

Find(q) ==
  /\ handler[q].pc = "find"
  /\ handler' = [handler EXCEPT ![q] =
       [pc |-> "upsert", event |-> @.event, version |-> @.version,
        user |-> AttributedUser]]
  /\ UNCHANGED <<stripe, unpriced, event, subscription, account, failures>>

Finish(q, status) ==
  /\ event' = [event EXCEPT ![handler[q].event] = status]
  /\ handler' = [handler EXCEPT ![q] = Resting]

(* The user and the tier are known; otherwise the outcome is `unmapped`.   *)
Attributable(q) ==
  handler[q].user # NoUser /\ handler[q].version \notin unpriced

(* Mutants: the upsert without its setWhere, and with half of it. *)
AnyOrder(i) == TRUE
OnlyFirst(i) == subscription.version = 0

(* The upsert's setWhere: nothing stored yet, or nothing newer.            *)
NotOlder(i) == subscription.version = 0 \/ subscription.at <= second[i]

(* syncStripeSubscription from its upsert to the end of the event.         *)
Upsert(q) ==
  LET i == handler[q].event IN
  /\ handler[q].pc = "upsert"
  /\ Attributable(q)
  /\ \/ /\ NotOlder(i)
        /\ subscription' = [version |-> handler[q].version, at |-> second[i],
                            user |-> handler[q].user,
                            status |-> StatusOf(handler[q].version)]
     \/ /\ ~NotOlder(i)
        /\ UNCHANGED subscription
  /\ Finish(q, "done")
  /\ UNCHANGED <<stripe, unpriced, account, failures>>

(* A checkout event ignores an unmapped subscription, a lifecycle event is *)
(* parked for a person.                                                    *)
ReportUnmapped(q) ==
  /\ handler[q].pc = "upsert"
  /\ ~Attributable(q)
  /\ Finish(q, IF handler[q].event \in Checkout THEN "done" ELSE "action_required")
  /\ UNCHANGED <<stripe, unpriced, subscription, account, failures>>

(* An await throws or the process dies: Stripe sends the event again, but  *)
(* a checkout event swallows an exception of the sync and goes on.         *)
Fail(q) ==
  /\ failures < MaxFailures
  /\ handler[q] # Resting
  /\ \/ handler' = [handler EXCEPT ![q] = Resting] /\ UNCHANGED event
     \/ handler[q].event \in Checkout /\ Finish(q, "done")
  /\ failures' = failures + 1
  /\ UNCHANGED <<stripe, unpriced, subscription, account>>

-----------------------------------------------------------------------------
(* People. *)

(* Someone adds the price to the plan catalog.                             *)
MapPrice(i) ==
  /\ i \in unpriced
  /\ unpriced' = unpriced \ {i}
  /\ UNCHANGED <<stripe, event, subscription, handler, account, failures>>

(* finalizeAccountErasure, one transaction: a personal organization's      *)
(* subscription was canceled at Stripe before.  Its webhooks go on.        *)
EraseAccount ==
  /\ account = "live"
  /\ Personal => ended # 0
  /\ account' = "erased"
  /\ subscription' =
       IF subscription.version = 0 THEN subscription
       ELSE [subscription EXCEPT !.user = Erased,
                                 !.status = IF Personal THEN "canceled" ELSE @]
  /\ UNCHANGED <<stripe, unpriced, event, handler, failures>>

GoOn(q) == Retrieve(q) \/ Find(q) \/ Upsert(q) \/ ReportUnmapped(q)

SyncNext ==
  \/ ChangeSubscription \/ EraseAccount
  \/ \E i \in Change : MapPrice(i)
  \/ \E q \in Handler :
       \/ GoOn(q) \/ Fail(q)
       \/ \E i \in Change : Take(q, i)

(* Requests make progress and Stripe sends an unacknowledged event again.  *)
(* Nobody is assumed to map prices or to press Resend.                     *)
SyncFairness ==
  /\ \A q \in Handler : WF_syncVars(GoOn(q))
  /\ \A i \in Change : WF_syncVars(event[i] = "sent" /\ \E q \in Handler : Take(q, i))

SyncSpec == SyncInit /\ [][SyncNext]_syncVars /\ SyncFairness

-----------------------------------------------------------------------------
(* Properties. *)

(* However the handlers of several events interleave, an event completed   *)
(* by a lifecycle handler is reflected: the row copies the subscription    *)
(* as it was when the event happened or later, or else as it was earlier   *)
(* in that same second, which setWhere cannot tell apart.                  *)
DoneIsReflected ==
  \A i \in Change \ Checkout : event[i] = "done" =>
    /\ subscription.version # 0
    /\ subscription.version >= i \/ second[subscription.version] = second[i]

(* A cancellation at Stripe ends the local subscription, unless a person   *)
(* has to add its price to the catalog first or the user is gone, or it    *)
(* shares its second with an earlier change, whose handler may write last. *)
CancellationArrives ==
  ended # 0 ~>
    /\ ended # 0
    /\ \/ subscription.status = "canceled" \/ event[ended] = "action_required"
       \/ \E j \in 1..(ended - 1) : second[j] = second[ended]

=============================================================================
