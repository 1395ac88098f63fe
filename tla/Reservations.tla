---------------------------- MODULE Reservations ----------------------------
(***************************************************************************)
(* Selling the time slots of one service (src/models/reservation.ts,       *)
(* src/services/reservations/index.ts): a hold on a range of time, the     *)
(* Stripe Checkout session that may pay for it, and the ways a hold ends.  *)
(*                                                                         *)
(* A request claims a slot in one transaction, calls Stripe, then stores   *)
(* the session's id, three steps apart, and may stop after any of them.    *)
(* Statements under the lock of the service are one step here.  An order's *)
(* number is its idempotency key at Stripe, so an intent has at most one   *)
(* session, and a session is known by its intent.                          *)
(*                                                                         *)
(* Stripe's side assumes the least: a session stays payable from `open` to *)
(* the moment Stripe closes it, which may be later than its expires_at.    *)
(***************************************************************************)
EXTENDS Integers

CONSTANTS
  Request,      \* requests of POST /api/reservations handled at a time
  Intent,       \* checkout_intent_id values
  Terms,        \* what a customer may ask for: the fingerprint's content
  Start, End,   \* blocked_start_at, blocked_end_at of each of Terms
  None,         \* a null column
  Hold,         \* ReservationsConfig.holdMinutes
  MinSession,   \* STRIPE_MIN_SESSION_LIFETIME_MS
  Horizon       \* bound: the clock

ASSUME SlotAssumption ==
  /\ Start \in [Terms -> Int] /\ End \in [Terms -> Int]
  /\ \A t \in Terms : Start[t] < End[t]
  /\ Hold \in Nat /\ MinSession \in Nat /\ Horizon \in Nat
  /\ None \notin Nat \union Terms \union Intent

VARIABLES
  row,       \* reservations joined with orders, by intent
  session,   \* Stripe: the status of each intent's Checkout session
  shown,     \* sessions whose URL a customer has been given
  parked,    \* sessions whose payment webhook ended as action_required
  request,   \* what each request holds in memory
  now        \* the clock

vars == <<row, session, shown, parked, request, now>>

(* `stored` says of orders.stripe_session_id that it is null, was written  *)
(* while the slot was held, or was written after it had been released.     *)
RowType ==
  [status : {"absent"}, terms : {None}, hold : {None}, stored : {"no"}]
    \union
  [status : {"pending", "expired"}, terms : Terms, hold : Nat,
   stored : {"no", "held", "late"}]
    \union
  [status : {"confirmed"}, terms : Terms, hold : {None}, stored : {"held"}]

Idle == [pc |-> "idle", intent |-> None, terms |-> None, asked |-> 0, hold |-> None]

Resuming == {"retrieve", "close", "release"}
Opening == {"open", "create", "store"}

RequestType ==
  {Idle}
    \union
  [pc : {"claim"}, intent : Intent, terms : Terms, asked : Nat, hold : {None}]
    \union
  [pc : Resuming \union Opening, intent : Intent, terms : Terms, asked : Nat, hold : Nat]

TypeOK ==
  /\ row \in [Intent -> RowType]
  /\ session \in [Intent -> {"none", "open", "complete", "expired"}]
  /\ shown \in SUBSET Intent
  /\ parked \in SUBSET Intent
  /\ request \in [Request -> RequestType]
  /\ now \in 0..Horizon

Init ==
  /\ row = [i \in Intent |->
       [status |-> "absent", terms |-> None, hold |-> None, stored |-> "no"]]
  /\ session = [i \in Intent |-> "none"]
  /\ shown = {}
  /\ parked = {}
  /\ request = [q \in Request |-> Idle]
  /\ now = 0

-----------------------------------------------------------------------------
(* The slots. *)

Active(i) == row[i].status \in {"pending", "confirmed"}

(* Half-open ranges: adjacent ones do not overlap. *)
Overlap(s, t) == Start[s] < End[t] /\ Start[t] < End[s]

(* A pending hold that has elapsed by t and whose order has no session. *)
Releasable(i, t) ==
  row[i].status = "pending" /\ row[i].hold =< t /\ row[i].stored = "no"

ExpireReleasable(t) ==
  [i \in Intent |->
    IF Releasable(i, t) THEN [row[i] EXCEPT !.status = "expired"] ELSE row[i]]

(* Mutant: only confirmed bookings are looked at. *)
ConflictsSold(t, at) ==
  {i \in Intent : row[i].status = "confirmed" /\ Overlap(row[i].terms, t)}

(* Rows that take the range of t once the holds elapsed by `at` are gone. *)
Conflicts(t, at) ==
  {i \in Intent : Active(i) /\ ~Releasable(i, at) /\ Overlap(row[i].terms, t)}

-----------------------------------------------------------------------------
(* createReservationAndCheckout. *)

GoTo(q, pc) == request' = [request EXCEPT ![q].pc = pc]
Leave(q) == request' = [request EXCEPT ![q] = Idle]

(* The request reads its clock, then the service and the user. *)
Ask(q, i, t) ==
  /\ request[q].pc = "idle"
  /\ now + Hold =< Horizon
  /\ request' = [request EXCEPT ![q] =
       [pc |-> "claim", intent |-> i, terms |-> t, asked |-> now, hold |-> None]]
  /\ UNCHANGED <<row, session, shown, parked, now>>

(* claimReservationCheckout finds the intent's row. *)
ClaimReused(q) ==
  LET i == request[q].intent IN
  /\ request[q].pc = "claim"
  /\ row[i].status # "absent"
  /\ IF row[i].status = "pending" /\ row[i].terms = request[q].terms
       THEN request' = [request EXCEPT
              ![q].pc = IF row[i].stored = "no" THEN "open" ELSE "retrieve",
              ![q].hold = row[i].hold]
       ELSE Leave(q)
  /\ UNCHANGED <<row, session, shown, parked, now>>

(* ... or takes the slot, or answers that it is taken; the elapsed holds   *)
(* stay expired either way.                                                *)
ClaimNew(q) ==
  LET i == request[q].intent
      t == request[q].terms
      h == request[q].asked + Hold
  IN
  /\ request[q].pc = "claim"
  /\ row[i].status = "absent"
  /\ \/ /\ Conflicts(t, request[q].asked) # {}
        /\ row' = ExpireReleasable(request[q].asked)
        /\ Leave(q)
     \/ /\ Conflicts(t, request[q].asked) = {}
        /\ row' = [ExpireReleasable(request[q].asked) EXCEPT ![i] =
             [status |-> "pending", terms |-> t, hold |-> h, stored |-> "no"]]
        /\ request' = [request EXCEPT ![q].pc = "open", ![q].hold = h]
  /\ UNCHANGED <<session, shown, parked, now>>

(* Too little of the hold is left for a session: release it if it has      *)
(* elapsed by the clock t the check read, and answer that it expired.      *)
GiveUp(q) ==
  LET i == request[q].intent IN
  /\ request[q].pc = "open"
  /\ \E t \in request[q].asked..now :
       /\ request[q].hold - t < MinSession
       /\ row' = IF Releasable(i, t)
                   THEN [row EXCEPT ![i].status = "expired"] ELSE row
  /\ Leave(q)
  /\ UNCHANGED <<session, shown, parked, now>>

Proceed(q) ==
  /\ request[q].pc = "open"
  /\ request[q].hold - now >= MinSession
  /\ GoTo(q, "create")
  /\ UNCHANGED <<row, session, shown, parked, now>>

(* sessions.create under the order's idempotency key: a new session, or    *)
(* the answer of the first call again.  Stripe refuses an expires_at that  *)
(* is too near by now.                                                     *)
Create(q) ==
  LET i == request[q].intent IN
  /\ request[q].pc = "create"
  /\ \/ /\ session[i] = "none"
        /\ request[q].hold - now >= MinSession
        /\ session' = [session EXCEPT ![i] = "open"]
        /\ GoTo(q, "store")
     \/ /\ session[i] # "none"
        /\ GoTo(q, "store")
        /\ UNCHANGED session
     \/ /\ session[i] = "none"
        /\ request[q].hold - now < MinSession
        /\ Leave(q)
        /\ UNCHANGED session
  /\ UNCHANGED <<row, shown, parked, now>>

(* The value of `stored` once the session's id is written to row i. *)
Stored(i) == CASE row[i].stored # "no" -> row[i].stored
               [] row[i].stored = "no" /\ Active(i) -> "held"
               [] OTHER -> "late"

(* updateOrderSession, whatever the row's status has become; the URL is    *)
(* the answer.                                                             *)
Store(q) ==
  LET i == request[q].intent IN
  /\ request[q].pc = "store"
  /\ row' = [row EXCEPT ![i].stored = Stored(i)]
  /\ shown' = shown \union {i}
  /\ Leave(q)
  /\ UNCHANGED <<session, parked, now>>

(* A replay of an intent whose session is known asks Stripe about it. *)
Retrieve(q) ==
  LET i == request[q].intent IN
  /\ request[q].pc = "retrieve"
  /\ \/ /\ session[i] = "expired"
        /\ GoTo(q, "release")
        /\ UNCHANGED shown
     \/ /\ session[i] # "expired"
        /\ request[q].hold =< now
        /\ GoTo(q, "close")
        /\ UNCHANGED shown
     \/ /\ session[i] # "expired"
        /\ request[q].hold > now
        /\ Leave(q)
        /\ shown' = IF session[i] = "open" THEN shown \union {i} ELSE shown
  /\ UNCHANGED <<row, session, parked, now>>

(* Mutant: the refusal of a session already paid is overlooked. *)
CloseAnyway(q) ==
  LET i == request[q].intent IN
  /\ request[q].pc = "close"
  /\ session' = IF session[i] = "open"
                  THEN [session EXCEPT ![i] = "expired"] ELSE session
  /\ GoTo(q, "release")
  /\ UNCHANGED <<row, shown, parked, now>>

(* sessions.expire, which Stripe refuses unless the session is open. *)
Close(q) ==
  LET i == request[q].intent IN
  /\ request[q].pc = "close"
  /\ \/ /\ session[i] = "open"
        /\ session' = [session EXCEPT ![i] = "expired"]
        /\ GoTo(q, "release")
     \/ /\ session[i] # "open"
        /\ Leave(q)
        /\ UNCHANGED session
  /\ UNCHANGED <<row, shown, parked, now>>

(* Mutant: only an order that knows its session is released. *)
ReleaseForKnown(i) ==
  row' = IF row[i].status = "pending" /\ row[i].stored # "no"
           THEN [row EXCEPT ![i].status = "expired"] ELSE row

(* expireReservationCheckoutSession of the model: a pending row whose      *)
(* order has no session or this one.                                       *)
ReleaseFor(i) ==
  row' = IF row[i].status = "pending"
           THEN [row EXCEPT ![i].status = "expired", ![i].stored = "held"] ELSE row

Release(q) ==
  /\ request[q].pc = "release"
  /\ ReleaseFor(request[q].intent)
  /\ Leave(q)
  /\ UNCHANGED <<session, shown, parked, now>>

(* The process stops, or a call to Stripe or the database fails. *)
Crash(q) ==
  /\ request[q].pc # "idle"
  /\ Leave(q)
  /\ UNCHANGED <<row, session, shown, parked, now>>

-----------------------------------------------------------------------------
(* The other writers. *)

(* hasConflict of the availability page, with a clock read before its lock. *)
CheckAvailability ==
  /\ \E t \in 0..now : row' = ExpireReleasable(t)
  /\ UNCHANGED <<session, shown, parked, request, now>>

(* Webhook of a paid session: confirmReservationPayment. *)
HandleCompleted(i) ==
  /\ session[i] = "complete"
  /\ \/ /\ Active(i)
        /\ row' = [row EXCEPT ![i] =
             [@ EXCEPT !.status = "confirmed", !.hold = None, !.stored = "held"]]
        /\ UNCHANGED parked
     \/ /\ ~Active(i)
        /\ parked' = parked \union {i}
        /\ UNCHANGED row
  /\ UNCHANGED <<session, shown, request, now>>

(* Webhook of an expired session. *)
HandleExpired(i) ==
  /\ session[i] = "expired"
  /\ ReleaseFor(i)
  /\ UNCHANGED <<session, shown, parked, request, now>>

(* Stripe takes a payment on a page the customer was sent to. *)
Pay(i) ==
  /\ session[i] = "open" /\ i \in shown
  /\ session' = [session EXCEPT ![i] = "complete"]
  /\ UNCHANGED <<row, shown, parked, request, now>>

(* Stripe closes a session at its expires_at or some time later. *)
Elapse(i) ==
  /\ session[i] = "open"
  /\ row[i].hold # None /\ row[i].hold =< now
  /\ session' = [session EXCEPT ![i] = "expired"]
  /\ UNCHANGED <<row, shown, parked, request, now>>

Tick ==
  /\ now < Horizon
  /\ now' = now + 1
  /\ UNCHANGED <<row, session, shown, parked, request>>

Step(q) ==
  \/ \E i \in Intent, t \in Terms : Ask(q, i, t)
  \/ ClaimReused(q)
  \/ ClaimNew(q)
  \/ GiveUp(q)
  \/ Proceed(q)
  \/ Create(q)
  \/ Store(q)
  \/ Retrieve(q)
  \/ Close(q)
  \/ Release(q)
  \/ Crash(q)

Next ==
  \/ \E q \in Request : Step(q)
  \/ \E i \in Intent : HandleCompleted(i) \/ HandleExpired(i) \/ Pay(i) \/ Elapse(i)
  \/ CheckAvailability
  \/ Tick

(* Stripe closes elapsed sessions and sends their webhook until it is      *)
(* answered; nothing else is owed: no request need finish.                 *)
Fairness ==
  /\ WF_vars(Tick)
  /\ \A i \in Intent : WF_vars(Elapse(i)) /\ WF_vars(HandleExpired(i))
                         /\ WF_vars(HandleCompleted(i))

Spec == Init /\ [][Next]_vars /\ Fairness

-----------------------------------------------------------------------------
(* No two bookings of the service that are held or sold overlap, with the  *)
(* exclusion constraint of migration 0025 left out: the lock and the check *)
(* in claimReservationCheckout suffice, and no payment revives a hold.     *)
NoOverlap ==
  \A i, j \in Intent :
    i # j /\ Active(i) /\ Active(j) => ~Overlap(row[i].terms, row[j].terms)

(* A customer who paid has the slot, even if Stripe took the payment after *)
(* the hold had elapsed and the webhook is late, unless the session's id   *)
(* reached the order only after the slot had been released.                *)
PaidHasSlot ==
  \A i \in Intent :
    session[i] = "complete" => Active(i) \/ row[i].stored = "late"

(* Every hold that has a session at Stripe, stored or not, ends: sold or   *)
(* released, also when the request that made it has died.                  *)
HoldEnds ==
  \A i \in Intent :
    (row[i].status = "pending" /\ session[i] # "none") ~> (row[i].status # "pending")
=============================================================================
