------------------------ MODULE StripeWebhookProofs ------------------------
(***************************************************************************)
(* Proofs about StripeWebhook, for any number of events, orders, requests, *)
(* deliveries, faults and time limits.                                     *)
(*                                                                         *)
(* MoneyInv is about the order, its ledger row and its commission: the     *)
(* ledger is exactly the image of the paid orders, which makes the unique  *)
(* key of the grant and the transaction around it do the work.  HoldInv is *)
(* about who holds an event where requests are stopped in time: a holder's *)
(* row is in processing and was written in the current instant, so that no *)
(* SELECT can call it stale and no admin can close it.  FulfilInv is about *)
(* what a handler does after its transaction: at every place of it the     *)
(* side effects before that place are done, and only the request that      *)
(* wrote the order of a billing period is on its way to announce it.       *)
(* The last section is about SubscriptionSync, the handler that brings a   *)
(* subscription's events to its row, for any number of changes, handlers   *)
(* and failures, as long as no two events carry the same second.           *)
(***************************************************************************)
EXTENDS StripeWebhook, SubscriptionSync, FiniteSetTheorems, TLAPS

(* The credits in the ledger are those of the paid orders, one row each.   *)
LedgerExact ==
  ledger = {[trans |-> o, order |-> o] : o \in {p \in Credited : order[p] = "paid"}}

RewardOfPaid == \A o \in Order : reward[o] # "none" => order[o] = "paid"

(* What the program counter of a request says about its event.             *)
Placed ==
  \A q \in Request :
    /\ request[q].pc = "reward" =>
         /\ request[q].event \in CheckoutEvents \union RenewalEvents
         /\ order[OrderOf[request[q].event]] = "paid"
    /\ request[q].pc = "cancel" => request[q].event \in RefundEvents

MoneyInv == TypeOK /\ LedgerExact /\ RewardOfPaid /\ Placed

-----------------------------------------------------------------------------
(* Types. *)

LEMMA GotoType ==
  ASSUME TypeOK, NEW q \in Request, request[q].pc \in Holding,
         NEW pc \in Holding, Goto(q, pc)
  PROVE  request' \in [Request -> RequestType]
<1>1. request[q] \in [pc : Holding, event : Event, asked : {0}, seen : {"none"}]
  BY DEF TypeOK, RequestType, Holding, Working, Claiming
<1>2. [request[q] EXCEPT !.pc = pc] \in
        [pc : Holding, event : Event, asked : {0}, seen : {"none"}]
  BY <1>1
<1>3. request' = [request EXCEPT ![q] = [request[q] EXCEPT !.pc = pc]]
  BY DEF Goto, TypeOK
<1>4. [request[q] EXCEPT !.pc = pc] \in RequestType
  BY <1>2 DEF RequestType
<1> QED  BY <1>3, <1>4 DEF TypeOK

LEMMA IdleType == Idle \in RequestType
  BY DEF Idle, RequestType

LEMMA AnswerType ==
  ASSUME TypeOK, NEW q \in Request, request[q].pc # "idle",
         NEW ok \in BOOLEAN, Answer(q, ok)
  PROVE  /\ request' \in [Request -> RequestType]
         /\ acked' \in SUBSET Event
<1>1. request[q].event \in Event
  BY DEF TypeOK, RequestType
<1>2. request' \in [Request -> RequestType]
  BY IdleType DEF Answer, TypeOK
<1> QED  BY <1>1, <1>2 DEF Answer, TypeOK

LEMMA WriteType ==
  ASSUME TypeOK, NEW e \in Event, NEW status \in Status, NEW time \in Nat,
         Write(e, status, time)
  PROVE  row' \in [Event -> [status : Status, updatedAt : Nat]]
  BY DEF TypeOK, Write

LEMMA ClaimType ==
  ASSUME TypeOK, NEW q \in Request, Claim(q)
  PROVE  TypeOK'
<1> DEFINE e == request[q].event
<1>b. BoundAssumption
  BY BoundAssumption
<1>1. CASE ClaimInsert(q)
  <2>1. /\ request[q] \in [pc : Claiming, event : Event, asked : Nat, seen : Status]
    BY <1>1 DEF ClaimInsert, TypeOK, RequestType, Holding, Working
  <2>2. row' \in [Event -> [status : Status, updatedAt : Nat]]
    <3>1. CASE Write(e, "processing", request[q].asked)
      BY <3>1, <2>1, WriteType DEF Status
    <3>2. CASE UNCHANGED row
      BY <3>2 DEF TypeOK
    <3> QED  BY <1>1, <3>1, <3>2 DEF ClaimInsert
  <2>3. request' \in [Request -> RequestType]
    <3>1. CASE Begin(q)
      BY <3>1, <2>1 DEF Begin, TypeOK, RequestType, Holding, Working
    <3>2. CASE Goto(q, "read")
      <4>1. [request[q] EXCEPT !.pc = "read"] \in
              [pc : Claiming, event : Event, asked : Nat, seen : Status]
        BY <2>1 DEF Claiming
      <4>2. [request[q] EXCEPT !.pc = "read"] \in RequestType
        BY <4>1 DEF RequestType
      <4> QED  BY <3>2, <4>2 DEF Goto, TypeOK
    <3> QED  BY <1>1, <3>1, <3>2 DEF ClaimInsert
  <2> QED  BY <1>1, <2>2, <2>3 DEF ClaimInsert, TypeOK, outside
<1>2. CASE ClaimRead(q)
  <2>1. /\ request[q] \in [pc : Claiming, event : Event, asked : Nat, seen : Status]
    BY <1>2 DEF ClaimRead, TypeOK, RequestType, Holding, Working
  <2>2. /\ request' \in [Request -> RequestType]
        /\ acked' \in SUBSET Event
    <3>1. CASE Answer(q, TRUE) \/ Answer(q, FALSE)
      BY <3>1, <1>2, AnswerType DEF ClaimRead
    <3>2. CASE /\ request' = [request EXCEPT ![q] =
                    [@ EXCEPT !.pc = "reclaim", !.seen = row[e].status]]
               /\ UNCHANGED acked
      <4>1. row[e].status \in Status
        BY <2>1 DEF TypeOK
      <4>2. [request[q] EXCEPT !.pc = "reclaim", !.seen = row[e].status] \in
              [pc : Claiming, event : Event, asked : Nat, seen : Status]
        BY <2>1, <4>1 DEF Claiming
      <4>3. [request[q] EXCEPT !.pc = "reclaim", !.seen = row[e].status] \in RequestType
        BY <4>2 DEF RequestType
      <4> QED  BY <3>2, <4>3 DEF TypeOK
    <3> QED  BY <1>2, <3>1, <3>2 DEF ClaimRead
  <2> QED  BY <1>2, <2>2 DEF ClaimRead, TypeOK, tables
<1>3. CASE ClaimUpdate(q)
  <2>1. /\ request[q] \in [pc : Claiming, event : Event, asked : Nat, seen : Status]
    BY <1>3 DEF ClaimUpdate, TypeOK, RequestType, Holding, Working
  <2>2. CASE Write(e, "processing", request[q].asked) /\ Begin(q) /\ UNCHANGED acked
    <3>1. row' \in [Event -> [status : Status, updatedAt : Nat]]
      BY <2>1, <2>2, WriteType DEF Status
    <3>2. request' \in [Request -> RequestType]
      BY <2>1, <2>2 DEF Begin, TypeOK, RequestType, Holding, Working
    <3> QED  BY <1>3, <2>2, <3>1, <3>2 DEF ClaimUpdate, TypeOK
  <2>3. CASE Answer(q, FALSE) /\ UNCHANGED row
    <3>1. /\ request' \in [Request -> RequestType]
          /\ acked' \in SUBSET Event
      BY <1>3, <2>3, AnswerType DEF ClaimUpdate
    <3> QED  BY <1>3, <2>3, <3>1 DEF ClaimUpdate, TypeOK
  <2> QED  BY <1>3, <2>2, <2>3 DEF ClaimUpdate
<1> QED  BY <1>1, <1>2, <1>3 DEF Claim

LEMMA MarkType ==
  ASSUME TypeOK, NEW q \in Request, Mark(q)
  PROVE  TypeOK'
<1>1. request[q].event \in Event /\ request[q].pc # "idle" /\ now \in Nat
  BY DEF TypeOK, RequestType, Mark, MarkCompleted, MarkActionRequired, MarkFailed
<1>2. PICK status \in {"completed", "action_required", "failed"} :
        Write(request[q].event, status, now)
  BY DEF Mark, MarkCompleted, MarkActionRequired, MarkFailed
<1>3. row' \in [Event -> [status : Status, updatedAt : Nat]]
  BY <1>1, <1>2, WriteType DEF Status, Closed, Reclaimable
<1>4. /\ request' \in [Request -> RequestType]
      /\ acked' \in SUBSET Event
  BY <1>1, AnswerType DEF Mark, MarkCompleted, MarkActionRequired, MarkFailed
<1> QED
  BY <1>3, <1>4 DEF Mark, MarkCompleted, MarkActionRequired, MarkFailed, TypeOK

LEMMA HandlerType ==
  ASSUME TypeOK, NEW q \in Request, Handle(q) \/ SideEffect(q)
  PROVE  TypeOK'
<1> DEFINE e == request[q].event
           o == OrderOf[e]
<1>1. /\ request[q].pc \in Holding
      /\ e \in Event
  BY DEF TypeOK, RequestType, Handle, SideEffect, MarkOrderPaidWithGrant,
         RefuseSession, InsertRenewalOrderWithGrant, Park, HandleOther, AssessRefund,
         RewardReferrer, CancelReward, Enqueue, Holding, Working
<1>2. \A x \in OrderEvents : OrderOf[x] \in Order
  BY EventAssumption
<1>3. PICK pc \in Holding : Goto(q, pc)
  BY DEF Handle, SideEffect, MarkOrderPaidWithGrant, AfterCheckout, AfterRenewal,
         RefuseSession, InsertRenewalOrderWithGrant, Park, HandleOther, AssessRefund,
         RewardReferrer, CancelReward, Enqueue, Holding, Working
<1>4. request' \in [Request -> RequestType]
  BY <1>1, <1>3, GotoType
<1>5. CASE MarkOrderPaidWithGrant(q) \/ InsertRenewalOrderWithGrant(q)
  <2>1. o \in Order
    BY <1>2, <1>5 DEF MarkOrderPaidWithGrant, InsertRenewalOrderWithGrant, OrderEvents
  <2>2. order' \in [Order -> {"none", "created", "paid"}]
    BY <2>1, <1>5
    DEF MarkOrderPaidWithGrant, InsertRenewalOrderWithGrant, MarkPaid, TypeOK
  <2>3. ledger' \in SUBSET [trans : Order, order : Order]
    BY <2>1, <1>5
    DEF MarkOrderPaidWithGrant, InsertRenewalOrderWithGrant, InsertGrant, TransNo, TypeOK
  <2> QED
    BY <1>4, <1>5, <2>2, <2>3
    DEF MarkOrderPaidWithGrant, InsertRenewalOrderWithGrant, TypeOK, outside
<1>6. CASE RefuseSession(q) \/ Park(q) \/ HandleOther(q) \/ AssessRefund(q)
  BY <1>4, <1>6
  DEF RefuseSession, Park, HandleOther, AssessRefund, TypeOK, tables, outside
<1>7. CASE RewardReferrer(q) \/ CancelReward(q)
  <2>1. reward' \in [Order -> {"none", "pending", "canceled"}]
    BY <1>7 DEF RewardReferrer, CancelReward, InsertPaidAffiliateOnce, TypeOK
  <2> QED  BY <1>4, <1>7, <2>1 DEF RewardReferrer, CancelReward, TypeOK, outside
<1>8. CASE Enqueue(q)
  <2>1. queued' \in SUBSET ({"mail", "alert"} \X Event)
    BY <1>1, <1>8 DEF Enqueue, TypeOK
  <2> QED  BY <1>4, <1>8, <2>1 DEF Enqueue, TypeOK, outside
<1> QED  BY <1>5, <1>6, <1>7, <1>8 DEF Handle, SideEffect

LEMMA OutsideType ==
  ASSUME TypeOK,
         \/ \E q \in Request :
              \/ Throw(q) \/ Crash(q)
              \/ \E e \in Event : Deliver(q, e) \/ Resend(q, e)
         \/ \E e \in Event : Resolve(e) \/ FixCause(e)
         \/ Tick
  PROVE  TypeOK'
<1>b. MaxSends \in Nat /\ MaxResends \in Nat /\ MaxFaults \in Nat
  BY BoundAssumption
<1>1. ASSUME NEW q \in Request, Throw(q)
      PROVE  TypeOK'
  <2>1. request' \in [Request -> RequestType]
    BY <1>1, GotoType DEF Throw, Holding
  <2> QED  BY <1>1, <1>b, <2>1 DEF Throw, TypeOK, tables
<1>2. ASSUME NEW q \in Request, Crash(q)
      PROVE  TypeOK'
  BY <1>2, <1>b, IdleType DEF Crash, TypeOK, tables
<1>3. ASSUME NEW q \in Request, NEW e \in Event, Receive(q, e)
      PROVE  request' \in [Request -> RequestType]
  <2>1. [pc |-> "insert", event |-> e, asked |-> now, seen |-> "none"] \in
          [pc : Claiming, event : Event, asked : Nat, seen : Status]
    BY DEF Claiming, Status, TypeOK
  <2>2. [pc |-> "insert", event |-> e, asked |-> now, seen |-> "none"] \in RequestType
    BY <2>1 DEF RequestType
  <2> QED  BY <1>3, <2>2 DEF Receive, TypeOK
<1>4. ASSUME NEW q \in Request, NEW e \in Event, Deliver(q, e)
      PROVE  TypeOK'
  <2>1. sends' \in [Event -> 0..MaxSends]
    <3>1. sends[e] + 1 \in 0..MaxSends
      BY <1>4, <1>b DEF Deliver, TypeOK
    <3> QED  BY <1>4, <3>1 DEF Deliver, TypeOK
  <2>2. sentAt' \in [Event -> Nat]
    BY <1>4 DEF Deliver, TypeOK
  <2> QED  BY <1>3, <1>4, <2>1, <2>2 DEF Deliver, TypeOK, tables
<1>5. ASSUME NEW q \in Request, NEW e \in Event, Resend(q, e)
      PROVE  TypeOK'
  <2>1. resends' \in 0..MaxResends
    BY <1>5, <1>b DEF Resend, TypeOK
  <2> QED  BY <1>3, <1>5, <2>1 DEF Resend, TypeOK, tables
<1>6. ASSUME NEW e \in Event, Resolve(e)
      PROVE  TypeOK'
  <2>1. row' \in [Event -> [status : Status, updatedAt : Nat]]
    BY <1>6, WriteType DEF Resolve, Status, Closed, TypeOK
  <2> QED  BY <1>6, <2>1 DEF Resolve, TypeOK, outside
<1>7. ASSUME NEW e \in Event, FixCause(e)
      PROVE  TypeOK'
  BY <1>7 DEF FixCause, TypeOK, tables
<1>8. CASE Tick
  BY <1>8 DEF Tick, TypeOK, tables
<1> QED  BY <1>1, <1>2, <1>4, <1>5, <1>6, <1>7, <1>8

LEMMA InitType == Init => TypeOK
  BY IdleType, BoundAssumption DEF Init, TypeOK, Status

LEMMA NextType == TypeOK /\ [Next]_vars => TypeOK'
<1> SUFFICES ASSUME TypeOK, [Next]_vars PROVE TypeOK'
  OBVIOUS
<1>1. CASE \E q \in Request : Serve(q)
  BY <1>1, ClaimType, HandlerType, MarkType DEF Serve
<1>2. CASE UNCHANGED vars
  BY <1>2 DEF vars, tables, outside, TypeOK
<1> QED  BY <1>1, <1>2, OutsideType DEF Next

-----------------------------------------------------------------------------
(* Money. *)

(* The transaction: the order becomes paid and its ledger row is there.    *)
LEMMA PayStep ==
  ASSUME MoneyInv, NEW e \in CheckoutEvents \union RenewalEvents,
         MarkPaid(OrderOf[e]), InsertGrant(e)
  PROVE  /\ LedgerExact'
         /\ \A o \in Order : order'[o] = "paid" <=> o = OrderOf[e] \/ order[o] = "paid"
<1> DEFINE o == OrderOf[e]
           Row(x) == [trans |-> x, order |-> x]
           Paid == {x \in Credited : order[x] = "paid"}
<1>1. o \in Order /\ Credited \subseteq Order
  BY EventAssumption DEF OrderEvents
<1>2. order' = [order EXCEPT ![o] = "paid"] /\ order \in [Order -> {"none", "created", "paid"}]
  BY DEF MarkPaid, MoneyInv, TypeOK
<1>3. \A x \in Order : order'[x] = "paid" <=> x = o \/ order[x] = "paid"
  BY <1>1, <1>2
<1>4. {x \in Credited : order'[x] = "paid"} =
        IF o \in Credited THEN Paid \union {o} ELSE Paid
  BY <1>1, <1>3
<1>5. ledger = {Row(x) : x \in Paid}
  BY DEF MoneyInv, LedgerExact
<1>6. (\E g \in ledger : g.trans = o) <=> o \in Paid
  <2>1. \A x : Row(x).trans = x
    OBVIOUS
  <2>2. ASSUME o \in Paid PROVE \E g \in ledger : g.trans = o
    <3>1. Row(o) \in ledger
      BY <2>2, <1>5
    <3> QED  BY <2>1, <3>1
  <2>3. ASSUME NEW g \in ledger, g.trans = o PROVE o \in Paid
    <3>1. PICK x \in Paid : g = Row(x)
      BY <1>5, <2>3
    <3> QED  BY <2>1, <2>3, <3>1
  <2> QED  BY <2>2, <2>3
<1>7. ledger' = IF o \in Credited THEN ledger \union {Row(o)} ELSE ledger
  <2>1. CASE o \in Credited /\ o \notin Paid
    BY <2>1, <1>6 DEF InsertGrant, TransNo
  <2>2. CASE o \in Paid
    <3>1. Row(o) \in ledger
      BY <2>2, <1>5
    <3> QED  BY <2>2, <1>6, <3>1 DEF InsertGrant, TransNo
  <2>3. CASE o \notin Credited
    BY <2>3 DEF InsertGrant
  <2> QED  BY <2>1, <2>2, <2>3
<1>8. ledger' = {Row(x) : x \in {y \in Credited : order'[y] = "paid"}}
  <2> HIDE DEF Row
  <2> QED  BY <1>4, <1>5, <1>7
<1> QED  BY <1>3, <1>8 DEF LedgerExact

LEMMA HandlerMoney ==
  ASSUME MoneyInv, TypeOK', NEW q \in Request, Handle(q) \/ SideEffect(q)
  PROVE  MoneyInv'
<1> DEFINE e == request[q].event
           o == OrderOf[e]
<1>0. /\ OrderOf \in [OrderEvents -> Order]
      /\ CheckoutEvents \union RenewalEvents \union RefundEvents = OrderEvents
  BY EventAssumption DEF OrderEvents
<1>1. CASE MarkOrderPaidWithGrant(q) \/ InsertRenewalOrderWithGrant(q)
  <2>1. /\ e \in CheckoutEvents \union RenewalEvents
        /\ o \in Order
    BY <1>0, <1>1 DEF MarkOrderPaidWithGrant, InsertRenewalOrderWithGrant
  <2>2. /\ LedgerExact'
        /\ \A x \in Order : order'[x] = "paid" <=> x = o \/ order[x] = "paid"
    BY <1>1, <2>1, PayStep DEF MarkOrderPaidWithGrant, InsertRenewalOrderWithGrant
  <2>3. RewardOfPaid'
    BY <1>1, <2>2
    DEF MarkOrderPaidWithGrant, InsertRenewalOrderWithGrant, MoneyInv, RewardOfPaid
  <2>4. PICK pc \in {"reward", "mark"} : Goto(q, pc)
    BY <1>1 DEF MarkOrderPaidWithGrant, InsertRenewalOrderWithGrant, AfterCheckout, AfterRenewal
  <2>5. Placed'
    <3> SUFFICES ASSUME NEW p \in Request
                 PROVE  /\ request'[p].pc = "reward" =>
                             /\ request'[p].event \in CheckoutEvents \union RenewalEvents
                             /\ order'[OrderOf[request'[p].event]] = "paid"
                        /\ request'[p].pc = "cancel" => request'[p].event \in RefundEvents
      BY DEF Placed
    <3>1. CASE p = q
      <4>1. request'[p].event = e /\ request'[p].pc = pc
        BY <3>1, <2>4 DEF Goto, MoneyInv, TypeOK, RequestType
      <4> QED  BY <4>1, <2>1, <2>2
    <3>2. CASE p # q
      <4>1. request'[p] = request[p]
        BY <3>2, <2>4 DEF Goto, MoneyInv, TypeOK
      <4> QED  BY <4>1, <1>0, <2>2 DEF MoneyInv, Placed
    <3> QED  BY <3>1, <3>2
  <2> QED  BY <2>2, <2>3, <2>5 DEF MoneyInv
<1>2. ASSUME UNCHANGED order, NEW pc \in Holding, Goto(q, pc), pc # "reward",
             pc = "cancel" => e \in RefundEvents
      PROVE  Placed'
  <2> SUFFICES ASSUME NEW p \in Request
               PROVE  /\ request'[p].pc = "reward" =>
                           /\ request'[p].event \in CheckoutEvents \union RenewalEvents
                           /\ order[OrderOf[request'[p].event]] = "paid"
                      /\ request'[p].pc = "cancel" => request'[p].event \in RefundEvents
    BY <1>2 DEF Placed
  <2>1. CASE p = q
    <3>1. request'[p].event = e /\ request'[p].pc = pc
      BY <2>1, <1>2 DEF Goto, MoneyInv, TypeOK, RequestType
    <3> QED  BY <3>1, <1>2
  <2>2. CASE p # q
    <3>1. request'[p] = request[p]
      BY <2>2, <1>2 DEF Goto, MoneyInv, TypeOK
    <3> QED  BY <3>1 DEF MoneyInv, Placed
  <2> QED  BY <2>1, <2>2
<1>3. CASE RefuseSession(q) \/ Park(q) \/ HandleOther(q) \/ AssessRefund(q) \/ Enqueue(q)
  <2>1. /\ UNCHANGED <<order, ledger, reward>>
        /\ \E pc \in Holding : /\ Goto(q, pc) /\ pc # "reward"
                               /\ pc = "cancel" => e \in RefundEvents
    BY <1>3
    DEF RefuseSession, Park, HandleOther, AssessRefund, Enqueue, tables, Holding, Working
  <2> QED  BY <1>2, <2>1 DEF MoneyInv, LedgerExact, RewardOfPaid
<1>4. CASE RewardReferrer(q)
  <2>1. order[o] = "paid" /\ UNCHANGED <<order, ledger>>
    BY <1>4 DEF RewardReferrer, MoneyInv, Placed
  <2>2. RewardOfPaid'
    BY <1>4, <2>1
    DEF RewardReferrer, InsertPaidAffiliateOnce, MoneyInv, RewardOfPaid, TypeOK
  <2>3. \E pc \in Holding : Goto(q, pc) /\ pc # "reward" /\ pc # "cancel"
    BY <1>4 DEF RewardReferrer, Holding, Working
  <2> QED  BY <1>2, <2>1, <2>2, <2>3 DEF MoneyInv, LedgerExact
<1>5. CASE CancelReward(q)
  <2>1. UNCHANGED <<order, ledger>> /\ Goto(q, "alert")
    BY <1>5 DEF CancelReward
  <2>2. RewardOfPaid'
    BY <1>5, <2>1 DEF CancelReward, MoneyInv, RewardOfPaid, TypeOK
  <2>3. "alert" \in Holding
    BY DEF Holding, Working
  <2> QED  BY <1>2, <2>1, <2>2, <2>3 DEF MoneyInv, LedgerExact
<1> QED  BY <1>1, <1>3, <1>4, <1>5 DEF Handle, SideEffect

(* Everything else leaves the money alone and moves no request into the    *)
(* steps that write a commission.                                          *)
LEMMA OtherMoney ==
  ASSUME MoneyInv, TypeOK', UNCHANGED <<order, ledger, reward>>,
         \A q \in Request : request'[q].pc \in {"reward", "cancel"} =>
                              request'[q] = request[q]
  PROVE  MoneyInv'
  BY DEF MoneyInv, LedgerExact, RewardOfPaid, Placed

LEMMA NextMoney == MoneyInv /\ [Next]_vars => MoneyInv'
<1> SUFFICES ASSUME MoneyInv, [Next]_vars PROVE MoneyInv'
  OBVIOUS
<1> USE DEF MoneyInv
<1>t. TypeOK'
  BY NextType
<1>1. ASSUME NEW q \in Request, Handle(q) \/ SideEffect(q)
      PROVE  MoneyInv'
  BY <1>t, <1>1, HandlerMoney
<1>2. ASSUME NEW q \in Request,
             NEW new, new.pc \notin {"reward", "cancel"},
             request' = [request EXCEPT ![q] = new],
             UNCHANGED <<order, ledger, reward>>
      PROVE  MoneyInv'
  <2>1. \A p \in Request : p # q => request'[p] = request[p]
    BY <1>2 DEF TypeOK
  <2>2. request'[q] = new
    BY <1>2 DEF TypeOK
  <2> QED  BY <1>t, <1>2, <2>1, <2>2, OtherMoney
<1>i. Idle.pc \notin {"reward", "cancel"}
  BY DEF Idle
<1>3. ASSUME NEW q \in Request, Claim(q) \/ Mark(q) \/ Throw(q) \/ Crash(q)
      PROVE  MoneyInv'
  <2>1. UNCHANGED <<order, ledger, reward>>
    BY <1>3 DEF Claim, ClaimInsert, ClaimRead, ClaimUpdate, Mark, MarkCompleted,
                MarkActionRequired, MarkFailed, Throw, Crash, tables
  <2>2. \/ Begin(q)
        \/ request' = [request EXCEPT ![q] = Idle]
        \/ Goto(q, "read") \/ Goto(q, "failing")
        \/ request' = [request EXCEPT ![q] =
             [@ EXCEPT !.pc = "reclaim", !.seen = row[request[q].event].status]]
    BY <1>3 DEF Claim, ClaimInsert, ClaimRead, ClaimUpdate, Mark, MarkCompleted,
                MarkActionRequired, MarkFailed, Throw, Crash, Answer
  <2>3. CASE Begin(q)
    <3> DEFINE new == [pc |-> "handle", event |-> request[q].event,
                       asked |-> 0, seen |-> "none"]
    <3>1. new.pc \notin {"reward", "cancel"} /\ request' = [request EXCEPT ![q] = new]
      BY <2>3 DEF Begin
    <3> HIDE DEF new
    <3> QED  BY <1>2, <2>1, <3>1
  <2>4. CASE request' = [request EXCEPT ![q] = Idle]
    BY <1>2, <1>i, <2>1, <2>4
  <2>5. ASSUME NEW pc \in {"read", "failing"}, Goto(q, pc)
        PROVE  MoneyInv'
    <3> DEFINE new == [request[q] EXCEPT !.pc = pc]
    <3>1. new.pc \notin {"reward", "cancel"} /\ request' = [request EXCEPT ![q] = new]
      BY <2>5 DEF Goto, TypeOK, RequestType
    <3> HIDE DEF new
    <3> QED  BY <1>2, <2>1, <3>1
  <2>6. CASE request' = [request EXCEPT ![q] =
               [@ EXCEPT !.pc = "reclaim", !.seen = row[request[q].event].status]]
    <3> DEFINE new == [request[q] EXCEPT !.pc = "reclaim",
                                         !.seen = row[request[q].event].status]
    <3>1. new.pc \notin {"reward", "cancel"} /\ request' = [request EXCEPT ![q] = new]
      BY <2>6 DEF TypeOK, RequestType
    <3> HIDE DEF new
    <3> QED  BY <1>2, <2>1, <3>1
  <2> QED  BY <2>2, <2>3, <2>4, <2>5, <2>6
<1>4. ASSUME NEW q \in Request, NEW e \in Event, Deliver(q, e) \/ Resend(q, e)
      PROVE  MoneyInv'
  <2> DEFINE new == [pc |-> "insert", event |-> e, asked |-> now, seen |-> "none"]
  <2>1. /\ new.pc \notin {"reward", "cancel"} /\ request' = [request EXCEPT ![q] = new]
        /\ UNCHANGED <<order, ledger, reward>>
    BY <1>4 DEF Deliver, Resend, Receive, tables
  <2> HIDE DEF new
  <2> QED  BY <1>2, <2>1
<1>5. CASE (\E e \in Event : Resolve(e) \/ FixCause(e)) \/ Tick \/ UNCHANGED vars
  <2>1. UNCHANGED <<order, ledger, reward, request>>
    BY <1>5 DEF Resolve, FixCause, Tick, vars, tables
  <2> QED  BY <1>t, <2>1, OtherMoney
<1> QED  BY <1>1, <1>3, <1>4, <1>5 DEF Next, Serve

LEMMA InitMoney == Init => MoneyInv
<1> SUFFICES ASSUME Init PROVE MoneyInv
  OBVIOUS
<1>1. TypeOK
  BY InitType
<1>2. \A o \in Order : order[o] # "paid" /\ reward[o] = "none"
  BY DEF Init
<1>3. Credited \subseteq Order
  BY EventAssumption
<1>4. {p \in Credited : order[p] = "paid"} = {}
  BY <1>2, <1>3
<1>5. LedgerExact
  BY <1>4 DEF Init, LedgerExact
<1>6. RewardOfPaid
  BY <1>2 DEF RewardOfPaid
<1>7. Placed
  BY DEF Init, Placed, Idle
<1> QED  BY <1>1, <1>5, <1>6, <1>7 DEF MoneyInv

(* The money invariant holds in every reachable state. *)
THEOREM AlwaysMoneyInv == Spec => []MoneyInv
  BY InitMoney, NextMoney, PTL DEF Spec

LEMMA GrantCount ==
  ASSUME MoneyInv, NEW o \in Order
  PROVE  Cardinality(GrantsOf(o)) = IF order[o] = "paid" /\ o \in Credited THEN 1 ELSE 0
<1> DEFINE Row(x) == [trans |-> x, order |-> x]
<1>1. \A x : Row(x).order = x
  OBVIOUS
<1>2. ledger = {Row(x) : x \in {p \in Credited : order[p] = "paid"}}
  BY DEF MoneyInv, LedgerExact
<1> HIDE DEF Row
<1>3. CASE order[o] = "paid" /\ o \in Credited
  <2>1. GrantsOf(o) = {Row(o)}
    BY <1>1, <1>2, <1>3 DEF GrantsOf
  <2> QED  BY <1>3, <2>1, FS_Singleton
<1>4. CASE ~(order[o] = "paid" /\ o \in Credited)
  <2>1. GrantsOf(o) = {}
    BY <1>1, <1>2, <1>4 DEF GrantsOf
  <2> QED  BY <1>4, <2>1, FS_EmptySet
<1> QED  BY <1>3, <1>4

LEMMA GrantedOfMoney == MoneyInv => PaidIffGranted
  BY GrantCount DEF PaidIffGranted

LEMMA GrantedOfMoneyNext == MoneyInv' => PaidIffGranted'
  BY GrantedOfMoney, PTL

(* However many events announce a payment and wherever their handlers die, *)
(* an order is paid exactly when its credits are in the ledger, once.      *)
THEOREM AlwaysPaidIffGranted == Spec => []PaidIffGranted
  BY GrantedOfMoney, AlwaysMoneyInv, PTL

-----------------------------------------------------------------------------
(* What "completed" means, and who announces a renewal. *)

(* The work of an event is done. *)
Done(e) ==
  /\ e \notin unmapped \union RefundEvents
  /\ e \in CheckoutEvents \union RenewalEvents => order[OrderOf[e]] = "paid"
  /\ e \in CheckoutEvents /\ OrderOf[e] \in Referred => reward[OrderOf[e]] # "none"

DoneRows == \A e \in Event : row[e].status = "completed" => Done(e)

(* Past the transaction a request remembers nothing of it but where it is. *)
Past(q) ==
  LET e == request[q].event IN
  /\ request[q].pc = "reward" => e \notin unmapped
  /\ request[q].pc = "mail" => e \in CheckoutEvents \union NoticeEvents
  /\ request[q].pc \in {"mail", "alert", "mark"} =>
       Done(e) \/ (request[q].pc = "alert" /\ e \in RefundEvents)

(* The notice of a renewal is queued, or a request is on its way to it.    *)
OnItsWay(q, e) == request[q].event = e /\ request[q].pc \in {"reward", "alert"}
Announces(e) == <<"alert", e>> \in queued \/ \E q \in Request : OnItsWay(q, e)

(* Only the event that created the order of a period ever announces it.    *)
OneAnnounces ==
  /\ \A e \in RenewalEvents : Announces(e) => order[OrderOf[e]] = "paid"
  /\ \A e, f \in RenewalEvents :
       OrderOf[e] = OrderOf[f] /\ Announces(e) /\ Announces(f) => e = f

FulfilInv ==
  MoneyInv /\ DoneRows /\ (\A q \in Request : Past(q)) /\ OneAnnounces

(* What is repaired, paid or rewarded stays so. *)
LEMMA MoneyGrows ==
  ASSUME MoneyInv, [Next]_vars
  PROVE  /\ unmapped' \subseteq unmapped
         /\ \A o \in Order : order[o] = "paid" => order'[o] = "paid"
         /\ \A o \in Order : reward[o] # "none" => reward'[o] # "none"
<1>0. \A e \in OrderEvents : OrderOf[e] \in Order
  BY EventAssumption
<1>1. ASSUME NEW q \in Request, MarkOrderPaidWithGrant(q) \/ InsertRenewalOrderWithGrant(q)
      PROVE  /\ UNCHANGED <<reward, unmapped>>
             /\ \A o \in Order : order[o] = "paid" => order'[o] = "paid"
  BY <1>1 DEF MarkOrderPaidWithGrant, InsertRenewalOrderWithGrant, MarkPaid, outside,
              MoneyInv, TypeOK
<1>2. ASSUME NEW q \in Request, RewardReferrer(q) \/ CancelReward(q)
      PROVE  /\ UNCHANGED <<order, unmapped>>
             /\ \A o \in Order : reward[o] # "none" => reward'[o] # "none"
  BY <1>2 DEF RewardReferrer, InsertPaidAffiliateOnce, CancelReward, outside,
              MoneyInv, TypeOK
<1>3. ASSUME NEW q \in Request,
             \/ Claim(q) \/ Mark(q) \/ Throw(q) \/ Crash(q) \/ Enqueue(q)
             \/ RefuseSession(q) \/ Park(q) \/ HandleOther(q) \/ AssessRefund(q)
             \/ \E e \in Event : Deliver(q, e) \/ Resend(q, e)
      PROVE  UNCHANGED <<order, reward, unmapped>>
  BY <1>3 DEF Claim, ClaimInsert, ClaimRead, ClaimUpdate, Mark, MarkCompleted,
              MarkActionRequired, MarkFailed, Throw, Crash, Enqueue, RefuseSession,
              Park, HandleOther, AssessRefund, Deliver, Resend, tables, outside
<1>4. (\E e \in Event : Resolve(e) \/ FixCause(e)) \/ Tick \/ UNCHANGED vars =>
        UNCHANGED <<order, reward>> /\ unmapped' \subseteq unmapped
  BY DEF Resolve, FixCause, Tick, vars, tables, outside
<1> QED
  BY <1>1, <1>2, <1>3, <1>4 DEF Next, Serve, Handle, SideEffect

LEMMA DoneStays ==
  ASSUME MoneyInv, [Next]_vars, NEW e \in Event, Done(e)
  PROVE  Done(e)'
<1>1. \A x \in OrderEvents : OrderOf[x] \in Order
  BY EventAssumption
<1> QED  BY <1>1, MoneyGrows DEF Done, OrderEvents

(* A step that writes "completed", if at all, over an event that is done.  *)
LEMMA RowsDone ==
  ASSUME FulfilInv, [Next]_vars,
         \/ UNCHANGED row
         \/ \E e \in Event, status \in Status, time \in Nat :
              /\ Write(e, status, time)
              /\ status = "completed" => Done(e)
  PROVE  DoneRows'
<1> SUFFICES ASSUME NEW e \in Event, row'[e].status = "completed" PROVE Done(e)'
  BY DEF DoneRows
<1>1. Done(e)
  BY DEF FulfilInv, MoneyInv, TypeOK, DoneRows, Write
<1> QED  BY <1>1, DoneStays DEF FulfilInv

(* A step of one request that announces nothing new.                       *)
LEMMA PastStep ==
  ASSUME FulfilInv, MoneyInv', [Next]_vars, NEW q \in Request,
         \A p \in Request : p # q => request'[p] = request[p],
         Past(q)',
         \A e \in RenewalEvents :
           <<"alert", e>> \in queued' \/ OnItsWay(q, e)' => Announces(e)
  PROVE  (\A p \in Request : Past(p)') /\ OneAnnounces'
<1>0. /\ \A e \in OrderEvents : OrderOf[e] \in Order
      /\ RenewalEvents \subseteq OrderEvents
  BY EventAssumption DEF OrderEvents
<1>1. ASSUME NEW p \in Request, p # q PROVE Past(p)'
  <2>1. request'[p] = request[p] /\ Past(p) /\ unmapped' \subseteq unmapped
    BY <1>1, MoneyGrows DEF FulfilInv
  <2>2. request[p].pc \in {"mail", "alert", "mark"} => request[p].event \in Event
    BY DEF FulfilInv, MoneyInv, TypeOK, RequestType
  <2> QED  BY <2>1, <2>2, DoneStays DEF Past, FulfilInv
<1>2. \A e \in RenewalEvents : Announces(e)' => Announces(e)
  BY DEF Announces, OnItsWay
<1>3. OneAnnounces'
  BY <1>0, <1>2, MoneyGrows DEF OneAnnounces, FulfilInv
<1> QED  BY <1>1, <1>3

LEMMA FulfilPay ==
  ASSUME FulfilInv, MoneyInv', [Next]_vars, NEW q \in Request,
         MarkOrderPaidWithGrant(q) \/ InsertRenewalOrderWithGrant(q)
  PROVE  FulfilInv'
<1> PICK e : e = request[q].event
  OBVIOUS
<1>0. /\ MoneyInv /\ TypeOK /\ OrderOf \in [OrderEvents -> Order]
      /\ e \in CheckoutEvents \union RenewalEvents /\ e \notin unmapped
      /\ e \in Event /\ OrderOf[e] \in Order
      /\ UNCHANGED <<row, reward, queued, unmapped>>
  BY EventAssumption
  DEF FulfilInv, MoneyInv, MarkOrderPaidWithGrant, InsertRenewalOrderWithGrant,
      OrderEvents, Event, outside
<1>1. DoneRows'
  BY <1>0, RowsDone
<1>2. order' = [order EXCEPT ![OrderOf[e]] = "paid"]
  BY DEF MarkOrderPaidWithGrant, InsertRenewalOrderWithGrant, MarkPaid
<1>3. PICK pc \in {"reward", "mark"} :
        /\ Goto(q, pc)
        /\ pc = "mark" => e \in RenewalEvents
        /\ e \in RenewalEvents /\ pc = "reward" => order[OrderOf[e]] = "none"
  BY EventAssumption
  DEF MarkOrderPaidWithGrant, InsertRenewalOrderWithGrant, AfterCheckout, AfterRenewal
<1>4. /\ request'[q].pc = pc /\ request'[q].event = e
      /\ \A p \in Request : p # q => request'[p] = request[p]
  BY <1>0, <1>3 DEF Goto, TypeOK, RequestType
<1>5. order'[OrderOf[e]] = "paid"
  BY <1>0, <1>2 DEF TypeOK
<1>6. Past(q)'
  <2>1. e \in RenewalEvents => Done(e)'
    BY <1>0, <1>5, EventAssumption DEF Done
  <2> QED  BY <1>0, <1>3, <1>4, <2>1 DEF Past
<1>7. (\A p \in Request : Past(p)') /\ OneAnnounces'
  <2>1. CASE ~(e \in RenewalEvents /\ pc = "reward")
    <3>1. \A x \in RenewalEvents :
            <<"alert", x>> \in queued' \/ OnItsWay(q, x)' => Announces(x)
      BY <1>0, <1>4, <2>1 DEF OnItsWay, Announces
    <3> QED  BY <1>4, <1>6, <3>1, PastStep
  <2>2. CASE e \in RenewalEvents /\ pc = "reward"
    <3>1. \A x \in RenewalEvents : Announces(x) => OrderOf[x] # OrderOf[e]
      BY <1>3, <2>2 DEF FulfilInv, OneAnnounces
    <3>2. \A x \in RenewalEvents : Announces(x)' => Announces(x) \/ x = e
      BY <1>0, <1>4 DEF Announces, OnItsWay
    <3>3. OneAnnounces'
      <4>1. \A x \in RenewalEvents : OrderOf[x] \in Order
        BY <1>0 DEF OrderEvents
      <4> QED
        BY <1>5, <3>1, <3>2, <4>1, MoneyGrows DEF FulfilInv, OneAnnounces
    <3>4. ASSUME NEW p \in Request, p # q PROVE Past(p)'
      <4>1. request'[p] = request[p] /\ Past(p)
        BY <1>4, <3>4 DEF FulfilInv
      <4>2. request[p].pc \in {"mail", "alert", "mark"} => request[p].event \in Event
        BY <1>0 DEF TypeOK, RequestType
      <4> QED  BY <1>0, <4>1, <4>2, DoneStays DEF Past
    <3> QED  BY <1>6, <3>3, <3>4
  <2> QED  BY <2>1, <2>2
<1> QED  BY <1>1, <1>7 DEF FulfilInv

(* The rest of the handlers and the side effects. *)
LEMMA FulfilHandle ==
  ASSUME FulfilInv, MoneyInv', [Next]_vars, NEW q \in Request,
         \/ RefuseSession(q) \/ Park(q) \/ HandleOther(q) \/ AssessRefund(q)
         \/ SideEffect(q)
  PROVE  FulfilInv'
<1> PICK e : e = request[q].event
  OBVIOUS
<1>0. /\ MoneyInv /\ TypeOK /\ Past(q) /\ OrderOf \in [OrderEvents -> Order]
      /\ UNCHANGED <<row, unmapped>>
  BY EventAssumption
  DEF FulfilInv, MoneyInv, RefuseSession, Park, HandleOther, AssessRefund, SideEffect,
      RewardReferrer, CancelReward, Enqueue, tables, outside
<1>1. DoneRows'
  BY <1>0, RowsDone
<1>2. ASSUME NEW pc \in Holding, Goto(q, pc)
      PROVE  /\ request'[q].pc = pc /\ request'[q].event = e
             /\ \A p \in Request : p # q => request'[p] = request[p]
  BY <1>0, <1>2 DEF Goto, TypeOK, RequestType
<1>3. ASSUME NEW pc \in Holding, Goto(q, pc), pc # "reward",
             pc = "mail" => e \in CheckoutEvents \union NoticeEvents,
             pc \in {"mail", "alert", "mark"} =>
               Done(e)' \/ (pc = "alert" /\ e \in RefundEvents),
             \A x \in RenewalEvents : <<"alert", x>> \in queued' => Announces(x),
             pc = "alert" /\ e \in RenewalEvents => Announces(e)
      PROVE  FulfilInv'
  <2>1. Past(q)'
    BY <1>2, <1>3 DEF Past
  <2>2. \A x \in RenewalEvents :
          <<"alert", x>> \in queued' \/ OnItsWay(q, x)' => Announces(x)
    BY <1>2, <1>3 DEF OnItsWay
  <2> QED  BY <1>1, <1>2, <1>3, <2>1, <2>2, PastStep DEF FulfilInv
<1>4. \A x \in RenewalEvents : <<"alert", x>> \in queued => Announces(x)
  BY DEF Announces
<1>5. CASE RefuseSession(q) \/ Park(q)
  <2>1. \E pc \in {"failing", "parking"} : Goto(q, pc) /\ UNCHANGED queued
    BY <1>5 DEF RefuseSession, Park, tables
  <2> QED  BY <1>3, <1>4, <2>1 DEF Holding, Working
<1>6. CASE HandleOther(q)
  <2>1. \E pc \in {"mail", "mark"} :
          Goto(q, pc) /\ (pc = "mail" => e \in NoticeEvents) /\ UNCHANGED queued
    BY <1>6 DEF HandleOther, tables
  <2>2. Done(e)
    BY <1>0, <1>6, EventAssumption DEF HandleOther, Done, TypeOK, OrderEvents
  <2>3. e \in Event
    BY <1>6 DEF HandleOther, Event
  <2>4. Done(e)'
    BY <1>0, <2>2, <2>3, DoneStays
  <2> QED  BY <1>3, <1>4, <2>1, <2>4 DEF Holding, Working
<1>7. CASE AssessRefund(q)
  <2>1. /\ \E pc \in {"cancel", "alert"} : Goto(q, pc) /\ UNCHANGED queued
        /\ e \in RefundEvents /\ e \notin RenewalEvents
    BY <1>7, EventAssumption DEF AssessRefund, tables
  <2> QED  BY <1>3, <1>4, <2>1 DEF Holding, Working
<1>8. CASE RewardReferrer(q)
  <2>1. /\ e \in CheckoutEvents \union RenewalEvents /\ e \notin unmapped
        /\ order[OrderOf[e]] = "paid" /\ request[q].pc = "reward"
    BY <1>0, <1>8 DEF RewardReferrer, Past, MoneyInv, Placed
  <2>2. OrderOf[e] \in Order /\ e \in Event
    BY <1>0, <2>1 DEF OrderEvents, Event
  <2>3. OrderOf[e] \in Referred => reward'[OrderOf[e]] # "none"
    BY <1>0, <1>8, <2>2 DEF RewardReferrer, InsertPaidAffiliateOnce, TypeOK
  <2>4. Done(e)'
    BY <1>0, <1>8, <2>1, <2>3, EventAssumption DEF RewardReferrer, Done
  <2>5. \E pc \in {"mail", "mark", "alert"} :
          /\ Goto(q, pc) /\ UNCHANGED queued
          /\ pc = "mail" => e \in CheckoutEvents
          /\ pc = "alert" => e \in RenewalEvents
    BY <1>8 DEF RewardReferrer
  <2>6. Announces(e)
    BY <2>1 DEF Announces, OnItsWay
  <2> QED  BY <1>3, <1>4, <2>4, <2>5, <2>6 DEF Holding, Working
<1>9. CASE CancelReward(q)
  <2>1. /\ Goto(q, "alert") /\ UNCHANGED queued
        /\ e \in RefundEvents /\ e \notin RenewalEvents
    BY <1>0, <1>9, EventAssumption DEF CancelReward, MoneyInv, Placed
  <2> QED  BY <1>3, <1>4, <2>1 DEF Holding, Working
<1>10. CASE Enqueue(q)
  <2>1. PICK pc \in {"alert", "parking", "mark"} :
          /\ Goto(q, pc)
          /\ queued' = queued \union {<<request[q].pc, e>>}
          /\ request[q].pc \in {"mail", "alert"}
          /\ pc = "alert" <=> request[q].pc = "mail"
          /\ request[q].pc = "alert" /\ e \in RefundEvents => pc = "parking"
    BY <1>10 DEF Enqueue
  <2>2. Done(e) \/ e \in RefundEvents
    BY <1>0, <2>1 DEF Past
  <2>3. pc \in {"alert", "mark"} => Done(e)
    BY <1>0, <2>1, <2>2 DEF Past
  <2>4. e \in Event
    BY <1>0, <2>1 DEF TypeOK, RequestType
  <2>5. pc \in {"alert", "mark"} => Done(e)'
    BY <1>0, <2>3, <2>4, DoneStays
  <2>6. \A x \in RenewalEvents : <<"alert", x>> \in queued' => Announces(x)
    BY <2>1 DEF Announces, OnItsWay
  <2>7. pc = "alert" => e \notin RenewalEvents
    BY <1>0, <2>1, EventAssumption DEF Past, OrderEvents
  <2> QED  BY <1>3, <2>1, <2>5, <2>6, <2>7 DEF Holding, Working
<1> QED  BY <1>5, <1>6, <1>7, <1>8, <1>9, <1>10 DEF SideEffect

(* Steps that put a request before the handler, or end it. *)
LEMMA FulfilAside ==
  ASSUME FulfilInv, MoneyInv', [Next]_vars, DoneRows', UNCHANGED queued,
         NEW q \in Request, NEW new, request' = [request EXCEPT ![q] = new],
         new.pc \notin {"reward", "mail", "alert", "mark"}
  PROVE  FulfilInv'
<1>1. request'[q] = new /\ \A p \in Request : p # q => request'[p] = request[p]
  BY DEF FulfilInv, MoneyInv, TypeOK
<1>2. Past(q)'
  BY <1>1 DEF Past
<1>3. \A x \in RenewalEvents :
        <<"alert", x>> \in queued' \/ OnItsWay(q, x)' => Announces(x)
  BY <1>1 DEF OnItsWay, Announces
<1> QED  BY <1>1, <1>2, <1>3, PastStep DEF FulfilInv

LEMMA NextFulfil == FulfilInv /\ [Next]_vars => FulfilInv'
<1> SUFFICES ASSUME FulfilInv, [Next]_vars PROVE FulfilInv'
  OBVIOUS
<1>0. MoneyInv /\ MoneyInv' /\ TypeOK
  BY NextMoney DEF FulfilInv, MoneyInv
<1>1. ASSUME NEW q \in Request, Handle(q) \/ SideEffect(q)
      PROVE  FulfilInv'
  BY <1>0, <1>1, FulfilPay, FulfilHandle DEF Handle
<1>i. Idle.pc = "idle"
  BY DEF Idle
<1>2. ASSUME NEW q \in Request, Claim(q)
      PROVE  FulfilInv'
  <2>1. /\ UNCHANGED queued
        /\ request[q] \in [pc : Claiming, event : Event, asked : Nat, seen : Status]
    BY <1>0, <1>2
    DEF Claim, ClaimInsert, ClaimRead, ClaimUpdate, tables, TypeOK, RequestType,
        Holding, Working, Claiming
  <2>2. UNCHANGED row \/ Write(request[q].event, "processing", request[q].asked)
    BY <1>2 DEF Claim, ClaimInsert, ClaimRead, ClaimUpdate, tables
  <2>3. DoneRows'
    BY <2>1, <2>2, RowsDone DEF Status
  <2>4. \/ Begin(q)
        \/ request' = [request EXCEPT ![q] = Idle]
        \/ Goto(q, "read")
        \/ request' = [request EXCEPT ![q] =
             [@ EXCEPT !.pc = "reclaim", !.seen = row[request[q].event].status]]
    BY <1>2 DEF Claim, ClaimInsert, ClaimRead, ClaimUpdate, Answer
  <2>5. CASE Begin(q)
    <3> DEFINE new == [pc |-> "handle", event |-> request[q].event,
                       asked |-> 0, seen |-> "none"]
    <3>1. new.pc = "handle" /\ request' = [request EXCEPT ![q] = new]
      BY <2>5 DEF Begin
    <3> HIDE DEF new
    <3> QED  BY <1>0, <2>1, <2>3, <3>1, FulfilAside
  <2>6. CASE request' = [request EXCEPT ![q] = Idle]
    BY <1>0, <1>i, <2>1, <2>3, <2>6, FulfilAside
  <2>7. CASE Goto(q, "read")
    <3> DEFINE new == [request[q] EXCEPT !.pc = "read"]
    <3>1. new.pc = "read" /\ request' = [request EXCEPT ![q] = new]
      BY <2>1, <2>7 DEF Goto
    <3> HIDE DEF new
    <3> QED  BY <1>0, <2>1, <2>3, <3>1, FulfilAside
  <2>8. CASE request' = [request EXCEPT ![q] =
               [@ EXCEPT !.pc = "reclaim", !.seen = row[request[q].event].status]]
    <3> DEFINE new == [request[q] EXCEPT !.pc = "reclaim",
                                         !.seen = row[request[q].event].status]
    <3>1. new.pc = "reclaim" /\ request' = [request EXCEPT ![q] = new]
      BY <2>1, <2>8
    <3> HIDE DEF new
    <3> QED  BY <1>0, <2>1, <2>3, <3>1, FulfilAside
  <2> QED  BY <2>4, <2>5, <2>6, <2>7, <2>8
<1>3. ASSUME NEW q \in Request, Mark(q)
      PROVE  FulfilInv'
  <2>1. /\ request[q].event \in Event /\ now \in Nat /\ UNCHANGED queued
        /\ request' = [request EXCEPT ![q] = Idle]
    BY <1>0, <1>3
    DEF Mark, MarkCompleted, MarkActionRequired, MarkFailed, Answer, TypeOK, RequestType
  <2>2. \E status \in Status :
          /\ Write(request[q].event, status, now)
          /\ status = "completed" => request[q].pc = "mark"
    <3>1. {"completed", "action_required", "failed"} \subseteq Status
      BY DEF Status, Closed, Reclaimable
    <3>2. \E status \in {"completed", "action_required", "failed"} :
            /\ Write(request[q].event, status, now)
            /\ status = "completed" => request[q].pc = "mark"
      BY <1>3 DEF Mark, MarkCompleted, MarkActionRequired, MarkFailed
    <3> QED  BY <3>1, <3>2
  <2>3. request[q].pc = "mark" => Done(request[q].event)
    BY DEF FulfilInv, Past
  <2>4. DoneRows'
    BY <2>1, <2>2, <2>3, RowsDone
  <2> QED  BY <1>0, <1>i, <2>1, <2>4, FulfilAside
<1>4. ASSUME NEW q \in Request, Throw(q) \/ Crash(q)
      PROVE  FulfilInv'
  <2>1. UNCHANGED <<row, queued>>
    BY <1>4 DEF Throw, Crash, tables
  <2>2. DoneRows'
    BY <2>1, RowsDone
  <2>3. CASE Throw(q)
    <3> DEFINE new == [request[q] EXCEPT !.pc = "failing"]
    <3>1. new.pc = "failing" /\ request' = [request EXCEPT ![q] = new]
      BY <1>0, <2>3 DEF Throw, Goto, TypeOK, RequestType
    <3> HIDE DEF new
    <3> QED  BY <1>0, <2>1, <2>2, <3>1, FulfilAside
  <2>4. CASE Crash(q)
    BY <1>0, <1>i, <2>1, <2>2, <2>4, FulfilAside DEF Crash
  <2> QED  BY <1>4, <2>3, <2>4
<1>5. ASSUME NEW q \in Request, NEW e \in Event, Deliver(q, e) \/ Resend(q, e)
      PROVE  FulfilInv'
  <2> DEFINE new == [pc |-> "insert", event |-> e, asked |-> now, seen |-> "none"]
  <2>1. /\ new.pc = "insert" /\ request' = [request EXCEPT ![q] = new]
        /\ UNCHANGED <<row, queued>>
    BY <1>5 DEF Deliver, Resend, Receive, tables
  <2> HIDE DEF new
  <2>2. DoneRows'
    BY <2>1, RowsDone
  <2> QED  BY <1>0, <2>1, <2>2, FulfilAside
<1>6. CASE (\E e \in Event : Resolve(e) \/ FixCause(e)) \/ Tick \/ UNCHANGED vars
  <2>1. /\ UNCHANGED <<request, queued, order>>
        /\ UNCHANGED row \/ \E e \in Event : Write(e, "resolved", now)
    BY <1>6 DEF Resolve, FixCause, Tick, vars, tables
  <2>2. now \in Nat /\ "resolved" \in Status
    BY <1>0 DEF TypeOK, Status, Closed
  <2>3. DoneRows'
    BY <2>1, <2>2, RowsDone
  <2>4. ASSUME NEW q \in Request PROVE Past(q)'
    <3>1. request[q].pc \in {"mail", "alert", "mark"} => request[q].event \in Event
      BY <1>0 DEF TypeOK, RequestType
    <3> QED  BY <1>0, <2>1, <3>1, MoneyGrows, DoneStays DEF FulfilInv, Past
  <2>5. OneAnnounces'
    BY <2>1 DEF FulfilInv, OneAnnounces, Announces, OnItsWay
  <2> QED  BY <1>0, <2>3, <2>4, <2>5 DEF FulfilInv
<1> QED  BY <1>1, <1>2, <1>3, <1>4, <1>5, <1>6 DEF Next, Serve

LEMMA InitFulfil == Init => FulfilInv
<1> SUFFICES ASSUME Init PROVE FulfilInv
  OBVIOUS
<1>1. DoneRows
  BY DEF Init, DoneRows
<1>2. \A q \in Request : request[q].pc = "idle"
  BY DEF Init, Idle
<1>3. \A q \in Request : Past(q)
  BY <1>2 DEF Past
<1>4. OneAnnounces
  BY <1>2 DEF Init, OneAnnounces, Announces, OnItsWay
<1> QED  BY <1>1, <1>3, <1>4, InitMoney DEF FulfilInv

(* The invariant behind the two theorems below: what a request past the    *)
(* transaction says of its event, and who announces a renewal.             *)
THEOREM AlwaysFulfilInv == Spec => []FulfilInv
  BY InitFulfil, NextFulfil, PTL DEF Spec

(* Whatever is resent, reclaimed, thrown or lost on the way, a row marked  *)
(* completed means the money of its event is in the database, and nothing  *)
(* that needs a person was filed as completed.                             *)
THEOREM AlwaysCompletedFulfilled == Spec => []CompletedFulfilled
<1>1. FulfilInv => CompletedFulfilled
  BY DEF FulfilInv, DoneRows, Done, CompletedFulfilled
<1> QED  BY <1>1, AlwaysFulfilInv, PTL

(* However many events announce one billing period and however often each  *)
(* is delivered, its renewal is announced under one key.                   *)
THEOREM AlwaysOneNoticePerCycle == Spec => []OneNoticePerCycle
<1>1. FulfilInv => OneNoticePerCycle
  BY DEF FulfilInv, OneAnnounces, Announces, OneNoticePerCycle
<1> QED  BY <1>1, AlwaysFulfilInv, PTL

-----------------------------------------------------------------------------
(* The webhook implements PaidOrder. *)

Paid == {o \in Order : order[o] = "paid"}
Grants == [o \in Order |-> Cardinality(GrantsOf(o))]

LEMMA PromiseInit == Init => Promise!PInit
<1> SUFFICES ASSUME Init PROVE Promise!PInit
  OBVIOUS
<1>1. MoneyInv
  BY InitMoney
<1>2. \A o \in Order : order[o] # "paid"
  BY DEF Init
<1>3. Grants = [o \in Order |-> 0]
  BY <1>1, <1>2, GrantCount DEF Grants
<1> QED  BY <1>2, <1>3 DEF Promise!PInit, Init, Grants

LEMMA PromisePay ==
  ASSUME MoneyInv, MoneyInv', NEW o \in Order, MarkPaid(o), UNCHANGED reward
  PROVE  Promise!Pay(o) \/ UNCHANGED Promise!pvars
<1>1. order' = [order EXCEPT ![o] = "paid"] /\ order \in [Order -> {"none", "created", "paid"}]
  BY DEF MarkPaid, MoneyInv, TypeOK
<1>2. /\ Grants = [x \in Order |-> IF order[x] = "paid" /\ x \in Credited THEN 1 ELSE 0]
  BY GrantCount DEF Grants
<1>3. \A x \in Order : Cardinality(GrantsOf(x))' =
        IF order'[x] = "paid" /\ x \in Credited THEN 1 ELSE 0
  BY GrantedOfMoneyNext DEF PaidIffGranted
<1>4. Grants' = [x \in Order |-> IF order'[x] = "paid" /\ x \in Credited THEN 1 ELSE 0]
  BY <1>3 DEF Grants
<1>5. CASE order[o] = "paid"
  <2>1. order' = order
    BY <1>1, <1>5
  <2>2. Paid' = Paid /\ Grants' = Grants
    BY <1>2, <1>4, <2>1 DEF Paid
  <2> QED  BY <2>2 DEF Promise!pvars, Paid, Grants
<1>6. CASE order[o] # "paid"
  <2>1. Paid' = Paid \union {o} /\ o \notin Paid
    BY <1>1, <1>6 DEF Paid
  <2>2. Grants' = [Grants EXCEPT ![o] = IF o \in Credited THEN 1 ELSE 0]
    BY <1>1, <1>2, <1>4
  <2> QED  BY <2>1, <2>2 DEF Promise!Pay, Paid, Grants
<1> QED  BY <1>5, <1>6

LEMMA PromiseStep ==
  MoneyInv /\ MoneyInv' /\ [Next]_vars => [Promise!PNext]_(Promise!pvars)
<1> SUFFICES ASSUME MoneyInv, MoneyInv', [Next]_vars
             PROVE  Promise!PNext \/ UNCHANGED Promise!pvars
  OBVIOUS
<1>0. \A e \in OrderEvents : OrderOf[e] \in Order
  BY EventAssumption
<1>1. ASSUME NEW q \in Request, MarkOrderPaidWithGrant(q) \/ InsertRenewalOrderWithGrant(q)
      PROVE  Promise!PNext \/ UNCHANGED Promise!pvars
  <2>1. PICK o \in Order : MarkPaid(o)
    BY <1>0, <1>1 DEF MarkOrderPaidWithGrant, InsertRenewalOrderWithGrant, OrderEvents
  <2>2. UNCHANGED reward
    BY <1>1 DEF MarkOrderPaidWithGrant, InsertRenewalOrderWithGrant
  <2> QED  BY <2>1, <2>2, PromisePay DEF Promise!PNext
<1>2. ASSUME UNCHANGED <<order, ledger>>
      PROVE  Paid' = Paid /\ Grants' = Grants
  BY <1>2 DEF Paid, Grants, GrantsOf
<1>3. ASSUME NEW q \in Request, RewardReferrer(q)
      PROVE  Promise!PNext \/ UNCHANGED Promise!pvars
  <2> DEFINE o == OrderOf[request[q].event]
  <2>1. /\ UNCHANGED <<order, ledger>>
        /\ o \in Order /\ order[o] = "paid"
    BY <1>0, <1>3 DEF RewardReferrer, MoneyInv, Placed, OrderEvents
  <2>2. \/ UNCHANGED reward
        \/ reward[o] = "none" /\ reward' = [reward EXCEPT ![o] = "pending"]
    BY <1>3 DEF RewardReferrer, InsertPaidAffiliateOnce
  <2>3. Paid' = Paid /\ Grants' = Grants
    BY <1>2, <2>1
  <2> QED
    BY <2>1, <2>2, <2>3 DEF Promise!PNext, Promise!Reward, Promise!pvars, Paid, Grants
<1>4. ASSUME NEW q \in Request, CancelReward(q)
      PROVE  Promise!PNext \/ UNCHANGED Promise!pvars
  <2> DEFINE o == OrderOf[request[q].event]
  <2>1. UNCHANGED <<order, ledger>> /\ o \in Order
    BY <1>0, <1>4 DEF CancelReward, MoneyInv, Placed, OrderEvents
  <2>2. \/ UNCHANGED reward
        \/ reward[o] = "pending" /\ reward' = [reward EXCEPT ![o] = "canceled"]
    BY <1>4, <2>1 DEF CancelReward, MoneyInv, TypeOK
  <2>3. Paid' = Paid /\ Grants' = Grants
    BY <1>2, <2>1
  <2> QED
    BY <2>1, <2>2, <2>3 DEF Promise!PNext, Promise!Cancel, Promise!pvars, Paid, Grants
<1>5. ASSUME UNCHANGED <<order, ledger, reward>>
      PROVE  UNCHANGED Promise!pvars
  BY <1>2, <1>5 DEF Promise!pvars, Paid, Grants
<1>6. ASSUME NEW q \in Request,
             \/ Claim(q) \/ Mark(q) \/ Throw(q) \/ Crash(q) \/ Enqueue(q)
             \/ RefuseSession(q) \/ Park(q) \/ HandleOther(q) \/ AssessRefund(q)
             \/ \E e \in Event : Deliver(q, e) \/ Resend(q, e)
      PROVE  UNCHANGED <<order, ledger, reward>>
  BY <1>6 DEF Claim, ClaimInsert, ClaimRead, ClaimUpdate, Mark, MarkCompleted,
              MarkActionRequired, MarkFailed, Throw, Crash, Enqueue, RefuseSession,
              Park, HandleOther, AssessRefund, Deliver, Resend, tables
<1>7. (\E e \in Event : Resolve(e) \/ FixCause(e)) \/ Tick \/ UNCHANGED vars
        => UNCHANGED <<order, ledger, reward>>
  BY DEF Resolve, FixCause, Tick, vars, tables
<1> QED
  BY <1>1, <1>3, <1>4, <1>5, <1>6, <1>7 DEF Next, Serve, Handle, SideEffect

(* Whatever happens to requests and events, orders, credits and            *)
(* commissions change only in the three steps PaidOrder allows.            *)
THEOREM WebhookKeepsPromise == Spec => KeepsPromise
  BY PromiseInit, PromiseStep, AlwaysMoneyInv, PTL
  DEF Spec, KeepsPromise, Promise!PSpec

-----------------------------------------------------------------------------
(* Who holds an event, where requests are stopped in time. *)

Holds(q, e) == request[q].pc \in Holding /\ request[q].event = e

(* Claims began in this instant; a holder's row was written in it and      *)
(* nobody else holds it; a row that changed after a SELECT found it stale  *)
(* is not stale any more.                                                  *)
HoldCore ==
  /\ \A q \in Request : request[q].pc \in Claiming => request[q].asked = now
  /\ \A q \in Request : \A e \in Event :
       Holds(q, e) => row[e] = [status |-> "processing", updatedAt |-> now]
  /\ \A p, q \in Request : \A e \in Event : Holds(p, e) /\ Holds(q, e) => p = q
  /\ \A q \in Request :
       request[q].pc = "reclaim" /\ request[q].seen \notin Reclaimable =>
         \/ row[request[q].event].status = "processing"
         \/ row[request[q].event].updatedAt = now

HoldInv == TypeOK /\ (~MayStall => HoldCore)

(* A step that writes no row and lets nobody begin to hold one.            *)
LEMMA HoldQuiet ==
  ASSUME TypeOK, HoldCore, UNCHANGED <<row, now>>,
         \A p \in Request :
           /\ request'[p].pc \in Holding =>
                request[p].pc \in Holding /\ request'[p].event = request[p].event
           /\ request'[p].pc \in Claiming => request'[p].asked = now
           /\ request'[p].pc = "reclaim" /\ request'[p].seen \notin Reclaimable =>
                \/ request'[p] = request[p]
                \/ row[request'[p].event].status = "processing"
  PROVE  HoldCore'
<1>1. \A p \in Request : \A e \in Event : Holds(p, e)' => Holds(p, e)
  BY DEF Holds
<1> QED  BY <1>1 DEF HoldCore

(* A step that writes the row of one event nobody else holds, now.         *)
LEMMA HoldWrite ==
  ASSUME TypeOK, HoldCore, NEW e \in Event, NEW status \in Status,
         Write(e, status, now), UNCHANGED now,
         NEW q,
         \A p \in Request :
           \/ request'[p] = request[p] /\ ~Holds(p, e)
           \/ /\ p = q
              /\ request'[p].pc \notin Claiming
              /\ request'[p].pc \in Holding =>
                   request'[p].event = e /\ status = "processing"
  PROVE  HoldCore'
<1>1. /\ row' = [row EXCEPT ![e] = [status |-> status, updatedAt |-> now]]
      /\ row \in [Event -> [status : Status, updatedAt : Nat]]
  BY DEF Write, TypeOK
<1>2. \A p \in Request : \A x \in Event : Holds(p, x)' =>
        \/ Holds(p, x) /\ x # e
        \/ p = q /\ x = e /\ status = "processing"
  BY DEF Holds
<1>4. \A p \in Request : request'[p].pc \in Claiming => request'[p].asked = now'
  BY DEF HoldCore
<1>5. \A p \in Request : \A x \in Event :
        Holds(p, x)' => row'[x] = [status |-> "processing", updatedAt |-> now']
  BY <1>1, <1>2 DEF HoldCore
<1>6. \A p, r \in Request : \A x \in Event : Holds(p, x)' /\ Holds(r, x)' => p = r
  BY <1>2 DEF HoldCore
<1>7. ASSUME NEW p \in Request, request'[p].pc = "reclaim",
             request'[p].seen \notin Reclaimable
      PROVE  \/ row'[request'[p].event].status = "processing"
             \/ row'[request'[p].event].updatedAt = now'
  <2>1. request'[p] = request[p] /\ request[p].event \in Event
    BY <1>7 DEF Claiming, TypeOK, RequestType, Holding, Working
  <2>2. CASE request[p].event = e
    BY <1>1, <2>1, <2>2
  <2>3. CASE request[p].event # e
    BY <1>1, <1>7, <2>1, <2>3 DEF HoldCore
  <2> QED  BY <2>2, <2>3
<1> QED  BY <1>4, <1>5, <1>6, <1>7 DEF HoldCore

LEMMA HoldClaim ==
  ASSUME TypeOK, HoldCore, NEW q \in Request, Claim(q)
  PROVE  HoldCore'
<1> DEFINE e == request[q].event
<1>1. /\ request[q] \in [pc : Claiming, event : Event, asked : Nat, seen : Status]
      /\ request[q].pc \in Claiming /\ request[q].pc \notin Holding
      /\ request[q].asked = now
  BY DEF Claim, ClaimInsert, ClaimRead, ClaimUpdate, TypeOK, RequestType, Claiming,
         Holding, Working, HoldCore
<1>2. UNCHANGED now
  BY DEF Claim, ClaimInsert, ClaimRead, ClaimUpdate, outside
<1>3. StaleAfter \in Nat /\ now \in Nat
  BY BoundAssumption DEF TypeOK
<1>4. ASSUME Write(e, "processing", now), Begin(q),
             row[e].status # "processing" \/ row[e].updatedAt # now
      PROVE  HoldCore'
  <2>1. \A p \in Request : ~Holds(p, e)
    BY <1>1, <1>4 DEF HoldCore
  <2>2. request'[q].pc = "handle" /\ request'[q].event = e
    BY <1>4 DEF Begin, TypeOK
  <2>3. \A p \in Request : p # q => request'[p] = request[p]
    BY <1>4 DEF Begin, TypeOK
  <2> QED  BY <1>1, <1>2, <1>4, <2>1, <2>2, <2>3, HoldWrite DEF Claiming, Status
<1>5. ASSUME UNCHANGED row, NEW new,
             request' = [request EXCEPT ![q] = new], new.pc \notin Holding,
             new.pc \in Claiming => new.asked = now,
             new.pc = "reclaim" /\ new.seen \notin Reclaimable =>
               row[new.event].status = "processing"
      PROVE  HoldCore'
  <2>1. request'[q] = new /\ \A p \in Request : p # q => request'[p] = request[p]
    BY <1>5 DEF TypeOK
  <2>2. \A p \in Request : request[p].pc \in Claiming => request[p].asked = now
    BY DEF HoldCore
  <2> QED  BY <1>2, <1>5, <2>1, <2>2, HoldQuiet
<1>6. ASSUME Answer(q, TRUE) \/ Answer(q, FALSE), UNCHANGED row
      PROVE  HoldCore'
  <2>1. Idle.pc \notin Holding \union Claiming /\ Idle.pc # "reclaim"
    BY DEF Idle, Holding, Working, Claiming
  <2> QED  BY <1>5, <1>6, <2>1 DEF Answer
<1>7. CASE ClaimInsert(q)
  <2>1. CASE row[e].status = "none"
    BY <1>1, <1>4, <1>7, <2>1 DEF ClaimInsert
  <2>2. CASE Goto(q, "read") /\ UNCHANGED row
    <3> DEFINE new == [request[q] EXCEPT !.pc = "read"]
    <3>1. /\ request' = [request EXCEPT ![q] = new]
          /\ new.pc = "read" /\ new.asked = now
      BY <1>1, <2>2 DEF Goto
    <3> HIDE DEF new
    <3> QED  BY <1>5, <2>2, <3>1 DEF Holding, Working
  <2> QED  BY <1>7, <2>1, <2>2 DEF ClaimInsert
<1>8. CASE ClaimRead(q)
  <2>1. UNCHANGED row
    BY <1>8 DEF ClaimRead, tables
  <2>2. CASE /\ CanRetry(e, request[q].asked)
             /\ request' = [request EXCEPT ![q] =
                  [@ EXCEPT !.pc = "reclaim", !.seen = row[e].status]]
    <3> DEFINE new == [request[q] EXCEPT !.pc = "reclaim", !.seen = row[e].status]
    <3>1. /\ request' = [request EXCEPT ![q] = new]
          /\ new.pc = "reclaim" /\ new.asked = now
          /\ new.seen = row[e].status /\ new.event = e
      BY <1>1, <2>2
    <3>2. new.seen \notin Reclaimable => row[e].status = "processing"
      BY <2>2, <3>1 DEF CanRetry
    <3> HIDE DEF new
    <3> QED  BY <1>5, <2>1, <3>1, <3>2 DEF Holding, Working
  <2> QED  BY <1>6, <1>8, <2>1, <2>2 DEF ClaimRead
<1>9. CASE ClaimUpdate(q)
  <2>1. CASE StillClaimable(q) /\ Write(e, "processing", request[q].asked) /\ Begin(q)
    <3>1. row[e] \in [status : Status, updatedAt : Nat]
      BY <1>1 DEF TypeOK
    <3>2. row[e].status # "processing" \/ row[e].updatedAt # now
      BY <1>1, <1>3, <2>1, <3>1 DEF StillClaimable, Stale, Reclaimable
    <3> QED  BY <1>1, <1>4, <2>1, <3>2
  <2> QED  BY <1>6, <1>9, <2>1 DEF ClaimUpdate
<1> QED  BY <1>7, <1>8, <1>9 DEF Claim

LEMMA HoldMark ==
  ASSUME TypeOK, HoldCore, NEW q \in Request, Mark(q)
  PROVE  HoldCore'
<1> DEFINE e == request[q].event
<1>1. /\ e \in Event /\ request[q].pc \in Holding
      /\ Answer(q, TRUE) \/ Answer(q, FALSE)
      /\ UNCHANGED now
  BY DEF Mark, MarkCompleted, MarkActionRequired, MarkFailed, TypeOK, RequestType,
         Holding, Working
<1>2. PICK status \in Status : Write(e, status, now)
  BY DEF Mark, MarkCompleted, MarkActionRequired, MarkFailed, Status, Closed, Reclaimable
<1>3. request'[q] = Idle /\ \A p \in Request : p # q => request'[p] = request[p]
  BY <1>1 DEF Answer, TypeOK
<1>4. \A p \in Request : p # q => ~Holds(p, e)
  BY <1>1 DEF HoldCore, Holds
<1>5. Idle.pc \notin Claiming \union Holding
  BY DEF Idle, Claiming, Holding, Working
<1> QED  BY <1>1, <1>2, <1>3, <1>4, <1>5, HoldWrite

LEMMA NextHold == HoldInv /\ [Next]_vars => HoldInv'
<1> SUFFICES ASSUME HoldInv, [Next]_vars, ~MayStall PROVE HoldCore'
  BY NextType DEF HoldInv
<1>0. TypeOK /\ HoldCore
  BY DEF HoldInv
<1>1. ASSUME NEW q \in Request, NEW new, request' = [request EXCEPT ![q] = new],
             UNCHANGED <<row, now>>,
             new.pc \in Holding => request[q].pc \in Holding /\ new.event = request[q].event,
             new.pc \in Claiming => new.asked = now /\ new.pc # "reclaim"
      PROVE  HoldCore'
  <2>1. request'[q] = new /\ \A p \in Request : p # q => request'[p] = request[p]
    BY <1>0, <1>1 DEF TypeOK
  <2>2. \A p \in Request : request[p].pc \in Claiming => request[p].asked = now
    BY <1>0 DEF HoldCore
  <2> QED  BY <1>0, <1>1, <2>1, <2>2, HoldQuiet DEF Claiming
<1>2. ASSUME NEW q \in Request, Handle(q) \/ SideEffect(q) \/ Throw(q)
      PROVE  HoldCore'
  <2>1. /\ UNCHANGED <<row, now>>
        /\ request[q].pc \in Working
        /\ \E pc \in Holding : Goto(q, pc)
    BY <1>2 DEF Handle, SideEffect, Throw, MarkOrderPaidWithGrant, AfterCheckout,
         AfterRenewal, RefuseSession, InsertRenewalOrderWithGrant, Park, HandleOther,
         AssessRefund, RewardReferrer, CancelReward, Enqueue, Holding, Working,
         tables, outside
  <2>2. PICK pc \in Holding : Goto(q, pc)
    BY <2>1
  <2> DEFINE new == [request[q] EXCEPT !.pc = pc]
  <2>3. /\ request' = [request EXCEPT ![q] = new]
        /\ new.pc = pc /\ new.event = request[q].event
    BY <1>0, <2>2 DEF Goto, TypeOK, RequestType
  <2> HIDE DEF new
  <2> QED  BY <1>1, <2>1, <2>3 DEF Holding, Working, Claiming
<1>3. ASSUME NEW q \in Request, Crash(q)
      PROVE  HoldCore'
  <2>1. Idle.pc \notin Claiming \union Holding
    BY DEF Idle, Claiming, Holding, Working
  <2> QED  BY <1>1, <1>3, <2>1 DEF Crash, tables
<1>4. ASSUME NEW q \in Request, NEW e \in Event, Deliver(q, e) \/ Resend(q, e)
      PROVE  HoldCore'
  <2> DEFINE new == [pc |-> "insert", event |-> e, asked |-> now, seen |-> "none"]
  <2>1. /\ request' = [request EXCEPT ![q] = new]
        /\ new.pc = "insert" /\ new.asked = now
        /\ UNCHANGED <<row, now>>
    BY <1>4 DEF Deliver, Resend, Receive, tables
  <2> HIDE DEF new
  <2> QED  BY <1>1, <2>1 DEF Holding, Working
<1>5. ASSUME NEW e \in Event, Resolve(e)
      PROVE  HoldCore'
  <2>1. \A p \in Request : ~Holds(p, e)
    BY <1>0, <1>5 DEF Resolve, Resolvable, HoldCore
  <2>2. UNCHANGED <<request, now>> /\ Write(e, "resolved", now)
    BY <1>5 DEF Resolve, outside
  <2> QED  BY <1>0, <2>1, <2>2, HoldWrite DEF Status, Closed
<1>6. CASE Tick
  <2>1. \A q \in Request : request[q].pc = "idle" /\ request'[q] = request[q]
    BY <1>6 DEF Tick
  <2> QED  BY <2>1 DEF HoldCore, Holds, Claiming, Holding, Working
<1>7. CASE (\E e \in Event : FixCause(e)) \/ UNCHANGED vars
  <2>1. UNCHANGED <<row, request, now>>
    BY <1>7 DEF FixCause, vars, tables, outside
  <2> QED  BY <1>0, <2>1 DEF HoldCore, Holds
<1> QED
  BY <1>0, <1>2, <1>3, <1>4, <1>5, <1>6, <1>7, HoldClaim, HoldMark DEF Next, Serve

LEMMA InitHold == Init => HoldInv
  BY InitType DEF Init, HoldInv, HoldCore, Holds, Idle, Claiming, Holding, Working

(* Where requests are stopped in time, the claim lets one request at a     *)
(* time handle an event, although no mark checks who holds the row.        *)
THEOREM AlwaysHandledByOne == Spec => []HandledByOne
<1>1. HoldInv => HandledByOne
  <2> SUFFICES ASSUME HoldInv, ~MayStall, NEW p \in Request, NEW q \in Request,
                      {request[p].pc, request[q].pc} \subseteq Holding,
                      request[p].event = request[q].event
               PROVE  p = q
    BY DEF HandledByOne
  <2>1. request[q].event \in Event
    BY DEF HoldInv, TypeOK, RequestType, Holding, Working
  <2> QED  BY <2>1 DEF HoldInv, HoldCore, Holds
<1> QED  BY <1>1, InitHold, NextHold, PTL DEF Spec

(* There, too, an event once completed or resolved is never written again. *)
THEOREM AlwaysClosedStays == Spec => ClosedStays
<1>1. ASSUME HoldInv, [Next]_vars, ~MayStall, NEW e \in Event, row[e].status \in Closed
      PROVE  row'[e] = row[e]
  <2>0. TypeOK /\ HoldCore
    BY <1>1 DEF HoldInv
  <2>1. ASSUME NEW x \in Event, NEW status, NEW time, Write(x, status, time), x # e
        PROVE  row'[e] = row[e]
    BY <2>0, <2>1 DEF Write, TypeOK
  <2>2. CASE UNCHANGED row
    BY <2>2
  <2>3. ASSUME NEW q \in Request, Claim(q)
        PROVE  row'[e] = row[e]
    <3> DEFINE x == request[q].event
    <3>1. /\ x \in Event /\ request[q].asked = now /\ request[q].pc \in Claiming
      BY <2>0, <2>3 DEF Claim, ClaimInsert, ClaimRead, ClaimUpdate, TypeOK, RequestType,
                        Claiming, Holding, Working, HoldCore
    <3>2. CASE ClaimInsert(q) /\ ~UNCHANGED row
      BY <1>1, <2>1, <3>1, <3>2 DEF ClaimInsert, Closed
    <3>3. CASE ClaimUpdate(q) /\ ~UNCHANGED row
      <4>1. StillClaimable(q) /\ Write(x, "processing", request[q].asked)
        BY <3>3 DEF ClaimUpdate
      <4>2. CASE request[q].seen \in Reclaimable
        BY <1>1, <2>1, <3>1, <4>1, <4>2 DEF StillClaimable, Closed, Reclaimable
      <4>3. CASE request[q].seen \notin Reclaimable
        <5>1. StaleAfter \in Nat /\ now \in Nat /\ row[x].updatedAt \in Nat
          BY <2>0, <3>1, BoundAssumption DEF TypeOK
        <5>2. row[x].updatedAt < now - StaleAfter
          BY <3>1, <4>1, <4>3 DEF StillClaimable, Stale
        <5>3. row[x].status = "processing"
          BY <2>0, <3>3, <4>3, <5>1, <5>2 DEF HoldCore, ClaimUpdate
        <5> QED  BY <1>1, <2>1, <3>1, <4>1, <5>3 DEF Closed
      <4> QED  BY <4>2, <4>3
    <3>4. ClaimRead(q) => UNCHANGED row
      BY DEF ClaimRead, tables
    <3> QED  BY <2>2, <2>3, <3>2, <3>3, <3>4 DEF Claim
  <2>4. ASSUME NEW q \in Request, Mark(q)
        PROVE  row'[e] = row[e]
    <3>1. /\ request[q].event \in Event /\ request[q].pc \in Holding
          /\ \E status \in Status : Write(request[q].event, status, now)
      BY <2>0, <2>4 DEF Mark, MarkCompleted, MarkActionRequired, MarkFailed, TypeOK,
                        RequestType, Holding, Working, Status, Closed, Reclaimable
    <3>2. row[request[q].event].status = "processing"
      BY <2>0, <3>1 DEF HoldCore, Holds
    <3> QED  BY <1>1, <2>1, <3>1, <3>2 DEF Closed
  <2>5. ASSUME NEW x \in Event, Resolve(x)
        PROVE  row'[e] = row[e]
    BY <1>1, <2>1, <2>5 DEF Resolve, Resolvable, Closed
  <2>6. ASSUME NEW q \in Request,
               \/ Handle(q) \/ SideEffect(q) \/ Throw(q) \/ Crash(q)
               \/ \E x \in Event : Deliver(q, x) \/ Resend(q, x)
        PROVE  UNCHANGED row
    BY <2>6 DEF Handle, SideEffect, Throw, Crash, MarkOrderPaidWithGrant, RefuseSession,
         InsertRenewalOrderWithGrant, Park, HandleOther, AssessRefund, RewardReferrer,
         CancelReward, Enqueue, Deliver, Resend, tables
  <2>7. Tick \/ (\E x \in Event : FixCause(x)) \/ UNCHANGED vars => UNCHANGED row
    BY DEF Tick, FixCause, vars, tables
  <2> QED  BY <1>1, <2>2, <2>3, <2>4, <2>5, <2>6, <2>7 DEF Next, Serve
<1>2. HoldInv /\ [Next]_vars =>
        (~MayStall => \A e \in Event : row[e].status \in Closed => row'[e] = row[e])
  BY <1>1
<1> QED  BY <1>2, InitHold, NextHold, PTL DEF Spec, ClosedStays

-----------------------------------------------------------------------------
(* Behind the endpoint: how the events of one subscription reach its row.  *)
(*                                                                         *)
(* SyncInv relates the three clocks of the sync: a handler knows a version *)
(* at least as new as its event, the row knows one that happened in the    *)
(* second of its stripe_event_at or later, and a completed event is not    *)
(* newer than that stripe_event_at.  Events may share a second.            *)

(* Stripe's seconds follow its changes; nothing is sent before it happened.*)
History ==
  /\ \A i, j \in 1..current : i < j => second[i] <= second[j]
  /\ \A i \in Change : event[i] # "none" => i <= current

(* What a request retrieved is not older than its event.                   *)
FreshRead ==
  \A q \in Handler :
    /\ handler[q].event <= current
    /\ handler[q].version <= current
    /\ handler[q].version # 0 => handler[q].event <= handler[q].version

(* The row holds a version that is not older than its stripe_event_at.     *)
RowCurrent ==
  /\ subscription.version <= current
  /\ subscription.version # 0 => subscription.at <= second[subscription.version]

DoneIsOld ==
  \A i \in Change \ Checkout :
    event[i] = "done" => subscription.version # 0 /\ second[i] <= subscription.at

SyncInv == SyncTypeOK /\ History /\ FreshRead /\ RowCurrent /\ DoneIsOld

(* A version older than a completed event is of the same second.           *)
LEMMA SyncInvGivesReflected == SyncInv => DoneIsReflected
<1> SUFFICES ASSUME SyncInv, NEW i \in Change \ Checkout, event[i] = "done"
             PROVE  /\ subscription.version # 0
                    /\ \/ subscription.version >= i
                       \/ second[subscription.version] = second[i]
  BY DEF DoneIsReflected
<1> USE SyncAssumption DEF SyncInv, SyncTypeOK, Change
<1>1. i \in 1..current /\ subscription.version \in 1..current /\ subscription.at \in Nat
  BY DEF History, RowCurrent, DoneIsOld, RowType
<1>2. second[i] <= subscription.at /\ subscription.at <= second[subscription.version]
  BY <1>1 DEF RowCurrent, DoneIsOld
<1>3. subscription.version < i => second[subscription.version] <= second[i]
  BY <1>1 DEF History
<1>4. second[i] \in Nat /\ second[subscription.version] \in Nat
  BY <1>1
<1> QED  BY <1>1, <1>2, <1>3, <1>4

LEMMA InitSync == SyncInit => SyncInv
  BY SyncAssumption DEF SyncInit, SyncInv, SyncTypeOK, History, FreshRead, RowCurrent,
       DoneIsOld,
     Change, RowType, MemoryType, Resting

(* Types, step by step.                                                    *)
LEMMA SyncTypeStep == SyncTypeOK /\ FreshRead /\ [SyncNext]_syncVars => SyncTypeOK'
<1> SUFFICES ASSUME SyncTypeOK, FreshRead, [SyncNext]_syncVars PROVE SyncTypeOK'
  OBVIOUS
<1> USE SyncAssumption DEF SyncTypeOK, Change, stripe
<1>1. CASE ChangeSubscription
  <2>1. LastSecond \in Nat
    BY DEF LastSecond
  <2> QED
    BY <1>1, <2>1 DEF ChangeSubscription
<1>2. CASE EraseAccount
  <2>1. subscription' \in RowType
    BY <1>2 DEF EraseAccount, RowType
  <2> QED
    BY <1>2, <2>1 DEF EraseAccount
<1>3. ASSUME NEW i \in Change, MapPrice(i) PROVE SyncTypeOK'
  BY <1>3 DEF MapPrice
<1>4. ASSUME NEW q \in Handler, NEW i \in Change, Take(q, i) PROVE SyncTypeOK'
  <2>1. handler' \in [Handler -> MemoryType]
    BY <1>4 DEF Take, MemoryType
  <2> QED
    BY <1>4, <2>1 DEF Take
<1>5. ASSUME NEW q \in Handler, Retrieve(q) PROVE SyncTypeOK'
  <2>1. handler[q].event \in Change /\ current \in Change
    BY <1>5 DEF Retrieve, MemoryType, Resting, FreshRead
  <2>2. handler' \in [Handler -> MemoryType]
    BY <1>5, <2>1 DEF Retrieve, MemoryType
  <2> QED
    BY <1>5, <2>2 DEF Retrieve
<1>6. ASSUME NEW q \in Handler, Find(q) PROVE SyncTypeOK'
  <2>1. AttributedUser \in {NoUser, Buyer, Erased}
    BY DEF AttributedUser, ResolvedUser, RowType
  <2>2. handler' \in [Handler -> MemoryType]
    BY <1>6, <2>1 DEF Find, MemoryType, Resting
  <2> QED
    BY <1>6, <2>2 DEF Find
<1>7. ASSUME NEW q \in Handler, Upsert(q) PROVE SyncTypeOK'
  <2>1. handler[q].event \in Change /\ handler' \in [Handler -> MemoryType]
    BY <1>7 DEF Upsert, Finish, MemoryType, Resting
  <2>2. subscription' \in RowType
    BY <1>7, <2>1 DEF Upsert, RowType, MemoryType, Resting, Attributable, StatusOf
  <2> QED
    BY <1>7, <2>1, <2>2 DEF Upsert, Finish
<1>8. ASSUME NEW q \in Handler, ReportUnmapped(q) PROVE SyncTypeOK'
  <2>1. handler[q].event \in Change /\ handler' \in [Handler -> MemoryType]
    BY <1>8 DEF ReportUnmapped, Finish, MemoryType, Resting
  <2> QED
    BY <1>8, <2>1 DEF ReportUnmapped, Finish
<1>9. ASSUME NEW q \in Handler, Fail(q) PROVE SyncTypeOK'
  <2>1. handler' \in [Handler -> MemoryType]
    BY <1>9 DEF Fail, Finish, MemoryType
  <2>2. event' \in [Change -> {"none", "sent", "done", "action_required"}]
    BY <1>9 DEF Fail, Finish
  <2> QED
    BY <1>9, <2>1, <2>2 DEF Fail
<1>10. CASE UNCHANGED syncVars
  BY <1>10 DEF syncVars
<1> QED
  BY <1>1, <1>2, <1>3, <1>4, <1>5, <1>6, <1>7, <1>8, <1>9, <1>10 DEF SyncNext, GoOn

(* The history part: a new change is not before any other.                 *)
LEMMA HistoryStep ==
  SyncTypeOK /\ History /\ FreshRead /\ [SyncNext]_syncVars => History'
<1> SUFFICES ASSUME SyncTypeOK, History, FreshRead, [SyncNext]_syncVars PROVE History'
  OBVIOUS
<1> USE SyncAssumption DEF SyncTypeOK, History, Change, stripe
<1>1. CASE ChangeSubscription
  <2>1. PICK t \in {LastSecond, LastSecond + 1} : second' = [second EXCEPT ![current + 1] = t]
    BY <1>1 DEF ChangeSubscription
  <2>2. \A i \in 1..current : second[i] <= t
    BY <2>1 DEF LastSecond
  <2> QED
    BY <1>1, <2>1, <2>2 DEF ChangeSubscription, LastSecond
<1>2. ASSUME NEW q \in Handler, \/ Upsert(q) \/ ReportUnmapped(q) \/ Fail(q)
      PROVE  History'
  BY <1>2 DEF Upsert, ReportUnmapped, Fail, Finish, FreshRead
<1>3. CASE UNCHANGED <<current, second, event>>
  BY <1>3
<1>4. ASSUME NEW q \in Handler, \/ Retrieve(q) \/ Find(q) \/ \E i \in Change : Take(q, i)
      PROVE  History'
  BY <1>4 DEF Retrieve, Find, Take
<1> QED
  BY <1>1, <1>2, <1>3, <1>4 DEF SyncNext, GoOn, EraseAccount, MapPrice, syncVars

LEMMA FreshReadStep == SyncTypeOK /\ History /\ FreshRead /\ [SyncNext]_syncVars => FreshRead'
<1> SUFFICES ASSUME SyncTypeOK, History, FreshRead, [SyncNext]_syncVars PROVE FreshRead'
  OBVIOUS
<1> USE SyncAssumption DEF SyncTypeOK, FreshRead, Change, stripe
<1>1. CASE ChangeSubscription
  BY <1>1 DEF ChangeSubscription, MemoryType, Resting
<1>2. ASSUME NEW q \in Handler, NEW i \in Change, Take(q, i) PROVE FreshRead'
  BY <1>2 DEF Take, History
<1>3. ASSUME NEW q \in Handler, Retrieve(q) PROVE FreshRead'
  BY <1>3 DEF Retrieve
<1>4. ASSUME NEW q \in Handler, Find(q) PROVE FreshRead'
  BY <1>4 DEF Find
<1>5. ASSUME NEW q \in Handler, \/ Upsert(q) \/ ReportUnmapped(q) \/ Fail(q)
      PROVE  FreshRead'
  <2>1. current' = current /\ 0 <= current
    BY <1>5 DEF Upsert, ReportUnmapped, Fail
  <2>2. handler' = [handler EXCEPT ![q] = Resting] \/ handler' = handler
    BY <1>5 DEF Upsert, ReportUnmapped, Fail, Finish
  <2>3. ASSUME NEW p \in Handler
        PROVE  handler'[p] = handler[p] \/ handler'[p] = Resting
    BY <2>2
  <2>4. Resting.event = 0 /\ Resting.version = 0
    BY DEF Resting
  <2> QED
    BY <2>1, <2>3, <2>4
<1>6. CASE UNCHANGED <<current, handler>>
  BY <1>6
<1> QED
  BY <1>1, <1>2, <1>3, <1>4, <1>5, <1>6 DEF SyncNext, GoOn, EraseAccount, MapPrice, syncVars

(* An upsert that passes setWhere stores its event's second with a version *)
(* of that second or later; one that does not leaves a newer row.          *)
LEMMA RowStep ==
  SyncInv /\ [SyncNext]_syncVars => RowCurrent' /\ DoneIsOld'
<1> SUFFICES ASSUME SyncInv, [SyncNext]_syncVars PROVE RowCurrent' /\ DoneIsOld'
  OBVIOUS
<1> USE SyncAssumption DEF SyncInv, SyncTypeOK, RowCurrent, DoneIsOld, Change, stripe
<1>1. CASE ChangeSubscription
  <2>1. \A i \in 1..current : second'[i] = second[i]
    BY <1>1 DEF ChangeSubscription
  <2>2. subscription.version # 0 => subscription.version \in 1..current
    BY DEF RowType
  <2>3. \A i \in Change : event'[i] = "done" => i \in 1..current /\ event[i] = "done"
    BY <1>1 DEF ChangeSubscription, History
  <2>4. RowCurrent'
    BY <1>1, <2>1, <2>2 DEF ChangeSubscription, RowType
  <2> QED
    BY <1>1, <2>1, <2>3, <2>4 DEF ChangeSubscription
<1>2. ASSUME NEW q \in Handler, Upsert(q) PROVE RowCurrent' /\ DoneIsOld'
  <2> DEFINE i == handler[q].event
             v == handler[q].version
  <2>1. i \in 1..current /\ v \in 1..current /\ i <= v
    BY <1>2 DEF Upsert, MemoryType, Resting, FreshRead
  <2>2. event' = [event EXCEPT ![i] = "done"]
    BY <1>2 DEF Upsert, Finish
  <2>3. i < v => second[i] <= second[v]
    BY <2>1 DEF History
  <2>4. second[i] \in Nat /\ second[i] <= second[v]
    BY <2>1, <2>3
  <2>5. CASE NotOlder(i)
    <3>1. subscription'.version = v /\ subscription'.at = second[i]
      BY <1>2, <2>5 DEF Upsert
    <3>2. RowCurrent'
      BY <1>2, <2>1, <2>4, <3>1 DEF Upsert
    <3>3. DoneIsOld'
      <4>1. second' = second /\ v # 0 /\ second[i] \in Nat
        BY <1>2, <2>1 DEF Upsert
      <4>2. subscription.version # 0 => subscription.at <= second[i] /\ subscription.at \in Nat
        BY <2>5 DEF NotOlder, RowType
      <4>3. ASSUME NEW j \in Change \ Checkout, event[j] = "done"
            PROVE  second[j] <= second[i]
        BY <4>1, <4>2, <4>3
      <4> QED
        BY <2>1, <2>2, <3>1, <4>1, <4>3
    <3> QED
      BY <3>2, <3>3
  <2>6. CASE ~NotOlder(i)
    <3>1. subscription' = subscription
          /\ subscription.version # 0 /\ second[i] <= subscription.at
      BY <1>2, <2>1, <2>6 DEF Upsert, NotOlder, RowType
    <3> QED
      BY <1>2, <2>1, <2>2, <3>1 DEF Upsert
  <2> QED
    BY <2>5, <2>6
<1>3. ASSUME NEW q \in Handler, ReportUnmapped(q) \/ Fail(q)
      PROVE  RowCurrent' /\ DoneIsOld'
  BY <1>3 DEF ReportUnmapped, Fail, Finish
<1>4. CASE EraseAccount
  <2>1. subscription'.version = subscription.version /\ subscription'.at = subscription.at
    BY <1>4 DEF EraseAccount, RowType
  <2> QED
    BY <1>4, <2>1 DEF EraseAccount
<1>5. CASE UNCHANGED <<current, second, event, subscription>>
  BY <1>5
<1>6. ASSUME NEW q \in Handler, \/ Retrieve(q) \/ Find(q) \/ \E i \in Change : Take(q, i)
      PROVE  RowCurrent' /\ DoneIsOld'
  BY <1>6 DEF Retrieve, Find, Take
<1> QED
  BY <1>1, <1>2, <1>3, <1>4, <1>5, <1>6 DEF SyncNext, GoOn, MapPrice, syncVars

-----------------------------------------------------------------------------

(* The invariant of the sync holds for any number of changes, requests and *)
(* failed requests, whether or not Stripe's seconds tell its events apart. *)
THEOREM AlwaysSyncInv == SyncSpec => []SyncInv
<1>1. SyncInv /\ [SyncNext]_syncVars => SyncInv'
  BY SyncTypeStep, HistoryStep, FreshReadStep, RowStep DEF SyncInv
<1> QED
  BY InitSync, <1>1, PTL DEF SyncSpec

(* However handlers interleave, crash and are delivered again, a completed *)
(* lifecycle event is reflected in the row, to the second that the setWhere*)
(* of upsertStripeSubscription compares.                                   *)
THEOREM AlwaysDoneIsReflected == SyncSpec => []DoneIsReflected
  BY AlwaysSyncInv, SyncInvGivesReflected, PTL
=============================================================================
