------------------------- MODULE ReservationsProofs -------------------------
(***************************************************************************)
(* Proofs about Reservations for any number of requests and intents, any   *)
(* slots, and any length of the hold and of Stripe's minimum.              *)
(*                                                                         *)
(* NoOverlap is nearly inductive by itself: only a claim makes a row       *)
(* active, after it found no conflict.  PaidHasSlot rests on a chain: a    *)
(* customer pays on a page that was shown, a page is shown after its       *)
(* session was stored, and a slot whose session is stored is released      *)
(* only when Stripe has closed that session.                               *)
(***************************************************************************)
EXTENDS Reservations, TLAPS

(* What a request's place in the code tells it. *)
RequestsKnow ==
  \A q \in Request :
    LET i == request[q].intent IN
    /\ request[q].pc \in Resuming \union Opening => row[i].status # "absent"
    /\ request[q].pc = "retrieve" => row[i].stored # "no"
    /\ request[q].pc = "release" => session[i] = "expired"

ShownIsStored == \A i \in shown : row[i].stored # "no"

PaidWasShown == \A i \in Intent : session[i] = "complete" => i \in shown

HeldReleasedClosed ==
  \A i \in Intent :
    row[i].status = "expired" /\ row[i].stored = "held" => session[i] = "expired"

SlotInv ==
  /\ TypeOK
  /\ NoOverlap
  /\ RequestsKnow
  /\ ShownIsStored
  /\ PaidWasShown
  /\ HeldReleasedClosed

LEMMA SlotInvGivesPaid == SlotInv => PaidHasSlot
  BY DEF SlotInv, TypeOK, RowType, ShownIsStored, PaidWasShown, HeldReleasedClosed,
     PaidHasSlot, Active

LEMMA InitSlotInv == Init => SlotInv
  BY SlotAssumption DEF Init, SlotInv, TypeOK, NoOverlap, RequestsKnow, ShownIsStored,
     PaidWasShown, HeldReleasedClosed, RowType, RequestType, Idle, Active, Resuming, Opening

(* A request that stops knows nothing. *)
LEMMA LeaveType ==
  ASSUME TypeOK, NEW q \in Request, Leave(q)
  PROVE  request' \in [Request -> RequestType]
BY DEF TypeOK, Leave, RequestType

LEMMA GoToType ==
  ASSUME TypeOK, NEW q \in Request, NEW pc \in Resuming \union Opening, GoTo(q, pc),
         request[q].pc \in Resuming \union Opening
  PROVE  request' \in [Request -> RequestType]
<1>1. request[q] \in
        [pc : Resuming \union Opening, intent : Intent, terms : Terms, asked : Nat, hold : Nat]
  BY DEF TypeOK, RequestType, Idle, Resuming, Opening
<1>2. [request[q] EXCEPT !.pc = pc] \in RequestType
  BY <1>1 DEF RequestType
<1> QED
  BY <1>2 DEF TypeOK, GoTo

(* Releasing elapsed holds keeps every invariant. *)
LEMMA ExpireReleasableKeeps ==
  ASSUME SlotInv, NEW t \in Nat, NEW i \in Intent
  PROVE  /\ ExpireReleasable(t)[i] \in RowType
         /\ ExpireReleasable(t)[i].terms = row[i].terms
         /\ ExpireReleasable(t)[i].stored = row[i].stored
         /\ ExpireReleasable(t)[i].status = row[i].status
              \/ /\ Releasable(i, t)
                 /\ ExpireReleasable(t)[i].status = "expired"
BY DEF SlotInv, TypeOK, RowType, ExpireReleasable, Releasable

LEMMA TypeStep == SlotInv /\ [Next]_vars => TypeOK'
<1> SUFFICES ASSUME SlotInv, [Next]_vars PROVE TypeOK'
  OBVIOUS
<1> USE SlotAssumption DEF SlotInv
<1>0. TypeOK
  OBVIOUS
<1>1. ASSUME NEW q \in Request, NEW i \in Intent, NEW t \in Terms, Ask(q, i, t) PROVE TypeOK'
  <2>1. [pc |-> "claim", intent |-> i, terms |-> t, asked |-> now, hold |-> None] \in RequestType
    BY DEF TypeOK, RequestType
  <2> QED
    BY <1>1, <2>1 DEF Ask, TypeOK
<1>2. ASSUME NEW q \in Request, ClaimReused(q) PROVE TypeOK'
  <2>1. request[q] \in [pc : {"claim"}, intent : Intent, terms : Terms, asked : Nat, hold : {None}]
    BY <1>2 DEF ClaimReused, TypeOK, RequestType, Idle, Resuming, Opening
  <2> DEFINE i == request[q].intent
  <2>2. CASE row[i].status = "pending" /\ row[i].terms = request[q].terms
    <3>1. row[i].hold \in Nat
      BY <2>1, <2>2 DEF TypeOK, RowType
    <3> DEFINE next == [request[q] EXCEPT
                          !.pc = IF row[i].stored = "no" THEN "open" ELSE "retrieve",
                          !.hold = row[i].hold]
    <3>2. next \in RequestType
      BY <2>1, <3>1 DEF RequestType, Resuming, Opening
    <3>3. request' = [request EXCEPT ![q] = next]
      BY <1>2, <2>2 DEF ClaimReused
    <3> QED
      BY <1>2, <3>2, <3>3 DEF ClaimReused, TypeOK
  <2>3. CASE ~(row[i].status = "pending" /\ row[i].terms = request[q].terms)
    BY <1>2, <2>3, LeaveType DEF ClaimReused, TypeOK
  <2> QED
    BY <2>2, <2>3
<1>3. ASSUME NEW q \in Request, ClaimNew(q) PROVE TypeOK'
  <2> DEFINE i == request[q].intent
             t == request[q].terms
             a == request[q].asked
  <2>1. request[q] \in [pc : {"claim"}, intent : Intent, terms : Terms, asked : Nat, hold : {None}]
    BY <1>3 DEF ClaimNew, TypeOK, RequestType, Idle, Resuming, Opening
  <2>2. ExpireReleasable(a) \in [Intent -> RowType]
    BY <2>1, ExpireReleasableKeeps DEF ExpireReleasable
  <2>3. CASE Conflicts(t, a) # {}
    BY <1>3, <2>2, <2>3, LeaveType DEF ClaimNew, TypeOK
  <2>4. CASE Conflicts(t, a) = {}
    <3>1. [status |-> "pending", terms |-> t, hold |-> a + Hold, stored |-> "no"] \in RowType
      BY <2>1 DEF RowType
    <3>2. [request[q] EXCEPT !.pc = "open", !.hold = a + Hold] \in RequestType
      <4>1. "open" \in Resuming \union Opening /\ a + Hold \in Nat
        BY <2>1 DEF Opening
      <4> QED
        BY <2>1, <4>1 DEF RequestType
    <3>3. /\ row' = [ExpireReleasable(a) EXCEPT ![i] =
               [status |-> "pending", terms |-> t, hold |-> a + Hold, stored |-> "no"]]
          /\ request' = [request EXCEPT ![q] = [request[q] EXCEPT !.pc = "open", !.hold = a + Hold]]
          /\ UNCHANGED <<session, shown, parked, now>>
      BY <1>3, <2>4 DEF ClaimNew
    <3> QED
      BY <2>1, <2>2, <3>1, <3>2, <3>3 DEF TypeOK
  <2> QED
    BY <2>3, <2>4
<1>4. ASSUME NEW q \in Request, GiveUp(q) PROVE TypeOK'
  <2>1. \A i \in Intent, t \in Nat : Releasable(i, t) =>
          [row[i] EXCEPT !.status = "expired"] \in RowType
    BY DEF TypeOK, RowType, Releasable
  <2>2. request[q].intent \in Intent /\ request[q].asked..now \subseteq Nat
    BY <1>4 DEF GiveUp, TypeOK, RequestType, Idle
  <2>3. row' \in [Intent -> RowType]
    BY <1>4, <2>1, <2>2 DEF GiveUp, TypeOK
  <2> QED
    BY <1>4, <2>3, LeaveType DEF GiveUp, TypeOK
<1>5. ASSUME NEW q \in Request, Proceed(q) \/ Create(q) \/ Retrieve(q) \/ Close(q) PROVE TypeOK'
  <2>1. request' \in [Request -> RequestType]
    BY <1>5, LeaveType, GoToType DEF Proceed, Create, Retrieve, Close, Resuming, Opening
  <2>2. request[q].pc # "idle" => request[q].intent \in Intent
    BY DEF TypeOK, RequestType, Idle
  <2> QED
    BY <1>5, <2>1, <2>2 DEF Proceed, Create, Retrieve, Close, TypeOK
<1>6. ASSUME NEW q \in Request, Store(q) PROVE TypeOK'
  <2> DEFINE i == request[q].intent
  <2>1. i \in Intent /\ row[i].status # "absent"
    BY <1>6 DEF Store, TypeOK, RequestType, RequestsKnow, Idle, Opening, Resuming
  <2>2. [row[i] EXCEPT !.stored = Stored(i)] \in RowType
    BY <2>1 DEF TypeOK, RowType, Stored, Active
  <2> QED
    BY <1>6, <2>1, <2>2, LeaveType DEF Store, TypeOK
<1>7. ASSUME NEW i \in Intent, ReleaseFor(i) PROVE row' \in [Intent -> RowType]
  <2>1. row[i].status = "pending" =>
          [row[i] EXCEPT !.status = "expired", !.stored = "held"] \in RowType
    BY DEF TypeOK, RowType
  <2> QED
    BY <1>7, <2>1 DEF ReleaseFor, TypeOK
<1>8. ASSUME NEW q \in Request, Release(q) PROVE TypeOK'
  <2>1. request[q].intent \in Intent
    BY <1>8 DEF Release, TypeOK, RequestType, Idle
  <2> QED
    BY <1>7, <1>8, <2>1, LeaveType DEF Release, TypeOK
<1>9. ASSUME NEW q \in Request, Crash(q) PROVE TypeOK'
  BY <1>9, LeaveType DEF Crash, TypeOK
<1>10. ASSUME NEW i \in Intent, HandleCompleted(i) PROVE TypeOK'
  <2>1. Active(i) =>
          [row[i] EXCEPT !.status = "confirmed", !.hold = None, !.stored = "held"] \in RowType
    BY DEF TypeOK, RowType, Active
  <2> QED
    BY <1>10, <2>1 DEF HandleCompleted, TypeOK
<1>11. ASSUME NEW i \in Intent, HandleExpired(i) \/ Pay(i) \/ Elapse(i) PROVE TypeOK'
  BY <1>7, <1>11 DEF HandleExpired, Pay, Elapse, TypeOK
<1>12. CASE CheckAvailability
  <2>1. PICK t \in Nat : row' = ExpireReleasable(t)
    BY <1>12 DEF CheckAvailability, TypeOK
  <2>2. row' \in [Intent -> RowType]
    BY <2>1, ExpireReleasableKeeps DEF ExpireReleasable
  <2> QED
    BY <1>12, <2>2 DEF CheckAvailability, TypeOK
<1>13. CASE Tick
  BY <1>13 DEF Tick, TypeOK
<1>14. CASE UNCHANGED vars
  BY <1>14 DEF vars, TypeOK
<1> QED
  BY <1>1, <1>2, <1>3, <1>4, <1>5, <1>6, <1>8, <1>9, <1>10, <1>11, <1>12, <1>13, <1>14
  DEF Next, Step

(* How one row may change in a step. *)
RowMoves(i) ==
  \/ row'[i] = row[i]
  \/ /\ row[i].status = "absent"
     /\ row'[i].status = "pending"
     /\ row'[i].stored = "no"
  \/ /\ row[i].status # "absent" /\ row'[i].status # "absent"
     /\ row'[i].terms = row[i].terms
     /\ Active(i)' => Active(i)
     /\ row'[i].stored = "no" => row[i].stored = "no"
     /\ row'[i].status = "expired" /\ row'[i].stored = "held" => session[i] = "expired"

LEMMA ReleaseMoves ==
  ASSUME SlotInv, NEW t \in Nat, NEW i \in Intent, row'[i] = ExpireReleasable(t)[i]
  PROVE  RowMoves(i)
<1>1. CASE Releasable(i, t) /\ ExpireReleasable(t)[i].status = "expired"
  BY <1>1, ExpireReleasableKeeps DEF RowMoves, Releasable, Active
<1>2. CASE ~Releasable(i, t)
  BY <1>2 DEF ExpireReleasable, RowMoves
<1> QED
  BY <1>1, <1>2 DEF ExpireReleasable, SlotInv, TypeOK, RowType, Releasable

LEMMA RowsMove ==
  ASSUME SlotInv, [Next]_vars, NEW i \in Intent
  PROVE  RowMoves(i)
<1> USE DEF SlotInv
<1>0. TypeOK
  OBVIOUS
<1>1. CASE UNCHANGED row
  BY <1>1 DEF RowMoves
<1>2. ASSUME NEW q \in Request, ClaimNew(q) PROVE RowMoves(i)
  <2> DEFINE j == request[q].intent
             a == request[q].asked
  <2>1. j \in Intent /\ a \in Nat /\ row[j].status = "absent"
    BY <1>2 DEF ClaimNew, TypeOK, RequestType, Idle
  <2>2. ExpireReleasable(a) \in [Intent -> RowType]
    BY <2>1, ExpireReleasableKeeps DEF ExpireReleasable
  <2>3. CASE row'[i] = ExpireReleasable(a)[i]
    BY <2>1, <2>3, ReleaseMoves
  <2>4. CASE i = j /\ row'[i].status = "pending" /\ row'[i].stored = "no"
    BY <2>1, <2>4 DEF RowMoves
  <2> QED
    BY <1>2, <2>1, <2>2, <2>3, <2>4 DEF ClaimNew
<1>3. ASSUME NEW q \in Request, GiveUp(q) PROVE RowMoves(i)
  BY <1>3 DEF GiveUp, RowMoves, Releasable, Active, TypeOK, RequestType, Idle
<1>4. ASSUME NEW q \in Request, Store(q) PROVE RowMoves(i)
  <2> DEFINE j == request[q].intent
  <2>1. j \in Intent /\ row[j].status # "absent"
    BY <1>4 DEF Store, TypeOK, RequestType, RequestsKnow, Idle, Opening, Resuming
  <2>2. row' = [row EXCEPT ![j].stored = Stored(j)]
    BY <1>4 DEF Store
  <2>3. CASE i # j
    BY <2>2, <2>3 DEF TypeOK, RowMoves
  <2>4. CASE i = j
    <3>1. row[i] \in RowType
      BY DEF TypeOK
    <3>2. /\ row'[i].status = row[i].status /\ row'[i].terms = row[i].terms
          /\ row'[i].stored = Stored(i)
      BY <2>2, <2>4, <3>1 DEF TypeOK, RowType
    <3>3. Stored(i) # "no" /\ (Stored(i) = "held" => Active(i) \/ row[i].stored = "held")
      BY <3>1 DEF Stored, RowType
    <3> QED
      BY <2>1, <2>4, <3>2, <3>3 DEF RowMoves, Active, HeldReleasedClosed
  <2> QED
    BY <2>3, <2>4
<1>5. ASSUME NEW j \in Intent, ReleaseFor(j), session[j] = "expired" PROVE RowMoves(i)
  BY <1>5 DEF ReleaseFor, RowMoves, Active, TypeOK, RowType
<1>6. ASSUME NEW q \in Request, Release(q) PROVE RowMoves(i)
  <2>1. request[q].intent \in Intent /\ session[request[q].intent] = "expired"
    BY <1>6 DEF Release, RequestsKnow, TypeOK, RequestType, Idle
  <2> QED
    BY <1>5, <1>6, <2>1 DEF Release
<1>7. ASSUME NEW j \in Intent, HandleCompleted(j) PROVE RowMoves(i)
  <2>1. CASE ~Active(j)
    BY <1>7, <2>1 DEF HandleCompleted, RowMoves
  <2>2. CASE Active(j)
    <3>1. row' = [row EXCEPT ![j] =
            [row[j] EXCEPT !.status = "confirmed", !.hold = None, !.stored = "held"]]
      BY <1>7, <2>2 DEF HandleCompleted
    <3>2. i = j => /\ row'[i].status = "confirmed" /\ row'[i].stored = "held"
                   /\ row'[i].terms = row[i].terms
      BY <3>1 DEF TypeOK, RowType
    <3>3. i # j => row'[i] = row[i]
      BY <3>1 DEF TypeOK
    <3> QED
      BY <2>2, <3>2, <3>3 DEF RowMoves, Active
  <2> QED
    BY <2>1, <2>2
<1>8. ASSUME NEW j \in Intent, HandleExpired(j) PROVE RowMoves(i)
  BY <1>5, <1>8 DEF HandleExpired
<1>9. CASE CheckAvailability
  <2>1. PICK t \in Nat : row' = ExpireReleasable(t)
    BY <1>9 DEF CheckAvailability, TypeOK
  <2> QED
    BY <2>1, ReleaseMoves
<1> QED
  BY <1>1, <1>2, <1>3, <1>4, <1>6, <1>7, <1>8, <1>9
  DEF Next, Step, vars, Ask, ClaimReused, Proceed, Create, Retrieve, Close, Crash,
      Pay, Elapse, Tick

(* A closed session stays closed; a session is paid on a page shown.       *)
LEMMA SessionsMove ==
  ASSUME SlotInv, [Next]_vars, NEW i \in Intent
  PROVE  /\ session[i] = "expired" => session'[i] = "expired"
         /\ session'[i] = "complete" => session[i] = "complete" \/ i \in shown
<1> USE DEF SlotInv, TypeOK
<1>1. CASE UNCHANGED session
  BY <1>1
<1>2. ASSUME NEW q \in Request, Create(q) \/ Close(q)
      PROVE  /\ session[i] = "expired" => session'[i] = "expired"
             /\ session'[i] = "complete" => session[i] = "complete"
  BY <1>2 DEF Create, Close
<1>3. ASSUME NEW j \in Intent, Pay(j) \/ Elapse(j)
      PROVE  /\ session[i] = "expired" => session'[i] = "expired"
             /\ session'[i] = "complete" => session[i] = "complete" \/ i \in shown
  BY <1>3 DEF Pay, Elapse
<1> QED
  BY <1>1, <1>2, <1>3
  DEF Next, Step, vars, Ask, ClaimReused, ClaimNew, GiveUp, Proceed, Store, Retrieve,
      Release, Crash, HandleCompleted, HandleExpired, CheckAvailability, Tick

LEMMA RequestsStep == SlotInv /\ [Next]_vars => RequestsKnow'
<1> SUFFICES ASSUME SlotInv, [Next]_vars, NEW q \in Request
             PROVE  LET i == request'[q].intent IN
                    /\ request'[q].pc \in Resuming \union Opening => row'[i].status # "absent"
                    /\ request'[q].pc = "retrieve" => row'[i].stored # "no"
                    /\ request'[q].pc = "release" => session'[i] = "expired"
  BY DEF RequestsKnow
<1> USE DEF SlotInv
<1> DEFINE i == request[q].intent
<1>0. TypeOK /\ request[q] \in RequestType
  BY DEF TypeOK
<1>1. request[q].pc # "idle" => i \in Intent
  BY <1>0 DEF RequestType, Idle
<1>2. CASE request'[q] = request[q]
  <2>1. request[q].pc \in Resuming \union Opening =>
          /\ row'[i].status # "absent"
          /\ row[i].stored # "no" => row'[i].stored # "no"
          /\ session[i] = "expired" => session'[i] = "expired"
    BY <1>1, RowsMove, SessionsMove DEF RequestsKnow, RowMoves, Resuming, Opening
  <2> QED
    BY <1>2, <2>1 DEF RequestsKnow, Resuming, Opening
<1>3. CASE request'[q].pc \in {"idle", "claim"}
  BY <1>3 DEF Resuming, Opening
<1>4. CASE ClaimReused(q)
  <2>1. request[q] \in [pc : {"claim"}, intent : Intent, terms : Terms, asked : Nat, hold : {None}]
    BY <1>0, <1>4 DEF ClaimReused, RequestType, Idle, Resuming, Opening
  <2>2. row' = row /\ row[i].status # "absent"
    BY <1>4 DEF ClaimReused
  <2>3. CASE row[i].status = "pending" /\ row[i].terms = request[q].terms
    <3>1. /\ request'[q].intent = i
          /\ request'[q].pc = IF row[i].stored = "no" THEN "open" ELSE "retrieve"
      BY <1>0, <1>4, <2>1, <2>3 DEF ClaimReused, TypeOK
    <3> QED
      BY <2>2, <3>1
  <2>4. CASE ~(row[i].status = "pending" /\ row[i].terms = request[q].terms)
    BY <1>0, <1>3, <1>4, <2>4 DEF ClaimReused, Leave, Idle, TypeOK
  <2> QED
    BY <2>3, <2>4
<1>5. CASE ClaimNew(q)
  <2>1. request[q] \in [pc : {"claim"}, intent : Intent, terms : Terms, asked : Nat, hold : {None}]
    BY <1>0, <1>5 DEF ClaimNew, RequestType, Idle, Resuming, Opening
  <2>2. CASE Conflicts(request[q].terms, request[q].asked) # {}
    BY <1>0, <1>3, <1>5, <2>2 DEF ClaimNew, Leave, Idle, TypeOK
  <2>3. CASE Conflicts(request[q].terms, request[q].asked) = {}
    <3>1. request'[q].intent = i /\ request'[q].pc = "open"
      BY <1>0, <1>5, <2>1, <2>3 DEF ClaimNew, TypeOK
    <3>2. row'[i].status = "pending"
      BY <1>5, <2>1, <2>3 DEF ClaimNew, ExpireReleasable
    <3> QED
      BY <3>1, <3>2
  <2> QED
    BY <2>2, <2>3
<1>6. CASE Proceed(q) \/ Create(q) \/ Retrieve(q) \/ Close(q)
  <2>1. CASE request'[q] = Idle
    BY <1>3, <2>1 DEF Idle
  <2>2. ASSUME request'[q] # Idle
        PROVE  /\ request'[q].intent = i /\ row' = row
               /\ request[q].pc \in Resuming \union Opening
               /\ request'[q].pc \in {"create", "store", "close", "release"}
               /\ request'[q].pc = "release" => session'[i] = "expired"
    <3>1. CASE Proceed(q)
      BY <1>0, <3>1 DEF Proceed, GoTo, TypeOK, RequestType, Idle, Opening
    <3>2. CASE Create(q)
      BY <1>0, <2>2, <3>2 DEF Create, GoTo, Leave, TypeOK, RequestType, Idle, Opening
    <3>3. CASE Retrieve(q)
      BY <1>0, <2>2, <3>3 DEF Retrieve, GoTo, Leave, TypeOK, RequestType, Idle, Resuming
    <3>4. CASE Close(q)
      BY <1>0, <1>1, <2>2, <3>4 DEF Close, GoTo, Leave, TypeOK, RequestType, Idle, Resuming
    <3> QED
      BY <1>6, <3>1, <3>2, <3>3, <3>4
  <2> QED
    BY <2>1, <2>2 DEF RequestsKnow
<1>7. CASE GiveUp(q) \/ Store(q) \/ Release(q) \/ Crash(q)
  <2>1. request'[q] = Idle
    BY <1>0, <1>7 DEF GiveUp, Store, Release, Crash, Leave, TypeOK
  <2> QED
    BY <1>3, <2>1 DEF Idle
<1>8. ASSUME NEW j \in Intent, NEW t \in Terms, Ask(q, j, t)
      PROVE  request'[q].pc = "claim"
  BY <1>0, <1>8 DEF Ask, TypeOK
<1>9. ASSUME NEW p \in Request, p # q, Step(p) PROVE request'[q] = request[q]
  BY <1>0, <1>9 DEF Step, Ask, ClaimReused, ClaimNew, GiveUp, Proceed, Create, Store,
     Retrieve, Close, Release, Crash, Leave, GoTo, TypeOK
<1> QED
  BY <1>2, <1>3, <1>4, <1>5, <1>6, <1>7, <1>8, <1>9
  DEF Next, Step, vars, HandleCompleted, HandleExpired, Pay, Elapse, CheckAvailability, Tick

LEMMA ShownStep == SlotInv /\ [Next]_vars => ShownIsStored'
<1> SUFFICES ASSUME SlotInv, [Next]_vars, NEW i \in shown' PROVE row'[i].stored # "no"
  BY DEF ShownIsStored
<1> USE DEF SlotInv
<1>0. TypeOK
  OBVIOUS
<1>1. CASE i \in shown
  BY <1>0, <1>1, RowsMove DEF ShownIsStored, RowMoves, TypeOK, RowType
<1>2. ASSUME i \notin shown, NEW q \in Request, Store(q) PROVE row'[i].stored # "no"
  <2>1. i = request[q].intent /\ i \in Intent
    BY <1>0, <1>2 DEF Store, TypeOK, RequestType, Idle
  <2>2. Stored(i) # "no"
    BY DEF Stored
  <2> QED
    BY <1>0, <1>2, <2>1, <2>2 DEF Store, TypeOK, RowType
<1>3. ASSUME i \notin shown, NEW q \in Request, Retrieve(q) PROVE row'[i].stored # "no"
  BY <1>3 DEF Retrieve, RequestsKnow
<1> QED
  BY <1>1, <1>2, <1>3
  DEF Next, Step, vars, Ask, ClaimReused, ClaimNew, GiveUp, Proceed, Create, Close, Release,
      Crash, HandleCompleted, HandleExpired, Pay, Elapse, CheckAvailability, Tick

LEMMA PaidStep == SlotInv /\ [Next]_vars => PaidWasShown'
<1> SUFFICES ASSUME SlotInv, [Next]_vars, NEW i \in Intent, session'[i] = "complete"
             PROVE  i \in shown'
  BY DEF PaidWasShown
<1>1. i \in shown
  BY SessionsMove DEF SlotInv, PaidWasShown
<1>2. shown \subseteq shown'
  BY DEF Next, Step, vars, Ask, ClaimReused, ClaimNew, GiveUp, Proceed, Create, Store,
     Retrieve, Close, Release, Crash, HandleCompleted, HandleExpired, Pay, Elapse,
     CheckAvailability, Tick
<1> QED
  BY <1>1, <1>2

LEMMA HeldStep == SlotInv /\ [Next]_vars => HeldReleasedClosed'
<1> SUFFICES ASSUME SlotInv, [Next]_vars, NEW i \in Intent,
                    row'[i].status = "expired", row'[i].stored = "held"
             PROVE  session'[i] = "expired"
  BY DEF HeldReleasedClosed
<1>1. session[i] = "expired"
  BY RowsMove DEF RowMoves, SlotInv, HeldReleasedClosed
<1> QED
  BY <1>1, SessionsMove

(* A claim that found no conflict is the only step that takes a range.     *)
LEMMA OverlapStep == SlotInv /\ [Next]_vars => NoOverlap'
<1> SUFFICES ASSUME SlotInv, [Next]_vars, NEW i \in Intent, NEW j \in Intent,
                    i # j, Active(i)', Active(j)'
             PROVE  ~Overlap(row'[i].terms, row'[j].terms)
  BY DEF NoOverlap, Overlap
<1> USE DEF SlotInv
<1>0. TypeOK
  OBVIOUS
<1>1. CASE Active(i) /\ Active(j)
  <2>1. row'[i].terms = row[i].terms /\ row'[j].terms = row[j].terms
    BY <1>1, RowsMove DEF RowMoves, Active
  <2> QED
    BY <1>1, <2>1 DEF NoOverlap
<1>2. ASSUME NEW k \in Intent, ~Active(k), Active(k)'
      PROVE  \E q \in Request : ClaimNew(q) /\ request[q].intent = k
  <2>1. row[k].status = "absent" /\ row'[k].status = "pending"
    BY <1>2, RowsMove DEF RowMoves, Active
  <2>2. ASSUME NEW q \in Request, ClaimNew(q), request[q].intent # k PROVE FALSE
    <3>1. row'[k] = ExpireReleasable(request[q].asked)[k]
      BY <1>0, <2>2 DEF ClaimNew, ExpireReleasable
    <3> QED
      BY <2>1, <3>1 DEF ExpireReleasable, Releasable
  <2>3. ASSUME NEW q \in Request, GiveUp(q) \/ Store(q) \/ Release(q) PROVE FALSE
    BY <1>0, <2>1, <2>3 DEF GiveUp, Store, Release, ReleaseFor, Releasable, TypeOK, RowType
  <2>4. ASSUME NEW l \in Intent, HandleCompleted(l) \/ HandleExpired(l) PROVE FALSE
    BY <1>0, <2>1, <2>4 DEF HandleCompleted, HandleExpired, ReleaseFor, Active, TypeOK, RowType
  <2>5. CASE CheckAvailability
    BY <2>1, <2>5 DEF CheckAvailability, ExpireReleasable, Releasable
  <2>6. row' # row
    BY <2>1
  <2> QED
    BY <2>2, <2>3, <2>4, <2>5, <2>6
    DEF Next, Step, vars, Ask, ClaimReused, Proceed, Create, Retrieve, Close, Crash,
        Pay, Elapse, Tick
<1>3. ASSUME NEW k \in Intent, NEW l \in Intent, k # l, ~Active(k), Active(k)', Active(l)'
      PROVE  /\ ~Overlap(row'[l].terms, row'[k].terms)
             /\ ~Overlap(row'[k].terms, row'[l].terms)
  <2>1. PICK q \in Request : ClaimNew(q) /\ request[q].intent = k
    BY <1>2, <1>3
  <2> DEFINE t == request[q].terms
             a == request[q].asked
  <2>2. /\ Conflicts(t, a) = {}
        /\ row' = [ExpireReleasable(a) EXCEPT ![k] =
             [status |-> "pending", terms |-> t, hold |-> a + Hold, stored |-> "no"]]
    <3>1. CASE Conflicts(t, a) # {}
      BY <1>3, <2>1, <3>1 DEF ClaimNew, ExpireReleasable, Active, Releasable
    <3> QED
      BY <2>1, <3>1 DEF ClaimNew
  <2>3. row'[k].terms = t
    BY <2>2 DEF ExpireReleasable
  <2>4. row'[l] = ExpireReleasable(a)[l]
    BY <1>3, <2>2 DEF ExpireReleasable
  <2>5. ~Releasable(l, a) /\ row'[l] = row[l]
    BY <1>0, <1>3, <2>4 DEF ExpireReleasable, Active, Releasable, TypeOK, RowType
  <2>6. Active(l)
    BY <1>3, <2>5 DEF Active
  <2>7. ~Overlap(row[l].terms, t)
    BY <2>2, <2>5, <2>6 DEF Conflicts
  <2> QED
    BY <2>3, <2>5, <2>7 DEF Overlap
<1> QED
  BY <1>1, <1>3

-----------------------------------------------------------------------------
(* The inductive invariant holds in every behaviour. *)
THEOREM AlwaysSlotInv == Spec => []SlotInv
<1>1. Init => SlotInv
  BY InitSlotInv
<1>2. SlotInv /\ [Next]_vars => SlotInv'
  BY TypeStep, OverlapStep, RequestsStep, ShownStep, PaidStep, HeldStep DEF SlotInv
<1> QED
  BY <1>1, <1>2, PTL DEF Spec

(* No two held or sold slots of a service overlap, whatever the requests,  *)
(* Stripe and the clock do: claimReservationCheckout's check under the     *)
(* service's lock is enough without the exclusion constraint.              *)
THEOREM AlwaysNoOverlap == Spec => []NoOverlap
<1>1. SlotInv => NoOverlap
  BY DEF SlotInv
<1> QED
  BY <1>1, AlwaysSlotInv, PTL

(* A customer who paid has the slot, unless the order learned of the       *)
(* session after the slot was released.                                    *)
THEOREM AlwaysPaidHasSlot == Spec => []PaidHasSlot
  BY SlotInvGivesPaid, AlwaysSlotInv, PTL
=============================================================================
