---------------------------- MODULE CreditLedger ----------------------------
(***************************************************************************)
(* The credit ledger of one organization (src/models/credit.ts,            *)
(* src/services/credit.ts, the grant of src/models/fulfillment.ts): grants *)
(* that expire, spends by several members at once, and refunds that give   *)
(* a failed spend back to the grants it consumed.                          *)
(*                                                                         *)
(* A request stamps created_at, opens a transaction, takes the advisory    *)
(* lock of the organization, sums the ledger, and inserts.  Time passes    *)
(* between any two of these steps, and a request may die at any of them,   *)
(* which releases its lock and inserts nothing.  Who calls, and when, is   *)
(* Tasks' affair.                                                          *)
(***************************************************************************)
EXTENDS Fefo

CONSTANTS
  Request,       \* requests and jobs at work at the same time
  GrantIds,      \* grants: trans_no of a purchase, a bonus, a gift
  PaidGrants,    \* those written by a Stripe payment's transaction
  SpendIds,      \* trans_no of spends
  Amount,        \* credits of every grant and spend
  Expires,       \* when a grant expires; later than Horizon for never
  OrderNo,       \* order_no of a grant
  LeaverSpends,  \* spends of the member whose account is erased
  NoOne,
  Horizon        \* bound: the last moment

ASSUME LedgerAssumption ==
  /\ PaidGrants \subseteq GrantIds /\ GrantIds \intersect SpendIds = {}
  /\ LeaverSpends \subseteq SpendIds
  /\ \A i \in GrantIds \union SpendIds : Amount[i] \in Nat \ {0}
  /\ \A g \in GrantIds : Expires[g] \in Nat
  /\ Horizon \in Nat
  /\ NoOne \notin Request

VARIABLES
  ledger,   \* credits: this organization's rows by id
  holder,   \* who holds the advisory lock
  request,  \* what each request holds in memory
  erased,   \* the leaver's account was erased
  now

vars == <<ledger, holder, request, erased, now>>

Idle == [pc |-> "idle"]

Init ==
  /\ ledger = <<>>
  /\ holder = NoOne
  /\ request = [q \in Request |-> Idle]
  /\ erased = FALSE
  /\ now = 0

RowsOf(kind, id) == {i \in DOMAIN ledger : ledger[i].kind = kind /\ ledger[i].id = id}

-----------------------------------------------------------------------------
(* Calls. *)

Ask(q, kind, id, pc, plan) ==
  request' = [request EXCEPT ![q] =
    [pc |-> pc, kind |-> kind, id |-> id, at |-> now, plan |-> plan, total |-> 0]]

(* increaseCredits, or a payment; a job or webhook may repeat either.      *)
CallGrant(q, g) ==
  /\ request[q] = Idle
  /\ Ask(q, "grant", g, "lock", {})
  /\ UNCHANGED <<ledger, holder, erased, now>>

(* decreaseCredits, under a fresh trans_no.                                *)
CallSpend(q, s) ==
  /\ request[q] = Idle
  /\ RowsOf("spend", s) = {}
  /\ \A p \in Request : request[p] # Idle => request[p].id # s
  /\ Ask(q, "spend", s, "lock", {})
  /\ UNCHANGED <<ledger, holder, erased, now>>

(* The rows a refund reverses: those the root's metadata names.            *)
PartsNamed(s) ==
  LET root == CHOOSE i \in RowsOf("spend", s) : ledger[i].part = 1 IN
  IF ledger[root].named = 0 THEN {root} ELSE RowsOf("spend", s)

(* Mutant: the terms of the physical rows, whatever they consumed. *)
RefundPlanOfRows(s) ==
  LET rows == PartsNamed(s) IN
  {[terms |-> TermsOf(ledger[i]), credits |-> -ledger[i].credits] : i \in rows}

(* findCreditSpendRefundPlan: what the replay charges those rows to.       *)
RefundPlan(s) ==
  LET taken == Replay(ledger).taken
      rows == PartsNamed(s)
      From(b) == Total([i \in DOMAIN ledger |->
                          IF i \in rows /\ b < i THEN taken[i][b] ELSE 0])
  IN PartsOf(ledger, [b \in DOMAIN ledger |-> From(b)])

(* refundCreditsForTransaction reads its plan before any lock.             *)
CallRefund(q, s) ==
  /\ request[q] = Idle
  /\ RowsOf("spend", s) # {}
  /\ Ask(q, "refund", s, "check", RefundPlan(s))
  /\ UNCHANGED <<ledger, holder, erased, now>>

(* findCreditByTransNo(refund_...): refunded already, or not yet.          *)
CheckRefund(q) ==
  /\ request[q].pc = "check"
  /\ request' = [request EXCEPT ![q] =
       IF RowsOf("refund", @.id) # {} THEN Idle ELSE [@ EXCEPT !.pc = "lock", !.at = now]]
  /\ UNCHANGED <<ledger, holder, erased, now>>

-----------------------------------------------------------------------------
(* Transactions. *)

(* Mutant: no lock. *)
Anyone == TRUE

LockFree == holder = NoOne

(* lockOrgAndSumLedger.                                                    *)
LockOrgAndSumLedger(q) ==
  /\ request[q].pc = "lock"
  /\ LockFree
  /\ holder' = q
  /\ request' = [request EXCEPT ![q] =
       [@ EXCEPT !.pc = "insert", !.total = SumCredits(ledger)]]
  /\ UNCHANGED <<ledger, erased, now>>

(* The parts of one movement, the first that expires first.                *)
Orders(parts) ==
  {order \in [1..Cardinality(parts) -> parts] :
     \A m, n \in DOMAIN order :
       m < n => order[m] # order[n] /\ order[m].terms.expires <= order[n].terms.expires}

(* One row for each part, with its running total.                          *)
Insert(q, kind, sign, parts) ==
  LET id == request[q].id IN
  \E order \in Orders(parts) :
    LET credits == [n \in DOMAIN order |-> sign * order[n].credits]
        row(n) == [kind |-> kind, id |-> id, part |-> n,
                   named |-> IF Len(order) > 1 THEN Len(order) ELSE 0,
                   credits |-> credits[n],
                   at |-> IF kind = "grant" /\ id \in PaidGrants THEN now
                                                                 ELSE request[q].at,
                   expires |-> order[n].terms.expires, order |-> order[n].terms.order,
                   after |-> request[q].total + Total(SubSeq(credits, 1, n))]
    IN ledger' = ledger \o [n \in DOMAIN order |-> row(n)]

Release(q) ==
  /\ holder' = IF holder = q THEN NoOne ELSE holder
  /\ request' = [request EXCEPT ![q] = Idle]

(* insertCredit, insertGrant: the unique trans_no refuses a replay.        *)
InsertGrant(q) ==
  LET g == request[q].id IN
  /\ request[q].pc = "insert" /\ request[q].kind = "grant"
  /\ \/ /\ RowsOf("grant", g) = {}
        /\ Insert(q, "grant", 1,
             {[terms |-> [expires |-> Expires[g], order |-> OrderNo[g]],
               credits |-> Amount[g]]})
     \/ RowsOf("grant", g) # {} /\ UNCHANGED ledger
  /\ Release(q)
  /\ UNCHANGED <<erased, now>>

Covers(n) == Available(ledger, now) >= n

(* insertSpendCreditIfSufficient: the balance and the allocation, both at  *)
(* an instant read under the lock, which is later than created_at.         *)
AllocateSpend(q) ==
  LET n == Amount[request[q].id]
      used == Consume(ledger, Replay(ledger).left, n, now) IN
  /\ request[q].pc = "insert" /\ request[q].kind = "spend" /\ request[q].plan = {}
  /\ \/ /\ Covers(n) /\ used.unallocated = 0
        /\ request' = [request EXCEPT ![q].plan = PartsOf(ledger, used.taken)]
        /\ UNCHANGED holder
     \/ ~(Covers(n) /\ used.unallocated = 0) /\ Release(q)
  /\ UNCHANGED <<ledger, erased, now>>

(* One row per expiry and order.                                           *)
InsertSpend(q) ==
  /\ request[q].pc = "insert" /\ request[q].kind = "spend" /\ request[q].plan # {}
  /\ Insert(q, "spend", -1, request[q].plan)
  /\ Release(q)
  /\ UNCHANGED <<erased, now>>

(* insertCreditRefund: its own read-before-insert, under the lock.         *)
InsertRefund(q) ==
  LET s == request[q].id IN
  /\ request[q].pc = "insert" /\ request[q].kind = "refund"
  /\ IF RowsOf("refund", s) = {} THEN Insert(q, "refund", 1, request[q].plan)
                                 ELSE UNCHANGED ledger
  /\ Release(q)
  /\ UNCHANGED <<erased, now>>

-----------------------------------------------------------------------------

(* The request dies: its transaction rolls back.                           *)
Die(q) ==
  /\ request[q] # Idle
  /\ Release(q)
  /\ UNCHANGED <<ledger, erased, now>>

(* finalizeAccountErasure sets metadata_json of the member's rows to null. *)
EraseMember ==
  /\ ~erased
  /\ LeaverSpends # {}
  /\ erased' = TRUE
  /\ ledger' = [i \in DOMAIN ledger |->
       IF ledger[i].id \in LeaverSpends THEN [ledger[i] EXCEPT !.named = 0]
                                        ELSE ledger[i]]
  /\ UNCHANGED <<holder, request, now>>

Tick ==
  /\ now < Horizon
  /\ now' = now + 1
  /\ UNCHANGED <<ledger, holder, request, erased>>

(* What a request does once it was called.                                 *)
Transaction(q) ==
  \/ CheckRefund(q) \/ LockOrgAndSumLedger(q)
  \/ InsertGrant(q) \/ AllocateSpend(q) \/ InsertSpend(q) \/ InsertRefund(q)
  \/ Die(q)

-----------------------------------------------------------------------------
(* Properties. *)

(* findLedgerBalanceDrift finds nothing: every row's balance_after is the  *)
(* sum of the rows up to it, whoever wrote them at the same time.          *)
BalanceAfterExact ==
  \A i \in DOMAIN ledger : ledger[i].after = SumCredits(SubSeq(ledger, 1, i))

(* No credit is spent twice or after it expired: replayed at the instants  *)
(* they were written, the grants cover every debit.                        *)
DebitsCovered == Replay(ledger).debt = 0

Charged(taken, s, terms) ==
  Total([i \in DOMAIN ledger |->
           IF i \in RowsOf("spend", s) THEN OfTerms(ledger, taken[i], terms) ELSE 0])

GivenBack(s, terms) ==
  OfTerms(ledger, [i \in DOMAIN ledger |->
                     IF i \in RowsOf("refund", s) THEN ledger[i].credits ELSE 0], terms)

(* What an erasure takes away: the names of the parts of a leaver's spend. *)
(* docs/database.md:155 says that with them "a refund can restore all      *)
(* buckets atomically"; without them it restores the first one.            *)
PartsForgotten(s) ==
  erased /\ s \in LeaverSpends /\ Cardinality(RowsOf("spend", s)) > 1

(* A refunded spend is given back once and in full, to the expiry and the  *)
(* order of the grants it was charged to, whatever else was written and    *)
(* expired in between, the plan and the lock included.  Only an erasure    *)
(* that came first makes it less; nothing makes it more.                   *)
RefundRestores ==
  LET taken == Replay(ledger).taken IN
  \A s \in SpendIds : RowsOf("refund", s) # {} =>
    \A terms \in {TermsOf(ledger[i]) : i \in DOMAIN ledger} :
      LET charged == Charged(taken, s, terms) IN
      /\ GivenBack(s, terms) <= charged
      /\ ~PartsForgotten(s) => GivenBack(s, terms) = charged

=============================================================================
