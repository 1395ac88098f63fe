-------------------------------- MODULE Fefo --------------------------------
(***************************************************************************)
(* The first-expiring-first-out replay of src/models/credit.ts: what is    *)
(* left of every grant, and which grants every debit consumed, computed    *)
(* from the immutable rows of one organization in insertion order.         *)
(*                                                                         *)
(* A row is a record with at least `credits`, `at` (created_at), `expires` *)
(* and `order`.  A grant that never expires has an `expires` later than    *)
(* any time that matters.  A bucket is a row; nothing is ever left of a    *)
(* debit.                                                                  *)
(***************************************************************************)
EXTENDS Integers, Sequences, FiniteSets

Lesser(a, b) == IF a < b THEN a ELSE b

(* The sum of a sequence of numbers.                                       *)
Total(s) ==
  LET sum[n \in 0..Len(s)] == IF n = 0 THEN 0 ELSE sum[n - 1] + s[n]
  IN sum[Len(s)]

(* Expiration is an instant: at exactly `expires` nothing is left.         *)
IsActiveAt(expires, t) == expires > t

(* compareBucketsFefo: nearest expiration, then oldest, then lowest id.    *)
BucketBefore(rows, i, j) ==
  LET a == rows[i]
      b == rows[j] IN
  \/ a.expires < b.expires
  \/ a.expires = b.expires /\ a.at < b.at
  \/ a.expires = b.expires /\ a.at = b.at /\ i < j

(* What can be taken from each bucket at t, and what the buckets before    *)
(* one offer.                                                              *)
OpenAt(rows, left, t) ==
  [i \in DOMAIN left |-> IF IsActiveAt(rows[i].expires, t) THEN left[i] ELSE 0]

Ahead(rows, open, i) ==
  Total([j \in DOMAIN open |-> IF BucketBefore(rows, j, i) THEN open[j] ELSE 0])

(* consumeBucketsFefo: each bucket gives what those before it did not, as  *)
(* far as it goes.                                                         *)
Consume(rows, left, amount, t) ==
  LET open == OpenAt(rows, left, t)
      taken == [i \in DOMAIN left |->
                  LET rest == amount - Ahead(rows, open, i) IN
                  IF rest > 0 THEN Lesser(open[i], rest) ELSE 0]
  IN [left |-> [i \in DOMAIN left |-> left[i] - taken[i]],
      taken |-> taken,
      unallocated |-> amount - Total(taken)]

(* One row of calculateCreditBalance.  A debit consumes at the instant it  *)
(* was written; what no active grant covered is debt, which the next grant *)
(* pays first.                                                             *)
Enter(rows, s, i) ==
  LET r == rows[i]
      offset == IF IsActiveAt(r.expires, r.at) THEN Lesser(r.credits, s.debt) ELSE 0
      used == Consume(rows, s.left, -r.credits, r.at) IN
  IF r.credits > 0
    THEN [left |-> Append(s.left, r.credits - offset),
          taken |-> Append(s.taken, <<>>),
          debt |-> s.debt - offset]
    ELSE [left |-> Append(used.left, 0),
          taken |-> Append(s.taken, used.taken),
          debt |-> s.debt + used.unallocated]

(* The replay: every row in turn.                                          *)
Replay(rows) ==
  LET state[n \in 0..Len(rows)] ==
        IF n = 0 THEN [left |-> <<>>, taken |-> <<>>, debt |-> 0]
                 ELSE Enter(rows, state[n - 1], n)
  IN state[Len(rows)]

(* calculateCreditBalance: the credits that can be spent at t.             *)
Available(rows, t) == Total(OpenAt(rows, Replay(rows).left, t))

Credits(rows) == [i \in DOMAIN rows |-> rows[i].credits]
SumCredits(rows) == Total(Credits(rows))

(* The terms that survive from a grant to the debits and refunds of it.    *)
TermsOf(row) == [expires |-> row.expires, order |-> row.order]

(* What a sequence of amounts, one for each row, holds of some terms.      *)
OfTerms(rows, taken, t) ==
  Total([i \in DOMAIN taken |-> IF TermsOf(rows[i]) = t THEN taken[i] ELSE 0])

(* appendAllocation, mergeAllocation: one part per terms.                  *)
PartsOf(rows, taken) ==
  {[terms |-> t, credits |-> OfTerms(rows, taken, t)] :
     t \in {TermsOf(rows[i]) : i \in {j \in DOMAIN taken : taken[j] > 0}}}
=============================================================================
