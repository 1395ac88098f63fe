--------------------------- MODULE MCStripeWebhook ---------------------------
(* Small instances of StripeWebhook for TLC.                                *)
EXTENDS StripeWebhook, TLC

CONSTANTS
  bought, renewed,                 \* the two orders
  completed, refunded,             \* events of the purchase
  invoice1, invoice2,              \* events of one billing period
  payment_failed, synced           \* events that touch no order

(* Every checkout event and the refund concern the order that was bought;  *)
(* every renewal event concerns one billing period.                        *)
MCOrderOf ==
  [e \in OrderEvents |-> IF e \in RenewalEvents THEN renewed ELSE bought]

(* Nothing has been sent yet. *)
Unsent == {[e \in Event |-> 0]}

(* A purchase and its refund, sent twice each; one billing period announced *)
(* twice; a renewal beside a failed payment and a change of the subscription. *)
Scenarios ==
  {[e \in Event |-> IF e \in {completed, refunded} THEN 0 ELSE MaxSends],
   [e \in Event |-> IF e \in {invoice1, invoice2} THEN 1 ELSE MaxSends],
   [e \in Event |-> IF e \in {invoice1, payment_failed, synced} THEN 1 ELSE MaxSends]}

Symmetry == Permutations(Request)
=============================================================================
