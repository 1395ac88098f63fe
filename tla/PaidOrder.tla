------------------------------ MODULE PaidOrder ------------------------------
(***************************************************************************)
(* What payment fulfilment promises to everyone who reads the database     *)
(* between two steps of a webhook: an order becomes paid and its credits   *)
(* appear in one step, once; a commission exists only for a paid order and *)
(* only while nobody cancelled it.  StripeWebhook is shown to implement    *)
(* this.                                                                   *)
(***************************************************************************)
EXTENDS Naturals

CONSTANTS
  Order,
  Credited   \* the orders whose product carries credits

VARIABLES
  paid,      \* the orders the customer is shown as paid
  grants,    \* how many ledger rows each order has
  reward     \* the commission of each order

pvars == <<paid, grants, reward>>

PInit ==
  /\ paid = {}
  /\ grants = [o \in Order |-> 0]
  /\ reward = [o \in Order |-> "none"]

Pay(o) ==
  /\ o \notin paid
  /\ paid' = paid \union {o}
  /\ grants' = [grants EXCEPT ![o] = IF o \in Credited THEN 1 ELSE 0]
  /\ UNCHANGED reward

Reward(o) ==
  /\ o \in paid
  /\ reward[o] = "none"
  /\ reward' = [reward EXCEPT ![o] = "pending"]
  /\ UNCHANGED <<paid, grants>>

Cancel(o) ==
  /\ reward[o] = "pending"
  /\ reward' = [reward EXCEPT ![o] = "canceled"]
  /\ UNCHANGED <<paid, grants>>

PNext == \E o \in Order : Pay(o) \/ Reward(o) \/ Cancel(o)

PSpec == PInit /\ [][PNext]_pvars
=============================================================================
