------------------------- MODULE MCSubscriptionSync -------------------------
(* SubscriptionSync for TLC: handlers are interchangeable. *)
EXTENDS SubscriptionSync, TLC

Symmetry == Permutations(Handler)
=============================================================================
