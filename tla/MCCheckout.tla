----------------------------- MODULE MCCheckout -----------------------------
(* Checkout for TLC: everything but the moments is interchangeable. *)
EXTENDS Checkout, TLC

Symmetry == Permutations(Request) \union Permutations(Intent) \union Permutations(Terms)
  \union Permutations(Email) \union Permutations(Session) \union Permutations(Customer)
=============================================================================
