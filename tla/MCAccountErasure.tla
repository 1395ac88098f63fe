--------------------------- MODULE MCAccountErasure ---------------------------
(* AccountErasure for TLC: handlers and requests are interchangeable.        *)
EXTENDS AccountErasure, TLC

MCSymmetry == Permutations(Worker) \union Permutations(Erasure)
=============================================================================
