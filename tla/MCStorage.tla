------------------------------ MODULE MCStorage ------------------------------
(* Storage for TLC: two uploads of which the plan holds one or the other.   *)
EXTENDS Storage, TLC

CONSTANTS small, large

MCSize == [f \in File |-> IF f = small THEN 1 ELSE 2]
=============================================================================
