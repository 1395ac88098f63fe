--------------------------- MODULE MCReservations ---------------------------
(* Reservations for TLC: two slots of an hour, half an hour apart.          *)
EXTENDS Reservations, TLC

CONSTANTS nine, half   \* from nine, from half past nine

MCStart == (nine :> 0) @@ (half :> 1)
MCEnd == (nine :> 2) @@ (half :> 3)
=============================================================================
