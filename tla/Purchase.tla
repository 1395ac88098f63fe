------------------------------ MODULE Purchase ------------------------------
(***************************************************************************)
(* What buying promises to whoever pays: one intent takes money once in    *)
(* its life, through one session, and its order is paid only after that    *)
(* money has arrived, and then for good.  Nothing is said of keys,         *)
(* customers, repeated requests or the clock.  Checkout is shown to        *)
(* implement this.                                                         *)
(***************************************************************************)
CONSTANTS Intent, Session

VARIABLES
  charged,    \* the session each intent was charged through, if any
  received,   \* the sessions whose money has arrived
  paid        \* the intents whose order is paid

purchase == <<charged, received, paid>>

Init ==
  /\ charged = [i \in Intent |-> {}]
  /\ received = {}
  /\ paid = {}

(* The customer pays; a bank transfer is not there at once. *)
Charge(i, s) ==
  /\ charged[i] = {}
  /\ \A j \in Intent : s \notin charged[j]
  /\ charged' = [charged EXCEPT ![i] = {s}]
  /\ received' \in {received, received \union {s}}
  /\ UNCHANGED paid

Arrive(i) ==
  /\ \E s \in charged[i] \ received : received' = received \union {s}
  /\ UNCHANGED <<charged, paid>>

Fulfil(i) ==
  /\ i \notin paid
  /\ charged[i] # {} /\ charged[i] \subseteq received
  /\ paid' = paid \union {i}
  /\ UNCHANGED <<charged, received>>

Next == \E i \in Intent : Arrive(i) \/ Fulfil(i) \/ \E s \in Session : Charge(i, s)

Spec == Init /\ [][Next]_purchase
=============================================================================
