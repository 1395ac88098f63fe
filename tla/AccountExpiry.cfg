\* An export whose first attempt fails and whose second is a day later.
SPECIFICATION Spec
CONSTANTS
  Erasure = {r1}
  Export = {e1}
  Thing = {subscription}
  Marked = {}
  Late = {}
  Worker = {w1}
  None = None
  Grace = 1
  Retention = 1
  MaxAttempts = 2
  Faults = 1
  Flips = 0
  Horizon = 3
CHECK_DEADLOCK FALSE
INVARIANT
  DurableExpiry
