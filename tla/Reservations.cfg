\* Two requests sell two overlapping slots to two intents.
SPECIFICATION Spec
CONSTANTS
  Request = {q1, q2}
  Intent = {i1, i2}
  nine = nine
  half = half
  Terms = {nine, half}
  Start <- MCStart
  End <- MCEnd
  None = None
  Hold = 2
  MinSession = 2
  Horizon = 4
CHECK_DEADLOCK FALSE
INVARIANTS
  NoOverlap
  PaidHasSlot
PROPERTIES
  HoldEnds
