\* Two erasures of one account (the second after the first was canceled or blocked).
SPECIFICATION Spec
CONSTANTS
  Erasure = {r1, r2}
  Export = {e1}
  Thing = {subscription, file}
  Marked = {file}
  Late = {file}
  Worker = {w1, w2}
  None = None
  Grace = 1
  Retention = 1
  MaxAttempts = 2
  Faults = 1
  Flips = 1
  Horizon = 2
SYMMETRY MCSymmetry
CHECK_DEADLOCK FALSE
INVARIANTS
  ErasedEverything
  GraceKept
  StatusAgrees
  ArtifactNamed
