\* Two requests handle three changes, the first of them a checkout, in any order.
SPECIFICATION SyncSpec
CONSTANTS
  Handler = {q1, q2}
  Checkout = {1}
  NoUser = NoUser
  Buyer = Buyer
  Erased = Erased
  InMetadata = FALSE
  Personal = FALSE
  MaxChanges = 3
  MaxFailures = 1
CHECK_DEADLOCK FALSE
INVARIANTS
  DoneIsReflected
PROPERTIES
  CancellationArrives
