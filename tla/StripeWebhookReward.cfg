\* A crash between the renewal transaction and its side effects.
SPECIFICATION Spec
CONSTANTS
  Request = {q1, q2}
  CheckoutEvents = {}
  RenewalEvents = {invoice1}
  RefundEvents = {}
  NoticeEvents = {}
  OtherEvents = {}
  OrderOf <- MCOrderOf
  MayStall = FALSE
  MaxSends = 3
  MaxResends = 0
  Sent <- Unsent
  MaxFaults = 1
  StaleAfter = 0
  bought = bought
  completed = completed
  refunded = refunded
  invoice1 = invoice1
  invoice2 = invoice2
  payment_failed = payment_failed
  synced = synced
  renewed = renewed
  Order = {bought, renewed}
  Credited = {bought, renewed}
  Referred = {bought, renewed}
  NoEvent = NoEvent
CHECK_DEADLOCK FALSE
INVARIANTS
  RenewalRewarded
