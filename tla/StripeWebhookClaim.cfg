\* Stripe retries one event while its handlers fail or die twice.
SPECIFICATION Spec
CONSTANTS
  Request = {q1, q2}
  CheckoutEvents = {}
  RenewalEvents = {invoice1}
  RefundEvents = {}
  NoticeEvents = {}
  OtherEvents = {}
  OrderOf <- MCOrderOf
  MayStall = FALSE
  MaxSends = 5
  MaxResends = 1
  Sent <- Unsent
  MaxFaults = 2
  StaleAfter = 1
  bought = bought
  completed = completed
  refunded = refunded
  invoice1 = invoice1
  invoice2 = invoice2
  payment_failed = payment_failed
  synced = synced
  renewed = renewed
  Order = {bought, renewed}
  Credited = {bought, renewed}
  Referred = {bought, renewed}
  NoEvent = NoEvent
CHECK_DEADLOCK FALSE
INVARIANTS
  HandledByOne
PROPERTIES
  ClosedStays
  EveryEventSettles
