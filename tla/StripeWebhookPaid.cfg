\* A purchase and its refund, or two invoices of one period, or a renewal beside
\* other events, on a server without a request limit.
SPECIFICATION Spec
CONSTANTS
  Request = {q1, q2}
  CheckoutEvents = {completed}
  RenewalEvents = {invoice1, invoice2}
  RefundEvents = {refunded}
  NoticeEvents = {payment_failed}
  OtherEvents = {synced}
  OrderOf <- MCOrderOf
  MayStall = TRUE
  MaxSends = 2
  MaxResends = 0
  Sent <- Scenarios
  MaxFaults = 1
  StaleAfter = 0
  completed = completed
  refunded = refunded
  invoice1 = invoice1
  invoice2 = invoice2
  payment_failed = payment_failed
  synced = synced
  bought = bought
  renewed = renewed
  Order = {bought, renewed}
  Credited = {bought, renewed}
  Referred = {bought, renewed}
  NoEvent = NoEvent
CHECK_DEADLOCK FALSE
SYMMETRY Symmetry
INVARIANTS
  CompletedFulfilled
  PaidIffGranted
  OneNoticePerCycle
PROPERTIES
  KeepsPromise
