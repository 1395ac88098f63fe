\* Two requests send one task twice, beside a ping, while the purchase that pays for it
\* expires, the member who asked for it leaves, and a call throws or the process dies.
SPECIFICATION TasksSpec
CONSTANTS
  purchase = purchase
  bonus = bonus
  clip = clip
  video = video
  again = again
  ping = ping
  Request = {q1, q2}
  GrantIds = {purchase, bonus}
  PaidGrants = {purchase}
  SpendIds = {video, again, ping}
  Amount <- MCAmount
  Expires <- MCExpires
  OrderNo <- MCOrderNo
  LeaverSpends = {video, again}
  NoOne = NoOne
  Horizon = 1
  Task = {clip}
  TransNo <- MCTransNo
  Faults = 2
SYMMETRY Symmetry
CHECK_DEADLOCK FALSE
INVARIANTS
  BalanceAfterExact
  DebitsCovered
  RefundRestores
  TaskPaidOnce
