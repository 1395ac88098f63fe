\* Two invocations contending for one row under every kind of key: leases,
\* revivals, cancellations and pruning interleaved.
SPECIFICATION Spec
CONSTANTS
  Worker = {w1, w2}
  Caller = {c1}
  Row = {r1}
  PlainKeys = {}
  RetryKeys = {signup}
  FileKeys = {file}
  ErasureKeys = {erasure}
  NoKey = NoKey
  None = None
  MaxAttempts = 2
  StaleLock = 1
  BackoffBase = 1
  Retention = 1
  Delay = 1
  MaxRevive = 1
CHECK_DEADLOCK FALSE
INVARIANTS
  LeaseExclusive
PROPERTIES
  LiveLeaseKept
  FinishedStays
  KeepsPromise
  EveryJobEnds
