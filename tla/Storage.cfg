\* A file in use and an upload the plan holds only once the file is gone: a
\* member, cron, a handler that fails once, and an erasure.
SPECIFICATION Spec
CONSTANTS
  small = small
  large = large
  File = {small, large}
  Stored = {large}
  Size <- MCSize
  Strange = {3}
  Closable = TRUE
  Request = {q1}
  Cron = cron
  Worker = {w1}
  None = None
  Quota = 2
  PutLife = 1
  Delay = 0
  StaleAfter = 1
  MaxAttempts = 1
  Faults = 1
  Horizon = 3
CHECK_DEADLOCK FALSE
INVARIANTS
  QuotaKept
  ActiveHasObject
  DeletingIsQueued
  SweptLeavesNothing
PROPERTIES
  NeverRevived
  FilesEnd
