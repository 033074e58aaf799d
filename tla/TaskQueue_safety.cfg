SPECIFICATION Spec
CONSTANTS
  t1 = t1
  t2 = t2
  c1 = c1
  c2 = c2
  p1 = p1
  p2 = p2
  Tasks <- MCTasks
  Keys = {k1}
  NoKey = NoKey
  Consumers <- MCConsumers
  Processes <- MCProcesses
  Host <- MCHost
  NoTask = NoTask
  NoProcess = NoProcess
  Priorities = {0, 10}
  Delays = {0}
  Backoff <- MCBackoff
  MaxAttempts = 2
  LockTimeout = 1
  RetryAfters = {2}
  MaxOverdue = 0
  MaxFaults = 1
  MaxStrays = 1
INVARIANTS
  DedupUnique
  ClaimsDistinct
  DeadExhausted
  PoisonBound
PROPERTIES
  LedgerSafe
  EventuallySettled
