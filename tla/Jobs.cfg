SPECIFICATION MCSpec
CONSTANTS
  j1 = j1
  j2 = j2
  None = None
  Job = {j1, j2}
  Worker = {w1, w2}
  WelcomeJob = {j1}
  MaxAttempts = 3
  LockTTL = 1
  BackoffBase = 1
  BackoffCap = 1
  Delays = {0}
  RetryAfter = 1
  FreshFor = 2
  Overdue = 0
  MaxFaults = 2
  MaxResets = 1
INVARIANTS
  ExclusiveClaim
  FailedIsEarned
  AttemptsAccounted
PROPERTIES
  ContractSpec
  EverySettles
