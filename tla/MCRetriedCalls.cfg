SPECIFICATION RetriedSpec
CONSTANTS
  None = None
  Callers = {a, b, c}
  Retrying = {a}
  Interval = 2
  Epoch = 2
  Closing = 3
  Horizon = 3
  MaxResets = 1
  MaxAttempts = 3
  InitialDelay = 1
  MaxDelay = 2
  Growth <- MCGrowth
CHECK_DEADLOCK FALSE
INVARIANTS
  SlotsSpaced
PROPERTIES
  ImplementsTokenBucket
  RetriesAsConfigured
  EveryCallEndsInTime
