CONSTANTS
  d1 = d1
  d2 = d2
  a1 = a1
  s1 = s1
  pool = pool
  Ops <- MCOps
  Kind <- MCKind
  Amount <- MCAmount
  Waits <- MCWaits
  Spenders <- MCSpenders
  SpenderOf <- MCSpenderOf
  Prior <- MCPrior
  MaxCalls = 3
SPECIFICATION AlFairSpec
INVARIANTS
  NoExcessExposure
  UndisturbedSuffices
