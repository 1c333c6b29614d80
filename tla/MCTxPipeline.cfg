CONSTANTS
  t1 = t1
  t2 = t2
  t3 = t3
  k1 = k1
  Gets <- MCGets
  Resets <- MCResets
  Keys <- MCKeys
  KeyOf <- MCKeyOf
  Mode <- MCMode
  Providers = 2
  Attempts = 1
  MaxNonce = 4
  MaxClears = 0
  NoTask = NoTask
  Unset = Unset
SPECIFICATION TxFairSpec
INVARIANTS
  NeverRejectedForNonce
  SuccessIsOnChain
  HolesHaveOwners
PROPERTIES
  PoolDrains
