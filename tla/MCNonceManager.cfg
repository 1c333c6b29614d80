CONSTANTS
  g1 = g1
  g2 = g2
  g3 = g3
  r1 = r1
  k1 = k1
  Gets <- MCGets
  Resets <- MCResets
  Keys <- MCKeys
  KeyOf <- MCKeyOf
  MaxNonce = 2
  MaxClears = 2
  NoTask = NoTask
  Unset = Unset
SPECIFICATION NMFairSpec
INVARIANTS
  NoReuse
PROPERTIES
  ImplementsAllocator
  EveryCallEnds
