CONSTANTS
  c1 = c1
  c2 = c2
  Calls <- MCCalls
  NoCall = NoCall
  kept = kept
  dropped = dropped
  added = added
  Symbols <- MCSymbols
  Lists <- MCLists
  MaxVersion = 2
  MaxCloses = 1
SPECIFICATION FairSpec
INVARIANTS
  ContractsFollowProviders
  RefreshTakesEffect
