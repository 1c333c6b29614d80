CONSTANTS
  orders = orders
  book = book
  Topics <- MCTopics
  WireOf <- MCWireOf
  MaxRuns = 2
  MaxDrops = 1
  MaxOps = 4
  Private <- MCPrivate
  Limits <- MCLimits
  None = None
SPECIFICATION FairSpec
INVARIANTS
  ConnectedHasSocket
  RegistryOnWire
PROPERTIES
  SubscriptionServed
