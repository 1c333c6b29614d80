CONSTANTS
  a1 = a1
  b1 = b1
  b2 = b2
  x1 = x1
  ClientA = ClientA
  ClientB = ClientB
  ClientX = ClientX
  pairs = pairs
  tokens = tokens
  Callers <- MCCallers
  Keys <- MCKeys
  Clients <- MCClients
  Bypassing <- MCBypassing
  KeyOf <- MCKeyOf
  ClientOf <- MCClientOf
  TTL = 1
  MaxSize = 1
  CleanupInterval = 2
  MaxVersion <- MCMaxVersion
  MaxInvalidations = 1
  Nobody = Nobody
SPECIFICATION Spec
INVARIANTS
  SingleFlight
  FreshAfterQuietInvalidation
  StateKeepsUp
PROPERTIES
  ImplementsRegister
