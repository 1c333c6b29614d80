CONSTANTS
  c1 = c1
  c2 = c2
  Calls <- MCCalls
  N = 3
  MaxFailures = 2
  Cooldown = 2
  MaxReinits = 1
  Nobody = Nobody
SPECIFICATION RFFairSpec
INVARIANTS
  RaisesOnlyWhenAllFailed
PROPERTIES
  RevivedOnlyByAnswer
  EveryRpcCallEnds
