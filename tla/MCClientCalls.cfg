SPECIFICATION Spec
CONSTANTS
  None = None
  Portfolio = Portfolio
  Calls = {1, 2}
  Accounts = {"ana", "bob"}
  Tokens = {"USDC", "AVAX"}
  Registry <- MCRegistry
  L1 <- MCL1
  L1Aliases <- MCL1Aliases
  Configs <- MCConfigs
  Listings <- MCListings
  Ledgers <- MCLedgers
  Shelves <- MCShelves
  Moved <- MCMoved
  Requests <- MCRequests
  Offered <- MCOffered
  ClobPairs <- MCClobPairs
  Default = 2
  Unit <- MCUnit
  OwnChains <- MCOwnChains
  IcmChains <- MCOwnChains
  Batch = 2
  Slack = 1
  PageCap = 4
  MaxChanges = 1
CHECK_DEADLOCK FALSE
INVARIANTS
  ReferenceHonoured
  AnswersAddUp
  PagesComplete
  CoveredAsRead
  MovesWhatWasAsked
  QuoteSellsFrom
