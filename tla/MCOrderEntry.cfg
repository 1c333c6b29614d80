CONSTANTS
  AVAX = AVAX
  ETH = ETH
  USDC = USDC
  NoPrice = NoPrice
  Pairs <- MCPairs
  Base <- MCBase
  Quote <- MCQuote
  PriceQuantum <- MCPriceQuantum
  AmountQuantum <- MCAmountQuantum
  PriceWei <- MCPriceWei
  AmountWei <- MCAmountWei
  MinTrade <- MCMinTrade
  MaxTrade <- MCMaxTrade
  Tolerance = 1
  Requests <- MCRequests
  Balances <- MCBalances
  MaxOrders = 2
  Slack = 1
SPECIFICATION EntrySpec
INVARIANTS
  SentAsTyped
  BalanceCoversList
  PathsAgree
