---------------------------- MODULE MCOrderEntry ----------------------------
(***************************************************************************)
(* Instance of OrderEntry for TLC: two pairs that share their quote token, *)
(* one with bounds and one without, and numbers on, near and off the       *)
(* display grid, 0 and negative ones among them.                           *)
(***************************************************************************)
EXTENDS OrderEntry

CONSTANTS AVAX, ETH, USDC

MCPairs == {"AVAX/USDC", "ETH/USDC"}
MCBase == [p \in MCPairs |-> IF p = "AVAX/USDC" THEN AVAX ELSE ETH]
MCQuote == [p \in MCPairs |-> USDC]
MCPriceQuantum == [p \in MCPairs |-> 4]
MCAmountQuantum == [p \in MCPairs |-> IF p = "AVAX/USDC" THEN 5 ELSE 3]
MCPriceWei == [p \in MCPairs |-> 2]
MCAmountWei == [p \in MCPairs |-> 1]
MCMinTrade == [p \in MCPairs |-> IF p = "AVAX/USDC" THEN 20 ELSE 0]
MCMaxTrade == [p \in MCPairs |-> IF p = "AVAX/USDC" THEN 40 ELSE 0]
MCBalances == {0, 5, 20, 50}

Numbers(p) == IF p = "AVAX/USDC"
              THEN {<<4, 5>>, <<9, 5>>, <<6, 5>>, <<4, 6>>, <<12, 5>>, <<0, 5>>, <<-4, -5>>, <<NoPrice, 4>>}
              ELSE {<<1, 3>>, <<4, 3>>, <<5, 7>>, <<2, 3>>, <<NoPrice, 1>>, <<0, -3>>, <<NoPrice, -3>>}
MCRequests ==
  UNION {{[pair |-> p, side |-> s, type |-> t, price |-> n[1], amount |-> n[2]] :
            s \in {"BUY", "SELL"}, t \in {"LIMIT", "MARKET"}, n \in Numbers(p)} : p \in MCPairs}
=============================================================================
