--------------------------- MODULE MCClientCalls ---------------------------
(* ClientCalls for TLC: a call of any kind beside one that shares its state.  A refresh      *)
(* may connect Sepolia for Fuji, beside Arbitrum Sepolia.  USDC has no decimals on Fuji and  *)
(* one on the L1, or it is of the L1 alone and has none there, and AVAX is of Fuji alone.    *)
(* Two decimals stand for 18, and one unit is what floats cannot tell apart: ana's balance   *)
(* of AVAX is one short of what is transferred.                                              *)
EXTENDS ClientCalls, TLC

Fuji == [name |-> "fuji", id |-> "43113", words |-> {"fuji"}, native |-> "AVAX"]
ArbitrumSepolia ==
  [name |-> "arbitrum sepolia", id |-> "421614", words |-> {"arbitrum", "sepolia"}, native |-> "ETH"]
Sepolia == [name |-> "sepolia", id |-> "11155111", words |-> {"sepolia"}, native |-> "ETH"]

MCL1 == [name |-> "dexalot l1", id |-> "432201", words |-> {"dexalot"}, native |-> "ALOT"]
MCL1Aliases == {"dexalot l1", "dexalot", "l1"}

MCRegistry ==
  {[family |-> "avalanche", generic |-> {"avalanche"}, testnet |-> {"fuji"}, mainnet |-> {"avax mainnet"}],
   [family |-> "ethereum", generic |-> {"eth"}, testnet |-> {"sepolia"}, mainnet |-> {"eth mainnet"}]}

MCConfigs == {{Fuji, ArbitrumSepolia}, {ArbitrumSepolia, Sepolia}}

MCOwnChains == {Fuji}

MCUnit == [d \in 0..Default |-> 10^(Default - d)]

USDC(fuji, l1) ==
  Fuji :> fuji @@ ArbitrumSepolia :> None @@ Sepolia :> None @@ MCL1 :> l1
AVAX(l1) == Fuji :> 2 @@ ArbitrumSepolia :> None @@ Sepolia :> None @@ MCL1 :> l1

MCListings == {"USDC" :> USDC(0, 1) @@ "AVAX" :> AVAX(2),
               "USDC" :> USDC(None, 0) @@ "AVAX" :> AVAX(None)}

MCLedgers == {[a \in Accounts |-> [p \in Places |-> IF a = "ana" THEN 15 ELSE 2]]}
MCShelves == {<<"ALOT", "USDC", "ETH">>}

Blank == [ref |-> None, tokens |-> {}, who |-> None, token |-> None, amount |-> 0,
          to |-> None, lz |-> FALSE, from |-> None]

Request(kind, given) == [kind |-> kind] @@ given @@ Blank

Pay == Request("transfer_portfolio", [token |-> "USDC", amount |-> 50, to |-> "bob"])
Look == Request("portfolio", [tokens |-> {"USDC"}])
Swap(to) == Request("quote", [from |-> "USDC", to |-> to])
Pairs == Request("pairs", [ref |-> "avalanche"])
Wallet == Request("chain", [ref |-> "sepolia"])
Pages == Request("pages", << >>)

MCRequests ==
  1 :> {Look, Pay, Swap("AVAX"), Pairs,
        Request("token", [ref |-> "eth", tokens |-> {"ETH"}]),
        Request("tokens", [ref |-> "fuji", tokens |-> {"USDC", "AVAX"}, who |-> "bob"]),
        Wallet, Pages, Request("all", << >>),
        Request("add_gas", [amount |-> 12]),
        Request("remove_gas", [amount |-> 12]),
        Request("transfer_portfolio", [token |-> "AVAX", amount |-> 16, to |-> "bob"]),
        Request("transfer_token", [token |-> "USDC", amount |-> 155, to |-> "bob"]),
        Request("deposit", [token |-> "USDC", amount |-> 150, ref |-> "avalanche"]),
        Request("deposit", [token |-> "USDC", amount |-> 150, ref |-> "421614"]),
        Request("withdraw", [token |-> "USDC", amount |-> 150, ref |-> "fuji"])}
  @@ 2 :> {Look, Pay, Swap("ETH"), Pairs, Wallet, Pages}

MCMoved == {<<"ana", <<Portfolio, "USDC">>>>}

MCOffered ==
  "43113" :> {{<<"AVAX", "USDC">>}, {}} @@ "421614" :> {{<<"USDC", "ETH">>}}
  @@ "11155111" :> {{}}
MCClobPairs == {<<"AVAX", "USDC">>}
=============================================================================
