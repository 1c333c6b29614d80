-------------------------- MODULE ChainReferences --------------------------
(***************************************************************************)
(* core/base.py: which connected chain a caller's words mean.              *)
(*                                                                         *)
(* A chain is what chain_config holds of it: its name and id, as           *)
(* references are compared with them (normalised, in digits), and the      *)
(* words of the name that the inference of family and environment looks    *)
(* for.  A reference is a normalised string; the registry is that of       *)
(* data/chain_aliases.json.                                                *)
(***************************************************************************)
EXTENDS Naturals, FiniteSets

CONSTANTS
  Registry,   \* the groups of aliases of connected chains
  L1Aliases,  \* the aliases of Dexalot's own chain, of all three kinds
  L1,         \* that chain
  None

ChainType == [name : STRING, id : STRING, words : SUBSET STRING, native : STRING]
GroupType == [family : STRING, generic : SUBSET STRING, testnet : SUBSET STRING,
              mainnet : SUBSET STRING]

Aliases(g) == g.generic \cup g.testnet \cup g.mainnet

\* An alias is of one kind of one group, as in the file.
ASSUME RegistryAssumption ==
  /\ \A g \in Registry : /\ g.generic \cap (g.testnet \cup g.mainnet) = {}
                         /\ g.testnet \cap g.mainnet = {}
  /\ \A g \in Registry : \A h \in Registry \ {g} : Aliases(g) \cap Aliases(h) = {}

-----------------------------------------------------------------------------
(* What is inferred of a chain *)

TestnetIds == {"43113", "97", "84532", "10143", "11155111", "421614"}
MainnetIds == {"43114", "1", "56", "8453", "42161"}

\* The marks of a family in the order they are looked for: ids, and words of the name.
Marks ==
  <<[family |-> "avalanche", ids |-> {"43113", "43114"}, words |-> {"avalanche", "avax", "fuji"}],
    [family |-> "ethereum", ids |-> {"1", "11155111"}, words |-> {"ethereum", "eth", "sepolia"}],
    [family |-> "arbitrum", ids |-> {"42161", "421614"}, words |-> {"arbitrum", "arb"}],
    [family |-> "bsc", ids |-> {"56", "97"}, words |-> {"bsc", "binance", "bnb", "chapel"}],
    [family |-> "base", ids |-> {"8453", "84532"}, words |-> {"base", "coinbase", "sepolia"}],
    [family |-> "monad", ids |-> {"10143"}, words |-> {"monad"}]>>

Bears(c, i) == c.id \in Marks[i].ids \/ c.words \cap Marks[i].words # {}

\* _infer_chain_family: the first family with a mark on the chain.
Family(c) ==
  IF \E i \in DOMAIN Marks : Bears(c, i)
  THEN Marks[CHOOSE i \in DOMAIN Marks : Bears(c, i) /\ \A j \in 1..(i - 1) : ~Bears(c, j)].family
  ELSE None

\* _infer_chain_environment_kind: by the id, then by the name.
EnvironmentKind(c) ==
  CASE c.id \in TestnetIds -> "testnet"
    [] c.id \in MainnetIds -> "mainnet"
    [] c.id \notin TestnetIds \cup MainnetIds ->
         IF c.words \cap {"testnet", "fuji", "chapel", "sepolia"} # {} THEN "testnet"
         ELSE IF "mainnet" \in c.words THEN "mainnet" ELSE None

-----------------------------------------------------------------------------
(* resolve_chain_reference *)

Found(c) == [ok |-> TRUE, chain |-> c]
Unresolved(why) == [ok |-> FALSE, why |-> why]

\* _match_alias_groups: the families and environments a reference names.
Matched(ref) ==
  UNION {{<<g.family, e>> : e \in {x \in {None, "testnet", "mainnet"} :
            \/ x = None /\ ref \in g.generic
            \/ x = "testnet" /\ ref \in g.testnet
            \/ x = "mainnet" /\ ref \in g.mainnet}} : g \in Registry}

\* _candidate_chains: the connected chains that answer the description.
Candidates(config, ref) ==
  {c \in config : \E f \in Matched(ref) :
     Family(c) = f[1] /\ (f[2] = None \/ EnvironmentKind(c) = f[2])}

\* Mutant: any candidate will do.
PreferredAny(candidates, active) ==
  IF candidates # {} THEN Found(CHOOSE c \in candidates : TRUE) ELSE Unresolved("ambiguous")

\* _prefer_active_chain: the only candidate, or the one of the client's own chain.
Preferred(candidates, active) ==
  IF Cardinality(candidates) = 1 THEN Found(CHOOSE c \in candidates : TRUE)
  ELSE IF active # None /\ \E c \in candidates : c.id = active
  THEN Found(CHOOSE c \in candidates : c.id = active)
  ELSE Unresolved("ambiguous")

\* What is wrong with a description that no candidate, or several, answer.
Why(config, ref) ==
  IF /\ \E f \in Matched(ref) : f[2] # None
     /\ \E c \in config, f \in Matched(ref) : Family(c) = f[1]
  THEN "mismatch" ELSE "ambiguous"

\* The L1's own names first, if it is asked for; then the id, the exact name and the
\* aliases.
Resolve(config, ref, active, withL1) ==
  LET all == config \cup (IF withL1 THEN {L1} ELSE {})
      numeric == {c \in all : c.id # None /\ c.id = ref}
      exact == {c \in all : c.name = ref} IN
  CASE all = {} -> Unresolved("none connected")
    [] all # {} /\ withL1 /\ ref \in L1Aliases -> Found(L1)
    [] all # {} /\ ~(withL1 /\ ref \in L1Aliases) /\ numeric # {} ->
         Found(CHOOSE c \in numeric : TRUE)
    [] OTHER ->
         IF Cardinality(exact) = 1 THEN Found(CHOOSE c \in exact : TRUE)
         ELSE IF Matched(ref) = {} THEN Unresolved("unknown")
         ELSE LET p == Preferred(Candidates(config, ref), active) IN
              IF p.ok THEN p ELSE Unresolved(Why(config, ref))
=============================================================================
