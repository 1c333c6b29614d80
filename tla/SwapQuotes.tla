----------------------------- MODULE SwapQuotes -----------------------------
(***************************************************************************)
(* core/swap.py and core/base.py: the RFQ pairs of the chains, and what a  *)
(* soft or firm quote is asked for.  The API takes a pair, which of its    *)
(* tokens the amount is of and which side of the pair is taken; a caller   *)
(* names the token to sell and the token to buy.                           *)
(***************************************************************************)
EXTENDS Balances

CONSTANTS
  Offered,    \* what the API may list as RFQ pairs of a chain, by id
  ClobPairs   \* the CLOB's pairs, as <<base, quote>>

VARIABLES
  rfqPairs,   \* self.rfq_pairs: pairs by chain id, or None
  clobPairs,  \* self.pairs
  pairCache,  \* the semi-static tier: what get_swap_pairs answered a reference
  refreshing, \* chain ids whose pairs a refresh has yet to receive
  asked       \* what the quote API was asked

quoteVars == <<rfqPairs, clobPairs, pairCache, refreshing, asked>>

Ids == {c.id : c \in UNION Configs}

QuoteInit ==
  /\ rfqPairs = [i \in Ids |-> None] /\ clobPairs = {}
  /\ pairCache = [r \in {q.ref : q \in {x \in UNION {Requests[k] : k \in Calls} : x.kind = "pairs"}}
                    |-> None]
  /\ refreshing = {} /\ asked = [k \in Calls |-> None]

-----------------------------------------------------------------------------
(* The pairs *)

\* _fetch_rfq_pairs: every list is forgotten, and asked for anew.
RefreshPairs ==
  /\ changes < MaxChanges /\ changes' = changes + 1
  /\ rfqPairs' = [i \in Ids |-> None]
  /\ refreshing' = {c.id : c \in config}
  /\ UNCHANGED <<config, active, listing, account, ledger, shelf, had, worth, cacheVars,
                 callVars, clobPairs, pairCache, asked>>

\* An answer, or a failure that nobody hears of.
RefreshedPairs(i) ==
  /\ i \in refreshing /\ refreshing' = refreshing \ {i}
  /\ \/ \E pairs \in Offered[i] : rfqPairs' = [rfqPairs EXCEPT ![i] = pairs]
     \/ UNCHANGED rfqPairs
  /\ UNCHANGED <<worldVars, cacheVars, callVars, clobPairs, pairCache, asked>>

ForgetPairs(r) ==
  /\ pairCache[r] # None /\ pairCache' = [pairCache EXCEPT ![r] = None]
  /\ UNCHANGED <<worldVars, cacheVars, callVars, rfqPairs, clobPairs, refreshing, asked>>

\* get_swap_pairs: from the cache, which puts them back under the chain the reference means
\* by now, from what is known of the chain, or from the API.
GetPairs(k, q) ==
  LET r == Resolve(config, q.ref, active, FALSE) IN
  /\ phase[k] = "idle" /\ q.kind = "pairs"
  /\ ask' = [ask EXCEPT ![k] = q] /\ Begins(k, Len(shelf))
  /\ chain' = [chain EXCEPT ![k] = IF r.ok THEN r.chain ELSE None]
  /\ CASE pairCache[q.ref] # None ->
            /\ End(k, [ok |-> TRUE, pairs |-> pairCache[q.ref]])
            /\ rfqPairs' = IF r.ok THEN [rfqPairs EXCEPT ![r.chain.id] = pairCache[q.ref]]
                           ELSE rfqPairs
            /\ UNCHANGED pairCache
       [] pairCache[q.ref] = None /\ ~r.ok -> End(k, Failed) /\ UNCHANGED <<rfqPairs, pairCache>>
       [] pairCache[q.ref] = None /\ r.ok /\ rfqPairs[r.chain.id] # None ->
            /\ End(k, [ok |-> TRUE, pairs |-> rfqPairs[r.chain.id]])
            /\ pairCache' = [pairCache EXCEPT ![q.ref] = rfqPairs[r.chain.id]]
            /\ UNCHANGED rfqPairs
       [] OTHER ->
            /\ phase' = [phase EXCEPT ![k] = "fetching"]
            /\ UNCHANGED <<answer, rfqPairs, pairCache>>
  /\ UNCHANGED <<worldVars, cacheVars, who, todo, units, rows, batch, clobPairs, refreshing,
                 asked>>

PairsArrive(k) ==
  /\ phase[k] = "fetching"
  /\ \/ \E pairs \in Offered[chain[k].id] :
          /\ rfqPairs' = [rfqPairs EXCEPT ![chain[k].id] = pairs]
          /\ pairCache' = [pairCache EXCEPT ![ask[k].ref] = pairs]
          /\ End(k, [ok |-> TRUE, pairs |-> pairs])
     \/ End(k, Failed) /\ UNCHANGED <<rfqPairs, pairCache>>
  /\ UNCHANGED <<worldVars, cacheVars, ask, chain, who, todo, units, rows, batch, began,
                 clobPairs, refreshing, asked>>

-----------------------------------------------------------------------------
(* A quote *)

\* Mutant: the reverse pair is asked for with the forward pair's base.
OrientationAlwaysBase(from, to, pairs) ==
  CASE <<from, to>> \in pairs -> [pair |-> <<from, to>>, side |-> 1, isbase |-> 1]
    [] <<from, to>> \notin pairs /\ <<to, from>> \in pairs ->
         [pair |-> <<to, from>>, side |-> 0, isbase |-> 1]
    [] OTHER -> None

\* _resolve_pair: the pair as it is listed, or reversed.
Orientation(from, to, pairs) ==
  CASE <<from, to>> \in pairs -> [pair |-> <<from, to>>, side |-> 1, isbase |-> 1]
    [] <<from, to>> \notin pairs /\ <<to, from>> \in pairs ->
         [pair |-> <<to, from>>, side |-> 0, isbase |-> 0]
    [] OTHER -> None

Known(i) == IF rfqPairs[i] = None THEN {} ELSE rfqPairs[i]

\* What the API is asked for, of a chain and the pair that was found.
Asks(id, found) ==
  [chain |-> id, taker |-> account, pair |-> found.pair, side |-> found.side,
   isbase |-> found.isbase]

\* get_swap_soft_quote and get_swap_firm_quote, without a chain on the client's own: the
\* chain's RFQ pairs first, then the CLOB's, which are fetched if there are none.
Quote(k, q) ==
  LET r == IF q.ref = None /\ active = None THEN Unresolved("required")
           ELSE Resolve(config, IF q.ref = None THEN active ELSE q.ref, active, FALSE) IN
  /\ phase[k] = "idle" /\ q.kind = "quote"
  /\ ask' = [ask EXCEPT ![k] = q] /\ Begins(k, Len(shelf))
  /\ chain' = [chain EXCEPT ![k] = IF r.ok THEN r.chain ELSE None]
  /\ IF ~r.ok THEN End(k, Failed) /\ UNCHANGED asked
     ELSE LET rfq == Orientation(q.from, q.to, Known(r.chain.id))
              found == IF rfq # None THEN rfq ELSE Orientation(q.from, q.to, clobPairs) IN
          CASE found # None ->
                 /\ asked' = [asked EXCEPT ![k] = Asks(r.chain.id, found)]
                 /\ phase' = [phase EXCEPT ![k] = "quoting"] /\ UNCHANGED answer
            [] found = None /\ clobPairs # {} -> End(k, Failed) /\ UNCHANGED asked
            [] OTHER ->
                 phase' = [phase EXCEPT ![k] = "pairing"] /\ UNCHANGED <<answer, asked>>
  /\ UNCHANGED <<worldVars, cacheVars, who, todo, units, rows, batch, rfqPairs, clobPairs,
                 pairCache, refreshing>>

ClobPairsArrive(k) ==
  /\ phase[k] = "pairing"
  /\ clobPairs' \in {clobPairs, ClobPairs}
  /\ LET found == Orientation(ask[k].from, ask[k].to, clobPairs') IN
     IF found = None THEN End(k, Failed) /\ UNCHANGED asked
     ELSE /\ asked' = [asked EXCEPT ![k] = Asks(chain[k].id, found)]
          /\ phase' = [phase EXCEPT ![k] = "quoting"] /\ UNCHANGED answer
  /\ UNCHANGED <<worldVars, cacheVars, ask, chain, who, todo, units, rows, batch, began,
                 rfqPairs, pairCache, refreshing>>

\* The API's answer, whose success may be a refusal inside.
QuoteArrives(k) ==
  /\ phase[k] = "quoting"
  /\ \E ok \in BOOLEAN : End(k, [ok |-> ok])
  /\ UNCHANGED <<worldVars, cacheVars, ask, chain, who, todo, units, rows, batch, began,
                 quoteVars>>

QuoteStep(k) ==
  \/ \E q \in Requests[k] : GetPairs(k, q) \/ Quote(k, q)
  \/ PairsArrive(k) \/ ClobPairsArrive(k) \/ QuoteArrives(k)
=============================================================================
