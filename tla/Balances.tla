------------------------------ MODULE Balances ------------------------------
(***************************************************************************)
(* core/transfer.py: what the balance methods answer.                      *)
(*                                                                         *)
(* A call resolves the chain it is asked about and the address, then reads *)
(* its rows one by one, in any order, while the ledgers, the signer, the   *)
(* listed tokens and the connected chains change; a read may fail.  The    *)
(* methods differ in the rows they read and in what a failed row does to   *)
(* the answer.  A cache keeps single rows, and another the whole answers   *)
(* of the methods that read several.                                       *)
(*                                                                         *)
(* Amounts are whole numbers of the finest unit a caller can type,         *)
(* 10^-Default; Default stands for the 18 decimals of a native token.  The *)
(* float a portfolio's amount is shown as is taken for the amount itself.  *)
(***************************************************************************)
EXTENDS ChainReferences, Sequences

CONSTANTS
  Calls, Accounts, Tokens,
  Portfolio,    \* the subnet contract that holds deposited tokens
  Configs,      \* what chain_config may hold, as sets of chains
  Listings,     \* what token_data may hold: decimals per token and chain, or None
  Default,
  Unit,         \* the worth of one base unit of a token with so many decimals
  OwnChains,    \* chains that become the client's own (Avalanche, Fuji)
  Ledgers,      \* balances of the first instant
  Shelves,      \* lists of tokens of the first instant
  Batch, PageCap,  \* _BATCH_SIZE, _PAGE_HARD_CAP
  Requests,     \* what each call may be
  Moved,        \* balances that others may move, as <<account, place>>
  MaxChanges    \* bound on the changes around the calls

AllChains == (UNION Configs) \cup {L1}
Where == AllChains \cup {Portfolio}
Names == Tokens \cup {c.native : c \in AllChains}
Places == Where \X Names

\* A token of d decimals has base units of 10^(Default - d).
ASSUME UnitAssumption ==
  /\ Default \in Nat /\ Unit \in [0..Default -> Nat \ {0}]
  /\ Unit[Default] = 1 /\ \A d \in 1..Default : Unit[d - 1] = 10 * Unit[d]
ASSUME PageAssumption == Batch \in Nat \ {0} /\ PageCap \in Nat
\* Ids tell connected chains apart.
ASSUME ChainAssumption ==
  /\ \A g \in Configs : IsFiniteSet(g) /\ \A c, d \in g : c.id = d.id => c = d
  /\ Portfolio \notin AllChains /\ L1.native = "ALOT"
ASSUME ListingAssumption ==
  \A l \in Listings : l \in [Tokens -> [AllChains -> 0..Default \cup {None}]]
ASSUME LedgerAssumption ==
  /\ Accounts # {} /\ Ledgers \subseteq [Accounts -> [Places -> Nat]]
  /\ Moved \subseteq Accounts \X Places /\ \A s \in Shelves : s \in Seq(Names)
ASSUME RequestAssumption ==
  \A k \in Calls : \A q \in Requests[k] :
    /\ q.tokens \subseteq Names /\ q.who \in Accounts \cup {None} /\ q.amount \in Nat
    /\ q.kind = "transfer_portfolio" => q.token \in Names

VARIABLES
  config, active, listing, account,
  ledger,   \* raw balance of every account at every place
  shelf,    \* the tokens of the portfolio contract, a page each
  recent,   \* the balance tier: the row read for an account and place, or None
  kept,     \* ... and the calls whose whole answers it keeps
  changes,
  ask, phase, chain, who,  \* what a call wants, of which chain, for which address
  todo,     \* rows or pages it has yet to read
  units,    \* the decimals a list of rows was begun with
  rows,     \* rows it read
  batch,    \* the pages before the batch being read
  began,    \* history: the client as the call began, and how many tokens the contract
            \* listed as the reading of its answer began
  had,      \* history: the balances an account has had at a place
  worth,    \* history: the decimals a place has been shown with
  answer

worldVars == <<config, active, listing, account, ledger, shelf, changes, had, worth>>
cacheVars == <<recent, kept>>
callVars == <<ask, phase, chain, who, todo, units, rows, batch, began, answer>>

-----------------------------------------------------------------------------
(* Decimals *)

\* Utils.unit_conversion, both ways: what is typed is truncated.
ToBase(amount, d) == amount \div Unit[d]
Shown(raw, d) == raw * Unit[d]

\* _get_token_decimals.
Decimals(t, c) == IF t \in Tokens THEN listing[t][c] ELSE None
OwnChain == {c \in config : c.id = active}
OnOwnChain(t) == IF OwnChain = {} THEN None ELSE Decimals(t, CHOOSE c \in OwnChain : TRUE)

\* The decimals of a portfolio's token: those of the subnet, or of the client's own chain.
PortfolioDecimals(t) == IF Decimals(t, L1) # None THEN Decimals(t, L1) ELSE OnOwnChain(t)

\* ... which have to be some: neither none nor zero will do for those of the own chain.
OrDefault(d) == IF d \in {None, 0} THEN Default ELSE d
PortfolioUnits(t) ==
  IF Decimals(t, L1) # None THEN Decimals(t, L1) ELSE OrDefault(OnOwnChain(t))

\* The decimals a wallet's row is shown with; None when the token is not on the chain.
RowDecimals(p) ==
  CASE p[1] = Portfolio -> PortfolioDecimals(p[2])
    [] p[1] \in AllChains /\ p[2] = p[1].native -> Default
    [] OTHER -> IF p[1] = L1 THEN None ELSE Decimals(p[2], p[1])

-----------------------------------------------------------------------------
(* Around the calls *)

Fresh == [a \in Accounts |-> [p \in Places |-> None]]

OwnOf(connected) ==
  {c.id : c \in connected \cap OwnChains} \cup
  (IF connected \cap OwnChains = {} THEN {None} ELSE {})

WorldInit ==
  /\ config \in Configs /\ active \in OwnOf(config)
  /\ listing \in Listings /\ account = (CHOOSE a \in Accounts : TRUE) /\ ledger \in Ledgers
  /\ shelf \in Shelves
  /\ recent = Fresh /\ kept = {} /\ changes = 0
  /\ had = [a \in Accounts |-> [p \in Places |-> {ledger[a][p]}]]
  /\ worth = [p \in Places |-> {RowDecimals(p)} \ {None}]

\* initialize_client anew: other chains are connected.
ChainsFetched ==
  /\ config' \in Configs \ {config} /\ active' \in OwnOf(config')
  /\ UNCHANGED <<listing, account, ledger, shelf, had>>

\* _fetch_tokens and get_token_details.
TokensFetched ==
  /\ listing' \in Listings \ {listing}
  /\ UNCHANGED <<config, active, account, ledger, shelf, had>>

\* set_signer.
SignerReplaced ==
  /\ account' \in Accounts \ {account}
  /\ UNCHANGED <<config, active, listing, ledger, shelf, had>>

BalanceMoves ==
  /\ \E m \in Moved :
       /\ ledger[m[1]][m[2]] > 0 /\ ledger' = [ledger EXCEPT ![m[1]][m[2]] = 0]
       /\ had' = [had EXCEPT ![m[1]][m[2]] = @ \cup {0}]
  /\ UNCHANGED <<config, active, listing, account, shelf>>

ContractLists ==
  /\ \E t \in Tokens :
       (\A i \in DOMAIN shelf : shelf[i] # t) /\ shelf' = Append(shelf, t)
  /\ UNCHANGED <<config, active, listing, account, ledger, had>>

WorldChanges ==
  /\ changes < MaxChanges /\ changes' = changes + 1
  /\ ChainsFetched \/ TokensFetched \/ SignerReplaced \/ BalanceMoves \/ ContractLists
  /\ worth' = [p \in Places |-> worth[p] \cup ({RowDecimals(p)'} \ {None})]
  /\ UNCHANGED <<cacheVars, callVars>>

\* Ten seconds are over for what is cached, or invalidate_cache.
Forget ==
  /\ \/ /\ \E a \in Accounts, p \in Places :
            recent[a][p] # None /\ recent' = [recent EXCEPT ![a][p] = None]
        /\ UNCHANGED kept
     \/ (\E k \in kept : kept' = kept \ {k}) /\ UNCHANGED recent
  /\ UNCHANGED <<worldVars, callVars>>

-----------------------------------------------------------------------------
(* A call begins *)

CallInit ==
  /\ ask = [k \in Calls |-> None] /\ phase = [k \in Calls |-> "idle"]
  /\ chain = [k \in Calls |-> None] /\ who = [k \in Calls |-> None]
  /\ todo = [k \in Calls |-> {}]
  /\ units = [k \in Calls |-> <<>>] /\ rows = [k \in Calls |-> <<>>]
  /\ batch = [k \in Calls |-> 0] /\ began = [k \in Calls |-> None]
  /\ answer = [k \in Calls |-> None]

Failed == [ok |-> FALSE]

Begins(k, pages) ==
  began' = [began EXCEPT ![k] = [config |-> config, active |-> active, listing |-> listing,
                                 pages |-> pages]]

End(k, a) ==
  /\ answer' = [answer EXCEPT ![k] = a]
  /\ phase' = [phase EXCEPT ![k] = "done"]

WalletRows(c) ==
  IF c = L1 THEN {<<L1, "ALOT">>}
  ELSE {<<c, c.native>>} \cup {<<c, t>> : t \in {x \in Tokens : listing[x][c] # None}}

\* The rows a method reads: those asked for, or those of the native and the listed tokens.
RowsOf(q, c) ==
  CASE q.kind \in {"token", "tokens"} -> {<<c, t>> : t \in q.tokens}
    [] q.kind = "chain" -> WalletRows(c)
    [] q.kind = "all" -> UNION {WalletRows(d) : d \in config \cup {L1}}
    [] q.kind = "portfolio" -> {<<Portfolio, t>> : t \in q.tokens}
    [] q.kind = "pages" -> 1..(IF Batch < PageCap THEN Batch ELSE PageCap)

Queries == {"token", "tokens", "chain", "all", "portfolio", "pages"}
OfAChain == {"token", "tokens", "chain"}
Lists == {"chain", "all"}
Wallets == OfAChain \cup {"all"}

\* The methods of several rows keep their whole answers; those of single balances, which a
\* list of tokens is made of, keep their rows.
KeepsAnswer == {"tokens", "chain", "all", "pages"}
ByCache(q) == q.kind \in {"token", "tokens", "portfolio", "transfer_portfolio"}

Owner(q) == IF q.who = None THEN account ELSE q.who

\* Mutant: an answer is kept for whoever asks the same.
KeyForAll(q, c, w) == <<q.kind, c, q.tokens>>

\* What an answer is kept under: the method and its arguments, with the address.
Key(q, c, w) == <<q.kind, c, q.tokens, w>>
KeyOf(k) == Key(ask[k], chain[k], who[k])

\* The rows are read now.  A wallet's tokens, and their decimals, are those listed by now.
\* (A call that finds its key being read waits for that reading's answer: left out here.)
Reads(k, q, c) ==
  /\ q.kind \in KeepsAnswer =>
       \A j \in Calls : phase[j] = "reading" => KeyOf(j) # Key(q, c, Owner(q))
  /\ todo' = [todo EXCEPT ![k] = RowsOf(q, c)]
  /\ units' = [units EXCEPT ![k] =
       IF q.kind \in Wallets THEN [p \in RowsOf(q, c) |-> RowDecimals(p)] ELSE <<>>]
  /\ phase' = [phase EXCEPT ![k] = "reading"]
  /\ Begins(k, Len(shelf))
  /\ UNCHANGED <<answer, rows>>

\* The kept answer of an earlier call j, with all that it was made from.
Served(k, j) ==
  /\ End(k, answer[j])
  /\ rows' = [rows EXCEPT ![k] = rows[j]] /\ units' = [units EXCEPT ![k] = units[j]]
  /\ Begins(k, began[j].pages)
  /\ UNCHANGED todo

\* The chain is resolved and the address taken before anything is awaited.
Query(k, q) ==
  /\ phase[k] = "idle" /\ q.kind \in Queries
  /\ LET r == Resolve(config, q.ref, active, TRUE)
         fails == q.kind \in OfAChain /\ ~r.ok
         c == IF q.kind \in OfAChain /\ r.ok THEN r.chain ELSE None
         known == {j \in kept : KeyOf(j) = Key(q, c, Owner(q))} IN
     /\ ask' = [ask EXCEPT ![k] = q]
     /\ who' = [who EXCEPT ![k] = Owner(q)]
     /\ chain' = [chain EXCEPT ![k] = c]
     /\ \/ fails /\ End(k, Failed) /\ Begins(k, Len(shelf)) /\ UNCHANGED <<todo, units, rows>>
        \/ ~fails /\ \E j \in known : Served(k, j)
        \/ ~fails /\ known = {} /\ Reads(k, q, c)
  /\ UNCHANGED <<worldVars, cacheVars, batch>>

-----------------------------------------------------------------------------
(* Rows *)

Got(k, p, row) ==
  /\ rows' = [rows EXCEPT ![k] = [x \in DOMAIN rows[k] \cup {p} |->
                                    IF x = p THEN row ELSE rows[k][x]]]
  /\ todo' = [todo EXCEPT ![k] = @ \ {p}]

Row(value) == [ok |-> TRUE, value |-> value]
Missing(why) == [ok |-> FALSE, why |-> why]

\* Mutant: what was read last is given to whoever asks.
CachedOfAnyone(k, p) ==
  IF \E a \in Accounts : recent[a][p] # None
  THEN recent[CHOOSE a \in Accounts : recent[a][p] # None][p] ELSE None

\* The cached row, under the address it was read for.
Cached(k, p) == recent[who[k]][p]

\* _get_chain_wallet_balance_cached, _get_native_balance, _get_erc20_balance,
\* _get_portfolio_balance_cached: one row.  A row that fails is not stored.
ReadRow(k, p) ==
  /\ phase[k] = "reading" /\ p \in todo[k] /\ ask[k].kind # "pages"
  /\ LET cached == IF ByCache(ask[k]) THEN Cached(k, p) ELSE None
         d == IF ask[k].kind \in Wallets THEN units[k][p] ELSE RowDecimals(p) IN
     \/ cached # None /\ Got(k, p, Row(cached)) /\ UNCHANGED recent
     \/ /\ cached = None /\ d # None
        /\ LET v == Shown(ledger[who[k]][p], d) IN
           /\ Got(k, p, Row(v))
           /\ recent' = IF ByCache(ask[k]) THEN [recent EXCEPT ![who[k]][p] = v] ELSE recent
     \/ /\ cached = None
        /\ Got(k, p, Missing(IF d = None THEN "unknown" ELSE "failed"))
        /\ UNCHANGED recent
  /\ UNCHANGED <<worldVars, kept, ask, phase, chain, who, units, batch, began, answer>>

GoodRows(k) == {p \in DOMAIN rows[k] : rows[k][p].ok}
Listed(k) == [p \in GoodRows(k) |-> rows[k][p].value]
BadRows(k) == DOMAIN rows[k] \ GoodRows(k)

\* Mutant: the rows that could be read are answered without the others.
AnswerLeniently(k) == [ok |-> TRUE, rows |-> Listed(k), errors |-> BadRows(k)]

\* One row; a list of tokens, all of which must be there; or the rows of wallets with the
\* failures beside them, a failure only if there is nothing else.
Answer(k) ==
  CASE ask[k].kind \in {"token", "tokens", "portfolio"} /\ BadRows(k) # {} -> Failed
    [] ask[k].kind \in {"chain", "all"} /\ GoodRows(k) = {} /\ BadRows(k) # {} -> Failed
    [] OTHER -> [ok |-> TRUE, rows |-> Listed(k), errors |-> BadRows(k)]

\* A success is kept where the method keeps its answers.
Keeps(k, a) == kept' = IF a.ok /\ ask[k].kind \in KeepsAnswer THEN kept \cup {k} ELSE kept

Assemble(k) ==
  /\ phase[k] = "reading" /\ todo[k] = {} /\ ask[k].kind \in Queries \ {"pages"}
  /\ End(k, Answer(k)) /\ Keeps(k, Answer(k))
  /\ UNCHANGED <<worldVars, recent, ask, chain, who, todo, units, rows, batch, began>>

-----------------------------------------------------------------------------
(* The portfolio, page by page *)

\* getBalances of a page, which may be empty, or the failure of the call.
ReadPage(k, i) ==
  /\ phase[k] = "reading" /\ i \in todo[k] /\ ask[k].kind = "pages"
  /\ \/ /\ i \in DOMAIN shelf
        /\ Got(k, i, [ok |-> TRUE, token |-> shelf[i],
                      value |-> ledger[who[k]][<<Portfolio, shelf[i]>>]])
     \/ i \notin DOMAIN shelf /\ Got(k, i, Missing("empty"))
     \/ Got(k, i, Missing("failed"))
  /\ UNCHANGED <<worldVars, cacheVars, ask, phase, chain, who, units, batch, began, answer>>

\* The pages before the first that is empty.
Full(k) == {i \in DOMAIN rows[k] :
              \A j \in DOMAIN rows[k] : j <= i => rows[k][j].ok \/ rows[k][j].why # "empty"}

\* The rows of the batch as they are shown.
Valued(k) ==
  [i \in DOMAIN rows[k] |->
     IF ~rows[k][i].ok \/ i <= batch[k] THEN rows[k][i]
     ELSE [rows[k][i] EXCEPT !.value = Shown(@, PortfolioUnits(rows[k][i].token))]]

ByToken(pages, full) ==
  [t \in {pages[i].token : i \in full} |->
     pages[CHOOSE i \in full : pages[i].token = t].value]

\* Mutant: the page after a batch is passed over.
FirstOfNextOff(k) == batch[k] + Batch + 1

FirstOfNext(k) == batch[k] + Batch

\* A batch is complete: a failed page among the full ones fails the call, an empty one, or
\* the cap, ends it.
BatchEnds(k) ==
  /\ phase[k] = "reading" /\ todo[k] = {} /\ ask[k].kind = "pages"
  /\ rows' = [rows EXCEPT ![k] = Valued(k)]
  /\ LET next == FirstOfNext(k) IN
     CASE \E i \in Full(k) : ~rows[k][i].ok ->
            End(k, Failed) /\ UNCHANGED <<kept, todo, batch>>
       [] /\ \A i \in Full(k) : rows[k][i].ok
          /\ Full(k) # DOMAIN rows[k] \/ next >= PageCap ->
            /\ End(k, [ok |-> TRUE, rows |-> ByToken(Valued(k), Full(k)), errors |-> {}])
            /\ kept' = kept \cup {k}
            /\ UNCHANGED <<todo, batch>>
       [] OTHER ->
            /\ todo' = [todo EXCEPT ![k] =
                 (next + 1)..(IF next + Batch < PageCap THEN next + Batch ELSE PageCap)]
            /\ batch' = [batch EXCEPT ![k] = next]
            /\ UNCHANGED <<kept, phase, answer>>
  /\ UNCHANGED <<worldVars, recent, ask, chain, who, units, began>>

QueryStep(k) ==
  \/ \E q \in Requests[k] : Query(k, q)
  \/ \E p \in todo[k] : ReadRow(k, p) \/ ReadPage(k, p)
  \/ Assemble(k) \/ BatchEnds(k)
=============================================================================
