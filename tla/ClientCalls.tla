---------------------------- MODULE ClientCalls ----------------------------
(***************************************************************************)
(* The calls of one client that read balances, move tokens and ask for     *)
(* quotes, together: they share the connected chains, the listed tokens,   *)
(* the signer, the cached balances and the ledgers the chains keep.        *)
(***************************************************************************)
EXTENDS PortfolioTransfers, SwapQuotes

vars == <<worldVars, cacheVars, callVars, transferVars, quoteVars>>

Init == WorldInit /\ CallInit /\ TransferInit /\ QuoteInit

Next ==
  \/ (WorldChanges \/ Forget) /\ UNCHANGED <<transferVars, quoteVars>>
  \/ (RefreshPairs \/ \E i \in Ids : RefreshedPairs(i)) /\ UNCHANGED transferVars
  \/ \E r \in DOMAIN pairCache : ForgetPairs(r) /\ UNCHANGED transferVars
  \/ \E k \in Calls : QueryStep(k) /\ UNCHANGED <<transferVars, quoteVars>>
  \/ \E k \in Calls : TransferStep(k) /\ UNCHANGED quoteVars
  \/ \E k \in Calls : QuoteStep(k) /\ UNCHANGED transferVars

Spec == Init /\ [][Next]_vars

-----------------------------------------------------------------------------
(* Properties *)

Phases == {"idle", "reading", "sending", "fetching", "pairing", "quoting", "done"}

\* Every call is in a known phase and is answered only when it has read all it had to; what
\* it sends has a quantity; no balance is overdrawn.
CallsTypeOK ==
  /\ \A k \in Calls :
       /\ phase[k] \in Phases
       /\ phase[k] # "done" => answer[k] = None
       /\ phase[k] # "reading" => todo[k] = {}
       /\ sent[k] # None => quantity[k] \in Nat
  /\ \A a \in Accounts, p \in Places :
       ledger[a][p] \in Nat /\ recent[a][p] \in Nat \cup {None}

\* The environments a reference names beside a family.
Environments(ref) == {f[2] : f \in Matched(ref)} \ {None}

\* A chain a description cannot mean, though its family is the same.
RuledOut(c, ref) == Environments(ref) # {} /\ EnvironmentKind(c) \notin Environments(ref)

\* A reference that is not a chain's own name or id never ends at a chain of the environment
\* it does not name, and where several connected chains answer it only ever at the client's
\* own: nobody deposits, withdraws or reads on a chain picked among several
\* (base.py:722, _prefer_active_chain).
ReferenceHonoured ==
  \A k \in Calls : chain[k] \notin {None, L1} =>
    LET c == chain[k]
        ref == IF ask[k].ref = None THEN c.id ELSE ask[k].ref IN
    \/ ref \in {c.id, c.name}
    \/ /\ ~RuledOut(c, ref)
       /\ \/ c.id = began[k].active
          \/ \A d \in began[k].config \ {c} : Family(d) = Family(c) => RuledOut(d, ref)

\* Rows that are single balances are all there, or the call fails; of the wallets a call
\* began with every row is a balance or an error, and the call fails only if none is a
\* balance.
Whole(k) ==
  IF ask[k].kind \in Lists
  THEN IF answer[k].ok
       THEN /\ DOMAIN answer[k].rows \cup answer[k].errors = DOMAIN units[k]
            /\ DOMAIN answer[k].rows \cap answer[k].errors = {}
            /\ DOMAIN answer[k].rows = {} => answer[k].errors = {}
       ELSE \A p \in DOMAIN rows[k] : ~rows[k][p].ok
  ELSE answer[k].ok => {p[2] : p \in DOMAIN answer[k].rows} = ask[k].tokens

\* A balance answer is whole, whatever was refreshed or failed meanwhile, and each balance
\* is one the account it was asked for has had there, shown with decimals the token has had
\* there, never that of an account asked about, or signing, before or since; of an answer
\* from the cache all of this goes back to the call that read it (transfer.py:193-981).
AnswersAddUp ==
  \A k \in Calls : phase[k] = "done" /\ ask[k].kind \in Queries \ {"pages"} =>
    /\ Whole(k)
    /\ \A p \in GoodRows(k) : \E raw \in had[who[k]][p], d \in worth[p] :
         rows[k][p].value = Shown(raw, d)

\* All portfolio balances are those of every token the contract listed when their reading
\* began, which is as the call began or, of a cached answer, not ten seconds before, up to
\* the cap: no page is lost between two batches or in the cache (transfer.py:902-981).
PagesComplete ==
  \A k \in Calls : phase[k] = "done" /\ ask[k].kind = "pages" /\ answer[k].ok =>
    \A i \in 1..began[k].pages : i <= PageCap => shelf[i] \in DOMAIN answer[k].rows

\* The decimals a transfer is of: those of the chain a deposit is taken from and a
\* withdrawal sent to, those of the L1 within the portfolio; None where the token is not
\* listed there.  A native token has the default's.
DecimalsOf(k) ==
  LET t == ask[k].token
      listed(c) == IF t \in Tokens THEN began[k].listing[t][c] ELSE None IN
  CASE ask[k].kind \in {"add_gas", "remove_gas"} -> Default
    [] ask[k].kind = "withdraw" -> listed(chain[k])
    [] ask[k].kind = "deposit" ->
         IF listed(chain[k]) = None /\ t = chain[k].native THEN Default ELSE listed(chain[k])
    [] OTHER -> listed(L1)

\* The code takes no decimals for the lack of any.
Miscounted(k) == ask[k].kind = "transfer_portfolio" /\ DecimalsOf(k) = 0

\* A portfolio transfer that is sent is of no more than its sender has had, save what floats
\* cannot tell apart, while its token is listed and shown with the same decimals, and some
\* (transfer.py:1079-1093).
CoveredAsRead ==
  \A k \in Calls : sent[k] # None /\ ask[k].kind = "transfer_portfolio" =>
    LET p == <<Portfolio, ask[k].token>>
        d == DecimalsOf(k) IN
    d \notin {None, 0} /\ worth[p] \subseteq {d} =>
      \E raw \in had[who[k]][p] : Shown(quantity[k], d) <= Shown(raw, d) + Slack

AsAsked(k) ==
  /\ Shown(sent[k].quantity, DecimalsOf(k)) <= ask[k].amount
  /\ ask[k].amount < Shown(sent[k].quantity + 1, DecimalsOf(k))

\* What a transfer moves is what was typed, cut off at the token's last decimal where it is
\* taken from or sent to, whatever other chains list the token as, save a portfolio transfer
\* of a token without decimals; and a deposit is made on the client's own chain
\* (transfer.py:1379-1486, 1558-1606).
MovesWhatWasAsked ==
  \A k \in Calls : sent[k] # None =>
    /\ DecimalsOf(k) # None /\ ~Miscounted(k) => AsAsked(k)
    /\ ask[k].kind = "deposit" => chain[k].id = began[k].active

\* A quote is asked for a pair of the two tokens that sells the one the caller sells:
\* the pair's base is its first token, whichever way it is listed (swap.py:286-405).
QuoteSellsFrom ==
  \A k \in Calls : asked[k] # None =>
    /\ {asked[k].pair[1], asked[k].pair[2]} = {ask[k].from, ask[k].to}
    /\ asked[k].isbase = 1 <=> asked[k].pair[1] = ask[k].from
    /\ asked[k].side = asked[k].isbase

-----------------------------------------------------------------------------
(* What does not hold *)

\* An amount of a token without decimals is asked for as it was typed: transfer_portfolio
\* encodes it with 18 (transfer.py:1093).
ZeroDecimalsKept ==
  \A k \in Calls : sent[k] # None /\ Miscounted(k) => AsAsked(k)

\* The account whose balance was compared is the one that pays: the signer may be replaced
\* in between (base.py:814).
CheckedAccountPays ==
  \A k \in Calls : sent[k] # None /\ ask[k].kind = "transfer_portfolio" => sent[k].from = who[k]

\* A reference by family ends at a chain with an id of that family (base.py:457-459).
FamilyIsTrue ==
  \A k \in Calls : chain[k] \notin {None, L1} /\ ask[k].ref # None =>
    \/ ask[k].ref \in {chain[k].id, chain[k].name}
    \/ \E i \in DOMAIN Marks : /\ chain[k].id \in Marks[i].ids
                               /\ Marks[i].family \in {f[1] : f \in Matched(ask[k].ref)}

\* Pairs that a call answers are those of the chain its reference means (swap.py:182-193).
PairsOfTheirChain ==
  \A k \in Calls : phase[k] = "done" /\ ask[k].kind = "pairs" /\ answer[k].ok =>
    chain[k] # None /\ answer[k].pairs \in Offered[chain[k].id]
=============================================================================
