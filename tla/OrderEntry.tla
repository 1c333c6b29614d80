----------------------------- MODULE OrderEntry -----------------------------
(***************************************************************************)
(* How core/clob.py turns what a caller typed into the order structs it    *)
(* signs: add_order, add_limit_order_list, replace_order, cancel_add_list. *)
(*                                                                         *)
(* A call builds its orders one by one, adding up the balance they lock;   *)
(* the first two then compare each token's sum with the portfolio balance, *)
(* one await per token; and the whole list goes into one transaction.      *)
(*                                                                         *)
(* Decimals are integers, in a unit as small as the precision tolerance or *)
(* smaller: the arithmetic of Decimal is exact.  Balances are floats, and  *)
(* the lists convert and add up what their orders lock as floats: each     *)
(* such step may be off by Slack, half the distance of two floats at the   *)
(* largest number a call meets, and which way it is off is left open.      *)
(***************************************************************************)
EXTENDS Integers, Sequences, FiniteSets

CONSTANTS
  Pairs,
  Base, Quote,               \* the tokens of a pair
  PriceQuantum, AmountQuantum, \* one in the last display decimal of quote and base
  PriceWei, AmountWei,       \* one atomic unit of quote and base
  MinTrade, MaxTrade,        \* bounds of the notional, 0 for none
  Tolerance,                 \* _DISPLAY_PRECISION_TOLERANCE
  Requests,                  \* orders a caller may type
  Balances,                  \* portfolio balances of a token
  Slack,                     \* bound on what one rounding to a float is off
  MaxOrders,                 \* bound on the length of a list
  NoPrice                    \* price is None

Tokens == {Base[p] : p \in Pairs} \cup {Quote[p] : p \in Pairs}
RequestType == [pair : Pairs, side : {"BUY", "SELL"}, type : {"LIMIT", "MARKET"},
                price : Int \cup {NoPrice}, amount : Int]

ASSUME PairAssumption ==
  /\ PriceQuantum \in [Pairs -> Nat \ {0}] /\ AmountQuantum \in [Pairs -> Nat \ {0}]
  /\ PriceWei \in [Pairs -> Nat \ {0}] /\ AmountWei \in [Pairs -> Nat \ {0}]
  /\ MinTrade \in [Pairs -> Nat] /\ MaxTrade \in [Pairs -> Nat]
  /\ Tolerance \in Nat
\* A display decimal is a decimal of the token (the exchange's own pair data).
ASSUME DecimalsAssumption ==
  \A p \in Pairs : PriceQuantum[p] % PriceWei[p] = 0 /\ AmountQuantum[p] % AmountWei[p] = 0
ASSUME RequestAssumption ==
  /\ Requests \subseteq RequestType /\ Balances \subseteq Nat /\ MaxOrders \in Nat \ {0}
  /\ Slack \in Nat
  /\ NoPrice \notin Int

VARIABLES
  path,      \* the method called
  typed,     \* the orders it was given
  built,     \* the order structs built so far
  required,  \* required_balances; 0 for a token that is not in it
  unchecked, \* tokens whose balance is still to be compared
  seen,      \* history: the balance a token was compared with
  stage

entryVars == <<path, typed, built, required, unchecked, seen, stage>>

Paths == {"add_order", "add_limit_order_list", "replace_order", "cancel_add_list"}
Stages == {"idle", "building", "checking", "sent", "refused"}
Single == {"add_order", "replace_order"}
Checking == {"add_order", "add_limit_order_list"}

-----------------------------------------------------------------------------
(* One order *)

\* bool(price) in Python.
HasPrice(price) == price # NoPrice /\ price # 0

\* Decimal.quantize(quantum, ROUND_HALF_EVEN).
Nearest(v, quantum) ==
  LET down == v \div quantum  rest == v % quantum IN
  IF 2 * rest < quantum \/ (2 * rest = quantum /\ down % 2 = 0)
  THEN down * quantum ELSE (down + 1) * quantum

Distance(v, w) == IF v < w THEN w - v ELSE v - w

\* _check_display_precision.
Displayable(v, quantum) == Distance(v, Nearest(v, quantum)) <= Tolerance

Price(r) == IF HasPrice(r.price) THEN Nearest(r.price, PriceQuantum[r.pair]) ELSE r.price
Amount(r) == Nearest(r.amount, AmountQuantum[r.pair])

\* _check_trade_amount_bounds, on the rounded numbers.
InBounds(r) ==
  Price(r) # NoPrice =>
    LET notional == Price(r) * Amount(r) IN
    /\ MinTrade[r.pair] > 0 => notional >= MinTrade[r.pair]
    /\ MaxTrade[r.pair] > 0 => notional <= MaxTrade[r.pair]

\* Mutant: only the amount's precision is checked.
NormalInAmount(r) ==
  /\ Displayable(r.amount, AmountQuantum[r.pair])
  /\ InBounds(r)

\* _normalize_order_amounts succeeds.
Normal(r) ==
  /\ HasPrice(r.price) => Displayable(r.price, PriceQuantum[r.pair])
  /\ Displayable(r.amount, AmountQuantum[r.pair])
  /\ InBounds(r)

\* validate_order_combo.
ComboOK(type, hasPrice) == type = "LIMIT" => hasPrice

\* validate_positive_number: neither None nor zero nor negative.
Positive(v) == v # NoPrice /\ v > 0

\* validate_order_params.
ParamsOK(r) == Positive(r.amount) /\ (r.type = "LIMIT" => Positive(r.price))

\* Mutant: replace_order leaves the checks to the contract.
AcceptedReplaceUnchecked(p, r) ==
  CASE p = "add_order" -> ParamsOK(r) /\ ComboOK(r.type, HasPrice(r.price)) /\ Normal(r)
    [] p = "replace_order" -> r.price # NoPrice
    [] OTHER -> Normal(r) /\ ComboOK(r.type, HasPrice(Price(r)))

\* The checks of a path, in whose order the refusals differ in wording only.  add_order
\* resolves the modifiers before it rounds, the lists do so after.
Accepted(p, r) ==
  CASE p = "add_order" -> ParamsOK(r) /\ ComboOK(r.type, HasPrice(r.price)) /\ Normal(r)
    [] p = "replace_order" -> Normal(r) /\ r.price # NoPrice
    [] OTHER -> Normal(r) /\ ComboOK(r.type, HasPrice(Price(r)))

\* int(value * 10 ** decimals).
ToWei(v, wei) == IF v >= 0 THEN v \div wei ELSE -((-v) \div wei)

OrderStruct(r) ==
  [pair |-> r.pair, side |-> r.side, type |-> r.type,
   price |-> IF HasPrice(Price(r)) THEN ToWei(Price(r), PriceWei[r.pair]) ELSE 0,
   quantity |-> ToWei(Amount(r), AmountWei[r.pair])]

\* The ABI encoder takes unsigned numbers only.
Encodable(s) == s.price >= 0 /\ s.quantity >= 0

\* What an order locks, per token; a market buy's notional is not known.
Locks(r) ==
  CASE r.type = "MARKET" /\ r.side = "BUY" -> [t \in Tokens |-> 0]
    [] r.type # "MARKET" /\ r.side = "BUY" ->
         [t \in Tokens |-> IF t = Quote[r.pair] THEN Price(r) * Amount(r) ELSE 0]
    [] OTHER -> [t \in Tokens |-> IF t = Base[r.pair] THEN Amount(r) ELSE 0]

\* required_balances has an entry for the token.
Counts(r, t) ==
  \/ r.side = "SELL" /\ t = Base[r.pair]
  \/ r.side = "BUY" /\ r.type # "MARKET" /\ t = Quote[r.pair]

-----------------------------------------------------------------------------
(* A call *)

EntryInit ==
  /\ path \in Paths
  /\ typed = <<>> /\ built = <<>>
  /\ required = [t \in Tokens |-> 0]
  /\ unchecked = {}
  /\ seen = [t \in Tokens |-> 0]
  /\ stage = "idle"

\* The orders as typed, one at a time to keep the choices apart.
Type(r) ==
  /\ stage = "idle"
  /\ Len(typed) < IF path \in Single THEN 1 ELSE MaxOrders
  /\ typed' = Append(typed, r)
  /\ UNCHANGED <<path, built, required, unchecked, seen, stage>>

BeginOrders ==
  /\ stage = "idle" /\ typed # <<>>
  /\ stage' = "building"
  /\ UNCHANGED <<path, typed, built, required, unchecked, seen>>

Next1 == typed[Len(built) + 1]

\* How far off an order's share of required_balances may be: add_order keeps the Decimal,
\* the others round it to a float, and the sum with the float that is there once more.
Errors == IF path = "add_order" THEN {0} ELSE (-(2 * Slack))..(2 * Slack)

\* Mutant: a token's requirement is overwritten.
BuildOverwriting ==
  /\ stage = "building" /\ Len(built) < Len(typed)
  /\ Accepted(path, Next1)
  /\ built' = Append(built, OrderStruct(Next1))
  /\ required' = [t \in Tokens |-> IF Counts(Next1, t) THEN Locks(Next1)[t] ELSE required[t]]
  /\ unchecked' = unchecked \cup {t \in Tokens : path \in Checking /\ Counts(Next1, t)}
  /\ UNCHANGED <<path, typed, seen, stage>>

\* _build_order_tuple and its like, for the next order of the list.
Build ==
  /\ stage = "building" /\ Len(built) < Len(typed)
  /\ Accepted(path, Next1)
  /\ built' = Append(built, OrderStruct(Next1))
  /\ \E e \in Errors :
       required' = [t \in Tokens |-> IF Counts(Next1, t) THEN required[t] + Locks(Next1)[t] + e
                                     ELSE required[t]]
  /\ unchecked' = unchecked \cup {t \in Tokens : path \in Checking /\ Counts(Next1, t)}
  /\ UNCHANGED <<path, typed, seen, stage>>

\* One order that is not accepted, a pair that cannot be found, an order to replace that
\* cannot be resolved: the whole call returns.
Refuse ==
  /\ stage \in {"building", "checking"}
  /\ stage' = "refused"
  /\ UNCHANGED <<path, typed, built, required, unchecked, seen>>

BuildEnds ==
  /\ stage = "building" /\ Len(built) = Len(typed)
  /\ stage' = "checking"
  /\ UNCHANGED <<path, typed, built, required, unchecked, seen>>

\* _check_balance_for_token, _check_order_balance: the balance b is a float too.
Enough(t, b) == \E available \in (b - Slack)..(b + Slack) : available >= required[t]

\* The portfolio's balance of t is read, from the chain or the cache, and is b by now.
CheckBalance(t, b) ==
  /\ stage = "checking" /\ t \in unchecked
  /\ Enough(t, b)
  /\ unchecked' = unchecked \ {t}
  /\ seen' = [seen EXCEPT ![t] = b]
  /\ UNCHANGED <<path, typed, built, required, stage>>

\* The list is encoded and handed to _send_trade_tx.
SendOrders ==
  /\ stage = "checking" /\ unchecked = {}
  /\ \A i \in DOMAIN built : Encodable(built[i])
  /\ stage' = "sent"
  /\ UNCHANGED <<path, typed, built, required, unchecked, seen>>

EntryNext ==
  \/ \E r \in Requests : Type(r)
  \/ BeginOrders \/ Build \/ Refuse \/ BuildEnds
  \/ \E t \in Tokens, b \in Balances : CheckBalance(t, b)
  \/ SendOrders
  \/ stage \in {"sent", "refused"} /\ UNCHANGED entryVars

EntrySpec == EntryInit /\ [][EntryNext]_entryVars

-----------------------------------------------------------------------------
\* The types: what is signed has numbers only, and no more orders than were typed.
OrderTypeOK ==
  /\ path \in Paths /\ stage \in Stages
  /\ typed \in Seq(Requests) /\ Len(typed) <= MaxOrders
  /\ built \in Seq([pair : Pairs, side : {"BUY", "SELL"}, type : {"LIMIT", "MARKET"},
                    price : Int, quantity : Int])
  /\ Len(built) <= Len(typed)
  /\ required \in [Tokens -> Int] /\ unchecked \subseteq Tokens
  /\ seen \in [Tokens -> Nat]

Sent(i) == stage = "sent" /\ i \in DOMAIN built

\* "The SDK enforces this client-side and rejects inputs that exceed the bound rather than
\* silently rounding" (README.md:1418): what is signed differs from what was typed by no
\* more than the tolerance for float noise, on every path, and is a multiple of the pair's
\* display quantum, so the conversion to atomic units loses nothing.
SentAsTyped ==
  \A i \in 1..MaxOrders : Sent(i) =>
    LET r == typed[i]  s == built[i]
        price == s.price * PriceWei[r.pair]  amount == s.quantity * AmountWei[r.pair] IN
    /\ s.pair = r.pair /\ s.side = r.side /\ s.type = r.type
    /\ Distance(price, IF r.price = NoPrice THEN 0 ELSE r.price) <= Tolerance
    /\ Distance(amount, r.amount) <= Tolerance
    /\ price % PriceQuantum[r.pair] = 0 /\ amount % AmountQuantum[r.pair] = 0

\* What a signed order may lock on the exchange.
Lock(s, t) ==
  IF s.side = "SELL" THEN IF t = Base[s.pair] THEN s.quantity * AmountWei[s.pair] ELSE 0
  ELSE IF s.type = "LIMIT" /\ t = Quote[s.pair]
       THEN s.price * PriceWei[s.pair] * s.quantity * AmountWei[s.pair] ELSE 0

\* The units of t that the orders signed may lock, each once: as many as the locks add up to.
Locked(t) == UNION {{i} \X (1..Lock(built[i], t)) : i \in DOMAIN built}

\* What the float arithmetic of n orders and of the balance may be off.
Slop(n) == Slack + (IF path = "add_order" THEN 0 ELSE 2 * Slack * n)

\* The list as a whole is covered: each token's balance, when it was read, was enough for
\* all the orders signed that lock the token, market buys aside, although each order was
\* checked by itself and each token's balance is read at another time; but for the
\* rounding of one float per number and one per sum, which is all that may be missing.
BalanceCoversList ==
  stage = "sent" /\ path \in Checking =>
    \A t \in Tokens : Cardinality(Locked(t)) <= seen[t] + Slop(Len(built))

\* "the order-type matrix is enforced uniformly" (clob.py:1511), "all four CLOB write paths
\* gain the check" (docs/python-sdk-remediation-plan.md:961): an order that one path signs
\* is acceptable to every other, which signs the same numbers.  (Orders of a positive
\* amount whose price does not round to 0, and a replacement with a price.)
PathsAgree ==
  \A i \in 1..MaxOrders : Sent(i) =>
    LET r == typed[i] IN
    r.amount > 0 /\ r.price # NoPrice /\ Price(r) > 0 =>
      \A p \in Paths : Accepted(p, r) /\ OrderStruct(r) = built[i]

\* The same of every order that add_order signs.
MatrixUniform ==
  \A i \in 1..MaxOrders : Sent(i) /\ path = "add_order" =>
    Accepted("add_limit_order_list", typed[i])

\* "must be None / 0 for MARKET orders" (clob.py:482): a market order priced 0 is as good
\* as one without a price.
MarketPriceZeroIsNone ==
  \A r \in Requests : \A q \in Requests :
    /\ q = [r EXCEPT !.price = 0] /\ r.price = NoPrice /\ r.type = "MARKET"
    /\ Accepted("add_order", r) => Accepted("add_order", q)

\* "Checks aggregated portfolio balances across all orders before submitting"
\* (clob.py:1828): to the last unit that holds of neither path.
BalanceCoversExactly ==
  stage = "sent" /\ path \in Checking =>
    \A t \in Tokens : Cardinality(Locked(t)) <= seen[t]
=============================================================================
