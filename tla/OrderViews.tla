--------------------------- MODULE OrderViews ---------------------------
(***************************************************************************)
(* The canonical form core/clob.py gives to an order, whether it comes as  *)
(* a row of the REST API (_transform_order_from_api) or as the struct of   *)
(* the TradePairs contract (_format_order_data).                           *)
(*                                                                         *)
(* An order of the model is [status, cid, filled]: its side, type and      *)
(* price go the way of its status and its amounts.  A row is a function    *)
(* from the keys it has, spelled one way or another, to their values.      *)
(***************************************************************************)
EXTENDS Naturals, Sequences, SequencesExt

CONSTANTS
  Size,     \* quantity of an order, in units of the base token
  BaseUnit, \* 10 ** base_decimals
  Pair,
  PairId,
  None,     \* Python's None
  Styles    \* how the API spells a row and its amounts, and whether it names the pair

ASSUME SizeAssumption == Size \in Nat \ {0} /\ BaseUnit \in Nat \ {0}
ASSUME StyleAssumption ==
  Styles \subseteq [keys : {"rest", "canonical", "camel"}, amounts : {"text", "number"},
                    paired : BOOLEAN]

\* A JSON value: a string or a number.
Text(x) == [json |-> "text", value |-> x]
Number(x) == [json |-> "number", value |-> x]
StatusNumber == [open |-> 0, closed |-> 3]
StatusNames == [n \in {0, 3} |-> IF n = 0 THEN "open" ELSE "closed"]

-----------------------------------------------------------------------------
(* What is read *)

\* The row of docs/rest-api.md, a row in the SDK's own spelling, and the contract's.  The
\* amounts come as strings or as numbers; a pair that is not named reads as None.
Row(i, o, style) ==
  LET Amount(x) == IF style.amounts = "number" THEN Number(x) ELSE Text(x)
      pair == IF style.paired THEN Text(Pair) ELSE None IN
  CASE style.keys = "rest" ->
         [id |-> Text(i), clientordid |-> Text(o.cid), pair |-> pair,
          quantity |-> Amount(Size), quantityfilled |-> Amount(o.filled),
          status |-> Number(StatusNumber[o.status])]
    [] style.keys = "canonical" ->
         [internal_order_id |-> Text(i), client_order_id |-> Text(o.cid), pair |-> pair,
          trade_pair_id |-> Text(PairId), quantity |-> Amount(Size),
          quantity_filled |-> Amount(o.filled), status |-> Text(o.status),
          update_block |-> Number(1)]
    [] style.keys = "camel" ->
         [id |-> Text(i), clientOrderId |-> Text(o.cid), tradePair |-> pair,
          tradePairId |-> Text(PairId), quantity |-> Amount(Size),
          filledQuantity |-> Amount(o.filled), status |-> Number(StatusNumber[o.status]),
          updateBlock |-> Text(1)]

\* The struct of getOrder: amounts in base units, enums as numbers.
Struct(i, o) ==
  [id |-> i, cid |-> o.cid, pairId |-> PairId, quantity |-> Size * BaseUnit,
   filled |-> o.filled * BaseUnit, status |-> StatusNumber[o.status], block |-> 1]

-----------------------------------------------------------------------------
(* The canonical order *)

Get(row, key) == IF key \in DOMAIN row THEN row[key] ELSE None
Truthy(v) == v # None /\ v # Number(0)

\* Python's  a or b or ...  over the spellings of a field: the first that is truthy, or
\* else the last, so that a number 0 under an earlier spelling is lost.
FirstOf(row, keys) ==
  LET good == {n \in DOMAIN keys : Truthy(Get(row, keys[n]))} IN
  IF good = {} THEN Get(row, Last(keys))
  ELSE Get(row, keys[CHOOSE n \in good : \A j \in good : n <= j])

\* _coerce_order_numeric, _coerce_optional_order_block: float() and int() of the value.
Plain(v) == IF v = None THEN None ELSE v.value

\* _enum_to_name.
EnumName(v) == IF v # None /\ v.json = "number" THEN StatusNames[v.value] ELSE Plain(v)

FilledKeys == <<"quantity_filled", "quantityFilled", "filledQuantity", "quantityfilled",
                "filledquantity", "filled_quantity">>

FromApi(row, pairKnown) ==
  LET pairId == FirstOf(row, <<"trade_pair_id", "tradePairId", "tradepairid">>)
      pair == Plain(FirstOf(row, <<"pair", "tradePair", "trade_pair">>)) IN
  [id |-> Plain(FirstOf(row, <<"internal_order_id", "id">>)),
   cid |-> Plain(FirstOf(row, <<"client_order_id", "clientOrderId", "clientordid">>)),
   pair |-> pair,
   pairId |-> IF Truthy(pairId) THEN Plain(pairId)
              ELSE IF pair # None /\ pairKnown THEN PairId ELSE None,
   quantity |-> Plain(Get(row, "quantity")),
   filled |-> Plain(FirstOf(row, FilledKeys)),
   status |-> EnumName(Get(row, "status")),
   block |-> Plain(FirstOf(row, <<"update_block", "updateBlock", "updateblock",
                                  "update_block_number">>))]

\* Mutant: the amounts of a known pair stay in base units.
FromContractUnscaled(s, pairKnown) ==
  [id |-> s.id, cid |-> s.cid, pair |-> IF pairKnown THEN Pair ELSE None,
   pairId |-> s.pairId, quantity |-> s.quantity, filled |-> s.filled,
   status |-> StatusNames[s.status], block |-> s.block]

\* An unknown pair leaves the amounts in base units and pair at None.
FromContract(s, pairKnown) ==
  LET scale == IF pairKnown THEN BaseUnit ELSE 1 IN
  [id |-> s.id, cid |-> s.cid, pair |-> IF pairKnown THEN Pair ELSE None,
   pairId |-> s.pairId, quantity |-> s.quantity \div scale, filled |-> s.filled \div scale,
   status |-> StatusNames[s.status], block |-> s.block]

\* The row names its pair's id.
NamesPairId(row) == FirstOf(row, <<"trade_pair_id", "tradePairId", "tradepairid">>) # None
=============================================================================
