------------------------ MODULE OrderCancellation ------------------------
(***************************************************************************)
(* How core/clob.py finds the orders a caller names and cancels them:      *)
(* cancel_order, replace_order, cancel_add_list, cancel_all_orders, the    *)
(* list and client-id methods, and the readers get_order,                  *)
(* get_order_by_client_id and get_open_orders.                             *)
(*                                                                         *)
(* Internal ids and client ids are both words of 32 bytes, so one word may *)
(* be the internal id of one order and the client id of another.  Between  *)
(* any two awaits of a call the account's orders are filled, cancelled and *)
(* placed by others, and the REST index of open orders lags behind.        *)
(* The transaction itself is that of TxPipeline.                           *)
(***************************************************************************)
EXTENDS Naturals, Sequences, FiniteSets, SequencesExt, OrderViews

CONSTANTS
  Calls,
  Methods,       \* the methods called
  Words,         \* ids, the internal ones among them
  InternalIds,
  Forms,         \* how an id is typed
  ClientLookups, \* the client-id readers the contract's ABI has, in the order tried
  Inputs         \* the ids a call may be given, one or a list of them

ASSUME WordAssumption == InternalIds \subseteq Words /\ IsFiniteSet(Words)
ASSUME MethodAssumption == Methods \subseteq
  {"cancel_order", "replace_order", "cancel_add_list", "get_order", "get_order_by_client_id",
   "cancel_order_by_client_id", "cancel_list_orders_by_client_id", "cancel_list_orders",
   "cancel_all_orders", "get_open_orders"}
ASSUME FormAssumption == Forms \subseteq {"int", "digits", "hex", "bytes", "text", "padded digits"}
ASSUME LookupAssumption ==
  ClientLookups \in {<<"getOrderByClientOrderId", "getOrderByClientId">>,
                     <<"getOrderByClientOrderId">>, <<"getOrderByClientId">>, <<>>}
ASSUME InputAssumption == Inputs \subseteq Seq([form : Forms, word : Words])
\* Python's None is no value of JSON.
ASSUME NoneAssumption ==
  /\ \A w \in Words : None # Text(w)
  /\ \A s \in {"open", "closed"} : None # Text(s)
  /\ \A n \in (0..Size) \cup {0, 3} : None # Text(n) /\ None # Number(n)
  /\ None # Text(Pair) /\ None # Text(PairId) /\ None # Pair

VARIABLES
  orders,    \* the account's orders on the chain
  index,     \* the orders as the REST API knows them
  pairKnown, \* the pair of the orders is in client.pairs
  method, waits, phase,
  named,     \* the ids typed, those not yet resolved at the end
  attempts,  \* lookups left for the id being resolved
  found,     \* the orders resolved or listed: as seen then (history), and as shown
  tx,        \* the call's transaction: none, sent, executed, reverted
  born,      \* history: the orders that existed when the call began
  closedBy   \* history: the orders the call's transaction closed

chainVars == <<orders, index>>
callVars == <<method, waits, phase, named, attempts, found, tx, born, closedBy>>
vars == <<chainVars, pairKnown, callVars>>

Resolving == {"cancel_order", "replace_order", "cancel_add_list", "get_order"}
Reading == {"get_order", "get_order_by_client_id", "get_open_orders"}
Listing == {"cancel_all_orders", "get_open_orders"}
ByClientId == {"cancel_order_by_client_id", "cancel_list_orders_by_client_id"}
Lists == {"cancel_add_list", "cancel_list_orders", "cancel_list_orders_by_client_id"}
Phases == {"idle", "resolving", "formatting", "listing", "hydrating", "sending", "receipt",
           "done", "error"}

Exists(i) == orders[i].status # "none"
Open(i) == orders[i].status = "open"
Bearer(w) == {i \in InternalIds : Exists(i) /\ orders[i].cid = w}

-----------------------------------------------------------------------------
(* Typed ids *)

\* _classify_order_id_input: it looks at the text before its blanks are stripped.
Kind(form) ==
  CASE form \in {"int", "digits"} -> "internal"
    [] form \in {"hex", "bytes"} -> "ambiguous"
    [] OTHER -> "client"

\* _build_order_resolution_sequence, with the methods _fetch_order_by_client_id tries.
LookupSequence(m, form) ==
  IF m = "get_order_by_client_id" \/ Kind(form) = "client"
  THEN ClientLookups ELSE <<"getOrder">> \o ClientLookups

\* validate_order_id_format refuses numbers; cancel_add_list allows them, and the other
\* lists are not validated.
Valid(m, form) == form = "int" => m \in Lists

-----------------------------------------------------------------------------
(* The chain and the index *)

NewOrder(c) == [status |-> "open", cid |-> c, filled |-> 0]

\* A client id is borne by one open order at a time; a closed order's may be used again.
Place(i, c) ==
  /\ ~Exists(i) /\ \A j \in Bearer(c) : ~Open(j)
  /\ orders' = [orders EXCEPT ![i] = NewOrder(c)]
  /\ UNCHANGED <<index, pairKnown, callVars>>

\* Somebody else's trade fills a unit of the order, the last of which closes it.
Fill(i) ==
  /\ Open(i)
  /\ orders' = [orders EXCEPT ![i].filled = @ + 1,
                              ![i].status = IF orders[i].filled + 1 = Size THEN "closed" ELSE "open"]
  /\ UNCHANGED <<index, pairKnown, callVars>>

\* The API catches up with one order.
Index(i) ==
  /\ index[i] # orders[i]
  /\ index' = [index EXCEPT ![i] = orders[i]]
  /\ UNCHANGED <<orders, pairKnown, callVars>>

\* What a reader of the contract answers: an order, or the empty one.  Of several orders
\* that bore a client id the contract knows the open one, or any of them.
Answers(lookup, w) ==
  IF lookup = "getOrder" THEN {i \in InternalIds : Exists(i) /\ i = w}
  ELSE LET live == {i \in Bearer(w) : Open(i)} IN IF live # {} THEN live ELSE Bearer(w)

-----------------------------------------------------------------------------
(* A call *)

Init ==
  /\ orders = [i \in InternalIds |-> [status |-> "none", cid |-> i, filled |-> 0]]
  /\ index = orders
  /\ pairKnown \in BOOLEAN
  /\ method = [k \in Calls |-> "none"] /\ waits = [k \in Calls |-> TRUE]
  /\ phase = [k \in Calls |-> "idle"]
  /\ named = [k \in Calls |-> <<>>] /\ attempts = [k \in Calls |-> <<>>]
  /\ found = [k \in Calls |-> <<>>]
  /\ tx = [k \in Calls |-> "none"]
  /\ born = [k \in Calls |-> {}] /\ closedBy = [k \in Calls |-> {}]

Enter(k, ph) == phase' = [phase EXCEPT ![k] = ph]
Fails(k) == Enter(k, "error")

\* The methods that send what they were given do not look it up.
FirstPhase(m) ==
  CASE m \in Resolving \cup {"get_order_by_client_id"} -> "resolving"
    [] m \in Listing -> "listing"
    [] OTHER -> "sending"

Begin(k, m, refs, wait) ==
  /\ phase[k] = "idle"
  /\ IF m \in Listing THEN refs = <<>>
     ELSE Len(refs) >= 1 /\ (m \notin Lists => Len(refs) = 1)
  /\ \A n \in DOMAIN refs : Valid(m, refs[n].form)
  /\ m \in Reading \cup {"cancel_all_orders"} => wait
  /\ method' = [method EXCEPT ![k] = m] /\ waits' = [waits EXCEPT ![k] = wait]
  /\ named' = [named EXCEPT ![k] = refs]
  /\ Enter(k, FirstPhase(m))
  /\ attempts' = [attempts EXCEPT ![k] =
       IF FirstPhase(m) = "resolving" THEN LookupSequence(m, refs[1].form) ELSE <<>>]
  /\ born' = [born EXCEPT ![k] = {i \in InternalIds : Exists(i)}]
  /\ UNCHANGED <<chainVars, pairKnown, found, tx, closedBy>>

\* The id being resolved.
Current(k) == named[k][Len(found[k]) + 1]

\* An id of a list has been dealt with: the next one, or the transaction.
Onward(k, ds) ==
  IF Len(ds) < Len(named[k])
  THEN /\ Enter(k, "resolving")
       /\ attempts' = [attempts EXCEPT ![k] =
            LookupSequence(method[k], named[k][Len(ds) + 1].form)]
  ELSE /\ Enter(k, "sending") /\ attempts' = [attempts EXCEPT ![k] = <<>>]

\* A lookup answers with an order, which ends the resolution.  cancel_order needs no more
\* than its ids; the others put it into the canonical form.
LookupFinds(k, i) ==
  /\ phase[k] = "resolving" /\ attempts[k] # <<>>
  /\ i \in Answers(Head(attempts[k]), Current(k).word)
  /\ LET d == [id |-> i, cid |-> orders[i].cid, seen |-> orders[i], view |-> orders[i],
               way |-> IF Head(attempts[k]) = "getOrder" THEN "internal" ELSE "client"] IN
     /\ found' = [found EXCEPT ![k] = Append(@, d)]
     /\ IF method[k] = "cancel_order" THEN Onward(k, Append(found[k], d))
        ELSE Enter(k, "formatting") /\ UNCHANGED attempts
  /\ UNCHANGED <<chainVars, pairKnown, method, waits, named, tx, born, closedBy>>

\* The empty order, or an error: the next lookup, whichever it was.
LookupMisses(k) ==
  /\ phase[k] = "resolving" /\ attempts[k] # <<>>
  /\ attempts' = [attempts EXCEPT ![k] = Tail(@)]
  /\ UNCHANGED <<chainVars, pairKnown, method, waits, phase, named, found, tx, born, closedBy>>

NotFound(k) ==
  /\ phase[k] = "resolving" /\ attempts[k] = <<>>
  /\ Fails(k)
  /\ UNCHANGED <<chainVars, pairKnown, method, waits, named, attempts, found, tx, born, closedBy>>

\* A resolved order in its canonical form.
Viewed(d, v) == [d EXCEPT !.view = v]

\* _format_order_data: an unknown pair is fetched, which may fail.  The readers show the
\* order all the same; a replacement needs the pair, which one of a list may name itself.
Format(k) ==
  /\ phase[k] = "formatting"
  /\ pairKnown' \in (IF pairKnown THEN {TRUE} ELSE BOOLEAN)
  /\ LET n == Len(found[k])
         d == found[k][n] IN
     found' = [found EXCEPT ![k][n] = Viewed(d, FromContract(Struct(d.id, d.view), pairKnown'))]
  /\ \/ /\ method[k] \in Reading
        /\ Enter(k, "done") /\ UNCHANGED attempts
     \/ /\ method[k] \notin Reading /\ (pairKnown' \/ method[k] = "cancel_add_list")
        /\ Onward(k, found[k])
     \/ /\ method[k] \notin Reading
        /\ Fails(k) /\ UNCHANGED attempts
  /\ UNCHANGED <<chainVars, method, waits, named, tx, born, closedBy>>

\* The REST API answers with the rows of its index, in an order of its own, or fails.
ListArrives(k) ==
  /\ phase[k] = "listing"
  /\ \/ /\ Enter(k, "hydrating")
        /\ \E style \in Styles, ids \in SetToSeqs({i \in InternalIds : index[i].status = "open"}) :
             found' = [found EXCEPT ![k] = [n \in DOMAIN ids |->
               [id |-> ids[n], cid |-> index[ids[n]].cid, seen |-> index[ids[n]],
                way |-> "listed", view |-> Row(ids[n], index[ids[n]], style)]]]
     \/ Fails(k) /\ UNCHANGED found
  /\ UNCHANGED <<chainVars, pairKnown, method, waits, named, attempts, tx, born, closedBy>>

\* get_open_orders: rows that name no pair id make it fetch the pairs, whatever comes of
\* it; cancel_all_orders goes on with the internal ids of the rows.
Hydrate(k) ==
  /\ phase[k] = "hydrating"
  /\ pairKnown' \in (IF ~pairKnown /\ \E n \in DOMAIN found[k] : ~NamesPairId(found[k][n].view)
                     THEN BOOLEAN ELSE {pairKnown})
  /\ found' = [found EXCEPT ![k] = [n \in DOMAIN @ |->
                 Viewed(@[n], FromApi(@[n].view, pairKnown'))]]
  /\ CASE method[k] = "get_open_orders" -> Enter(k, "done")
       [] method[k] # "get_open_orders" /\ found[k] = <<>> -> Fails(k)
       [] OTHER -> Enter(k, "sending")
  /\ UNCHANGED <<chainVars, method, waits, named, attempts, tx, born, closedBy>>

-----------------------------------------------------------------------------
(* The transaction *)

Resolved(k) == {found[k][n].id : n \in DOMAIN found[k]}
Typed(k) == {named[k][n].word : n \in DOMAIN named[k]}
OpenWith(cids) == {i \in InternalIds : Open(i) /\ orders[i].cid \in cids}

\* Mutant: cancelOrder is given the client id of the order found.
TargetsByClientId(k) ==
  CASE method[k] \in ByClientId -> OpenWith(Typed(k))
    [] method[k] = "cancel_list_orders" -> Typed(k) \cap InternalIds
    [] OTHER -> {found[k][n].cid : n \in DOMAIN found[k]} \cap InternalIds

\* The orders the contract function of the call's transaction is about, when it runs:
\* cancelOrderByClientId and its list name whatever order bears the id by then.
Targets(k) ==
  CASE method[k] \in ByClientId -> OpenWith(Typed(k))
    [] method[k] = "cancel_list_orders" -> Typed(k) \cap InternalIds
    [] method[k] = "cancel_order" /\ found[k][1].way = "client" -> OpenWith({found[k][1].cid})
    [] OTHER -> Resolved(k)

\* Gas is estimated, the transaction signed and sent; any of it may fail.
Send(k) ==
  /\ phase[k] = "sending"
  /\ \/ /\ tx' = [tx EXCEPT ![k] = "sent"]
        /\ Enter(k, IF waits[k] THEN "receipt" ELSE "done")
     \/ Fails(k) /\ UNCHANGED tx
  /\ UNCHANGED <<chainVars, pairKnown, method, waits, named, attempts, found, born, closedBy>>

\* The transaction runs: what is open of its targets is closed.  A list passes over an
\* order already closed or reverts; a single cancellation of one reverts.  The orders a
\* replacement places are those of Place.
Execute(k) ==
  /\ tx[k] = "sent"
  /\ \A i \in Targets(k) : Exists(i)
  /\ \E i \in Targets(k) : Open(i)
  /\ method[k] \in {"cancel_order", "replace_order", "cancel_add_list"} =>
       \A i \in Targets(k) : Open(i)
  /\ method[k] = "cancel_list_orders" => Typed(k) \subseteq InternalIds
  /\ tx' = [tx EXCEPT ![k] = "executed"]
  /\ closedBy' = [closedBy EXCEPT ![k] = {i \in Targets(k) : Open(i)}]
  /\ orders' = [i \in InternalIds |->
       IF i \in Targets(k) THEN [orders[i] EXCEPT !.status = "closed"] ELSE orders[i]]
  /\ UNCHANGED <<index, pairKnown, method, waits, phase, named, attempts, found, born>>

Revert(k) ==
  /\ tx[k] = "sent"
  /\ tx' = [tx EXCEPT ![k] = "reverted"]
  /\ UNCHANGED <<chainVars, pairKnown, method, waits, phase, named, attempts, found, born, closedBy>>

\* Mutant: the call ends well whatever the receipt says.
ReceiptUnchecked(k) ==
  /\ phase[k] = "receipt"
  /\ \/ tx[k] # "sent" /\ Enter(k, "done")
     \/ Fails(k)
  /\ UNCHANGED <<chainVars, pairKnown, method, waits, named, attempts, found, tx, born, closedBy>>

\* The receipt, or a timeout while the transaction is still to come.
Receipt(k) ==
  /\ phase[k] = "receipt"
  /\ \/ tx[k] = "executed" /\ Enter(k, "done")
     \/ Fails(k)
  /\ UNCHANGED <<chainVars, pairKnown, method, waits, named, attempts, found, tx, born, closedBy>>

CallStep(k) ==
  \/ \E i \in InternalIds : LookupFinds(k, i)
  \/ LookupMisses(k) \/ NotFound(k) \/ Format(k) \/ ListArrives(k) \/ Hydrate(k)
  \/ Send(k) \/ Execute(k) \/ Revert(k) \/ Receipt(k)

Next ==
  \/ \E k \in Calls, m \in Methods, wait \in BOOLEAN, refs \in Inputs \cup {<<>>} :
       Begin(k, m, refs, wait)
  \/ \E k \in Calls : CallStep(k)
  \/ \E i \in InternalIds : Fill(i) \/ Index(i) \/ \E c \in Words : Place(i, c)

Spec == Init /\ [][Next]_vars

-----------------------------------------------------------------------------
(* Properties *)

CancelTypeOK ==
  /\ \A i \in InternalIds : orders[i].status \in {"none", "open", "closed"}
                            /\ orders[i].cid \in Words /\ orders[i].filled \in 0..Size
  /\ \A i \in InternalIds : index[i].status # "none" => Exists(i) /\ index[i].cid = orders[i].cid
  /\ \A k \in Calls :
       /\ phase[k] \in Phases /\ method[k] \in Methods \cup {"none"}
       /\ tx[k] # "none" => phase[k] \in {"receipt", "done", "error"}
       /\ method[k] \in Resolving => Len(found[k]) <= Len(named[k])

\* A transaction closes no order but those the call named by their internal or client id,
\* and those the index listed: whatever is filled, placed or renamed between the lookup
\* and the execution.
OnlyNamedAreClosed ==
  \A k \in Calls : closedBy[k] \subseteq
    (IF method[k] = "cancel_all_orders" THEN Resolved(k)
     ELSE {i \in InternalIds : i \in Typed(k) \/ orders[i].cid \in Typed(k)})

\* A call that waited for its receipt and succeeded reports internal ids of orders that
\* are closed, also when its transaction named them by a client id that had passed on.
ReportedIsClosed ==
  \A k \in Calls : phase[k] = "done" /\ waits[k] /\ method[k] \notin Reading \cup ByClientId =>
    \A i \in (IF method[k] = "cancel_list_orders" THEN Typed(k) \cap InternalIds ELSE Resolved(k)) :
      ~Open(i)

\* A reader shows the ids, the status and the amounts the order had when it was read, the
\* amounts in units of its tokens, whichever way the order came.  Only the contract's order
\* of a pair that is not known is shown in base units, and then without its pair; and a
\* listed order with nothing filled may show None for the 0 (clob.py:1030-1080, 1407-1465).
ShownInUnits ==
  \A k \in Calls : phase[k] = "done" /\ method[k] \in Reading =>
    \A n \in DOMAIN found[k] :
      LET d == found[k][n]
          unit == IF d.way # "listed" /\ d.view.pair = None THEN BaseUnit ELSE 1 IN
      /\ d.view.id = d.id /\ d.view.cid = d.seen.cid /\ d.view.status = d.seen.status
      /\ d.view.quantity = Size * unit
      /\ \/ d.view.filled = d.seen.filled * unit
         \/ d.way = "listed" /\ d.seen.filled = 0 /\ d.view.filled = None

-----------------------------------------------------------------------------
(* What does not hold *)

\* Every reader shows how much of an order is filled.  The code refutes it: a number 0,
\* under any of the spellings, is passed over by the chain of or, and None is shown.
FilledIsShown ==
  \A k \in Calls : phase[k] = "done" /\ method[k] \in Reading =>
    \A n \in DOMAIN found[k] : found[k][n].view.filled # None

\* What a successful call closed is what it reports.
ClosedIsReported ==
  \A k \in Calls : phase[k] = "done" /\ method[k] \in {"cancel_order", "replace_order"} =>
    closedBy[k] \subseteq Resolved(k)

\* cancel_all_orders leaves none of the orders that were open when it began.
AllAreCancelled ==
  \A k \in Calls : phase[k] = "done" /\ method[k] = "cancel_all_orders" =>
    \A i \in born[k] : ~Open(i)

\* An id that could be internal stands for another order's client id only if no order had
\* it for internal id: not when the first lookup fails.
NeverRedirected ==
  \A k \in Calls : method[k] \in Resolving =>
    \A n \in DOMAIN found[k] :
      found[k][n].way = "client" => named[k][n].word \notin born[k]
=============================================================================
