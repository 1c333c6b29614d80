---------------------------- MODULE OrderProofs ----------------------------
(***************************************************************************)
(* Proofs about OrderCancellation and OrderEntry, for any number of calls, *)
(* orders, pairs, decimals, bounds and balances.                           *)
(*                                                                         *)
(* Cancellation: an order that exists keeps its client id and, once        *)
(* closed, stays so (Later).  That is what a call may rely on while others *)
(* act: the orders it has found still are those its ids named (FoundOK,    *)
(* NamedOK), and what its transaction closed stays closed (ClosedOK).      *)
(*                                                                         *)
(* Entry: a rounded number is a multiple of the display quantum, and so of *)
(* the atomic unit: the conversion is exact, and what the struct locks is  *)
(* what the loop added up, but for the rounding of its floats.  A token    *)
(* that is not to be checked any more was either found sufficient for the  *)
(* sum, but for the rounding of the balance, or is locked by no order.     *)
(***************************************************************************)
EXTENDS OrderCancellation, OrderEntry, FiniteSetTheorems, TLAPS

OrderRec == [status : {"none", "open", "closed"}, cid : Words, filled : 0..Size]
Placed == {o \in OrderRec : o.status # "none"}
Ref == [form : Forms, word : Words]

\* Everything the view of a found order may be.
Views ==
  Placed
  \cup {FromContract(Struct(i, o), b) : i \in InternalIds, o \in Placed, b \in BOOLEAN}
  \cup {Row(i, o, style) : i \in InternalIds, o \in Placed, style \in Styles}
  \cup {FromApi(Row(i, o, style), b) :
          i \in InternalIds, o \in Placed, style \in Styles, b \in BOOLEAN}
Found == [id : InternalIds, cid : Words, seen : Placed, view : Views,
          way : {"internal", "client", "listed"}]

ChainOK ==
  /\ orders \in [InternalIds -> OrderRec] /\ index \in [InternalIds -> OrderRec]
  /\ pairKnown \in BOOLEAN
  /\ \A i \in InternalIds :
       /\ Open(i) => orders[i].filled < Size
       /\ index[i].status # "none" => Exists(i) /\ index[i].cid = orders[i].cid

CallTypes ==
  /\ method \in [Calls -> Methods \cup {"none"}] /\ waits \in [Calls -> BOOLEAN]
  /\ phase \in [Calls -> Phases]
  /\ named \in [Calls -> Seq(Ref)] /\ found \in [Calls -> Seq(Found)]
  /\ tx \in [Calls -> {"none", "sent", "executed", "reverted"}]
  /\ closedBy \in [Calls -> SUBSET InternalIds]

Types == ChainOK /\ CallTypes

---------------------------------------------------------------------------
(* What holds of a call *)

LookingUp == Resolving \cup {"get_order_by_client_id"}

\* Which methods go through which phases, and what a transaction says of its call.
PhaseOK(k) ==
  /\ phase[k] = "idle" => found[k] = <<>>
  /\ phase[k] # "idle" => method[k] \in Methods
  /\ phase[k] \in {"resolving", "formatting"} => method[k] \in LookingUp
  /\ phase[k] \in {"listing", "hydrating"} => method[k] \in Listing
  /\ phase[k] \in {"sending", "receipt"} => method[k] \notin Reading
  /\ tx[k] # "none" => phase[k] \in {"receipt", "done", "error"} /\ method[k] \notin Reading
  /\ closedBy[k] # {} => tx[k] = "executed"
  /\ phase[k] = "done" /\ waits[k] /\ method[k] \notin Reading => tx[k] = "executed"

\* The orders found are those of the first ids typed, each of which one was found by.
NamedOK(k) ==
  phase[k] # "idle" /\ method[k] \in LookingUp =>
    /\ Len(found[k]) <= Len(named[k])
    /\ phase[k] = "resolving" => Len(found[k]) < Len(named[k])
    /\ phase[k] = "formatting" => Len(found[k]) >= 1
    /\ phase[k] = "sending" \/ tx[k] # "none" => Len(found[k]) = Len(named[k])
    /\ method[k] # "cancel_add_list" => Len(named[k]) = 1
    /\ \A n \in DOMAIN found[k] :
         \/ found[k][n].way = "internal" /\ found[k][n].id = named[k][n].word
         \/ found[k][n].way = "client" /\ found[k][n].cid = named[k][n].word

\* An order found is one of the chain's, with the client id it was found with.
FoundOK(k) ==
  \A n \in DOMAIN found[k] :
    Exists(found[k][n].id) /\ orders[found[k][n].id].cid = found[k][n].cid

\* The view of an order found, before it has its canonical form: as read, or as listed.
AsRead(d) == d.view = d.seen /\ d.seen.cid = d.cid /\ d.way # "listed"
AsListed(d) ==
  /\ d.seen.cid = d.cid /\ d.way = "listed"
  /\ \E style \in Styles : d.view = Row(d.id, d.seen, style)

ViewOK(k) ==
  /\ phase[k] = "formatting" => AsRead(found[k][Len(found[k])])
  /\ phase[k] = "hydrating" => \A n \in DOMAIN found[k] : AsListed(found[k][n])

Reported(k) ==
  IF method[k] = "cancel_list_orders" THEN Typed(k) \cap InternalIds ELSE Resolved(k)

\* What a transaction has closed was named by its call, and what its call reports is closed.
ClosedOK(k) ==
  /\ \A i \in closedBy[k] :
       /\ Exists(i)
       /\ i \in (IF method[k] = "cancel_all_orders" THEN Resolved(k)
                 ELSE {j \in InternalIds : j \in Typed(k) \/ orders[j].cid \in Typed(k)})
  /\ tx[k] = "executed" /\ method[k] \notin ByClientId =>
       \A i \in Reported(k) : orders[i].status = "closed"

CallInv(k) == PhaseOK(k) /\ NamedOK(k) /\ FoundOK(k) /\ ViewOK(k) /\ ClosedOK(k)

CancelInv == Types /\ \A k \in Calls : CallInv(k)

---------------------------------------------------------------------------
(* Sequences, and the views of orders *)

LEMMA Appended ==
  ASSUME NEW S, NEW s \in Seq(S), NEW e \in S
  PROVE  /\ Append(s, e) \in Seq(S) /\ Len(Append(s, e)) = Len(s) + 1
         /\ \A n \in DOMAIN s : Append(s, e)[n] = s[n]
         /\ \A n \in DOMAIN Append(s, e) : n \in DOMAIN s \/ n = Len(s) + 1
         /\ Append(s, e)[Len(s) + 1] = e
OBVIOUS

LEMMA RestyledLast ==
  ASSUME NEW S, NEW s \in Seq(S), NEW n \in DOMAIN s, NEW e \in S
  PROVE  /\ [s EXCEPT ![n] = e] \in Seq(S) /\ Len([s EXCEPT ![n] = e]) = Len(s)
OBVIOUS

LEMMA ViewsHold ==
  ASSUME NEW i \in InternalIds, NEW o \in Placed, NEW style \in Styles, NEW b \in BOOLEAN
  PROVE  o \in Views /\ FromContract(Struct(i, o), b) \in Views
         /\ Row(i, o, style) \in Views /\ FromApi(Row(i, o, style), b) \in Views
BY DEF Views

LEMMA ViewedIsFound ==
  ASSUME NEW d \in Found, NEW v \in Views
  PROVE  /\ Viewed(d, v) \in Found /\ Viewed(d, v).view = v
         /\ Viewed(d, v).id = d.id /\ Viewed(d, v).cid = d.cid /\ Viewed(d, v).way = d.way
         /\ Viewed(d, v).seen = d.seen
BY DEF Found, Viewed

---------------------------------------------------------------------------
(* The chain *)

LEMMA TypesInit == Init => Types
BY WordAssumption, SizeAssumption
   DEF Init, Types, ChainOK, CallTypes, OrderRec, Phases, Open, Exists

\* What an order keeps from one state to the next.
Later ==
  \A i \in InternalIds : Exists(i) =>
    /\ Exists(i)' /\ orders'[i].cid = orders[i].cid
    /\ orders[i].status = "closed" => orders'[i].status = "closed"

\* The steps of a call that leave the chain alone.
Quiet(k) ==
  \/ \E i \in InternalIds : LookupFinds(k, i)
  \/ LookupMisses(k) \/ NotFound(k) \/ Format(k) \/ ListArrives(k) \/ Hydrate(k)
  \/ Send(k) \/ Revert(k) \/ Receipt(k)

LEMMA QuietChain ==
  ASSUME NEW k \in Calls, ChainOK, Quiet(k)
  PROVE  UNCHANGED chainVars /\ pairKnown' \in BOOLEAN
BY DEF Quiet, ChainOK, LookupFinds, LookupMisses, NotFound, Format, ListArrives, Hydrate, Send,
       Revert, Receipt

LEMMA BeginChain ==
  ASSUME NEW k \in Calls, NEW m, NEW wait, NEW refs, Begin(k, m, refs, wait)
  PROVE  UNCHANGED <<chainVars, pairKnown>>
BY DEF Begin

LEMMA ChainStep == ChainOK /\ [Next]_vars => ChainOK' /\ Later
<1> SUFFICES ASSUME ChainOK, [Next]_vars PROVE ChainOK' /\ Later
  OBVIOUS
<1> USE DEF Open, Exists
<1>1. ASSUME UNCHANGED chainVars, pairKnown' \in BOOLEAN PROVE ChainOK' /\ Later
  BY <1>1 DEF ChainOK, Later, chainVars
<1>2. ASSUME NEW k \in Calls, Execute(k) PROVE ChainOK' /\ Later
  <2>1. /\ index' = index /\ pairKnown' = pairKnown
        /\ orders' \in [InternalIds -> OrderRec]
        /\ \A i \in InternalIds : \/ orders'[i] = orders[i]
                                  \/ Exists(i) /\ orders'[i] = [orders[i] EXCEPT !.status = "closed"]
    BY <1>2 DEF Execute, ChainOK, OrderRec
  <2>2. \A i \in InternalIds :
          \/ orders'[i] = orders[i]
          \/ Exists(i) /\ orders'[i].status = "closed" /\ orders'[i].cid = orders[i].cid
    BY <2>1 DEF ChainOK, OrderRec
  <2> HIDE DEF Open, Exists
  <2> QED BY <2>1, <2>2 DEF ChainOK, Later, Open, Exists
<1>3. ASSUME NEW i \in InternalIds, Fill(i) PROVE ChainOK' /\ Later
  <2>1. PICK o \in OrderRec : /\ orders' = [orders EXCEPT ![i] = o]
                              /\ o.cid = orders[i].cid /\ o.status # "none"
                              /\ o.status = "open" => o.filled < Size
    <3>1. PICK old \in OrderRec : old = orders[i]
      BY DEF ChainOK
    <3>2. PICK st \in {"open", "closed"} :
            st = IF old.filled + 1 = Size THEN "closed" ELSE "open"
      OBVIOUS
    <3>3. old.filled + 1 \in 0..Size /\ (st = "open" => old.filled + 1 < Size)
      BY <1>3, <3>1, <3>2, SizeAssumption DEF Fill, ChainOK, OrderRec
    <3>4. PICK mid : mid = [old EXCEPT !.filled = old.filled + 1]
      OBVIOUS
    <3>5. mid \in OrderRec /\ mid.cid = old.cid /\ mid.filled = old.filled + 1
      BY <3>3, <3>4 DEF OrderRec
    <3>6. PICK new : new = [mid EXCEPT !.status = st]
      OBVIOUS
    <3>7. /\ new \in OrderRec /\ new.cid = old.cid /\ new.status = st
          /\ new.filled = old.filled + 1
      BY <3>5, <3>6 DEF OrderRec
    <3>8. orders' = [orders EXCEPT ![i] = new]
      BY <1>3, <3>1, <3>2, <3>4, <3>6 DEF Fill, ChainOK
    <3> QED BY <3>1, <3>3, <3>7, <3>8
  <2>2. orders[i].status = "open" /\ index' = index /\ pairKnown' = pairKnown
    BY <1>3 DEF Fill
  <2> QED BY <2>1, <2>2 DEF ChainOK, Later
<1>4. ASSUME NEW i \in InternalIds, NEW c \in Words, Place(i, c) PROVE ChainOK' /\ Later
  <2>1. NewOrder(c) \in OrderRec /\ NewOrder(c).filled < Size
    BY SizeAssumption DEF NewOrder, OrderRec
  <2> QED BY <1>4, <2>1 DEF Place, ChainOK, Later
<1>5. ASSUME NEW i \in InternalIds, Index(i) PROVE ChainOK' /\ Later
  BY <1>5 DEF Index, ChainOK, Later
<1>6. ASSUME NEW k \in Calls, Quiet(k) PROVE ChainOK' /\ Later
  BY <1>1, <1>6, QuietChain
<1>7. ASSUME NEW k \in Calls, NEW m \in Methods, NEW wait \in BOOLEAN,
             NEW refs \in Inputs \cup {<<>>}, Begin(k, m, refs, wait)
      PROVE  ChainOK' /\ Later
  <2>1. UNCHANGED <<chainVars, pairKnown>>
    BY <1>7, BeginChain
  <2> QED BY <1>1, <2>1 DEF ChainOK
<1>8. ASSUME UNCHANGED vars PROVE ChainOK' /\ Later
  BY <1>1, <1>8 DEF vars, ChainOK
<1> QED
  BY <1>2, <1>3, <1>4, <1>5, <1>6, <1>7, <1>8 DEF Next, CallStep, Quiet

---------------------------------------------------------------------------
(* The other calls *)

LEMMA InitCalls == Init => \A k \in Calls : CallInv(k)
BY DEF Init, CallInv, PhaseOK, NamedOK, FoundOK, ViewOK, ClosedOK, Reading

\* A call whose own variables stay as they are keeps its invariant, whatever the chain
\* and the other calls do.
SameCall(k) ==
  /\ method'[k] = method[k] /\ waits'[k] = waits[k] /\ phase'[k] = phase[k]
  /\ named'[k] = named[k] /\ found'[k] = found[k] /\ tx'[k] = tx[k]
  /\ closedBy'[k] = closedBy[k]

LEMMA FoundMembers ==
  ASSUME NEW k \in Calls, CallTypes
  PROVE  /\ found[k] \in Seq(Found) /\ Resolved(k) \subseteq InternalIds
         /\ \A n \in DOMAIN found[k] :
              /\ found[k][n] \in Found
              /\ found[k][n].id \in InternalIds /\ found[k][n].cid \in Words
         /\ closedBy[k] \subseteq InternalIds
<1>1. found[k] \in Seq(Found)
  BY DEF CallTypes
<1>2. \A n \in DOMAIN found[k] : found[k][n] \in Found
  BY <1>1
<1>3. \A n \in DOMAIN found[k] : found[k][n].id \in InternalIds /\ found[k][n].cid \in Words
  BY <1>2 DEF Found
<1> QED BY <1>1, <1>2, <1>3 DEF Resolved, CallTypes

LEMMA CallUndisturbed ==
  ASSUME CancelInv, Later, NEW k \in Calls, SameCall(k)
  PROVE  CallInv(k)'
<1> USE DEF CancelInv, Types, CallInv
<1>1. /\ Typed(k)' = Typed(k) /\ Resolved(k)' = Resolved(k) /\ Reported(k)' = Reported(k)
      /\ Reported(k) \subseteq InternalIds
  BY FoundMembers DEF SameCall, Typed, Resolved, Reported
<1>2. PhaseOK(k)' /\ NamedOK(k)' /\ ViewOK(k)'
  BY DEF SameCall, PhaseOK, NamedOK, ViewOK
<1>3. FoundOK(k)'
  BY FoundMembers DEF SameCall, FoundOK, Later
<1>4. ClosedOK(k)'
  <2>1. \A i \in closedBy[k] : i \in InternalIds /\ Exists(i)' /\ orders'[i].cid = orders[i].cid
    BY FoundMembers DEF ClosedOK, Later
  <2>2. \A i \in Reported(k) : orders[i].status = "closed" => orders'[i].status = "closed"
    BY <1>1 DEF Later, Exists
  <2> QED BY <1>1, <2>1, <2>2 DEF SameCall, ClosedOK
<1> QED BY <1>2, <1>3, <1>4

LEMMA CallsApart ==
  ASSUME CallTypes, NEW k \in Calls, CallStep(k), NEW j \in Calls, j # k
  PROVE  SameCall(j)
<1> USE DEF CallTypes, SameCall, Enter, Fails
<1>1. CASE \E i \in InternalIds : LookupFinds(k, i)
  BY <1>1 DEF LookupFinds, Onward
<1>2. CASE LookupMisses(k) \/ NotFound(k) \/ Send(k) \/ Revert(k) \/ Receipt(k)
  BY <1>2 DEF LookupMisses, NotFound, Send, Revert, Receipt
<1>3. CASE Format(k)
  BY <1>3 DEF Format, Onward
<1>4. CASE ListArrives(k)
  BY <1>4 DEF ListArrives
<1>5. CASE Hydrate(k)
  BY <1>5 DEF Hydrate
<1>6. CASE Execute(k)
  BY <1>6 DEF Execute
<1> QED BY <1>1, <1>2, <1>3, <1>4, <1>5, <1>6 DEF CallStep

---------------------------------------------------------------------------
(* The call itself: it begins, and finds the orders *)

LEMMA BeginKeeps ==
  ASSUME CancelInv, Later, NEW k \in Calls, NEW m \in Methods, NEW wait \in BOOLEAN,
         NEW refs \in Inputs \cup {<<>>}, Begin(k, m, refs, wait)
  PROVE  CallTypes' /\ \A j \in Calls : CallInv(j)'
<1> USE DEF CancelInv, Types, CallInv, CallTypes
<1>0. refs \in Seq(Ref)
  <2>1. CASE refs \in Inputs
    BY <2>1, InputAssumption DEF Ref
  <2>2. CASE refs = <<>>
    BY <2>2
  <2> QED BY <2>1, <2>2
<1>1. FirstPhase(m) = IF m \in LookingUp THEN "resolving"
                      ELSE IF m \in Listing THEN "listing" ELSE "sending"
  BY DEF FirstPhase, LookingUp, Resolving, Listing
<1>2. /\ method' = [method EXCEPT ![k] = m] /\ waits' = [waits EXCEPT ![k] = wait]
      /\ named' = [named EXCEPT ![k] = refs] /\ phase' = [phase EXCEPT ![k] = FirstPhase(m)]
      /\ UNCHANGED <<orders, found, tx, closedBy>>
      /\ m \in LookingUp => Len(refs) >= 1 /\ (m # "cancel_add_list" => Len(refs) = 1)
      /\ phase[k] = "idle"
  BY DEF Begin, Enter, chainVars, LookingUp, Resolving, Listing, Lists
<1>3. FirstPhase(m) \in {"resolving", "listing", "sending"}
  BY <1>1
<1>4. CallTypes'
  BY <1>0, <1>2, <1>3 DEF Phases
<1>5. found[k] = <<>> /\ tx[k] = "none" /\ closedBy[k] = {}
  BY <1>2 DEF PhaseOK
<1>6. CallInv(k)'
  <2>0. /\ method'[k] = m /\ named'[k] = refs /\ phase'[k] = FirstPhase(m)
        /\ found'[k] = <<>> /\ tx'[k] = "none" /\ closedBy'[k] = {}
    BY <1>2, <1>5
  <2>1. PhaseOK(k)'
    BY <2>0, <1>1 DEF PhaseOK, LookingUp, Resolving, Reading, Listing
  <2>2. NamedOK(k)'
    BY <2>0, <1>0, <1>1, <1>2 DEF NamedOK
  <2>3. FoundOK(k)' /\ ViewOK(k)' /\ ClosedOK(k)'
    BY <2>0, <1>3 DEF FoundOK, ViewOK, ClosedOK
  <2> QED BY <2>1, <2>2, <2>3
<1>7. ASSUME NEW j \in Calls, j # k PROVE CallInv(j)'
  <2>1. SameCall(j)
    BY <1>2, <1>7 DEF SameCall
  <2> QED BY <2>1, CallUndisturbed
<1> QED BY <1>4, <1>6, <1>7

\* An id of a list has been dealt with: the call goes on to the next one or to its
\* transaction, and what it has found is all the ids it has dealt with.
LEMMA OnwardPhase ==
  ASSUME CallTypes, NEW k \in Calls, NEW ds, Onward(k, ds)
  PROVE  phase' = [phase EXCEPT ![k] = IF Len(ds) < Len(named[k]) THEN "resolving" ELSE "sending"]
BY DEF Onward, Enter

LEMMA FindsKeeps ==
  ASSUME CancelInv, Later, NEW k \in Calls, NEW i \in InternalIds, LookupFinds(k, i)
  PROVE  CallTypes' /\ CallInv(k)'
<1> USE DEF CancelInv, Types, CallInv
<1>0. named[k] \in Seq(Ref) /\ found[k] \in Seq(Found) /\ phase[k] = "resolving"
      /\ method[k] \in LookingUp /\ Len(found[k]) < Len(named[k]) /\ tx[k] = "none"
      /\ closedBy[k] = {}
  BY DEF CallTypes, LookupFinds, PhaseOK, NamedOK
<1>1. Exists(i) /\ (Head(attempts[k]) = "getOrder" => i = Current(k).word)
      /\ (Head(attempts[k]) # "getOrder" => orders[i].cid = Current(k).word)
  BY DEF LookupFinds, Answers, Bearer
<1>2. PICK old \in Placed : old = orders[i]
  BY <1>1 DEF ChainOK, Placed, Exists
<1>3. PICK way \in {"internal", "client"} :
        way = IF Head(attempts[k]) = "getOrder" THEN "internal" ELSE "client"
  OBVIOUS
<1>4. PICK d : d = [id |-> i, cid |-> old.cid, seen |-> old, view |-> old, way |-> way]
  OBVIOUS
<1>5. d \in Found /\ AsRead(d) /\ d.id = i /\ d.cid = old.cid /\ d.way = way
  BY <1>4 DEF Found, AsRead, Views, Placed, OrderRec
<1>6. found' = [found EXCEPT ![k] = Append(found[k], d)]
      /\ UNCHANGED <<orders, method, waits, named, tx, closedBy>>
  BY <1>2, <1>3, <1>4 DEF LookupFinds, chainVars
<1>7. PICK ds \in Seq(Found) : ds = Append(found[k], d)
  <2>1. Append(found[k], d) \in Seq(Found)
    BY <1>0, <1>5, Appended
  <2> QED BY <2>1
<1>8. /\ Len(ds) = Len(found[k]) + 1 /\ ds[Len(ds)] = d
      /\ \A n \in DOMAIN found[k] : ds[n] = found[k][n]
      /\ \A n \in DOMAIN ds : n \in DOMAIN found[k] \/ n = Len(ds)
  BY <1>0, <1>5, <1>7, Appended
<1>9. PICK ph \in {"formatting", "resolving", "sending"} :
        /\ phase' = [phase EXCEPT ![k] = ph]
        /\ ph = IF method[k] # "cancel_order" THEN "formatting"
                ELSE IF Len(ds) < Len(named[k]) THEN "resolving" ELSE "sending"
  <2>1. CASE method[k] = "cancel_order"
    <3>1. Onward(k, ds)
      BY <2>1, <1>2, <1>3, <1>4, <1>7 DEF LookupFinds
    <3> QED BY <2>1, <3>1, OnwardPhase
  <2>2. CASE method[k] # "cancel_order"
    BY <2>2 DEF LookupFinds, Enter
  <2> QED BY <2>1, <2>2
<1>10. CallTypes'
  BY <1>6, <1>7, <1>9 DEF CallTypes, Phases
<1>11. /\ found'[k] = ds /\ phase'[k] = ph /\ method'[k] = method[k] /\ named'[k] = named[k]
       /\ tx'[k] = "none" /\ closedBy'[k] = {} /\ orders' = orders
  BY <1>0, <1>6, <1>7, <1>9 DEF CallTypes
<1>12. PhaseOK(k)'
  BY <1>0, <1>9, <1>11 DEF PhaseOK, LookingUp, Reading, Resolving
<1>13. NamedOK(k)'
  <2>1. Len(ds) <= Len(named[k]) /\ Len(ds) >= 1 /\ Len(found[k]) \in Nat /\ Len(named[k]) \in Nat
    BY <1>0, <1>8
  <2>2. \A n \in DOMAIN found[k] :
          \/ found[k][n].way = "internal" /\ found[k][n].id = named[k][n].word
          \/ found[k][n].way = "client" /\ found[k][n].cid = named[k][n].word
    BY <1>0 DEF NamedOK
  <2>3. \/ d.way = "internal" /\ d.id = named[k][Len(ds)].word
        \/ d.way = "client" /\ d.cid = named[k][Len(ds)].word
    BY <1>1, <1>2, <1>3, <1>5, <1>8 DEF Current
  <2>4. method[k] # "cancel_add_list" => Len(named[k]) = 1
    BY <1>0 DEF NamedOK
  <2> QED BY <1>8, <1>9, <1>11, <2>1, <2>2, <2>3, <2>4 DEF NamedOK
<1>14. FoundOK(k)'
  BY <1>1, <1>2, <1>5, <1>8, <1>11 DEF FoundOK, Exists
<1>15. ViewOK(k)' /\ ClosedOK(k)'
  BY <1>5, <1>8, <1>9, <1>11 DEF ViewOK, ClosedOK, AsRead
<1> QED BY <1>10, <1>12, <1>13, <1>14, <1>15

LEMMA MissKeeps ==
  ASSUME CancelInv, Later, NEW k \in Calls, LookupMisses(k) \/ NotFound(k)
  PROVE  CallTypes' /\ CallInv(k)'
<1> USE DEF CancelInv, Types, CallInv
<1>1. /\ phase' = phase \/ phase' = [phase EXCEPT ![k] = "error"]
      /\ phase[k] = "resolving"
      /\ UNCHANGED <<orders, method, waits, named, found, tx, closedBy>>
  BY DEF LookupMisses, NotFound, Fails, Enter, chainVars
<1>2. CallTypes' /\ phase'[k] \in {"resolving", "error"}
  BY <1>1 DEF CallTypes, Phases
<1>3. tx[k] = "none" /\ closedBy[k] = {} /\ method[k] \in LookingUp
  BY <1>1 DEF PhaseOK
<1>4. PhaseOK(k)'
  BY <1>1, <1>2, <1>3 DEF PhaseOK
<1>5. NamedOK(k)'
  BY <1>1, <1>2, <1>3 DEF NamedOK
<1>6. FoundOK(k)' /\ ViewOK(k)' /\ ClosedOK(k)'
  BY <1>1, <1>2, <1>3 DEF FoundOK, ViewOK, ClosedOK, Exists
<1> QED BY <1>2, <1>4, <1>5, <1>6

LEMMA FormatKeeps ==
  ASSUME CancelInv, Later, NEW k \in Calls, Format(k)
  PROVE  CallTypes' /\ CallInv(k)'
<1> USE DEF CancelInv, Types, CallInv
<1>0. /\ named[k] \in Seq(Ref) /\ found[k] \in Seq(Found) /\ phase[k] = "formatting"
      /\ method[k] \in LookingUp /\ 1 <= Len(found[k]) /\ Len(found[k]) <= Len(named[k])
      /\ tx[k] = "none" /\ closedBy[k] = {} /\ AsRead(found[k][Len(found[k])])
  <2>1. named[k] \in Seq(Ref) /\ found[k] \in Seq(Found) /\ phase[k] = "formatting"
    BY DEF CallTypes, Format
  <2>2. method[k] \in LookingUp /\ tx[k] = "none" /\ closedBy[k] = {}
    BY <2>1 DEF PhaseOK
  <2>3. 1 <= Len(found[k]) /\ Len(found[k]) <= Len(named[k])
    BY <2>1, <2>2 DEF NamedOK
  <2> QED BY <2>1, <2>2, <2>3 DEF ViewOK
<1>1. PICK last : last = Len(found[k]) /\ last \in DOMAIN found[k]
  BY <1>0
<1>2. PICK d \in Found : d = found[k][last] /\ d.view \in Placed /\ d.id \in InternalIds
  BY <1>0, <1>1, FoundMembers DEF AsRead, Found
<1>3. PICK known \in BOOLEAN : known = pairKnown'
  BY DEF Format
<1>4. PICK v \in Views : v = FromContract(Struct(d.id, d.view), known)
  BY <1>2 DEF Views
<1>5. PICK e \in Found : /\ e = Viewed(d, v)
                         /\ e.id = d.id /\ e.cid = d.cid /\ e.way = d.way
  BY ViewedIsFound
<1>6. PICK ds \in Seq(Found) : ds = [found[k] EXCEPT ![last] = e] /\ Len(ds) = Len(found[k])
  <2>1. [found[k] EXCEPT ![last] = e] \in Seq(Found)
        /\ Len([found[k] EXCEPT ![last] = e]) = Len(found[k])
    BY <1>0, <1>1, RestyledLast
  <2> QED BY <2>1
<1>7. /\ found' = [found EXCEPT ![k] = ds]
      /\ UNCHANGED <<orders, method, waits, named, tx, closedBy>>
  BY <1>1, <1>2, <1>3, <1>4, <1>5, <1>6 DEF Format, CallTypes, chainVars
<1>8. DOMAIN ds = DOMAIN found[k] /\ \A n \in DOMAIN ds :
        ds[n].id = found[k][n].id /\ ds[n].cid = found[k][n].cid /\ ds[n].way = found[k][n].way
  BY <1>0, <1>1, <1>2, <1>5, <1>6
<1>9. PICK ph \in {"done", "error", "resolving", "sending"} :
        /\ phase' = [phase EXCEPT ![k] = ph]
        /\ ph = "done" => method[k] \in Reading
        /\ ph = "resolving" => Len(found[k]) < Len(named[k])
        /\ ph = "sending" => method[k] \notin Reading /\ Len(found[k]) >= Len(named[k])
  <2>1. CASE method[k] \in Reading
    BY <2>1 DEF Format, Enter
  <2>2. CASE method[k] \notin Reading /\ Onward(k, found[k])
    <3>1. Len(found[k]) \in Nat /\ Len(named[k]) \in Nat
      BY <1>0
    <3> QED BY <2>2, <3>1, OnwardPhase
  <2>3. CASE method[k] \notin Reading /\ Fails(k)
    BY <2>3 DEF Fails, Enter
  <2> QED BY <2>1, <2>2, <2>3 DEF Format
<1>10. CallTypes'
  BY <1>7, <1>9 DEF CallTypes, Phases
<1>11. /\ found'[k] = ds /\ phase'[k] = ph /\ method'[k] = method[k] /\ named'[k] = named[k]
       /\ tx'[k] = "none" /\ closedBy'[k] = {} /\ orders' = orders
  BY <1>0, <1>7, <1>9 DEF CallTypes
<1>12. PhaseOK(k)'
  BY <1>0, <1>9, <1>11 DEF PhaseOK
<1>13. NamedOK(k)'
  <2>1. Len(ds) \in Nat /\ Len(named[k]) \in Nat /\ Len(ds) <= Len(named[k]) /\ Len(ds) >= 1
    BY <1>0, <1>6
  <2>2. ph = "resolving" => Len(ds) < Len(named[k])
    BY <1>6, <1>9
  <2>3. ph = "sending" => Len(ds) = Len(named[k])
    BY <1>6, <1>9, <2>1
  <2>4. method[k] # "cancel_add_list" => Len(named[k]) = 1
    BY <1>0 DEF NamedOK
  <2>5. \A n \in DOMAIN ds :
          \/ ds[n].way = "internal" /\ ds[n].id = named[k][n].word
          \/ ds[n].way = "client" /\ ds[n].cid = named[k][n].word
    BY <1>0, <1>8 DEF NamedOK
  <2> QED BY <1>9, <1>11, <2>1, <2>2, <2>3, <2>4, <2>5 DEF NamedOK
<1>14. FoundOK(k)'
  BY <1>8, <1>11 DEF FoundOK, Exists
<1>15. ViewOK(k)' /\ ClosedOK(k)'
  BY <1>9, <1>11 DEF ViewOK, ClosedOK
<1> QED BY <1>10, <1>12, <1>13, <1>14, <1>15

LEMMA ListKeeps ==
  ASSUME CancelInv, Later, NEW k \in Calls, ListArrives(k)
  PROVE  CallTypes' /\ CallInv(k)'
<1> USE DEF CancelInv, Types, CallInv
<1>0. /\ phase[k] = "listing" /\ method[k] \in Listing /\ tx[k] = "none" /\ closedBy[k] = {}
      /\ UNCHANGED <<orders, method, waits, named, tx, closedBy>>
  BY DEF CallTypes, ListArrives, PhaseOK, chainVars
<1>1. PICK ds \in Seq(Found), ph \in {"hydrating", "error"} :
        /\ found' = [found EXCEPT ![k] = ds] /\ phase' = [phase EXCEPT ![k] = ph]
        /\ ph = "hydrating" => \A n \in DOMAIN ds : /\ AsListed(ds[n]) /\ Exists(ds[n].id)
                                                   /\ orders[ds[n].id].cid = ds[n].cid
        /\ ph = "error" => ds = found[k]
  <2>1. CASE Fails(k) /\ UNCHANGED found
    <3>1. found[k] \in Seq(Found) /\ found = [found EXCEPT ![k] = found[k]]
      BY DEF CallTypes
    <3> QED BY <2>1, <3>1 DEF Fails, Enter
  <2>2. CASE ~(Fails(k) /\ UNCHANGED found)
    <3> DEFINE Listed == {i \in InternalIds : index[i].status = "open"}
    <3>1. PICK style \in Styles, ids \in SetToSeqs(Listed) :
            found' = [found EXCEPT ![k] = [n \in DOMAIN ids |->
              [id |-> ids[n], cid |-> index[ids[n]].cid, seen |-> index[ids[n]],
               way |-> "listed", view |-> Row(ids[n], index[ids[n]], style)]]]
      BY <2>2 DEF ListArrives
    <3>2. IsFiniteSet(Listed)
      <4>1. IsFiniteSet(InternalIds)
        BY WordAssumption, FS_Subset
      <4> QED BY <4>1, FS_Subset
    <3>3. PICK len \in Nat : len = Cardinality(Listed)
      BY <3>2, FS_CardinalityType
    <3>4. ids \in [1..len -> Listed]
      BY <3>3 DEF SetToSeqs
    <3>5. PICK ds : ds = [n \in 1..len |->
              [id |-> ids[n], cid |-> index[ids[n]].cid, seen |-> index[ids[n]],
               way |-> "listed", view |-> Row(ids[n], index[ids[n]], style)]]
      OBVIOUS
    <3>6. ASSUME NEW n \in 1..len
          PROVE  /\ ds[n] \in Found /\ AsListed(ds[n]) /\ Exists(ds[n].id)
                 /\ orders[ds[n].id].cid = ds[n].cid
      <4>1. PICK i \in InternalIds : i = ids[n] /\ index[i].status = "open"
        BY <3>4
      <4>2. PICK o \in Placed : o = index[i] /\ o.cid \in Words
        BY <4>1 DEF ChainOK, Placed, OrderRec
      <4>3. PICK v \in Views : v = Row(i, o, style)
        BY DEF Views
      <4>4. ds[n] = [id |-> i, cid |-> o.cid, seen |-> o, way |-> "listed", view |-> v]
        BY <3>5, <4>1, <4>2, <4>3
      <4>5. Exists(i) /\ orders[i].cid = o.cid
        BY <4>1, <4>2 DEF ChainOK
      <4>6. ds[n] \in Found
        BY <4>2, <4>4 DEF Found
      <4>7. AsListed(ds[n])
        BY <4>2, <4>3, <4>4 DEF AsListed
      <4> QED BY <4>4, <4>5, <4>6, <4>7
    <3>7. DOMAIN ds = 1..len /\ ds \in Seq(Found)
      <4>1. ds \in [1..len -> Found]
        BY <3>5, <3>6
      <4> QED BY <4>1
    <3>8. found' = [found EXCEPT ![k] = ds]
      BY <3>1, <3>4, <3>5
    <3>9. phase' = [phase EXCEPT ![k] = "hydrating"]
      BY <2>2 DEF ListArrives, Enter
    <3> QED BY <3>6, <3>7, <3>8, <3>9
  <2> QED BY <2>1, <2>2
<1>2. CallTypes'
  BY <1>0, <1>1 DEF CallTypes, Phases
<1>3. /\ found'[k] = ds /\ phase'[k] = ph /\ method'[k] = method[k] /\ named'[k] = named[k]
      /\ tx'[k] = "none" /\ closedBy'[k] = {} /\ orders' = orders
  BY <1>0, <1>1 DEF CallTypes
<1>4. PhaseOK(k)'
  BY <1>0, <1>1, <1>3 DEF PhaseOK
<1>5. NamedOK(k)'
  BY <1>0, <1>3 DEF NamedOK, LookingUp, Resolving, Listing
<1>6. FoundOK(k)' /\ ViewOK(k)' /\ ClosedOK(k)'
  BY <1>1, <1>3 DEF FoundOK, ViewOK, ClosedOK, Exists, AsListed
<1> QED BY <1>2, <1>4, <1>5, <1>6

LEMMA HydrateKeeps ==
  ASSUME CancelInv, Later, NEW k \in Calls, Hydrate(k)
  PROVE  CallTypes' /\ CallInv(k)'
<1> USE DEF CancelInv, Types, CallInv
<1>0. /\ phase[k] = "hydrating" /\ method[k] \in Listing /\ tx[k] = "none" /\ closedBy[k] = {}
      /\ UNCHANGED <<orders, method, waits, named, tx, closedBy>>
      /\ found[k] \in Seq(Found) /\ pairKnown \in BOOLEAN
  BY DEF CallTypes, ChainOK, Hydrate, PhaseOK, chainVars
<1>1. PICK ds : ds = [n \in DOMAIN found[k] |->
                        Viewed(found[k][n], FromApi(found[k][n].view, pairKnown'))]
  OBVIOUS
<1>2. pairKnown' \in BOOLEAN /\ found' = [found EXCEPT ![k] = ds]
  BY <1>0, <1>1 DEF Hydrate, CallTypes
<1>3. ASSUME NEW n \in DOMAIN found[k]
      PROVE  /\ ds[n] \in Found /\ ds[n].id = found[k][n].id /\ ds[n].cid = found[k][n].cid
  <2>1. PICK d \in Found : d = found[k][n] /\ AsListed(d) /\ d.id \in InternalIds
    BY <1>0, FoundMembers DEF ViewOK
  <2>2. PICK o \in Placed, style \in Styles : d.view = Row(d.id, o, style)
    BY <2>1 DEF AsListed, Found
  <2>3. PICK v \in Views : v = FromApi(d.view, pairKnown')
    BY <1>2, <2>1, <2>2 DEF Views
  <2>4. ds[n] = Viewed(d, v)
    BY <1>1, <2>1, <2>3
  <2> QED BY <2>1, <2>4, ViewedIsFound
<1>4. DOMAIN ds = DOMAIN found[k] /\ ds \in Seq(Found)
  <2>1. PICK len \in Nat : DOMAIN found[k] = 1..len
    BY <1>0
  <2> QED BY <1>1, <1>3, <2>1
<1>5. PICK ph \in {"done", "error", "sending"} :
        /\ phase' = [phase EXCEPT ![k] = ph]
        /\ ph = "done" => method[k] \in Reading
        /\ ph = "sending" => method[k] \notin Reading
  BY <1>0 DEF Hydrate, Fails, Enter, Reading, Listing
<1>6. CallTypes'
  BY <1>0, <1>2, <1>4, <1>5 DEF CallTypes, Phases
<1>7. /\ found'[k] = ds /\ phase'[k] = ph /\ method'[k] = method[k] /\ named'[k] = named[k]
      /\ tx'[k] = "none" /\ closedBy'[k] = {} /\ orders' = orders
  BY <1>0, <1>2, <1>5 DEF CallTypes
<1>8. PhaseOK(k)'
  BY <1>0, <1>5, <1>7 DEF PhaseOK
<1>9. NamedOK(k)'
  BY <1>0, <1>7 DEF NamedOK, LookingUp, Resolving, Listing
<1>10. FoundOK(k)' /\ ViewOK(k)' /\ ClosedOK(k)'
  BY <1>3, <1>4, <1>5, <1>7 DEF FoundOK, ViewOK, ClosedOK, Exists
<1> QED BY <1>6, <1>8, <1>9, <1>10

---------------------------------------------------------------------------
(* The transaction of the call *)

\* The steps after the orders are found leave them and the chain alone.
LEMMA AfterwardsKeeps ==
  ASSUME CancelInv, Later, NEW k \in Calls, Send(k) \/ Revert(k) \/ Receipt(k)
  PROVE  CallTypes' /\ CallInv(k)'
<1> USE DEF CancelInv, Types, CallInv
<1>1. /\ UNCHANGED <<orders, method, waits, named, found, closedBy>>
      /\ tx[k] # "none" \/ phase[k] \in {"sending", "receipt"}
  BY DEF Send, Revert, Receipt, chainVars
<1>2. PICK ph \in {"receipt", "done", "error"}, t \in {"none", "sent", "executed", "reverted"} :
        /\ phase' = [phase EXCEPT ![k] = ph] /\ tx' = [tx EXCEPT ![k] = t]
        /\ t # tx[k] => t \in {"sent", "reverted"} /\ tx[k] # "executed"
        /\ t # "none" => tx[k] # "none" \/ phase[k] = "sending"
        /\ ph = "done" /\ waits[k] /\ t # "executed" => phase[k] = "done" /\ tx[k] = "sent"
        /\ ph = "receipt" => phase[k] \in {"sending", "receipt"}
  <2>1. CASE Send(k)
    BY <2>1 DEF Send, Fails, Enter, CallTypes, PhaseOK
  <2>2. CASE Revert(k)
    BY <2>2 DEF Revert, CallTypes, PhaseOK
  <2>3. CASE Receipt(k)
    BY <2>3 DEF Receipt, Fails, Enter, CallTypes, PhaseOK
  <2> QED BY <2>1, <2>2, <2>3
<1>3. CallTypes' /\ phase'[k] = ph /\ tx'[k] = t
  BY <1>1, <1>2 DEF CallTypes, Phases
<1>4. PhaseOK(k)'
  BY <1>1, <1>2, <1>3 DEF PhaseOK
<1>5. NamedOK(k)'
  <2>1. phase[k] # "idle" /\ (t # "none" => tx[k] # "none" \/ phase[k] = "sending")
    BY <1>1, <1>2 DEF PhaseOK
  <2>2. ph \notin {"resolving", "formatting", "sending"}
    OBVIOUS
  <2> QED BY <1>1, <1>3, <2>1, <2>2 DEF NamedOK
<1>6. FoundOK(k)' /\ ViewOK(k)'
  BY <1>1, <1>2, <1>3 DEF FoundOK, ViewOK, Exists
<1>7. ClosedOK(k)'
  <2>1. Typed(k)' = Typed(k) /\ Resolved(k)' = Resolved(k) /\ Reported(k)' = Reported(k)
    BY <1>1 DEF Typed, Resolved, Reported
  <2>2. t = "executed" => tx[k] = "executed"
    BY <1>2
  <2> QED BY <1>1, <1>3, <2>1, <2>2 DEF ClosedOK, Exists
<1> QED BY <1>3, <1>4, <1>5, <1>6, <1>7

LEMMA MethodNames ==
  ASSUME NEW m \in Methods
  PROVE  \/ m \in Reading \/ m \in ByClientId
         \/ m \in {"cancel_list_orders", "cancel_all_orders", "cancel_order"}
         \/ m \in {"replace_order", "cancel_add_list"}
BY MethodAssumption DEF Reading, ByClientId

\* The orders a transaction is about were named by its call.
LEMMA TargetsAreNamed ==
  ASSUME CancelInv, NEW k \in Calls, tx[k] = "sent"
  PROVE  /\ Targets(k) \subseteq InternalIds
         /\ \A i \in Targets(k) :
              i \in (IF method[k] = "cancel_all_orders" THEN Resolved(k)
                     ELSE {j \in InternalIds : j \in Typed(k) \/ orders[j].cid \in Typed(k)})
<1> USE DEF CancelInv, Types, CallInv
<1>0. /\ named[k] \in Seq(Ref) /\ found[k] \in Seq(Found) /\ Resolved(k) \subseteq InternalIds
      /\ method[k] \in Methods /\ method[k] \notin Reading /\ phase[k] # "idle"
  BY FoundMembers DEF CallTypes, PhaseOK
<1>1. CASE method[k] \in ByClientId
  <2>1. Targets(k) = OpenWith(Typed(k)) /\ method[k] # "cancel_all_orders"
    BY <1>1 DEF Targets, ByClientId
  <2> QED BY <2>1 DEF OpenWith
<1>2. CASE method[k] = "cancel_list_orders"
  BY <1>2 DEF Targets, ByClientId
<1>3. CASE method[k] = "cancel_all_orders"
  BY <1>0, <1>3 DEF Targets, ByClientId
<1>4. CASE method[k] \in {"cancel_order", "replace_order", "cancel_add_list"}
  <2>0. method[k] \in LookingUp /\ method[k] \notin ByClientId
    BY <1>4 DEF LookingUp, Resolving, ByClientId
  <2>1. /\ Len(found[k]) = Len(named[k])
        /\ \A n \in DOMAIN found[k] : \/ found[k][n].id = named[k][n].word
                                      \/ found[k][n].cid = named[k][n].word
                                         /\ found[k][n].way = "client"
        /\ \A n \in DOMAIN found[k] : found[k][n].way = "client" =>
             found[k][n].cid = named[k][n].word
    BY <1>0, <2>0 DEF NamedOK
  <2>2. DOMAIN found[k] = DOMAIN named[k]
    BY <1>0, <2>1
  <2>3. \A n \in DOMAIN found[k] : named[k][n].word \in Typed(k)
    BY <2>2 DEF Typed
  <2>4. \A i \in Resolved(k) : i \in Typed(k) \/ orders[i].cid \in Typed(k)
    BY <2>1, <2>3 DEF Resolved, FoundOK
  <2>5. CASE method[k] = "cancel_order" /\ found[k][1].way = "client"
    <3>1. 1 \in DOMAIN found[k]
      BY <1>0, <2>0, <2>1, <2>5 DEF NamedOK
    <3>2. found[k][1].cid \in Typed(k)
      BY <2>1, <2>3, <2>5, <3>1
    <3>3. Targets(k) = OpenWith({found[k][1].cid})
      BY <2>0, <2>5 DEF Targets
    <3> QED BY <2>5, <3>2, <3>3 DEF OpenWith
  <2>6. CASE ~(method[k] = "cancel_order" /\ found[k][1].way = "client")
    <3>1. Targets(k) = Resolved(k)
      BY <1>4, <2>0, <2>6 DEF Targets
    <3> QED BY <1>0, <1>4, <2>4, <3>1
  <2> QED BY <2>5, <2>6
<1> QED BY <1>0, <1>1, <1>2, <1>3, <1>4, MethodNames

\* Once it has run, what the call reports is closed: the order whose client id the
\* transaction named is the one found, or had been closed before.
LEMMA ReportedBecomesClosed ==
  ASSUME CancelInv, Later, NEW k \in Calls, Execute(k), method[k] \notin ByClientId
  PROVE  \A i \in Reported(k) : orders'[i].status = "closed"
<1> USE DEF CancelInv, Types, CallInv
<1>0. /\ named[k] \in Seq(Ref) /\ found[k] \in Seq(Found) /\ Resolved(k) \subseteq InternalIds
      /\ method[k] \in Methods /\ method[k] \notin Reading /\ phase[k] # "idle" /\ tx[k] = "sent"
  BY FoundMembers DEF CallTypes, PhaseOK, Execute
<1>1. \A i \in Targets(k) : i \in InternalIds /\ orders'[i].status = "closed"
  <2>1. Targets(k) \subseteq InternalIds
    BY <1>0, TargetsAreNamed
  <2>2. \A i \in Targets(k) : orders'[i] = [orders[i] EXCEPT !.status = "closed"]
    BY <2>1 DEF Execute
  <2> QED BY <2>1, <2>2 DEF ChainOK, OrderRec
<1>2. CASE method[k] = "cancel_list_orders"
  <2>1. Reported(k) = Targets(k)
    BY <1>2 DEF Reported, Targets, ByClientId
  <2> QED BY <1>1, <2>1
<1>3. CASE method[k] = "cancel_order" /\ found[k][1].way = "client"
  <2>0. method[k] \in LookingUp /\ method[k] \notin ByClientId
    BY <1>3 DEF LookingUp, Resolving, ByClientId
  <2>1. Len(found[k]) = 1
    BY <1>0, <1>3, <2>0 DEF NamedOK
  <2>2. Reported(k) = {found[k][1].id}
    BY <1>0, <1>3, <2>1 DEF Reported, Resolved
  <2>3. PICK i \in InternalIds : i = found[k][1].id
    BY <1>0, <2>1, FoundMembers
  <2>4. Exists(i) /\ orders[i].cid = found[k][1].cid
    BY <1>0, <2>1, <2>3 DEF FoundOK
  <2>5. Targets(k) = OpenWith({found[k][1].cid})
    BY <1>3, <2>0 DEF Targets
  <2>6. CASE Open(i)
    BY <1>1, <2>2, <2>3, <2>4, <2>5, <2>6 DEF OpenWith
  <2>7. CASE ~Open(i)
    <3>1. orders[i].status = "closed"
      BY <2>4, <2>7 DEF ChainOK, OrderRec, Exists, Open
    <3> QED BY <2>2, <2>3, <2>4, <3>1 DEF Later
  <2> QED BY <2>6, <2>7
<1>4. CASE method[k] # "cancel_list_orders"
           /\ ~(method[k] = "cancel_order" /\ found[k][1].way = "client")
  <2>1. Reported(k) = Targets(k)
    BY <1>4 DEF Reported, Targets
  <2> QED BY <1>1, <2>1
<1> QED BY <1>2, <1>3, <1>4

LEMMA ExecuteKeeps ==
  ASSUME CancelInv, Later, NEW k \in Calls, Execute(k)
  PROVE  CallTypes' /\ CallInv(k)'
<1> USE DEF CancelInv, Types, CallInv
<1>1. /\ UNCHANGED <<method, waits, named, found, phase>> /\ tx[k] = "sent"
      /\ tx' = [tx EXCEPT ![k] = "executed"]
      /\ closedBy' = [closedBy EXCEPT ![k] = {i \in Targets(k) : Open(i)}]
  BY DEF Execute
<1>2. Targets(k) \subseteq InternalIds
  BY <1>1, TargetsAreNamed
<1>3. /\ CallTypes' /\ tx'[k] = "executed" /\ closedBy'[k] \subseteq Targets(k)
      /\ \A i \in closedBy'[k] : Open(i)
  BY <1>1, <1>2 DEF CallTypes
<1>4. PhaseOK(k)' /\ NamedOK(k)' /\ ViewOK(k)'
  BY <1>1, <1>3 DEF PhaseOK, NamedOK, ViewOK
<1>5. FoundOK(k)'
  BY <1>1, FoundMembers DEF FoundOK, Later
<1>6. ClosedOK(k)'
  <2>1. /\ Typed(k)' = Typed(k) /\ Resolved(k)' = Resolved(k) /\ Reported(k)' = Reported(k)
    BY <1>1 DEF Typed, Resolved, Reported
  <2>2. method[k] \notin ByClientId => \A i \in Reported(k) : orders'[i].status = "closed"
    BY ReportedBecomesClosed
  <2>3. ASSUME NEW i \in closedBy'[k]
        PROVE  i \in InternalIds /\ Exists(i)' /\ orders'[i].cid = orders[i].cid
    BY <1>2, <1>3, <2>3 DEF Later, Open, Exists
  <2>4. \A i \in closedBy'[k] :
          i \in (IF method[k] = "cancel_all_orders" THEN Resolved(k)
                 ELSE {j \in InternalIds : j \in Typed(k) \/ orders[j].cid \in Typed(k)})
    BY <1>1, <1>3, TargetsAreNamed
  <2> QED BY <1>1, <2>1, <2>2, <2>3, <2>4 DEF ClosedOK
<1> QED BY <1>3, <1>4, <1>5, <1>6

---------------------------------------------------------------------------
(* The invariant *)

LEMMA CancelInvInit == Init => CancelInv
BY TypesInit, InitCalls DEF CancelInv

LEMMA CancelInvStep == CancelInv /\ [Next]_vars => CancelInv'
<1> SUFFICES ASSUME CancelInv, [Next]_vars PROVE CancelInv'
  OBVIOUS
<1>0. ChainOK' /\ Later /\ CallTypes
  BY ChainStep DEF CancelInv, Types
<1>1. ASSUME NEW k \in Calls, CallStep(k) PROVE CancelInv'
  <2>1. CallTypes' /\ CallInv(k)'
    BY <1>0, <1>1, FindsKeeps, MissKeeps, FormatKeeps, ListKeeps, HydrateKeeps,
       AfterwardsKeeps, ExecuteKeeps DEF CallStep
  <2>2. ASSUME NEW j \in Calls, j # k PROVE CallInv(j)'
    <3>1. SameCall(j)
      BY <1>0, <1>1, <2>2, CallsApart
    <3> QED BY <1>0, <3>1, CallUndisturbed
  <2> QED BY <1>0, <2>1, <2>2 DEF CancelInv, Types
<1>2. ASSUME NEW k \in Calls, NEW m \in Methods, NEW wait \in BOOLEAN,
             NEW refs \in Inputs \cup {<<>>}, Begin(k, m, refs, wait)
      PROVE  CancelInv'
  BY <1>0, <1>2, BeginKeeps DEF CancelInv, Types
<1>3. ASSUME UNCHANGED callVars PROVE CancelInv'
  <2>1. ASSUME NEW k \in Calls PROVE CallInv(k)'
    <3>1. SameCall(k)
      BY <1>3 DEF callVars, SameCall
    <3> QED BY <1>0, <3>1, CallUndisturbed
  <2>2. CallTypes'
    BY <1>0, <1>3 DEF callVars, CallTypes
  <2> QED BY <1>0, <2>1, <2>2 DEF CancelInv, Types
<1>4. ASSUME NEW i \in InternalIds, Fill(i) \/ Index(i) \/ \E c \in Words : Place(i, c)
      PROVE  CancelInv'
  BY <1>3, <1>4 DEF Fill, Index, Place
<1>5. CASE UNCHANGED vars
  BY <1>3, <1>5 DEF vars
<1> QED BY <1>1, <1>2, <1>4, <1>5 DEF Next

THEOREM CancelInvCorrect == Spec => []CancelInv
BY CancelInvInit, CancelInvStep, PTL DEF Spec

\* The variables keep their types.
THEOREM CancelTypeCorrect == Spec => []CancelTypeOK
<1>1. CancelInv => CancelTypeOK
  <2> SUFFICES ASSUME CancelInv PROVE CancelTypeOK
    OBVIOUS
  <2>1. \A i \in InternalIds : orders[i].status \in {"none", "open", "closed"}
                               /\ orders[i].cid \in Words /\ orders[i].filled \in 0..Size
    BY DEF CancelInv, Types, ChainOK, OrderRec
  <2>2. ASSUME NEW k \in Calls
        PROVE  /\ phase[k] \in Phases /\ method[k] \in Methods \cup {"none"}
               /\ tx[k] # "none" => phase[k] \in {"receipt", "done", "error"}
               /\ method[k] \in Resolving => Len(found[k]) <= Len(named[k])
    <3>1. CallInv(k) /\ CallTypes
      BY DEF CancelInv, Types
    <3>2. CASE phase[k] = "idle"
      <4>1. found[k] = <<>> /\ named[k] \in Seq(Ref)
        BY <3>1, <3>2 DEF CallInv, PhaseOK, CallTypes
      <4> QED BY <3>1, <4>1 DEF CallInv, PhaseOK, CallTypes
    <3>3. CASE phase[k] # "idle"
      BY <3>1, <3>3 DEF CallInv, PhaseOK, NamedOK, CallTypes, LookingUp
    <3> QED BY <3>2, <3>3
  <2> QED BY <2>1, <2>2 DEF CancelInv, Types, ChainOK, CancelTypeOK
<1> QED BY <1>1, CancelInvCorrect, PTL

\* A transaction closes no order but those its call named or listed, whatever the others
\* fill, place or cancel between the lookup and the execution.
THEOREM OnlyNamedCorrect == Spec => []OnlyNamedAreClosed
<1>1. CancelInv => OnlyNamedAreClosed
  BY DEF CancelInv, CallInv, ClosedOK, OnlyNamedAreClosed
<1> QED BY <1>1, CancelInvCorrect, PTL

\* What a call that waited and succeeded reports is closed, and stays so.
THEOREM ReportedIsClosedCorrect == Spec => []ReportedIsClosed
<1>1. CancelInv => ReportedIsClosed
  BY DEF CancelInv, CallInv, ClosedOK, PhaseOK, ReportedIsClosed, Reported, Open
<1> QED BY <1>1, CancelInvCorrect, PTL

---------------------------------------------------------------------------
(* What the readers show *)

\* What one is in the amounts shown.
Unit(d) == IF d.way # "listed" /\ d.view.pair = None THEN BaseUnit ELSE 1
Shown(d) ==
  /\ d.view.id = d.id /\ d.view.cid = d.seen.cid /\ d.view.status = d.seen.status
  /\ d.view.quantity = Size * Unit(d)
  /\ \/ d.view.filled = d.seen.filled * Unit(d)
     \/ d.way = "listed" /\ d.seen.filled = 0 /\ d.view.filled = None

LEMMA ScaledBack ==
  ASSUME NEW a \in Nat, NEW b \in Nat \ {0}
  PROVE  (a * b) \div b = a
BY Z3

\* The first spelling of a field with a truthy value is the one that counts.
LEMMA FirstTruthy ==
  ASSUME NEW row, NEW keys, DOMAIN keys \subseteq Nat, NEW m \in DOMAIN keys,
         Truthy(Get(row, keys[m])),
         \A j \in DOMAIN keys : j < m => ~Truthy(Get(row, keys[j]))
  PROVE  FirstOf(row, keys) = Get(row, keys[m])
<1> DEFINE good == {n \in DOMAIN keys : Truthy(Get(row, keys[n]))}
           first == CHOOSE n \in good : \A j \in good : n <= j
<1> HIDE DEF good
<1>1. m \in good /\ \A j \in good : j \in Nat /\ m <= j
  BY DEF good
<1>2. first \in good /\ \A j \in good : first <= j
  BY <1>1
<1>3. first = m
  BY <1>1, <1>2
<1> QED BY <1>1, <1>3 DEF FirstOf, good

\* If none is truthy, nothing is found, as long as the last spelling is not there either.
LEMMA NoneTruthy ==
  ASSUME NEW row, NEW keys, \A j \in DOMAIN keys : ~Truthy(Get(row, keys[j])),
         Get(row, Last(keys)) = None
  PROVE  FirstOf(row, keys) = None
BY DEF FirstOf

LEMMA StatusRead ==
  ASSUME NEW o \in Placed
  PROVE  StatusNames[StatusNumber[o.status]] = o.status
BY DEF Placed, OrderRec, StatusNames, StatusNumber

LEMMA ContractShown ==
  ASSUME NEW d \in Found, AsRead(d), NEW b \in BOOLEAN
  PROVE  Shown(Viewed(d, FromContract(Struct(d.id, d.view), b)))
<1>1. PICK o \in Placed : o = d.view /\ o = d.seen /\ o.filled \in 0..Size
  BY DEF AsRead, Placed, OrderRec, Found
<1>2. PICK v \in Views : v = FromContract(Struct(d.id, o), b)
  BY DEF Views, Found
<1>3. /\ (Size * BaseUnit) \div BaseUnit = Size /\ (o.filled * BaseUnit) \div BaseUnit = o.filled
      /\ Size * 1 = Size /\ o.filled * 1 = o.filled
      /\ (Size * BaseUnit) \div 1 = Size * BaseUnit
      /\ (o.filled * BaseUnit) \div 1 = o.filled * BaseUnit
  <2>1. Size \in Nat /\ o.filled \in Nat /\ BaseUnit \in Nat \ {0}
    BY <1>1, SizeAssumption
  <2>2. Size * BaseUnit \in Nat /\ o.filled * BaseUnit \in Nat
    BY <2>1
  <2>3. \A a \in Nat : a * 1 = a /\ a \div 1 = a
    OBVIOUS
  <2> QED BY <2>1, <2>2, <2>3, ScaledBack
<1>4. v.id = d.id /\ v.cid = o.cid /\ v.status = o.status
  BY <1>1, <1>2, StatusRead DEF FromContract, Struct
<1>5. v.pair = IF b THEN Pair ELSE None
  BY <1>2 DEF FromContract
<1>6. /\ v.quantity = (Size * BaseUnit) \div (IF b THEN BaseUnit ELSE 1)
      /\ v.filled = (o.filled * BaseUnit) \div (IF b THEN BaseUnit ELSE 1)
  BY <1>2 DEF FromContract, Struct
<1>7. PICK e : e = Viewed(d, v)
  OBVIOUS
<1>8. e.id = d.id /\ e.view = v /\ e.seen = o /\ e.way = d.way /\ e.way # "listed"
  BY <1>1, <1>2, <1>7, ViewedIsFound DEF AsRead
<1>9. Unit(e) = IF b THEN 1 ELSE BaseUnit
  BY <1>5, <1>8, NoneAssumption DEF Unit
<1>10. v.quantity = Size * Unit(e) /\ v.filled = o.filled * Unit(e)
  BY <1>3, <1>6, <1>9
<1> QED BY <1>1, <1>2, <1>4, <1>7, <1>8, <1>10 DEF Shown

\* A JSON value of an amount, and what is read of it.
LEMMA AmountRead ==
  ASSUME NEW n \in 0..Size, NEW x \in {Text(n), Number(n)}
  PROVE  /\ x # None /\ Plain(x) = n /\ (n # 0 => Truthy(x))
BY NoneAssumption DEF Plain, Truthy, Text, Number

LEMMA ListedShown ==
  ASSUME NEW d \in Found, AsListed(d), NEW b \in BOOLEAN
  PROVE  Shown(Viewed(d, FromApi(d.view, b)))
<1>1. PICK o \in Placed, style \in Styles : o = d.seen /\ d.view = Row(d.id, o, style)
  BY DEF AsListed, Found
<1>2. PICK i \in InternalIds : i = d.id
  BY DEF Found
<1>3. PICK row : row = Row(i, o, style)
  OBVIOUS
<1>4. o.filled \in 0..Size /\ o.cid \in Words /\ i \in Words /\ Size \in 0..Size
  BY WordAssumption, SizeAssumption DEF Placed, OrderRec
<1>5. PICK q \in {Text(Size), Number(Size)}, f \in {Text(o.filled), Number(o.filled)} :
        /\ q = IF style.amounts = "number" THEN Number(Size) ELSE Text(Size)
        /\ f = IF style.amounts = "number" THEN Number(o.filled) ELSE Text(o.filled)
  OBVIOUS
<1>6. PICK p \in {Text(Pair), None} : p = IF style.paired THEN Text(Pair) ELSE None
  OBVIOUS
<1>7. style.keys \in {"rest", "canonical", "camel"}
  BY StyleAssumption
<1>8. /\ Truthy(Text(i)) /\ Truthy(Text(o.cid)) /\ ~Truthy(None)
      /\ q # None /\ f # None /\ Plain(q) = Size /\ Plain(f) = o.filled
      /\ (o.filled # 0 => Truthy(f))
  <2>1. Truthy(Text(i)) /\ Truthy(Text(o.cid)) /\ ~Truthy(None)
    BY <1>4, NoneAssumption DEF Truthy, Text, Number
  <2> QED BY <1>4, <1>5, <2>1, AmountRead
<1>9. /\ \/ /\ Get(row, "internal_order_id") = None /\ Get(row, "id") = Text(i)
         \/ Get(row, "internal_order_id") = Text(i)
      /\ \E m \in 1..3 :
           /\ Get(row, <<"client_order_id", "clientOrderId", "clientordid">>[m]) = Text(o.cid)
           /\ \A j \in 1..3 : j < m =>
                Get(row, <<"client_order_id", "clientOrderId", "clientordid">>[j]) = None
      /\ \E m \in 1..4 :
           /\ Get(row, FilledKeys[m]) = f
           /\ \A j \in 1..6 : j # m => Get(row, FilledKeys[j]) = None
      /\ Get(row, "quantity") = q
      /\ EnumName(Get(row, "status")) = o.status
  <2>f. /\ FilledKeys[1] = "quantity_filled" /\ FilledKeys[2] = "quantityFilled"
        /\ FilledKeys[3] = "filledQuantity" /\ FilledKeys[4] = "quantityfilled"
        /\ FilledKeys[5] = "filledquantity" /\ FilledKeys[6] = "filled_quantity"
    BY DEF FilledKeys
  <2>s. /\ EnumName(Number(StatusNumber[o.status])) = o.status
        /\ EnumName(Text(o.status)) = o.status
    <3>1. EnumName(Number(StatusNumber[o.status])) = StatusNames[StatusNumber[o.status]]
      <4>1. StatusNumber[o.status] \in {0, 3}
        BY DEF Placed, OrderRec, StatusNumber
      <4> QED BY <4>1, NoneAssumption DEF EnumName, Number
    <3>2. EnumName(Text(o.status)) = o.status
      <4>1. o.status \in {"open", "closed"}
        BY DEF Placed, OrderRec
      <4> QED BY <4>1, NoneAssumption DEF EnumName, Plain, Text
    <3> QED BY <3>1, <3>2, StatusRead
  <2>1. CASE style.keys = "rest"
    <3>1. row = [id |-> Text(i), clientordid |-> Text(o.cid), pair |-> p,
                 quantity |-> q, quantityfilled |-> f,
                 status |-> Number(StatusNumber[o.status])]
      BY <1>3, <1>4, <1>5, <1>6, <2>1 DEF Row
    <3> QED BY <2>f, <2>s, <3>1 DEF Get
  <2>2. CASE style.keys = "canonical"
    <3>1. row = [internal_order_id |-> Text(i), client_order_id |-> Text(o.cid), pair |-> p,
                 trade_pair_id |-> Text(PairId), quantity |-> q, quantity_filled |-> f,
                 status |-> Text(o.status), update_block |-> Number(1)]
      BY <1>3, <1>4, <1>5, <1>6, <2>2 DEF Row
    <3> QED BY <2>f, <2>s, <3>1 DEF Get
  <2>3. CASE style.keys = "camel"
    <3>1. row = [id |-> Text(i), clientOrderId |-> Text(o.cid), tradePair |-> p,
                 tradePairId |-> Text(PairId), quantity |-> q, filledQuantity |-> f,
                 status |-> Number(StatusNumber[o.status]), updateBlock |-> Text(1)]
      BY <1>3, <1>4, <1>5, <1>6, <2>3 DEF Row
    <3> QED BY <2>f, <2>s, <3>1 DEF Get
  <2> QED BY <1>7, <2>1, <2>2, <2>3
<1>10. FirstOf(row, <<"internal_order_id", "id">>) = Text(i)
  <2> DEFINE keys == <<"internal_order_id", "id">>
  <2>1. DOMAIN keys = {1, 2} /\ keys[1] = "internal_order_id" /\ keys[2] = "id"
    OBVIOUS
  <2> HIDE DEF keys
  <2>2. PICK m \in {1, 2} : /\ Get(row, keys[m]) = Text(i)
                            /\ \A j \in DOMAIN keys : j < m => Get(row, keys[j]) = None
    BY <1>9, <2>1
  <2>3. FirstOf(row, keys) = Get(row, keys[m])
    BY <1>8, <2>1, <2>2, FirstTruthy
  <2> QED BY <2>2, <2>3 DEF keys
<1>11. FirstOf(row, <<"client_order_id", "clientOrderId", "clientordid">>) = Text(o.cid)
  <2> DEFINE keys == <<"client_order_id", "clientOrderId", "clientordid">>
  <2>1. DOMAIN keys = 1..3
    OBVIOUS
  <2>2. PICK m \in 1..3 : /\ Get(row, keys[m]) = Text(o.cid)
                          /\ \A j \in DOMAIN keys : j < m => Get(row, keys[j]) = None
    BY <1>9, <2>1
  <2> HIDE DEF keys
  <2>3. FirstOf(row, keys) = Get(row, keys[m])
    BY <1>8, <2>1, <2>2, FirstTruthy
  <2> QED BY <2>2, <2>3 DEF keys
<1>12. FirstOf(row, FilledKeys) = f \/ (o.filled = 0 /\ FirstOf(row, FilledKeys) = None)
  <2>1. DOMAIN FilledKeys = 1..6 /\ Last(FilledKeys) = FilledKeys[6]
    BY DEF FilledKeys, Last
  <2>2. PICK m \in 1..4 : /\ Get(row, FilledKeys[m]) = f
                          /\ \A j \in 1..6 : j # m => Get(row, FilledKeys[j]) = None
    BY <1>9
  <2>3. CASE Truthy(f)
    BY <1>8, <2>1, <2>2, <2>3, FirstTruthy
  <2>4. CASE ~Truthy(f)
    <3>1. \A j \in DOMAIN FilledKeys : ~Truthy(Get(row, FilledKeys[j]))
      BY <1>8, <2>1, <2>2, <2>4
    <3>2. Get(row, Last(FilledKeys)) = None
      BY <2>1, <2>2
    <3> QED BY <1>8, <2>4, <3>1, <3>2, NoneTruthy
  <2> QED BY <2>3, <2>4
<1>13. PICK v \in Views : v = FromApi(row, b)
  BY <1>1, <1>2, <1>3 DEF Views
<1>14. /\ v.id = Plain(Text(i)) /\ v.cid = Plain(Text(o.cid)) /\ v.status = o.status
       /\ v.quantity = Plain(q) /\ v.filled = Plain(FirstOf(row, FilledKeys))
  BY <1>9, <1>10, <1>11, <1>13 DEF FromApi
<1>15. /\ v.id = i /\ v.cid = o.cid /\ v.quantity = Size
       /\ v.filled = o.filled \/ (o.filled = 0 /\ v.filled = None)
  <2>1. v.id = i /\ v.cid = o.cid /\ Plain(None) = None
    BY <1>8, <1>14 DEF Plain, Text, Truthy
  <2> QED BY <1>8, <1>12, <1>14, <2>1
<1>16. Size * 1 = Size /\ o.filled * 1 = o.filled
  BY <1>4, SizeAssumption
<1>17. PICK e : e = Viewed(d, v)
  OBVIOUS
<1>18. e.id = i /\ e.view = v /\ e.seen = o /\ e.way = "listed"
  BY <1>1, <1>2, <1>13, <1>17, ViewedIsFound DEF AsListed
<1>19. Unit(e) = 1
  BY <1>18 DEF Unit
<1> QED BY <1>1, <1>2, <1>3, <1>13, <1>14, <1>15, <1>16, <1>17, <1>18, <1>19 DEF Shown

\* The orders a reader has answered with.
Answered(k) == phase[k] = "done" /\ method[k] \in Reading
AnswersShown == \A k \in Calls : Answered(k) => \A n \in DOMAIN found[k] : Shown(found[k][n])

LEMMA OneLeft == ASSUME NEW n \in Nat, n >= 1, n <= 1 PROVE n = 1
OBVIOUS

LEMMA FormatShows ==
  ASSUME CancelInv, NEW k \in Calls, Format(k), phase'[k] = "done", method'[k] \in Reading
  PROVE  \A n \in DOMAIN found'[k] : Shown(found'[k][n])
<1> USE DEF CancelInv, Types, CallInv
<1>1. /\ named[k] \in Seq(Ref) /\ found[k] \in Seq(Found) /\ phase[k] = "formatting"
      /\ method[k] \in LookingUp /\ method'[k] = method[k] /\ method[k] \in Reading
  BY DEF CallTypes, Format, PhaseOK, Answered
<1>2. Len(found[k]) = 1 /\ AsRead(found[k][1])
  <2>1. Len(named[k]) = 1
    BY <1>1 DEF NamedOK, Reading
  <2>2. PICK len \in Nat : len = Len(found[k]) /\ len >= 1 /\ len <= 1
    BY <1>1, <2>1 DEF NamedOK
  <2>3. Len(found[k]) = 1
    BY <2>2, OneLeft
  <2> QED BY <1>1, <2>3 DEF ViewOK
<1>3. PICK known \in BOOLEAN : known = pairKnown'
  BY DEF Format, ChainOK
<1>4. PICK d \in Found : d = found[k][1]
  BY <1>1, <1>2, FoundMembers
<1>5. PICK e : e = Viewed(d, FromContract(Struct(d.id, d.view), known))
  OBVIOUS
<1>6. found'[k] = [found[k] EXCEPT ![1] = e]
  BY <1>2, <1>3, <1>4, <1>5 DEF Format, CallTypes
<1>7. DOMAIN found[k] = {1} /\ DOMAIN found'[k] = {1} /\ found'[k][1] = e
  BY <1>1, <1>2, <1>6
<1> QED BY <1>2, <1>4, <1>5, <1>7, ContractShown

LEMMA HydrateShows ==
  ASSUME CancelInv, NEW k \in Calls, Hydrate(k)
  PROVE  \A n \in DOMAIN found'[k] : Shown(found'[k][n])
<1> USE DEF CancelInv, Types, CallInv
<1>1. found[k] \in Seq(Found) /\ pairKnown' \in BOOLEAN
      /\ \A n \in DOMAIN found[k] : AsListed(found[k][n])
  BY DEF CallTypes, ChainOK, Hydrate, ViewOK
<1>2. found'[k] = [n \in DOMAIN found[k] |->
                     Viewed(found[k][n], FromApi(found[k][n].view, pairKnown'))]
  BY DEF Hydrate, CallTypes
<1>3. ASSUME NEW n \in DOMAIN found[k]
      PROVE  Shown(Viewed(found[k][n], FromApi(found[k][n].view, pairKnown')))
  <2>1. PICK d \in Found : d = found[k][n]
    BY <1>1, FoundMembers
  <2> QED BY <1>1, <2>1, ListedShown
<1> QED BY <1>2, <1>3

\* The other steps make no reader answer.
LEMMA OthersShowNothing ==
  ASSUME CancelInv, NEW k \in Calls, CallStep(k), ~Format(k), ~Hydrate(k), Answered(k)'
  PROVE  Answered(k) /\ found'[k] = found[k]
<1> USE DEF CancelInv, Types, CallInv, CallTypes, Answered, Enter, Fails
<1>1. CASE \E i \in InternalIds : LookupFinds(k, i)
  BY <1>1, OnwardPhase DEF LookupFinds
<1>2. CASE LookupMisses(k) \/ NotFound(k) \/ Send(k) \/ Revert(k) \/ Receipt(k)
  BY <1>2 DEF LookupMisses, NotFound, Send, Revert, Receipt, PhaseOK
<1>3. CASE ListArrives(k)
  BY <1>3 DEF ListArrives
<1>4. CASE Execute(k)
  BY <1>4 DEF Execute
<1> QED BY <1>1, <1>2, <1>3, <1>4 DEF CallStep

LEMMA ShownStep == CancelInv /\ AnswersShown /\ [Next]_vars => AnswersShown'
<1> SUFFICES ASSUME CancelInv, AnswersShown, [Next]_vars PROVE AnswersShown'
  OBVIOUS
<1>0. CallTypes
  BY DEF CancelInv, Types
<1>1. ASSUME NEW k \in Calls, CallStep(k) PROVE AnswersShown'
  <2>1. ASSUME NEW j \in Calls, j # k, Answered(j)'
        PROVE  \A n \in DOMAIN found'[j] : Shown(found'[j][n])
    <3>1. SameCall(j)
      BY <1>0, <1>1, <2>1, CallsApart
    <3> QED BY <2>1, <3>1 DEF SameCall, Answered, AnswersShown
  <2>2. ASSUME Answered(k)' PROVE \A n \in DOMAIN found'[k] : Shown(found'[k][n])
    <3>1. CASE Format(k)
      BY <2>2, <3>1, FormatShows DEF Answered
    <3>2. CASE Hydrate(k)
      BY <3>2, HydrateShows
    <3>3. CASE ~Format(k) /\ ~Hydrate(k)
      <4>1. Answered(k) /\ found'[k] = found[k]
        BY <1>1, <2>2, <3>3, OthersShowNothing
      <4> QED BY <4>1 DEF AnswersShown
    <3> QED BY <3>1, <3>2, <3>3
  <2> QED BY <2>1, <2>2 DEF AnswersShown, Shown
<1>2. ASSUME NEW k \in Calls, NEW m \in Methods, NEW wait \in BOOLEAN,
             NEW refs \in Inputs \cup {<<>>}, Begin(k, m, refs, wait)
      PROVE  AnswersShown'
  <2>1. FirstPhase(m) # "done"
    BY DEF FirstPhase, Resolving, Listing
  <2>2. /\ phase' = [phase EXCEPT ![k] = FirstPhase(m)]
        /\ method' = [method EXCEPT ![k] = m] /\ found' = found
    BY <1>2 DEF Begin, Enter
  <2>3. \A j \in Calls : Answered(j)' => Answered(j)
    BY <1>0, <2>1, <2>2 DEF Answered, CallTypes
  <2> QED BY <2>2, <2>3 DEF AnswersShown, Shown
<1>3. ASSUME UNCHANGED callVars PROVE AnswersShown'
  BY <1>3 DEF AnswersShown, Answered, Shown, callVars
<1>4. ASSUME NEW i \in InternalIds, Fill(i) \/ Index(i) \/ \E c \in Words : Place(i, c)
      PROVE  AnswersShown'
  BY <1>3, <1>4 DEF Fill, Index, Place
<1>5. CASE UNCHANGED vars
  BY <1>3, <1>5 DEF vars
<1> QED BY <1>1, <1>2, <1>4, <1>5 DEF Next

\* The readers show what was read, in units unless a contract's order has no pair known,
\* whichever way it came and however the API spells its rows; but for a 0 shown as None.
THEOREM ShownInUnitsCorrect == Spec => []ShownInUnits
<1>1. Init => AnswersShown
  BY DEF Init, AnswersShown, Answered
<1>2. CancelInv /\ AnswersShown /\ [Next]_vars => AnswersShown'
  BY ShownStep
<1>3. AnswersShown => ShownInUnits
  BY DEF AnswersShown, Answered, Shown, Unit, ShownInUnits
<1> QED BY <1>1, <1>2, <1>3, CancelInvCorrect, PTL DEF Spec

-----------------------------------------------------------------------------
(* Order entry *)

USE PairAssumption, RequestAssumption

Structs == [pair : Pairs, side : {"BUY", "SELL"}, type : {"LIMIT", "MARKET"},
            price : Int, quantity : Int]

-----------------------------------------------------------------------------
(* The invariant *)

EntryTypes ==
  /\ path \in Paths /\ stage \in Stages
  /\ typed \in Seq(Requests) /\ Len(typed) <= MaxOrders
  /\ built \in Seq(Structs) /\ Len(built) <= Len(typed)
  /\ required \in [Tokens -> Int] /\ unchecked \subseteq Tokens
  /\ seen \in [Tokens -> Nat]

\* What is built is what was typed, accepted and converted, one by one.
BuiltOK ==
  /\ stage = "idle" => built = <<>>
  /\ \A i \in 1..Len(built) : Accepted(path, typed[i]) /\ built[i] = OrderStruct(typed[i])

AllEncodable == \A i \in 1..Len(built) : Encodable(built[i])

SentOK == stage = "sent" => unchecked = {} /\ AllEncodable

\* What the sum of n orders may be off.
Off(n) == IF path = "add_order" THEN 0 ELSE 2 * Slack * n

\* As long as all is encodable, what is required of a token is what the orders lock of it.
SumOK ==
  path \in Checking /\ AllEncodable =>
    \A t \in Tokens : /\ IsFiniteSet(Locked(t))
                      /\ Cardinality(Locked(t)) <= required[t] + Off(Len(built))

\* What is not to be compared any more is there.
SeenOK == path \in Checking => \A t \in Tokens \ unchecked : required[t] <= seen[t] + Slack

EntryInv == EntryTypes /\ BuiltOK /\ SentOK /\ SumOK /\ SeenOK

-----------------------------------------------------------------------------
(* Rounding and conversion *)

LEMMA Multiples ==
  ASSUME NEW m \in Int, NEW w \in Nat \ {0}
  PROVE  (m * w) \div w = m /\ (m * w) % w = 0
OBVIOUS

LEMMA Division ==
  ASSUME NEW v \in Int, NEW q \in Nat \ {0}
  PROVE  /\ v \div q \in Int /\ v % q \in 0..(q - 1)
         /\ v = (v \div q) * q + (v % q)
         /\ v < 0 => v \div q <= -1
OBVIOUS

LEMMA NearestIsMultiple ==
  ASSUME NEW v \in Int, NEW q \in Nat \ {0}
  PROVE  \E k \in Int : Nearest(v, q) = k * q
<1>1. v \div q \in Int /\ (v \div q) + 1 \in Int
  BY Division
<1> QED
  BY <1>1 DEF Nearest

\* A negative number is not rounded to a positive one.
LEMMA NearestKeepsSign ==
  ASSUME NEW v \in Int, NEW q \in Nat \ {0}, Nearest(v, q) > 0
  PROVE  v >= 0
<1> SUFFICES ASSUME v < 0 PROVE FALSE
  OBVIOUS
<1> DEFINE d == v \div q
<1>1. d \in Int /\ d <= -1
  BY Division
<1>2. Nearest(v, q) = d * q \/ Nearest(v, q) = (d + 1) * q
  BY DEF Nearest
<1> HIDE DEF d
<1>3. d * q <= 0 /\ (d + 1) * q <= 0
  BY <1>1
<1>4. d * q \in Int /\ (d + 1) * q \in Int
  BY <1>1
<1> QED
  BY <1>2, <1>3, <1>4

\* A multiple of the quantum is a whole number of atomic units.
LEMMA Exact ==
  ASSUME NEW w \in Nat \ {0}, NEW q \in Nat \ {0}, q % w = 0, NEW k \in Int
  PROVE  /\ ToWei(k * q, w) \in Int
         /\ ToWei(k * q, w) * w = k * q
<1> DEFINE n == q \div w
           m == k * n
<1>1. n \in Int /\ q = n * w
  BY Division
<1>2. m \in Int /\ k * q = m * w
  BY <1>1
<1> HIDE DEF m
<1>3. (m * w) \div w = m
  BY <1>2, Multiples
<1>4. (-m) \in Int /\ -(m * w) = (-m) * w
  BY <1>2
<1>5. (-(m * w)) \div w = -m
  BY <1>4, Multiples
<1>6. ToWei(m * w, w) = m
  <2>1. CASE m * w >= 0
    BY <1>3, <2>1 DEF ToWei
  <2>2. CASE ~(m * w >= 0)
    BY <1>2, <1>5, <2>2 DEF ToWei
  <2> QED BY <2>1, <2>2
<1> QED
  BY <1>2, <1>6

-----------------------------------------------------------------------------
(* One order *)

LEMMA RequestFields ==
  ASSUME NEW r \in Requests
  PROVE  /\ r.pair \in Pairs /\ r.side \in {"BUY", "SELL"} /\ r.type \in {"LIMIT", "MARKET"}
         /\ r.price \in Int \cup {NoPrice} /\ r.amount \in Int
         /\ PriceQuantum[r.pair] \in Nat \ {0} /\ AmountQuantum[r.pair] \in Nat \ {0}
         /\ PriceWei[r.pair] \in Nat \ {0} /\ AmountWei[r.pair] \in Nat \ {0}
         /\ PriceQuantum[r.pair] % PriceWei[r.pair] = 0
         /\ AmountQuantum[r.pair] % AmountWei[r.pair] = 0
<1>1. r \in RequestType
  OBVIOUS
<1>2. /\ r.pair \in Pairs /\ r.side \in {"BUY", "SELL"} /\ r.type \in {"LIMIT", "MARKET"}
      /\ r.price \in Int \cup {NoPrice} /\ r.amount \in Int
  BY <1>1 DEF RequestType
<1> QED
  BY <1>2, DecimalsAssumption

LEMMA AcceptedMeans ==
  ASSUME NEW p \in Paths, NEW r
  PROVE  /\ p = "add_order" =>
              (Accepted(p, r) <=> ParamsOK(r) /\ ComboOK(r.type, HasPrice(r.price)) /\ Normal(r))
         /\ p = "replace_order" => (Accepted(p, r) <=> Normal(r) /\ r.price # NoPrice)
         /\ p \in {"add_limit_order_list", "cancel_add_list"} =>
              (Accepted(p, r) <=> Normal(r) /\ ComboOK(r.type, HasPrice(Price(r))))
BY DEF Accepted

\* A limit order that is accepted has a price, the one typed or 0.
LEMMA LimitHasPrice ==
  ASSUME NEW r \in Requests, NEW p \in Paths, Accepted(p, r), r.type = "LIMIT"
  PROVE  r.price # NoPrice
BY AcceptedMeans DEF Paths, ComboOK, HasPrice, Price

LEMMA AmountExact ==
  ASSUME NEW r \in Requests
  PROVE  /\ Amount(r) \in Int /\ ToWei(Amount(r), AmountWei[r.pair]) \in Int
         /\ ToWei(Amount(r), AmountWei[r.pair]) * AmountWei[r.pair] = Amount(r)
         /\ Amount(r) % AmountQuantum[r.pair] = 0
<1> DEFINE q == AmountQuantum[r.pair]
           w == AmountWei[r.pair]
<1>1. r.amount \in Int /\ q \in Nat \ {0} /\ w \in Nat \ {0} /\ q % w = 0
  BY RequestFields
<1> HIDE DEF q, w
<1>2. PICK k \in Int : Nearest(r.amount, q) = k * q
  BY <1>1, NearestIsMultiple
<1>3. Amount(r) = k * q
  BY <1>2 DEF Amount, q
<1>4. ToWei(k * q, w) \in Int /\ ToWei(k * q, w) * w = k * q /\ (k * q) % q = 0
  BY <1>1, Exact, Multiples
<1>5. k * q \in Int
  BY <1>1
<1> QED
  BY <1>3, <1>4, <1>5 DEF q, w

LEMMA PriceExact ==
  ASSUME NEW r \in Requests, r.price # NoPrice
  PROVE  /\ Price(r) \in Int /\ HasPrice(Price(r)) <=> Price(r) # 0
         /\ ToWei(Price(r), PriceWei[r.pair]) \in Int
         /\ ToWei(Price(r), PriceWei[r.pair]) * PriceWei[r.pair] = Price(r)
         /\ Price(r) % PriceQuantum[r.pair] = 0
<1> DEFINE q == PriceQuantum[r.pair]
           w == PriceWei[r.pair]
<1>1. r.price \in Int /\ q \in Nat \ {0} /\ w \in Nat \ {0} /\ q % w = 0
  BY RequestFields
<1> HIDE DEF q, w
<1>2. \E k \in Int : Price(r) = k * q
  <2>1. CASE HasPrice(r.price)
    BY <1>1, <2>1, NearestIsMultiple DEF Price, q
  <2>2. CASE ~HasPrice(r.price)
    <3>1. Price(r) = 0 /\ 0 = 0 * q
      BY <1>1, <2>2 DEF Price, HasPrice
    <3> QED BY <3>1
  <2> QED BY <2>1, <2>2
<1>3. PICK k \in Int : Price(r) = k * q
  BY <1>2
<1>4. ToWei(k * q, w) \in Int /\ ToWei(k * q, w) * w = k * q /\ (k * q) % q = 0
  BY <1>1, Exact, Multiples
<1>5. k * q \in Int
  BY <1>1
<1>6. \A v \in Int : HasPrice(v) <=> v # 0
  BY DEF HasPrice
<1> QED
  BY <1>3, <1>4, <1>5, <1>6 DEF q, w

LEMMA StructFields ==
  ASSUME NEW r \in Requests
  PROVE  /\ OrderStruct(r) \in Structs
         /\ OrderStruct(r).pair = r.pair /\ OrderStruct(r).side = r.side
         /\ OrderStruct(r).type = r.type
         /\ OrderStruct(r).price * PriceWei[r.pair] = IF r.price = NoPrice THEN 0 ELSE Price(r)
         /\ OrderStruct(r).quantity * AmountWei[r.pair] = Amount(r)
<1> DEFINE price == IF HasPrice(Price(r)) THEN ToWei(Price(r), PriceWei[r.pair]) ELSE 0
           quantity == ToWei(Amount(r), AmountWei[r.pair])
<1>1. quantity \in Int /\ quantity * AmountWei[r.pair] = Amount(r)
  BY AmountExact
<1>2. price \in Int /\ price * PriceWei[r.pair] = IF r.price = NoPrice THEN 0 ELSE Price(r)
  <2>1. CASE r.price = NoPrice
    BY <2>1, RequestFields DEF Price, HasPrice
  <2>2. CASE r.price # NoPrice
    <3>1. CASE Price(r) = 0
      BY <2>2, <3>1, PriceExact, RequestFields
    <3>2. CASE Price(r) # 0
      BY <2>2, <3>2, PriceExact
    <3> QED BY <3>1, <3>2
  <2> QED BY <2>1, <2>2
<1>3. OrderStruct(r) = [pair |-> r.pair, side |-> r.side, type |-> r.type, price |-> price,
                   quantity |-> quantity]
  BY DEF OrderStruct
<1> HIDE DEF price, quantity
<1> QED
  BY <1>1, <1>2, <1>3, RequestFields DEF Structs

\* What an accepted order adds to the sum of a token.
LEMMA LocksOf ==
  ASSUME NEW r \in Requests, NEW p \in Paths, Accepted(p, r), NEW t \in Tokens
  PROVE  /\ Locks(r)[t] = IF r.side = "SELL" THEN IF t = Base[r.pair] THEN Amount(r) ELSE 0
                          ELSE IF r.type = "LIMIT" /\ t = Quote[r.pair] THEN Price(r) * Amount(r)
                          ELSE 0
         /\ Locks(r)[t] \in Int
         /\ ~Counts(r, t) => Locks(r)[t] = 0
<1>1. r.side \in {"BUY", "SELL"} /\ r.type \in {"LIMIT", "MARKET"} /\ Amount(r) \in Int
  BY RequestFields, AmountExact
<1>2. Locks(r)[t] = IF r.side = "SELL" THEN IF t = Base[r.pair] THEN Amount(r) ELSE 0
                    ELSE IF r.type = "LIMIT" /\ t = Quote[r.pair] THEN Price(r) * Amount(r)
                    ELSE 0
  <2>1. CASE r.type = "MARKET" /\ r.side = "BUY"
    BY <2>1 DEF Locks
  <2>2. CASE r.type # "MARKET" /\ r.side = "BUY"
    BY <1>1, <2>2 DEF Locks
  <2>3. CASE r.side = "SELL"
    BY <2>3 DEF Locks
  <2> QED BY <1>1, <2>1, <2>2, <2>3
<1>3. r.type = "LIMIT" => Price(r) \in Int
  BY LimitHasPrice, PriceExact
<1>4. r.type = "LIMIT" => Price(r) * Amount(r) \in Int
  BY <1>1, <1>3
<1> QED
  BY <1>1, <1>2, <1>4 DEF Counts

\* It is what the contract locks of the struct, once that is encodable.
LEMMA LockIsExact ==
  ASSUME NEW r \in Requests, NEW p \in Paths, Accepted(p, r), Encodable(OrderStruct(r)),
         NEW t \in Tokens
  PROVE  Lock(OrderStruct(r), t) = Locks(r)[t] /\ Locks(r)[t] \in Nat
<1> DEFINE s == OrderStruct(r)
<1>1. /\ s.pair = r.pair /\ s.side = r.side /\ s.type = r.type
      /\ s.price \in Nat /\ s.quantity \in Nat
      /\ s.price * PriceWei[r.pair] = IF r.price = NoPrice THEN 0 ELSE Price(r)
      /\ s.quantity * AmountWei[r.pair] = Amount(r)
  BY StructFields DEF Encodable, Structs
<1>2. PriceWei[r.pair] \in Nat /\ AmountWei[r.pair] \in Nat
  BY RequestFields
<1>3. Amount(r) \in Nat
  BY <1>1, <1>2
<1>4. CASE r.side = "SELL"
  BY <1>1, <1>3, <1>4, LocksOf DEF Lock
<1>5. CASE r.side # "SELL" /\ r.type = "LIMIT"
  <2>1. r.price # NoPrice
    BY <1>5, LimitHasPrice
  <2>2. Price(r) \in Nat /\ s.price * PriceWei[r.pair] = Price(r)
    BY <1>1, <1>2, <2>1
  <2>3. s.price * PriceWei[r.pair] * s.quantity * AmountWei[r.pair]
          = (s.price * PriceWei[r.pair]) * (s.quantity * AmountWei[r.pair])
    BY <1>1, <1>2
  <2>4. Price(r) * Amount(r) \in Nat
    BY <1>3, <2>2
  <2> QED BY <1>1, <1>5, <2>2, <2>3, <2>4, LocksOf DEF Lock
<1>6. CASE r.side # "SELL" /\ r.type # "LIMIT"
  BY <1>1, <1>6, LocksOf DEF Lock
<1> QED
  BY <1>4, <1>5, <1>6

-----------------------------------------------------------------------------
(* The invariant holds *)

\* One more order in a list may make the sum off by two roundings more.
LEMMA OffGrows ==
  ASSUME NEW n \in Nat
  PROVE  /\ Off(n) \in Nat
         /\ \A e \in Errors : e \in Int /\ Off(n + 1) + e >= Off(n)
<1>1. 2 * Slack * n \in Nat /\ 2 * Slack * (n + 1) = 2 * Slack * n + 2 * Slack
  OBVIOUS
<1> QED
  BY <1>1 DEF Off, Errors

LEMMA EntryInvInit == EntryInit => EntryInv
<1> SUFFICES ASSUME EntryInit PROVE EntryInv
  OBVIOUS
<1>1. \A t \in Tokens : Locked(t) = {}
  BY DEF EntryInit, Locked
<1>2. EntryTypes /\ BuiltOK /\ SentOK /\ SeenOK
  BY DEF EntryInit, EntryTypes, Stages, BuiltOK, SentOK, SeenOK
<1>3. SumOK
  <2>1. ASSUME NEW t \in Tokens
        PROVE  IsFiniteSet(Locked(t)) /\ Cardinality(Locked(t)) = 0 /\ required[t] = 0
    BY <1>1, FS_EmptySet DEF EntryInit
  <2>2. Len(built) = 0 /\ Off(0) \in Nat
    BY OffGrows DEF EntryInit
  <2> QED BY <2>1, <2>2 DEF SumOK
<1> QED
  BY <1>2, <1>3 DEF EntryInv

\* The next order of the list, and what building it adds.
LEMMA NextTyped ==
  ASSUME EntryTypes, Len(built) < Len(typed)
  PROVE  Next1 \in Requests /\ Len(built) + 1 \in 1..Len(typed)
BY DEF EntryTypes, Next1

LEMMA BuildAppends ==
  ASSUME EntryTypes, Build
  PROVE  LET n == Len(built) + 1 IN
         /\ built' \in Seq(Structs) /\ Len(built') = n
         /\ \A i \in 1..Len(built) : built'[i] = built[i]
         /\ built'[n] = OrderStruct(typed[n]) /\ typed[n] \in Requests /\ Accepted(path, typed[n])
         /\ n <= Len(typed) /\ n \in Nat
         /\ \A i \in 1..n : i = n \/ i \in 1..Len(built)
<1>1. Next1 \in Requests /\ OrderStruct(Next1) \in Structs /\ Len(built) < Len(typed)
  BY NextTyped, StructFields DEF Build
<1>2. built' = Append(built, OrderStruct(Next1)) /\ Accepted(path, Next1)
  BY DEF Build
<1> HIDE DEF Structs
<1> QED
  BY <1>1, <1>2 DEF Next1, EntryTypes

\* What building the next order does to the sums: the sum of a token that it locks grows by
\* as much and the error, the others stay.
LEMMA RequiredGrows ==
  ASSUME EntryTypes, Build
  PROVE  /\ required' \in [Tokens -> Int]
         /\ \A t \in Tokens :
              /\ ~Counts(Next1, t) => required'[t] = required[t]
              /\ required'[t] + Off(Len(built) + 1)
                   >= required[t] + Locks(Next1)[t] + Off(Len(built))
<1>1. PICK e \in Errors :
        required' = [t \in Tokens |-> IF Counts(Next1, t) THEN required[t] + Locks(Next1)[t] + e
                                      ELSE required[t]]
  BY DEF Build
<1>2. Len(built) \in Nat /\ required \in [Tokens -> Int]
  BY DEF EntryTypes
<1>3. \A t \in Tokens : Locks(Next1)[t] \in Int /\ (~Counts(Next1, t) => Locks(Next1)[t] = 0)
  BY NextTyped, LocksOf DEF Build, EntryTypes
<1>4. /\ Off(Len(built)) \in Nat /\ Off(Len(built) + 1) \in Nat /\ e \in Int
      /\ Off(Len(built) + 1) + e >= Off(Len(built))
  BY <1>2, OffGrows
<1>5. Off(Len(built) + 1) >= Off(Len(built))
  <2>1. 0 \in Errors
    BY DEF Errors
  <2> QED BY <1>2, <1>4, <2>1, OffGrows
<1>6. ASSUME NEW t \in Tokens
      PROVE  /\ required'[t] \in Int
             /\ ~Counts(Next1, t) => required'[t] = required[t]
             /\ required'[t] + Off(Len(built) + 1)
                  >= required[t] + Locks(Next1)[t] + Off(Len(built))
  <2>1. CASE Counts(Next1, t)
    BY <1>1, <1>2, <1>3, <1>4, <2>1
  <2>2. CASE ~Counts(Next1, t)
    BY <1>1, <1>2, <1>3, <1>4, <1>5, <2>2
  <2> QED BY <2>1, <2>2
<1> QED
  BY <1>1, <1>6

LEMMA TypesStep ==
  ASSUME EntryTypes, BuiltOK, [EntryNext]_entryVars
  PROVE  EntryTypes'
<1>1. ASSUME NEW r \in Requests, Type(r) PROVE EntryTypes'
  <2>1. built = <<>> /\ Len(typed) < MaxOrders
    BY <1>1 DEF Type, BuiltOK, EntryTypes
  <2> QED BY <1>1, <2>1 DEF Type, EntryTypes
<1>2. CASE BeginOrders
  BY <1>2 DEF BeginOrders, EntryTypes, Stages
<1>3. CASE Build
  <2>1. required' \in [Tokens -> Int]
    BY <1>3, NextTyped, LocksOf, RequiredGrows DEF Build, EntryTypes
  <2> QED BY <1>3, <2>1, BuildAppends DEF Build, EntryTypes
<1>4. CASE Refuse
  BY <1>4 DEF Refuse, EntryTypes, Stages
<1>5. CASE BuildEnds
  BY <1>5 DEF BuildEnds, EntryTypes, Stages
<1>6. ASSUME NEW t \in Tokens, NEW b \in Balances, CheckBalance(t, b) PROVE EntryTypes'
  BY <1>6 DEF CheckBalance, EntryTypes
<1>7. CASE SendOrders
  BY <1>7 DEF SendOrders, EntryTypes, Stages
<1>8. CASE UNCHANGED entryVars
  BY <1>8 DEF entryVars, EntryTypes
<1> QED
  BY <1>1, <1>2, <1>3, <1>4, <1>5, <1>6, <1>7, <1>8 DEF EntryNext

LEMMA BuiltStep ==
  ASSUME EntryTypes, BuiltOK, [EntryNext]_entryVars
  PROVE  BuiltOK'
<1>1. ASSUME NEW r \in Requests, Type(r) PROVE BuiltOK'
  BY <1>1 DEF Type, BuiltOK
<1>2. CASE Build
  BY <1>2, BuildAppends DEF Build, BuiltOK
<1>3. CASE UNCHANGED <<path, typed, built>> /\ (stage' = "idle" => stage = "idle")
  BY <1>3 DEF BuiltOK
<1> QED
  BY <1>1, <1>2, <1>3 DEF EntryNext, BeginOrders, Refuse, BuildEnds, CheckBalance, SendOrders,
              entryVars

LEMMA SentStep ==
  ASSUME EntryTypes, SentOK, [EntryNext]_entryVars
  PROVE  SentOK'
<1>1. CASE SendOrders
  BY <1>1 DEF SendOrders, SentOK, AllEncodable, EntryTypes
<1>2. CASE stage' # "sent"
  BY <1>2 DEF SentOK
<1>3. CASE UNCHANGED entryVars
  BY <1>3 DEF entryVars, SentOK, AllEncodable
<1> QED
  BY <1>1, <1>2, <1>3
  DEF EntryNext, Type, BeginOrders, Build, Refuse, BuildEnds, CheckBalance

LEMMA CountTo ==
  ASSUME NEW k \in Nat
  PROVE  IsFiniteSet(1..k) /\ Cardinality(1..k) = k
<1>1. IsFiniteSet(1..k) /\ Cardinality(1..k) = IF 1 > k THEN 0 ELSE k - 1 + 1
  BY FS_Interval
<1> QED
  BY <1>1

\* One more order adds the units it locks.
LEMMA OneMoreLocked ==
  ASSUME EntryTypes, Build, BuiltOK, NEW t \in Tokens, IsFiniteSet(Locked(t)),
         Encodable(OrderStruct(Next1))
  PROVE  /\ IsFiniteSet(Locked(t)')
         /\ Cardinality(Locked(t)') = Cardinality(Locked(t)) + Locks(Next1)[t]
<1> DEFINE n == Len(built) + 1
           amount == Lock(OrderStruct(Next1), t)
           own == {n} \X (1..amount)
<1>1. Next1 \in Requests /\ Accepted(path, Next1) /\ path \in Paths
  BY NextTyped DEF Build, EntryTypes
<1>2. amount = Locks(Next1)[t] /\ amount \in Nat
  BY <1>1, LockIsExact
<1>3. DOMAIN built = 1..Len(built) /\ Len(built) \in Nat
  BY DEF EntryTypes
<1>4. /\ DOMAIN built' = DOMAIN built \cup {n} /\ n \notin DOMAIN built
      /\ \A i \in DOMAIN built : built'[i] = built[i]
      /\ built'[n] = OrderStruct(Next1)
  BY <1>3, BuildAppends DEF Next1
<1> HIDE DEF amount, n
<1>5. Locked(t)' = Locked(t) \cup own
  <2>1. Locked(t)' = UNION {{i} \X (1..Lock(built'[i], t)) : i \in DOMAIN built'}
    BY DEF Locked, Lock
  <2>2. \A i \in DOMAIN built : Lock(built'[i], t) = Lock(built[i], t)
    BY <1>4
  <2>3. Lock(built'[n], t) = amount
    BY <1>4 DEF amount
  <2> QED BY <1>4, <2>1, <2>2, <2>3 DEF Locked
<1>6. Locked(t) \cap own = {}
  BY <1>4 DEF Locked
<1>7. IsFiniteSet(1..amount) /\ Cardinality(1..amount) = amount
  BY <1>2, CountTo
<1>8. IsFiniteSet({n}) /\ Cardinality({n}) = 1
  BY FS_Singleton
<1>9. IsFiniteSet(own) /\ Cardinality(own) = amount
  <2>1. IsFiniteSet(own) /\ Cardinality(own) = Cardinality({n}) * Cardinality(1..amount)
    BY <1>7, <1>8, FS_Product
  <2> QED BY <1>2, <1>7, <1>8, <2>1
<1>10. Cardinality(Locked(t) \cap own) = 0
  BY <1>6, FS_EmptySet
<1> HIDE DEF own
<1>11. IsFiniteSet(Locked(t) \cup own)
       /\ Cardinality(Locked(t) \cup own) = Cardinality(Locked(t)) + Cardinality(own) - 0
  BY <1>9, <1>10, FS_Union
<1>12. Cardinality(Locked(t)) \in Nat
  BY FS_CardinalityType
<1> QED
  BY <1>2, <1>5, <1>9, <1>11, <1>12

LEMMA SumStep ==
  ASSUME EntryTypes, BuiltOK, SumOK, [EntryNext]_entryVars
  PROVE  SumOK'
<1>1. CASE Build
  <2> SUFFICES ASSUME path \in Checking, AllEncodable', NEW t \in Tokens
               PROVE  /\ IsFiniteSet(Locked(t)')
                      /\ Cardinality(Locked(t)') <= required'[t] + Off(Len(built'))
    BY <1>1 DEF Build, SumOK, Off
  <2>1. AllEncodable /\ Encodable(OrderStruct(Next1))
    <3> DEFINE n == Len(built) + 1
    <3>1. /\ Len(built') = n /\ \A i \in 1..Len(built) : built'[i] = built[i]
          /\ built'[n] = OrderStruct(Next1) /\ n \in Nat /\ Len(built) \in Nat
      BY <1>1, BuildAppends DEF Next1, EntryTypes
    <3>2. \A i \in 1..n : Encodable(built'[i])
      BY <3>1 DEF AllEncodable
    <3>3. n \in 1..n /\ \A i \in 1..Len(built) : i \in 1..n
      BY <3>1
    <3> HIDE DEF n
    <3> QED BY <3>1, <3>2, <3>3 DEF AllEncodable
  <2>2. IsFiniteSet(Locked(t)) /\ Cardinality(Locked(t)) <= required[t] + Off(Len(built))
    BY <1>1, <2>1 DEF SumOK, Build
  <2>3. /\ Len(built') = Len(built) + 1 /\ Len(built) \in Nat
        /\ required'[t] \in Int /\ required[t] \in Int /\ Locks(Next1)[t] \in Int
        /\ required'[t] + Off(Len(built) + 1)
             >= required[t] + Locks(Next1)[t] + Off(Len(built))
    BY <1>1, BuildAppends, RequiredGrows, NextTyped, LocksOf DEF Build, EntryTypes
  <2>4. /\ Off(Len(built)) \in Nat /\ Off(Len(built) + 1) \in Nat
        /\ Cardinality(Locked(t)) \in Nat
    BY <2>2, <2>3, OffGrows, FS_CardinalityType
  <2>5. /\ IsFiniteSet(Locked(t)')
        /\ Cardinality(Locked(t)') = Cardinality(Locked(t)) + Locks(Next1)[t]
    BY <1>1, <2>1, <2>2, OneMoreLocked
  <2> QED BY <2>2, <2>3, <2>4, <2>5
<1>2. CASE UNCHANGED <<path, built, required>>
  <2>1. \A t \in Tokens : Locked(t)' = Locked(t)
    BY <1>2 DEF Locked
  <2>2. AllEncodable' = AllEncodable
    BY <1>2 DEF AllEncodable
  <2> QED BY <1>2, <2>1, <2>2 DEF SumOK, Off
<1> QED
  BY <1>1, <1>2 DEF EntryNext, Type, BeginOrders, Refuse, BuildEnds, CheckBalance, SendOrders,
              entryVars

LEMMA SeenStep ==
  ASSUME EntryTypes, SeenOK, [EntryNext]_entryVars
  PROVE  SeenOK'
<1>1. CASE Build
  <2> SUFFICES ASSUME path \in Checking, NEW t \in Tokens \ unchecked'
               PROVE  required'[t] <= seen'[t] + Slack
    BY <1>1 DEF Build, SeenOK
  <2>1. path \in Checking /\ seen' = seen /\ t \notin unchecked /\ ~Counts(Next1, t)
    BY <1>1 DEF Build
  <2>2. required'[t] = required[t]
    BY <1>1, <2>1, RequiredGrows
  <2> QED BY <2>1, <2>2 DEF SeenOK
<1>2. ASSUME NEW u \in Tokens, NEW b \in Balances, CheckBalance(u, b) PROVE SeenOK'
  BY <1>2 DEF CheckBalance, Enough, SeenOK, EntryTypes
<1>3. CASE UNCHANGED <<path, required, unchecked, seen>>
  BY <1>3 DEF SeenOK
<1> QED
  BY <1>1, <1>2, <1>3 DEF EntryNext, Type, BeginOrders, Refuse, BuildEnds, SendOrders, entryVars

LEMMA InvariantHolds == EntrySpec => []EntryInv
<1>1. EntryInv /\ [EntryNext]_entryVars => EntryInv'
  BY TypesStep, BuiltStep, SentStep, SumStep, SeenStep DEF EntryInv
<1> QED
  BY <1>1, EntryInvInit, PTL DEF EntrySpec

-----------------------------------------------------------------------------
(* The theorems *)

\* The state of a call stays within its types: what is signed has numbers only, and is no
\* longer than the list that was typed.
THEOREM OrderTypesCorrect == EntrySpec => []OrderTypeOK
<1>1. EntryInv => OrderTypeOK
  BY DEF EntryInv, EntryTypes, Structs, OrderTypeOK
<1> QED
  BY <1>1, InvariantHolds, PTL

\* For any decimals, tolerance and bounds: what is signed is what was typed up to the
\* tolerance, on the display grid, on every path (clob.py:1511, README.md:1418).
THEOREM SentAsTypedCorrect == EntrySpec => []SentAsTyped
<1>1. EntryInv => SentAsTyped
  <2> SUFFICES ASSUME EntryInv, NEW i \in 1..MaxOrders, Sent(i)
               PROVE  LET r == typed[i]
                          s == built[i]
                          price == s.price * PriceWei[r.pair]
                          amount == s.quantity * AmountWei[r.pair] IN
                      /\ s.pair = r.pair /\ s.side = r.side /\ s.type = r.type
                      /\ Distance(price, IF r.price = NoPrice THEN 0 ELSE r.price) <= Tolerance
                      /\ Distance(amount, r.amount) <= Tolerance
                      /\ price % PriceQuantum[r.pair] = 0 /\ amount % AmountQuantum[r.pair] = 0
    BY DEF SentAsTyped
  <2> DEFINE r == typed[i]
  <2>1. r \in Requests /\ built[i] = OrderStruct(r) /\ Accepted(path, r) /\ path \in Paths
    BY DEF EntryInv, EntryTypes, BuiltOK, Sent
  <2>2. Normal(r)
    BY <2>1, AcceptedMeans DEF Paths
  <2> HIDE DEF r
  <2>3. \A v, w \in Int : Distance(v, w) = Distance(w, v)
    BY DEF Distance
  <2>4. Distance(Amount(r), r.amount) <= Tolerance /\ Amount(r) % AmountQuantum[r.pair] = 0
    BY <2>1, <2>2, <2>3, AmountExact, RequestFields DEF Normal, Displayable, Amount
  <2>5. Distance(IF r.price = NoPrice THEN 0 ELSE Price(r), IF r.price = NoPrice THEN 0 ELSE r.price)
          <= Tolerance
    <3>1. CASE HasPrice(r.price)
      BY <2>1, <2>2, <2>3, <3>1, PriceExact, RequestFields DEF Normal, Displayable, Price, HasPrice
    <3>2. CASE ~HasPrice(r.price)
      BY <2>1, <3>2, RequestFields DEF Price, HasPrice, Distance
    <3> QED BY <3>1, <3>2
  <2>6. (IF r.price = NoPrice THEN 0 ELSE Price(r)) % PriceQuantum[r.pair] = 0
    BY <2>1, PriceExact, RequestFields
  <2> QED BY <2>1, <2>4, <2>5, <2>6, StructFields DEF r
<1> QED
  BY <1>1, InvariantHolds, PTL

\* For any lists, balances and precision of the floats: each token's balance, when it was
\* read, was enough for all the orders signed that lock the token together, but for one
\* rounding of the balance and two of every order of a list (clob.py:1828).
THEOREM BalanceCoversListCorrect == EntrySpec => []BalanceCoversList
<1>1. ASSUME EntryInv, stage = "sent", path \in Checking, NEW t \in Tokens
      PROVE  Cardinality(Locked(t)) <= seen[t] + Slop(Len(built))
  <2>1. /\ IsFiniteSet(Locked(t)) /\ Cardinality(Locked(t)) <= required[t] + Off(Len(built))
        /\ required[t] <= seen[t] + Slack
    BY <1>1 DEF EntryInv, SentOK, SumOK, SeenOK
  <2>2. required[t] \in Int /\ seen[t] \in Nat /\ Len(built) \in Nat
    BY <1>1 DEF EntryInv, EntryTypes
  <2>3. Cardinality(Locked(t)) \in Nat /\ Off(Len(built)) \in Nat
    BY <2>1, <2>2, FS_CardinalityType, OffGrows
  <2>4. Slop(Len(built)) = Slack + Off(Len(built))
    BY DEF Slop, Off
  <2> QED BY <2>1, <2>2, <2>3, <2>4
<1>2. EntryInv => BalanceCoversList
  BY <1>1 DEF BalanceCoversList
<1> QED
  BY <1>2, InvariantHolds, PTL

\* For any decimals and bounds: an order that one path signs, with a positive amount and a
\* price that does not round to 0, is accepted by every path, which signs the same numbers
\* (clob.py:1511).
THEOREM PathsAgreeCorrect == EntrySpec => []PathsAgree
<1>1. EntryInv => PathsAgree
  <2> SUFFICES ASSUME EntryInv, NEW i \in 1..MaxOrders, Sent(i),
                      typed[i].amount > 0, typed[i].price # NoPrice, Price(typed[i]) > 0,
                      NEW p \in Paths
               PROVE  Accepted(p, typed[i]) /\ OrderStruct(typed[i]) = built[i]
    BY DEF PathsAgree
  <2> DEFINE r == typed[i]
  <2>1. r \in Requests /\ built[i] = OrderStruct(r) /\ Accepted(path, r) /\ path \in Paths
    BY DEF EntryInv, EntryTypes, BuiltOK, Sent
  <2>2. Normal(r)
    BY <2>1, AcceptedMeans DEF Paths
  <2> HIDE DEF r
  <2>3. r.amount > 0 /\ r.price # NoPrice /\ Price(r) > 0 /\ Price(r) \in Int /\ r.price \in Int
    BY <2>1, PriceExact, RequestFields DEF r
  <2>4. HasPrice(r.price) /\ HasPrice(Price(r))
    BY <2>3 DEF HasPrice, Price
  <2>5. r.price > 0
    BY <2>1, <2>3, <2>4, NearestKeepsSign, RequestFields DEF Price, HasPrice
  <2>6. ParamsOK(r)
    BY <2>1, <2>3, <2>5, RequestFields DEF ParamsOK, Positive
  <2> QED BY <2>1, <2>2, <2>3, <2>4, <2>6, AcceptedMeans DEF ComboOK, Paths, r
<1> QED
  BY <1>1, InvariantHolds, PTL
=============================================================================
