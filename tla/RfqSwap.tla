----------------------------- MODULE RfqSwap -----------------------------
(***************************************************************************)
(* core/swap.py: which contract execute_rfq_swap and approve_rfq_maker     *)
(* trust a firm quote with.                                                *)
(*                                                                         *)
(* A quote names its maker and perhaps where to send the transaction.  The *)
(* SDK asks the chain for the router (trustedForwarder of the deployment   *)
(* the API lists) and for the makers the router allows, and caches both    *)
(* under the deployment's address; the lists on the chains change, the     *)
(* reads fail, and the account may be replaced while a call awaits.  The   *)
(* allowance and the transaction themselves are those of Allowances and    *)
(* TxPipeline.                                                             *)
(***************************************************************************)
EXTENDS Naturals, Sequences, FiniteSets

CONSTANTS
  Calls,
  Chains, DefaultChain,  \* chain ids, and self.chain_id
  Makers,                \* contracts a router may allow
  Router,                \* the router, when a chain has one
  Deployments,           \* addresses of deployments of MainnetRFQ
  Published,             \* Published[c]: the API lists the router of c
  Accounts,
  Quotes,                \* firm quotes the API may give
  Amount,                \* base units every quote sells
  None,
  MaxChanges             \* bound on the changes around a call

QuoteType == [chain : Chains \cup {None}, maker : Makers \cup Deployments,
              to : Makers \cup Deployments \cup {Router, None}, native : BOOLEAN,
              value : {None, 0, Amount}, data : {None, "same", "other"}]

ASSUME QuoteAssumption == Quotes \subseteq QuoteType
ASSUME AmountAssumption == Amount \in Nat \ {0} /\ MaxChanges \in Nat
\* truth is told of calls and of deployments, and a router is told from the absence of one.
ASSUME NameAssumption == Calls \cap Deployments = {} /\ Router # None
ASSUME ChainAssumption == DefaultChain \in Chains /\ Published \in [Chains -> BOOLEAN]

VARIABLES
  deployed,  \* deployments["MainnetRFQ"]: an address per chain, or None
  hasRouter, \* the API or trustedForwarder() of a chain's deployment names the router
  allowed,   \* getAllowedRFQs() of the chain's router
  changes,
  cache,     \* the targets cached per deployment address, or None
  account,
  op, phase, quote,
  payer,     \* the account whose allowance is read
  router, makers, \* the targets the call goes by
  truth,     \* history: the router and lists a lookup may have seen
  sent       \* the transaction broadcast, or None

chainVars == <<deployed, hasRouter, allowed, changes>>
callVars == <<op, phase, quote, payer, router, makers, sent>>
vars == <<chainVars, cache, account, callVars, truth>>

Phases == {"idle", "targets", "forwarder", "makers", "checking", "allowance",
           "building", "signing", "done", "refused"}

-----------------------------------------------------------------------------
(* The chains *)

\* What a lookup on a chain would find now.
Now(c) == [router |-> IF hasRouter[c] THEN Router ELSE None,
           makers |-> allowed[c]]

Entries == {e \in Deployments : cache[e] # None}

\* The owners change a chain's forwarder or allow-list.
ChainChanges(c) ==
  /\ changes < MaxChanges /\ changes' = changes + 1
  /\ \/ ~Published[c] /\ hasRouter' = [hasRouter EXCEPT ![c] = ~@] /\ UNCHANGED allowed
     \/ \E m \in Makers : allowed' = [allowed EXCEPT ![c] =
          IF m \in allowed[c] THEN allowed[c] \ {m} ELSE allowed[c] \cup {m}]
        /\ UNCHANGED hasRouter
  /\ truth' = [x \in DOMAIN truth |->
       IF truth[x].chain = c THEN [truth[x] EXCEPT !.seen = @ \cup {Now(c)'}] ELSE truth[x]]
  /\ UNCHANGED <<deployed, cache, account, callVars>>

SetSigner ==
  /\ changes < MaxChanges /\ changes' = changes + 1
  /\ account' \in Accounts \ {account}
  /\ UNCHANGED <<deployed, hasRouter, allowed, cache, callVars, truth>>

\* The static tier's hour is over, or invalidate_cache.
Expire(e) ==
  /\ cache[e] # None
  /\ cache' = [cache EXCEPT ![e] = None]
  /\ truth' = [truth EXCEPT ![e] = [chain |-> None, seen |-> {}]]
  /\ UNCHANGED <<chainVars, account, callVars>>

-----------------------------------------------------------------------------
(* A quote, and what is done with it *)

NoTruth == [chain |-> None, seen |-> {}]

Init ==
  /\ deployed \in [Chains -> Deployments \cup {None}]
  /\ hasRouter \in {h \in [Chains -> BOOLEAN] : \A c \in Chains : Published[c] => h[c]}
  /\ allowed = [c \in Chains |-> {}]
  /\ changes = 0
  /\ cache = [e \in Deployments |-> None]
  /\ account \in Accounts
  /\ op = [k \in Calls |-> "none"] /\ phase = [k \in Calls |-> "idle"]
  /\ quote = [k \in Calls |-> None]
  /\ payer = [k \in Calls |-> None]
  /\ router = [k \in Calls |-> None] /\ makers = [k \in Calls |-> {}]
  /\ truth = [x \in Calls \cup Deployments |-> NoTruth]
  /\ sent = [k \in Calls |-> None]

Enter(k, ph) == phase' = [phase EXCEPT ![k] = ph]
Refuse(k) == Enter(k, "refused")
RestOfCall == <<op, quote, payer, router, makers, sent>>

ChainOf(q) == IF q.chain = None THEN DefaultChain ELSE q.chain
QuoteChain(k) == ChainOf(quote[k])
Anchor(k) == deployed[QuoteChain(k)]

\* approve_rfq_maker or execute_rfq_swap begins with a quote; an approval of the native
\* token is none. Without a deployment on the quote's chain there is nothing to check the
\* quote against.
Start(k, q, what) ==
  /\ phase[k] = "idle"
  /\ quote' = [quote EXCEPT ![k] = q]
  /\ op' = [op EXCEPT ![k] = what]
  /\ payer' = [payer EXCEPT ![k] = account]
  /\ IF deployed[ChainOf(q)] = None \/ (what = "approve" /\ q.native)
     THEN Refuse(k) ELSE Enter(k, "targets")
  /\ UNCHANGED <<chainVars, cache, account, router, makers, sent, truth>>

GoesBy(k, r, ms) == router' = [router EXCEPT ![k] = r] /\ makers' = [makers EXCEPT ![k] = ms]

\* _get_rfq_targets, the cached answer: whose key is the address alone.
UseCached(k) ==
  /\ phase[k] = "targets" /\ cache[Anchor(k)] # None
  /\ GoesBy(k, cache[Anchor(k)].router, cache[Anchor(k)].makers)
  /\ truth' = [truth EXCEPT ![k] = truth[Anchor(k)]]
  /\ Enter(k, "checking")
  /\ UNCHANGED <<chainVars, cache, account, op, quote, payer, sent>>

\* ... or the lookup, which a router among the deployments shortens by one read.
StartLookup(k) ==
  /\ phase[k] = "targets" /\ cache[Anchor(k)] = None
  /\ truth' = [truth EXCEPT ![k] = [chain |-> QuoteChain(k), seen |-> {Now(QuoteChain(k))}]]
  /\ IF Published[QuoteChain(k)]
     THEN GoesBy(k, Router, {}) /\ Enter(k, "makers")
     ELSE GoesBy(k, None, {}) /\ Enter(k, "forwarder")
  /\ UNCHANGED <<chainVars, cache, account, op, quote, payer, sent>>

\* The answer is stored, and the call goes by it.
Store(k, r, ms) ==
  /\ GoesBy(k, r, ms)
  /\ cache' = [cache EXCEPT ![Anchor(k)] = [router |-> r, makers |-> ms]]
  /\ truth' = [truth EXCEPT ![Anchor(k)] = truth[k]]
  /\ Enter(k, "checking")

ForwarderArrives(k) ==
  /\ phase[k] = "forwarder"
  /\ \/ /\ hasRouter[QuoteChain(k)]
        /\ GoesBy(k, Router, {}) /\ Enter(k, "makers") /\ UNCHANGED <<cache, truth>>
     \/ /\ ~hasRouter[QuoteChain(k)]
        /\ Store(k, None, {Anchor(k)})
  /\ UNCHANGED <<chainVars, account, op, quote, payer, sent>>

\* The deployment is trusted whatever the router allows.
MakersArrive(k) ==
  /\ phase[k] = "makers"
  /\ Store(k, Router, allowed[QuoteChain(k)] \cup {Anchor(k)})
  /\ UNCHANGED <<chainVars, account, op, quote, payer, sent>>

\* Mutant: the makers known after a failed read are cached like any.
LookupFailsCached(k) ==
  /\ phase[k] \in {"forwarder", "makers"}
  /\ Store(k, None, {Anchor(k)})
  /\ UNCHANGED <<chainVars, account, op, quote, payer, sent>>

\* A read fails: only the deployment is left to trust, and only for this call.
LookupFails(k) ==
  /\ phase[k] \in {"forwarder", "makers"}
  /\ GoesBy(k, None, {Anchor(k)})
  /\ Enter(k, "checking")
  /\ UNCHANGED <<chainVars, cache, account, op, quote, payer, sent, truth>>

-----------------------------------------------------------------------------
(* The checks and the transaction *)

\* Mutant: a maker the transaction is sent to needs no leave of the router's.
TargetOKByEnvelope(q, r, ms) ==
  /\ q.maker \in ms \cup {q.to}
  /\ q.to # None => q.to \in {q.maker} \cup ({r} \ {None})

\* _resolve_rfq_execution_target.
TargetOK(q, r, ms) ==
  /\ q.maker \in ms
  /\ q.to # None => q.to \in {q.maker} \cup ({r} \ {None})

Target(q) == IF q.to = None THEN q.maker ELSE q.to
MsgValue(q) == IF q.native THEN Amount ELSE 0

\* Mutant: only the data of the envelope is compared.
EnvelopeDataOK(q) == q.data \in {None, "same"}

\* _check_tx_envelope.
EnvelopeOK(q) == q.data \in {None, "same"} /\ q.value \in {None, MsgValue(q)}

Check(k) ==
  /\ phase[k] = "checking"
  /\ LET q == quote[k] IN
     CASE ~TargetOK(q, router[k], makers[k]) -> Refuse(k)
       [] TargetOK(q, router[k], makers[k]) /\ op[k] = "swap" /\ ~EnvelopeOK(q) -> Refuse(k)
       [] op[k] = "swap" /\ q.native /\ TargetOK(q, router[k], makers[k]) /\ EnvelopeOK(q) ->
            Enter(k, "building")
       [] OTHER -> Enter(k, "allowance")
  /\ UNCHANGED <<chainVars, cache, account, RestOfCall, truth>>

\* The allowance of the maker: an approval that is not needed ends here, a swap that lacks
\* one too.
AllowanceArrives(k) ==
  /\ phase[k] = "allowance"
  /\ \E enough \in BOOLEAN :
       CASE op[k] = "approve" -> Enter(k, IF enough THEN "done" ELSE "building")
         [] OTHER -> Enter(k, IF enough THEN "building" ELSE "refused")
  /\ UNCHANGED <<chainVars, cache, account, RestOfCall, truth>>

\* _send_swap_tx takes the account, and its nonce, anew ...
Build(k) ==
  /\ phase[k] = "building"
  /\ payer' = [payer EXCEPT ![k] = account]
  /\ Enter(k, "signing")
  /\ UNCHANGED <<chainVars, cache, account, op, quote, router, makers, sent, truth>>

Transaction(k) ==
  IF op[k] = "approve" THEN [call |-> "approve", to |-> "token", spender |-> quote[k].maker,
                             value |-> 0, from |-> payer[k]]
  ELSE [call |-> "simpleSwap", to |-> Target(quote[k]), spender |-> quote[k].maker,
        value |-> MsgValue(quote[k]), from |-> payer[k]]

\* ... and signs, with whatever account there is by then, which refuses a transaction
\* that is from another one; any step on the way may fail.
Sign(k) ==
  /\ phase[k] = "signing"
  /\ \/ /\ account = payer[k]
        /\ sent' = [sent EXCEPT ![k] = Transaction(k)]
        /\ Enter(k, "done")
     \/ Refuse(k) /\ UNCHANGED sent
  /\ UNCHANGED <<chainVars, cache, account, op, quote, payer, router, makers, truth>>

CallStep(k) ==
  \/ \E q \in Quotes, what \in {"approve", "swap"} : Start(k, q, what)
  \/ UseCached(k) \/ StartLookup(k) \/ ForwarderArrives(k) \/ MakersArrive(k) \/ LookupFails(k)
  \/ Check(k) \/ AllowanceArrives(k) \/ Build(k) \/ Sign(k)

Next ==
  \/ \E k \in Calls : CallStep(k)
  \/ \E c \in Chains : ChainChanges(c)
  \/ \E e \in Deployments : Expire(e)
  \/ SetSigner

Spec == Init /\ [][Next]_vars

-----------------------------------------------------------------------------
(* Properties *)

\* Every call is in a known phase, what is cached for a deployment always allows the
\* deployment itself, and what is being signed has an account.
RfqTypeOK ==
  /\ \A e \in Entries : cache[e].router \in {Router, None} /\ e \in cache[e].makers
                        /\ cache[e].makers \subseteq Makers \cup Deployments
  /\ \A k \in Calls :
       /\ phase[k] \in Phases
       /\ phase[k] = "signing" => payer[k] \in Accounts

\* No other chain's deployment has the address: the cache's key tells the chains apart.
Alone(c) == \A d \in Chains \ {c} : deployed[d] # deployed[c]

\* A transaction trusts the deployment of the quote's chain, or a maker that the router of
\* that chain allowed at some time since the list it was checked against was looked up,
\* through the cache, changes of the list and failed reads.
OnlyAllowedMakers ==
  \A k \in Calls : sent[k] # None /\ Alone(QuoteChain(k)) =>
    \/ sent[k].spender = Anchor(k)
    \/ /\ truth[k].chain = QuoteChain(k)
       /\ \E t \in truth[k].seen : sent[k].spender \in t.makers

\* A swap goes to its maker, or to the router the chain named in that time; its value is
\* what the maker will take of the native token, and the quote does not say otherwise.
SentAsChecked ==
  \A k \in Calls : sent[k] # None /\ sent[k].call = "simpleSwap" =>
    /\ \/ sent[k].to = sent[k].spender
       \/ sent[k].to = Router /\ \E t \in truth[k].seen : t.router = Router
    /\ sent[k].value = (IF quote[k].native THEN Amount ELSE 0)
    /\ quote[k].value # None => quote[k].value = sent[k].value

\* What is cached for a deployment was true of its chain at some time since the lookup: the
\* degraded answer of a failed read is never served to a later call.
EntryWasTrue ==
  \A e \in Entries :
    /\ \E t \in truth[e].seen : t.router = cache[e].router
    /\ cache[e].router # None =>
         \E t \in truth[e].seen : cache[e].makers = t.makers \cup {e}

-----------------------------------------------------------------------------
(* What does not hold *)

\* OnlyAllowedMakers whether or not two chains have deployments of one address.
MakersOfOwnChain ==
  \A k \in Calls : sent[k] # None =>
    \/ sent[k].spender = Anchor(k)
    \/ truth[k].chain = QuoteChain(k) /\ \E t \in truth[k].seen : sent[k].spender \in t.makers
=============================================================================
