-------------------------- MODULE RfqSwapProofs --------------------------
(***************************************************************************)
(* A firm quote is trusted with no more than the chain said, for any       *)
(* calls, chains, quotes and number of changes around them.                *)
(*                                                                         *)
(* The argument: while a lookup is under way, what it would find now is    *)
(* among what it may have seen, so that what it stores, and what a call    *)
(* then goes by, is something the chain held.  A cached answer carries     *)
(* that over to the calls it serves; a failed read leaves nothing to       *)
(* justify but the deployment.                                             *)
(***************************************************************************)
EXTENDS RfqSwap, TLAPS

-----------------------------------------------------------------------------
(* The invariant *)

Looking == {"forwarder", "makers"}
Checked == {"allowance", "building", "signing", "done"}
Trusting == Checked \cup {"checking"}

Views == [router : {Router, None}, makers : SUBSET Makers]

Types ==
  /\ deployed \in [Chains -> Deployments \cup {None}]
  /\ hasRouter \in [Chains -> BOOLEAN]
  /\ allowed \in [Chains -> SUBSET Makers]
  /\ DOMAIN cache = Deployments /\ cache = [e \in Deployments |-> cache[e]]
  /\ account \in Accounts
  /\ phase \in [Calls -> Phases]
  /\ op \in [Calls -> {"none", "approve", "swap"}]
  /\ quote \in [Calls -> Quotes \cup {None}]
  /\ payer \in [Calls -> Accounts \cup {None}]
  /\ router \in [Calls -> {Router, None}]
  /\ makers \in [Calls -> SUBSET (Makers \cup Deployments)]
  /\ truth \in [Calls \cup Deployments -> [chain : Chains \cup {None}, seen : SUBSET Views]]
  /\ DOMAIN sent = Calls /\ sent = [k \in Calls |-> sent[k]]
  /\ \A c \in Chains : Published[c] => hasRouter[c]

\* What a lookup found at the deployment e, now told by truth[x], was there to be found.
Justified(x, r, ms, e) ==
  /\ \A m \in ms : m = e \/ /\ truth[x].chain \in Chains /\ deployed[truth[x].chain] = e
                            /\ \E t \in truth[x].seen : m \in t.makers
  /\ r # None => \E t \in truth[x].seen : t.router = r

EntryOK(e) ==
  cache[e] # None =>
    /\ Justified(e, cache[e].router, cache[e].makers, e)
    /\ cache[e].router \in {Router, None}
    /\ e \in cache[e].makers /\ cache[e].makers \subseteq Makers \cup Deployments
    /\ \E t \in truth[e].seen : t.router = cache[e].router
    /\ cache[e].router # None => \E t \in truth[e].seen : cache[e].makers = t.makers \cup {e}

CallOK(k) ==
  /\ phase[k] \notin {"idle", "refused"} => quote[k] \in Quotes /\ Anchor(k) \in Deployments
  /\ phase[k] # "idle" => op[k] # "none"
  /\ phase[k] \in Looking =>
       truth[k].chain = QuoteChain(k) /\ Now(QuoteChain(k)) \in truth[k].seen
  /\ phase[k] = "makers" => \E t \in truth[k].seen : t.router = Router
  /\ phase[k] \in Trusting => Justified(k, router[k], makers[k], Anchor(k))
  /\ phase[k] \in Checked => /\ TargetOK(quote[k], router[k], makers[k])
                             /\ op[k] = "swap" => EnvelopeOK(quote[k])
  /\ phase[k] = "signing" => payer[k] \in Accounts
  /\ sent[k] # None => phase[k] = "done" /\ sent[k] = Transaction(k)

RfqInv ==
  /\ Types
  /\ \A e \in Deployments : EntryOK(e)
  /\ \A k \in Calls : CallOK(k)

-----------------------------------------------------------------------------
(* Lemmas *)

\* A quote is of a chain.
LEMMA QuoteHasChain ==
  ASSUME NEW q \in Quotes
  PROVE ChainOf(q) \in Chains
BY QuoteAssumption, ChainAssumption DEF ChainOf, QuoteType

\* What there is to be found is a view.
LEMMA NowIsView ==
  ASSUME Types, NEW c \in Chains
  PROVE Now(c) \in Views
BY DEF Types, Now, Views

\* x is a call or deployment whose truth a step leaves, or lets grow.
Keeps(x) == truth'[x].chain = truth[x].chain /\ truth[x].seen \subseteq truth'[x].seen

\* What is justified stays so.
LEMMA StillJustified ==
  ASSUME NEW x, NEW r, NEW ms, NEW e, Justified(x, r, ms, e), Keeps(x), deployed' = deployed
  PROVE Justified(x, r, ms, e)'
BY DEF Justified, Keeps

\* A step that leaves a call alone preserves what is known of it, as long as a lookup
\* under way sees what there is.
LEMMA CallUndisturbed ==
  ASSUME NEW k \in Calls, CallOK(k), Keeps(k), deployed' = deployed,
         phase'[k] = phase[k], quote'[k] = quote[k], op'[k] = op[k], payer'[k] = payer[k],
         router'[k] = router[k], makers'[k] = makers[k], sent'[k] = sent[k],
         phase[k] \in Looking => Now(QuoteChain(k))' \in truth'[k].seen
  PROVE CallOK(k)'
<1>1. QuoteChain(k)' = QuoteChain(k) /\ Anchor(k)' = Anchor(k)
  BY DEF QuoteChain, Anchor
<1>2. Transaction(k)' = Transaction(k)
  BY DEF Transaction
<1>3. phase[k] \in Trusting => Justified(k, router[k], makers[k], Anchor(k))'
  BY StillJustified, <1>1 DEF CallOK, Justified, Keeps
<1>4. phase'[k] \in Trusting => Justified(k, router[k], makers[k], Anchor(k))'
  BY <1>3
<1> QED
  BY <1>1, <1>2, <1>4 DEF CallOK, Keeps, Justified

\* The same of an entry of the cache.
LEMMA EntryUndisturbed ==
  ASSUME NEW e \in Deployments, EntryOK(e), Keeps(e), deployed' = deployed, cache'[e] = cache[e]
  PROVE EntryOK(e)'
BY DEF EntryOK, Keeps, Justified

-----------------------------------------------------------------------------
(* The invariant, step by step *)

\* What a step of the call k, which is not itself a lookup's step of another call, leaves
\* of everything else.
LEMMA OthersUndisturbed ==
  ASSUME RfqInv, NEW k \in Calls,
         UNCHANGED <<deployed, hasRouter, allowed>>,
         \A j \in Calls \ {k} :
           /\ phase'[j] = phase[j] /\ quote'[j] = quote[j] /\ op'[j] = op[j]
           /\ payer'[j] = payer[j] /\ router'[j] = router[j] /\ makers'[j] = makers[j]
           /\ sent'[j] = sent[j] /\ truth'[j] = truth[j]
  PROVE \A j \in Calls \ {k} : CallOK(j)'
<1> TAKE j \in Calls \ {k}
<1>1. QuoteChain(j)' = QuoteChain(j)
  BY DEF QuoteChain
<1>2. Now(QuoteChain(j))' = Now(QuoteChain(j))
  BY <1>1 DEF Now
<1>3. CallOK(j) /\ Keeps(j)
  BY DEF RfqInv, Keeps
<1>4. phase[j] \in Looking => Now(QuoteChain(j))' \in truth'[j].seen
  BY <1>2, <1>3 DEF CallOK, Keeps
<1> QED
  BY <1>3, <1>4, CallUndisturbed

\* A step that changes neither cache nor truth of the deployments leaves the entries.
LEMMA EntriesUndisturbed ==
  ASSUME RfqInv, deployed' = deployed, cache' = cache,
         \A e \in Deployments : truth'[e] = truth[e]
  PROVE \A e \in Deployments : EntryOK(e)'
BY EntryUndisturbed DEF RfqInv, Keeps

LEMMA InitInv == Init => RfqInv
<1> SUFFICES ASSUME Init PROVE RfqInv
  OBVIOUS
<1>1. Types
  BY ChainAssumption DEF Init, Types, Phases, NoTruth, Views
<1>2. \A e \in Deployments : EntryOK(e)
  BY DEF Init, EntryOK
<1>3. \A k \in Calls : CallOK(k)
  BY DEF Init, CallOK, Looking, Trusting, Checked
<1> QED
  BY <1>1, <1>2, <1>3 DEF RfqInv

LEMMA ChainChangesInv ==
  ASSUME RfqInv, NEW c \in Chains, ChainChanges(c)
  PROVE RfqInv'
<1>1. Types'
  <2>1. hasRouter' \in [Chains -> BOOLEAN] /\ \A d \in Chains : Published[d] => hasRouter'[d]
    BY DEF RfqInv, Types, ChainChanges
  <2>2. allowed' \in [Chains -> SUBSET Makers]
    BY DEF RfqInv, Types, ChainChanges
  <2>3. Now(c)' \in Views
    BY <2>1, <2>2 DEF Now, Views
  <2>4. truth' \in [Calls \cup Deployments -> [chain : Chains \cup {None}, seen : SUBSET Views]]
    BY <2>3 DEF RfqInv, Types, ChainChanges
  <2> QED
    BY <2>1, <2>2, <2>4 DEF RfqInv, Types, ChainChanges, callVars
<1>2. \A x \in Calls \cup Deployments :
        Keeps(x) /\ (truth[x].chain = c => Now(c)' \in truth'[x].seen)
  BY DEF RfqInv, Types, ChainChanges, Keeps
<1>3. \A e \in Deployments : EntryOK(e)'
  BY <1>2, EntryUndisturbed DEF RfqInv, ChainChanges
<1>4. ASSUME NEW k \in Calls PROVE CallOK(k)'
  <2>1. QuoteChain(k)' = QuoteChain(k)
    BY DEF ChainChanges, callVars, QuoteChain
  <2>2. ASSUME phase[k] \in Looking PROVE Now(QuoteChain(k))' \in truth'[k].seen
    <3>1. truth[k].chain = QuoteChain(k) /\ Now(QuoteChain(k)) \in truth[k].seen
      BY <2>2 DEF RfqInv, CallOK
    <3>2. CASE QuoteChain(k) = c
      BY <1>2, <2>1, <3>1, <3>2
    <3>3. CASE QuoteChain(k) # c
      <4>1. hasRouter'[QuoteChain(k)] = hasRouter[QuoteChain(k)]
            /\ allowed'[QuoteChain(k)] = allowed[QuoteChain(k)]
        <5>1. hasRouter \in [Chains -> BOOLEAN] /\ allowed \in [Chains -> SUBSET Makers]
          BY DEF RfqInv, Types
        <5>2. hasRouter' = hasRouter \/ hasRouter' = [hasRouter EXCEPT ![c] = ~@]
          BY DEF ChainChanges
        <5>3. allowed' = allowed \/ \E S : allowed' = [allowed EXCEPT ![c] = S]
          BY DEF ChainChanges
        <5>4. QuoteChain(k) \in Chains
          BY <2>2, QuoteHasChain DEF RfqInv, CallOK, QuoteChain, Looking
        <5> QED
          BY <3>3, <5>1, <5>2, <5>3, <5>4
      <4>2. Now(QuoteChain(k))' = Now(QuoteChain(k))
        BY <2>1, <4>1 DEF Now
      <4> QED
        BY <1>2, <3>1, <4>2 DEF Keeps
    <3> QED
      BY <3>2, <3>3
  <2> QED
    BY <1>2, <2>2, CallUndisturbed DEF RfqInv, ChainChanges, callVars
<1> QED
  BY <1>1, <1>3, <1>4 DEF RfqInv

LEMMA SetSignerInv ==
  ASSUME RfqInv, SetSigner
  PROVE RfqInv'
<1>1. Types'
  BY DEF RfqInv, Types, SetSigner, callVars
<1>2. \A e \in Deployments : EntryOK(e)'
  BY EntriesUndisturbed DEF SetSigner
<1>3. \A k \in Calls : Keeps(k) /\ Now(QuoteChain(k))' = Now(QuoteChain(k))
  BY DEF SetSigner, Keeps, callVars, Now, QuoteChain
<1>4. \A k \in Calls : CallOK(k)'
  BY <1>3, CallUndisturbed DEF RfqInv, SetSigner, callVars, CallOK, Keeps
<1> QED
  BY <1>1, <1>2, <1>4 DEF RfqInv

LEMMA ExpireInv ==
  ASSUME RfqInv, NEW e \in Deployments, Expire(e)
  PROVE RfqInv'
<1>1. Types'
  BY DEF RfqInv, Types, Expire, callVars, chainVars
<1>2. \A d \in Deployments : EntryOK(d)'
  <2>1. cache'[e] = None
    BY DEF Expire, RfqInv, Types
  <2>2. \A d \in Deployments \ {e} : cache'[d] = cache[d] /\ Keeps(d)
    BY DEF Expire, RfqInv, Types, Keeps
  <2> QED
    BY <2>1, <2>2, EntryUndisturbed DEF EntryOK, RfqInv, Expire, chainVars
<1>3. \A k \in Calls : truth'[k] = truth[k]
  BY NameAssumption DEF Expire, RfqInv, Types
<1>4. \A k \in Calls : Keeps(k) /\ Now(QuoteChain(k))' = Now(QuoteChain(k))
  BY <1>3 DEF Expire, Keeps, callVars, chainVars, Now, QuoteChain
<1>5. \A k \in Calls : CallOK(k)'
  BY <1>4, CallUndisturbed DEF RfqInv, Expire, callVars, chainVars, CallOK, Keeps
<1> QED
  BY <1>1, <1>2, <1>5 DEF RfqInv

\* A call's own step that leaves the chains, the cache and what is known of the others
\* preserves the invariant, when it preserves the types and the call's own part.
LEMMA OwnStep ==
  ASSUME RfqInv, NEW k \in Calls, Types', CallOK(k)',
         UNCHANGED <<deployed, hasRouter, allowed, cache>>,
         \A e \in Deployments : truth'[e] = truth[e],
         \A j \in Calls \ {k} :
           /\ phase'[j] = phase[j] /\ quote'[j] = quote[j] /\ op'[j] = op[j]
           /\ payer'[j] = payer[j] /\ router'[j] = router[j] /\ makers'[j] = makers[j]
           /\ sent'[j] = sent[j] /\ truth'[j] = truth[j]
  PROVE RfqInv'
BY OthersUndisturbed, EntriesUndisturbed DEF RfqInv

\* The quote of a call that has begun, and the deployment it is checked against.
LEMMA BegunCall ==
  ASSUME RfqInv, NEW k \in Calls, phase[k] \notin {"idle", "refused"}
  PROVE /\ quote[k] \in Quotes /\ Anchor(k) \in Deployments /\ op[k] # "none"
        /\ QuoteChain(k) \in Chains /\ deployed[QuoteChain(k)] = Anchor(k)
BY QuoteHasChain DEF RfqInv, CallOK, QuoteChain, Anchor

LEMMA StartInv ==
  ASSUME RfqInv, NEW k \in Calls, NEW q \in Quotes, NEW what \in {"approve", "swap"},
         Start(k, q, what)
  PROVE RfqInv'
<1>1. /\ phase[k] = "idle" /\ phase'[k] \in {"targets", "refused"}
      /\ phase' = [phase EXCEPT ![k] = phase'[k]]
  BY DEF RfqInv, Types, Start, Enter, Refuse
<1>2. Types'
  BY <1>1 DEF RfqInv, Types, Start, chainVars, Phases
<1>3. sent'[k] = None
  BY <1>1 DEF RfqInv, CallOK, Start
<1>4. phase'[k] = "targets" => Anchor(k)' \in Deployments
  <2>1. quote'[k] = q /\ deployed' = deployed
    BY DEF Start, RfqInv, Types, chainVars
  <2>2. phase'[k] = "targets" => deployed[ChainOf(q)] # None
    BY <1>1 DEF Start, Enter, Refuse, RfqInv, Types
  <2> QED
    BY <2>1, <2>2, QuoteHasChain DEF Anchor, QuoteChain, RfqInv, Types
<1>5. CallOK(k)'
  BY <1>1, <1>3, <1>4 DEF CallOK, Looking, Trusting, Checked, Start, RfqInv, Types
<1> QED
  BY <1>1, <1>2, <1>5, OwnStep DEF Start, chainVars, RfqInv, Types

LEMMA UseCachedInv ==
  ASSUME RfqInv, NEW k \in Calls, UseCached(k)
  PROVE RfqInv'
<1> DEFINE e == Anchor(k)
<1>1. e \in Deployments /\ QuoteChain(k)' = QuoteChain(k) /\ Anchor(k)' = e
  BY BegunCall DEF UseCached, chainVars, QuoteChain, Anchor
<1>2. EntryOK(e) /\ cache[e] # None
  BY <1>1 DEF UseCached, RfqInv
<1>3. /\ phase' = [phase EXCEPT ![k] = "checking"]
      /\ router' = [router EXCEPT ![k] = cache[e].router]
      /\ makers' = [makers EXCEPT ![k] = cache[e].makers]
      /\ truth' = [truth EXCEPT ![k] = truth[e]]
  BY DEF UseCached, GoesBy, Enter
<1>4. Types'
  BY <1>1, <1>2, <1>3 DEF RfqInv, Types, UseCached, chainVars, Phases, EntryOK
<1>5. /\ phase'[k] = "checking" /\ truth'[k] = truth[e]
      /\ router'[k] = cache[e].router /\ makers'[k] = cache[e].makers
      /\ deployed' = deployed
  BY <1>3 DEF RfqInv, Types, UseCached, chainVars
<1>6. Justified(k, router[k], makers[k], Anchor(k))'
  BY <1>1, <1>2, <1>5 DEF EntryOK, Justified
<1>7. sent'[k] = None /\ quote'[k] = quote[k] /\ quote[k] \in Quotes
      /\ op'[k] = op[k] /\ op[k] # "none"
  BY BegunCall DEF UseCached, RfqInv, CallOK
<1>8. CallOK(k)'
  BY <1>1, <1>5, <1>6, <1>7 DEF CallOK, Looking, Trusting, Checked
<1>9. \A x \in Calls \cup Deployments : x # k => truth'[x] = truth[x]
  BY <1>3 DEF RfqInv, Types
<1>10. \A e1 \in Deployments : truth'[e1] = truth[e1]
  BY <1>9, NameAssumption
<1>11. \A j \in Calls \ {k} : /\ phase'[j] = phase[j] /\ router'[j] = router[j]
                              /\ makers'[j] = makers[j] /\ truth'[j] = truth[j]
  BY <1>3, <1>9 DEF RfqInv, Types
<1> QED
  BY <1>4, <1>8, <1>10, <1>11, OwnStep DEF UseCached, chainVars

LEMMA StartLookupInv ==
  ASSUME RfqInv, NEW k \in Calls, StartLookup(k)
  PROVE RfqInv'
<1> DEFINE c == QuoteChain(k)
<1>1. /\ c \in Chains /\ Anchor(k) \in Deployments /\ quote[k] \in Quotes
      /\ QuoteChain(k)' = c /\ Anchor(k)' = Anchor(k)
  BY BegunCall DEF StartLookup, chainVars, QuoteChain, Anchor
<1>2. Now(c) \in Views /\ Now(c)' = Now(c)
  BY <1>1, NowIsView DEF RfqInv, StartLookup, chainVars, Now
<1>3. truth' = [truth EXCEPT ![k] = [chain |-> c, seen |-> {Now(c)}]]
  BY DEF StartLookup
<1>4. /\ phase' = [phase EXCEPT ![k] = phase'[k]] /\ phase'[k] \in Looking
      /\ router' = [router EXCEPT ![k] = router'[k]] /\ router'[k] \in {Router, None}
      /\ makers' = [makers EXCEPT ![k] = {}]
      /\ phase'[k] = "makers" => Published[c]
  BY DEF StartLookup, GoesBy, Enter, Looking, RfqInv, Types
<1>5. Types'
  <2>1. truth' \in [Calls \cup Deployments -> [chain : Chains \cup {None}, seen : SUBSET Views]]
    BY <1>1, <1>2, <1>3 DEF RfqInv, Types
  <2>2. phase' \in [Calls -> Phases]
    BY <1>4 DEF RfqInv, Types, Phases, Looking
  <2>3. router' \in [Calls -> {Router, None}]
    BY <1>4 DEF RfqInv, Types
  <2>4. makers' \in [Calls -> SUBSET (Makers \cup Deployments)]
    BY <1>4 DEF RfqInv, Types
  <2> QED
    BY <2>1, <2>2, <2>3, <2>4 DEF RfqInv, Types, StartLookup, chainVars
<1>6. truth'[k] = [chain |-> c, seen |-> {Now(c)}]
  BY <1>3 DEF RfqInv, Types
<1>7. phase'[k] = "makers" => Now(c).router = Router
  BY <1>1, <1>4 DEF RfqInv, Types, Now
<1>8. sent'[k] = None /\ quote'[k] = quote[k] /\ op'[k] = op[k] /\ op[k] # "none"
  BY BegunCall DEF StartLookup, RfqInv, CallOK
<1>9. CallOK(k)'
  BY <1>1, <1>2, <1>4, <1>6, <1>7, <1>8 DEF CallOK, Looking, Trusting, Checked
<1>10. \A x \in Calls \cup Deployments : x # k => truth'[x] = truth[x]
  BY <1>3 DEF RfqInv, Types
<1>11. \A e \in Deployments : truth'[e] = truth[e]
  BY <1>10, NameAssumption
<1>12. \A j \in Calls \ {k} : /\ phase'[j] = phase[j] /\ router'[j] = router[j]
                              /\ makers'[j] = makers[j] /\ truth'[j] = truth[j]
  BY <1>4, <1>10 DEF RfqInv, Types
<1> QED
  BY <1>5, <1>9, <1>11, <1>12, OwnStep DEF StartLookup, chainVars

\* What a lookup stores is as true as it is of the call that stores it.
LEMMA StoreInv ==
  ASSUME RfqInv, NEW k \in Calls, phase[k] \in Looking,
         NEW r \in {Router, None}, NEW ms \in SUBSET (Makers \cup Deployments),
         Store(k, r, ms), UNCHANGED <<chainVars, account, op, quote, payer, sent>>,
         Anchor(k) \in ms, \A m \in ms \ {Anchor(k)} : \E t \in truth[k].seen : m \in t.makers,
         \E t \in truth[k].seen : t.router = r,
         r # None => \E t \in truth[k].seen : ms = t.makers \cup {Anchor(k)}
  PROVE RfqInv'
<1> PICK e : e = Anchor(k)
  OBVIOUS
<1>1. /\ QuoteChain(k) \in Chains /\ e \in Deployments /\ quote[k] \in Quotes
      /\ deployed[QuoteChain(k)] = e /\ QuoteChain(k)' = QuoteChain(k) /\ Anchor(k)' = e
  BY BegunCall DEF Looking, chainVars, QuoteChain, Anchor
<1>2. /\ phase' = [phase EXCEPT ![k] = "checking"]
      /\ router' = [router EXCEPT ![k] = r] /\ makers' = [makers EXCEPT ![k] = ms]
      /\ cache' = [cache EXCEPT ![e] = [router |-> r, makers |-> ms]]
      /\ truth' = [truth EXCEPT ![e] = truth[k]]
  BY DEF Store, GoesBy, Enter
<1>3. Types'
  BY <1>1, <1>2 DEF RfqInv, Types, chainVars, Phases
<1>4. /\ cache'[e] = [router |-> r, makers |-> ms] /\ truth'[e] = truth[k]
      /\ truth'[k] = truth[k] /\ deployed' = deployed
  BY <1>1, <1>2, NameAssumption DEF RfqInv, Types, chainVars
<1>5. truth[k].chain = QuoteChain(k)
  BY DEF RfqInv, CallOK
<1>6. Justified(k, r, ms, e)' /\ Justified(e, r, ms, e)'
  BY <1>1, <1>4, <1>5 DEF Justified
<1>7. EntryOK(e)'
  BY <1>4, <1>6 DEF EntryOK
<1>8. \A d \in Deployments \ {e} : EntryOK(d)'
  <2>1. \A d \in Deployments \ {e} : cache'[d] = cache[d] /\ Keeps(d)
    BY <1>2 DEF RfqInv, Types, Keeps
  <2> QED
    BY <1>4, <2>1, EntryUndisturbed DEF RfqInv
<1>9. /\ phase'[k] = "checking" /\ router'[k] = r /\ makers'[k] = ms
      /\ quote'[k] = quote[k] /\ op'[k] = op[k] /\ sent'[k] = None /\ op[k] # "none"
  BY <1>2, BegunCall DEF RfqInv, Types, CallOK, Looking
<1>10. CallOK(k)'
  BY <1>1, <1>6, <1>9 DEF CallOK, Looking, Trusting, Checked
<1>11. \A j \in Calls \ {k} : /\ phase'[j] = phase[j] /\ router'[j] = router[j]
                              /\ makers'[j] = makers[j] /\ truth'[j] = truth[j]
  BY <1>1, <1>2, NameAssumption DEF RfqInv, Types
<1>12. \A j \in Calls \ {k} : CallOK(j)'
  BY <1>11, OthersUndisturbed DEF chainVars
<1> QED
  BY <1>3, <1>7, <1>8, <1>10, <1>12 DEF RfqInv

LEMMA ForwarderArrivesInv ==
  ASSUME RfqInv, NEW k \in Calls, ForwarderArrives(k)
  PROVE RfqInv'
<1> PICK c : c = QuoteChain(k)
  OBVIOUS
<1>1. /\ phase[k] = "forwarder" /\ c \in Chains /\ Anchor(k) \in Deployments
      /\ quote[k] \in Quotes /\ QuoteChain(k)' = c /\ Anchor(k)' = Anchor(k)
  BY BegunCall DEF ForwarderArrives, chainVars, QuoteChain, Anchor
<1>2. truth[k].chain = c /\ Now(c) \in truth[k].seen
  BY <1>1 DEF RfqInv, CallOK, Looking
<1>3. CASE hasRouter[c]
  <2>1. /\ phase' = [phase EXCEPT ![k] = "makers"] /\ router' = [router EXCEPT ![k] = Router]
        /\ makers' = [makers EXCEPT ![k] = {}] /\ UNCHANGED <<cache, truth>>
    BY <1>3 DEF ForwarderArrives, GoesBy, Enter
  <2>2. Types'
    BY <2>1 DEF RfqInv, Types, ForwarderArrives, chainVars, Phases
  <2>3. phase'[k] = "makers" /\ Now(c)' = Now(c) /\ Now(c).router = Router
    BY <1>3, <2>1 DEF RfqInv, Types, ForwarderArrives, chainVars, Now
  <2>4. sent'[k] = None /\ quote'[k] = quote[k] /\ op'[k] = op[k] /\ op[k] # "none"
    BY <1>1, BegunCall DEF ForwarderArrives, RfqInv, CallOK
  <2>5. CallOK(k)'
    BY <1>1, <1>2, <2>1, <2>3, <2>4 DEF CallOK, Looking, Trusting, Checked
  <2>6. \A j \in Calls \ {k} : /\ phase'[j] = phase[j] /\ router'[j] = router[j]
                               /\ makers'[j] = makers[j]
    BY <2>1 DEF RfqInv, Types
  <2> QED
    BY <2>1, <2>2, <2>5, <2>6, OwnStep DEF ForwarderArrives, chainVars
<1>4. CASE ~hasRouter[c]
  <2>1. Store(k, None, {Anchor(k)})
    BY <1>4 DEF ForwarderArrives
  <2>2. Now(c).router = None
    BY <1>4 DEF Now
  <2> QED
    BY <1>1, <1>2, <2>1, <2>2, StoreInv DEF ForwarderArrives, Looking
<1> QED
  BY <1>3, <1>4

LEMMA MakersArriveInv ==
  ASSUME RfqInv, NEW k \in Calls, MakersArrive(k)
  PROVE RfqInv'
<1> DEFINE c == QuoteChain(k)
           ms == allowed[c] \cup {Anchor(k)}
<1>1. phase[k] = "makers" /\ c \in Chains /\ Anchor(k) \in Deployments
  BY BegunCall DEF MakersArrive
<1>2. Now(c) \in truth[k].seen /\ \E t \in truth[k].seen : t.router = Router
  BY <1>1 DEF RfqInv, CallOK, Looking
<1>3. Now(c).makers = allowed[c] /\ ms \in SUBSET (Makers \cup Deployments)
  BY <1>1 DEF Now, RfqInv, Types
<1>4. Store(k, Router, ms) /\ UNCHANGED <<chainVars, account, op, quote, payer, sent>>
  BY DEF MakersArrive
<1>5. Anchor(k) \in ms /\ \A m \in ms \ {Anchor(k)} : \E t \in truth[k].seen : m \in t.makers
  BY <1>2, <1>3
<1>6. \E t \in truth[k].seen : ms = t.makers \cup {Anchor(k)}
  BY <1>2, <1>3
<1> QED
  BY <1>1, <1>2, <1>3, <1>4, <1>5, <1>6, StoreInv DEF Looking

LEMMA LookupFailsInv ==
  ASSUME RfqInv, NEW k \in Calls, LookupFails(k)
  PROVE RfqInv'
<1>1. /\ Anchor(k) \in Deployments /\ quote[k] \in Quotes
      /\ QuoteChain(k)' = QuoteChain(k) /\ Anchor(k)' = Anchor(k)
  BY BegunCall DEF LookupFails, chainVars, QuoteChain, Anchor
<1>2. /\ phase' = [phase EXCEPT ![k] = "checking"] /\ router' = [router EXCEPT ![k] = None]
      /\ makers' = [makers EXCEPT ![k] = {Anchor(k)}]
  BY DEF LookupFails, GoesBy, Enter
<1>3. Types'
  BY <1>1, <1>2 DEF RfqInv, Types, LookupFails, chainVars, Phases
<1>4. phase'[k] = "checking" /\ router'[k] = None /\ makers'[k] = {Anchor(k)}
  BY <1>2 DEF RfqInv, Types
<1>5. Justified(k, router[k], makers[k], Anchor(k))'
  BY <1>1, <1>4 DEF Justified
<1>6. sent'[k] = None /\ quote'[k] = quote[k] /\ op'[k] = op[k] /\ op[k] # "none"
  BY BegunCall DEF LookupFails, RfqInv, CallOK
<1>7. CallOK(k)'
  BY <1>1, <1>4, <1>5, <1>6 DEF CallOK, Looking, Trusting, Checked
<1>8. \A j \in Calls \ {k} : /\ phase'[j] = phase[j] /\ router'[j] = router[j]
                             /\ makers'[j] = makers[j]
  BY <1>2 DEF RfqInv, Types
<1> QED
  BY <1>3, <1>7, <1>8, OwnStep DEF LookupFails, chainVars

\* Every step from the checks on leaves the quote and what it is checked against.
LEMMA LaterStep ==
  ASSUME RfqInv, NEW k \in Calls, phase[k] \in Trusting,
         phase' = [phase EXCEPT ![k] = phase'[k]],
         phase'[k] \in Checked \cup {"refused"}, sent[k] = None,
         phase'[k] = "signing" => payer'[k] \in Accounts,
         phase'[k] # "refused" =>
           TargetOK(quote[k], router[k], makers[k]) /\ (op[k] = "swap" => EnvelopeOK(quote[k])),
         \E a \in Accounts \cup {None} : payer' = [payer EXCEPT ![k] = a],
         \E x : sent' = [sent EXCEPT ![k] = x],
         sent'[k] # None => phase'[k] = "done" /\ sent'[k] = Transaction(k)',
         UNCHANGED <<chainVars, cache, account, op, quote, router, makers, truth>>
  PROVE RfqInv'
<1>1. /\ Anchor(k) \in Deployments /\ quote[k] \in Quotes /\ op[k] # "none"
      /\ Anchor(k)' = Anchor(k) /\ Justified(k, router[k], makers[k], Anchor(k))
  BY BegunCall DEF chainVars, QuoteChain, Anchor, RfqInv, CallOK, Trusting, Checked
<1>2. Types'
  <2>1. phase' \in [Calls -> Phases]
    BY DEF RfqInv, Types, Phases, Checked
  <2>2. payer' \in [Calls -> Accounts \cup {None}]
    BY DEF RfqInv, Types
  <2>3. DOMAIN sent' = Calls /\ sent' = [j \in Calls |-> sent'[j]]
    <3>1. PICK x : sent' = [sent EXCEPT ![k] = x]
      OBVIOUS
    <3>2. DOMAIN sent = Calls
      BY DEF RfqInv, Types
    <3>3. sent' = [j \in Calls |-> IF j = k THEN x ELSE sent[j]]
      BY <3>1, <3>2
    <3> QED
      BY <3>3
  <2> QED
    BY <2>1, <2>2, <2>3 DEF RfqInv, Types, chainVars
<1>3. Justified(k, router[k], makers[k], Anchor(k))'
  BY <1>1 DEF Justified, chainVars
<1>4. CallOK(k)'
  BY <1>1, <1>3 DEF CallOK, Looking, Trusting, Checked
<1>5. \A j \in Calls \ {k} : phase'[j] = phase[j] /\ payer'[j] = payer[j]
  BY DEF RfqInv, Types
<1>6. \A j \in Calls \ {k} : sent'[j] = sent[j]
  BY DEF RfqInv, Types
<1> QED
  BY <1>2, <1>4, <1>5, <1>6, OwnStep DEF chainVars

\* A step that keeps the payer and sends nothing meets the two hypotheses about them.
LEMMA SamePayerNothingSent ==
  ASSUME RfqInv, NEW k \in Calls, UNCHANGED <<payer, sent>>
  PROVE /\ \E a \in Accounts \cup {None} : payer' = [payer EXCEPT ![k] = a]
        /\ \E x : sent' = [sent EXCEPT ![k] = x]
<1>1. payer' = [payer EXCEPT ![k] = payer[k]] /\ payer[k] \in Accounts \cup {None}
  BY DEF RfqInv, Types
<1>2. sent' = [sent EXCEPT ![k] = sent[k]]
  BY DEF RfqInv, Types
<1> QED
  BY <1>1, <1>2

LEMMA CheckInv ==
  ASSUME RfqInv, NEW k \in Calls, Check(k)
  PROVE RfqInv'
<1>1. phase[k] = "checking" /\ phase[k] \in Trusting /\ sent[k] = None
  BY DEF Check, Trusting, RfqInv, CallOK
<1>2. \E ph \in {"refused", "building", "allowance"} :
        /\ phase' = [phase EXCEPT ![k] = ph]
        /\ ph # "refused" =>
             TargetOK(quote[k], router[k], makers[k]) /\ (op[k] = "swap" => EnvelopeOK(quote[k]))
  BY DEF Check, Enter, Refuse
<1>3. /\ phase' = [phase EXCEPT ![k] = phase'[k]]
      /\ phase'[k] \in {"refused", "building", "allowance"}
      /\ phase'[k] # "refused" =>
           TargetOK(quote[k], router[k], makers[k]) /\ (op[k] = "swap" => EnvelopeOK(quote[k]))
  BY <1>2 DEF RfqInv, Types
<1> QED
  BY <1>1, <1>3, LaterStep, SamePayerNothingSent DEF Check, RestOfCall, Checked

\* What a call from the checks on is known of.
LEMMA CheckedCall ==
  ASSUME RfqInv, NEW k \in Calls, phase[k] \in Checked \ {"done"}
  PROVE /\ phase[k] \in Trusting /\ sent[k] = None
        /\ TargetOK(quote[k], router[k], makers[k])
        /\ op[k] = "swap" => EnvelopeOK(quote[k])
BY DEF RfqInv, CallOK, Checked, Trusting

LEMMA AllowanceArrivesInv ==
  ASSUME RfqInv, NEW k \in Calls, AllowanceArrives(k)
  PROVE RfqInv'
<1>1. phase[k] \in Checked \ {"done"}
  BY DEF AllowanceArrives, Checked
<1>2. \E ph \in {"refused", "building", "done"} : phase' = [phase EXCEPT ![k] = ph]
  BY DEF AllowanceArrives, Enter
<1>3. /\ phase' = [phase EXCEPT ![k] = phase'[k]]
      /\ phase'[k] \in {"refused", "building", "done"}
  BY <1>2 DEF RfqInv, Types
<1> QED
  BY <1>1, <1>3, CheckedCall, LaterStep, SamePayerNothingSent
  DEF AllowanceArrives, RestOfCall, Checked

LEMMA BuildInv ==
  ASSUME RfqInv, NEW k \in Calls, Build(k)
  PROVE RfqInv'
<1>1. phase[k] \in Checked \ {"done"}
  BY DEF Build, Checked
<1>2. phase' = [phase EXCEPT ![k] = phase'[k]] /\ phase'[k] = "signing"
  BY DEF Build, Enter, RfqInv, Types
<1>3. payer' = [payer EXCEPT ![k] = account] /\ payer'[k] \in Accounts
      /\ account \in Accounts \cup {None}
  BY DEF Build, RfqInv, Types
<1>4. sent' = [sent EXCEPT ![k] = sent[k]] /\ sent'[k] = sent[k]
  BY DEF Build, RfqInv, Types
<1> QED
  BY <1>1, <1>2, <1>3, <1>4, CheckedCall, LaterStep DEF Build, Checked

LEMMA SignInv ==
  ASSUME RfqInv, NEW k \in Calls, Sign(k)
  PROVE RfqInv'
<1>1. phase[k] \in Checked \ {"done"}
  BY DEF Sign, Checked
<1>2. Transaction(k)' = Transaction(k)
  BY DEF Sign, Transaction
<1>3. payer' = [payer EXCEPT ![k] = payer[k]] /\ payer[k] \in Accounts \cup {None}
  BY DEF Sign, RfqInv, Types
<1>4. CASE sent' = [sent EXCEPT ![k] = Transaction(k)] /\ Enter(k, "done")
  <2>1. phase' = [phase EXCEPT ![k] = phase'[k]] /\ phase'[k] = "done"
    BY <1>4 DEF Enter, RfqInv, Types
  <2>2. sent'[k] = Transaction(k)
    BY <1>4 DEF RfqInv, Types
  <2> QED
    BY <1>1, <1>2, <1>3, <1>4, <2>1, <2>2, CheckedCall, LaterStep DEF Sign, Checked
<1>5. CASE Refuse(k) /\ UNCHANGED sent
  <2>1. phase' = [phase EXCEPT ![k] = phase'[k]] /\ phase'[k] = "refused"
    BY <1>5 DEF Refuse, Enter, RfqInv, Types
  <2> QED
    BY <1>1, <1>5, <2>1, CheckedCall, LaterStep, SamePayerNothingSent DEF Sign, Checked
<1> QED
  BY <1>4, <1>5 DEF Sign

LEMMA StutterInv ==
  ASSUME RfqInv, UNCHANGED vars
  PROVE RfqInv'
<1>1. Types'
  BY DEF RfqInv, Types, vars, chainVars, callVars
<1>2. \A e \in Deployments : EntryOK(e)'
  BY EntriesUndisturbed DEF vars, chainVars
<1>3. \A k \in Calls : Keeps(k) /\ Now(QuoteChain(k))' = Now(QuoteChain(k))
  BY DEF vars, Keeps, callVars, chainVars, Now, QuoteChain
<1>4. \A k \in Calls : CallOK(k)'
  BY <1>3, CallUndisturbed DEF RfqInv, vars, callVars, chainVars, CallOK, Keeps
<1> QED
  BY <1>1, <1>2, <1>4 DEF RfqInv

LEMMA NextInv ==
  ASSUME RfqInv, [Next]_vars
  PROVE RfqInv'
<1>1. ASSUME NEW k \in Calls, CallStep(k) PROVE RfqInv'
  BY <1>1, StartInv, UseCachedInv, StartLookupInv, ForwarderArrivesInv, MakersArriveInv,
     LookupFailsInv, CheckInv, AllowanceArrivesInv, BuildInv, SignInv DEF CallStep
<1> QED
  BY <1>1, ChainChangesInv, ExpireInv, SetSignerInv, StutterInv DEF Next

THEOREM RfqInvariant == Spec => []RfqInv
BY InitInv, NextInv, PTL DEF Spec

-----------------------------------------------------------------------------
(* What follows *)

\* Every call is in a known phase, an entry of the cache always lists its own deployment,
\* and what is being signed has an account.
THEOREM RfqTypes == Spec => []RfqTypeOK
<1>1. RfqInv => RfqTypeOK
  BY DEF RfqInv, RfqTypeOK, Types, EntryOK, CallOK, Entries
<1> QED
  BY <1>1, RfqInvariant, PTL

\* The cache never keeps for a deployment what was not true of its chain: the degraded
\* answer of a failed read serves the call that met the failure, and no other.
THEOREM CacheIsTrue == Spec => []EntryWasTrue
<1>1. RfqInv => EntryWasTrue
  BY DEF RfqInv, EntryWasTrue, EntryOK, Entries
<1> QED
  BY <1>1, RfqInvariant, PTL

\* Where no two chains share a deployment's address, a transaction trusts the deployment of
\* the quote's chain or a maker that chain's router allowed.
THEOREM MakersAreAllowed == Spec => []OnlyAllowedMakers
<1>1. ASSUME RfqInv, NEW k \in Calls, sent[k] # None, Alone(QuoteChain(k))
      PROVE \/ sent[k].spender = Anchor(k)
            \/ /\ truth[k].chain = QuoteChain(k)
               /\ \E t \in truth[k].seen : sent[k].spender \in t.makers
  <2>1. phase[k] = "done" /\ sent[k] = Transaction(k)
    BY <1>1 DEF RfqInv, CallOK
  <2>2. /\ Justified(k, router[k], makers[k], Anchor(k))
        /\ TargetOK(quote[k], router[k], makers[k])
    BY <1>1, <2>1 DEF RfqInv, CallOK, Trusting, Checked
  <2>3. sent[k].spender = quote[k].maker
    BY <2>1 DEF Transaction
  <2>4. quote[k].maker \in makers[k]
    BY <2>2 DEF TargetOK
  <2>5. truth[k].chain \in Chains /\ deployed[truth[k].chain] = Anchor(k)
          => truth[k].chain = QuoteChain(k)
    BY <1>1 DEF Alone, Anchor
  <2> QED
    BY <2>2, <2>3, <2>4, <2>5 DEF Justified
<1>2. RfqInv => OnlyAllowedMakers
  BY <1>1 DEF OnlyAllowedMakers
<1> QED
  BY <1>2, RfqInvariant, PTL

\* A swap goes to its maker or to a router the chain named, for the value the maker will
\* take, and the quote's envelope does not contradict it.
THEOREM SwapsAreAsChecked == Spec => []SentAsChecked
<1>1. ASSUME RfqInv, NEW k \in Calls, sent[k] # None, sent[k].call = "simpleSwap"
      PROVE /\ \/ sent[k].to = sent[k].spender
               \/ sent[k].to = Router /\ \E t \in truth[k].seen : t.router = Router
            /\ sent[k].value = (IF quote[k].native THEN Amount ELSE 0)
            /\ quote[k].value # None => quote[k].value = sent[k].value
  <2>1. phase[k] = "done" /\ sent[k] = Transaction(k)
    BY <1>1 DEF RfqInv, CallOK
  <2>2. op[k] # "approve" /\ op[k] = "swap"
    <3>1. op[k] # "none" /\ op[k] \in {"none", "approve", "swap"}
      BY <1>1, <2>1 DEF RfqInv, CallOK, Types
    <3>2. op[k] = "approve" => sent[k].call = "approve"
      BY <2>1 DEF Transaction
    <3> QED
      BY <1>1, <3>1, <3>2
  <2>3. /\ Justified(k, router[k], makers[k], Anchor(k))
        /\ TargetOK(quote[k], router[k], makers[k]) /\ EnvelopeOK(quote[k])
    BY <1>1, <2>1, <2>2 DEF RfqInv, CallOK, Trusting, Checked
  <2>4. sent[k].to = Target(quote[k]) /\ sent[k].spender = quote[k].maker
        /\ sent[k].value = MsgValue(quote[k])
    BY <2>1, <2>2 DEF Transaction
  <2>5. router[k] \in {Router, None}
    BY <1>1 DEF RfqInv, Types
  <2> QED
    BY <2>3, <2>4, <2>5, NameAssumption DEF Justified, TargetOK, EnvelopeOK, Target, MsgValue
<1>2. RfqInv => SentAsChecked
  BY <1>1 DEF SentAsChecked
<1> QED
  BY <1>2, RfqInvariant, PTL
=============================================================================
