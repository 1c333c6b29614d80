------------------------- MODULE ClientCallsProofs -------------------------
(***************************************************************************)
(* Proofs about ClientCalls, for any calls, requests, chains, registry of  *)
(* aliases, listings, balances, pairs and bounds.                          *)
(*                                                                         *)
(* The calls share the world of chains, listings, ledgers and caches, and  *)
(* each keeps its own state.  Of the world the argument needs little: the  *)
(* history only grows, what is cached under an address is a balance that   *)
(* the address has had (WorldOK), and an answer that is kept is that of a  *)
(* call that has ended (KeptOK).  What is true of a call (CallOK) is then  *)
(* kept by any step of the others, which leave the call as it is           *)
(* (Undisturbed), and by its own steps, one lemma each; a call that is     *)
(* served from the cache has it from the call that read the answer.        *)
(*                                                                         *)
(* CallOK has a conjunct for each thing a call does: the chain it is of,   *)
(* the rows it has read and has yet to read, the pages, the quantity it    *)
(* moves and the balance that covers it, and the pair it asks for.         *)
(***************************************************************************)
EXTENDS ClientCalls, FiniteSetTheorems, TLAPS

-----------------------------------------------------------------------------
(* References *)

\* A reference is an alias of one family and, at most, one environment.
LEMMA OneMeaning ==
  ASSUME NEW ref, NEW f \in Matched(ref), NEW h \in Matched(ref)
  PROVE  f = h
<1>1. PICK g1 \in Registry : f \in {<<g1.family, e>> : e \in {x \in {None, "testnet", "mainnet"} :
            \/ x = None /\ ref \in g1.generic
            \/ x = "testnet" /\ ref \in g1.testnet
            \/ x = "mainnet" /\ ref \in g1.mainnet}}
  BY DEF Matched
<1>2. PICK g2 \in Registry : h \in {<<g2.family, e>> : e \in {x \in {None, "testnet", "mainnet"} :
            \/ x = None /\ ref \in g2.generic
            \/ x = "testnet" /\ ref \in g2.testnet
            \/ x = "mainnet" /\ ref \in g2.mainnet}}
  BY DEF Matched
<1>3. ref \in Aliases(g1) /\ ref \in Aliases(g2)
  BY <1>1, <1>2 DEF Aliases
<1>4. g1 = g2
  BY <1>3, RegistryAssumption
<1> QED
  BY <1>1, <1>2, <1>4, RegistryAssumption

\* The chain c is what ref means among the connected ones: ReferenceHonoured of a call.
Honoured(c, ref, connected, act) ==
  \/ ref \in {c.id, c.name}
  \/ /\ ~RuledOut(c, ref)
     /\ \/ c.id = act
        \/ \A d \in connected \ {c} : Family(d) = Family(c) => RuledOut(d, ref)

\* The candidates are those that answer the description, and all others of their family are
\* ruled out by it.
LEMMA CandidatesAnswer ==
  ASSUME NEW g, NEW ref, NEW c \in Candidates(g, ref)
  PROVE  /\ c \in g /\ ~RuledOut(c, ref)
         /\ \A d \in g \ Candidates(g, ref) : Family(d) = Family(c) => RuledOut(d, ref)
<1>1. c \in g
  BY DEF Candidates
<1>2. PICK f \in Matched(ref) : Family(c) = f[1] /\ (f[2] = None \/ EnvironmentKind(c) = f[2])
  BY DEF Candidates
<1>3. Environments(ref) = {f[2]} \ {None}
  BY OneMeaning DEF Environments
<1>4. ~RuledOut(c, ref)
  BY <1>2, <1>3 DEF RuledOut
<1>5. ASSUME NEW d \in g \ Candidates(g, ref), Family(d) = Family(c) PROVE RuledOut(d, ref)
  <2>1. f[2] # None /\ EnvironmentKind(d) # f[2]
    BY <1>2, <1>5 DEF Candidates
  <2> QED BY <1>3, <2>1 DEF RuledOut
<1> QED
  BY <1>1, <1>4, <1>5

LEMMA PreferredAnswers ==
  ASSUME NEW g, IsFiniteSet(g), NEW ref, NEW act, Preferred(Candidates(g, ref), act).ok
  PROVE  LET c == Preferred(Candidates(g, ref), act).chain IN
         c \in g /\ Honoured(c, ref, g, act)
<1> DEFINE cs == Candidates(g, ref)
           c == Preferred(cs, act).chain
<1>1. IsFiniteSet(cs)
  BY FS_Subset DEF Candidates
<1>2. CASE Cardinality(cs) = 1
  <2>1. PICK d : cs = {d}
    BY <1>1, <1>2, FS_Singleton
  <2> HIDE DEF cs
  <2>2. Preferred(cs, act) = Found(CHOOSE x \in cs : TRUE)
    BY <1>2 DEF Preferred
  <2>3. c \in cs /\ cs = {c}
    BY <2>1, <2>2 DEF Found
  <2> HIDE DEF c
  <2> QED BY <2>3, CandidatesAnswer DEF Honoured, c, cs
<1>3. CASE Cardinality(cs) # 1
  <2> HIDE DEF cs
  <2>1. act # None /\ \E d \in cs : d.id = act
    BY <1>3 DEF Preferred, Unresolved, cs
  <2>2. Preferred(cs, act) = Found(CHOOSE d \in cs : d.id = act)
    BY <1>3, <2>1 DEF Preferred
  <2>3. c \in cs /\ c.id = act
    BY <2>1, <2>2 DEF Found
  <2> HIDE DEF c
  <2> QED BY <2>3, CandidatesAnswer DEF Honoured, c, cs
<1> QED
  BY <1>2, <1>3

\* A chain that a reference is resolved to is a connected one, or the L1, and is what the
\* reference means.
LEMMA ResolveHonours ==
  ASSUME NEW g \in Configs, NEW ref, NEW act, NEW w \in BOOLEAN, Resolve(g, ref, act, w).ok
  PROVE  LET c == Resolve(g, ref, act, w).chain IN
         /\ c \in g \cup (IF w THEN {L1} ELSE {})
         /\ c = L1 \/ Honoured(c, ref, g, act)
<1> DEFINE all == g \cup (IF w THEN {L1} ELSE {})
           numeric == {c \in all : c.id # None /\ c.id = ref}
           exact == {c \in all : c.name = ref}
           r == Resolve(g, ref, act, w)
<1>0. IsFiniteSet(g)
  BY ChainAssumption
<1>1. CASE all = {}
  BY <1>1 DEF Resolve, Unresolved
<1>2. CASE all # {} /\ w /\ ref \in L1Aliases
  <2>1. r = Found(L1)
    BY <1>2 DEF Resolve
  <2>2. r.chain = L1
    BY <2>1 DEF Found
  <2>3. L1 \in g \cup (IF w THEN {L1} ELSE {})
    BY <1>2
  <2> HIDE DEF r
  <2> QED BY <2>2, <2>3 DEF r
<1>3. CASE all # {} /\ ~(w /\ ref \in L1Aliases) /\ numeric # {}
  <2>1. r = Found(CHOOSE c \in numeric : TRUE)
    BY <1>3 DEF Resolve
  <2>2. r.chain \in numeric
    BY <1>3, <2>1 DEF Found
  <2> QED BY <2>2 DEF Honoured
<1>4. CASE all # {} /\ ~(w /\ ref \in L1Aliases) /\ numeric = {} /\ Cardinality(exact) = 1
  <2>1. r = Found(CHOOSE c \in exact : TRUE)
    BY <1>4 DEF Resolve
  <2>2. IsFiniteSet(all)
    BY <1>0, FS_AddElement
  <2>3. IsFiniteSet(exact)
    BY <2>2, FS_Subset
  <2>4. exact # {}
    BY <1>4, <2>3, FS_EmptySet
  <2>5. r.chain \in exact
    BY <2>1, <2>4 DEF Found
  <2> QED BY <2>5 DEF Honoured
<1>5. CASE all # {} /\ ~(w /\ ref \in L1Aliases) /\ numeric = {} /\ Cardinality(exact) # 1
  <2> DEFINE p == Preferred(Candidates(g, ref), act)
  <2>1. r = IF Matched(ref) = {} THEN Unresolved("unknown")
            ELSE IF p.ok THEN p ELSE Unresolved(Why(g, ref))
    BY <1>5 DEF Resolve
  <2>2. p.ok /\ r = p
    BY <2>1 DEF Unresolved
  <2> QED BY <1>0, <2>2, PreferredAnswers
<1> QED
  BY <1>1, <1>2, <1>3, <1>4, <1>5

-----------------------------------------------------------------------------
(* Calls, each by itself *)

\* The state of a call is where it belongs.
Shape ==
  /\ DOMAIN ask = Calls /\ DOMAIN phase = Calls /\ DOMAIN chain = Calls /\ DOMAIN who = Calls
  /\ DOMAIN todo = Calls /\ DOMAIN units = Calls /\ DOMAIN rows = Calls /\ DOMAIN batch = Calls
  /\ DOMAIN began = Calls /\ DOMAIN answer = Calls
  /\ DOMAIN quantity = Calls /\ DOMAIN bridge = Calls /\ DOMAIN sent = Calls
  /\ DOMAIN asked = Calls

\* What a call was asked, and what it took as it began.
Kept(k) ==
  /\ ask'[k] = ask[k] /\ chain'[k] = chain[k] /\ who'[k] = who[k] /\ began'[k] = began[k]
  /\ units'[k] = units[k]
Unread(k) == todo'[k] = todo[k] /\ rows'[k] = rows[k] /\ batch'[k] = batch[k]
Unmoved(k) == quantity'[k] = quantity[k] /\ sent'[k] = sent[k]
Unasked(k) == asked'[k] = asked[k]
Same(k) ==
  /\ Kept(k) /\ Unread(k) /\ Unmoved(k) /\ Unasked(k)
  /\ phase'[k] = phase[k] /\ answer'[k] = answer[k]

\* A step of call k.
Acts(k) ==
  \/ QueryStep(k) /\ UNCHANGED <<transferVars, quoteVars>>
  \/ TransferStep(k) /\ UNCHANGED quoteVars
  \/ QuoteStep(k) /\ UNCHANGED transferVars

Around ==
  \/ (WorldChanges \/ Forget) /\ UNCHANGED <<transferVars, quoteVars>>
  \/ (RefreshPairs \/ \E i \in Ids : RefreshedPairs(i)) /\ UNCHANGED transferVars
  \/ \E r \in DOMAIN pairCache : ForgetPairs(r) /\ UNCHANGED transferVars
  \/ UNCHANGED vars

LEMMA NextIs == [Next]_vars => Around \/ \E k \in Calls : Acts(k)
BY DEF Next, Acts, Around

LEMMA AroundCalls == Around => UNCHANGED <<callVars, transferVars, asked>>
BY DEF Around, WorldChanges, Forget, RefreshPairs, RefreshedPairs, ForgetPairs, vars, quoteVars,
       callVars, transferVars

LEMMA InitShape == Init => Shape
BY DEF Init, CallInit, TransferInit, QuoteInit, Shape

\* A step of one call leaves the others as they are.
LEMMA Apart ==
  ASSUME Shape, NEW j \in Calls, Acts(j)
  PROVE  Shape' /\ \A k \in Calls \ {j} : Same(k)
<1> DEFINE Goal == Shape' /\ \A k \in Calls \ {j} : Same(k)
<1> USE DEF Shape, Same, Kept, Unread, Unmoved, Unasked, End, Begins, worldVars, cacheVars,
            callVars, transferVars, quoteVars
<1>1. ASSUME UNCHANGED <<transferVars, quoteVars>>, NEW q, Query(j, q) PROVE Goal
  BY <1>1 DEF Query, Reads, Served
<1>2. ASSUME UNCHANGED <<transferVars, quoteVars>>, NEW p, ReadRow(j, p) PROVE Goal
  BY <1>2 DEF ReadRow, Got
<1>3. ASSUME UNCHANGED <<transferVars, quoteVars>>, NEW i, ReadPage(j, i) PROVE Goal
  BY <1>3 DEF ReadPage, Got
<1>4. ASSUME UNCHANGED <<transferVars, quoteVars>>, Assemble(j) PROVE Goal
  BY <1>4 DEF Assemble
<1>5. ASSUME UNCHANGED <<transferVars, quoteVars>>, BatchEnds(j) PROVE Goal
  BY <1>5 DEF BatchEnds
<1>6. ASSUME UNCHANGED quoteVars, NEW q, Transfer(j, q) PROVE Goal
  BY <1>6 DEF Transfer
<1>7. ASSUME UNCHANGED quoteVars, CheckBalance(j) PROVE Goal
  BY <1>7 DEF CheckBalance
<1>8. ASSUME UNCHANGED quoteVars, Send(j) PROVE Goal
  BY <1>8 DEF Send
<1>9. ASSUME UNCHANGED quoteVars, SendFails(j) PROVE Goal
  BY <1>9 DEF SendFails
<1>10. ASSUME UNCHANGED transferVars, NEW q, GetPairs(j, q) PROVE Goal
  BY <1>10 DEF GetPairs
<1>11. ASSUME UNCHANGED transferVars, PairsArrive(j) PROVE Goal
  BY <1>11 DEF PairsArrive
<1>12. ASSUME UNCHANGED transferVars, NEW q, Quote(j, q) PROVE Goal
  BY <1>12 DEF Quote
<1>13. ASSUME UNCHANGED transferVars, ClobPairsArrive(j) PROVE Goal
  BY <1>13 DEF ClobPairsArrive
<1>14. ASSUME UNCHANGED transferVars, QuoteArrives(j) PROVE Goal
  BY <1>14 DEF QuoteArrives
<1> QED
  BY <1>1, <1>2, <1>3, <1>4, <1>5, <1>6, <1>7, <1>8, <1>9, <1>10, <1>11, <1>12, <1>13, <1>14
  DEF Acts, QueryStep, TransferStep, QuoteStep
-----------------------------------------------------------------------------
(* The invariant *)

\* A value as it is shown is a balance the account has had at the place.
Has(v, a, p) == \E raw \in had[a][p], d \in worth[p] : v = Shown(raw, d)

WorldTypes ==
  /\ config \in Configs /\ listing \in Listings /\ account \in Accounts
  /\ shelf \in Seq(Names)
  /\ ledger \in [Accounts -> [Places -> Nat]]
  /\ had \in [Accounts -> [Places -> SUBSET Nat]]
  /\ worth \in [Places -> SUBSET (0..Default)]
  /\ recent \in [Accounts -> [Places -> Nat \cup {None}]]

\* The history has the decimals there are.
WorthOK == \A p \in Places : RowDecimals(p) # None => RowDecimals(p) \in worth[p]

\* The history has every balance, and what is cached is one of it.
WorldOK ==
  /\ WorldTypes /\ WorthOK
  /\ \A a \in Accounts, p \in Places :
       /\ ledger[a][p] \in had[a][p]
       /\ recent[a][p] # None => Has(recent[a][p], a, p)

\* Nothing that was had or listed is forgotten.
Grows ==
  /\ \A a \in Accounts, p \in Places : had[a][p] \subseteq had'[a][p]
  /\ \A p \in Places : worth[p] \subseteq worth'[p]
  /\ Len(shelf) <= Len(shelf') /\ \A i \in 1..Len(shelf) : shelf'[i] = shelf[i]

Began(k) == phase[k] # "idle"
Rows == Queries \ {"pages"}
ReadsRows(k) == Began(k) /\ ask[k].kind \in Rows \cup {"transfer_portfolio"}

PhaseOK(k) ==
  /\ phase[k] \in Phases
  /\ phase[k] # "done" => answer[k] = None
  /\ phase[k] # "reading" => todo[k] = {}
  /\ phase[k] = "idle" =>
       /\ chain[k] = None /\ todo[k] = {} /\ rows[k] = <<>> /\ batch[k] = 0
       /\ sent[k] = None /\ asked[k] = None
  /\ phase[k] = "reading" => ask[k].kind \in Queries \cup {"transfer_portfolio"}
  /\ phase[k] = "sending" => ask[k].kind \in Moves
  /\ phase[k] \in {"pairing", "quoting"} => ask[k].kind = "quote"
  /\ phase[k] = "fetching" => ask[k].kind = "pairs"
  /\ sent[k] # None => phase[k] = "done" /\ ask[k].kind \in Moves
  /\ Began(k) /\ ask[k].kind \in Queries \cup Moves => who[k] \in Accounts

\* The rows read so far, and those that are still to be.
RowsOK(k) ==
  ReadsRows(k) =>
    /\ todo[k] \subseteq Places /\ DOMAIN rows[k] \subseteq Places
    /\ \A p \in GoodRows(k) : Has(rows[k][p].value, who[k], p)
    /\ ask[k].kind \in Wallets => \A p \in todo[k] :
         p \in DOMAIN units[k] /\ units[k][p] \in worth[p] \cup {None}

WholeOK(k) ==
  Began(k) /\ ask[k].kind \in Rows =>
    /\ phase[k] = "reading" =>
         IF ask[k].kind \in Lists THEN DOMAIN rows[k] \cup todo[k] = DOMAIN units[k]
         ELSE {p[2] : p \in DOMAIN rows[k] \cup todo[k]} = ask[k].tokens
    /\ phase[k] = "done" => Whole(k)

\* A page as it was read: a token of the contract's list, or past what there was as the
\* call began.
PageOK(k, i) ==
  \/ /\ rows[k][i].ok /\ {"ok", "token"} \subseteq DOMAIN rows[k][i]
     /\ i \in DOMAIN shelf /\ rows[k][i].token = shelf[i]
  \/ ~rows[k][i].ok /\ (rows[k][i].why = "empty" => i > began[k].pages)

UpTo(n) == IF n < PageCap THEN n ELSE PageCap

PagesWhole(k) ==
  answer[k].ok => \A i \in 1..began[k].pages : i <= PageCap => shelf[i] \in DOMAIN answer[k].rows

PagesOK(k) ==
  Began(k) /\ ask[k].kind = "pages" =>
    /\ began[k].pages \in 0..Len(shelf) /\ batch[k] \in Nat
    /\ phase[k] = "reading" =>
         /\ DOMAIN rows[k] \cup todo[k] = 1..UpTo(batch[k] + Batch)
         /\ \A i \in DOMAIN rows[k] : PageOK(k, i)
    /\ phase[k] = "done" => PagesWhole(k)

\* A transfer on its way, and what it is of.
Moving(k) == Began(k) /\ ask[k].kind \in Moves /\ (phase[k] = "done" => sent[k] # None)

MoveOK(k) ==
  Moving(k) =>
    /\ ask[k].amount \in Nat /\ quantity[k] \in Nat
    /\ DecimalsOf(k) # None /\ ~Miscounted(k) =>
         DecimalsOf(k) \in 0..Default /\ quantity[k] = ToBase(ask[k].amount, DecimalsOf(k))
    /\ ask[k].kind = "deposit" => chain[k].id = began[k].active
    /\ sent[k] # None => sent[k].quantity = quantity[k]

Pays(k) == <<Portfolio, ask[k].token>>

\* CoveredAsRead of a call, with its decimals d.
Covered(k, d) ==
  d \notin {None, 0} /\ worth[Pays(k)] \subseteq {d} =>
    \E raw \in had[who[k]][Pays(k)] : Shown(quantity[k], d) <= Shown(raw, d) + Slack

CoverOK(k) ==
  Moving(k) /\ ask[k].kind = "transfer_portfolio" =>
    /\ Pays(k) \in Places
    /\ phase[k] = "reading" => DOMAIN rows[k] \cup todo[k] = {Pays(k)}
    /\ phase[k] # "reading" => Covered(k, DecimalsOf(k))

AskedOK(k) ==
  asked[k] # None =>
    /\ {asked[k].pair[1], asked[k].pair[2]} = {ask[k].from, ask[k].to}
    /\ asked[k].isbase = 1 <=> asked[k].pair[1] = ask[k].from
    /\ asked[k].side = asked[k].isbase

MeantOK(k) ==
  chain[k] \notin {None, L1} =>
    Honoured(chain[k], IF ask[k].ref = None THEN chain[k].id ELSE ask[k].ref,
             began[k].config, began[k].active)

CallOK(k) ==
  /\ PhaseOK(k) /\ RowsOK(k) /\ WholeOK(k) /\ PagesOK(k)
  /\ MoveOK(k) /\ CoverOK(k) /\ AskedOK(k) /\ MeantOK(k)

\* What is kept is the success of a call that has ended.
KeptOK == \A j \in kept : j \in Calls /\ phase[j] = "done" /\ answer[j].ok

CallsInv == Shape /\ WorldOK /\ KeptOK /\ \A k \in Calls : CallOK(k)

\* The decimals of a row are those of a token.
LEMMA RowDecimalsOK ==
  config \in Configs /\ listing \in Listings =>
    \A p \in Places : RowDecimals(p) \in 0..Default \cup {None}
<1> SUFFICES ASSUME config \in Configs, listing \in Listings, NEW p \in Places
             PROVE  RowDecimals(p) \in 0..Default \cup {None}
  OBVIOUS
<1>1. ASSUME NEW t, NEW c \in AllChains
      PROVE  Decimals(t, c) \in 0..Default \cup {None}
  <2>1. t \in Tokens => listing[t][c] \in 0..Default \cup {None}
    BY ListingAssumption
  <2> QED BY <2>1 DEF Decimals
<1>2. ASSUME NEW t PROVE PortfolioDecimals(t) \in 0..Default \cup {None}
  <2>1. OwnChain # {} => (CHOOSE c \in OwnChain : TRUE) \in AllChains
    BY DEF OwnChain, AllChains
  <2>2. OnOwnChain(t) \in 0..Default \cup {None}
    BY <1>1, <2>1 DEF OnOwnChain
  <2>3. L1 \in AllChains
    BY DEF AllChains
  <2> QED BY <1>1, <2>2, <2>3 DEF PortfolioDecimals
<1>3. CASE p[1] = Portfolio
  <2>1. RowDecimals(p) = PortfolioDecimals(p[2])
    BY <1>3, ChainAssumption DEF RowDecimals
  <2> QED BY <1>2, <2>1
<1>4. CASE p[1] # Portfolio
  <2>1. p[1] \in AllChains
    BY <1>4 DEF Places, Where
  <2>2. CASE p[2] = p[1].native
    <3>1. RowDecimals(p) = Default
      BY <1>4, <2>1, <2>2 DEF RowDecimals
    <3> QED BY <3>1, UnitAssumption
  <2>3. CASE p[2] # p[1].native
    <3>1. RowDecimals(p) = IF p[1] = L1 THEN None ELSE Decimals(p[2], p[1])
      BY <1>4, <2>3 DEF RowDecimals
    <3> QED BY <1>1, <2>1, <3>1
  <2> QED BY <2>2, <2>3
<1> QED
  BY <1>3, <1>4

LEMMA RowDecimalsNext ==
  (config \in Configs /\ listing \in Listings =>
    \A p \in Places : RowDecimals(p) \in 0..Default \cup {None})'
BY RowDecimalsOK, PTL

LEMMA InitWorld == Init => WorldOK
<1> SUFFICES ASSUME Init PROVE WorldOK
  OBVIOUS
<1>1. account \in Accounts
  BY LedgerAssumption DEF Init, WorldInit
<1>2. ledger \in [Accounts -> [Places -> Nat]]
  BY LedgerAssumption DEF Init, WorldInit
<1>3. shelf \in Seq(Names)
  BY LedgerAssumption DEF Init, WorldInit
<1>4. had = [a \in Accounts |-> [p \in Places |-> {ledger[a][p]}]]
  BY DEF Init, WorldInit
<1>5. recent = [a \in Accounts |-> [p \in Places |-> None]]
  BY DEF Init, WorldInit, Fresh
<1>6. config \in Configs /\ listing \in Listings
  BY DEF Init, WorldInit
<1>7. worth = [p \in Places |-> {RowDecimals(p)} \ {None}]
  BY DEF Init, WorldInit
<1>8. worth \in [Places -> SUBSET (0..Default)] /\ WorthOK
  BY <1>6, <1>7, RowDecimalsOK DEF WorthOK
<1> QED
  BY <1>1, <1>2, <1>3, <1>4, <1>5, <1>6, <1>8 DEF WorldOK, WorldTypes

LEMMA InitCallsInv == Init => CallsInv
<1>0. Init => KeptOK
  BY DEF Init, WorldInit, KeptOK
<1> SUFFICES ASSUME Init, NEW k \in Calls PROVE CallOK(k)
  BY <1>0, InitShape, InitWorld DEF CallsInv
<1>1. /\ phase[k] = "idle" /\ chain[k] = None /\ todo[k] = {} /\ rows[k] = <<>> /\ batch[k] = 0
      /\ sent[k] = None /\ asked[k] = None /\ answer[k] = None
  BY DEF Init, CallInit, TransferInit, QuoteInit
<1> QED
  BY <1>1 DEF CallOK, PhaseOK, Phases, RowsOK, WholeOK, PagesOK, MoveOK, CoverOK, AskedOK,
              MeantOK, Began, ReadsRows, Moving

-----------------------------------------------------------------------------
(* A call while others act *)

\* What an account has had, it has had.
LEMMA HasStays ==
  ASSUME WorldTypes, Grows, NEW a \in Accounts, NEW p \in Places, NEW v, Has(v, a, p)
  PROVE  Has(v, a, p)'
<1>1. PICK raw \in had[a][p], d \in worth[p] : v = Shown(raw, d)
  BY DEF Has
<1>2. raw \in had'[a][p] /\ d \in worth'[p]
  BY <1>1 DEF Grows
<1> QED
  BY <1>1, <1>2 DEF Has, Shown

\* What is kept of a call that has begun stays true of it while it reads nothing.
LEMMA RowsStay ==
  ASSUME WorldTypes, Grows, NEW k \in Calls, PhaseOK(k), RowsOK(k), Began(k), Kept(k),
         todo'[k] \subseteq todo[k], rows'[k] = rows[k], ReadsRows(k)
  PROVE  RowsOK(k)'
<1>1. who[k] \in Accounts
  BY DEF PhaseOK, Began, ReadsRows, Rows, Moves
<1>2. GoodRows(k)' = GoodRows(k) /\ GoodRows(k) \subseteq Places
  BY DEF RowsOK, GoodRows
<1>4. \A p \in todo[k] : p \in Places /\ worth[p] \subseteq worth'[p]
  BY DEF RowsOK, Grows
<1>3. ASSUME NEW p \in GoodRows(k) PROVE Has(rows[k][p].value, who[k], p)'
  <2>1. PICK v : v = rows[k][p].value
    OBVIOUS
  <2>2. PICK a \in Accounts : a = who[k]
    BY <1>1
  <2>3. Has(v, a, p) /\ p \in Places
    BY <1>2, <2>1, <2>2 DEF RowsOK
  <2>4. Has(v, a, p)'
    BY <2>3, HasStays
  <2>5. rows'[k][p].value = v /\ who'[k] = a
    BY <2>1, <2>2 DEF Kept
  <2> QED BY <2>4, <2>5 DEF Has
<1> QED
  BY <1>2, <1>3, <1>4 DEF RowsOK, Kept

\* While the world only grows, a call is not disturbed by what it takes no part in.
LEMMA Undisturbed ==
  ASSUME WorldTypes, WorldTypes', Grows, NEW k \in Calls, CallOK(k), Same(k)
  PROVE  CallOK(k)'
<1> USE DEF Same, Kept, Unread, Unmoved, Unasked, CallOK
<1>1. PhaseOK(k)' /\ AskedOK(k)'
  BY DEF PhaseOK, Began, AskedOK
<1>7. MeantOK(k)'
  BY DEF MeantOK
<1>2. RowsOK(k)'
  <2>1. CASE ReadsRows(k)
    BY <2>1, RowsStay DEF ReadsRows
  <2>2. CASE ~ReadsRows(k)
    BY <2>2 DEF ReadsRows, RowsOK, Began
  <2> QED BY <2>1, <2>2
<1>3. WholeOK(k)'
  BY DEF WholeOK, Whole, Began
<1>4. PagesOK(k)'
  <2> SUFFICES ASSUME Began(k), ask[k].kind = "pages" PROVE PagesOK(k)'
    BY DEF PagesOK, Began
  <2>1. Len(shelf) \in Nat /\ Len(shelf') \in Nat /\ Len(shelf) <= Len(shelf')
        /\ DOMAIN shelf = 1..Len(shelf) /\ DOMAIN shelf' = 1..Len(shelf')
    BY DEF WorldTypes, Grows
  <2>2. \A i \in DOMAIN rows[k] : PageOK(k, i) => PageOK(k, i)'
    BY <2>1 DEF PageOK, Grows
  <2>3. PagesWhole(k) => PagesWhole(k)'
    BY <2>1 DEF PagesWhole, Grows, PagesOK
  <2> QED BY <2>1, <2>2, <2>3 DEF PagesOK, UpTo, Began
<1>5. MoveOK(k)'
  BY DEF MoveOK, Moving, Began, DecimalsOf, Miscounted, ToBase
<1>6. CoverOK(k)'
  <2> SUFFICES ASSUME Moving(k), ask[k].kind = "transfer_portfolio" PROVE CoverOK(k)'
    BY DEF CoverOK, Moving, Began
  <2>1. DecimalsOf(k)' = DecimalsOf(k) /\ Pays(k)' = Pays(k)
    BY DEF DecimalsOf, Pays
  <2>2. who[k] \in Accounts /\ Pays(k) \in Places
    BY DEF PhaseOK, Began, Moving, CoverOK
  <2>3. /\ had[who[k]][Pays(k)] \subseteq had'[who[k]][Pays(k)]
        /\ worth[Pays(k)] \subseteq worth'[Pays(k)]
    BY <2>2 DEF Grows
  <2>4. Covered(k, DecimalsOf(k)) => Covered(k, DecimalsOf(k))'
    BY <2>1, <2>3 DEF Covered, Shown
  <2> QED BY <2>1, <2>2, <2>4 DEF CoverOK, Moving, Began
<1> QED
  BY <1>1, <1>2, <1>3, <1>4, <1>5, <1>6, <1>7

-----------------------------------------------------------------------------
(* The world *)

LEMMA ShownIsNat ==
  ASSUME NEW raw \in Nat, NEW d \in 0..Default
  PROVE  Shown(raw, d) \in Nat
<1>1. Unit[d] \in Nat
  BY UnitAssumption
<1> QED
  BY <1>1 DEF Shown

\* The decimals there are change with the chains and the listings alone.
LEMMA WorthStays ==
  ASSUME WorthOK, UNCHANGED <<config, active, listing, worth>>
  PROVE  WorthOK'
BY DEF WorthOK, RowDecimals, PortfolioDecimals, Decimals, OnOwnChain, OwnChain

LEMMA Unchanged ==
  ASSUME WorldOK,
         UNCHANGED <<config, active, listing, account, ledger, shelf, had, worth, recent>>
  PROVE  WorldOK' /\ Grows
<1>1. WorldTypes' /\ Grows
  BY DEF WorldOK, WorldTypes, Grows
<1>2. ASSUME NEW a \in Accounts, NEW p \in Places, recent'[a][p] # None
      PROVE  Has(recent[a][p], a, p)'
  <2>1. Has(recent[a][p], a, p)
    BY <1>2 DEF WorldOK
  <2> QED BY <2>1 DEF Has, Shown
<1>3. WorthOK'
  BY WorthStays DEF WorldOK
<1> QED
  BY <1>1, <1>2, <1>3 DEF WorldOK

\* What is cached stays a balance the account has had, while the history grows.
LEMMA CacheStays ==
  ASSUME WorldOK, WorldTypes', WorthOK', Grows, recent' = recent,
         \A a \in Accounts, p \in Places : ledger'[a][p] \in had'[a][p]
  PROVE  WorldOK'
<1>1. ASSUME NEW a \in Accounts, NEW p \in Places, recent'[a][p] # None
      PROVE  Has(recent[a][p], a, p)'
  <2>1. PICK v : v = recent[a][p]
    OBVIOUS
  <2>2. Has(v, a, p)
    BY <1>1, <2>1 DEF WorldOK
  <2>3. Has(v, a, p)'
    BY <2>2, HasStays DEF WorldOK
  <2> QED BY <2>1, <2>3 DEF Has
<1> QED
  BY <1>1 DEF WorldOK

LEMMA WorldChangesKeeps ==
  ASSUME WorldOK, WorldChanges
  PROVE  WorldOK' /\ Grows
<1> DEFINE Goal == WorldOK' /\ Grows
<1>1. recent' = recent /\ worth' = [p \in Places |-> worth[p] \cup ({RowDecimals(p)'} \ {None})]
  BY DEF WorldChanges, cacheVars
<1>2. ASSUME config' \in Configs, listing' \in Listings
      PROVE  /\ worth' \in [Places -> SUBSET (0..Default)] /\ WorthOK'
             /\ \A p \in Places : worth[p] \subseteq worth'[p]
  <2>1. \A p \in Places : RowDecimals(p)' \in 0..Default \cup {None}
    BY <1>2, RowDecimalsNext
  <2> QED BY <1>1, <2>1 DEF WorthOK, WorldOK, WorldTypes
<1>3. CASE ChainsFetched \/ TokensFetched
  <2>1. config' \in Configs /\ listing' \in Listings /\ UNCHANGED <<account, ledger, shelf, had>>
    BY <1>3 DEF ChainsFetched, TokensFetched, WorldOK, WorldTypes
  <2>2. WorldTypes' /\ WorthOK' /\ Grows
    BY <1>1, <1>2, <2>1 DEF WorldOK, WorldTypes, Grows
  <2> QED BY <1>1, <2>1, <2>2, CacheStays DEF WorldOK
<1>4. CASE SignerReplaced
  <2>1. account' \in Accounts /\ UNCHANGED <<config, listing, ledger, shelf, had>>
    BY <1>4 DEF SignerReplaced
  <2>2. WorldTypes' /\ WorthOK' /\ Grows
    BY <1>1, <1>2, <2>1 DEF WorldOK, WorldTypes, Grows
  <2> QED BY <1>1, <2>1, <2>2, CacheStays DEF WorldOK
<1>5. ASSUME NEW m \in Moved,
             ledger' = [ledger EXCEPT ![m[1]][m[2]] = 0],
             had' = [had EXCEPT ![m[1]][m[2]] = @ \cup {0}],
             UNCHANGED <<config, listing, account, shelf>>
      PROVE  Goal
  <2>1. m[1] \in Accounts /\ m[2] \in Places
    BY LedgerAssumption
  <2>2. /\ ledger' \in [Accounts -> [Places -> Nat]]
        /\ had' \in [Accounts -> [Places -> SUBSET Nat]]
    BY <1>5, <2>1 DEF WorldOK, WorldTypes
  <2>3. \A a \in Accounts, p \in Places :
          had[a][p] \subseteq had'[a][p] /\ ledger'[a][p] \in had'[a][p]
    BY <1>5, <2>1 DEF WorldOK, WorldTypes
  <2>4. WorldTypes' /\ WorthOK' /\ Grows
    BY <1>1, <1>2, <1>5, <2>2, <2>3 DEF WorldOK, WorldTypes, Grows
  <2> QED BY <1>1, <2>3, <2>4, CacheStays
<1>6. ASSUME NEW t \in Tokens, shelf' = Append(shelf, t),
             UNCHANGED <<config, listing, account, ledger, had>>
      PROVE  Goal
  <2>1. /\ shelf' \in Seq(Names) /\ Len(shelf) <= Len(shelf')
        /\ \A i \in 1..Len(shelf) : shelf'[i] = shelf[i]
    <3>1. t \in Names /\ shelf \in Seq(Names)
      BY DEF Names, WorldOK, WorldTypes
    <3> QED BY <1>6, <3>1
  <2>2. WorldTypes' /\ WorthOK' /\ Grows
    BY <1>1, <1>2, <1>6, <2>1 DEF WorldOK, WorldTypes, Grows
  <2> QED BY <1>1, <1>6, <2>2, CacheStays DEF WorldOK
<1> QED
  BY <1>3, <1>4, <1>5, <1>6 DEF WorldChanges, BalanceMoves, ContractLists

LEMMA ForgetKeeps ==
  ASSUME WorldOK, Forget
  PROVE  WorldOK' /\ Grows
<1>1. UNCHANGED <<config, active, listing, account, ledger, shelf, had, worth>>
  BY DEF Forget, worldVars
<1>2. CASE recent' = recent
  BY <1>1, <1>2, Unchanged
<1>3. ASSUME NEW b \in Accounts, NEW q \in Places, recent' = [recent EXCEPT ![b][q] = None]
      PROVE  WorldOK' /\ Grows
  <2>1. /\ recent' \in [Accounts -> [Places -> Nat \cup {None}]]
        /\ \A a \in Accounts, p \in Places : recent'[a][p] \in {recent[a][p], None}
    BY <1>3 DEF WorldOK, WorldTypes
  <2>2. WorldTypes' /\ Grows
    BY <1>1, <2>1 DEF WorldOK, WorldTypes, Grows
  <2>3. ASSUME NEW a \in Accounts, NEW p \in Places, recent'[a][p] # None
        PROVE  Has(recent[a][p], a, p)'
    <3>1. recent'[a][p] = recent[a][p] /\ Has(recent[a][p], a, p)
      BY <2>1, <2>3 DEF WorldOK
    <3> QED BY <1>1, <3>1 DEF Has, Shown
  <2>4. WorthOK'
    BY <1>1, WorthStays DEF WorldOK
  <2> QED BY <1>1, <2>2, <2>3, <2>4 DEF WorldOK
<1> QED
  BY <1>2, <1>3 DEF Forget

LEMMA AroundKeeps ==
  ASSUME WorldOK, Around
  PROVE  WorldOK' /\ Grows
<1>1. ASSUME UNCHANGED <<config, active, listing, account, ledger, shelf, had, worth, recent>>
      PROVE  WorldOK' /\ Grows
  BY <1>1, Unchanged
<1> QED
  BY <1>1, WorldChangesKeeps, ForgetKeeps
  DEF Around, RefreshPairs, RefreshedPairs, ForgetPairs, worldVars, cacheVars, vars

\* The decimals of the row a call reads, its units if it took them as it began.
RowUnit(k, p) == IF ask[k].kind \in Wallets THEN units[k][p] ELSE RowDecimals(p)

LEMMA RowUnitOK ==
  ASSUME WorldOK, NEW k \in Calls, RowsOK(k), ReadsRows(k), NEW p \in todo[k]
  PROVE  RowUnit(k, p) \in worth[p] \cup {None}
<1>1. p \in Places
  BY DEF RowsOK
<1>2. CASE ask[k].kind \in Wallets
  BY <1>2 DEF RowUnit, RowsOK
<1>3. CASE ask[k].kind \notin Wallets
  BY <1>1, <1>3 DEF RowUnit, WorldOK, WorthOK
<1> QED
  BY <1>2, <1>3

\* What a row is read as is a balance the account has had; the cache keeps no other.
LEMMA ReadRowKeeps ==
  ASSUME WorldOK, NEW k \in Calls, CallOK(k), NEW p, ReadRow(k, p)
  PROVE  /\ WorldOK' /\ Grows /\ p \in Places /\ who[k] \in Accounts
         /\ \E row : /\ Got(k, p, row)
                     /\ \/ row.ok /\ Has(row.value, who[k], p)'
                        \/ ~row.ok
<1>0. /\ phase[k] = "reading" /\ p \in todo[k] /\ ReadsRows(k)
      /\ UNCHANGED <<config, active, listing, account, ledger, shelf, changes, had, worth>>
      /\ UNCHANGED <<ask, who>>
  BY DEF ReadRow, CallOK, PhaseOK, ReadsRows, Began, Rows, worldVars
<1>1. who[k] \in Accounts /\ p \in Places
  BY <1>0 DEF CallOK, PhaseOK, RowsOK, ReadsRows, Began, Rows, Moves
<1> DEFINE cached == IF ByCache(ask[k]) THEN Cached(k, p) ELSE None
           d == RowUnit(k, p)
           v == Shown(ledger[who[k]][p], d)
<1>2. ASSUME NEW w, Has(w, who[k], p)
      PROVE  Has(w, who[k], p)'
  BY <1>0, <1>2 DEF Has, Shown
<1>3. CASE cached # None /\ Got(k, p, Row(cached)) /\ UNCHANGED recent
  <2>1. Has(cached, who[k], p)
    BY <1>1, <1>3 DEF WorldOK, Cached
  <2>2. PICK w : w = cached
    OBVIOUS
  <2>3. Has(w, who[k], p)'
    BY <1>2, <2>1, <2>2
  <2>4. Row(w).ok /\ Row(w).value = w /\ Got(k, p, Row(w))
    BY <1>3, <2>2 DEF Row
  <2>5. WorldOK' /\ Grows
    BY <1>0, <1>3, Unchanged
  <2> QED BY <1>1, <2>3, <2>4, <2>5
<1>4. CASE d # None /\ Got(k, p, Row(v))
           /\ recent' = IF ByCache(ask[k]) THEN [recent EXCEPT ![who[k]][p] = v] ELSE recent
  <2>1. d \in worth[p] /\ d \in 0..Default
    <3>1. d \in worth[p]
      BY <1>0, <1>4, RowUnitOK DEF CallOK
    <3> QED BY <1>1, <3>1 DEF WorldOK, WorldTypes
  <2>2. ledger[who[k]][p] \in had[who[k]][p] /\ ledger[who[k]][p] \in Nat
    BY <1>1 DEF WorldOK, WorldTypes
  <2> HIDE DEF d
  <2>3. Has(v, who[k], p) /\ v \in Nat
    BY <2>1, <2>2, ShownIsNat DEF Has
  <2>4. PICK w : w = v
    OBVIOUS
  <2>5. Has(w, who[k], p)'
    BY <1>2, <2>3, <2>4
  <2>6. Row(w).ok /\ Row(w).value = w /\ Got(k, p, Row(w))
    BY <1>4, <2>4 DEF Row
  <2>7. recent' \in [Accounts -> [Places -> Nat \cup {None}]]
        /\ \A a \in Accounts, q \in Places :
             recent'[a][q] = recent[a][q] \/ (a = who[k] /\ q = p /\ recent'[a][q] = w)
    BY <1>1, <1>4, <2>3, <2>4 DEF WorldOK, WorldTypes
  <2>8. WorldTypes' /\ Grows
    BY <1>0, <2>7 DEF WorldOK, WorldTypes, Grows
  <2>9. ASSUME NEW a \in Accounts, NEW q \in Places, recent'[a][q] # None
        PROVE  Has(recent[a][q], a, q)'
    <3>1. CASE recent'[a][q] = recent[a][q]
      <4>1. Has(recent[a][q], a, q)
        BY <2>9, <3>1 DEF WorldOK
      <4> QED BY <1>0, <3>1, <4>1 DEF Has, Shown
    <3>2. CASE a = who[k] /\ q = p /\ recent'[a][q] = w
      BY <1>0, <2>5, <3>2 DEF Has
    <3> QED BY <2>7, <3>1, <3>2
  <2>10. WorldOK'
    BY <1>0, <2>8, <2>9, WorthStays DEF WorldOK
  <2> QED BY <1>1, <2>5, <2>6, <2>8, <2>10
<1>5. CASE \E why \in {"unknown", "failed"} : Got(k, p, Missing(why)) /\ UNCHANGED recent
  <2>1. WorldOK' /\ Grows
    BY <1>0, <1>5, Unchanged
  <2> QED BY <1>1, <1>5, <2>1 DEF Missing
<1> QED
  BY <1>3, <1>4, <1>5 DEF ReadRow, RowUnit

LEMMA SendKeeps ==
  ASSUME WorldOK, NEW k \in Calls, CallOK(k), Send(k)
  PROVE  WorldOK' /\ Grows
<1>1. quantity[k] \in Nat
  BY DEF Send, CallOK, PhaseOK, MoveOK, Moving, Began
<1>2. UNCHANGED <<config, active, listing, account, shelf, recent, worth>>
  BY DEF Send, cacheVars
<1>3. ledger' \in [Accounts -> [Places -> Nat]]
  <2> DEFINE out(a, p) == IF a = account /\ p = Source(k) THEN quantity[k] ELSE 0
             in(a, p) == IF Credited(k, a, p) THEN quantity[k] ELSE 0
  <2>1. \/ ledger' = ledger
        \/ /\ ledger[account][Source(k)] >= quantity[k]
           /\ ledger' = [a \in Accounts |-> [p \in Places |-> ledger[a][p] - out(a, p) + in(a, p)]]
    BY DEF Send
  <2>2. CASE ledger' = ledger
    BY <2>2 DEF WorldOK, WorldTypes
  <2>3. CASE ledger[account][Source(k)] >= quantity[k]
    <3>1. \A a \in Accounts, p \in Places :
            /\ ledger[a][p] \in Nat /\ out(a, p) \in Nat /\ in(a, p) \in Nat
            /\ ledger[a][p] >= out(a, p)
      BY <1>1, <2>3 DEF WorldOK, WorldTypes
    <3> HIDE DEF out, in
    <3>2. \A a \in Accounts, p \in Places : ledger[a][p] - out(a, p) + in(a, p) \in Nat
      BY <3>1
    <3> QED BY <2>1, <2>2, <3>2
  <2> QED BY <2>1, <2>2, <2>3
<1>4. had' = [a \in Accounts |-> [p \in Places |-> had[a][p] \cup {ledger'[a][p]}]]
  BY DEF Send
<1>5. /\ had' \in [Accounts -> [Places -> SUBSET Nat]]
      /\ \A a \in Accounts, p \in Places :
           had[a][p] \subseteq had'[a][p] /\ ledger'[a][p] \in had'[a][p]
  BY <1>3, <1>4 DEF WorldOK, WorldTypes
<1>6. WorldTypes' /\ WorthOK' /\ Grows
  BY <1>2, <1>3, <1>5, WorthStays DEF WorldOK, WorldTypes, Grows
<1> QED
  BY <1>2, <1>5, <1>6, CacheStays

LEMMA ActsKeep ==
  ASSUME WorldOK, NEW k \in Calls, CallOK(k), Acts(k)
  PROVE  WorldOK' /\ Grows
<1>1. CASE UNCHANGED <<worldVars, recent>>
  BY <1>1, Unchanged DEF worldVars
<1>2. CASE QueryStep(k)
  <2>1. CASE \E p \in todo[k] : ReadRow(k, p)
    BY <2>1, ReadRowKeeps
  <2>2. CASE ~\E p \in todo[k] : ReadRow(k, p)
    <3>1. UNCHANGED <<worldVars, recent>>
      BY <1>2, <2>2 DEF QueryStep, Query, ReadPage, Assemble, BatchEnds, cacheVars
    <3> QED BY <1>1, <3>1
  <2> QED BY <2>1, <2>2
<1>3. CASE TransferStep(k)
  <2>1. CASE Send(k)
    BY <2>1, SendKeeps
  <2>2. CASE ~Send(k)
    <3>1. UNCHANGED <<worldVars, recent>>
      BY <1>3, <2>2 DEF TransferStep, Transfer, CheckBalance, SendFails, cacheVars
    <3> QED BY <1>1, <3>1
  <2> QED BY <2>1, <2>2
<1>4. CASE QuoteStep(k)
  <2>1. UNCHANGED <<worldVars, recent>>
    BY <1>4 DEF QuoteStep, GetPairs, PairsArrive, Quote, ClobPairsArrive, QuoteArrives, cacheVars
  <2> QED BY <1>1, <2>1
<1> QED
  BY <1>2, <1>3, <1>4 DEF Acts

\* What is kept is an answer, and an answer is never changed.
LEMMA KeptKeeps ==
  ASSUME Shape, KeptOK, NEW k \in Calls, PhaseOK(k), Acts(k)
  PROVE  KeptOK'
<1>1. \A j \in Calls \ {k} : phase'[j] = phase[j] /\ answer'[j] = answer[j]
  BY Apart DEF Same
<1>2. phase[k] # "done"
  <2>1. QueryStep(k) => phase[k] \in {"idle", "reading"}
    BY DEF QueryStep, Query, ReadRow, ReadPage, Assemble, BatchEnds
  <2>2. TransferStep(k) => phase[k] \in {"idle", "reading", "sending"}
    BY DEF TransferStep, Transfer, CheckBalance, Send, SendFails
  <2>3. QuoteStep(k) => phase[k] \in {"idle", "fetching", "pairing", "quoting"}
    BY DEF QuoteStep, GetPairs, Quote, PairsArrive, ClobPairsArrive, QuoteArrives
  <2> QED BY <2>1, <2>2, <2>3 DEF Acts
<1>3. \/ kept' = kept
      \/ kept' = kept \cup {k} /\ phase'[k] = "done" /\ answer'[k].ok
  <2>1. CASE Assemble(k)
    <3>1. PICK a : End(k, a) /\ Keeps(k, a)
      BY <2>1 DEF Assemble
    <3> QED BY <3>1 DEF Keeps, End, Shape
  <2>2. CASE BatchEnds(k)
    <3>1. CASE kept' = kept
      BY <3>1
    <3>2. CASE kept' # kept
      <4>1. PICK a : End(k, a) /\ kept' = kept \cup {k} /\ a.ok
        BY <2>2, <3>2 DEF BatchEnds
      <4> QED BY <4>1 DEF End, Shape
    <3> QED BY <3>1, <3>2
  <2>3. CASE QueryStep(k) /\ ~Assemble(k) /\ ~BatchEnds(k)
    BY <2>3 DEF QueryStep, Query, ReadRow, ReadPage, cacheVars
  <2>4. CASE TransferStep(k)
    BY <2>4 DEF TransferStep, Transfer, CheckBalance, Send, SendFails, cacheVars
  <2>5. CASE QuoteStep(k)
    BY <2>5 DEF QuoteStep, GetPairs, Quote, PairsArrive, ClobPairsArrive, QuoteArrives, cacheVars
  <2> QED BY <2>1, <2>2, <2>3, <2>4, <2>5 DEF Acts
<1> QED
  BY <1>1, <1>2, <1>3 DEF KeptOK

-----------------------------------------------------------------------------
(* A call begins *)

\* What a call finds as it begins.
LEMMA IdleIs ==
  ASSUME NEW k \in Calls, CallOK(k), phase[k] = "idle"
  PROVE  /\ chain[k] = None /\ todo[k] = {} /\ rows[k] = <<>> /\ batch[k] = 0
         /\ sent[k] = None /\ asked[k] = None /\ answer[k] = None
BY DEF CallOK, PhaseOK

LEMMA OwnerIs ==
  ASSUME WorldTypes, NEW k \in Calls, NEW q \in Requests[k]
  PROVE  Owner(q) \in Accounts
BY RequestAssumption DEF Owner, WorldTypes

LEMMA WalletRowsIn ==
  ASSUME NEW c \in AllChains
  PROVE  WalletRows(c) \subseteq Places
<1>1. c.native \in Names /\ "ALOT" \in Names /\ c # Portfolio /\ c \in Where
  <2>1. L1 \in AllChains
    BY DEF AllChains
  <2> QED BY <2>1, ChainAssumption DEF Names, Where
<1>2. CASE c = L1
  BY <1>1, <1>2 DEF WalletRows, Places
<1>3. CASE c # L1
  <2>1. \A t \in Tokens : t \in Names
    BY DEF Names
  <2> QED BY <1>1, <1>3, <2>1 DEF WalletRows, Places
<1> QED
  BY <1>2, <1>3

\* The tokens of the rows of one place.
LEMMA Column ==
  ASSUME NEW x, NEW T, NEW S, \A p \in S : \E t \in T : p = <<x, t>>, \A t \in T : <<x, t>> \in S
  PROVE  {p[2] : p \in S} = T
<1>1. \A p \in S : p[2] \in T
  OBVIOUS
<1>2. \A t \in T : <<x, t>> \in S /\ <<x, t>>[2] = t
  OBVIOUS
<1> QED
  BY <1>1, <1>2

LEMMA RowsOfIn ==
  ASSUME WorldTypes, NEW k \in Calls, NEW q \in Requests[k], q.kind \in Rows, NEW c,
         q.kind \in OfAChain => c \in AllChains
  PROVE  /\ RowsOf(q, c) \subseteq Places
         /\ q.kind \notin Lists => {p[2] : p \in RowsOf(q, c)} = q.tokens
<1>1. q.tokens \subseteq Names
  BY RequestAssumption
<1>2. CASE q.kind \in {"token", "tokens"}
  <2>1. RowsOf(q, c) = {<<c, t>> : t \in q.tokens}
    BY <1>2 DEF RowsOf
  <2>2. c \in Where /\ q.kind \notin Lists
    BY <1>2 DEF OfAChain, Where, Lists
  <2>3. RowsOf(q, c) \subseteq Places
    BY <1>1, <2>1, <2>2 DEF Places
  <2>4. /\ \A p \in RowsOf(q, c) : \E t \in q.tokens : p = <<c, t>>
        /\ \A t \in q.tokens : <<c, t>> \in RowsOf(q, c)
    BY <2>1
  <2>5. {p[2] : p \in RowsOf(q, c)} = q.tokens
    BY <2>4, Column
  <2> QED BY <2>2, <2>3, <2>5
<1>3. CASE q.kind = "chain"
  <2>1. RowsOf(q, c) = WalletRows(c)
    BY <1>3 DEF RowsOf
  <2> QED BY <1>3, <2>1, WalletRowsIn DEF OfAChain, Lists
<1>4. CASE q.kind = "all"
  <2>1. RowsOf(q, c) = UNION {WalletRows(d) : d \in config \cup {L1}}
    BY <1>4 DEF RowsOf
  <2>2. config \cup {L1} \subseteq AllChains
    BY DEF WorldTypes, AllChains
  <2>3. \A p \in RowsOf(q, c) : \E d \in AllChains : p \in WalletRows(d)
    BY <2>1, <2>2
  <2> QED BY <1>4, <2>3, WalletRowsIn DEF Lists
<1>5. CASE q.kind = "portfolio"
  <2>1. RowsOf(q, c) = {<<Portfolio, t>> : t \in q.tokens}
    BY <1>5 DEF RowsOf
  <2>2. Portfolio \in Where /\ q.kind \notin Lists
    BY <1>5 DEF Where, Lists
  <2>3. RowsOf(q, c) \subseteq Places
    BY <1>1, <2>1, <2>2 DEF Places
  <2>4. /\ \A p \in RowsOf(q, c) : \E t \in q.tokens : p = <<Portfolio, t>>
        /\ \A t \in q.tokens : <<Portfolio, t>> \in RowsOf(q, c)
    BY <2>1
  <2>5. {p[2] : p \in RowsOf(q, c)} = q.tokens
    BY <2>4, Column
  <2> QED BY <2>2, <2>3, <2>5
<1> QED
  BY <1>2, <1>3, <1>4, <1>5 DEF Rows, Queries

LEMMA PagesOf ==
  ASSUME NEW q, q.kind = "pages", NEW c
  PROVE  RowsOf(q, c) = 1..UpTo(Batch)
BY DEF RowsOf, UpTo

\* The chain a call ends up with is what its reference means.
LEMMA MeantAtFirst ==
  ASSUME WorldTypes, NEW k \in Calls, NEW ref, NEW w \in BOOLEAN,
         Resolve(config, ref, active, w).ok,
         chain'[k] = Resolve(config, ref, active, w).chain,
         ask'[k].ref = ref \/ ask'[k].ref = None,
         began'[k].config = config /\ began'[k].active = active
  PROVE  MeantOK(k)'
<1> DEFINE c == Resolve(config, ref, active, w).chain
<1>1. c = L1 \/ Honoured(c, ref, config, active)
  BY ResolveHonours DEF WorldTypes
<1> HIDE DEF c
<1>2. chain'[k] = c
  BY DEF c
<1> QED
  BY <1>1, <1>2 DEF MeantOK, Honoured

\* What a call is when it begins, whatever it finds.
LEMMA QueryBegins ==
  ASSUME Shape, NEW k \in Calls, CallOK(k), NEW q \in Requests[k], Query(k, q),
         UNCHANGED <<transferVars, quoteVars>>
  PROVE  /\ ask'[k] = q /\ who'[k] = Owner(q) /\ q.kind \in Queries
         /\ began'[k].config = config /\ began'[k].active = active
         /\ chain'[k] \in {None, Resolve(config, q.ref, active, TRUE).chain}
         /\ chain'[k] # None => Resolve(config, q.ref, active, TRUE).ok
         /\ batch'[k] = 0 /\ sent'[k] = None /\ asked'[k] = None /\ quantity'[k] = quantity[k]
         /\ shelf' = shelf
<1>1. batch[k] = 0 /\ sent[k] = None /\ asked[k] = None
  BY IdleIs DEF Query
<1>2. batch'[k] = 0 /\ sent'[k] = None /\ asked'[k] = None /\ quantity'[k] = quantity[k]
      /\ shelf' = shelf
  BY <1>1 DEF Query, transferVars, quoteVars, worldVars
<1>3. began'[k].config = config /\ began'[k].active = active
  <2>1. PICK n : Begins(k, n)
    BY DEF Query, Served, Reads
  <2> QED BY <2>1 DEF Begins, Shape
<1>4. /\ ask'[k] = q /\ who'[k] = Owner(q) /\ q.kind \in Queries
      /\ chain'[k] \in {None, Resolve(config, q.ref, active, TRUE).chain}
      /\ chain'[k] # None => Resolve(config, q.ref, active, TRUE).ok
  BY DEF Query, Shape
<1> QED
  BY <1>2, <1>3, <1>4

\* ... what of it does not depend on what it finds,
LEMMA QueryMeans ==
  ASSUME Shape, WorldOK, NEW k \in Calls, CallOK(k), NEW q \in Requests[k], Query(k, q),
         UNCHANGED <<transferVars, quoteVars>>
  PROVE  AskedOK(k)' /\ MoveOK(k)' /\ CoverOK(k)' /\ MeantOK(k)'
<1>1. AskedOK(k)' /\ MoveOK(k)' /\ CoverOK(k)'
  BY QueryBegins DEF AskedOK, MoveOK, CoverOK, Moving, Queries, Moves
<1>2. MeantOK(k)'
  <2>1. CASE chain'[k] = None
    BY <2>1 DEF MeantOK
  <2>2. CASE chain'[k] # None
    <3>1. /\ Resolve(config, q.ref, active, TRUE).ok
          /\ chain'[k] = Resolve(config, q.ref, active, TRUE).chain
      BY <2>2, QueryBegins
    <3>2. ask'[k].ref = q.ref /\ began'[k].config = config /\ began'[k].active = active
      BY QueryBegins
    <3> QED BY <3>1, <3>2, MeantAtFirst DEF WorldOK
  <2> QED BY <2>1, <2>2
<1> QED
  BY <1>1, <1>2

\* ... the end of a call whose chain is not found,
LEMMA QueryFails ==
  ASSUME NEW k \in Calls, NEW q, ask'[k] = q, q.kind \in OfAChain, who'[k] \in Accounts,
         chain'[k] = None, todo'[k] = {}, rows'[k] = <<>>, batch'[k] = 0, sent'[k] = None,
         asked'[k] = None, phase'[k] = "done", answer'[k] = Failed
  PROVE  PhaseOK(k)' /\ RowsOK(k)' /\ WholeOK(k)' /\ PagesOK(k)'
<1>1. PhaseOK(k)'
  BY DEF PhaseOK, Phases, Began
<1>2. RowsOK(k)'
  BY DEF RowsOK, GoodRows
<1>3. WholeOK(k)'
  <2>1. DOMAIN rows'[k] = {}
    OBVIOUS
  <2> QED BY <2>1 DEF WholeOK, Whole, Failed
<1>4. PagesOK(k)'
  BY DEF PagesOK, OfAChain
<1> QED
  BY <1>1, <1>2, <1>3, <1>4

\* ... or of one that is served as an earlier call was: the same was asked, for the same
\* account,
LEMMA QueryServed ==
  ASSUME Shape, WorldOK, NEW k \in Calls, NEW j \in Calls, CallOK(j),
         phase[j] = "done", answer[j].ok,
         ask'[k].kind = ask[j].kind, ask'[k].tokens = ask[j].tokens, who'[k] = who[j],
         ask'[k].kind \in Queries, who'[k] \in Accounts,
         UNCHANGED <<had, worth, shelf>>, todo'[k] = {}, batch'[k] = 0, sent'[k] = None,
         asked'[k] = None,
         phase'[k] = "done", answer'[k] = answer[j], rows'[k] = rows[j], units'[k] = units[j],
         began'[k].pages = began[j].pages
  PROVE  PhaseOK(k)' /\ RowsOK(k)' /\ WholeOK(k)' /\ PagesOK(k)'
<1>1. PhaseOK(k)'
  BY DEF PhaseOK, Phases, Began
<1>2. RowsOK(k)'
  <2> SUFFICES ASSUME ask[j].kind \in Rows PROVE RowsOK(k)'
    BY DEF RowsOK, ReadsRows, Queries, Rows
  <2>1. ReadsRows(j) /\ RowsOK(j)
    BY DEF ReadsRows, Began, CallOK
  <2>2. GoodRows(k)' = GoodRows(j)
    BY DEF GoodRows
  <2>3. ASSUME NEW p \in GoodRows(j) PROVE Has(rows[k][p].value, who[k], p)'
    <3>1. Has(rows[j][p].value, who[j], p)
      BY <2>1 DEF RowsOK
    <3> QED BY <3>1 DEF Has, Shown
  <2> QED BY <2>1, <2>2, <2>3 DEF RowsOK
<1>3. WholeOK(k)'
  BY DEF CallOK, WholeOK, Whole, Began
<1>4. PagesOK(k)'
  <2> SUFFICES ASSUME ask[j].kind = "pages" PROVE PagesOK(k)'
    BY DEF PagesOK
  <2>1. began[j].pages \in 0..Len(shelf) /\ PagesWhole(j)
    BY DEF CallOK, PagesOK, Began
  <2>2. PagesWhole(k)'
    BY <2>1 DEF PagesWhole
  <2> QED BY <2>1, <2>2 DEF PagesOK
<1> QED
  BY <1>1, <1>2, <1>3, <1>4

\* ... or what one is that reads its rows.
LEMMA QueryReads ==
  ASSUME WorldOK, WorldOK', Grows, NEW k \in Calls, NEW q \in Requests[k], NEW c,
         q.kind \in Queries, q.kind \in OfAChain => c \in AllChains,
         ask'[k] = q, who'[k] \in Accounts, shelf' = shelf,
         batch'[k] = 0, sent'[k] = None, asked'[k] = None, rows'[k] = <<>>, answer'[k] = None,
         phase'[k] = "reading", todo'[k] = RowsOf(q, c), began'[k].pages = Len(shelf),
         units'[k] = IF q.kind \in Wallets THEN [p \in RowsOf(q, c) |-> RowDecimals(p)] ELSE <<>>
  PROVE  PhaseOK(k)' /\ RowsOK(k)' /\ WholeOK(k)' /\ PagesOK(k)'
<1>0. DOMAIN rows'[k] = {} /\ GoodRows(k)' = {}
  BY DEF GoodRows
<1>1. PhaseOK(k)'
  BY DEF PhaseOK, Phases, Began
<1>2. RowsOK(k)'
  <2> SUFFICES ASSUME q.kind \in Rows PROVE RowsOK(k)'
    BY DEF RowsOK, ReadsRows, Queries, Rows
  <2>1. RowsOf(q, c) \subseteq Places
    BY RowsOfIn DEF WorldOK
  <2>2. \A p \in RowsOf(q, c) : RowDecimals(p) \in worth'[p] \cup {None}
    BY <2>1 DEF WorldOK, WorthOK, Grows
  <2> QED BY <1>0, <2>1, <2>2 DEF RowsOK
<1>3. WholeOK(k)'
  <2> SUFFICES ASSUME q.kind \in Rows PROVE WholeOK(k)'
    BY DEF WholeOK
  <2>1. q.kind \notin Lists => {p[2] : p \in RowsOf(q, c)} = q.tokens
    BY RowsOfIn DEF WorldOK
  <2>2. q.kind \in Lists => q.kind \in Wallets
    BY DEF Lists, Wallets, OfAChain
  <2> QED BY <1>0, <2>1, <2>2 DEF WholeOK
<1>4. PagesOK(k)'
  <2> SUFFICES ASSUME q.kind = "pages" PROVE PagesOK(k)'
    BY DEF PagesOK
  <2>1. RowsOf(q, c) = 1..UpTo(Batch)
    BY PagesOf
  <2>2. Len(shelf) \in Nat /\ 0 + Batch = Batch
    BY PageAssumption DEF WorldOK, WorldTypes
  <2>3. UpTo(0 + Batch) = UpTo(Batch)
    BY <2>2
  <2> QED BY <1>0, <2>1, <2>2, <2>3 DEF PagesOK
<1> QED
  BY <1>1, <1>2, <1>3, <1>4

LEMMA QueryKeeps ==
  ASSUME Shape, WorldOK, KeptOK, \A i \in Calls : CallOK(i),
         NEW k \in Calls, NEW q \in Requests[k], Query(k, q),
         UNCHANGED <<transferVars, quoteVars>>
  PROVE  CallOK(k)'
<1> DEFINE r == Resolve(config, q.ref, active, TRUE)
           fails == q.kind \in OfAChain /\ ~r.ok
           c == IF q.kind \in OfAChain /\ r.ok THEN r.chain ELSE None
           known == {j \in kept : KeyOf(j) = Key(q, c, Owner(q))}
<1>1. /\ todo[k] = {} /\ rows[k] = <<>> /\ answer[k] = None
      /\ UNCHANGED <<worldVars, cacheVars>>
  BY IdleIs DEF Query
<1>2. /\ ask'[k] = q /\ who'[k] = Owner(q) /\ q.kind \in Queries /\ chain'[k] = c
      /\ batch'[k] = 0 /\ sent'[k] = None /\ asked'[k] = None /\ shelf' = shelf
  BY QueryBegins DEF Query, Shape
<1>3. WorldOK' /\ Grows
  BY <1>1, Unchanged DEF worldVars, cacheVars
<1>4. Owner(q) \in Accounts
  BY OwnerIs DEF WorldOK
<1>5. q.kind \in OfAChain /\ ~fails => c \in AllChains
  BY ResolveHonours DEF WorldOK, WorldTypes, AllChains
<1>6. \/ fails /\ End(k, Failed) /\ UNCHANGED <<todo, rows>>
      \/ \E j \in known : Served(k, j)
      \/ ~fails /\ Reads(k, q, c)
  BY DEF Query
<1> HIDE DEF fails, c, r
<1>7. CASE fails /\ End(k, Failed) /\ UNCHANGED <<todo, rows>>
  <2>1. q.kind \in OfAChain /\ c = None
    BY <1>7 DEF fails, c
  <2>2. phase'[k] = "done" /\ answer'[k] = Failed /\ todo'[k] = {} /\ rows'[k] = <<>>
    BY <1>1, <1>7 DEF End, Shape
  <2> QED BY <1>2, <1>4, <2>1, <2>2, QueryFails, QueryMeans DEF CallOK
<1>8. ASSUME NEW j \in known, Served(k, j) PROVE CallOK(k)'
  <2>1. j \in Calls /\ phase[j] = "done" /\ answer[j].ok /\ CallOK(j)
    BY DEF KeptOK
  <2>2. q.kind = ask[j].kind /\ q.tokens = ask[j].tokens /\ Owner(q) = who[j]
    BY DEF KeyOf, Key
  <2>3. /\ phase'[k] = "done" /\ answer'[k] = answer[j] /\ rows'[k] = rows[j]
        /\ units'[k] = units[j] /\ began'[k].pages = began[j].pages /\ todo'[k] = {}
    BY <1>1, <1>8 DEF Served, End, Begins, Shape
  <2>4. UNCHANGED <<had, worth, shelf>>
    BY <1>1 DEF worldVars
  <2>5. PhaseOK(k)' /\ RowsOK(k)' /\ WholeOK(k)' /\ PagesOK(k)'
    BY <1>2, <1>4, <2>1, <2>2, <2>3, <2>4, QueryServed
  <2> QED BY <2>5, QueryMeans DEF CallOK
<1>9. CASE ~fails /\ Reads(k, q, c)
  <2>1. /\ phase'[k] = "reading" /\ todo'[k] = RowsOf(q, c) /\ answer'[k] = None
        /\ rows'[k] = <<>> /\ began'[k].pages = Len(shelf)
        /\ units'[k] = IF q.kind \in Wallets THEN [p \in RowsOf(q, c) |-> RowDecimals(p)]
                       ELSE <<>>
    BY <1>1, <1>9 DEF Reads, Begins, Shape
  <2>2. PhaseOK(k)' /\ RowsOK(k)' /\ WholeOK(k)' /\ PagesOK(k)'
    BY <1>2, <1>3, <1>4, <1>5, <1>9, <2>1, QueryReads
  <2> QED BY <2>2, QueryMeans DEF CallOK
<1> QED
  BY <1>6, <1>7, <1>8, <1>9

-----------------------------------------------------------------------------
(* Rows and pages *)

\* What was decided as a call began stays true of it.
LEMMA BegunStays ==
  ASSUME NEW k \in Calls, CallOK(k), Kept(k), Unasked(k)
  PROVE  /\ MeantOK(k)' /\ AskedOK(k)'
         /\ DecimalsOf(k)' = DecimalsOf(k) /\ Pays(k)' = Pays(k)
         /\ Miscounted(k)' = Miscounted(k)
<1>1. MeantOK(k)'
  BY DEF CallOK, MeantOK, Kept
<1>2. AskedOK(k)'
  BY DEF CallOK, AskedOK, Kept, Unasked
<1> QED
  BY <1>1, <1>2 DEF DecimalsOf, Miscounted, Pays, Kept

\* A transfer on its way is of the same quantity, until its step that sends it.
LEMMA MovesOn ==
  ASSUME NEW k \in Calls, CallOK(k), Began(k), Kept(k), Unmoved(k), Unasked(k),
         Moving(k)' => Moving(k)
  PROVE  MoveOK(k)'
<1>1. DecimalsOf(k)' = DecimalsOf(k) /\ Miscounted(k)' = Miscounted(k)
  BY BegunStays
<1> QED
  BY <1>1 DEF CallOK, MoveOK, Kept, Unmoved, ToBase

LEMMA ReadRowMoves ==
  ASSUME Shape, WorldOK, NEW k \in Calls, CallOK(k), NEW p, ReadRow(k, p),
         UNCHANGED <<transferVars, quoteVars>>
  PROVE  CallOK(k)'
<1>1. /\ phase[k] = "reading" /\ p \in todo[k] /\ ask[k].kind # "pages"
      /\ Kept(k) /\ Unmoved(k) /\ Unasked(k) /\ batch'[k] = batch[k]
      /\ phase'[k] = phase[k] /\ answer'[k] = answer[k]
  BY DEF ReadRow, Kept, Unmoved, Unasked, transferVars, quoteVars
<1>2. ReadsRows(k) /\ Began(k)
  BY <1>1 DEF CallOK, PhaseOK, ReadsRows, Began, Rows
<1>3. Grows /\ p \in Places /\ who[k] \in Accounts
  BY ReadRowKeeps
<1>4. PICK row : Got(k, p, row) /\ (row.ok => Has(row.value, who[k], p)')
  BY ReadRowKeeps
<1>5. /\ todo'[k] = todo[k] \ {p} /\ DOMAIN rows'[k] = DOMAIN rows[k] \cup {p}
      /\ rows'[k][p] = row /\ \A x \in DOMAIN rows[k] \ {p} : rows'[k][x] = rows[k][x]
  BY <1>4 DEF Got, Shape
<1>6. DOMAIN rows'[k] \cup todo'[k] = DOMAIN rows[k] \cup todo[k]
  BY <1>1, <1>5
<1>7. PhaseOK(k)'
  BY <1>1 DEF CallOK, PhaseOK, Kept, Unmoved, Unasked, Began
<1>8. RowsOK(k)'
  <2>1. ASSUME NEW x \in GoodRows(k)' PROVE Has(rows[k][x].value, who[k], x)'
    <3>1. CASE x = p
      <4>1. row.ok
        BY <1>5, <2>1, <3>1 DEF GoodRows
      <4>2. Has(row.value, who[k], p)'
        BY <1>4, <4>1
      <4> QED BY <1>1, <1>5, <3>1, <4>2 DEF Has
    <3>2. CASE x # p
      <4>1. x \in GoodRows(k) /\ x \in Places /\ rows'[k][x] = rows[k][x]
        BY <1>2, <1>5, <2>1, <3>2 DEF GoodRows, CallOK, RowsOK
      <4>2. PICK v : v = rows[k][x].value
        OBVIOUS
      <4>3. PICK a \in Accounts : a = who[k]
        BY <1>3
      <4>4. Has(v, a, x)
        BY <1>2, <4>1, <4>2, <4>3 DEF CallOK, RowsOK
      <4>5. Has(v, a, x)'
        BY <1>3, <4>1, <4>4, HasStays DEF WorldOK
      <4>6. rows'[k][x].value = v /\ who'[k] = a
        BY <1>1, <4>1, <4>2, <4>3 DEF Kept
      <4> QED BY <4>5, <4>6 DEF Has
    <3> QED BY <3>1, <3>2
  <2>2. todo'[k] \subseteq Places /\ DOMAIN rows'[k] \subseteq Places
    BY <1>2, <1>3, <1>5 DEF CallOK, RowsOK
  <2>3. ask[k].kind \in Wallets => \A x \in todo'[k] :
         x \in DOMAIN units[k] /\ units[k][x] \in worth'[x] \cup {None}
    BY <1>2, <1>3, <1>5 DEF CallOK, RowsOK, Grows
  <2> QED BY <1>1, <2>1, <2>2, <2>3 DEF RowsOK, Kept
<1>9. WholeOK(k)'
  BY <1>1, <1>2, <1>6 DEF CallOK, WholeOK, Kept
<1>10. PagesOK(k)'
  BY <1>1 DEF PagesOK, Kept
<1>11. MoveOK(k)'
  BY <1>1, <1>2, MovesOn DEF Moving, Began, Kept, Unmoved
<1>12. CoverOK(k)'
  BY <1>1, <1>2, <1>6, BegunStays DEF CallOK, CoverOK, Moving, Began, Kept
<1> QED
  BY <1>1, <1>7, <1>8, <1>9, <1>10, <1>11, <1>12, BegunStays DEF CallOK

\* The answer has every row the call was to read, or fails.
LEMMA AssembleMoves ==
  ASSUME Shape, WorldOK, NEW k \in Calls, CallOK(k), Assemble(k),
         UNCHANGED <<transferVars, quoteVars>>
  PROVE  CallOK(k)'
<1>1. /\ phase[k] = "reading" /\ todo[k] = {} /\ ask[k].kind \in Rows
      /\ Kept(k) /\ Unmoved(k) /\ Unasked(k) /\ Unread(k)
      /\ phase'[k] = "done" /\ answer'[k] = Answer(k)
  BY DEF Assemble, Kept, Unmoved, Unasked, Unread, transferVars, quoteVars, End, Shape, Rows
<1>2. /\ ReadsRows(k) /\ Began(k) /\ Began(k)' /\ sent[k] = None
      /\ ask[k].kind \notin Moves \cup {"pages"}
  BY <1>1 DEF CallOK, PhaseOK, ReadsRows, Began, Rows, Moves, Queries
<1>3. WorldTypes /\ Grows
  BY Unchanged DEF Assemble, worldVars, WorldOK
<1>4. PhaseOK(k)'
  BY <1>1, <1>2 DEF CallOK, PhaseOK, Phases, Kept, Unmoved, Unasked, Unread, Began
<1>5. RowsOK(k)'
  BY <1>1, <1>2, <1>3, RowsStay DEF CallOK, Unread
<1>6. Whole(k)'
  <2>1. GoodRows(k) \cup BadRows(k) = DOMAIN rows[k] /\ GoodRows(k) \cap BadRows(k) = {}
        /\ DOMAIN Listed(k) = GoodRows(k) /\ GoodRows(k)' = GoodRows(k)
    BY <1>1 DEF GoodRows, BadRows, Listed, Unread
  <2>2. \A p \in DOMAIN rows[k] : p \in GoodRows(k) <=> rows[k][p].ok
    BY DEF GoodRows
  <2>3. CASE ask[k].kind \in Lists
    <3>1. DOMAIN rows[k] = DOMAIN units[k]
      BY <1>1, <1>2, <2>3 DEF CallOK, WholeOK
    <3>2. Answer(k) = IF GoodRows(k) = {} /\ BadRows(k) # {} THEN Failed
                      ELSE [ok |-> TRUE, rows |-> Listed(k), errors |-> BadRows(k)]
      BY <2>3 DEF Answer, Lists
    <3>3. ask'[k].kind \in Lists /\ units'[k] = units[k] /\ rows'[k] = rows[k]
      BY <1>1, <2>3 DEF Kept, Unread
    <3>4. CASE GoodRows(k) = {} /\ BadRows(k) # {}
      BY <1>1, <2>2, <3>2, <3>3, <3>4 DEF Whole, Failed
    <3>5. CASE ~(GoodRows(k) = {} /\ BadRows(k) # {})
      <4>1. /\ answer'[k].ok /\ DOMAIN answer'[k].rows = GoodRows(k)
            /\ answer'[k].errors = BadRows(k)
        BY <1>1, <2>1, <3>2, <3>5
      <4> QED BY <2>1, <3>1, <3>3, <3>5, <4>1 DEF Whole
    <3> QED BY <3>4, <3>5
  <2>4. CASE ask[k].kind \notin Lists
    <3>1. {p[2] : p \in DOMAIN rows[k]} = ask[k].tokens
      <4>1. {p[2] : p \in DOMAIN rows[k] \cup todo[k]} = ask[k].tokens
        BY <1>1, <1>2, <2>4 DEF CallOK, WholeOK
      <4>2. DOMAIN rows[k] \cup todo[k] = DOMAIN rows[k]
        BY <1>1
      <4> QED BY <4>1, <4>2
    <3>2. Answer(k) = IF BadRows(k) # {} THEN Failed
                      ELSE [ok |-> TRUE, rows |-> Listed(k), errors |-> BadRows(k)]
      BY <1>1, <2>4 DEF Answer, Lists, Rows, Queries
    <3>3. ask'[k] = ask[k]
      BY <1>1 DEF Kept
    <3>4. CASE BadRows(k) # {}
      BY <1>1, <2>4, <3>2, <3>3, <3>4 DEF Whole, Failed
    <3>5. CASE BadRows(k) = {}
      <4>1. DOMAIN answer'[k].rows = DOMAIN rows[k]
        BY <1>1, <2>1, <3>2, <3>5
      <4> QED BY <2>4, <3>1, <3>3, <4>1 DEF Whole
    <3> QED BY <3>4, <3>5
  <2> QED BY <2>3, <2>4
<1>7. WholeOK(k)'
  BY <1>1, <1>6 DEF WholeOK
<1>8. PagesOK(k)' /\ MoveOK(k)' /\ CoverOK(k)'
  BY <1>1, <1>2 DEF PagesOK, MoveOK, CoverOK, Moving, Kept
<1> QED
  BY <1>1, <1>4, <1>5, <1>7, <1>8, BegunStays DEF CallOK

\* A call of another kind owes nothing of rows, or of transfers.
LEMMA NotOfRows ==
  ASSUME NEW k \in Calls, ask'[k].kind \notin Rows \cup {"transfer_portfolio"}
  PROVE  RowsOK(k)' /\ WholeOK(k)'
BY DEF RowsOK, ReadsRows, WholeOK

LEMMA NotOfMoves ==
  ASSUME NEW k \in Calls, ask'[k].kind \notin Moves
  PROVE  MoveOK(k)' /\ CoverOK(k)'
BY DEF MoveOK, CoverOK, Moving

LEMMA ReadPageMoves ==
  ASSUME Shape, WorldOK, NEW k \in Calls, CallOK(k), NEW i, ReadPage(k, i),
         UNCHANGED <<transferVars, quoteVars>>
  PROVE  CallOK(k)'
<1>1. /\ phase[k] = "reading" /\ i \in todo[k] /\ ask[k].kind = "pages"
      /\ Kept(k) /\ Unmoved(k) /\ Unasked(k) /\ batch'[k] = batch[k]
      /\ phase'[k] = phase[k] /\ answer'[k] = answer[k] /\ shelf' = shelf
  BY DEF ReadPage, Kept, Unmoved, Unasked, transferVars, quoteVars, worldVars
<1>2. Began(k) /\ Len(shelf) \in Nat /\ DOMAIN shelf = 1..Len(shelf)
  BY <1>1 DEF Began, WorldOK, WorldTypes
<1>3. /\ began[k].pages \in 0..Len(shelf)
      /\ DOMAIN rows[k] \cup todo[k] = 1..UpTo(batch[k] + Batch)
      /\ \A j \in DOMAIN rows[k] : PageOK(k, j)
  BY <1>1, <1>2 DEF CallOK, PagesOK
<1>4. UpTo(batch[k] + Batch) \in Int /\ i \in Nat /\ i >= 1
  <2>1. batch[k] \in Nat
    BY <1>1, <1>2 DEF CallOK, PagesOK
  <2>2. UpTo(batch[k] + Batch) \in Int
    BY <2>1, PageAssumption DEF UpTo
  <2> QED BY <1>1, <1>3, <2>2
<1>5. PICK row :
        /\ Got(k, i, row)
        /\ \/ /\ i \in DOMAIN shelf
              /\ row.ok /\ {"ok", "token"} \subseteq DOMAIN row /\ row.token = shelf[i]
           \/ ~row.ok /\ (row.why = "empty" => i \notin DOMAIN shelf)
  BY DEF ReadPage, Missing
<1>6. /\ todo'[k] = todo[k] \ {i} /\ DOMAIN rows'[k] = DOMAIN rows[k] \cup {i}
      /\ rows'[k][i] = row /\ \A x \in DOMAIN rows[k] \ {i} : rows'[k][x] = rows[k][x]
  BY <1>5 DEF Got, Shape
<1>7. DOMAIN rows'[k] \cup todo'[k] = DOMAIN rows[k] \cup todo[k]
  BY <1>1, <1>6
<1>8. PageOK(k, i)'
  BY <1>1, <1>2, <1>3, <1>4, <1>5, <1>6 DEF PageOK, Kept
<1>9. \A x \in DOMAIN rows'[k] : PageOK(k, x)'
  BY <1>1, <1>3, <1>6, <1>8 DEF PageOK, Kept
<1>10. PagesOK(k)'
  BY <1>1, <1>2, <1>7, <1>9 DEF CallOK, PagesOK, Kept, UpTo
<1>11. PhaseOK(k)'
  BY <1>1 DEF CallOK, PhaseOK, Kept, Unmoved, Unasked, Began
<1>12. ask'[k].kind = "pages"
  BY <1>1 DEF Kept
<1> QED
  BY <1>1, <1>10, <1>11, <1>12, NotOfRows, NotOfMoves, BegunStays
  DEF CallOK, Rows, Moves

\* The pages before the first empty one are all that there were as the call began.
LEMMA FullHasAll ==
  ASSUME WorldOK, NEW k \in Calls, PagesOK(k), Began(k), ask[k].kind = "pages",
         phase[k] = "reading", todo[k] = {},
         Full(k) # DOMAIN rows[k] \/ FirstOfNext(k) >= PageCap,
         NEW i \in 1..began[k].pages, i <= PageCap
  PROVE  i \in Full(k)
<1>1. /\ batch[k] \in Nat /\ Batch \in Nat /\ PageCap \in Nat /\ began[k].pages \in Int
      /\ DOMAIN rows[k] = 1..UpTo(batch[k] + Batch) /\ UpTo(batch[k] + Batch) \in Nat
  BY PageAssumption DEF PagesOK, UpTo
<1>2. \A j \in DOMAIN rows[k] : ~rows[k][j].ok /\ rows[k][j].why = "empty" => j > began[k].pages
  BY DEF PagesOK, PageOK
<1>3. CASE Full(k) # DOMAIN rows[k]
  <2>1. PICK n \in DOMAIN rows[k] : n \notin Full(k)
    BY <1>3 DEF Full
  <2>2. PICK j \in DOMAIN rows[k] : j <= n /\ ~rows[k][j].ok /\ rows[k][j].why = "empty"
    BY <2>1 DEF Full
  <2>3. i \in DOMAIN rows[k] /\ \A m \in DOMAIN rows[k] : m <= i => m <= began[k].pages
    BY <1>1, <1>2, <2>2
  <2> QED BY <1>1, <1>2, <2>3 DEF Full
<1>4. CASE FirstOfNext(k) >= PageCap
  <2>1. UpTo(batch[k] + Batch) = PageCap
    BY <1>1, <1>4 DEF FirstOfNext, UpTo
  <2>2. i \in DOMAIN rows[k] /\ \A m \in DOMAIN rows[k] : m <= i => m <= began[k].pages
    BY <1>1, <2>1
  <2> QED BY <1>1, <1>2, <2>2 DEF Full
<1> QED
  BY <1>3, <1>4

\* Showing a page's value changes neither whether it was read nor its token.
LEMMA ValuedIs ==
  ASSUME NEW k \in Calls, NEW i \in DOMAIN rows[k], PageOK(k, i)
  PROVE  LET v == Valued(k)[i] IN
         /\ v.ok = rows[k][i].ok
         /\ rows[k][i].ok => v.token = rows[k][i].token /\ {"ok", "token"} \subseteq DOMAIN v
         /\ ~rows[k][i].ok => v = rows[k][i]
<1> DEFINE row == rows[k][i]
<1>1. CASE ~row.ok \/ i <= batch[k]
  BY <1>1 DEF Valued, PageOK
<1>2. CASE row.ok /\ ~(i <= batch[k])
  <2>1. {"ok", "token"} \subseteq DOMAIN row
    BY <1>2 DEF PageOK
  <2>2. PICK x : Valued(k)[i] = [row EXCEPT !.value = x]
    BY <1>2 DEF Valued
  <2> HIDE DEF row
  <2>3. /\ [row EXCEPT !.value = x].ok = row.ok /\ [row EXCEPT !.value = x].token = row.token
        /\ DOMAIN [row EXCEPT !.value = x] = DOMAIN row
    BY <2>1
  <2> QED BY <1>2, <2>1, <2>2, <2>3 DEF row
<1> QED
  BY <1>1, <1>2

\* A batch ends with the answer of all pages, a failure, or the next batch and no gap.
LEMMA BatchEndsMoves ==
  ASSUME Shape, WorldOK, NEW k \in Calls, CallOK(k), BatchEnds(k),
         UNCHANGED <<transferVars, quoteVars>>
  PROVE  CallOK(k)'
<1> DEFINE next == FirstOfNext(k)
           failing == \E i \in Full(k) : ~rows[k][i].ok
           over == Full(k) # DOMAIN rows[k] \/ next >= PageCap
<1>1. /\ phase[k] = "reading" /\ todo[k] = {} /\ ask[k].kind = "pages"
      /\ Kept(k) /\ Unmoved(k) /\ Unasked(k) /\ shelf' = shelf /\ rows'[k] = Valued(k)
  BY DEF BatchEnds, Kept, Unmoved, Unasked, transferVars, quoteVars, worldVars, Shape
<1>2. Began(k) /\ PagesOK(k) /\ ask'[k] = ask[k] /\ began'[k] = began[k] /\ sent[k] = None
      /\ who'[k] = who[k]
  BY <1>1 DEF Began, CallOK, Kept, PhaseOK
<1>3. /\ began[k].pages \in 0..Len(shelf) /\ batch[k] \in Nat /\ Batch \in Nat /\ PageCap \in Nat
      /\ DOMAIN rows[k] = 1..UpTo(next)
      /\ \A i \in DOMAIN rows[k] : PageOK(k, i)
  BY <1>1, <1>2, PageAssumption DEF PagesOK, FirstOfNext
<1>4. /\ failing => /\ phase'[k] = "done" /\ batch'[k] = batch[k] /\ todo'[k] = {}
                    /\ answer'[k] = Failed
      /\ ~failing /\ over =>
           /\ phase'[k] = "done" /\ batch'[k] = batch[k] /\ todo'[k] = {}
           /\ answer'[k] = [ok |-> TRUE, rows |-> ByToken(Valued(k), Full(k)), errors |-> {}]
      /\ ~failing /\ ~over =>
           /\ phase'[k] = "reading" /\ batch'[k] = next /\ answer'[k] = answer[k]
           /\ todo'[k] = (next + 1)..UpTo(next + Batch)
  <2>1. \A i \in Full(k) : i \in DOMAIN rows[k]
    BY DEF Full
  <2>2. CASE failing
    BY <1>1, <2>2 DEF BatchEnds, End, Shape
  <2>3. CASE ~failing /\ over
    BY <1>1, <2>3 DEF BatchEnds, End, Shape
  <2>4. CASE ~failing /\ ~over
    BY <1>1, <2>4 DEF BatchEnds, End, Shape, UpTo
  <2> QED BY <2>2, <2>3, <2>4
<1>5. next \in Nat /\ DOMAIN rows'[k] = DOMAIN rows[k]
  BY <1>1, <1>3 DEF FirstOfNext, Valued
<1> HIDE DEF next, failing, over
<1>6. ASSUME NEW i \in DOMAIN rows[k] PROVE PageOK(k, i)'
  <2>1. PageOK(k, i)
    BY <1>3
  <2>2. rows'[k][i] = Valued(k)[i] /\ shelf' = shelf /\ began'[k] = began[k]
    BY <1>1, <1>2
  <2>3. CASE rows[k][i].ok
    <3>1. /\ Valued(k)[i].ok /\ Valued(k)[i].token = rows[k][i].token
          /\ {"ok", "token"} \subseteq DOMAIN Valued(k)[i]
      BY <2>1, <2>3, ValuedIs
    <3>2. i \in DOMAIN shelf /\ rows[k][i].token = shelf[i]
      BY <2>1, <2>3 DEF PageOK
    <3> QED BY <2>2, <3>1, <3>2 DEF PageOK
  <2>4. CASE ~rows[k][i].ok
    <3>1. Valued(k)[i] = rows[k][i]
      BY <2>1, <2>4, ValuedIs
    <3> QED BY <2>1, <2>2, <2>4, <3>1 DEF PageOK
  <2> QED BY <2>3, <2>4
<1>7. PagesOK(k)'
  <2>1. CASE failing
    BY <1>1, <1>2, <1>3, <1>4, <2>1 DEF PagesOK, PagesWhole, Failed, Began
  <2>2. CASE ~failing /\ over
    <3>1. ASSUME NEW i \in 1..began[k].pages, i <= PageCap
          PROVE  shelf[i] \in DOMAIN answer'[k].rows
      <4>1. i \in Full(k)
        BY <1>1, <1>2, <2>2, <3>1, FullHasAll DEF over, next
      <4>2. i \in DOMAIN rows[k] /\ rows[k][i].ok
        BY <2>2, <4>1 DEF Full, failing
      <4>3. Valued(k)[i].token = shelf[i]
        BY <1>3, <4>2, ValuedIs DEF PageOK
      <4>4. answer'[k].rows = ByToken(Valued(k), Full(k))
        BY <1>4, <2>2
      <4>5. DOMAIN ByToken(Valued(k), Full(k)) = {Valued(k)[j].token : j \in Full(k)}
        BY DEF ByToken
      <4> QED BY <4>1, <4>3, <4>4, <4>5
    <3> QED BY <1>1, <1>2, <1>3, <1>4, <2>2, <3>1 DEF PagesOK, PagesWhole, Began
  <2>3. CASE ~failing /\ ~over
    <3>1. ~(next >= PageCap)
      BY <2>3 DEF over
    <3>2. UpTo(next) = next /\ UpTo(next + Batch) \in Nat /\ next <= UpTo(next + Batch)
      BY <1>3, <1>5, <3>1 DEF UpTo
    <3>3. DOMAIN rows'[k] \cup todo'[k] = 1..UpTo(next + Batch)
      BY <1>3, <1>4, <1>5, <2>3, <3>2
    <3> QED BY <1>1, <1>2, <1>3, <1>4, <1>5, <1>6, <2>3, <3>3 DEF PagesOK, UpTo
  <2> QED BY <2>1, <2>2, <2>3
<1>8. PhaseOK(k)'
  BY <1>1, <1>2, <1>4 DEF CallOK, PhaseOK, Phases, Kept, Unmoved, Unasked, Began, Queries
<1> QED
  BY <1>1, <1>2, <1>7, <1>8, NotOfRows, NotOfMoves, BegunStays DEF CallOK, Rows, Moves

-----------------------------------------------------------------------------
(* Transfers *)

\* What is typed is cut off, by less than a base unit.
LEMMA ToBaseCuts ==
  ASSUME NEW a \in Nat, NEW d \in 0..Default
  PROVE  /\ ToBase(a, d) \in Nat
         /\ Shown(ToBase(a, d), d) <= a /\ a < Shown(ToBase(a, d) + 1, d)
<1>1. PICK u \in Nat \ {0} : u = Unit[d]
  BY UnitAssumption
<1>2. /\ a \div u \in Nat
      /\ (a \div u) * u <= a /\ a < ((a \div u) + 1) * u
  OBVIOUS
<1> QED
  BY <1>1, <1>2 DEF ToBase, Shown

\* What is compared as it is shown, with some slack, compares so in base units too.
LEMMA CoversInUnits ==
  ASSUME NEW a \in Nat, NEW d \in 0..Default, NEW raw \in Nat, NEW off \in (-Slack)..Slack,
         Shown(raw, d) + off >= a
  PROVE  Shown(ToBase(a, d), d) <= Shown(raw, d) + Slack
<1>1. Shown(ToBase(a, d), d) <= a /\ ToBase(a, d) \in Nat
  BY ToBaseCuts
<1>2. Shown(ToBase(a, d), d) \in Nat /\ Shown(raw, d) \in Nat
  BY <1>1, ShownIsNat
<1> QED
  BY <1>1, <1>2, SlackAssumption

\* A deposit is of a connected chain with the client's own id: the only one.
LEMMA OwnIs ==
  ASSUME WorldTypes, NEW c \in config, c.id = active, NEW t
  PROVE  OnOwnChain(t) = Decimals(t, c)
<1>1. OwnChain = {c}
  BY ChainAssumption DEF OwnChain, WorldTypes
<1>2. (CHOOSE x \in OwnChain : TRUE) = c
  BY <1>1
<1> QED
  BY <1>1, <1>2 DEF OnOwnChain

\* The decimals a transfer is encoded with are those it is of, where the token is listed.
LEMMA UnitsAre ==
  ASSUME WorldTypes, NEW k \in Calls, NEW q, q.kind \in Moves, NEW c,
         q.kind \in {"deposit", "withdraw"} => c \in config,
         q.kind = "deposit" => c.id = active,
         Units(q, c) # None,
         ask'[k] = q, chain'[k] = c, began'[k].listing = listing,
         DecimalsOf(k)' # None, ~Miscounted(k)'
  PROVE  DecimalsOf(k)' = Units(q, c) /\ Units(q, c) \in 0..Default
<1> DEFINE on(d) == Decimals(q.token, d)
<1>1. \A d \in AllChains : on(d) \in 0..Default \cup {None}
  BY ListingAssumption DEF Decimals, WorldTypes
<1>2. Default \in 0..Default /\ L1 \in AllChains /\ (c \in config => c \in AllChains)
  BY UnitAssumption DEF AllChains, WorldTypes
<1>3. DecimalsOf(k)' =
        CASE q.kind \in {"add_gas", "remove_gas"} -> Default
          [] q.kind = "withdraw" -> on(c)
          [] q.kind = "deposit" ->
               IF on(c) = None /\ q.token = c.native THEN Default ELSE on(c)
          [] OTHER -> on(L1)
  BY DEF DecimalsOf, Decimals
<1> HIDE DEF on
<1>4. CASE q.kind \in {"add_gas", "remove_gas"}
  BY <1>2, <1>3, <1>4 DEF Units
<1>5. CASE q.kind = "transfer_portfolio"
  <2>1. DecimalsOf(k)' = on(L1) /\ Units(q, c) = OrDefault(on(L1))
    BY <1>3, <1>5 DEF Units, on
  <2>2. on(L1) # 0
    BY <1>5, <2>1 DEF Miscounted
  <2> QED BY <1>1, <1>2, <2>1, <2>2 DEF OrDefault
<1>6. CASE q.kind = "transfer_token"
  <2>1. DecimalsOf(k)' = on(L1) /\ Units(q, c) = PortfolioUnits(q.token)
    BY <1>3, <1>6 DEF Units
  <2>2. PortfolioUnits(q.token) = on(L1)
    BY <2>1 DEF PortfolioUnits, on
  <2> QED BY <1>1, <1>2, <2>1, <2>2
<1>7. CASE q.kind = "withdraw"
  <2>1. DecimalsOf(k)' = on(c) /\ Units(q, c) = on(c)
    BY <1>3, <1>7 DEF Units, on
  <2> QED BY <1>1, <1>2, <1>7, <2>1
<1>8. CASE q.kind = "deposit"
  <2>1. DecimalsOf(k)' = IF on(c) = None /\ q.token = c.native THEN Default ELSE on(c)
    BY <1>3, <1>8
  <2>2. OnOwnChain(q.token) = on(c)
    BY <1>8, OwnIs DEF on
  <2>3. Units(q, c) = IF on(c) = None /\ on(L1) # None THEN Default ELSE on(c)
    BY <1>8, <2>2 DEF Units, DepositDecimals, on
  <2> QED BY <1>1, <1>2, <1>8, <2>1, <2>3
<1> QED
  BY <1>4, <1>5, <1>6, <1>7, <1>8 DEF Moves

LEMMA UnitsIn ==
  ASSUME WorldTypes, NEW q, q.kind \in Moves, NEW c,
         q.kind = "withdraw" => c \in config, Units(q, c) # None
  PROVE  Units(q, c) \in 0..Default
<1>1. \A t, d : d \in AllChains => Decimals(t, d) \in 0..Default \cup {None}
  BY ListingAssumption DEF Decimals, WorldTypes
<1>2. Default \in 0..Default /\ L1 \in AllChains /\ config \subseteq AllChains
  BY UnitAssumption DEF AllChains, WorldTypes
<1>3. OnOwnChain(q.token) \in 0..Default \cup {None}
  <2>1. OwnChain # {} => (CHOOSE x \in OwnChain : TRUE) \in AllChains
    BY <1>2 DEF OwnChain
  <2> QED BY <1>1, <2>1 DEF OnOwnChain
<1>4. PortfolioUnits(q.token) \in 0..Default
  BY <1>1, <1>2, <1>3 DEF PortfolioUnits, OrDefault
<1>5. Decimals(q.token, L1) \in 0..Default \cup {None}
      /\ (q.kind = "withdraw" => Decimals(q.token, c) \in 0..Default \cup {None})
  BY <1>1, <1>2
<1> QED
  BY <1>2, <1>3, <1>4, <1>5 DEF Units, DepositDecimals, OrDefault, Moves

LEMMA TransferKeeps ==
  ASSUME Shape, WorldOK, NEW k \in Calls, CallOK(k), NEW q \in Requests[k], Transfer(k, q),
         UNCHANGED quoteVars
  PROVE  CallOK(k)'
<1> DEFINE r == Resolve(config, q.ref, active, FALSE)
           named == q.kind \in {"deposit", "withdraw"}
           c == IF named /\ OnChain(q, r) THEN r.chain ELSE None
           u == IF named /\ c = None THEN None ELSE Units(q, c)
<1>1. /\ chain[k] = None /\ todo[k] = {} /\ rows[k] = <<>> /\ batch[k] = 0
      /\ sent[k] = None /\ asked[k] = None /\ answer[k] = None
  BY IdleIs DEF Transfer
<1>2. /\ ask'[k] = q /\ who'[k] = account /\ q.kind \in Moves /\ chain'[k] = c
      /\ began'[k] = [config |-> config, active |-> active, listing |-> listing,
                      pages |-> Len(shelf)]
      /\ rows'[k] = <<>> /\ batch'[k] = 0 /\ sent'[k] = None /\ asked'[k] = None
  BY <1>1 DEF Transfer, Shape, Begins, quoteVars
<1>3. /\ u = None => phase'[k] = "done" /\ answer'[k] = Failed /\ todo'[k] = {}
      /\ u # None => /\ quantity'[k] = ToBase(q.amount, u) /\ answer'[k] = None
                     /\ IF q.kind = "transfer_portfolio"
                        THEN todo'[k] = {<<Portfolio, q.token>>} /\ phase'[k] = "reading"
                        ELSE todo'[k] = {} /\ phase'[k] = "sending"
  BY <1>1 DEF Transfer, Shape, End
<1>4. account \in Accounts /\ WorldTypes
  BY DEF WorldOK, WorldTypes
<1>5. c # None => r.ok /\ c = r.chain
  BY DEF OnChain
<1>6. r.ok => r.chain \in config
  BY <1>4, ResolveHonours DEF WorldTypes
<1>7. u # None => /\ Units(q, c) = u
                  /\ named => c \in config
                  /\ q.kind = "deposit" => c.id = active
  BY <1>5, <1>6 DEF OnChain
<1> HIDE DEF c, u, r
<1>8. PhaseOK(k)' /\ AskedOK(k)'
  BY <1>2, <1>3, <1>4 DEF PhaseOK, Phases, AskedOK, Began, Queries, Moves
<1>9. MeantOK(k)'
  <2>1. CASE c = None
    BY <1>2, <2>1 DEF MeantOK
  <2>2. CASE c # None
    <3>1. /\ Resolve(config, q.ref, active, FALSE).ok
          /\ chain'[k] = Resolve(config, q.ref, active, FALSE).chain
      BY <1>2, <1>5, <2>2 DEF r
    <3>2. ask'[k].ref = q.ref /\ began'[k].config = config /\ began'[k].active = active
      BY <1>2
    <3> QED BY <1>4, <3>1, <3>2, MeantAtFirst
  <2> QED BY <2>1, <2>2
<1>10. RowsOK(k)'
  <2> SUFFICES ASSUME q.kind = "transfer_portfolio" PROVE RowsOK(k)'
    BY <1>2 DEF RowsOK, ReadsRows, Rows, Queries, Moves
  <2>1. <<Portfolio, q.token>> \in Places
    BY RequestAssumption DEF Places, Where
  <2>2. todo'[k] \subseteq Places
    BY <1>3, <2>1
  <2> QED BY <1>2, <2>2 DEF RowsOK, GoodRows, Wallets, OfAChain
<1>11. WholeOK(k)' /\ PagesOK(k)'
  BY <1>2 DEF WholeOK, PagesOK, Rows, Queries, Moves
<1>12. ASSUME Moving(k)' PROVE u # None
  BY <1>2, <1>3, <1>12 DEF Moving
<1>13. MoveOK(k)'
  <2> SUFFICES ASSUME Moving(k)' PROVE MoveOK(k)'
    BY DEF MoveOK
  <2>1. u # None /\ Units(q, c) = u /\ (named => c \in config)
        /\ (q.kind = "deposit" => c.id = active) /\ quantity'[k] = ToBase(q.amount, u)
    BY <1>3, <1>7, <1>12
  <2>2. q.amount \in Nat
    BY RequestAssumption
  <2>3. u \in 0..Default
    BY <1>2, <1>4, <2>1, UnitsIn
  <2>4. quantity'[k] \in Nat
    BY <2>1, <2>2, <2>3, ToBaseCuts
  <2>5. ASSUME DecimalsOf(k)' # None, ~Miscounted(k)' PROVE DecimalsOf(k)' = u
    BY <1>2, <1>4, <2>1, <2>5, UnitsAre
  <2> QED BY <1>2, <2>1, <2>2, <2>3, <2>4, <2>5 DEF MoveOK, ToBase
<1>14. CoverOK(k)'
  <2>1. q.kind = "transfer_portfolio" => <<Portfolio, q.token>> \in Places
    BY RequestAssumption DEF Places, Where
  <2> QED BY <1>2, <1>3, <1>12, <2>1 DEF CoverOK, Pays
<1> QED
  BY <1>8, <1>9, <1>10, <1>11, <1>13, <1>14 DEF CallOK

\* The balance that was read, and compared, covers the transfer.
LEMMA CheckBalanceMoves ==
  ASSUME Shape, WorldOK, NEW k \in Calls, CallOK(k), CheckBalance(k), UNCHANGED quoteVars
  PROVE  CallOK(k)'
<1> DEFINE p == <<Portfolio, ask[k].token>>
<1>1. /\ phase[k] = "reading" /\ todo[k] = {} /\ ask[k].kind = "transfer_portfolio"
      /\ Kept(k) /\ Unmoved(k) /\ Unasked(k) /\ Unread(k)
      /\ \/ /\ phase'[k] = "sending" /\ answer'[k] = answer[k]
            /\ \E off \in (-Slack)..Slack : Suffices(k, p, off)
         \/ phase'[k] = "done"
  BY DEF CheckBalance, Kept, Unmoved, Unasked, Unread, transferVars, quoteVars, End, Shape
<1>2. /\ Began(k) /\ Began(k)' /\ ReadsRows(k) /\ Moving(k) /\ sent[k] = None
      /\ WorldTypes /\ p = Pays(k) /\ ask'[k] = ask[k] /\ UNCHANGED <<had, worth>>
      /\ who[k] \in Accounts /\ who'[k] = who[k] /\ quantity'[k] = quantity[k]
  BY <1>1 DEF CallOK, PhaseOK, ReadsRows, Began, Moving, Moves, WorldOK, Pays, Kept, Unmoved,
              CheckBalance, worldVars
<1>3. Grows
  BY Unchanged DEF CheckBalance, worldVars, cacheVars
<1>4. PhaseOK(k)'
  BY <1>1, <1>2 DEF CallOK, PhaseOK, Phases, Kept, Unmoved, Unasked, Unread, Began, Moves
<1>5. RowsOK(k)'
  BY <1>1, <1>2, <1>3, RowsStay DEF CallOK, Unread
<1>6. WholeOK(k)' /\ PagesOK(k)'
  BY <1>1, <1>2 DEF WholeOK, PagesOK, Rows, Queries
<1>7. MoveOK(k)'
  BY <1>1, <1>2, MovesOn
<1>8. CoverOK(k)'
  <2> SUFFICES ASSUME Moving(k)', NEW d, d = DecimalsOf(k), d \notin {None, 0}, worth[p] \subseteq {d}
               PROVE  \E raw \in had[who[k]][p] : Shown(quantity[k], d) <= Shown(raw, d) + Slack
    BY <1>1, <1>2, BegunStays DEF CallOK, CoverOK, Covered, Shown
  <2>1. PICK off \in (-Slack)..Slack : Suffices(k, p, off)
    BY <1>1, <1>2 DEF Moving, Unmoved
  <2>2. p \in GoodRows(k)
    BY <1>1, <1>2, <2>1 DEF Suffices, GoodRows, CallOK, CoverOK
  <2>3. p \in Places /\ Has(rows[k][p].value, who[k], p)
    BY <1>2, <2>2 DEF CallOK, RowsOK, GoodRows
  <2>4. PICK raw \in had[who[k]][p] : rows[k][p].value = Shown(raw, d)
    BY <2>3 DEF Has
  <2>5. raw \in Nat
    BY <1>2, <2>3 DEF WorldTypes
  <2>6. Shown(raw, d) + off >= ask[k].amount /\ ask[k].amount \in Nat
    BY <1>2, <2>1, <2>4 DEF Suffices, CallOK, MoveOK
  <2>7. d \in 0..Default /\ quantity[k] = ToBase(ask[k].amount, d)
    BY <1>2 DEF CallOK, MoveOK, Miscounted
  <2> QED BY <2>4, <2>5, <2>6, <2>7, CoversInUnits
<1> QED
  BY <1>1, <1>4, <1>5, <1>6, <1>7, <1>8, BegunStays DEF CallOK

\* The last step of a transfer: sent, or not.
LEMMA SendMoves ==
  ASSUME Shape, WorldOK, NEW k \in Calls, CallOK(k), Send(k) \/ SendFails(k), UNCHANGED quoteVars
  PROVE  CallOK(k)'
<1>1. /\ phase[k] = "sending" /\ phase'[k] = "done"
      /\ Kept(k) /\ Unasked(k) /\ Unread(k) /\ quantity'[k] = quantity[k]
  BY DEF Send, SendFails, Kept, Unasked, Unread, transferVars, quoteVars, End, Shape
<1>2. /\ Began(k) /\ Began(k)' /\ ask[k].kind \in Moves /\ Moving(k) /\ sent[k] = None
      /\ WorldTypes /\ ask'[k] = ask[k] /\ chain'[k] = chain[k] /\ began'[k] = began[k]
      /\ who[k] \in Accounts /\ who'[k] = who[k]
  BY <1>1 DEF CallOK, PhaseOK, Began, Moving, WorldOK, Kept
<1>3. sent'[k] = None \/ sent'[k].quantity = quantity[k]
  BY <1>2 DEF Send, SendFails, Shape, transferVars
<1>4. Grows
  BY SendKeeps, Unchanged DEF SendFails, worldVars, cacheVars
<1>5. PhaseOK(k)'
  BY <1>1, <1>2 DEF CallOK, PhaseOK, Phases, Kept, Unasked, Unread, Began
<1>6. RowsOK(k)'
  <2>1. CASE ask[k].kind = "transfer_portfolio"
    BY <1>1, <1>2, <1>4, <2>1, RowsStay DEF CallOK, Unread, ReadsRows
  <2>2. CASE ask[k].kind # "transfer_portfolio"
    BY <1>2, <2>2, NotOfRows DEF Moves, Rows, Queries
  <2> QED BY <2>1, <2>2
<1>7. WholeOK(k)' /\ PagesOK(k)'
  BY <1>2 DEF WholeOK, PagesOK, Rows, Queries, Moves
<1>8. MoveOK(k)'
  BY <1>1, <1>2, <1>3, BegunStays DEF CallOK, MoveOK, ToBase
<1>9. CoverOK(k)'
  <2> SUFFICES ASSUME ask[k].kind = "transfer_portfolio" PROVE CoverOK(k)'
    BY <1>2 DEF CoverOK
  <2>1. Pays(k) \in Places /\ Covered(k, DecimalsOf(k))
    BY <1>1, <1>2 DEF CallOK, CoverOK
  <2>2. DecimalsOf(k)' = DecimalsOf(k) /\ Pays(k)' = Pays(k)
    BY <1>1, BegunStays
  <2>3. /\ had[who[k]][Pays(k)] \subseteq had'[who[k]][Pays(k)]
        /\ worth[Pays(k)] \subseteq worth'[Pays(k)]
    BY <1>2, <1>4, <2>1 DEF Grows
  <2>4. Covered(k, DecimalsOf(k))'
    BY <1>1, <1>2, <2>1, <2>2, <2>3 DEF Covered, Shown
  <2> QED BY <1>1, <2>1, <2>2, <2>4 DEF CoverOK
<1> QED
  BY <1>1, <1>5, <1>6, <1>7, <1>8, <1>9, BegunStays DEF CallOK

-----------------------------------------------------------------------------
(* Quotes *)

LEMMA OrientationIs ==
  ASSUME NEW from, NEW to, NEW pairs, Orientation(from, to, pairs) # None
  PROVE  LET o == Orientation(from, to, pairs) IN
         \/ o = [pair |-> <<from, to>>, side |-> 1, isbase |-> 1]
         \/ o = [pair |-> <<to, from>>, side |-> 0, isbase |-> 0] /\ from # to
BY DEF Orientation

\* What is asked of an orientation sells the token that the caller sells.
LEMMA AsksRight ==
  ASSUME NEW k \in Calls, NEW from, NEW to, NEW pairs, NEW id,
         Orientation(from, to, pairs) # None,
         asked'[k] = Asks(id, Orientation(from, to, pairs)),
         ask'[k].from = from, ask'[k].to = to
  PROVE  AskedOK(k)'
<1> DEFINE o == Orientation(from, to, pairs)
<1>1. CASE o = [pair |-> <<from, to>>, side |-> 1, isbase |-> 1]
  BY <1>1 DEF AskedOK, Asks
<1>2. CASE o = [pair |-> <<to, from>>, side |-> 0, isbase |-> 0] /\ from # to
  BY <1>2 DEF AskedOK, Asks
<1> QED
  BY <1>1, <1>2, OrientationIs

\* A call that neither reads nor moves keeps the rest by its kind.
LEMMA NotOfTheirs ==
  ASSUME NEW k \in Calls, ask'[k].kind \in {"pairs", "quote"}
  PROVE  RowsOK(k)' /\ WholeOK(k)' /\ PagesOK(k)' /\ MoveOK(k)' /\ CoverOK(k)'
BY NotOfRows, NotOfMoves DEF PagesOK, Rows, Queries, Moves

LEMMA GetPairsKeeps ==
  ASSUME Shape, WorldOK, NEW k \in Calls, CallOK(k), NEW q \in Requests[k], GetPairs(k, q),
         UNCHANGED transferVars
  PROVE  CallOK(k)'
<1> DEFINE r == Resolve(config, q.ref, active, FALSE)
<1>1. /\ q.kind = "pairs" /\ ask'[k] = q /\ phase'[k] \in {"done", "fetching"}
      /\ phase'[k] # "done" => answer'[k] = None
      /\ sent'[k] = None /\ asked'[k] = None /\ todo'[k] = {}
      /\ chain'[k] = IF r.ok THEN r.chain ELSE None
      /\ began'[k].config = config /\ began'[k].active = active
  BY IdleIs DEF GetPairs, End, Begins, Shape, transferVars
<1>2. PhaseOK(k)' /\ AskedOK(k)'
  BY <1>1 DEF PhaseOK, Phases, AskedOK, Began, Queries, Moves
<1>3. MeantOK(k)'
  <2>1. CASE ~r.ok
    BY <1>1, <2>1 DEF MeantOK
  <2>2. CASE r.ok
    BY <1>1, <2>2, MeantAtFirst DEF WorldOK
  <2> QED BY <2>1, <2>2
<1> QED
  BY <1>1, <1>2, <1>3, NotOfTheirs DEF CallOK

LEMMA QuoteKeeps ==
  ASSUME Shape, WorldOK, NEW k \in Calls, CallOK(k), NEW q \in Requests[k], Quote(k, q),
         UNCHANGED transferVars
  PROVE  CallOK(k)'
<1> DEFINE ref == IF q.ref = None THEN active ELSE q.ref
           r == IF q.ref = None /\ active = None THEN Unresolved("required")
                ELSE Resolve(config, ref, active, FALSE)
           rfq == Orientation(q.from, q.to, Known(r.chain.id))
           found == IF rfq # None THEN rfq ELSE Orientation(q.from, q.to, clobPairs)
<1>1. /\ q.kind = "quote" /\ ask'[k] = q /\ sent'[k] = None /\ todo'[k] = {}
      /\ chain'[k] = IF r.ok THEN r.chain ELSE None
      /\ began'[k].config = config /\ began'[k].active = active
  BY IdleIs DEF Quote, Begins, Shape, transferVars
<1>2. /\ phase'[k] # "done" => answer'[k] = None
      /\ \/ phase'[k] \in {"done", "pairing"} /\ asked'[k] = None
         \/ phase'[k] = "quoting" /\ r.ok /\ found # None /\ asked'[k] = Asks(r.chain.id, found)
  <2> HIDE DEF r, found
  <2>1. CASE ~r.ok
    BY <2>1, IdleIs DEF Quote, End, Shape, r
  <2>2. CASE r.ok /\ found # None
    BY <2>2, IdleIs DEF Quote, Shape, r, found
  <2>3. CASE r.ok /\ found = None
    BY <2>3, IdleIs DEF Quote, End, Shape, r, found
  <2> QED BY <2>1, <2>2, <2>3
<1>3. PhaseOK(k)'
  BY <1>1, <1>2 DEF PhaseOK, Phases, Began, Queries, Moves
<1>4. AskedOK(k)'
  <2>1. CASE asked'[k] = None
    BY <2>1 DEF AskedOK
  <2>2. CASE asked'[k] # None
    <3>1. PICK pairs : found = Orientation(q.from, q.to, pairs)
      OBVIOUS
    <3> HIDE DEF found, r
    <3>2. PICK id : asked'[k] = Asks(id, found) /\ found # None
      BY <1>2, <2>2
    <3> QED BY <1>1, <3>1, <3>2, AsksRight
  <2> QED BY <2>1, <2>2
<1>5. MeantOK(k)'
  <2>1. CASE ~r.ok
    BY <1>1, <2>1 DEF MeantOK
  <2>2. CASE r.ok
    <3>1. r = Resolve(config, ref, active, FALSE) /\ chain'[k] = r.chain
      BY <1>1, <2>2 DEF Unresolved
    <3>2. ask'[k].ref = ref \/ ask'[k].ref = None
      BY <1>1
    <3> HIDE DEF r, ref
    <3> QED BY <1>1, <2>2, <3>1, <3>2, MeantAtFirst DEF WorldOK
  <2> QED BY <2>1, <2>2
<1> QED
  BY <1>1, <1>3, <1>4, <1>5, NotOfTheirs DEF CallOK

\* The answers of the API, and the pairs a quote waits for.
LEMMA ArrivesMoves ==
  ASSUME Shape, NEW k \in Calls, CallOK(k),
         PairsArrive(k) \/ ClobPairsArrive(k) \/ QuoteArrives(k),
         UNCHANGED transferVars
  PROVE  CallOK(k)'
<1>1. /\ phase[k] \in {"fetching", "pairing", "quoting"} /\ phase'[k] \in {"done", "quoting"}
      /\ phase'[k] = "quoting" => phase[k] = "pairing" /\ answer'[k] = answer[k]
      /\ Kept(k) /\ Unmoved(k) /\ todo'[k] = todo[k]
  BY DEF PairsArrive, ClobPairsArrive, QuoteArrives, End, Shape, Kept, Unmoved, transferVars
<1>2. /\ ask[k].kind \in {"pairs", "quote"} /\ ask'[k] = ask[k] /\ sent'[k] = None
      /\ phase[k] = "pairing" => ask[k].kind = "quote"
      /\ todo[k] = {} /\ answer[k] = None
  BY <1>1 DEF CallOK, PhaseOK, Kept, Unmoved
<1>3. PhaseOK(k)'
  BY <1>1, <1>2 DEF PhaseOK, Phases, Queries, Moves, Began
<1>4. AskedOK(k)' /\ MeantOK(k)'
  <2>1. MeantOK(k)'
    BY <1>1 DEF CallOK, MeantOK, Kept
  <2>2. CASE asked'[k] = asked[k]
    BY <1>2, <2>1, <2>2 DEF CallOK, AskedOK
  <2>3. CASE asked'[k] # asked[k]
    <3>1. PICK id, pairs :
            /\ Orientation(ask[k].from, ask[k].to, pairs) # None
            /\ asked'[k] = Asks(id, Orientation(ask[k].from, ask[k].to, pairs))
      BY <2>3 DEF PairsArrive, ClobPairsArrive, QuoteArrives, quoteVars, Shape
    <3> QED BY <1>2, <2>1, <3>1, AsksRight
  <2> QED BY <2>1, <2>2, <2>3
<1> QED
  BY <1>2, <1>3, <1>4, NotOfTheirs DEF CallOK

-----------------------------------------------------------------------------
(* All steps *)

LEMMA ActsMoves ==
  ASSUME Shape, WorldOK, KeptOK, \A i \in Calls : CallOK(i), NEW k \in Calls, Acts(k)
  PROVE  CallOK(k)'
<1>1. CASE QueryStep(k) /\ UNCHANGED <<transferVars, quoteVars>>
  BY <1>1, QueryKeeps, ReadRowMoves, ReadPageMoves, AssembleMoves, BatchEndsMoves DEF QueryStep
<1>2. CASE TransferStep(k) /\ UNCHANGED quoteVars
  BY <1>2, TransferKeeps, CheckBalanceMoves, SendMoves DEF TransferStep
<1>3. CASE QuoteStep(k) /\ UNCHANGED transferVars
  BY <1>3, GetPairsKeeps, QuoteKeeps, ArrivesMoves DEF QuoteStep
<1> QED
  BY <1>1, <1>2, <1>3 DEF Acts

LEMMA NextCallsInv == CallsInv /\ [Next]_vars => CallsInv'
<1> SUFFICES ASSUME CallsInv, [Next]_vars PROVE CallsInv'
  OBVIOUS
<1>1. CASE Around
  <2>1. WorldOK' /\ Grows
    BY <1>1, AroundKeeps DEF CallsInv
  <2>2. UNCHANGED <<callVars, transferVars, asked>>
    BY <1>1, AroundCalls
  <2>3. Shape' /\ \A k \in Calls : Same(k)
    BY <2>2 DEF CallsInv, Shape, Same, Kept, Unread, Unmoved, Unasked, callVars, transferVars
  <2>4. KeptOK'
    <3>1. kept' \subseteq kept
      BY <1>1 DEF Around, WorldChanges, Forget, RefreshPairs, RefreshedPairs, ForgetPairs,
                  cacheVars, vars
    <3> QED BY <2>3, <3>1 DEF CallsInv, KeptOK, Same
  <2> QED BY <2>1, <2>3, <2>4, Undisturbed DEF CallsInv, WorldOK
<1>2. ASSUME NEW j \in Calls, Acts(j) PROVE CallsInv'
  <2>1. WorldOK' /\ Grows
    BY <1>2, ActsKeep DEF CallsInv
  <2>2. Shape' /\ \A k \in Calls \ {j} : Same(k)
    BY <1>2, Apart DEF CallsInv
  <2>3. CallOK(j)'
    BY <1>2, ActsMoves DEF CallsInv
  <2>4. \A k \in Calls \ {j} : CallOK(k)'
    BY <2>1, <2>2, Undisturbed DEF CallsInv, WorldOK
  <2>5. KeptOK'
    BY <1>2, KeptKeeps DEF CallsInv, CallOK
  <2> QED BY <2>1, <2>2, <2>3, <2>4, <2>5 DEF CallsInv
<1> QED
  BY <1>1, <1>2, NextIs

\* The inductive invariant: the world's history has every balance there is or is cached, what
\* is kept is an answer, and each call is where its request, its chain and what it has read
\* put it.
THEOREM CallsInvariant == Spec => []CallsInv
BY InitCallsInv, NextCallsInv, PTL DEF Spec
-----------------------------------------------------------------------------
(* What follows *)

\* Every call is in a known phase and answered only at its end, with nothing left to read; what
\* is sent has a quantity, and no step overdraws a balance.
THEOREM CallsTypesCorrect == Spec => []CallsTypeOK
<1>1. ASSUME CallsInv, NEW k \in Calls
      PROVE  /\ phase[k] \in Phases
             /\ phase[k] # "done" => answer[k] = None
             /\ phase[k] # "reading" => todo[k] = {}
             /\ sent[k] # None => quantity[k] \in Nat
  BY <1>1 DEF CallsInv, CallOK, PhaseOK, MoveOK, Moving, Began
<1>2. CallsInv => CallsTypeOK
  BY <1>1 DEF CallsInv, WorldOK, WorldTypes, CallsTypeOK
<1> QED
  BY <1>2, CallsInvariant, PTL

\* What a caller's words mean: a call is only ever of a chain that its reference names, and
\* never of one picked among several (resolve_chain_reference, _prefer_active_chain).
THEOREM ReferenceHonouredCorrect == Spec => []ReferenceHonoured
<1>1. CallsInv => ReferenceHonoured
  BY DEF CallsInv, CallOK, MeantOK, ReferenceHonoured, Honoured
<1> QED
  BY <1>1, CallsInvariant, PTL

\* A balance answer, of the cache or not, has a row for all that was asked, and each is a
\* balance its account has had there, shown with decimals the token has had there (the
\* balance methods of transfer.py).
THEOREM AnswersAddUpCorrect == Spec => []AnswersAddUp
<1>1. ASSUME CallsInv, NEW k \in Calls, phase[k] = "done", ask[k].kind \in Queries \ {"pages"}
      PROVE  /\ Whole(k)
             /\ \A p \in GoodRows(k) : \E raw \in had[who[k]][p], d \in worth[p] :
                  rows[k][p].value = Shown(raw, d)
  <2>1. CallOK(k) /\ Began(k) /\ ask[k].kind \in Rows
    BY <1>1 DEF CallsInv, Began, Rows
  <2>2. Whole(k)
    BY <1>1, <2>1 DEF CallOK, WholeOK
  <2>3. \A p \in GoodRows(k) : Has(rows[k][p].value, who[k], p)
    BY <2>1 DEF CallOK, RowsOK, ReadsRows
  <2> QED BY <2>2, <2>3 DEF Has
<1>2. CallsInv => AnswersAddUp
  BY <1>1 DEF AnswersAddUp
<1> QED
  BY <1>2, CallsInvariant, PTL

\* All portfolio balances are those of every page there was as their reading began, by this
\* call or by the one whose answer the cache kept (get_all_portfolio_balances).
THEOREM PagesCompleteCorrect == Spec => []PagesComplete
<1>1. CallsInv => PagesComplete
  BY DEF CallsInv, CallOK, PagesOK, PagesWhole, PagesComplete, Began
<1> QED
  BY <1>1, CallsInvariant, PTL

\* What is taken from a portfolio was once there, as far as the floats that are compared can
\* tell (transfer_portfolio).
THEOREM CoveredAsReadCorrect == Spec => []CoveredAsRead
<1>1. ASSUME CallsInv, NEW k \in Calls, sent[k] # None, ask[k].kind = "transfer_portfolio"
      PROVE  Covered(k, DecimalsOf(k))
  <2>1. CallOK(k) /\ phase[k] = "done" /\ Moving(k)
    BY <1>1 DEF CallsInv, CallOK, PhaseOK, Moving, Moves, Began
  <2> QED BY <1>1, <2>1 DEF CallOK, CoverOK
<1>2. CallsInv => CoveredAsRead
  BY <1>1 DEF CoveredAsRead, Covered, Pays
<1> QED
  BY <1>2, CallsInvariant, PTL

\* A transfer moves the amount that was typed, in units of where its token is taken from or
\* sent to, save a portfolio transfer of a token without decimals; a deposit is made on the
\* client's own chain (deposit, withdraw, transfer_token, transfer_portfolio, add_gas,
\* remove_gas).
THEOREM MovesWhatWasAskedCorrect == Spec => []MovesWhatWasAsked
<1>1. ASSUME CallsInv, NEW k \in Calls, sent[k] # None
      PROVE  /\ DecimalsOf(k) # None /\ ~Miscounted(k) => AsAsked(k)
             /\ ask[k].kind = "deposit" => chain[k].id = began[k].active
  <2>1. CallOK(k) /\ Moving(k)
    BY <1>1 DEF CallsInv, CallOK, PhaseOK, Moving, Began
  <2>2. ASSUME DecimalsOf(k) # None, ~Miscounted(k) PROVE AsAsked(k)
    <3>1. PICK d : d = DecimalsOf(k)
      OBVIOUS
    <3>2. /\ ask[k].amount \in Nat /\ d \in 0..Default
          /\ sent[k].quantity = ToBase(ask[k].amount, d)
      BY <1>1, <2>1, <2>2, <3>1 DEF CallOK, MoveOK
    <3> QED BY <3>1, <3>2, ToBaseCuts DEF AsAsked
  <2> QED BY <2>1, <2>2 DEF CallOK, MoveOK
<1>2. CallsInv => MovesWhatWasAsked
  BY <1>1 DEF MovesWhatWasAsked
<1> QED
  BY <1>2, CallsInvariant, PTL

\* A quote sells what the caller sells, whichever way its pair is listed (_resolve_pair).
THEOREM QuoteSellsFromCorrect == Spec => []QuoteSellsFrom
<1>1. CallsInv => QuoteSellsFrom
  BY DEF CallsInv, CallOK, AskedOK, QuoteSellsFrom
<1> QED
  BY <1>1, CallsInvariant, PTL
=============================================================================
