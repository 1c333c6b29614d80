-------------------------- MODULE AsyncCacheProofs --------------------------
(***************************************************************************)
(* Proofs about AsyncCache, for any callers, keys, clients and bounds.     *)
(*                                                                         *)
(* The argument: the fetch of a key that is in flight for a caching client *)
(* is the one its pending future names, and while there is one the key is  *)
(* not stored.  So what is on its way and what is stored are never both    *)
(* there, and each is at least as new as all that was returned: the cache  *)
(* is a LaggingRegister.                                                   *)
(***************************************************************************)
EXTENDS AsyncCache, FiniteSetTheorems, WellFoundedInduction, TLAPS

\* The futures: a fetch in flight is the one that the future of its key names.
FuturesOK ==
  /\ \A c \in Callers : Cached(c) /\ Fetching(c) => pending[KeyOf[c]] = c
  /\ \A k \in Keys, c \in Callers : pending[k] = c => Cached(c) /\ Fetching(c) /\ KeyOf[c] = k

\* A key that is being fetched is not stored.
FetchedIsNotStored == \A k \in Keys : pending[k] # Nobody => k \notin DOMAIN store

\* A waiter waits for a fetch of its own key.
WaitersOK ==
  \A w \in Callers : phase[w] = "waiting" =>
    /\ Cached(w)
    /\ leader[w] \in Callers /\ Cached(leader[w]) /\ KeyOf[leader[w]] = KeyOf[w]
    /\ Fetching(leader[w]) \/ phase[leader[w]] = "cancelled"

\* Nothing that was read is newer than the source.
ReadFromSource ==
  /\ \A c \in Callers : phase[c] \in {"answered", "done"} => got[c] \in 1..version[KeyOf[c]]
  /\ \A k \in DOMAIN store : store[k].val <= version[k]

\* What is stored or on its way is at least as new as what was returned.
NewerThanReturned ==
  \A d \in Callers : Cached(d) /\ phase[d] = "done" =>
    /\ KeyOf[d] \in DOMAIN store => got[d] <= store[KeyOf[d]].val
    /\ \A c \in Callers :
         Cached(c) /\ KeyOf[c] = KeyOf[d] /\ phase[c] = "answered" => got[d] <= got[c]

\* What is stored or on its way was read after the last quiet invalidation.
ReadAfterQuiet ==
  /\ \A k \in Keys : quiet[k] <= version[k]
  /\ \A k \in DOMAIN store : quiet[k] <= store[k].val
  /\ \A c \in Callers : since[c].quiet <= quiet[KeyOf[c]]
  /\ \A c \in Callers : Cached(c) /\ phase[c] = "answered" => quiet[KeyOf[c]] <= got[c]

FlightInv == CacheTypeOK /\ FuturesOK /\ FetchedIsNotStored /\ WaitersOK /\ ReadFromSource

Versions ==
  NewerThanReturned /\ ReadAfterQuiet /\ FreshAfterQuietInvalidation /\ StateKeepsUp

\* FlightInv is inductive, and with it so is Versions.
CacheInv == FlightInv /\ Versions

---------------------------------------------------------------------------
(* The store *)

\* A store without some of its keys is one in the same order, with the same entries.
LEMMA KeepingKeeps ==
  ASSUME NEW s, s \in [DOMAIN s -> EntryTypes], NEW K \in SUBSET DOMAIN s,
         NEW t, t = Keeping(s, K)
  PROVE  /\ DOMAIN t = K
         /\ \A k \in K : /\ t[k].val = s[k].val /\ t[k].age = s[k].age
                         /\ t[k].before = s[k].before \cap K
         /\ t \in [K -> EntryTypes]
         /\ InsertionOrder(s) => InsertionOrder(t)
<1>1. DOMAIN t = K /\ t = [k \in K |-> t[k]]
  BY DEF Keeping
<1>2. ASSUME NEW k \in K
      PROVE  /\ t[k].val = s[k].val /\ t[k].age = s[k].age /\ t[k].before = s[k].before \cap K
             /\ t[k] \in EntryTypes
  <2>1. t[k] = [s[k] EXCEPT !.before = @ \cap K]
    BY DEF Keeping
  <2>2. s[k] \in EntryTypes
    OBVIOUS
  <2> QED BY <2>1, <2>2 DEF EntryTypes
<1>3. t \in [K -> EntryTypes]
  BY <1>1, <1>2
<1>4. InsertionOrder(s) => InsertionOrder(t)
  BY <1>1, <1>2 DEF InsertionOrder
<1> QED BY <1>1, <1>2, <1>3, <1>4

\* The first key of a store that holds any has none before it.
LEMMA OneIsFirst ==
  ASSUME NEW s, InsertionOrder(s), IsFiniteSet(DOMAIN s), DOMAIN s # {}
  PROVE  \E k \in DOMAIN s : s[k].before = {}
<1> DEFINE Earlier == StrictSubsetOrdering(DOMAIN s)
           Befores == {s[k].before : k \in DOMAIN s}
<1>1. IsWellFoundedOn(Earlier, FiniteSubsetsOf(DOMAIN s))
  BY FS_StrictSubsetOrderingWellFounded
<1>2. Befores \subseteq FiniteSubsetsOf(DOMAIN s) /\ Befores # {}
  BY FS_FiniteSubsetsOfFinite DEF InsertionOrder
<1>3. PICK b \in Befores : \A a \in Befores : <<a, b>> \notin Earlier
  <2> HIDE DEF Befores, Earlier
  <2> QED BY <1>1, <1>2, WFMin
<1>4. PICK k \in DOMAIN s : b = s[k].before
  OBVIOUS
<1>5. ASSUME NEW j \in b PROVE FALSE
  <2>1. j \in DOMAIN s /\ s[j].before \subseteq b /\ j \notin s[j].before
    BY <1>4, <1>5 DEF InsertionOrder
  <2>2. b \subseteq DOMAIN s
    BY <1>4 DEF InsertionOrder
  <2>3. <<s[j].before, b>> \in Earlier
    BY <2>1, <2>2, <1>5 DEF StrictSubsetOrdering
  <2> QED BY <1>3, <2>1, <2>3
<1> QED BY <1>4, <1>5

LEMMA KeepingIsDict ==
  ASSUME NEW s, Dict(s), NEW K \in SUBSET DOMAIN s, NEW t, t = Keeping(s, K)
  PROVE  /\ Dict(t) /\ DOMAIN t = K /\ Cardinality(DOMAIN t) <= Cardinality(DOMAIN s)
         /\ \A k \in K : t[k].val = s[k].val /\ t[k].age = s[k].age
BY KeepingKeeps, FS_Subset DEF Dict

\* get serves nothing that is dropped, and changes no value.
LEMMA LookupKeeps ==
  ASSUME NEW s, Dict(s), NEW k, NEW t, t = AfterLookup(s, k)
  PROVE  /\ Dict(t) /\ DOMAIN t \subseteq DOMAIN s
         /\ Cardinality(DOMAIN t) <= Cardinality(DOMAIN s)
         /\ \A j \in DOMAIN t : t[j].val = s[j].val
         /\ ~Servable(s, k) => k \notin DOMAIN t
<1> DEFINE K == {j \in DOMAIN s : j # k \/ s[j].age <= TTL}
<1>1. K \in SUBSET DOMAIN s /\ t = Keeping(s, K)
  BY DEF AfterLookup
<1>2. ~Servable(s, k) => k \notin K
  BY DEF Servable, Has
<1> HIDE DEF K
<1> QED BY <1>1, <1>2, KeepingIsDict

\* The write adds at most the key it is for.
LEMMA WriteAddsOne ==
  ASSUME NEW s, Dict(s), NEW k \in Keys, NEW v \in Nat \ {0}, NEW t, t = Written(s, k, v)
  PROVE  /\ Dict(t) /\ k \in DOMAIN t /\ \A j \in DOMAIN t : j \in DOMAIN s \/ j = k
         /\ Cardinality(DOMAIN t) <= Cardinality(DOMAIN s) + 1
         /\ t[k].val = v
         /\ \A j \in DOMAIN s : j # k => t[j] = s[j]
<1> DEFINE B == IF k \in DOMAIN s THEN s[k].before ELSE DOMAIN s
<1>1. /\ DOMAIN t = DOMAIN s \cup {k} /\ t = [j \in DOMAIN t |-> t[j]]
      /\ t[k] = [val |-> v, age |-> 0, before |-> B]
      /\ \A j \in DOMAIN s : j # k => t[j] = s[j]
  BY DEF Written, Entry, Has
<1>2. IsFiniteSet(DOMAIN t) /\ Cardinality(DOMAIN t) <= Cardinality(DOMAIN s) + 1
  BY <1>1, FS_AddElement, FS_CardinalityType DEF Dict
<1>3. B \subseteq DOMAIN s /\ B \subseteq Keys
  BY DEF Dict, InsertionOrder
<1>4. t \in [DOMAIN t -> EntryTypes]
  <2>1. t[k] \in EntryTypes
    BY <1>1, <1>3, CacheAssumption DEF EntryTypes
  <2>2. \A j \in DOMAIN t : t[j] \in EntryTypes
    BY <1>1, <2>1 DEF Dict
  <2> QED BY <1>1, <2>2
<1>5. InsertionOrder(t)
  <2>1. t[k].before = B /\ \A j \in DOMAIN s : j # k => t[j].before = s[j].before
    BY <1>1
  <2>2. CASE k \in DOMAIN s
    <3>1. DOMAIN t = DOMAIN s /\ \A j \in DOMAIN s : t[j].before = s[j].before
      BY <1>1, <2>1, <2>2
    <3> QED BY <3>1 DEF Dict, InsertionOrder
  <2>3. CASE k \notin DOMAIN s
    <3>1. B = DOMAIN s
      BY <2>3
    <3>2. \A j \in DOMAIN t : j \notin t[j].before /\ t[j].before \subseteq DOMAIN t
      BY <1>1, <2>1, <3>1, <2>3 DEF Dict, InsertionOrder
    <3>3. \A i, j \in DOMAIN t : i = j \/ i \in t[j].before \/ j \in t[i].before
      BY <1>1, <2>1, <3>1, <2>3 DEF Dict, InsertionOrder
    <3>4. \A i, j \in DOMAIN t : i \in t[j].before => t[i].before \subseteq t[j].before
      BY <1>1, <2>1, <3>1, <2>3 DEF Dict, InsertionOrder
    <3> QED BY <3>2, <3>3, <3>4 DEF InsertionOrder
  <2> QED BY <2>2, <2>3
<1> QED
  BY <1>1, <1>2, <1>4, <1>5 DEF Dict

\* _trim evicts at least the first key of a store that has one key too many.
LEMMA TrimBounds ==
  ASSUME NEW s, Dict(s), Cardinality(DOMAIN s) <= MaxSize + 1, NEW t, t = Trimmed(s)
  PROVE  /\ Dict(t) /\ DOMAIN t \subseteq DOMAIN s
         /\ Cardinality(DOMAIN t) <= MaxSize
         /\ \A j \in DOMAIN t : t[j].val = s[j].val
<1> DEFINE n == Cardinality(DOMAIN s)
           K == {k \in DOMAIN s : n <= Cardinality(s[k].before) + MaxSize}
<1>1. K \in SUBSET DOMAIN s /\ t = Keeping(s, K)
  BY DEF Trimmed
<1>2. n \in Nat /\ IsFiniteSet(DOMAIN s) /\ InsertionOrder(s)
  BY FS_CardinalityType DEF Dict
<1>3. IsFiniteSet(K) /\ Cardinality(K) \in Nat
  BY <1>1, <1>2, FS_Subset, FS_CardinalityType
<1>4. Cardinality(K) <= MaxSize
  <2>1. CASE n <= MaxSize
    <3>1. Cardinality(K) <= n
      BY <1>1, <1>2, FS_Subset
    <3> HIDE DEF K, n
    <3> QED BY <1>2, <1>3, <2>1, <3>1, CacheAssumption
  <2>2. CASE n = MaxSize + 1
    <3>1. DOMAIN s # {}
      BY <1>2, <2>2, CacheAssumption, FS_EmptySet
    <3>2. PICK k \in DOMAIN s : s[k].before = {}
      BY <1>2, <3>1, OneIsFirst
    <3>3. k \notin K
      BY <2>2, <3>2, FS_EmptySet, CacheAssumption
    <3>4. K \subseteq DOMAIN s \ {k}
      BY <3>3
    <3>5. IsFiniteSet(DOMAIN s \ {k}) /\ Cardinality(DOMAIN s \ {k}) = n - 1
      BY <1>2, FS_RemoveElement
    <3>6. Cardinality(K) <= n - 1
      <4> HIDE DEF K, n
      <4> QED BY <3>4, <3>5, FS_Subset
    <3> HIDE DEF K, n
    <3> QED BY <1>2, <1>3, <2>2, <3>6, CacheAssumption
  <2> HIDE DEF K
  <2> QED BY <1>2, <2>1, <2>2, CacheAssumption
<1> HIDE DEF K
<1> QED BY <1>1, <1>4, KeepingIsDict

\* A write of a value leaves a dict within the limit, with no other new value.
LEMMA SetStores ==
  ASSUME NEW s, Dict(s), Cardinality(DOMAIN s) <= MaxSize, NEW w,
         NEW k \in Keys, NEW v \in Nat \ {0}, NEW t, t = AfterSet(s, k, v, w)
  PROVE  /\ Dict(t) /\ Cardinality(DOMAIN t) <= MaxSize
         /\ \A j \in DOMAIN t : j \in DOMAIN s \/ j = k
         /\ \A j \in DOMAIN t : t[j].val = IF j = k THEN v ELSE s[j].val
<1>1. PICK a : a = Written(s, k, v)
  OBVIOUS
<1>2. PICK b : b = Trimmed(a)
  OBVIOUS
<1>3. /\ Dict(a) /\ Cardinality(DOMAIN a) <= MaxSize + 1
      /\ \A j \in DOMAIN a : j \in DOMAIN s \/ j = k
      /\ \A j \in DOMAIN a : a[j].val = IF j = k THEN v ELSE s[j].val
  <2>1. /\ Dict(a) /\ Cardinality(DOMAIN a) <= Cardinality(DOMAIN s) + 1
        /\ \A j \in DOMAIN a : j \in DOMAIN s \/ j = k
        /\ a[k].val = v
        /\ \A j \in DOMAIN s : j # k => a[j] = s[j]
    BY <1>1, WriteAddsOne
  <2>2. Cardinality(DOMAIN s) \in Nat /\ Cardinality(DOMAIN a) \in Nat
    BY <2>1, FS_CardinalityType DEF Dict
  <2> QED BY <2>1, <2>2, CacheAssumption
<1>4. /\ Dict(b) /\ Cardinality(DOMAIN b) <= MaxSize /\ DOMAIN b \subseteq DOMAIN a
      /\ \A j \in DOMAIN b : b[j].val = a[j].val
  BY <1>2, <1>3, TrimBounds
<1>5. CASE w # CleanupInterval - 1
  <2>1. t = b
    BY <1>1, <1>2, <1>5 DEF AfterSet
  <2> QED BY <1>3, <1>4, <2>1
<1>6. CASE w = CleanupInterval - 1
  <2> DEFINE K == {j \in DOMAIN b : b[j].age < TTL}
  <2>1. t = Keeping(b, K) /\ K \in SUBSET DOMAIN b
    BY <1>1, <1>2, <1>6 DEF AfterSet, Cleaned
  <2> HIDE DEF K
  <2>2. /\ Dict(t) /\ DOMAIN t = K /\ Cardinality(DOMAIN t) <= Cardinality(DOMAIN b)
        /\ \A j \in K : t[j].val = b[j].val
    BY <1>4, <2>1, KeepingIsDict
  <2>3. Cardinality(DOMAIN t) \in Nat /\ Cardinality(DOMAIN b) \in Nat
    BY <1>4, <2>2, FS_CardinalityType DEF Dict
  <2> QED BY <1>3, <1>4, <2>1, <2>2, <2>3, CacheAssumption
<1> QED BY <1>5, <1>6

\* Time changes no value.
LEMMA AgedKeeps ==
  ASSUME NEW s, Dict(s), NEW t, t = Aged(s)
  PROVE  /\ Dict(t) /\ DOMAIN t = DOMAIN s
         /\ \A j \in DOMAIN t : t[j].val = s[j].val
<1>1. DOMAIN t = DOMAIN s /\ t = [k \in DOMAIN s |-> t[k]]
  BY DEF Aged
<1>2. ASSUME NEW k \in DOMAIN s
      PROVE  t[k].val = s[k].val /\ t[k].before = s[k].before /\ t[k] \in EntryTypes
  <2>1. t[k] = [s[k] EXCEPT !.age = IF @ <= TTL THEN @ + 1 ELSE @]
    BY DEF Aged
  <2>2. s[k] \in EntryTypes
    BY DEF Dict
  <2> QED BY <2>1, <2>2, CacheAssumption DEF EntryTypes
<1>3. t \in [DOMAIN t -> EntryTypes]
  BY <1>1, <1>2
<1> QED BY <1>1, <1>2, <1>3 DEF Dict, InsertionOrder

---------------------------------------------------------------------------
(* The calls *)

LEMMA CallType ==
  ASSUME NEW c \in Callers
  PROVE  KeyOf[c] \in Keys /\ ClientOf[c] \in Clients
BY CallersAssumption

\* The calls that a fetch answers are for its key, and cached if it is.
LEMMA AnsweredAreAlike ==
  ASSUME WaitersOK, NEW c \in Callers, NEW w \in AnsweredBy(c)
  PROVE  w \in Callers /\ KeyOf[w] = KeyOf[c] /\ (w # c => Cached(w) /\ Cached(c))
BY DEF WaitersOK, AnsweredBy

LEMMA FlightInit == Init => FlightInv
<1> SUFFICES ASSUME Init PROVE FlightInv
  OBVIOUS
<1>1. Dict(store) /\ Cardinality(DOMAIN store) <= MaxSize
  <2>1. DOMAIN store = {}
    BY DEF Init, EmptyStore
  <2>2. store \in [{} -> EntryTypes]
    BY DEF Init, EmptyStore
  <2> QED BY <2>1, <2>2, FS_EmptySet, CacheAssumption DEF Dict, InsertionOrder
<1>2. CacheTypeOK
  BY <1>1, CacheAssumption, BoundsAssumption DEF Init, CacheTypeOK, Phases
<1>3. DOMAIN store = {}
  BY DEF Init, EmptyStore
<1> QED
  BY <1>2, <1>3, CallType, CallersAssumption
     DEF Init, FlightInv, FuturesOK, FetchedIsNotStored, WaitersOK, ReadFromSource, Fetching

\* An empty store is a dict.
LEMMA EmptyIsDict == Dict(EmptyStore) /\ DOMAIN EmptyStore = {} /\ Cardinality(DOMAIN EmptyStore) <= MaxSize
<1>1. DOMAIN EmptyStore = {} /\ EmptyStore \in [{} -> EntryTypes]
  BY DEF EmptyStore
<1> QED BY <1>1, FS_EmptySet, CacheAssumption DEF Dict, InsertionOrder

LEMMA CacheTypeStep == FlightInv /\ [Next]_vars => CacheTypeOK'
<1> SUFFICES ASSUME FlightInv, [Next]_vars PROVE CacheTypeOK'
  OBVIOUS
<1> USE CallType, CallersAssumption DEF Phases
<1>0. CacheTypeOK /\ WaitersOK /\ ReadFromSource
  BY DEF FlightInv
<1>1. ASSUME NEW c \in Callers, Bypass(c) PROVE CacheTypeOK'
  BY <1>0, <1>1 DEF Bypass, Start, CacheTypeOK, cacheVars
<1>2. ASSUME NEW c \in Callers, Hit(c) PROVE CacheTypeOK'
  <2>1. store[KeyOf[c]].val \in Nat
    BY <1>0, <1>2 DEF Hit, Servable, Has, CacheTypeOK, Dict, EntryTypes
  <2> QED BY <1>0, <1>2, <2>1 DEF Hit, Start, Keep, CacheTypeOK, cacheVars
<1>3. ASSUME NEW c \in Callers, Miss(c) PROVE CacheTypeOK'
  <2>1. Dict(store') /\ Cardinality(DOMAIN store') <= MaxSize
    <3>1. PICK t : t = AfterLookup(store, KeyOf[c])
      OBVIOUS
    <3>2. Dict(t) /\ Cardinality(DOMAIN t) <= Cardinality(DOMAIN store)
      BY <1>0, <3>1, LookupKeeps DEF CacheTypeOK
    <3>3. Cardinality(DOMAIN store) \in Nat /\ Cardinality(DOMAIN t) \in Nat
      BY <1>0, <3>2, FS_CardinalityType DEF CacheTypeOK, Dict
    <3> QED BY <1>0, <1>3, <3>1, <3>2, <3>3, CacheAssumption DEF Miss, CacheTypeOK
  <2>2. /\ since' \in [Callers -> [floor : Nat, quiet : Nat]]
        /\ pending' \in [Keys -> Callers \cup {Nobody}]
        /\ leader' \in [Callers -> Callers \cup {Nobody}]
        /\ phase' \in [Callers -> Phases]
    <3>1. since' \in [Callers -> [floor : Nat, quiet : Nat]]
      BY <1>0, <1>3 DEF Miss, Start, CacheTypeOK
    <3>2. CASE pending[KeyOf[c]] = Nobody
      <4>1. /\ pending' = [pending EXCEPT ![KeyOf[c]] = c]
            /\ leader' = [leader EXCEPT ![c] = c]
            /\ phase' = [phase EXCEPT ![c] = "fetching"]
        BY <1>3, <3>2 DEF Miss
      <4> QED BY <1>0, <3>1, <4>1 DEF CacheTypeOK
    <3>3. CASE pending[KeyOf[c]] # Nobody
      BY <1>0, <1>3, <3>1, <3>3 DEF Miss, CacheTypeOK
    <3> QED BY <3>2, <3>3
  <2>3. UNCHANGED <<writes, got, version, state, invalidations, floor, quiet>>
    BY <1>3 DEF Miss
  <2> QED BY <1>0, <2>1, <2>2, <2>3 DEF CacheTypeOK
<1>4. ASSUME NEW c \in Callers, SourceReads(c) PROVE CacheTypeOK'
  BY <1>0, <1>4 DEF SourceReads, CacheTypeOK, cacheVars
<1>5. ASSUME NEW c \in Callers, FetchReturns(c) PROVE CacheTypeOK'
  <2>1. got[c] \in Nat \ {0}
    BY <1>0, <1>5 DEF FetchReturns, ReadFromSource, CacheTypeOK
  <2>2. /\ Dict(store') /\ Cardinality(DOMAIN store') <= MaxSize
        /\ writes' \in 0..(CleanupInterval - 1)
    <3>1. CASE Cached(c)
      <4>1. PICK t : t = AfterSet(store, KeyOf[c], got[c], writes)
        OBVIOUS
      <4>2. Dict(t) /\ Cardinality(DOMAIN t) <= MaxSize
        <5>1. Dict(store) /\ Cardinality(DOMAIN store) <= MaxSize /\ KeyOf[c] \in Keys
          BY <1>0 DEF CacheTypeOK
        <5> QED BY <2>1, <4>1, <5>1, SetStores
      <4> QED BY <1>0, <1>5, <3>1, <4>1, <4>2, CacheAssumption DEF FetchReturns, CacheTypeOK
    <3>2. CASE ~Cached(c)
      BY <1>0, <1>5, <3>2 DEF FetchReturns, CacheTypeOK
    <3> QED BY <3>1, <3>2
  <2>3. pending' \in [Keys -> Callers \cup {Nobody}]
    BY <1>0, <1>5 DEF FetchReturns, Unpend, CacheTypeOK
  <2>4. phase' \in [Callers -> Phases] /\ got' \in [Callers -> Nat]
    BY <1>0, <1>5, <2>1 DEF FetchReturns, Answer, CacheTypeOK
  <2>5. state' \in [Clients -> [Keys -> Nat]]
    BY <1>0, <1>5, <2>1 DEF FetchReturns, Keep, CacheTypeOK
  <2> QED BY <1>0, <1>5, <2>2, <2>3, <2>4, <2>5 DEF FetchReturns, CacheTypeOK
<1>6. ASSUME NEW c \in Callers, FetchFails(c) PROVE CacheTypeOK'
  BY <1>0, <1>6 DEF FetchFails, Unpend, Answer, CacheTypeOK
<1>7. ASSUME NEW c \in Callers, Cancel(c) PROVE CacheTypeOK'
  BY <1>0, <1>7 DEF Cancel, Unpend, CacheTypeOK
<1>8. ASSUME NEW k \in Keys, SourceChanges(k) PROVE CacheTypeOK'
  BY <1>0, <1>8 DEF SourceChanges, CacheTypeOK, cacheVars, callVars
<1>9. ASSUME Invalidate PROVE CacheTypeOK'
  BY <1>0, <1>9, EmptyIsDict, BoundsAssumption
     DEF Invalidate, Invalidated, CacheTypeOK, callVars
<1>10. ASSUME Tick PROVE CacheTypeOK'
  <2>1. Dict(store') /\ DOMAIN store' = DOMAIN store
    <3>1. PICK t : t = Aged(store)
      OBVIOUS
    <3>2. Dict(t) /\ DOMAIN t = DOMAIN store
      BY <1>0, <3>1, AgedKeeps DEF CacheTypeOK
    <3> QED BY <1>10, <3>1, <3>2 DEF Tick
  <2> QED BY <1>0, <1>10, <2>1 DEF Tick, CacheTypeOK, callVars
<1>11. ASSUME UNCHANGED vars PROVE CacheTypeOK'
  BY <1>0, <1>11 DEF vars, cacheVars, callVars, CacheTypeOK
<1> QED
  BY <1>1, <1>2, <1>3, <1>4, <1>5, <1>6, <1>7, <1>8, <1>9, <1>10, <1>11 DEF Next, CallStep

\* A step that leaves the calls, the futures and the source alone and stores nothing.
LEMMA FlightUndisturbed ==
  ASSUME FlightInv, UNCHANGED <<pending, phase, leader, got, version>>,
         DOMAIN store' \subseteq DOMAIN store,
         \A k \in DOMAIN store' : store'[k].val = store[k].val
  PROVE  FuturesOK' /\ FetchedIsNotStored' /\ WaitersOK' /\ ReadFromSource'
BY DEF FlightInv, FuturesOK, FetchedIsNotStored, WaitersOK, ReadFromSource, Cached, Fetching

\* A call that ends without a fetch of its own disturbs no other.
LEMMA FlightEnd ==
  ASSUME FlightInv, NEW c \in Callers, phase[c] \in {"idle", "waiting"},
         NEW p \in {"done", "cancelled"}, phase' = [phase EXCEPT ![c] = p],
         NEW v, v \in 1..version[KeyOf[c]] \/ p = "cancelled",
         got' = IF p = "done" THEN [got EXCEPT ![c] = v] ELSE got,
         UNCHANGED <<store, pending, leader, version>>
  PROVE  FuturesOK' /\ FetchedIsNotStored' /\ WaitersOK' /\ ReadFromSource'
<1>1. /\ \A d \in Callers : d # c => phase'[d] = phase[d] /\ got'[d] = got[d]
      /\ phase'[c] = p /\ (p = "done" => got'[c] = v)
      /\ \A d \in Callers : Fetching(d)' <=> Fetching(d)
  BY DEF FlightInv, CacheTypeOK, Fetching
<1>2. FuturesOK' /\ FetchedIsNotStored'
  BY <1>1 DEF FlightInv, CacheTypeOK, FuturesOK, FetchedIsNotStored, Cached
<1>3. WaitersOK'
  BY <1>1 DEF FlightInv, WaitersOK, Cached, Fetching
<1>4. ReadFromSource'
  BY <1>1 DEF FlightInv, ReadFromSource
<1> QED BY <1>2, <1>3, <1>4

\* A fetch ends, and with it the wait of those it answers (all of them, or none when
\* it is cancelled).
LEMMA FlightLands ==
  ASSUME FlightInv, NEW c \in Callers, Fetching(c), Unpend(c),
         NEW p \in {"done", "failed", "cancelled"},
         NEW W, W = IF p = "cancelled" THEN {c} ELSE AnsweredBy(c),
         phase' = [w \in Callers |-> IF w \in W THEN p ELSE phase[w]],
         UNCHANGED leader
  PROVE  /\ FuturesOK' /\ WaitersOK'
         /\ \A k \in Keys : pending'[k] # Nobody =>
              pending'[k] = pending[k] /\ (Cached(c) => k # KeyOf[c])
<1> USE CallType, CallersAssumption
<1>1. /\ CacheTypeOK /\ FuturesOK /\ WaitersOK
      /\ c \in W /\ W \subseteq Callers /\ \A w \in W : w # c => phase[w] = "waiting"
      /\ \A d \in Callers : phase[d] = "waiting" /\ leader[d] = c /\ p # "cancelled" => d \in W
  BY DEF FlightInv, AnsweredBy
<1>2. \A d \in Callers : phase'[d] = IF d \in W THEN p ELSE phase[d]
  OBVIOUS
<1>3. \A d \in Callers : Fetching(d)' <=> Fetching(d) /\ d # c
  BY <1>1, <1>2 DEF Fetching
<1>4. \A k \in Keys : pending'[k] = IF Cached(c) /\ k = KeyOf[c] THEN Nobody ELSE pending[k]
  BY <1>1 DEF CacheTypeOK, Unpend
<1>5. FuturesOK'
  <2>1. ASSUME NEW d \in Callers, Cached(d), Fetching(d)' PROVE pending'[KeyOf[d]] = d
    BY <1>1, <1>3, <1>4, <2>1 DEF FuturesOK
  <2>2. ASSUME NEW k \in Keys, NEW d \in Callers, pending'[k] = d
        PROVE  Cached(d) /\ Fetching(d)' /\ KeyOf[d] = k
    <3>1. pending[k] = d /\ ~ (Cached(c) /\ k = KeyOf[c])
      BY <1>1, <1>4, <2>2
    <3>2. Cached(d) /\ Fetching(d) /\ KeyOf[d] = k
      BY <1>1, <3>1 DEF FuturesOK
    <3> QED BY <1>3, <3>1, <3>2
  <2> QED BY <2>1, <2>2 DEF FuturesOK, Cached, Fetching
<1>6. WaitersOK'
  <2> SUFFICES ASSUME NEW w \in Callers, phase'[w] = "waiting"
               PROVE  /\ Cached(w)
                      /\ leader[w] \in Callers /\ Cached(leader[w]) /\ KeyOf[leader[w]] = KeyOf[w]
                      /\ Fetching(leader[w])' \/ phase'[leader[w]] = "cancelled"
    BY DEF WaitersOK, Cached, Fetching
  <2>1. phase[w] = "waiting" /\ w \notin W
    BY <1>2
  <2>2. PICK l \in Callers : l = leader[w]
    BY <1>1, <2>1 DEF WaitersOK
  <2>3. Cached(w) /\ Cached(l) /\ KeyOf[l] = KeyOf[w] /\ (Fetching(l) \/ phase[l] = "cancelled")
    BY <1>1, <2>1, <2>2 DEF WaitersOK
  <2>4. CASE l # c
    BY <1>1, <1>2, <1>3, <2>2, <2>3, <2>4 DEF Fetching
  <2>5. CASE l = c
    BY <1>1, <1>2, <2>1, <2>2, <2>3, <2>5 DEF Fetching
  <2> QED BY <2>4, <2>5
<1>7. \A k \in Keys : pending'[k] # Nobody => pending'[k] = pending[k] /\ (Cached(c) => k # KeyOf[c])
  BY <1>4
<1> QED BY <1>5, <1>6, <1>7

LEMMA FlightStep == FlightInv /\ [Next]_vars => FlightInv'
<1> SUFFICES ASSUME FlightInv, [Next]_vars PROVE FlightInv'
  OBVIOUS
<1> USE CallType
<1> DEFINE Rest == FuturesOK /\ FetchedIsNotStored /\ WaitersOK /\ ReadFromSource
<1>0. CacheTypeOK /\ CacheTypeOK' /\ Rest /\ Dict(store)
  BY CacheTypeStep DEF FlightInv, CacheTypeOK
<1>1. ASSUME NEW c \in Callers, Bypass(c) PROVE Rest'
  <2>1. /\ \A d \in Callers : d # c => phase'[d] = phase[d]
        /\ phase[c] = "idle" /\ phase'[c] = "fetching" /\ ~Cached(c)
        /\ \A d \in Callers : d # c => leader'[d] = leader[d]
        /\ UNCHANGED <<store, pending, got, version>>
    BY <1>0, <1>1 DEF Bypass, Start, CacheTypeOK, cacheVars
  <2>2. FuturesOK' /\ FetchedIsNotStored'
    <3>1. ~Fetching(c) /\ \A d \in Callers : d # c => (Fetching(d)' <=> Fetching(d))
      BY <2>1 DEF Fetching
    <3>2. \A d \in Callers : Cached(d)' <=> Cached(d)
      BY DEF Cached
    <3> QED BY <1>0, <2>1, <3>1, <3>2 DEF FuturesOK, FetchedIsNotStored
  <2>3. WaitersOK'
    BY <1>0, <2>1 DEF WaitersOK, Cached, Fetching
  <2>4. ReadFromSource'
    BY <1>0, <2>1 DEF ReadFromSource
  <2> QED BY <2>2, <2>3, <2>4
<1>2. ASSUME NEW c \in Callers, Hit(c) PROVE Rest'
  <2>1. PICK v : v = store[KeyOf[c]].val
    OBVIOUS
  <2>2. v \in 1..version[KeyOf[c]]
    BY <1>0, <1>2, <2>1 DEF Hit, Servable, Has, CacheTypeOK, Dict, EntryTypes, ReadFromSource
  <2>3. /\ phase[c] = "idle" /\ phase' = [phase EXCEPT ![c] = "done"]
        /\ got' = [got EXCEPT ![c] = v]
        /\ UNCHANGED <<store, pending, leader, version>>
    BY <1>2, <2>1 DEF Hit, Start, cacheVars
  <2> QED BY <2>2, <2>3, FlightEnd
<1>3. ASSUME NEW c \in Callers, Miss(c) PROVE Rest'
  <2>1. PICK t : t = AfterLookup(store, KeyOf[c])
    OBVIOUS
  <2>2. /\ store' = t /\ Cached(c) /\ phase[c] = "idle" /\ ~Servable(store, KeyOf[c])
        /\ UNCHANGED <<got, version>>
    BY <1>3, <2>1 DEF Miss, Start
  <2>3. /\ DOMAIN t \subseteq DOMAIN store /\ KeyOf[c] \notin DOMAIN t
        /\ \A j \in DOMAIN t : t[j].val = store[j].val
    BY <1>0, <2>1, <2>2, LookupKeeps
  <2>4. \A d \in Callers : d # c => phase'[d] = phase[d] /\ leader'[d] = leader[d]
    BY <1>0, <1>3 DEF Miss, CacheTypeOK
  <2>5. ReadFromSource'
    <3>1. phase'[c] \in {"fetching", "waiting"}
      BY <1>0, <1>3 DEF Miss, CacheTypeOK
    <3> QED BY <1>0, <2>2, <2>3, <2>4, <3>1 DEF ReadFromSource
  <2>6. CASE pending[KeyOf[c]] = Nobody
    <3>1. /\ pending' = [pending EXCEPT ![KeyOf[c]] = c]
          /\ phase'[c] = "fetching"
      BY <1>0, <1>3, <2>6 DEF Miss, CacheTypeOK
    <3>2. \A k \in Keys : pending'[k] = IF k = KeyOf[c] THEN c ELSE pending[k]
      BY <1>0, <3>1 DEF CacheTypeOK
    <3>3. FetchedIsNotStored'
      BY <1>0, <2>2, <2>3, <3>2 DEF FetchedIsNotStored
    <3>4. FuturesOK'
      <4>1. ~Fetching(c) /\ Fetching(c)' /\ \A d \in Callers : d # c => (Fetching(d)' <=> Fetching(d))
        BY <2>2, <2>4, <3>1 DEF Fetching
      <4>2. \A d \in Callers : Cached(d)' <=> Cached(d)
        BY DEF Cached
      <4>3. ASSUME NEW d \in Callers, Cached(d), Fetching(d)' PROVE pending'[KeyOf[d]] = d
        BY <1>0, <2>6, <3>2, <4>1, <4>3, CallersAssumption DEF FuturesOK
      <4>4. ASSUME NEW k \in Keys, NEW d \in Callers, pending'[k] = d
            PROVE  Cached(d) /\ Fetching(d)' /\ KeyOf[d] = k
        BY <1>0, <2>2, <3>2, <4>1, <4>4 DEF FuturesOK
      <4> QED BY <4>2, <4>3, <4>4 DEF FuturesOK
    <3>5. WaitersOK'
      BY <1>0, <2>2, <2>4, <3>1 DEF WaitersOK, Cached, Fetching
    <3> QED BY <2>5, <3>3, <3>4, <3>5
  <2>7. CASE pending[KeyOf[c]] # Nobody
    <3>1. PICK l \in Callers : l = pending[KeyOf[c]]
      BY <1>0, <2>7 DEF CacheTypeOK
    <3>2. Cached(l) /\ Fetching(l) /\ KeyOf[l] = KeyOf[c]
      BY <1>0, <2>7, <3>1 DEF FuturesOK
    <3>3. /\ leader'[c] = l /\ phase'[c] = "waiting" /\ UNCHANGED pending
      BY <1>0, <1>3, <2>7, <3>1 DEF Miss, CacheTypeOK
    <3>4. FetchedIsNotStored'
      BY <1>0, <2>2, <2>3, <3>3 DEF FetchedIsNotStored
    <3>5. FuturesOK'
      BY <1>0, <2>2, <2>4, <3>3 DEF FuturesOK, Cached, Fetching, CacheTypeOK
    <3>6. WaitersOK'
      BY <1>0, <2>2, <2>4, <3>2, <3>3 DEF WaitersOK, Cached, Fetching
    <3> QED BY <2>5, <3>4, <3>5, <3>6
  <2> QED BY <2>6, <2>7
<1>4. ASSUME NEW c \in Callers, SourceReads(c) PROVE Rest'
  <2>1. /\ phase[c] = "fetching" /\ phase'[c] = "answered" /\ got'[c] = version[KeyOf[c]]
        /\ \A d \in Callers : d # c => phase'[d] = phase[d] /\ got'[d] = got[d]
        /\ UNCHANGED <<store, pending, leader, version>>
    BY <1>0, <1>4 DEF SourceReads, CacheTypeOK, cacheVars
  <2>2. \A d \in Callers : Fetching(d)' <=> Fetching(d)
    BY <2>1 DEF Fetching
  <2>3. FuturesOK' /\ FetchedIsNotStored'
    BY <1>0, <2>1, <2>2 DEF FuturesOK, FetchedIsNotStored, Cached, Fetching, CacheTypeOK
  <2>4. WaitersOK'
    BY <1>0, <2>1 DEF WaitersOK, Cached, Fetching
  <2>5. ReadFromSource'
    BY <1>0, <2>1 DEF ReadFromSource, CacheTypeOK
  <2> QED BY <2>3, <2>4, <2>5
<1>5. ASSUME NEW c \in Callers, FetchReturns(c) PROVE Rest'
  <2>1. PICK W : W = AnsweredBy(c)
    OBVIOUS
  <2>2. /\ phase[c] = "answered" /\ Fetching(c) /\ Unpend(c) /\ UNCHANGED <<leader, version>>
        /\ phase' = [w \in Callers |-> IF w \in W THEN "done" ELSE phase[w]]
        /\ got' = [w \in Callers |-> IF w \in W THEN got[c] ELSE got[w]]
    BY <1>5, <2>1 DEF FetchReturns, Answer, Fetching
  <2>3. /\ FuturesOK' /\ WaitersOK'
        /\ \A k \in Keys : pending'[k] # Nobody =>
             pending'[k] = pending[k] /\ (Cached(c) => k # KeyOf[c])
    BY <2>1, <2>2, FlightLands
  <2>4. \A w \in W : KeyOf[w] = KeyOf[c]
    BY <1>0, <2>1, AnsweredAreAlike
  <2>5. got[c] \in 1..version[KeyOf[c]]
    BY <1>0, <2>2 DEF ReadFromSource
  <2>6. \A d \in Callers : phase'[d] \in {"answered", "done"} => got'[d] \in 1..version'[KeyOf[d]]
    BY <1>0, <2>2, <2>4, <2>5 DEF ReadFromSource
  <2>7. CASE Cached(c)
    <3>1. PICK t : t = AfterSet(store, KeyOf[c], got[c], writes)
      OBVIOUS
    <3>2. store' = t
      BY <1>5, <2>7, <3>1 DEF FetchReturns
    <3>3. /\ \A j \in DOMAIN t : j \in DOMAIN store \/ j = KeyOf[c]
          /\ \A j \in DOMAIN t : t[j].val = IF j = KeyOf[c] THEN got[c] ELSE store[j].val
      <4>1. /\ Dict(store) /\ Cardinality(DOMAIN store) <= MaxSize
            /\ KeyOf[c] \in Keys /\ got[c] \in Nat \ {0}
        BY <1>0, <2>5 DEF CacheTypeOK
      <4> QED BY <3>1, <4>1, SetStores
    <3>4. FetchedIsNotStored'
      BY <1>0, <2>3, <2>7, <3>2, <3>3 DEF FetchedIsNotStored
    <3>5. \A k \in DOMAIN store' : store'[k].val <= version'[k]
      BY <1>0, <2>2, <2>5, <3>2, <3>3 DEF ReadFromSource
    <3> QED BY <2>3, <2>6, <3>4, <3>5 DEF ReadFromSource
  <2>8. CASE ~Cached(c)
    <3>1. UNCHANGED store
      BY <1>5, <2>8 DEF FetchReturns
    <3> QED BY <1>0, <2>2, <2>3, <2>6, <3>1 DEF ReadFromSource, FetchedIsNotStored
  <2> QED BY <2>7, <2>8
<1>6. ASSUME NEW c \in Callers, FetchFails(c) PROVE Rest'
  <2>1. PICK W : W = AnsweredBy(c)
    OBVIOUS
  <2>2. /\ Fetching(c) /\ Unpend(c) /\ UNCHANGED <<leader, version, store, got>>
        /\ phase' = [w \in Callers |-> IF w \in W THEN "failed" ELSE phase[w]]
    BY <1>6, <2>1 DEF FetchFails, Answer, Fetching
  <2>3. /\ FuturesOK' /\ WaitersOK'
        /\ \A k \in Keys : pending'[k] # Nobody => pending'[k] = pending[k]
    BY <2>1, <2>2, FlightLands
  <2> QED BY <1>0, <2>2, <2>3 DEF ReadFromSource, FetchedIsNotStored
<1>7. ASSUME NEW c \in Callers, Cancel(c) PROVE Rest'
  <2>1. /\ UNCHANGED <<leader, version, store, got>> /\ phase' = [phase EXCEPT ![c] = "cancelled"]
    BY <1>7 DEF Cancel
  <2>2. CASE phase[c] = "waiting"
    BY <1>7, <2>1, <2>2, FlightEnd DEF Cancel
  <2>3. CASE phase[c] # "waiting"
    <3>1. Fetching(c) /\ Unpend(c)
      BY <1>7, <2>3 DEF Cancel, Fetching
    <3>2. phase' = [w \in Callers |-> IF w \in {c} THEN "cancelled" ELSE phase[w]]
      BY <1>0, <2>1 DEF CacheTypeOK
    <3>3. /\ FuturesOK' /\ WaitersOK'
          /\ \A k \in Keys : pending'[k] # Nobody => pending'[k] = pending[k]
      BY <2>1, <3>1, <3>2, FlightLands
    <3> QED BY <1>0, <2>1, <3>2, <3>3 DEF ReadFromSource, FetchedIsNotStored
  <2> QED BY <2>2, <2>3
<1>8. ASSUME NEW k \in Keys, SourceChanges(k) PROVE Rest'
  <2>1. /\ UNCHANGED <<store, pending, phase, leader, got>>
        /\ \A j \in Keys : version'[j] >= version[j]
    BY <1>0, <1>8 DEF SourceChanges, cacheVars, callVars, CacheTypeOK
  <2>2. FuturesOK' /\ FetchedIsNotStored' /\ WaitersOK'
    BY <1>0, <2>1 DEF FuturesOK, FetchedIsNotStored, WaitersOK, Cached, Fetching
  <2>3. ReadFromSource'
    BY <1>0, <2>1 DEF ReadFromSource, CacheTypeOK, Dict, EntryTypes
  <2> QED BY <2>2, <2>3
<1>9. ASSUME Invalidate PROVE Rest'
  BY <1>9, EmptyIsDict, FlightUndisturbed DEF Invalidate, Invalidated, callVars
<1>10. ASSUME Tick PROVE Rest'
  <2>1. PICK t : t = Aged(store)
    OBVIOUS
  <2>2. store' = t /\ UNCHANGED <<pending, phase, leader, got, version>>
    BY <1>10, <2>1 DEF Tick, callVars
  <2>3. DOMAIN t = DOMAIN store /\ \A j \in DOMAIN t : t[j].val = store[j].val
    BY <1>0, <2>1, AgedKeeps
  <2> QED BY <2>2, <2>3, FlightUndisturbed
<1>11. ASSUME UNCHANGED vars PROVE Rest'
  BY <1>11, FlightUndisturbed DEF vars, cacheVars, callVars
<1> QED
  BY <1>0, <1>1, <1>2, <1>3, <1>4, <1>5, <1>6, <1>7, <1>8, <1>9, <1>10, <1>11
     DEF Next, CallStep, FlightInv

---------------------------------------------------------------------------
(* The versions *)

\* Nothing is stored while the answer of a fetch of its key is on its way, and there is
\* one such answer.
LEMMA OneAnswer ==
  ASSUME FlightInv, NEW c \in Callers, Cached(c), phase[c] = "answered"
  PROVE  /\ KeyOf[c] \notin DOMAIN store
         /\ \A d \in Callers :
              Cached(d) /\ phase[d] = "answered" /\ KeyOf[d] = KeyOf[c] => d = c
<1>1. \A d \in Callers :
        Cached(d) /\ phase[d] = "answered" => pending[KeyOf[d]] = d
  BY DEF FlightInv, FuturesOK, Fetching
<1>2. pending[KeyOf[c]] # Nobody /\ KeyOf[c] \in Keys
  BY <1>1, CallersAssumption
<1> QED BY <1>1, <1>2 DEF FlightInv, FetchedIsNotStored

\* A step by which no answer comes and no call returns.
LEMMA NothingReturned ==
  ASSUME CacheTypeOK, CacheTypeOK', Versions,
         \A d \in Callers : phase'[d] \in {"answered", "done"} =>
           /\ phase'[d] = phase[d] /\ got'[d] = got[d] /\ leader'[d] = leader[d]
           /\ phase[d] = "done" => since'[d] = since[d],
         \A d \in Callers : since'[d].quiet <= quiet[KeyOf[d]],
         DOMAIN store' \subseteq DOMAIN store,
         \A k \in DOMAIN store' : store'[k].val = store[k].val,
         \A k \in Keys : version[k] <= version'[k],
         UNCHANGED <<quiet, state>>
  PROVE  Versions'
<1>1. NewerThanReturned'
  BY DEF Versions, NewerThanReturned, Cached
<1>2. ReadAfterQuiet'
  <2>1. \A k \in Keys : quiet'[k] <= version'[k]
    BY DEF Versions, ReadAfterQuiet, CacheTypeOK
  <2> QED BY <2>1, CallType DEF Versions, ReadAfterQuiet, Cached
<1>3. FreshAfterQuietInvalidation'
  BY DEF Versions, FreshAfterQuietInvalidation, Cached
<1>4. StateKeepsUp'
  BY DEF Versions, StateKeepsUp, Cached
<1> QED BY <1>1, <1>2, <1>3, <1>4 DEF Versions

LEMMA VersionsStep == FlightInv /\ Versions /\ [Next]_vars => Versions'
<1> SUFFICES ASSUME FlightInv, Versions, [Next]_vars PROVE Versions'
  OBVIOUS
<1> USE CallType
<1>0. /\ CacheTypeOK /\ CacheTypeOK' /\ Dict(store) /\ FuturesOK /\ WaitersOK /\ ReadFromSource
      /\ NewerThanReturned /\ ReadAfterQuiet /\ FreshAfterQuietInvalidation /\ StateKeepsUp
      /\ \A k \in Keys : version[k] <= version[k]
      /\ \A c \in Callers : since[c].quiet <= quiet[KeyOf[c]]
  BY CacheTypeStep DEF FlightInv, CacheTypeOK, Versions, ReadAfterQuiet
<1>s. ASSUME NEW c \in Callers, Start(c)
      PROVE  /\ phase[c] = "idle" /\ \A d \in Callers : d # c => since'[d] = since[d]
             /\ since'[c].quiet = quiet[KeyOf[c]]
             /\ \A d \in Callers : since'[d].quiet <= quiet[KeyOf[d]]
  BY <1>0, <1>s DEF Start, CacheTypeOK
<1>1. ASSUME NEW c \in Callers, Bypass(c) PROVE Versions'
  BY <1>0, <1>1, <1>s, NothingReturned DEF Bypass, CacheTypeOK, cacheVars
<1>2. ASSUME NEW c \in Callers, Hit(c) PROVE Versions'
  <2>1. PICK v : v = store[KeyOf[c]].val
    OBVIOUS
  <2>2. /\ Start(c) /\ Cached(c) /\ KeyOf[c] \in DOMAIN store
        /\ \A d \in Callers : d # c => phase'[d] = phase[d] /\ got'[d] = got[d]
        /\ phase'[c] = "done" /\ got'[c] = v /\ Keep(c, v)
        /\ UNCHANGED <<store, pending, leader, version, quiet>>
    BY <1>0, <1>2, <2>1 DEF Hit, Servable, Has, CacheTypeOK, cacheVars
  <2>3. v \in Nat /\ quiet[KeyOf[c]] <= v
    BY <1>0, <2>1, <2>2 DEF Dict, EntryTypes, ReadAfterQuiet
  <2>4. \A d \in Callers : Cached(d) /\ phase[d] = "done" /\ KeyOf[d] = KeyOf[c] => got[d] <= v
    BY <1>0, <2>1, <2>2 DEF NewerThanReturned
  <2>5. \A d \in Callers : Cached(d) /\ phase[d] = "answered" => KeyOf[d] # KeyOf[c]
    BY <2>2, OneAnswer
  <2>6. NewerThanReturned'
    BY <1>0, <2>1, <2>2, <2>3, <2>5 DEF NewerThanReturned, Cached
  <2>7. ReadAfterQuiet'
    BY <1>0, <1>s, <2>2 DEF ReadAfterQuiet, Cached
  <2>8. FreshAfterQuietInvalidation'
    BY <1>0, <1>s, <2>2, <2>3 DEF FreshAfterQuietInvalidation, Cached
  <2>9. StateKeepsUp'
    <3>1. \A cl \in Clients, k \in Keys :
            state'[cl][k] = IF cl = ClientOf[c] /\ k = KeyOf[c] THEN v ELSE state[cl][k]
      BY <1>0, <2>2 DEF Keep, CacheTypeOK
    <3> QED BY <1>0, <2>2, <2>3, <2>4, <3>1 DEF StateKeepsUp, Cached
  <2> QED BY <2>6, <2>7, <2>8, <2>9 DEF Versions
<1>3. ASSUME NEW c \in Callers, Miss(c) PROVE Versions'
  <2>1. PICK t : t = AfterLookup(store, KeyOf[c])
    OBVIOUS
  <2>2. store' = t /\ Start(c) /\ UNCHANGED <<got, version, quiet, state>>
    BY <1>3, <2>1 DEF Miss
  <2>3. DOMAIN t \subseteq DOMAIN store /\ \A j \in DOMAIN t : t[j].val = store[j].val
    BY <1>0, <2>1, LookupKeeps
  <2>4. /\ \A d \in Callers : d # c => phase'[d] = phase[d] /\ leader'[d] = leader[d]
        /\ phase'[c] \notin {"answered", "done"}
    BY <1>0, <1>3 DEF Miss, CacheTypeOK
  <2> QED BY <1>0, <1>s, <2>2, <2>3, <2>4, NothingReturned
<1>4. ASSUME NEW c \in Callers, SourceReads(c) PROVE Versions'
  <2>1. /\ phase[c] = "fetching" /\ phase'[c] = "answered" /\ got'[c] = version[KeyOf[c]]
        /\ \A d \in Callers : d # c => phase'[d] = phase[d] /\ got'[d] = got[d]
        /\ UNCHANGED <<store, leader, since, version, quiet, state>>
    BY <1>0, <1>4 DEF SourceReads, CacheTypeOK, cacheVars
  <2>2. \A d \in Callers : phase[d] = "done" => got[d] <= version[KeyOf[d]]
    BY <1>0 DEF ReadFromSource
  <2>3. NewerThanReturned'
    BY <1>0, <2>1, <2>2 DEF NewerThanReturned, Cached
  <2>4. ReadAfterQuiet' /\ FreshAfterQuietInvalidation' /\ StateKeepsUp'
    BY <1>0, <2>1 DEF ReadAfterQuiet, FreshAfterQuietInvalidation, StateKeepsUp, Cached
  <2> QED BY <2>3, <2>4 DEF Versions
<1>5. ASSUME NEW c \in Callers, FetchReturns(c) PROVE Versions'
  <2>1. PICK W : W = AnsweredBy(c)
    OBVIOUS
  <2>2. PICK v : v = got[c]
    OBVIOUS
  <2>3. /\ phase[c] = "answered" /\ UNCHANGED <<leader, since, version, quiet>> /\ Keep(c, v)
        /\ \A d \in Callers : phase'[d] = IF d \in W THEN "done" ELSE phase[d]
        /\ \A d \in Callers : got'[d] = IF d \in W THEN v ELSE got[d]
    BY <1>5, <2>1, <2>2 DEF FetchReturns, Answer
  <2>4. /\ c \in W /\ \A w \in W : w \in Callers /\ KeyOf[w] = KeyOf[c]
        /\ \A w \in W : w # c =>
             phase[w] = "waiting" /\ leader[w] = c /\ Cached(w) /\ Cached(c)
    BY <1>0, <2>1 DEF AnsweredBy, WaitersOK
  <2>5. v \in Nat /\ (Cached(c) => quiet[KeyOf[c]] <= v)
    BY <1>0, <2>2, <2>3 DEF CacheTypeOK, ReadAfterQuiet
  <2>6. Cached(c) => \A d \in Callers :
          Cached(d) /\ phase[d] = "done" /\ KeyOf[d] = KeyOf[c] => got[d] <= v
    BY <1>0, <2>2, <2>3 DEF NewerThanReturned
  <2>7. Cached(c) => \A d \in Callers :
          Cached(d) /\ phase'[d] = "answered" => KeyOf[d] # KeyOf[c]
    BY <2>3, <2>4, OneAnswer
  <2>8. \A j \in DOMAIN store' :
          \/ j \in DOMAIN store /\ store'[j].val = store[j].val /\ (Cached(c) => j # KeyOf[c])
          \/ Cached(c) /\ j = KeyOf[c] /\ store'[j].val = v
    <3>1. CASE Cached(c)
      <4>1. PICK t : t = AfterSet(store, KeyOf[c], got[c], writes)
        OBVIOUS
      <4>2. store' = t
        BY <1>5, <3>1, <4>1 DEF FetchReturns
      <4>3. /\ Dict(store) /\ Cardinality(DOMAIN store) <= MaxSize
            /\ KeyOf[c] \in Keys /\ got[c] \in Nat \ {0}
        BY <1>0, <2>3 DEF CacheTypeOK, ReadFromSource
      <4>4. /\ \A j \in DOMAIN t : j \in DOMAIN store \/ j = KeyOf[c]
            /\ \A j \in DOMAIN t : t[j].val = IF j = KeyOf[c] THEN got[c] ELSE store[j].val
        BY <4>1, <4>3, SetStores
      <4> QED BY <2>2, <3>1, <4>2, <4>4
    <3>2. CASE ~Cached(c)
      BY <1>5, <3>2 DEF FetchReturns
    <3> QED BY <3>1, <3>2
  <2>9. NewerThanReturned'
    <3> SUFFICES ASSUME NEW d \in Callers, Cached(d), phase'[d] = "done"
                 PROVE  /\ KeyOf[d] \in DOMAIN store' => got'[d] <= store'[KeyOf[d]].val
                        /\ \A e \in Callers :
                             Cached(e) /\ KeyOf[e] = KeyOf[d] /\ phase'[e] = "answered"
                               => got'[d] <= got'[e]
      BY DEF NewerThanReturned, Cached
    <3>1. CASE d \in W
      <4>1. Cached(c) /\ KeyOf[d] = KeyOf[c] /\ got'[d] = v
        BY <2>3, <2>4, <3>1
      <4> QED BY <2>5, <2>7, <2>8, <4>1
    <3>2. CASE d \notin W
      <4>1. phase[d] = "done" /\ got'[d] = got[d]
        BY <2>3, <3>2
      <4>2. KeyOf[d] \in DOMAIN store' => got'[d] <= store'[KeyOf[d]].val
        BY <1>0, <2>6, <2>8, <4>1 DEF NewerThanReturned
      <4>3. \A e \in Callers :
              Cached(e) /\ KeyOf[e] = KeyOf[d] /\ phase'[e] = "answered" => got'[d] <= got'[e]
        BY <1>0, <2>3, <4>1 DEF NewerThanReturned
      <4> QED BY <4>2, <4>3
    <3> QED BY <3>1, <3>2
  <2>10. ReadAfterQuiet'
    BY <1>0, <2>3, <2>5, <2>8 DEF ReadAfterQuiet, Cached
  <2>11. FreshAfterQuietInvalidation'
    BY <1>0, <2>3, <2>4, <2>5 DEF FreshAfterQuietInvalidation, Cached, CacheTypeOK
  <2>12. StateKeepsUp'
    <3>1. \A cl \in Clients, k \in Keys :
            state'[cl][k] = IF cl = ClientOf[c] /\ k = KeyOf[c] THEN v ELSE state[cl][k]
      BY <1>0, <2>3 DEF Keep, CacheTypeOK
    <3>2. \A d \in Callers : d \in W /\ leader'[d] \in {d, Nobody} => d = c
      BY <2>3, <2>4, CallersAssumption
    <3>3. \A d \in Callers : ClientOf[d] = ClientOf[c] => (Cached(d) <=> Cached(c))
      BY DEF Cached
    <3> QED BY <1>0, <2>3, <2>5, <2>6, <3>1, <3>2, <3>3 DEF StateKeepsUp, Cached
  <2> QED BY <2>9, <2>10, <2>11, <2>12 DEF Versions
<1>6. ASSUME NEW c \in Callers, FetchFails(c) PROVE Versions'
  <2>1. /\ \A d \in Callers : phase'[d] = phase[d] \/ phase'[d] = "failed"
        /\ UNCHANGED <<store, leader, got, since, version, quiet, state>>
    BY <1>6 DEF FetchFails, Answer
  <2> QED BY <1>0, <2>1, NothingReturned
<1>7. ASSUME NEW c \in Callers, Cancel(c) PROVE Versions'
  <2>1. /\ \A d \in Callers : phase'[d] = phase[d] \/ phase'[d] = "cancelled"
        /\ UNCHANGED <<store, leader, got, since, version, quiet, state>>
    BY <1>0, <1>7 DEF Cancel, CacheTypeOK
  <2> QED BY <1>0, <2>1, NothingReturned
<1>8. ASSUME NEW k \in Keys, SourceChanges(k) PROVE Versions'
  <2>1. /\ \A j \in Keys : version[j] <= version'[j]
        /\ UNCHANGED <<store, phase, leader, got, since, quiet, state>>
    BY <1>0, <1>8 DEF SourceChanges, cacheVars, callVars, CacheTypeOK
  <2> QED BY <1>0, <2>1, NothingReturned
<1>9. ASSUME Invalidate PROVE Versions'
  <2>1. /\ DOMAIN store' = {} /\ UNCHANGED <<phase, leader, got, since, version, state>>
        /\ \A k \in Keys : quiet'[k] = IF pending[k] = Nobody THEN version[k] ELSE quiet[k]
    BY <1>9, EmptyIsDict DEF Invalidate, Invalidated, callVars
  <2>2. NewerThanReturned' /\ FreshAfterQuietInvalidation' /\ StateKeepsUp'
    BY <1>0, <2>1 DEF NewerThanReturned, FreshAfterQuietInvalidation, StateKeepsUp, Cached
  <2>3. \A k \in Keys : quiet[k] <= quiet'[k] /\ quiet'[k] <= version'[k]
    <3>1. \A k \in Keys : quiet[k] \in Nat /\ version[k] \in Nat /\ quiet[k] <= version[k]
      BY <1>0 DEF ReadAfterQuiet, CacheTypeOK
    <3> QED BY <2>1, <3>1
  <2>4. \A c \in Callers : since'[c].quiet <= quiet'[KeyOf[c]]
    BY <1>0, <2>1, <2>3 DEF CacheTypeOK
  <2>5. \A c \in Callers : Cached(c) /\ phase[c] = "answered" => pending[KeyOf[c]] # Nobody
    BY <1>0, CallersAssumption DEF FuturesOK, Fetching
  <2>6. \A c \in Callers : Cached(c) /\ phase[c] = "answered" => quiet[KeyOf[c]] <= got[c]
    BY <1>0 DEF ReadAfterQuiet
  <2>7. \A c \in Callers : Cached(c) /\ phase'[c] = "answered" => quiet'[KeyOf[c]] <= got'[c]
    BY <2>1, <2>5, <2>6
  <2>8. ReadAfterQuiet'
    BY <2>1, <2>3, <2>4, <2>7 DEF ReadAfterQuiet, Cached
  <2> QED BY <2>2, <2>8 DEF Versions
<1>10. ASSUME Tick PROVE Versions'
  <2>1. PICK t : t = Aged(store)
    OBVIOUS
  <2>2. store' = t /\ UNCHANGED <<phase, leader, got, since, version, quiet, state>>
    BY <1>10, <2>1 DEF Tick, callVars
  <2>3. DOMAIN t = DOMAIN store /\ \A j \in DOMAIN t : t[j].val = store[j].val
    BY <1>0, <2>1, AgedKeeps
  <2> QED BY <1>0, <2>2, <2>3, NothingReturned
<1>11. ASSUME UNCHANGED vars PROVE Versions'
  BY <1>0, <1>11, NothingReturned DEF vars, cacheVars, callVars
<1> QED
  BY <1>1, <1>2, <1>3, <1>4, <1>5, <1>6, <1>7, <1>8, <1>9, <1>10, <1>11 DEF Next, CallStep

---------------------------------------------------------------------------
(* The theorems *)

LEMMA CacheInit == Init => CacheInv
<1> SUFFICES ASSUME Init PROVE CacheInv
  OBVIOUS
<1>1. FlightInv /\ DOMAIN store = {}
  BY FlightInit DEF Init, EmptyStore
<1>2. NewerThanReturned /\ FreshAfterQuietInvalidation /\ StateKeepsUp
  BY DEF Init, NewerThanReturned, FreshAfterQuietInvalidation, StateKeepsUp
<1>3. ReadAfterQuiet
  BY <1>1, CallType DEF Init, ReadAfterQuiet
<1> QED BY <1>1, <1>2, <1>3 DEF CacheInv, Versions

LEMMA CacheStep == CacheInv /\ [Next]_vars => CacheInv'
BY FlightStep, VersionsStep DEF CacheInv

LEMMA CacheInvariant == Spec => []CacheInv
BY CacheInit, CacheStep, PTL DEF Spec

\* Every variable keeps its type, and the store its bound, whatever is fetched, fails, is
\* cancelled, expires or is invalidated.
THEOREM TypeCorrect == Spec => []CacheTypeOK
<1>1. CacheInv => CacheTypeOK
  BY DEF CacheInv, FlightInv
<1> QED BY <1>1, CacheInvariant, PTL

\* Two fetches of one key are never in flight together.
THEOREM SingleFlightCorrect == Spec => []SingleFlight
<1>1. CacheInv => SingleFlight
  BY DEF CacheInv, FlightInv, FuturesOK, SingleFlight
<1> QED BY <1>1, CacheInvariant, PTL

\* A waiter waits for a fetch in flight, unless the call that fetches was cancelled.
THEOREM WaitersHaveLeaderCorrect == Spec => []WaitersHaveLeader
<1>1. CacheInv => WaitersHaveLeader
  BY DEF CacheInv, FlightInv, WaitersOK, WaitersHaveLeader, LeaderCancelled
<1> QED BY <1>1, CacheInvariant, PTL

\* After an invalidation with no fetch of the key in flight, no call returns older data.
THEOREM FreshAfterQuietInvalidationCorrect == Spec => []FreshAfterQuietInvalidation
<1>1. CacheInv => FreshAfterQuietInvalidation
  BY DEF CacheInv, Versions
<1> QED BY <1>1, CacheInvariant, PTL

\* A client keeps the data its call returned, or newer ones, unless it was coalesced.
THEOREM StateKeepsUpCorrect == Spec => []StateKeepsUp
<1>1. CacheInv => StateKeepsUp
  BY DEF CacheInv, Versions
<1> QED BY <1>1, CacheInvariant, PTL

\* A call that returns gives what is stored or what its fetch has read.
LEMMA ReturnsStoredOrRead ==
  ASSUME FlightInv, [Next]_vars, NEW d \in Callers, Cached(d),
         phase[d] # "done", phase'[d] = "done"
  PROVE  \/ KeyOf[d] \in DOMAIN store /\ got'[d] = store[KeyOf[d]].val
         \/ \E l \in Callers : /\ Cached(l) /\ KeyOf[l] = KeyOf[d]
                               /\ phase[l] = "answered" /\ got'[d] = got[l]
<1>0. CacheTypeOK /\ WaitersOK
  BY DEF FlightInv
<1>1. ASSUME NEW c \in Callers, CallStep(c)
      PROVE  (Hit(c) /\ c = d) \/ (FetchReturns(c) /\ d \in AnsweredBy(c))
  <2>1. (Hit(c) /\ c = d) \/ FetchReturns(c)
    <3>1. ASSUME ~FetchFails(c), ~FetchReturns(c)
          PROVE  /\ \A e \in Callers : e # c => phase'[e] = phase[e]
                 /\ phase'[c] # "done" \/ Hit(c)
      BY <1>0, <1>1, <3>1 DEF CallStep, Bypass, Hit, Miss, SourceReads, Cancel, CacheTypeOK
    <3>2. ASSUME FetchFails(c) PROVE phase'[d] \in {phase[d], "failed"}
      BY <3>2 DEF FetchFails, Answer
    <3> QED BY <3>1, <3>2
  <2>2. ASSUME FetchReturns(c) PROVE d \in AnsweredBy(c)
    BY <2>2 DEF FetchReturns, Answer
  <2> QED BY <2>1, <2>2
<1>2. PICK c \in Callers : (Hit(c) /\ c = d) \/ (FetchReturns(c) /\ d \in AnsweredBy(c))
  BY <1>1 DEF Next, SourceChanges, Invalidate, Invalidated, Tick, vars, callVars
<1>3. CASE Hit(c) /\ c = d
  BY <1>0, <1>3 DEF Hit, Servable, Has, CacheTypeOK
<1>4. CASE FetchReturns(c) /\ d \in AnsweredBy(c)
  <2>1. phase[c] = "answered" /\ got'[d] = got[c]
    BY <1>4 DEF FetchReturns
  <2>2. KeyOf[c] = KeyOf[d] /\ Cached(c)
    BY <1>0, <1>4 DEF WaitersOK, AnsweredBy
  <2> QED BY <2>1, <2>2
<1> QED BY <1>2, <1>3, <1>4

\* What a call returns is no older than what any call for the key returned before.
THEOREM NeverGoesBackCorrect == Spec => NeverGoesBack
<1> DEFINE NotBack ==
      \A c, d \in Callers :
        /\ Cached(c) /\ Cached(d) /\ KeyOf[c] = KeyOf[d]
        /\ phase[c] = "done" /\ phase[d] # "done" /\ phase'[d] = "done"
        => got'[d] >= got[c]
<1>1. CacheInv /\ [Next]_vars => NotBack
  <2> SUFFICES ASSUME CacheInv, [Next]_vars, NEW c \in Callers, NEW d \in Callers,
                      Cached(c), Cached(d), KeyOf[c] = KeyOf[d],
                      phase[c] = "done", phase[d] # "done", phase'[d] = "done"
               PROVE  got'[d] >= got[c]
    OBVIOUS
  <2>1. FlightInv /\ NewerThanReturned /\ Dict(store) /\ got \in [Callers -> Nat]
    BY DEF CacheInv, Versions, FlightInv, CacheTypeOK
  <2>2. CASE KeyOf[d] \in DOMAIN store /\ got'[d] = store[KeyOf[d]].val
    BY <2>1, <2>2 DEF NewerThanReturned, Dict, EntryTypes
  <2>3. ASSUME NEW l \in Callers, Cached(l), KeyOf[l] = KeyOf[d],
               phase[l] = "answered", got'[d] = got[l]
        PROVE  got'[d] >= got[c]
    BY <2>1, <2>3 DEF NewerThanReturned
  <2> QED BY <2>1, <2>2, <2>3, ReturnsStoredOrRead
<1>2. CacheInv /\ [Next]_vars => [NotBack]_vars
  BY <1>1
<1> QED BY <1>2, CacheInvariant, PTL DEF Spec, NeverGoesBack

---------------------------------------------------------------------------
(* The register *)

\* A step by which no cached call returns.
LEMMA RegisterKept ==
  ASSUME UNCHANGED <<version, quiet>>,
         \A d \in Callers : Cached(d) =>
           (phase'[d] = "done" <=> phase[d] = "done") /\ (phase[d] = "done" => got'[d] = got[d])
  PROVE  UNCHANGED Register!registerVars
<1>1. \A d \in Callers : Cached(d)' = Cached(d)
  BY DEF Cached
<1>2. Returned' = Returned
  BY <1>1 DEF Returned
<1> QED BY <1>2 DEF Register!registerVars

\* The calls S for the key k return v, which is new enough.
LEMMA RegisterRead ==
  ASSUME NEW k \in Keys, NEW S \in SUBSET Callers, NEW v \in 1..version[k],
         version[k] \in Nat, quiet[k] <= v,
         \A d \in S : Cached(d) /\ KeyOf[d] = k /\ phase[d] # "done",
         \A d \in Callers : Cached(d) /\ KeyOf[d] = k /\ phase[d] = "done" => got[d] <= v,
         \A d \in S : phase'[d] = "done" /\ got'[d] = v,
         \A d \in Callers \ S : Cached(d) => phase'[d] = phase[d] /\ got'[d] = got[d],
         UNCHANGED <<version, quiet>>
  PROVE  Register!Read(k, S)
<1>1. \A d \in S : KeyOf[d] = k /\ Returned[d] = 0
  BY DEF Returned
<1>2. \A d \in Callers : KeyOf[d] = k => v >= Returned[d]
  BY DEF Returned
<1>3. Returned' = [d \in Callers |-> IF d \in S THEN v ELSE Returned[d]]
  BY DEF Returned, Cached
<1> QED BY <1>1, <1>2, <1>3 DEF Register!Read

LEMMA RegisterStep ==
  CacheInv /\ [Next]_vars => [Register!RegisterNext]_(Register!registerVars)
<1> SUFFICES ASSUME CacheInv, [Next]_vars
             PROVE  Register!RegisterNext \/ UNCHANGED Register!registerVars
  OBVIOUS
<1>0. CacheTypeOK /\ FlightInv /\ Versions
  BY DEF CacheInv, FlightInv
<1>1. ASSUME NEW c \in Callers, Bypass(c) \/ Miss(c) \/ SourceReads(c) \/ Cancel(c)
      PROVE  UNCHANGED Register!registerVars
  BY <1>0, <1>1, RegisterKept DEF Bypass, Miss, SourceReads, Cancel, Start, CacheTypeOK
<1>2. ASSUME NEW c \in Callers, FetchFails(c) PROVE UNCHANGED Register!registerVars
  BY <1>0, <1>2, RegisterKept DEF FetchFails, Answer, AnsweredBy, CacheTypeOK
<1>3. ASSUME NEW c \in Callers, Hit(c) PROVE Register!RegisterNext
  <2> DEFINE k == KeyOf[c]
             v == store[k].val
  <2>1. k \in Keys /\ k \in DOMAIN store /\ Cached(c) /\ phase[c] = "idle"
    BY <1>3, CallersAssumption DEF Hit, Start, Servable, Has
  <2>2. v \in 1..version[k] /\ version[k] \in Nat /\ quiet[k] <= v
    BY <1>0, <2>1 DEF FlightInv, ReadFromSource, Versions, ReadAfterQuiet, CacheTypeOK, Dict,
                      EntryTypes
  <2>3. \A d \in Callers : Cached(d) /\ KeyOf[d] = k /\ phase[d] = "done" => got[d] <= v
    BY <1>0, <2>1 DEF Versions, NewerThanReturned
  <2>4. /\ phase' = [phase EXCEPT ![c] = "done"] /\ got' = [got EXCEPT ![c] = v]
        /\ UNCHANGED <<version, quiet>>
    BY <1>3 DEF Hit
  <2>5. /\ phase'[c] = "done" /\ got'[c] = v
        /\ \A d \in Callers \ {c} : phase'[d] = phase[d] /\ got'[d] = got[d]
    BY <1>0, <2>4 DEF CacheTypeOK
  <2>6. Register!Read(k, {c})
    <3> HIDE DEF v
    <3> QED BY <2>1, <2>2, <2>3, <2>4, <2>5, RegisterRead
  <2> QED BY <2>1, <2>6 DEF Register!RegisterNext
<1>4. ASSUME NEW c \in Callers, FetchReturns(c), Cached(c) PROVE Register!RegisterNext
  <2> DEFINE k == KeyOf[c]
             S == AnsweredBy(c)
  <2>1. k \in Keys /\ S \in SUBSET Callers /\ phase[c] = "answered"
    BY <1>4, CallersAssumption DEF FetchReturns, AnsweredBy
  <2>2. \A d \in S : Cached(d) /\ KeyOf[d] = k /\ phase[d] # "done"
    BY <1>0, <1>4, <2>1 DEF FlightInv, WaitersOK, AnsweredBy
  <2>3. got[c] \in 1..version[k] /\ version[k] \in Nat /\ quiet[k] <= got[c]
    BY <1>0, <1>4, <2>1 DEF FlightInv, ReadFromSource, Versions, ReadAfterQuiet, CacheTypeOK
  <2>4. \A d \in Callers : Cached(d) /\ KeyOf[d] = k /\ phase[d] = "done" => got[d] <= got[c]
    BY <1>0, <1>4, <2>1 DEF Versions, NewerThanReturned
  <2>5. /\ \A d \in S : phase'[d] = "done" /\ got'[d] = got[c]
        /\ \A d \in Callers \ S : phase'[d] = phase[d] /\ got'[d] = got[d]
        /\ UNCHANGED <<version, quiet>>
    BY <1>4, <2>1 DEF FetchReturns, Answer
  <2>6. Register!Read(k, S)
    <3> HIDE DEF S
    <3> QED BY <2>1, <2>2, <2>3, <2>4, <2>5, RegisterRead
  <2> QED BY <2>1, <2>6 DEF Register!RegisterNext
<1>5. ASSUME NEW c \in Callers, FetchReturns(c), ~Cached(c)
      PROVE  UNCHANGED Register!registerVars
  <2>1. AnsweredBy(c) = {c}
    BY <1>0, <1>5 DEF FlightInv, WaitersOK, AnsweredBy
  <2> QED BY <1>5, <2>1, RegisterKept DEF FetchReturns, Answer
<1>6. ASSUME NEW k \in Keys, SourceChanges(k) PROVE Register!RegisterNext
  <2>1. UNCHANGED <<phase, got, quiet>> /\ version' = [version EXCEPT ![k] = @ + 1]
    BY <1>6 DEF SourceChanges, callVars
  <2>2. Returned' = Returned
    BY <2>1 DEF Returned, Cached
  <2> QED BY <2>1, <2>2 DEF Register!Write, Register!RegisterNext
<1>7. ASSUME Invalidate PROVE Register!RegisterNext
  <2> DEFINE K == {k \in Keys : pending[k] = Nobody}
  <2>1. UNCHANGED <<phase, got, version>>
    BY <1>7 DEF Invalidate, callVars
  <2>2. quiet' = [k \in Keys |-> IF k \in K THEN version[k] ELSE quiet[k]]
    BY <1>7 DEF Invalidate, Invalidated
  <2>3. Returned' = Returned
    BY <2>1 DEF Returned, Cached
  <2>4. Register!Barrier(K)
    BY <2>1, <2>2, <2>3 DEF Register!Barrier
  <2> QED BY <2>4 DEF Register!RegisterNext
<1>8. ASSUME Tick \/ UNCHANGED vars PROVE UNCHANGED Register!registerVars
  BY <1>8, RegisterKept DEF Tick, vars, callVars
<1> QED
  BY <1>1, <1>2, <1>3, <1>4, <1>5, <1>6, <1>7, <1>8 DEF Next, CallStep

\* The cache with its store, futures, evictions and invalidations implements the register
\* that calls read in one step.
THEOREM CacheImplementsRegister == Spec => ImplementsRegister
<1>1. Init => Register!RegisterInit
  BY CallersAssumption DEF Init, Register!RegisterInit, Returned
<1> QED
  BY <1>1, RegisterStep, CacheInvariant, PTL DEF Spec, ImplementsRegister, Register!RegisterSpec
=============================================================================
