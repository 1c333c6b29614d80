----------------------------- MODULE AsyncCache -----------------------------
(***************************************************************************)
(* utils/cache.py: async_ttl_cached around methods that fetch from the     *)
(* REST API or a contract and keep a copy of the answer in their client    *)
(* (get_clob_pairs, get_swap_pairs, get_token_details, get_environments).  *)
(* The store and the futures belong to the module: all clients share them. *)
(*                                                                         *)
(* _pending_lock is never held across a suspension (the rehydration hooks  *)
(* do not suspend), so it is always free and has no variable.  A value is  *)
(* the version of the data at its source when the source was read.         *)
(***************************************************************************)
EXTENDS MemoryCache

CONSTANTS
  Callers,          \* calls of the cached methods
  Keys,             \* (function, api_base_url, arguments)
  Clients,
  Bypassing,        \* clients with enable_cache=False
  KeyOf, ClientOf,  \* the key and the client of a call
  MaxVersion,       \* bound on the changes at the source of each key
  MaxInvalidations, \* bound on the calls of invalidate_cache
  Nobody            \* no future pending, no leader

ASSUME CallersAssumption ==
  /\ KeyOf \in [Callers -> Keys] /\ ClientOf \in [Callers -> Clients]
  /\ Bypassing \subseteq Clients /\ Nobody \notin Callers
ASSUME BoundsAssumption ==
  MaxVersion \in [Keys -> Nat \ {0}] /\ MaxInvalidations \in Nat

VARIABLES
  store, writes,  \* the MemoryCache
  pending,        \* _pending: the caller that will resolve the key's future
  phase,          \* idle; fetching: request out; answered: the source was read;
                  \* waiting: on the future of leader
  leader,         \* whose fetch answers a call: its own, that of the pending future,
                  \* or Nobody when it is a hit
  got,            \* the version a call has read or was given
  version,        \* the version at the source of a key
  state,          \* the version kept in a client (client.pairs...), 0 for none
  invalidations,  \* calls of invalidate_cache
  floor, quiet,   \* history: the version at the last invalidation, and at the last one
                  \* with no fetch of the key in flight
  since           \* history: floor and quiet when a call began

cacheVars == <<store, writes, pending>>
callVars == <<phase, leader, got, since>>
vars == <<cacheVars, callVars, version, state, invalidations, floor, quiet>>

Phases == {"idle", "fetching", "answered", "waiting", "done", "failed", "cancelled"}
Ended(c) == phase[c] \in {"done", "failed", "cancelled"}
Cached(c) == ClientOf[c] \notin Bypassing

Init ==
  /\ store = EmptyStore /\ writes = 0
  /\ pending = [k \in Keys |-> Nobody]
  /\ phase = [c \in Callers |-> "idle"]
  /\ leader = [c \in Callers |-> Nobody]
  /\ got = [c \in Callers |-> 0]
  /\ version = [k \in Keys |-> 1]
  /\ state = [cl \in Clients |-> [k \in Keys |-> 0]]
  /\ invalidations = 0
  /\ floor = [k \in Keys |-> 0] /\ quiet = [k \in Keys |-> 0]
  /\ since = [c \in Callers |-> [floor |-> 0, quiet |-> 0]]

Start(c) ==
  /\ phase[c] = "idle"
  /\ since' = [since EXCEPT ![c] = [floor |-> floor[KeyOf[c]], quiet |-> quiet[KeyOf[c]]]]

\* The method updates its client, and so does the rehydration hook on a hit.
Keep(c, v) == state' = [state EXCEPT ![ClientOf[c]][KeyOf[c]] = v]

\* Caching disabled: the method is called as it is.
Bypass(c) ==
  /\ Start(c)
  /\ ~Cached(c)
  /\ phase' = [phase EXCEPT ![c] = "fetching"]
  /\ leader' = [leader EXCEPT ![c] = c]
  /\ UNCHANGED <<cacheVars, got, version, state, invalidations, floor, quiet>>

\* Mutant: the hook is not called.
HitWithoutHook(c) ==
  LET k == KeyOf[c]  v == store[k].val IN
  /\ Start(c)
  /\ Cached(c) /\ Servable(store, k)
  /\ phase' = [phase EXCEPT ![c] = "done"]
  /\ got' = [got EXCEPT ![c] = v]
  /\ UNCHANGED <<cacheVars, leader, version, state, invalidations, floor, quiet>>

Hit(c) ==
  LET k == KeyOf[c]  v == store[k].val IN
  /\ Start(c)
  /\ Cached(c) /\ Servable(store, k)
  /\ phase' = [phase EXCEPT ![c] = "done"]
  /\ got' = [got EXCEPT ![c] = v]
  /\ Keep(c, v)
  /\ UNCHANGED <<cacheVars, leader, version, invalidations, floor, quiet>>

\* Mutant: the pending futures are not consulted.
MissUncoalesced(c) ==
  LET k == KeyOf[c] IN
  /\ Start(c)
  /\ Cached(c) /\ ~Servable(store, k)
  /\ store' = AfterLookup(store, k)
  /\ pending' = [pending EXCEPT ![k] = c]
  /\ leader' = [leader EXCEPT ![c] = c]
  /\ phase' = [phase EXCEPT ![c] = "fetching"]
  /\ UNCHANGED <<writes, got, version, state, invalidations, floor, quiet>>

\* A miss: lead the fetch, or wait for the one that is in flight.
Miss(c) ==
  LET k == KeyOf[c] IN
  /\ Start(c)
  /\ Cached(c) /\ ~Servable(store, k)
  /\ store' = AfterLookup(store, k)
  /\ IF pending[k] = Nobody
     THEN /\ pending' = [pending EXCEPT ![k] = c]
          /\ leader' = [leader EXCEPT ![c] = c]
          /\ phase' = [phase EXCEPT ![c] = "fetching"]
     ELSE /\ leader' = [leader EXCEPT ![c] = pending[k]]
          /\ phase' = [phase EXCEPT ![c] = "waiting"]
          /\ UNCHANGED pending
  /\ UNCHANGED <<writes, got, version, state, invalidations, floor, quiet>>

\* The source is read; the answer is on its way.
SourceReads(c) ==
  /\ phase[c] = "fetching"
  /\ phase' = [phase EXCEPT ![c] = "answered"]
  /\ got' = [got EXCEPT ![c] = version[KeyOf[c]]]
  /\ UNCHANGED <<cacheVars, leader, since, version, state, invalidations, floor, quiet>>

\* The calls that a result or an exception of c's fetch answers.
AnsweredBy(c) == {c} \cup {w \in Callers : phase[w] = "waiting" /\ leader[w] = c}

Answer(c, p) == phase' = [w \in Callers |-> IF w \in AnsweredBy(c) THEN p ELSE phase[w]]

\* `finally`: the key's entry is removed.
Unpend(c) ==
  pending' = IF Cached(c) THEN [pending EXCEPT ![KeyOf[c]] = Nobody] ELSE pending

\* The answer arrives: store it, resolve the future, return.  The clients of the
\* coalesced calls are not updated.
FetchReturns(c) ==
  /\ phase[c] = "answered"
  /\ IF Cached(c)
     THEN /\ store' = AfterSet(store, KeyOf[c], got[c], writes)
          /\ writes' = (writes + 1) % CleanupInterval
     ELSE UNCHANGED <<store, writes>>
  /\ Unpend(c)
  /\ Answer(c, "done")
  /\ got' = [w \in Callers |-> IF w \in AnsweredBy(c) THEN got[c] ELSE got[w]]
  /\ Keep(c, got[c])
  /\ UNCHANGED <<leader, since, version, invalidations, floor, quiet>>

\* A failed Result, which is not stored, or an exception: all waiters get it too.
FetchFails(c) ==
  /\ phase[c] \in {"fetching", "answered"}
  /\ Unpend(c)
  /\ Answer(c, "failed")
  /\ UNCHANGED <<store, writes, leader, got, since, version, state, invalidations, floor, quiet>>

\* The caller is cancelled.  A waiter's await is shielded; a leader's CancelledError
\* passes `except Exception`, so its future stays unresolved.
Cancel(c) ==
  /\ phase[c] \in {"fetching", "answered", "waiting"}
  /\ IF phase[c] = "waiting" THEN UNCHANGED pending ELSE Unpend(c)
  /\ phase' = [phase EXCEPT ![c] = "cancelled"]
  /\ UNCHANGED <<store, writes, leader, got, since, version, state, invalidations, floor, quiet>>

Invalidated ==
  /\ invalidations < MaxInvalidations
  /\ invalidations' = invalidations + 1
  /\ floor' = version
  /\ quiet' = [k \in Keys |-> IF pending[k] = Nobody THEN version[k] ELSE quiet[k]]

\* Mutant: only what has expired is removed.
InvalidateExpired ==
  /\ Invalidated
  /\ store' = Cleaned(store)
  /\ UNCHANGED <<writes, pending, callVars, version, state>>

\* Mutant: the futures of the fetches in flight are forgotten as well.
InvalidateWithPending ==
  /\ Invalidated
  /\ store' = EmptyStore
  /\ pending' = [k \in Keys |-> Nobody]
  /\ UNCHANGED <<writes, callVars, version, state>>

\* invalidate_cache (reinitialize with force_refresh calls it too).
Invalidate ==
  /\ Invalidated
  /\ store' = EmptyStore
  /\ UNCHANGED <<writes, pending, callVars, version, state>>

\* The data change at their source.
SourceChanges(k) ==
  /\ version[k] < MaxVersion[k]
  /\ version' = [version EXCEPT ![k] = @ + 1]
  /\ UNCHANGED <<cacheVars, callVars, state, invalidations, floor, quiet>>

Tick ==
  /\ DOMAIN store # {}
  /\ store' = Aged(store)
  /\ UNCHANGED <<writes, pending, callVars, version, state, invalidations, floor, quiet>>

CallStep(c) ==
  \/ Bypass(c) \/ Hit(c) \/ Miss(c) \/ SourceReads(c)
  \/ FetchReturns(c) \/ FetchFails(c) \/ Cancel(c)

Settled == \A c \in Callers : Ended(c)

Next ==
  \/ \E c \in Callers : CallStep(c)
  \/ \E k \in Keys : SourceChanges(k)
  \/ Invalidate
  \/ Tick
  \/ Settled /\ UNCHANGED vars

Spec == Init /\ [][Next]_vars

\* Requests end (aiohttp's timeout).
Fairness ==
  \A c \in Callers : /\ WF_vars(SourceReads(c) \/ FetchFails(c))
                     /\ WF_vars(FetchReturns(c) \/ FetchFails(c))

FairSpec == Spec /\ Fairness

-----------------------------------------------------------------------------
\* `before` orders the keys: the dict has one order of insertion.
InsertionOrder(s) ==
  /\ \A k \in DOMAIN s : k \notin s[k].before /\ s[k].before \subseteq DOMAIN s
  /\ \A j, k \in DOMAIN s : j = k \/ j \in s[k].before \/ k \in s[j].before
  /\ \A j, k \in DOMAIN s : j \in s[k].before => s[j].before \subseteq s[k].before

EntryTypes == [val : Nat \ {0}, age : 0..(TTL + 1), before : SUBSET Keys]

Dict(s) ==
  /\ DOMAIN s \subseteq Keys /\ IsFiniteSet(DOMAIN s)
  /\ s \in [DOMAIN s -> EntryTypes]
  /\ InsertionOrder(s)

\* The types; the store never exceeds max_size.
CacheTypeOK ==
  /\ Dict(store) /\ Cardinality(DOMAIN store) <= MaxSize
  /\ writes \in 0..(CleanupInterval - 1)
  /\ pending \in [Keys -> Callers \cup {Nobody}]
  /\ phase \in [Callers -> Phases]
  /\ leader \in [Callers -> Callers \cup {Nobody}]
  /\ got \in [Callers -> Nat]
  /\ version \in [Keys -> Nat \ {0}]
  /\ state \in [Clients -> [Keys -> Nat]]
  /\ invalidations \in 0..MaxInvalidations
  /\ floor \in [Keys -> Nat] /\ quiet \in [Keys -> Nat]
  /\ since \in [Callers -> [floor : Nat, quiet : Nat]]

Fetching(c) == phase[c] \in {"fetching", "answered"}

\* "Concurrent callers for the same uncached key are coalesced - the underlying function
\* is called exactly once" (cache.py:128): two fetches of one key are never in flight
\* together, whatever is invalidated, expires, fails or is cancelled meanwhile.
SingleFlight ==
  \A c, d \in Callers :
    Cached(c) /\ Cached(d) /\ Fetching(c) /\ Fetching(d) /\ KeyOf[c] = KeyOf[d] => c = d

\* Cached calls never go back in time: what a call returns is no older than what any
\* call for the key returned before, through invalidations and fetches that overlap.
NeverGoesBack ==
  [][\A c, d \in Callers :
       /\ Cached(c) /\ Cached(d) /\ KeyOf[c] = KeyOf[d]
       /\ phase[c] = "done" /\ phase[d] # "done" /\ phase'[d] = "done"
       => got'[d] >= got[c]]_vars

\* What the cached calls have returned.
Returned == [c \in Callers |-> IF Cached(c) /\ phase[c] = "done" THEN got[c] ELSE 0]

Register == INSTANCE LaggingRegister WITH barrier <- quiet, returned <- Returned

\* The store, the futures and the fetches are invisible to callers: every behaviour is one
\* in which a cached call reads a register in one step.  It may be given old data, but none
\* older than a call for the key was given before, or than the last invalidation that found
\* no fetch of the key in flight (cache.py:145-193, base.py:818-836).
ImplementsRegister == Register!RegisterSpec

\* After invalidate_cache with no fetch of the key in flight, no call returns data that
\* were read before it.
FreshAfterQuietInvalidation ==
  \A c \in Callers : Cached(c) /\ phase[c] = "done" => got[c] >= since[c].quiet

\* reinitialize(force_refresh=True) "clears the static and semi-static caches before
\* fetching, guaranteeing fresh data regardless of TTL" (base.py:1450): no call that
\* begins after an invalidation returns data that were read before it.
FreshAfterInvalidation ==
  \A c \in Callers : phase[c] = "done" => got[c] >= since[c].floor

\* A client keeps the data its call returned, or newer ones ("Rebuild client.pairs when
\* get_clob_pairs is served from cache", clob.py:230), unless the call was coalesced.
StateKeepsUp ==
  \A c \in Callers :
    Cached(c) /\ phase[c] = "done" /\ leader[c] \in {c, Nobody} =>
      state[ClientOf[c]][KeyOf[c]] >= got[c]

LeaderCancelled(c) == \E l \in Callers : leader[c] = l /\ phase[l] = "cancelled"

\* A waiter can still be answered: the call it was coalesced with is fetching, whatever
\* was invalidated, evicted or refetched meanwhile, unless that call was cancelled.
WaitersHaveLeader ==
  \A c \in Callers :
    phase[c] = "waiting" => Fetching(leader[c]) \/ LeaderCancelled(c)

\* "all waiters receive the same result" (cache.py:129): no waiter waits for ever.
AllWaitersAnswered == \A c \in Callers : (phase[c] = "waiting") ~> Ended(c)
=============================================================================
