---------------------------- MODULE MemoryCache ----------------------------
(***************************************************************************)
(* utils/cache.py: MemoryCache, as functions from a store to the next.     *)
(* The store is a dict: a function of the keys it holds.  An entry has its *)
(* value, its age (the time since its timestamp) and the keys in the dict  *)
(* that were inserted before its own: a Python dict keeps that order.      *)
(***************************************************************************)
EXTENDS Naturals, FiniteSets

CONSTANTS
  TTL,             \* ttl
  MaxSize,         \* max_size
  CleanupInterval  \* _CLEANUP_INTERVAL

ASSUME CacheAssumption ==
  /\ TTL \in Nat
  /\ MaxSize \in Nat \ {0}
  /\ CleanupInterval \in Nat \ {0}

EmptyStore == [k \in {} |-> {}]
Entry(v, keys) == [val |-> v, age |-> 0, before |-> keys]

Has(store, k) == k \in DOMAIN store

\* get: an entry is served up to and including the age TTL...
Servable(store, k) == Has(store, k) /\ store[k].age <= TTL

\* The store without the keys that are not in K.
Keeping(store, K) == [k \in K |-> [store[k] EXCEPT !.before = @ \cap K]]

\* ... and one that is older is dropped when it is asked for.
AfterLookup(store, k) ==
  Keeping(store, {j \in DOMAIN store : j # k \/ store[j].age <= TTL})

\* Overwriting keeps the position of the key, as in a Python dict.
Written(store, k, v) ==
  [j \in DOMAIN store \cup {k} |->
     IF j # k THEN store[j]
     ELSE Entry(v, IF Has(store, k) THEN store[k].before ELSE DOMAIN store)]

\* _trim: first in, first out.
Trimmed(store) ==
  Keeping(store, {k \in DOMAIN store :
                    Cardinality(DOMAIN store) <= Cardinality(store[k].before) + MaxSize})

\* _cleanup drops an entry of age TTL already.
Cleaned(store) == Keeping(store, {k \in DOMAIN store : store[k].age < TTL})

\* set, after `writes` writes since the last clean-up.
AfterSet(store, k, v, writes) ==
  LET s == Trimmed(Written(store, k, v)) IN
  IF writes = CleanupInterval - 1 THEN Cleaned(s) ELSE s

\* A unit of time passes; all that is older than TTL is alike.
Aged(store) ==
  [k \in DOMAIN store |->
     [store[k] EXCEPT !.age = IF @ <= TTL THEN @ + 1 ELSE @]]
=============================================================================
