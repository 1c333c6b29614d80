-------------------------- MODULE ProviderManager --------------------------
(***************************************************************************)
(* utils/provider_manager.py: the providers of one chain, their health and *)
(* the index of the current one, as functions from a state of the manager  *)
(* to the next.                                                            *)
(*                                                                         *)
(* Every method takes the lock of the chain and none awaits anything while *)
(* it holds it, so the lock is always free and each method is one step of  *)
(* its caller.  Time is what remains of each provider's cooldown.          *)
(***************************************************************************)
EXTENDS Naturals

CONSTANTS
  N,            \* providers configured for the chain
  MaxFailures,  \* provider_failover_max_failures
  Cooldown      \* provider_failover_cooldown

ASSUME ProvidersAssumption == N \in Nat \ {0}
ASSUME MaxFailuresAssumption == MaxFailures \in Nat \ {0}  \* config.py:391
ASSUME CooldownAssumption == Cooldown \in Nat              \* config.py:389

Indices == 0..(N - 1)

\* failures: failure_count; healthy: is_healthy; cooling: what is left of the cooldown
\* that began at last_failure_time; current: _current_provider_index.
Managers == [failures : [Indices -> Nat],
             healthy  : [Indices -> BOOLEAN],
             cooling  : [Indices -> 0..Cooldown],
             current  : Indices]

\* add_providers: a new list of providers, all of them healthy.
NewManager == [failures |-> [i \in Indices |-> 0],
               healthy  |-> [i \in Indices |-> TRUE],
               cooling  |-> [i \in Indices |-> 0],
               current  |-> 0]

\* ProviderHealth.can_retry.
CanRetry(m, i) ==
  \/ m.failures[i] = 0
  \/ m.failures[i] < MaxFailures /\ m.cooling[i] = 0

Usable(m) == {i \in Indices : CanRetry(m, i)}

\* i comes no later than j in the order from, from + 1, ..., N - 1, 0, 1, ...
NotAfter(i, j, from) == IF i >= from THEN j < from \/ i <= j ELSE j < from /\ i <= j

\* The first of the indices U in that order.
FirstFrom(U, from) == CHOOSE i \in U : \A j \in U : NotAfter(i, j, from)

\* get_provider returns Chosen(m), or None when no provider is usable.  Its fast path
\* is the case that the scan would stop at the current provider.
Chosen(m) == FirstFrom(Usable(m), m.current)

AfterGet(m) ==
  IF Usable(m) = {} THEN m
  ELSE [m EXCEPT !.current = Chosen(m), !.healthy[Chosen(m)] = TRUE]

\* The failure of i is counted...
Counted(m, i) ==
  [failures |-> [m.failures EXCEPT ![i] = @ + 1],
   healthy  |-> [m.healthy EXCEPT ![i] = @ /\ m.failures[i] + 1 < MaxFailures],
   cooling  |-> [m.cooling EXCEPT ![i] = Cooldown],
   current  |-> m.current]

\* Mutant: whichever provider failed, the current index moves on.
AfterFailureAlwaysSwitching(m, i) ==
  LET n == Counted(m, i) IN
  IF Usable(n) # {}
  THEN [n EXCEPT !.current = FirstFrom(Usable(n), m.current + 1)]
  ELSE n

\* ... and, if it was the current provider, the next usable one becomes current.
AfterFailure(m, i) ==
  LET n == Counted(m, i) IN
  IF m.current = i /\ Usable(n) # {}
  THEN [n EXCEPT !.current = FirstFrom(Usable(n), i + 1)]
  ELSE n

\* The current index stays where it is.
AfterSuccess(m, i) ==
  [failures |-> [m.failures EXCEPT ![i] = 0],
   healthy  |-> [m.healthy EXCEPT ![i] = TRUE],
   cooling  |-> [m.cooling EXCEPT ![i] = 0],
   current  |-> m.current]

\* A unit of time passes.
AfterTick(m) ==
  [m EXCEPT !.cooling = [i \in Indices |-> IF @[i] > 0 THEN @[i] - 1 ELSE 0]]
=============================================================================
