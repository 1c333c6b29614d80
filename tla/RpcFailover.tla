---------------------------- MODULE RpcFailover ----------------------------
(***************************************************************************)
(* _rpc_call and _rpc_call_with_failover (core/base.py) on one chain:      *)
(* concurrent calls that share one ProviderManager.                        *)
(*                                                                         *)
(* A caller first asks for a provider (_get_w3_l1,                         *)
(* _get_provider_for_chain) and later passes it to _rpc_call, which fails  *)
(* over only if _find_chain_for_provider finds that very object to be the  *)
(* primary one; any other goes to that one provider directly.  A request   *)
(* stands for what the rate limiter and async_retry make of it on one      *)
(* provider, and fails with whatever exception is left in the end: that of *)
(* a lost connection as well as that of a transaction the node rejects.    *)
(***************************************************************************)
EXTENDS ProviderManager

CONSTANTS
  Calls,      \* RPC calls
  MaxReinits, \* bound on the calls of reinitialize
  Nobody      \* no provider

ASSUME ReinitsAssumption == MaxReinits \in Nat

VARIABLES
  pm,        \* the provider manager
  gen,       \* how often add_providers has replaced the list
  phase,     \* idle: not begun; holding: has a provider; asking: a request is out
  server,    \* the provider <<gen, index>> a call holds or has asked
  left,      \* tries left in the loop over max_providers
  route,     \* how _rpc_call serves the call: failover or direct
  started,   \* history: gen when the call entered the loop
  blamed     \* history: the providers <<gen, index>> mark_failure was called for

callVars == <<phase, server, left, route, started>>
rfVars == <<pm, gen, callVars, blamed>>

Phases == {"idle", "holding", "asking", "ok", "raised", "cancelled"}
Ended(c) == phase[c] \in {"ok", "raised", "cancelled"}

Primary == <<gen, 0>>  \* w3_l1, connected_chain_providers[chain]

RFInit ==
  /\ pm = NewManager
  /\ gen = 0
  /\ phase = [c \in Calls |-> "idle"]
  /\ server = [c \in Calls |-> Nobody]
  /\ left = [c \in Calls |-> 0]
  /\ route = [c \in Calls |-> "failover"]
  /\ started = [c \in Calls |-> 0]
  /\ blamed = {}

Enter(c, p) == phase' = [phase EXCEPT ![c] = p]

\* _get_w3_l1: the manager's choice, or else the primary provider.
AcquireHandle(c) ==
  /\ phase[c] = "idle"
  /\ Enter(c, "holding")
  /\ pm' = AfterGet(pm)
  /\ server' = [server EXCEPT ![c] = IF Usable(pm) = {} THEN Primary ELSE <<gen, Chosen(pm)>>]
  /\ UNCHANGED <<gen, left, route, started, blamed>>

\* An iteration of the loop with n tries left, the manager being in state m: send the
\* request to the provider get_provider returns, or raise.
Iterate(c, m, n) ==
  /\ pm' = IF n > 0 THEN AfterGet(m) ELSE m
  /\ IF n > 0 /\ Usable(m) # {}
     THEN /\ server' = [server EXCEPT ![c] = <<gen, Chosen(m)>>]
          /\ left' = [left EXCEPT ![c] = n - 1]
          /\ Enter(c, "asking")
     ELSE Enter(c, "raised") /\ UNCHANGED <<server, left>>

\* _rpc_call with the primary provider.
StartFailover(c) ==
  /\ phase[c] = "holding"
  /\ server[c] = Primary
  /\ Iterate(c, pm, N)
  /\ started' = [started EXCEPT ![c] = gen]
  /\ UNCHANGED <<gen, route, blamed>>

\* _rpc_call with any other provider: no failover, no health tracking.
StartDirect(c) ==
  /\ phase[c] = "holding"
  /\ server[c] # Primary
  /\ Enter(c, "asking")
  /\ route' = [route EXCEPT ![c] = "direct"]
  /\ UNCHANGED <<pm, gen, server, left, started, blamed>>

\* mark_success, on whatever is now at the index of the provider that was asked.
Succeed(c) ==
  /\ phase[c] = "asking"
  /\ Enter(c, "ok")
  /\ pm' = IF route[c] = "failover" THEN AfterSuccess(pm, server[c][2]) ELSE pm
  /\ UNCHANGED <<gen, server, left, route, started, blamed>>

\* Mutant: the provider that failed is asked again until it answers.
FailOverToItself(c) ==
  /\ phase[c] = "asking" /\ route[c] = "failover"
  /\ left' = [left EXCEPT ![c] = IF @ = 0 THEN N - 1 ELSE @ - 1]
  /\ UNCHANGED <<pm, gen, phase, server, route, started, blamed>>

\* mark_failure, then the next iteration of the loop.
FailOver(c) ==
  /\ phase[c] = "asking" /\ route[c] = "failover"
  /\ blamed' = blamed \cup {<<gen, server[c][2]>>}
  /\ Iterate(c, AfterFailure(pm, server[c][2]), left[c])
  /\ UNCHANGED <<gen, route, started>>

FailDirect(c) ==
  /\ phase[c] = "asking" /\ route[c] = "direct"
  /\ Enter(c, "raised")
  /\ UNCHANGED <<pm, gen, server, left, route, started, blamed>>

\* Mutant: mark_success in a `finally`.
CancelMarks(c) ==
  /\ phase[c] \in {"holding", "asking"}
  /\ Enter(c, "cancelled")
  /\ pm' = AfterSuccess(pm, server[c][2])
  /\ UNCHANGED <<gen, server, left, route, started, blamed>>

\* CancelledError is not an Exception: nothing is marked.
Cancel(c) ==
  /\ phase[c] \in {"holding", "asking"}
  /\ Enter(c, "cancelled")
  /\ UNCHANGED <<pm, gen, server, left, route, started, blamed>>

\* reinitialize runs add_providers again while calls are out.
Reinitialize ==
  /\ gen < MaxReinits
  /\ gen' = gen + 1
  /\ pm' = NewManager
  /\ UNCHANGED <<callVars, blamed>>

Tick ==
  /\ \E i \in Indices : pm.cooling[i] > 0
  /\ pm' = AfterTick(pm)
  /\ UNCHANGED <<gen, callVars, blamed>>

CallStep(c) ==
  \/ AcquireHandle(c) \/ StartFailover(c) \/ StartDirect(c)
  \/ Succeed(c) \/ FailOver(c) \/ FailDirect(c) \/ Cancel(c)

Settled == \A c \in Calls : Ended(c)

RFNext ==
  \/ \E c \in Calls : CallStep(c)
  \/ Reinitialize
  \/ Tick
  \/ Settled /\ UNCHANGED rfVars

RFSpec == RFInit /\ [][RFNext]_rfVars

\* A request ends (HTTP timeout), and a caller that has a provider uses it.
RFFairness ==
  \A c \in Calls : /\ WF_rfVars(StartFailover(c) \/ StartDirect(c))
                   /\ WF_rfVars(Succeed(c) \/ FailOver(c) \/ FailDirect(c))

RFFairSpec == RFSpec /\ RFFairness

-----------------------------------------------------------------------------
\* The types: among them, the tries of a call never leave 0..N, and the index of the
\* current provider is one of the list.
RFTypeOK ==
  /\ pm \in Managers
  /\ gen \in Nat
  /\ phase \in [Calls -> Phases]
  /\ server \in [Calls -> (Nat \X Indices) \cup {Nobody}]
  /\ left \in [Calls -> 0..N]
  /\ route \in [Calls -> {"failover", "direct"}]
  /\ started \in [Calls -> Nat]
  /\ blamed \subseteq Nat \X Indices

\* "Providers are marked as unhealthy only after exceeding the max failure threshold"
\* (README.md:554), and the flag never disagrees with the count, so that the fast path
\* of get_provider and its scan agree on who may serve, whatever late answers of
\* concurrent calls do to the counts.
HealthyBelowThreshold ==
  \A i \in Indices : pm.healthy[i] <=> pm.failures[i] < MaxFailures

\* "If all providers fail, an error is raised" (README.md:547): a call that fails over
\* raises only when every provider of the list has been marked as failed by some call,
\* although other calls move the current index under it and its tries are counted.
\* (For a call that no reinitialize has overtaken.)
RaisesOnlyWhenAllFailed ==
  \A c \in Calls :
    phase[c] = "raised" /\ route[c] = "failover" /\ started[c] = gen =>
      \A i \in Indices : <<gen, i>> \in blamed

\* Some call went to provider i of the list directly and failed.
FailedDirectly(i) ==
  \E c \in Calls : phase[c] = "raised" /\ route[c] = "direct" /\ server[c] = <<gen, i>>

\* "When an RPC call fails [...] the SDK automatically tries the next available provider"
\* (README.md:544-546): no call raises while some provider never failed a request.
NoCallFailsBesideGoodProvider ==
  \A c \in Calls :
    phase[c] = "raised" /\ gen = 0 =>
      \A i \in Indices : <<0, i>> \in blamed \/ FailedDirectly(i)

\* "Failed providers are retried after a cooldown period" (README.md:497).
RetriedAfterCooldown ==
  \A i \in Indices : pm.cooling[i] = 0 => CanRetry(pm, i)

\* An exhausted provider comes back only when a request that was already out to it is
\* answered, or with a new list: nothing in the failover itself revives it.
RevivedByAnswer ==
  \A i \in Indices :
    pm.failures[i] >= MaxFailures /\ pm'.failures[i] < MaxFailures =>
      \/ gen' # gen
      \/ \E c \in Calls : phase[c] = "asking" /\ phase'[c] = "ok" /\ server[c][2] = i

RevivedOnlyByAnswer == [][RevivedByAnswer]_rfVars

\* No call is caught in the loop, however the providers fail.
EveryRpcCallEnds == \A c \in Calls : (phase[c] = "holding") ~> Ended(c)
=============================================================================
