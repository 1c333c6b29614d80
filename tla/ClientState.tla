---------------------------- MODULE ClientState ----------------------------
(***************************************************************************)
(* core/base.py: how a client loads what it keeps and refreshes it.        *)
(* initialize_client and reinitialize install the environments (Web3       *)
(* providers) and then gather four fetches; get_environments installs the  *)
(* environments alone, from the static cache when it holds them; close     *)
(* drops the providers and the HTTP session.                               *)
(*                                                                         *)
(* gather has no return_exceptions: the first fetch that fails ends the    *)
(* call, and its siblings run on.  Applying an answer does not suspend     *)
(* (the awaits in it take locks that no one holds across a suspension), so *)
(* it is one step.  Data is the version the backend had when it served it. *)
(* A provider is named after the call that created it.  Of the gathered    *)
(* fetches the tokens and the TradePairs deployment are modelled: the CLOB *)
(* pairs (AsyncCache) fail as the tokens do, the other deployments are     *)
(* stored and bound as TradePairs is, the RFQ pairs fail silently.         *)
(* token_data is also written by get_token_details (transfer.py), which is *)
(* left out.                                                               *)
(***************************************************************************)
EXTENDS Naturals

CONSTANTS
  Calls,       \* calls of initialize_client, reinitialize and get_environments
  NoCall,      \* w3_l1 is None, no contract built
  Symbols,     \* entries of token_data: a symbol in an environment
  MaxVersion,  \* bound on the versions the backend publishes
  Lists,       \* the entries a version of the backend's data lists
  MaxCloses    \* bound on the calls of close

ASSUME ClientAssumption ==
  NoCall \notin Calls /\ MaxVersion \in Nat \ {0} /\ MaxCloses \in Nat

ASSUME ListsAssumption == Lists \in [1 .. MaxVersion -> SUBSET Symbols]

VARIABLES
  version,   \* what the backend serves
  phase,     \* idle; environments: the first fetch; fetching: the gather; ok;
             \* failed: returned a failure or was cancelled
  kind,      \* refresh, forced (force_refresh=True), read (get_environments)
  stage,     \* of a fetch of a call: idle, asked, served, done, dropped (failed or
             \* cancelled)
  answer,    \* the version served to a fetch, until it is applied (env: for good)
  provider,  \* w3_l1: the call whose environments are installed
  bound,     \* the provider trade_pairs_contract was built on
  tokens,    \* the version of each entry of token_data, 0 for one it does not have
  deployed,  \* the version of deployments, 0 for none
  envCache,  \* the version get_environments has in the static cache, 0 for none
  session,   \* _session: open, shut (closed, still referenced), none
  closer,    \* forgetting: close awaits session.close()
  closes,    \* calls of close so far
  since,     \* history: the version when a call began
  company    \* history: what else touched the client since a call began: none,
             \* orphans (fetches of calls that had returned), calls

callVars == <<phase, kind, stage, answer>>
dataVars == <<tokens, deployed>>
closeVars == <<session, closer, closes>>
history == <<since, company>>
vars == <<version, callVars, provider, bound, dataVars, envCache, closeVars, history>>

Parts == {"env", "tokens", "deploy"}
Gathered == Parts \ {"env"}
Busy(c) == phase[c] \in {"environments", "fetching"}
Running(c, p) == stage[c][p] \in {"asked", "served"}
Orphaned(c) == ~Busy(c) /\ \E p \in Parts : Running(c, p)

\* A new client; as a context manager (__aenter__) it has connected already.
Init ==
  /\ version = 1
  /\ phase = [c \in Calls |-> "idle"]
  /\ kind = [c \in Calls |-> "refresh"]
  /\ stage = [c \in Calls |-> [p \in Parts |-> "idle"]]
  /\ answer = [c \in Calls |-> [p \in Parts |-> 0]]
  /\ provider = NoCall /\ bound = NoCall
  /\ tokens = [s \in Symbols |-> 0] /\ deployed = 0
  /\ envCache = 0
  /\ session \in {"none", "open"} /\ closer = "idle" /\ closes = 0
  /\ since = [c \in Calls |-> 0]
  /\ company = [c \in Calls |-> "none"]

\* Call c begins: it is company to every other, and finds those under way.
Joins(c) ==
  /\ since' = [since EXCEPT ![c] = version]
  /\ company' = [d \in Calls |->
       IF d # c THEN "calls"
       ELSE IF closer # "idle" \/ \E b \in Calls \ {c} : Busy(b) THEN "calls"
       ELSE IF \E b \in Calls : Orphaned(b) THEN "orphans" ELSE "none"]

\* connect(): a session unless there is an open one.
Connect == session' = "open"

\* initialize_client, reinitialize: connect, clear the caches if asked to, ask for the
\* environments.
Begin(c) ==
  /\ phase[c] = "idle"
  /\ \E k \in {"refresh", "forced"} :
       /\ kind' = [kind EXCEPT ![c] = k]
       /\ envCache' = IF k = "forced" THEN 0 ELSE envCache
  /\ Connect
  /\ phase' = [phase EXCEPT ![c] = "environments"]
  /\ stage' = [stage EXCEPT ![c].env = "asked"]
  /\ Joins(c)
  /\ UNCHANGED <<version, answer, provider, bound, dataVars, closer, closes>>

\* get_environments with no live entry (the entry expires at any time); without a session
\* a request raises.  A call that finds another one pending shares its result and changes
\* nothing: it is left out.
Read(c) ==
  /\ phase[c] = "idle"
  /\ \A d \in Calls : ~(Busy(d) /\ kind[d] = "read")
  /\ kind' = [kind EXCEPT ![c] = "read"]
  /\ phase' = [phase EXCEPT ![c] = IF session = "open" THEN "environments" ELSE "failed"]
  /\ stage' = [stage EXCEPT ![c].env = IF session = "open" THEN "asked" ELSE "dropped"]
  /\ Joins(c)
  /\ UNCHANGED <<version, answer, provider, bound, dataVars, envCache, closeVars>>

\* get_environments answered by the cache: _rehydrate_cached_get_environments.
ReadCached(c) ==
  /\ phase[c] = "idle"
  /\ envCache # 0
  /\ kind' = [kind EXCEPT ![c] = "read"]
  /\ phase' = [phase EXCEPT ![c] = "ok"]
  /\ stage' = [stage EXCEPT ![c].env = "done"]
  /\ answer' = [answer EXCEPT ![c].env = envCache]
  /\ provider' = c
  /\ Joins(c)
  /\ UNCHANGED <<version, bound, dataVars, envCache, closeVars>>

\* The backend reads what it answers a request with.
Serve(c, p) ==
  /\ stage[c][p] = "asked"
  /\ stage' = [stage EXCEPT ![c][p] = "served"]
  /\ answer' = [answer EXCEPT ![c][p] = version]
  /\ UNCHANGED <<version, phase, kind, provider, bound, dataVars, envCache, closeVars, history>>

\* The environments arrive: _apply_environment_state, then the gather of the other
\* fetches, or the return of get_environments, which the cache stores.
EnvironmentsArrive(c) ==
  /\ stage[c].env = "served"
  /\ provider' = c
  /\ IF kind[c] = "read"
     THEN /\ phase' = [phase EXCEPT ![c] = "ok"]
          /\ stage' = [stage EXCEPT ![c].env = "done"]
          /\ envCache' = answer[c].env
     ELSE /\ phase' = [phase EXCEPT ![c] = IF session = "open" THEN "fetching" ELSE "failed"]
          /\ stage' = [stage EXCEPT ![c] = [p \in Parts |->
                         IF p = "env" THEN "done"
                         ELSE IF session = "open" THEN "asked" ELSE "dropped"]]
          /\ UNCHANGED envCache
  /\ UNCHANGED <<version, kind, answer, bound, dataVars, closeVars, history>>

\* An insecure URL is rejected half-way through _apply_environment_state: the old
\* providers are gone, the L1's is there only if its environment came first.
EnvironmentsRejected(c) ==
  /\ stage[c].env = "served"
  /\ provider' \in {NoCall, c}
  /\ phase' = [phase EXCEPT ![c] = "failed"]
  /\ stage' = [stage EXCEPT ![c].env = "dropped"]
  /\ UNCHANGED <<version, kind, answer, bound, dataVars, envCache, closeVars, history>>

\* A fetch of the gather ends well; the call returns when it was the last.
Ends(c, p) ==
  /\ stage' = [stage EXCEPT ![c][p] = "done"]
  /\ phase' = IF phase[c] = "fetching" /\ \A q \in Gathered \ {p} : stage[c][q] = "done"
              THEN [phase EXCEPT ![c] = "ok"] ELSE phase
  /\ UNCHANGED <<version, kind, provider, envCache, closeVars, history>>

Arrives(c, p) ==
  /\ stage[c][p] = "served"
  /\ answer' = [answer EXCEPT ![c][p] = 0]
  /\ Ends(c, p)

\* Mutant: only the symbols that token_data does not have yet are stored.
TokensArriveIfNew(c) ==
  /\ Arrives(c, "tokens")
  /\ tokens' = [s \in Symbols |-> IF s \in Lists[answer[c].tokens] /\ tokens[s] = 0
                                  THEN answer[c].tokens ELSE tokens[s]]
  /\ UNCHANGED <<bound, deployed>>

\* _fetch_tokens adds the entries listed to token_data or overwrites them; the others stay.
TokensArrive(c) ==
  /\ Arrives(c, "tokens")
  /\ tokens' = [s \in Symbols |-> IF s \in Lists[answer[c].tokens]
                                  THEN answer[c].tokens ELSE tokens[s]]
  /\ UNCHANGED <<bound, deployed>>

\* Mutant: the contract is built on the provider the call itself installed.
DeploymentArrivesOnOwn(c) ==
  /\ Arrives(c, "deploy")
  /\ deployed' = answer[c].deploy
  /\ bound' = c
  /\ UNCHANGED tokens

\* _process_deployment_item: the contract is built on the w3_l1 of the moment, if any.
DeploymentArrives(c) ==
  /\ Arrives(c, "deploy")
  /\ deployed' = answer[c].deploy
  /\ bound' = IF provider # NoCall THEN provider ELSE bound
  /\ UNCHANGED tokens

\* A request fails or times out: the call returns a failure, unless it has returned.
FetchFails(c, p) ==
  /\ Running(c, p)
  /\ stage' = [stage EXCEPT ![c][p] = "dropped"]
  /\ phase' = IF Busy(c) THEN [phase EXCEPT ![c] = "failed"] ELSE phase
  /\ UNCHANGED <<version, kind, answer, provider, bound, dataVars, envCache, closeVars, history>>

\* The caller is cancelled, and the fetches it waits for with it.
Cancel(c) ==
  /\ Busy(c)
  /\ phase' = [phase EXCEPT ![c] = "failed"]
  /\ stage' = [stage EXCEPT ![c] = [p \in Parts |->
                 IF Running(c, p) THEN "dropped" ELSE stage[c][p]]]
  /\ UNCHANGED <<version, kind, answer, provider, bound, dataVars, envCache, closeVars, history>>

Publish ==
  /\ version < MaxVersion
  /\ version' = version + 1
  /\ UNCHANGED <<callVars, provider, bound, dataVars, envCache, closeVars, history>>

\* close drops the providers (the contracts stay) and ends the connections: the requests
\* not yet answered fail.  session.close() is awaited.
Close ==
  /\ closer = "idle" /\ closes < MaxCloses
  /\ closer' = "forgetting" /\ closes' = closes + 1
  /\ provider' = NoCall
  /\ session' = IF session = "open" THEN "shut" ELSE session
  /\ stage' = [c \in Calls |-> [p \in Parts |->
                 IF stage[c][p] = "asked" THEN "dropped" ELSE stage[c][p]]]
  /\ phase' = [c \in Calls |->
                 IF Busy(c) /\ \E p \in Parts : stage[c][p] = "asked" THEN "failed" ELSE phase[c]]
  /\ company' = [c \in Calls |-> "calls"]
  /\ UNCHANGED <<version, kind, answer, bound, dataVars, envCache, since>>

\* Whatever _session is by now, it is forgotten.
CloseForgets ==
  /\ closer = "forgetting"
  /\ closer' = "idle"
  /\ session' = "none"
  /\ UNCHANGED <<version, callVars, provider, bound, dataVars, envCache, closes, history>>

Finished ==
  /\ \A c \in Calls : phase[c] \in {"ok", "failed"}
  /\ UNCHANGED vars

FetchEnds(c) ==
  \/ EnvironmentsArrive(c) \/ EnvironmentsRejected(c)
  \/ TokensArrive(c) \/ DeploymentArrives(c)
  \/ \E p \in Parts : Serve(c, p) \/ FetchFails(c, p)

Next ==
  \/ \E c \in Calls : Begin(c) \/ Read(c) \/ ReadCached(c) \/ FetchEnds(c) \/ Cancel(c)
  \/ Publish \/ Close \/ CloseForgets \/ Finished

\* A request is answered or times out (config.timeouts), and close gets its turns.
Fairness == (\A c \in Calls : WF_vars(FetchEnds(c))) /\ WF_vars(CloseForgets)
Spec == Init /\ [][Next]_vars
FairSpec == Spec /\ Fairness

-----------------------------------------------------------------------------
\* The types; a call that succeeded has all the fetches it makes behind it, one that has
\* not begun has made none, and only a gather leaves fetches running when it fails.
ClientTypeOK ==
  /\ version \in 1 .. MaxVersion /\ closes \in 0 .. MaxCloses
  /\ phase \in [Calls -> {"idle", "environments", "fetching", "ok", "failed"}]
  /\ kind \in [Calls -> {"refresh", "forced", "read"}]
  /\ stage \in [Calls -> [Parts -> {"idle", "asked", "served", "done", "dropped"}]]
  /\ answer \in [Calls -> [Parts -> 0 .. MaxVersion]]
  /\ {provider, bound} \subseteq Calls \cup {NoCall}
  /\ tokens \in [Symbols -> 0 .. MaxVersion]
  /\ {deployed, envCache} \subseteq 0 .. MaxVersion
  /\ session \in {"open", "shut", "none"} /\ closer \in {"idle", "forgetting"}
  /\ since \in [Calls -> 0 .. MaxVersion]
  /\ company \in [Calls -> {"none", "orphans", "calls"}]
  /\ \A c \in Calls :
       /\ phase[c] = "ok" =>
            \A p \in Parts : stage[c][p] = IF kind[c] = "read" /\ p # "env" THEN "idle" ELSE "done"
       /\ phase[c] = "idle" => \A p \in Parts : stage[c][p] = "idle"
       /\ Orphaned(c) => phase[c] = "failed" /\ stage[c].env = "done"

\* trade_pairs_contract never outlives its provider unnoticed: when the providers in
\* place were installed by an initialize_client or reinitialize that succeeded, the
\* contract was built on them, whatever other refreshes, orphaned fetches and
\* cancellations came in between (base.py:1142-1154, 1457-1474, 1503-1506).
ContractsFollowProviders ==
  provider # NoCall /\ phase[provider] = "ok" /\ kind[provider] # "read" => bound = provider

\* What version v lists is what token_data has of it.
TokensOf(v) == \A s \in Lists[v] : tokens[s] = v

\* What a refresh promises: the client has data at least as new as when the call began.
HoldsSince(c) ==
  /\ provider = c /\ answer[c].env >= since[c]
  /\ \E v \in 1 .. MaxVersion : v >= since[c] /\ TokensOf(v)
  /\ deployed >= since[c]

\* After a refresh that succeeded, with or without force_refresh, and until the client is
\* touched again, its providers, its deployments and every token the backend lists are at
\* least as new as the backend was when the call began (base.py:1436-1447); the tokens are
\* all of one version.  (Of a token that is no longer listed it says nothing.)
RefreshTakesEffect ==
  \A c \in Calls :
    phase[c] = "ok" /\ kind[c] # "read" /\ company[c] = "none" => HoldsSince(c)

\* "guaranteeing fresh data regardless of TTL" (base.py:1449-1451), to a caller who makes
\* one call after another.  The code refutes it: when an earlier call failed, its other
\* fetches still run, and their older answers arrive after the refresh.
ForcedRefreshIsFresh ==
  \A c \in Calls :
    phase[c] = "ok" /\ kind[c] = "forced" /\ company[c] # "calls" => HoldsSince(c)

\* Of a token the backend has dropped it does not hold: _fetch_tokens removes nothing, so the
\* token stays in token_data whatever refresh follows.
RefreshDropsUnlisted ==
  \A c \in Calls :
    phase[c] = "ok" /\ kind[c] = "forced" /\ company[c] = "none" =>
      \A s \in Symbols : tokens[s] = 0 \/ tokens[s] >= since[c]

\* Every call of initialize_client, reinitialize or get_environments returns, however its
\* fetches fail and even if the client is closed under it.
EveryRefreshEnds == \A c \in Calls : Busy(c) ~> ~Busy(c)
=============================================================================
