# Verification of the Dexalot Python SDK in TLA+

This directory holds a model of the concurrent, stateful and arithmetic parts of
`dexalot_sdk`: TLA+ modules, the TLC configurations that check them on small
instances, and proofs that TLAPS checks for every instance. Paths below are
relative to the repository; `core/...` and `utils/...` are under
`src/dexalot_sdk/`. `PROJECT.json` maps every definition to the lines it
translates, and lists runs, hazards, findings, theorems, and, for every property,
a mutated definition that breaks it.

    tlc -workers 2 -config MCNonceManager.cfg MCNonceManager     # a run
    tlapm TransactionProofs.tla                                  # proofs

## 1. The system

The SDK is one `asyncio` process: a client object (`core/client.py`, the sum of
`base`, `clob`, `swap` and `transfer`) whose methods are coroutines that any
number of tasks call at once. Code between two `await`s is atomic; everything
that is hard comes from what other tasks, the network and cancellation do at an
`await`. Nothing is persisted, so there is no crash recovery; restarting means an
empty client.

| Component | State | Operations | What is hard | What makes it correct |
| --- | --- | --- | --- | --- |
| Nonce manager (`utils/nonce_manager.py`) | last nonce and "initialised" per (address, chain), a lock per key | `get_nonce`, `reset_nonce`, `clear_nonce` | a fetch awaited under the lock, `clear_nonce` without it, failure and cancellation in it | no nonce twice, none left out, nobody stuck on the lock |
| Transaction pipeline (`_send_trade_tx`, `_build_and_send_tx`, `_send_swap_tx`) | none of its own: nonce, pool and receipt | nonce, gas, sign, send, receipt | failure after the nonce was taken, a send that times out but arrives, retry on another node | success means on chain; nonces are acceptable; what is mined and what waits is explained |
| Provider manager and RPC failover (`utils/provider_manager.py`, `core/base.py` 919-1094) | per chain: providers, failure counts, flags, cooldowns, current index | `get_provider`, `mark_failure`, `mark_success`, `add_providers`, `_rpc_call` | concurrent calls move the index under each other; late answers; a new list under old calls | flag and count agree; a call gives up only when all failed |
| Cache (`utils/cache.py`) | one store per tier shared by all clients, pending futures per method | decorated calls, `invalidate_cache` | coalescing, fetches that outlive an invalidation, eviction, cancellation of the fetching task | one fetch per key, no stale answer, the client's own copy kept up |
| WebSocket manager (`utils/websocket_manager.py`) | state, `_ws`, registry, background task, attempts | `connect`, `subscribe`, `unsubscribe`, `disconnect`, `_run`, `_backoff` | reconnection, send tasks that run late, two background tasks, cancellation in any phase | what is registered is what the server sends; `disconnect` returns |
| Allowances (`transfer.py` 1217-1486, 1670-1828; `swap.py` 522-761) | the ERC20 allowance on chain | deposit, withdraw, `approve_rfq_maker`, `execute_rfq_swap` | check, approve and use are separate transactions; failure in between | no more is exposed than was asked for; success means executed |
| Order entry (`clob.py` 459-625, 1466-2399) | `required_balances` of a call | `add_order`, `add_limit_order_list`, `replace_order`, `cancel_add_list` | four paths over one rule set; rounding, `None` and 0; sums per token | signed as typed; list covered; paths agree |
| Client life cycle (`base.py` 341-423, 1125-1660) | session, providers, contracts, tokens, deployments | `initialize_client`, `reinitialize`, `get_environments`, `close` | `gather` leaves siblings running when one fails; `close` awaits | contracts belong to the providers; a refresh refreshes; it returns |
| Order cancellation and queries (`clob.py` 627-1464, 1916-2163, 2518-2605) | none: an order is looked up, then named in a transaction | `cancel_order`, `cancel_all_orders`, the list and client-id methods, `get_order`, `get_open_orders`... | two kinds of id in one format; orders fill, close and reuse client ids between lookup and execution; an index that lags | only what was named is closed; what is reported is closed; amounts are shown in units |
| RFQ swap targets (`swap.py` 522-1209) | cached router and makers per deployment | `approve_rfq_maker`, `execute_rfq_swap` | a quote names the contract to trust; lists change, reads fail, the signer changes | only a maker the chain allowed is trusted; a degraded answer is not kept |
| Chain references (`base.py` 445-760) | the connected chains | `resolve_chain_reference` | aliases, inferred families and environments, several candidates | never a chain the reference rules out, never one picked among several |
| Balances (`transfer.py` 139-981) | balance tier of the cache | wallet, token, chain and portfolio balances | rows read one by one while signer and tokens change; pages in concurrent batches; some rows fail | answers are whole, and of one account |
| Transfers (`transfer.py` 983-1187, 1274-1625) | none | gas, portfolio and token transfers, deposit, withdraw | decimals of four listings; a balance read before | what is moved is what was typed, and was there |
| Swap quotes (`swap.py` 121-520, `base.py` 1352-1399) | `rfq_pairs`, `pairs`, cached pairs per reference | `get_swap_pairs`, soft and firm quotes | pairs forgotten and refetched; the pair may be reversed | the token the caller sells is sold |
| Rate limiter and retry (`utils/rate_limit.py`, `utils/retry.py`) | the last slot reserved | `acquire`, `reset`, `async_retry` | sleeping reservations, cancellation, `reset`, retries behind the limiter | a token bucket; delays as configured; every call ends |
| Order books and statistics, prices, transfer histories, configuration, vault, logging | see section 8 | | | |

How they interact: a write method takes a nonce from the nonce manager (which asks
the node directly), estimates gas, and sends through `_rpc_call`, which asks the
provider manager for a provider, in a loop. Read methods go through the cache,
which calls the method and keeps both its result and, through a hook, the client's
own copy (`client.pairs`...). Order entry looks at the portfolio balance through the
cache and hands one transaction to the pipeline; deposits and swaps hand it two. Every
method that takes a chain resolves the reference against the connected chains of the
moment and then awaits; what it read of `token_data`, of the signer or of a list of
orders or makers may be old when its transaction goes out.
`reinitialize` replaces providers and contracts under all of them. The WebSocket
manager runs beside them and shares nothing but the client's lifetime.

## 2. Modules

| Module | Models | Built on |
| --- | --- | --- |
| `NonceAllocator` | what the nonce manager promises: each nonce granted in one step, as the successor of the last | |
| `NonceManager` | the nonce manager, await by await | refines `NonceAllocator` |
| `TxPipeline` | senders, node pool and chain of an account | extends `NonceManager` |
| `ProviderManager` | the provider list of one chain, as functions of a record | |
| `RpcFailover` | RPC calls over that list, with `reinitialize` and time | extends `ProviderManager` |
| `LaggingRegister` | what the cache promises: reads that may lag, but not behind each other | |
| `MemoryCache` | the store, as operations on a function of its keys that know their order | |
| `AsyncCache` | callers of cached methods, invalidation, the source | extends `MemoryCache`, refines `LaggingRegister` |
| `WebSocketManager` | the manager, its runs, connections and frames | |
| `Allowances` | calls that approve and spend, and the account's transactions | |
| `OrderEntry` | from what is typed to what is signed | |
| `ClientState` | loading, refreshing and closing a client | |
| `OrderViews` | the canonical form of an order, from REST rows and contract structs | |
| `OrderCancellation` | looking orders up, showing and cancelling them | extends `OrderViews` |
| `RfqSwap` | the trust a firm quote is given | |
| `ChainReferences` | chain references, as functions of the connected chains | |
| `Balances` | reading balances | extends `ChainReferences` |
| `PortfolioTransfers` | what transfers move | extends `Balances` |
| `SwapQuotes` | RFQ pairs and quotes | extends `Balances` |
| `ClientCalls` | the three together: calls of one client on shared state | extends both |
| `TokenBucket` | what a rate limiter promises | |
| `RateLimiter` | the limiter and its callers | refines `TokenBucket` |
| `RetriedCalls` | calls behind the limiter that are retried | extends `RateLimiter` |
| `TransactionProofs` (`NonceManager`, `TxPipeline`, `Allowances`), `OrderProofs` (`OrderEntry`, `OrderCancellation`), `ClientCallsProofs` (with `ChainReferences`, `Balances`, `PortfolioTransfers`, `SwapQuotes`), `RequestProofs` (`RpcFailover`, `RateLimiter`, `RetriedCalls`), `AsyncCacheProofs`, `WebSocketManagerProofs`, `ClientStateProofs`, `RfqSwapProofs` | theorems | |
| `MC...` | instances for TLC | the module of that name |

How state and actions correspond to the code, in short. An action is the code from
one `await` to the next, so a method is as many actions as it has suspensions that
matter, and its guard is where the task stands (`pc`, `stage`, `phase`, `run`).
A lock is a variable only where a task can hold it across an `await`
(`NonceManager.lock`); the locks of the cache and the provider manager are never
held across one, so what is under them is one action. Cancellation is an action
wherever the task can be suspended (`Abort`, `Cancel`, `CancelSleep`,
`CancelArrives`). An answer of the network is taken apart into the moment the source
reads its data (`SourceReads`, `Serve`, `NodeAnswers`) and the moment it arrives, because
staleness is about the time between. Operators named "Mutant:" in a comment are not part of
any specification: each is a definition as a plausible bug would have it, used to
check that the properties can fail.

Abstractions worth knowing:

* `NonceManager`: a node answers any number up to `MaxNonce`; `TxPipeline` restricts
  it to the account's real count. `epoch` is history: which reset or clear a nonce
  came after.
* `TxPipeline`: a sender differs from another in how it treats the receipt (`Mode`:
  not waited for, waited for and checked, waited for only). `Providers` nodes with
  one pool; a retry sends the same transaction again.
* `RpcFailover`: time is a countdown per provider (`cooling`); `gen` counts provider
  lists; retries of one provider count as one request.
* `AsyncCache`: a value is the version of its source when read; an entry ages by
  `Tick`. An entry carries the keys written before it, which is the insertion order
  of the dict that eviction goes by.
* `WebSocketManager`: frames go out in the order their tasks were created. A send
  task created before a handshake has run by its end: `LoopHead` waits for the queue
  to be empty. One created during the handshake, which takes another run that is
  connected, may run after it: `overtaken` is history, the keys of those frames.
  `account` and `maxAttempts` are what the manager was constructed with: without an
  account no frame of a private topic is ever sent, and 0 attempts mean no limit.
* `Allowances`: one account and one chain; `txs` is its transactions in nonce order.
* `OrderEntry`: decimals are integers in a unit as small as the precision tolerance,
  so what `Decimal` computes is exact. What is computed in floats, the sums of the lists
  and the balances, may be off by up to `Slack` a step, in either direction. Time in
  force and self-trade prevention are passed through unchanged and left out.
* `ClientState`: of the gathered fetches the tokens and one deployment are kept; the
  CLOB pairs fail as the tokens do and the RFQ pairs fail silently. `close` drops the
  providers and the session's requests in one step. A `get_environments` that joins
  another one in flight changes nothing and is left out. `token_data` is merged: an
  entry has the version of the last answer that listed it, and none is ever removed.
* `OrderCancellation`: an id is a word and the form it was typed in; internal ids are
  words, and a word can be the client id of one order and the internal id of another.
  Of an order the fields kept are status, client id, quantity and filled amount: the
  others go through the same coercions. A row has one of the spellings the code tries,
  its amounts as strings or as numbers, and a pair or none (`Styles`).
* `RfqSwap`: `truth` is history, the answers a lookup could have got since it began;
  the account's address is lower case throughout, as the code makes it.
* `ChainReferences`: a chain has the words of its name, and a word is a mark of a
  family if the name contains it. Aliases are normalised strings.
* `Balances` and what extends it: an amount is a whole number of the finest unit that
  can be typed, `10^-Default`; 18 decimals are 2. `had` and `worth` are history, the
  balances an account has had at a place and the decimals it was shown with. The balance
  tier keeps single rows (`recent`) and whole answers (`kept`, as the calls that read
  them, with the arguments they are kept under); a call that would join one in flight
  (`AsyncCache`) is left out here. The float that `transfer_portfolio` compares may be
  `Slack` off. Transactions move ledgers in one step: how they are sent is `TxPipeline`
  and `Allowances`.
* `RetriedCalls`: a call acquires once and then makes attempts; callers that do not
  retry stand for those whose request is outside the retry. `Growth` holds the powers of
  `retry_exponential_base`.

## 3. Runs

Every run finishes within about two and a half minutes with two workers.

| Run | Checks | Instance and why it is enough |
| --- | --- | --- |
| `nonce_manager` | `NoReuse`, `ImplementsAllocator`, `EveryCallEnds` | three `get_nonce`, one `reset_nonce`, two `clear_nonce`, one key: one call fetching, one waiting, one after; keys do not interact. The proofs have no bound. |
| `tx_pipeline` | `NeverRejectedForNonce`, `SuccessIsOnChain`, `HolesHaveOwners`, `PoolDrains` | three senders, one of each receipt mode, two providers with one attempt each: a hole, one below it and one above it. No `clear_nonce`: nothing in the SDK calls it. |
| `rpc_failover` | `RaisesOnlyWhenAllFailed`, `RevivedOnlyByAnswer`, `EveryRpcCallEnds` | two calls, three providers, threshold 2, cooldown 2, one `reinitialize`: one call can exhaust, revive or move past a provider under the other. The proofs have no bound. |
| `async_cache` | `SingleFlight`, `FreshAfterQuietInvalidation`, `StateKeepsUp`, `ImplementsRegister` | two clients on one key, another key that evicts it from a store of one, a client with caching off, one change at the source, one invalidation. |
| `websocket` | `ConnectedHasSocket`, `RegistryOnWire`, `SubscriptionServed` | two topics of which one is private, with and without an account, four calls, two runs, one drop, one reconnect attempt or no limit (955 thousand states): an overlap of two runs, frames overtaken by a connection and a give-up are all reached. The proofs have no bound. |
| `allowances` | `NoExcessExposure`, `UndisturbedSuffices` | any three of: a deposit that waits, a smaller one that does not, an approval and a swap, all of one spender. |
| `order_entry` | `SentAsTyped`, `BalanceCoversList`, `PathsAgree` | lists of two over two pairs that share a token, numbers on, within and beyond the tolerance of the grid, 0, negative and absent, at and beyond both trade limits; each float step is off by up to one. |
| `client_state` | `ContractsFollowProviders`, `RefreshTakesEffect` | two calls of any of the three methods, two versions at the backend, of which the second drops one token and adds another, one `close`. The proofs have no bound. |
| `order_cancellation` | `OnlyNamedAreClosed`, `ReportedIsClosed`, `ShownInUnits` | one call of any of ten methods with one or two ids; two internal ids and a client id, where the second internal id may also be borne as a client id: an order found, closed, and its client id borne by another before the transaction runs. The orders of others are the second actor. Orders of two units fill in part. Rows in four styles: numbers, strings without a pair, camel case, the SDK's own (9 million states). |
| `rfq_swap` | `OnlyAllowedMakers`, `EntryWasTrue`, `SentAsChecked` | two calls, two chains whose deployments are or are not at one address, one maker, two changes of list, router or signer: one call fills the cache, a list changes, the other goes by it. Calls, and accounts, are interchangeable: symmetry. |
| `client_calls` | `ReferenceHonoured`, `AnswersAddUp`, `PagesComplete`, `CoveredAsRead`, `MovesWhatWasAsked`, `QuoteSellsFrom` | a call of sixteen kinds beside one of four that share its state, one change around them; three chains of which a refresh swaps one, a token of 0 decimals on one chain and one on the subnet or of 0 on the subnet alone, another that the subnet delists; a transfer of one unit more than there is, which the float comparison lets pass; the second call is the first's again, served from the cache or not; three to four tokens in batches of two, cap four: a full batch, a partial one and the cap. Two decimals for 18 leave room for 0, 1 and 2. |
| `retried_calls` | `SlotsSpaced`, `ImplementsTokenBucket`, `RetriesAsConfigured`, `EveryCallEndsInTime` | three callers, one retried up to three attempts with delays 1, 2 (capped), interval 2, one reset: two sleepers and a caller after the reset. |

The deadlock check is off in `order_cancellation`, `rfq_swap`, `client_calls` and
`retried_calls`: their calls end, and nothing is left to do. In the other modules the
step that stutters when all calls have ended, or all that remains is ruled out by a
bound, is written out (`Finished`, `AllSettled`, `Quiet`), so that a state in which a
call is stuck is a deadlock.

The modules also state type invariants (`...TypeOK`) and some properties that no run
lists. All of the type invariants are proved (section 7), with
`NoGapInGrants`, `HealthyBelowThreshold`, `WaitersHaveLeader`, `SuccessIsExecuted` and
`NeverGoesBack` (which `ImplementsRegister` contains); the others, of liveness
(`EverySenderReturns`, `EveryOperationEnds`, `EveryRefreshEnds`,
`DisconnectReturnsToCaller`), are consequences of the same transitions, and can be
checked by naming them in the module's configuration.

## 4. What holds

* **Nonces.** However calls, failures, cancellations and clears interleave, a key's
  nonces are handed out once each and without a gap, as if each call were one step.
  Hence a first send is never refused for its nonce, and whatever is missing below a
  transaction that waits in the pool was given to a sender that has not arrived or
  has failed (`HolesHaveOwners`): holes come from senders, not from the manager.
* **Failover.** The flag that the fast path reads and the count that the scan reads
  never disagree; a call whose tries are merely counted, while others move the index,
  has nevertheless met or seen marked every provider when it gives up.
* **Cache.** One fetch per key, answers that never go back in time, and freshness
  after an invalidation that finds no fetch in flight.
* **WebSocket.** While connected, with the frames sent, the server has exactly the
  registered topics, but for one whose unsubscription was still on its way when another
  run connected; a subscription is served, withdrawn, or given up on visibly. Both are
  of topics whose frame can be signed.
* **Allowances.** Concurrent approvals overwrite each other but never add up to more
  than the calls asked for. Left alone with its spender, a call that reaches its
  main transaction finds it covered.
* **Orders.** What is signed is what was typed up to the tolerance, on the display
  grid, on all four paths; the sum of a list is covered by the balances read for it, but for
  the rounding of its float arithmetic.
* **Cancellation.** Whatever is filled, placed or renamed between a lookup and the
  transaction, no order is closed but one the call named or the index listed, and what
  a call that waited reports is closed. Amounts are shown in units of the tokens, from
  either source, unless a contract's order has no pair known, when they are in base
  units and no pair is named; a 0 filled may be shown as `None`.
* **RFQ.** A transaction trusts the deployment of the quote's chain or a maker its
  router allowed since the lookup; a failed read degrades one call and is never kept.
* **Chains, balances, transfers, quotes.** A reference never ends at a chain of an
  environment it rules out, nor at one picked among several. Balance answers are whole
  and of the account that was asked about, across `set_signer`, both caches and a
  refresh; no page is lost between batches, and a cached answer has those there were
  when it was read. A transfer moves what was typed (within the portfolio, unless the
  token has no decimals), and a quote sells what the caller sells.
* **Rate.** The limiter is a token bucket, for any callers; retries wait as configured
  and end.
* **Client.** When providers come from a refresh that succeeded, the contract is on
  them, however refreshes overlap; a refresh that nothing disturbs leaves what the
  backend lists at least as new as its start.

## 5. What does not hold

Properties that the repository's words suggest, and TLC refutes, are defined beside the
checked ones; name one in the module's configuration to see the trace:
`AllWaitersAnswered` (AsyncCache, a PROPERTY under `FairSpec`: a cancelled fetch leaves
its waiters unanswered), `RetriedAfterCooldown` (RpcFailover: an exhausted provider is
not retried by time), `SingleConnection` (WebSocketManager: `connect()` in a backoff
makes a second connection), `NoDanglingAllowance` (Allowances: the revocation after a
failed deposit never sends anything),
`NoCallFailsBesideGoodProvider` (RpcFailover: a call that holds a fallback object
bypasses the failover), `NoStrandedTransaction` (TxPipeline: a failed sender keeps
its nonce), `FreshAfterInvalidation` (AsyncCache: a fetch in flight is stored after
the invalidation), `DisconnectedHasNoConnection` (WebSocketManager: the second run),
`RegistryAlwaysOnWire` (WebSocketManager, with three runs and five calls: a frame that
withdraws a topic registered again since), `PrivateTopicsOnWire` (WebSocketManager: a
private topic registered without an account), `BalanceCoversExactly` (OrderEntry: sums
of floats), `RefreshDropsUnlisted` (ClientState: a token the backend has dropped stays),
`FilledIsShown` (OrderCancellation: a filled amount that is the number 0),
`ZeroDecimalsKept` (ClientCalls: `transfer_portfolio` takes 0 decimals for 18),
`MatrixUniform` and `MarketPriceZeroIsNone` (OrderEntry: a price that rounds to 0; a
price of 0), `ForcedRefreshIsFresh` (ClientState: a fetch left by a failed call),
`ClosedIsReported`, `AllAreCancelled` and `NeverRedirected` (OrderCancellation: a client
id reused before the transaction runs; an index that lags; a lookup that fails),
`MakersOfOwnChain` (RfqSwap: deployments of two chains at one address share a cache
entry), `CheckedAccountPays` (ClientCalls: the signer is replaced between the check
and the signature), `FamilyIsTrue` (an Arbitrum chain named after Sepolia is taken for
Ethereum), `PairsOfTheirChain` (cached pairs are put back under the chain the
reference means by now), `SlotsAlwaysSpaced` (RateLimiter: `reset` with sleepers), and
`AttemptsWithinRate` (RetriedCalls: retries take no token).
The properties that hold are stated with what these traces need taken out, and say
so. `PROJECT.json` lists each with the sentence of the repository it contradicts.

## 6. Fairness

Safety is checked and proved without fairness. For liveness:

* A request ends: HTTP sessions and Web3 providers have timeouts, and
  `wait_for_transaction_receipt` has one. So a call that awaits one makes progress, by
  the answer or by the failure, with neither preferred (weak fairness of their
  disjunction). Where a step shares an action with a failure (`TxFairness`), fairness
  is of the step after which a task goes on.
* The event loop runs every task that is ready: weak fairness of each task's step.
* Of a WebSocket that reconnects without a limit, a connection succeeds at last if it is
  tried again and again (strong fairness of `Connected`, with `maxAttempts` 0 only):
  nothing in the code ends such a loop. With a limit the manager gives up instead, and
  nothing is assumed.
* `asyncio.Lock` is first come, first served; the waiters are not ordered in the
  model, so taking the lock is strongly fair instead.
* The chain mines what it can execute (`Mine`), and a closing handshake ends
  (`SocketCloses`, the library's close timeout).
* The clock goes on and `asyncio.sleep` returns some time after it is due
  (`RetriedFairness`).
* Nothing is assumed of callers: cancellation, drops, invalidation, `close`,
  `reinitialize` and the change of a source may happen or not.

## 7. Proofs

TLAPS proves, for every set of calls and keys and all bounds:

| Theorem | Says |
| --- | --- |
| `TypeCorrect` | `NMSpec => []NMTypeOK` |
| `NonceNeverReused` | `NMSpec => []NoReuse` |
| `NoNonceLeftOut` | `NMSpec => []NoGapInGrants` |
| `ManagerImplementsAllocator` | `NMSpec => Allocator!AllocSpec`, under the refinement mapping of `NonceManager` |
| `PipelineUsesManager` | `TxSpec => NMSpec` |
| `NoReuseInPipeline` | `TxSpec => []NoReuse` |
| `PipelineTypeCorrect` | `TxSpec => []TxTypeOK` |
| `SuccessIsOnChainCorrect` | `TxSpec => []SuccessIsOnChain` |
| `NeverRejectedForNonceCorrect` | `TxSpec => []NeverRejectedForNonce` |
| `HolesHaveOwnersCorrect` | `TxSpec => []HolesHaveOwners` |
| `AllowanceTypesCorrect` | `AlSpec => []AlTypeOK` |
| `NoExcessExposureCorrect` | `AlSpec => []NoExcessExposure` |
| `UndisturbedSufficesCorrect` | `AlSpec => []UndisturbedSuffices` |
| `SuccessIsExecutedCorrect` | `AlSpec => []SuccessIsExecuted` |
| `TypeCorrect` (AsyncCacheProofs) | `Spec => []CacheTypeOK` |
| `SingleFlightCorrect` | `Spec => []SingleFlight` |
| `WaitersHaveLeaderCorrect` | `Spec => []WaitersHaveLeader` |
| `FreshAfterQuietInvalidationCorrect` | `Spec => []FreshAfterQuietInvalidation` |
| `StateKeepsUpCorrect` | `Spec => []StateKeepsUp` |
| `NeverGoesBackCorrect` | `Spec => NeverGoesBack` |
| `CacheImplementsRegister` | `Spec => Register!RegisterSpec`, under the refinement mapping of `AsyncCache` |
| `CancelTypeCorrect` | `Spec => []CancelTypeOK` |
| `OnlyNamedCorrect` | `Spec => []OnlyNamedAreClosed` |
| `ReportedIsClosedCorrect` | `Spec => []ReportedIsClosed` |
| `ShownInUnitsCorrect` | `Spec => []ShownInUnits` |
| `OrderTypesCorrect` | `EntrySpec => []OrderTypeOK` |
| `SentAsTypedCorrect` | `EntrySpec => []SentAsTyped` |
| `BalanceCoversListCorrect` | `EntrySpec => []BalanceCoversList` |
| `PathsAgreeCorrect` | `EntrySpec => []PathsAgree` |
| `WsTypeCorrect` | `Spec => []WsTypeOK` |
| `ConnectedHasSocketCorrect` | `Spec => []ConnectedHasSocket` |
| `RegistryOnWireCorrect` | `Spec => []RegistryOnWire`, if `DistinctNames` |
| `ClientTypeCorrect` | `Spec => []ClientTypeOK` |
| `ContractsFollowCorrect` | `Spec => []ContractsFollowProviders` |
| `RefreshTakesEffectCorrect` | `Spec => []RefreshTakesEffect` |
| `RFTypeCorrect` | `RFSpec => []RFTypeOK` |
| `FlagAgreesWithCount` | `RFSpec => []HealthyBelowThreshold` |
| `RaisedMeansAllFailed` | `RFSpec => []RaisesOnlyWhenAllFailed` |
| `OnlyAnswersRevive` | `RFSpec => RevivedOnlyByAnswer` |
| `LimiterTypes` | `LimiterSpec => []LimiterTypeOK` |
| `RetriedCallsUseLimiter` | `RetriedSpec => LimiterSpec` |
| `SpacedCalls` | `RetriedSpec => []SlotsSpaced` |
| `LimiterIsTokenBucket` | `RetriedSpec => TB!Bucket` |
| `RetriesAsConfiguredCorrect` | `RetriedSpec => RetriesAsConfigured` |
| `RfqTypes` | `Spec => []RfqTypeOK` |
| `CacheIsTrue` | `Spec => []EntryWasTrue` |
| `MakersAreAllowed` | `Spec => []OnlyAllowedMakers` |
| `SwapsAreAsChecked` | `Spec => []SentAsChecked` |
| `CallsTypesCorrect` | `Spec => []CallsTypeOK` |
| `ReferenceHonouredCorrect` | `Spec => []ReferenceHonoured` |
| `AnswersAddUpCorrect` | `Spec => []AnswersAddUp` |
| `PagesCompleteCorrect` | `Spec => []PagesComplete` |
| `CoveredAsReadCorrect` | `Spec => []CoveredAsRead` |
| `MovesWhatWasAskedCorrect` | `Spec => []MovesWhatWasAsked` |
| `QuoteSellsFromCorrect` | `Spec => []QuoteSellsFrom` |

They rest on the named assumptions of the modules about their constants; TLC evaluates
those on every run. Most say what the constants are: sets of calls, at least one
provider, a positive threshold, a positive interval, positive amounts, quotes of known
chains and makers, a router that is not the absence of one. Four say more, of the data
the SDK is given: that a display decimal of a pair is a decimal of its token
(`DecimalsAssumption`); that an alias is of one family and one kind of environment
(`RegistryAssumption`, true of `data/chain_aliases.json`); that ids tell the connected
chains apart (`ChainAssumption`); and that `Unit[d]` is what a unit of `d` decimals is
in the finest one, ten times that of `d + 1` (`UnitAssumption`).

*Nonces.* `NoReuse` is not inductive: it says nothing of a call that is about to
store what a node answered. The invariant adds that a task that fetches holds its
key's lock (`HolderLocks`), that a `get_nonce` fetches only for a key nobody has
initialised since (`FetchesFirst`), that the tracked number is the greatest of its
epoch (`Tracked`), and for `NoGapInGrants` that all numbers from the first granted
up to the tracked one were granted. `LockInv` is proved first, the others from it.
The refinement uses `LockInv` only: returning from a fetch maps to the grant of any
number because the key is uninitialised, by `FetchesFirst`.

*Pipeline.* Its senders are callers of the nonce manager, so every step of `TxNext`
is one of `NMNext` or leaves the manager alone, and `NonceNeverReused` holds for them.
`NeverRejectedForNonce` and `HolesHaveOwners` relate that to the chain: a nonce that
was handed out is mined exactly if it is below the chain's count (`CountOK`), the
number fetched for an account nobody has initialised is that count (`AnswerOK`: nothing
of the account can be on a node before its first nonce is granted), and each number
from the count to the last one handed out is some sender's (`AllGranted`). `SenderOK`
ties a sender's stage to where its transaction is, and `OneEpoch` says that nothing
resets a nonce in `src/`. So a transaction that is not on a node has a nonce the chain
has not used, and a number missing below one in the pool has an owner, who can only be
on the way or failed.

*Allowances.* A call's transactions are kept in step with where it is (`InOrder`): one
of each kind at most, and the one it is doing, the last of them, not sent before its
time (`AtHand`). So an approval that is executed is its call's first, and adds its
amount once; the sum of amounts is stated as the number of base units in a union
(`Granted`), which finite sets reason about without induction. For
`UndisturbedSuffices`, a transaction in the pool makes its call unsettled; an undisturbed
call has no unsettled rival (`Alone`), so between its reading of the allowance, or its
approval, and its estimate nothing touches the allowance but its own approval (`Kept`).
`SuccessIsExecuted` adds that the last transaction of a call that waited is executed, and
that a swap never does an approval (`Reported`).

*Cache.* `SingleFlight` follows from where the futures are (`FuturesOK`): the pending
future of a key is the one call that fetches it. That the store does not get in the way
needs `FetchedIsNotStored`: a miss and a fetch in flight go together, because nothing
else writes the key meanwhile. For the answers, the invariant `Versions` orders what
was read: whatever a store or a fetch holds for a key is at least as new as all that was
returned for it (`NewerThanReturned`), and as the last invalidation that found no fetch
in flight (`ReadAfterQuiet`). `NeverGoesBack` is the first of the two, one step later.
With both, and with `ReadFromSource`, a hit and the return of a fetch are each one read
of `LaggingRegister`, of all the calls that the fetch answers; an invalidation raises the
barrier of the keys that nobody fetches, and every other step is a stutter.
That eviction keeps a dict of at most `MaxSize` keys in insertion order
(`CacheTypeOK`) rests on a least element of the written order, by well-founded induction.

*Cancellation.* An order that exists keeps its client id and, once closed, stays closed
(`Later`, of every step). Given that, the orders a call has found are those its ids
named, one by one and in order (`NamedOK`, `FoundOK`), its transaction is about them
(`TargetsAreNamed`), and when it has run all that the call reports is closed: if it named
a client id that passed on to a newer order, the one found had been closed before
(`ReportedBecomesClosed`). `ClosedOK` keeps both facts for good. `ShownInUnits` needs
what the view of an order is on its way to the canonical form (`ViewOK`); the spellings
that `FirstOf` tries are evaluated in the proof, for every style of row. The exception for a
filled amount of 0 was found by the proof: as a number, under any spelling but the last,
it is shown as `None`.

*Order entry.* A number that has been rounded is a multiple of the display quantum, and
so of the atomic unit: the conversion loses nothing (`Exact`, `LockIsExact`), and what
an order locks is a function of its struct. `BuiltOK` says that each struct is the
conversion of what was typed at its place. The sum of a list is not a fold in the
invariant: `Locked` is the set of units that the orders lock of a token, one element for
each, and `SumOK` says that its cardinality is at most what the loop has added up and
what rounding its orders may have lost; one more order adds an interval
(`OneMoreLocked`). A token that is not to be compared any more was found sufficient for
the whole sum, or nothing is required of it (`SeenOK`).

*Calls on shared state.* Calls share chains, listings, ledgers and caches, and keep
their own progress. Of what is shared, `CallsInv` says little (`WorldOK`): the balances
an account has had, and the decimals a place was shown with, only grow in number
(`Grows`), and a cached row is one of the first in one of the second. A kept answer is
that of a call that is done and succeeded (`KeptOK`): a call served from the cache takes
over what is known of it, the beginning of its reading among that. Of each call
(`CallOK`) it says which rows it has read and which it has yet to (`RowsOK`, `WholeOK`),
that every page up to the batch is either in the list or past what there was at the
beginning (`PagesOK`), what it is moving and what covers it (`MoveOK`, `CoverOK`), and
which pair it asked for (`AskedOK`). Nothing in `CallOK` can be undone by another call,
whose steps leave this one as it is (`Undisturbed`), or by the world, which only adds to
the history; so there is one lemma for each step of the call itself. `CoverOK` speaks of
a token whose listings agree on its decimals, as the property does: a refresh between
the balance that was read and the conversion may otherwise change the unit. `MeantOK`
follows from the search alone: the candidates for a reference answer it, and every other
chain of the family is ruled out (`CandidatesAnswer`), which is where aliases have to be
of one meaning.

*WebSocket.* CONNECTED is entered with a connection and left whenever any run clears
`_ws`, so `ConnectedHasSocket` is inductive once the types are known. For the registry,
the invariant `WireInv` takes the frames on their way into account: while a connection
will take frames, the last one for a key says whether the key is registered
(`SaysLast`), and on the keys without a frame the server agrees with the registry,
unless the run has yet to re-subscribe them (`ServerAgrees`). Two lemmas say what
becomes of that when a frame is appended and when the first is sent; no step leaves a
key registered on one side only, unless the registry was changed while nothing was
connected, and then a connection finds no frame for the key or the key is in
`overtaken`. Both restrictions were found by the proof: that case, and `DistinctNames`
(two keys with one name on the wire, which `subscribe_to_events` makes of `AVAX/USDC`
and `OrderBook/AVAX/USDC`, withdraw each other).

*Client.* A call installs its providers once. So if they are in place when its
deployment has arrived, they were when it did, and every contract built since is on
them (`BoundOK`). A call that nothing else touched has had the client for itself: no
other call has a fetch running, and no close is under way (`Alone`); what it has stored
is therefore what the backend served it since it began (`Fresh`). Both need to know how
far each fetch of a call is (`Shape`).

*Failover.* The difficulty of `RaisesOnlyWhenAllFailed` is that a call counts its
tries while other calls move the current index. The invariant (`LoopInv`): as long as
some provider of the list was never marked, the index only moves forward and stops
at that provider (`Ahead`); a call in its loop has not got past the index, and has a
try left for each provider after the one it asks (`CallOK`). It rests on lemmas about
`AfterGet`, `AfterFailure` and `AfterSuccess`, of any number of providers.

*Rate limiter.* The n-th token appears n intervals after the first slot. That its
taker is not early follows from a bound on `lastCall` (`LastIsFar`: the last slot is
as many intervals after the first as slots were reserved), from which the bound on
each caller's slot (`SlotsAreFar`) and the spacing of any two follow. The invariant is
proved of `RateLimiter` alone; `RetriedCalls` inherits it, because each of its steps is
one of the limiter's or leaves it alone. The retry has an invariant of its own
(`RetryOK`): a call that backs off has an attempt left, and resumes a delay after the
last one at the earliest.

*RFQ targets.* `OnlyAllowedMakers` speaks of what was sent, long after the lookup that
justified it. The invariant `RfqInv` follows the justification there: while a lookup is
under way, what it would find now is in what it may have seen; what it stores, and the
call goes by, is therefore something the chain held (`Justified`); an entry of the cache
hands that on to every call it serves (`EntryOK`), a failed read leaves nothing to
justify but the deployment, and from the checks on the quote has passed them (`CallOK`).
`Justified` names any chain with the deployment's address, because the cache's key is
the address; only `OnlyAllowedMakers` needs that the address is one chain's.

Every invariant and every action property that a run checks is proved. Only
model-checked is liveness (`EveryCallEnds`, `PoolDrains`, `EveryRpcCallEnds`,
`SubscriptionServed`, `EveryCallEndsInTime`): these are arguments from fairness, with
ENABLED, which the back ends do not take. Nor do they take induction over data, so that
what a recursive definition computes for every input could not be proved; no module has
one, and sums are stated as cardinalities.

## 8. Not modelled

* Order books, candles, statistics, prices, price and transfer histories, order
  history, bridge fees: requests whose answers are converted and returned; nothing is
  kept but by the cache, which is `AsyncCache`.
* Configuration (`core/config.py`): read once; its values are the constants here.
* `utils/token_normalization.py` and the formats of addresses, pairs and hashes: string
  handling. An address is a model value.
* Routing of WebSocket messages to callbacks: changes no state of the manager.
* Logging, error texts, `Result`, the vault and its command line: wording, values, and
  input and output around a library.
* Examples and scripts: callers of the SDK.
* Two clients, or two processes, that sign for one account are outside every promise
  of the code. A nonce of one account signed by another after `set_signer` is not in
  `TxPipeline`, whose transactions belong to one account; that the signer changes
  under a call is in `RfqSwap` and `ClientCalls`.

## 9. Plan

Done: nonces and pipeline, failover, cache, WebSocket, allowances, order entry, client
life cycle, cancellation and queries, RFQ targets, chain references, balances,
transfers, quotes, rate limiter and retry.

Next, most important first:

1. An abstract specification of failover: a call that succeeds or gives up in one step.
2. `subscribe_to_events` against `close_websocket`; bridge fees.
