--------------------------- MODULE NonceManager ---------------------------
(***************************************************************************)
(* utils/nonce_manager.py: AsyncNonceManager on one event loop.            *)
(*                                                                         *)
(* Code between two awaits runs without interference, so an action is the  *)
(* code from one await to the next.  The lock of a key is only ever held   *)
(* across an await while the pending transaction count is being fetched:   *)
(* a get_nonce for a key already initialised takes the lock, increments    *)
(* and releases it within one action.                                      *)
(*                                                                         *)
(* A task stands for one call of get_nonce or reset_nonce.                 *)
(***************************************************************************)
EXTENDS Naturals

CONSTANTS
  Gets,      \* calls of get_nonce
  Resets,    \* calls of reset_nonce
  Keys,      \* "{chain_id}:{address}"
  KeyOf,     \* the key a call works on: its chain and address arguments
  MaxNonce,  \* bound on the pending counts a node reports
  MaxClears, \* bound on the calls of clear_nonce
  NoTask,    \* a lock without a holder
  Unset      \* no nonce returned

Tasks == Gets \cup Resets

ASSUME TasksAssumption == Gets \cap Resets = {} /\ NoTask \notin Tasks
ASSUME KeyAssumption == KeyOf \in [Tasks -> Keys]
ASSUME NonceAssumption == MaxNonce \in Nat /\ MaxClears \in Nat /\ Unset \notin Nat

VARIABLES
  nonces,      \* _nonces: the last nonce handed out, 0 for a key that has none
  initialized, \* _initialized
  lock,        \* the task holding the asyncio.Lock of a key
  pc,          \* where a task is suspended
  answer,      \* the pending count in the node's reply to a task
  result,      \* what a get_nonce call returned
  epoch,       \* history: how often a key was reset or cleared
  epochOf      \* history: the epoch in which a call was answered

nmVars == <<nonces, initialized, lock, pc, answer, result, epoch, epochOf>>

\* idle: not called.  locking: about to take the lock (after `await w3.eth.chain_id`
\* when no chain_id was passed, or woken by the lock's last holder).  fetching:
\* get_transaction_count is on its way to the node.  answered: the node has counted,
\* its reply is on its way back.
PC == {"idle", "locking", "fetching", "answered", "done", "failed"}

Holding(t) == pc[t] \in {"fetching", "answered"}

NMInit ==
  /\ nonces = [k \in Keys |-> 0]
  /\ initialized = [k \in Keys |-> FALSE]
  /\ lock = [k \in Keys |-> NoTask]
  /\ pc = [t \in Tasks |-> "idle"]
  /\ answer = [t \in Tasks |-> 0]
  /\ result = [t \in Gets |-> Unset]
  /\ epoch = [k \in Keys |-> 0]
  /\ epochOf = [t \in Gets |-> 0]

\* The call computes its key and gets or creates the key's lock.
Call(t) ==
  /\ pc[t] = "idle"
  /\ pc' = [pc EXCEPT ![t] = "locking"]
  /\ UNCHANGED <<nonces, initialized, lock, answer, result, epoch, epochOf>>

\* What get_nonce returns, with the history of when.
Return(t, n) ==
  /\ result' = [result EXCEPT ![t] = n]
  /\ epochOf' = [epochOf EXCEPT ![t] = epoch[KeyOf[t]]]

\* Mutant: the number is read before the increment instead of after it.
GetTrackedPostIncrement(t) ==
  /\ pc[t] = "locking"
  /\ lock[KeyOf[t]] = NoTask
  /\ t \in Gets
  /\ initialized[KeyOf[t]]
  /\ nonces' = [nonces EXCEPT ![KeyOf[t]] = @ + 1]
  /\ Return(t, nonces[KeyOf[t]])
  /\ pc' = [pc EXCEPT ![t] = "done"]
  /\ UNCHANGED <<initialized, lock, answer, epoch>>

\* get_nonce on an initialised key: increment, return, release.
GetTracked(t) ==
  /\ pc[t] = "locking"
  /\ lock[KeyOf[t]] = NoTask
  /\ t \in Gets
  /\ initialized[KeyOf[t]]
  /\ nonces' = [nonces EXCEPT ![KeyOf[t]] = @ + 1]
  /\ Return(t, nonces[KeyOf[t]] + 1)
  /\ pc' = [pc EXCEPT ![t] = "done"]
  /\ UNCHANGED <<initialized, lock, answer, epoch>>

\* Mutant: the pending count is fetched without the lock of the key.
StartFetchUnlocked(t) ==
  /\ pc[t] = "locking"
  /\ t \in Resets \/ ~initialized[KeyOf[t]]
  /\ lock' = [lock EXCEPT ![KeyOf[t]] = t]
  /\ pc' = [pc EXCEPT ![t] = "fetching"]
  /\ UNCHANGED <<nonces, initialized, answer, result, epoch, epochOf>>

\* Otherwise the lock is kept while the pending count is fetched.
StartFetch(t) ==
  /\ pc[t] = "locking"
  /\ lock[KeyOf[t]] = NoTask
  /\ t \in Resets \/ ~initialized[KeyOf[t]]
  /\ lock' = [lock EXCEPT ![KeyOf[t]] = t]
  /\ pc' = [pc EXCEPT ![t] = "fetching"]
  /\ UNCHANGED <<nonces, initialized, answer, result, epoch, epochOf>>

\* The node reads its pending count n for the address.
NodeAnswers(t, n) ==
  /\ pc[t] = "fetching"
  /\ answer' = [answer EXCEPT ![t] = n]
  /\ pc' = [pc EXCEPT ![t] = "answered"]
  /\ UNCHANGED <<nonces, initialized, lock, result, epoch, epochOf>>

\* Mutant: _nonces is taken for the next nonce to hand out instead of the last one.
FetchReturnsAhead(t) ==
  LET k == KeyOf[t] IN
  /\ pc[t] = "answered"
  /\ nonces' = [nonces EXCEPT ![k] = answer[t] + 1]
  /\ initialized' = [initialized EXCEPT ![k] = TRUE]
  /\ lock' = [lock EXCEPT ![k] = NoTask]
  /\ pc' = [pc EXCEPT ![t] = "done"]
  /\ IF t \in Gets
     THEN Return(t, answer[t]) /\ UNCHANGED epoch
     ELSE epoch' = [epoch EXCEPT ![k] = @ + 1] /\ UNCHANGED <<result, epochOf>>
  /\ UNCHANGED answer

\* The reply arrives: record it, return it (get_nonce only), release the lock.
FetchReturns(t) ==
  LET k == KeyOf[t] IN
  /\ pc[t] = "answered"
  /\ nonces' = [nonces EXCEPT ![k] = answer[t]]
  /\ initialized' = [initialized EXCEPT ![k] = TRUE]
  /\ lock' = [lock EXCEPT ![k] = NoTask]
  /\ pc' = [pc EXCEPT ![t] = "done"]
  /\ IF t \in Gets
     THEN Return(t, answer[t]) /\ UNCHANGED epoch
     ELSE epoch' = [epoch EXCEPT ![k] = @ + 1] /\ UNCHANGED <<result, epochOf>>
  /\ UNCHANGED answer

\* Mutant: lock.release() without a `finally`.
AbortKeepsLock(t) ==
  /\ pc[t] \in {"locking", "fetching", "answered"}
  /\ pc' = [pc EXCEPT ![t] = "failed"]
  /\ UNCHANGED <<nonces, initialized, lock, answer, result, epoch, epochOf>>

\* An exception of the node or a cancellation at any await: `async with` releases
\* the lock if the task holds it, nothing else changes.
Abort(t) ==
  /\ pc[t] \in {"locking", "fetching", "answered"}
  /\ pc' = [pc EXCEPT ![t] = "failed"]
  /\ lock' = [k \in Keys |-> IF lock[k] = t THEN NoTask ELSE lock[k]]
  /\ UNCHANGED <<nonces, initialized, answer, result, epoch, epochOf>>

\* clear_nonce is synchronous and does not take the lock.
Clear(k) ==
  /\ epoch[k] < MaxClears
  /\ nonces' = [nonces EXCEPT ![k] = 0]
  /\ initialized' = [initialized EXCEPT ![k] = FALSE]
  /\ epoch' = [epoch EXCEPT ![k] = @ + 1]
  /\ UNCHANGED <<lock, pc, answer, result, epochOf>>

TaskStep(t) ==
  \/ Call(t)
  \/ GetTracked(t)
  \/ StartFetch(t)
  \/ \E n \in 0..MaxNonce : NodeAnswers(t, n)
  \/ FetchReturns(t)
  \/ Abort(t)

\* Every call has been answered or has failed.
Finished == \A t \in Tasks : pc[t] \in {"done", "failed"}

NMNext ==
  \/ \E t \in Tasks : TaskStep(t)
  \/ \E k \in Keys : Clear(k)
  \/ Finished /\ UNCHANGED nmVars

NMSpec == NMInit /\ [][NMNext]_nmVars

\* A request to a node ends, with a reply or with an exception (web3's HTTP
\* provider times out).  asyncio.Lock wakes its waiters first come, first served,
\* so a task that finds the lock free again and again gets it.
NMFairness ==
  \A t \in Tasks :
    /\ WF_nmVars(pc[t] = "fetching" /\ (Abort(t) \/ \E n \in 0..MaxNonce : NodeAnswers(t, n)))
    /\ WF_nmVars(FetchReturns(t))
    /\ SF_nmVars(GetTracked(t) \/ StartFetch(t))

NMFairSpec == NMSpec /\ NMFairness

---------------------------------------------------------------------------
\* The types of the manager's state and of its callers'.
NMTypeOK ==
  /\ nonces \in [Keys -> Nat]
  /\ initialized \in [Keys -> BOOLEAN]
  /\ lock \in [Keys -> Tasks \cup {NoTask}]
  /\ pc \in [Tasks -> PC]
  /\ answer \in [Tasks -> Nat]
  /\ result \in [Gets -> Nat \cup {Unset}]
  /\ epoch \in [Keys -> Nat]
  /\ epochOf \in [Gets -> Nat]

\* Two calls answered for one key with no reset or clear in between.
SameEpoch(c, d) ==
  /\ result[c] # Unset /\ result[d] # Unset
  /\ KeyOf[c] = KeyOf[d]
  /\ epochOf[c] = epochOf[d]

\* "Prevents race conditions when multiple transactions are sent concurrently"
\* (nonce_manager.py:9): no two calls are given one nonce of a key, however their
\* fetches, failures, cancellations and clear_nonce calls interleave, unless a
\* reset or clear was answered between them.
NoReuse ==
  \A c, d \in Gets : c # d /\ SameEpoch(c, d) => result[c] # result[d]

\* The nonces handed out for a key leave no number out (the chain executes none of
\* the transactions above a missing one): a nonce between two that were granted was
\* granted as well.  A call that fails or is cancelled must not consume a number.
NoGapInGrants ==
  \A c, d \in Gets :
    SameEpoch(c, d) =>
      \A n \in (result[c] + 1)..(result[d] - 1) :
        \E e \in Gets : SameEpoch(c, e) /\ result[e] = n

\* The awaits and the lock are invisible to callers: every behaviour is one in which
\* each nonce is granted in a single step, as the successor of the one before.
Allocator == INSTANCE NonceAllocator WITH
  Calls <- Gets,
  last <- [k \in Keys |-> IF initialized[k] THEN nonces[k] ELSE Unset],
  granted <- result

ImplementsAllocator == Allocator!AllocSpec

\* No call waits for ever on the lock of its key, whatever becomes of the call that
\* holds it (a node that errors out, a cancelled caller).
EveryCallEnds ==
  \A t \in Tasks : (pc[t] = "locking") ~> (pc[t] \in {"done", "failed"})
===========================================================================
