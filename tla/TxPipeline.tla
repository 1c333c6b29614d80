---------------------------- MODULE TxPipeline ----------------------------
(***************************************************************************)
(* How the SDK sends transactions: _send_trade_tx (clob.py),               *)
(* _build_and_send_tx (transfer.py) and _send_swap_tx (swap.py) share one  *)
(* shape.  They take a nonce from the nonce manager first; then estimate   *)
(* gas, read the gas price and build; then sign and hand the raw           *)
(* transaction to _rpc_call, which retries and fails over; then wait for   *)
(* the receipt if asked to.  The transactions run concurrently on one      *)
(* event loop and share the nonce manager; the chain executes what it      *)
(* accepted in nonce order.                                                *)
(*                                                                         *)
(* A call of get_nonce stands for its transaction, so Gets is the set of   *)
(* transactions.  src/ never calls reset_nonce or clear_nonce.             *)
(***************************************************************************)
EXTENDS NonceManager

CONSTANTS
  Mode,      \* how the sender treats the receipt of each transaction
  Providers, \* RPC providers tried by one _rpc_call
  Attempts   \* attempts of async_retry on each of them

\* nowait: return the hash.  wait: wait for the receipt and fail unless status is 1.
\* unchecked: wait for the receipt, whatever its status (approve without
\* wait_for_receipt).
Modes == {"nowait", "wait", "unchecked"}

ASSUME ModeAssumption == Mode \in [Gets -> Modes]
ASSUME SendAssumption == Providers \in Nat \ {0} /\ Attempts \in Nat \ {0}
ASSUME NoResets == Resets = {}

VARIABLES
  stage,  \* where the sender of a transaction is
  tries,  \* position in the Providers * Attempts tries of send_raw_transaction
  onNode, \* what the chain knows of a transaction
  mined   \* mined[k]: transactions of account k executed, its next nonce

chainVars == <<onNode, mined>>
txVars == <<stage, tries, onNode, mined>>
vars == <<nmVars, txVars>>

Stage == {"new", "nonce", "prepare", "send", "receipt", "done", "failed"}
OnNode == {"none", "pool", "executed", "reverted"}
Mined(t) == onNode[t] \in {"executed", "reverted"}

TxInit ==
  /\ NMInit
  /\ stage = [t \in Gets |-> "new"]
  /\ tries = [t \in Gets |-> 0]
  /\ onNode = [t \in Gets |-> "none"]
  /\ mined \in [Keys -> 0..1]

---------------------------------------------------------------------------
(* The chain, as far as the SDK can tell *)

\* get_transaction_count(address, "pending"): what is executed and what the pool
\* can execute next.
InPool(k, n) == \E t \in Gets : KeyOf[t] = k /\ onNode[t] = "pool" /\ result[t] = n
PendingCount(k, n) ==
  /\ n >= mined[k] /\ ~InPool(k, n)
  /\ \A m \in mined[k]..(n - 1) : InPool(k, m)

\* A raw transaction is accepted unless it is known, its nonce is used up, or the
\* pool holds another one with that nonce (replacement underpriced).
Acceptable(t) ==
  /\ onNode[t] = "none"
  /\ result[t] >= mined[KeyOf[t]]
  /\ ~InPool(KeyOf[t], result[t])

Receive(t) == onNode' = IF Acceptable(t) THEN [onNode EXCEPT ![t] = "pool"] ELSE onNode

\* The next transaction of an account is executed, or reverts.
Executable(t) == onNode[t] = "pool" /\ result[t] = mined[KeyOf[t]]

Mine(t) ==
  /\ Executable(t)
  /\ \E outcome \in {"executed", "reverted"} : onNode' = [onNode EXCEPT ![t] = outcome]
  /\ mined' = [mined EXCEPT ![KeyOf[t]] = @ + 1]
  /\ UNCHANGED <<nmVars, stage, tries>>

---------------------------------------------------------------------------
(* The senders *)

Enter(t, s) == stage' = [stage EXCEPT ![t] = s]

\* No account or no L1 provider: nothing was taken yet.
Refuse(t) ==
  /\ stage[t] = "new"
  /\ Enter(t, "failed")
  /\ UNCHANGED <<nmVars, tries, chainVars>>

Begin(t) ==
  /\ stage[t] = "new"
  /\ Call(t)
  /\ Enter(t, "nonce")
  /\ UNCHANGED <<tries, chainVars>>

\* A step of get_nonce; the sender goes on in the step that returns.
AcquireNonce(t) ==
  /\ stage[t] = "nonce"
  /\ \/ GetTracked(t)
     \/ StartFetch(t)
     \/ \E n \in 0..MaxNonce : PendingCount(KeyOf[t], n) /\ NodeAnswers(t, n)
     \/ FetchReturns(t)
     \/ Abort(t)
  /\ stage' = [stage EXCEPT ![t] = CASE pc'[t] = "done" -> "prepare"
                                     [] pc'[t] = "failed" -> "failed"
                                     [] OTHER -> "nonce"]
  /\ UNCHANGED <<tries, chainVars>>

\* Rate limiter, gas estimate, gas price, build_transaction, signature.
Prepare(t) ==
  /\ stage[t] = "prepare"
  /\ Enter(t, "send")
  /\ UNCHANGED <<nmVars, tries, chainVars>>

\* Where the sender goes when send_raw_transaction returned the hash.
Sent(t) == Enter(t, IF Mode[t] = "nowait" THEN "done" ELSE "receipt")

SendReturns(t) ==
  /\ stage[t] = "send"
  /\ Acceptable(t)
  /\ Receive(t)
  /\ Sent(t)
  /\ UNCHANGED <<nmVars, tries, mined>>

\* The next try after one failed, or failure after the last.
TryNext(t, i) ==
  /\ tries' = [tries EXCEPT ![t] = i]
  /\ IF i < Providers * Attempts THEN UNCHANGED stage ELSE Enter(t, "failed")

\* A transport error or a timeout is retried on the same provider first: the node
\* may or may not have received the transaction.
SendTimesOut(t) ==
  /\ stage[t] = "send"
  /\ Receive(t) \/ UNCHANGED onNode
  /\ TryNext(t, tries[t] + 1)
  /\ UNCHANGED <<nmVars, mined>>

\* An error reply (nonce used, already known, no funds...) is not retried: the next
\* provider is tried.
SendRejected(t) ==
  /\ stage[t] = "send"
  /\ TryNext(t, (tries[t] \div Attempts + 1) * Attempts)
  /\ UNCHANGED <<nmVars, chainVars>>

\* Mutant: the status of the receipt is not looked at.
ReceiptArrivesUnchecked(t) ==
  /\ stage[t] = "receipt"
  /\ Mined(t)
  /\ Enter(t, "done")
  /\ UNCHANGED <<nmVars, tries, chainVars>>

\* wait_for_transaction_receipt returns once the transaction is mined.
ReceiptArrives(t) ==
  /\ stage[t] = "receipt"
  /\ Mined(t)
  /\ Enter(t, IF Mode[t] = "wait" /\ onNode[t] = "reverted" THEN "failed" ELSE "done")
  /\ UNCHANGED <<nmVars, tries, chainVars>>

\* Mutant: a sender that fails gives its nonce back.
FailGivesBack(t) ==
  /\ stage[t] \in {"prepare", "send", "receipt"}
  /\ Enter(t, "failed")
  /\ nonces' = [nonces EXCEPT ![KeyOf[t]] = @ - 1]
  /\ UNCHANGED <<initialized, lock, pc, answer, result, epoch, epochOf, tries, chainVars>>

\* An exception of the gas estimate, of build_transaction, of every provider asked
\* for the receipt, or the cancellation of the caller.  The nonce is not given back.
Fail(t) ==
  /\ stage[t] \in {"prepare", "send", "receipt"}
  /\ Enter(t, "failed")
  /\ UNCHANGED <<nmVars, tries, chainVars>>

Progress(t) ==
  \/ Refuse(t) \/ Begin(t) \/ AcquireNonce(t) \/ Prepare(t)
  \/ SendReturns(t) \/ SendTimesOut(t) \/ SendRejected(t) \/ ReceiptArrives(t)
  \/ Fail(t)

Settled == \A t \in Gets : stage[t] \in {"done", "failed"} /\ ~Executable(t)

TxNext ==
  \/ \E t \in Gets : Progress(t) \/ Mine(t)
  \/ Settled /\ UNCHANGED vars

TxSpec == TxInit /\ [][TxNext]_vars

\* The lock of a key goes to its waiters in turn, every await of a sender ends (a
\* reply, a timeout, the receipt timeout), and the chain executes what it can.
TxFairness ==
  \A t \in Gets :
    /\ SF_vars(pc[t] = "locking" /\ AcquireNonce(t) /\ pc'[t] # "failed")
    /\ WF_vars(pc[t] \in {"fetching", "answered"} /\ AcquireNonce(t))
    /\ WF_vars(stage[t] \in {"prepare", "send", "receipt"} /\ Progress(t))
    /\ WF_vars(Mine(t))

TxFairSpec == TxSpec /\ TxFairness

---------------------------------------------------------------------------
\* The types of the senders' and the chain's state, with those of the nonce manager: a
\* nonce stays a number whatever fails.
TxTypeOK ==
  /\ NMTypeOK
  /\ stage \in [Gets -> Stage]
  /\ tries \in [Gets -> Nat]
  /\ onNode \in [Gets -> OnNode]
  /\ mined \in [Keys -> Nat]

\* "Nonce manager ensures correct nonce ordering" (README.md:1228): among concurrent
\* senders of one account, a transaction about to be sent for the first time never
\* meets a used nonce ("nonce too low") or another transaction with its nonce,
\* whatever failed, was cancelled or timed out before.
NeverRejectedForNonce ==
  \A t \in Gets : stage[t] \in {"prepare", "send"} /\ onNode[t] = "none" => Acceptable(t)

\* A sender that reports success has its transaction on the chain, executed if it
\* asked for the receipt (_send_trade_tx raises "Transaction reverted" otherwise).
SuccessIsOnChain ==
  \A t \in Gets : stage[t] = "done" =>
    /\ onNode[t] # "none"
    /\ Mode[t] = "wait" => onNode[t] = "executed"
    /\ Mode[t] = "unchecked" => Mined(t)

\* The nonce a stranded transaction waits for.
MissingBelow(t, n) ==
  /\ n \in mined[KeyOf[t]]..(result[t] - 1)
  /\ ~InPool(KeyOf[t], n)

\* Every nonce missing below a transaction in the pool was handed to a sender of the
\* same account that is still on its way or has failed: the nonce manager itself
\* never leaves a hole, whatever the interleaving.
HolesHaveOwners ==
  \A t \in Gets : onNode[t] = "pool" =>
    \A n \in 0..(result[t] - 1) : MissingBelow(t, n) =>
      \E u \in Gets : /\ KeyOf[u] = KeyOf[t] /\ result[u] = n
                      /\ stage[u] \in {"prepare", "send", "failed"}

\* "No manual nonce bookkeeping for normal use" (README.md:1209): a transaction in the
\* pool waits only for senders that are still on their way to the node.
NoStrandedTransaction ==
  \A t \in Gets : onNode[t] = "pool" =>
    \A n \in 0..(result[t] - 1) : MissingBelow(t, n) =>
      \E u \in Gets : /\ KeyOf[u] = KeyOf[t] /\ result[u] = n
                      /\ stage[u] \in {"prepare", "send"}

\* No sender waits for ever, stranded or not.
EverySenderReturns ==
  \A t \in Gets : (stage[t] # "new") ~> (stage[t] \in {"done", "failed"})

\* u was given a smaller nonce of the same account than t.
Below(u, t) ==
  /\ result[u] # Unset /\ result[t] # Unset
  /\ KeyOf[u] = KeyOf[t] /\ result[u] < result[t]

\* A transaction the node has taken is executed, unless a sender of the same account
\* took a smaller nonce and failed before the node had its transaction.
PoolDrains ==
  \A t \in Gets :
    (onNode[t] = "pool") ~>
      (\/ Mined(t)
       \/ \E u \in Gets : Below(u, t) /\ stage[u] = "failed" /\ onNode[u] = "none")
===========================================================================
