---------------------------- MODULE Allowances ----------------------------
(***************************************************************************)
(* ERC20 allowances of one account on one chain: deposit and withdraw      *)
(* (core/transfer.py) approve a portfolio contract and then call it;       *)
(* approve_rfq_maker and execute_rfq_swap (core/swap.py) do so in two      *)
(* calls.  The calls are concurrent tasks of one event loop.               *)
(*                                                                         *)
(* The account's transactions are listed in nonce order.  A transaction    *)
(* has its place from the moment its nonce is taken; if it never reaches   *)
(* the node, those behind it stay in the pool (see TxPipeline).            *)
(***************************************************************************)
EXTENDS Naturals, Sequences, FiniteSets

CONSTANTS
  Ops,       \* calls of the methods above
  Kind,      \* transfer: deposit or withdraw of a token; approve; swap
  Amount,    \* in base units
  Waits,     \* wait_for_receipt
  Spenders,  \* contracts that are approved: portfolios, RFQ makers
  SpenderOf,
  Prior,     \* the allowances in the beginning
  MaxCalls   \* bound on the calls made

Kinds == {"transfer", "approve", "swap"}

ASSUME OpsAssumption ==
  /\ Kind \in [Ops -> Kinds] /\ Waits \in [Ops -> BOOLEAN]
  /\ Amount \in [Ops -> Nat \ {0}] /\ SpenderOf \in [Ops -> Spenders]
ASSUME PriorAssumption == Prior \in [Spenders -> Nat]
ASSUME MaxCallsAssumption == MaxCalls \in Nat

VARIABLES
  phase,     \* where a call is
  doing,     \* which transaction it is about: approve or main
  txs,       \* the account's transactions in nonce order
  allowance, \* allowance[s]: what s may still take
  spent,     \* what s has taken
  disturbed  \* history: calls that overlapped with another one of their spender

alVars == <<phase, doing, txs, allowance, spent, disturbed>>

\* checking: reading the allowance.  ready: about to take a nonce.  building: estimating
\* gas.  built: gas price, signature, send.  receipt: waiting for it.  revoking: in the
\* exception handler of a transfer.
Phases == {"idle", "checking", "ready", "building", "built", "receipt", "revoking", "done", "failed"}
TxStates == {"building", "pool", "lost", "executed", "reverted"}
Ended(o) == phase[o] \in {"done", "failed"}

\* The places of a call's transactions, the last of which is under way.
PlacesOf(o) == {i \in DOMAIN txs : txs[i].op = o}
Place(o) == CHOOSE i \in PlacesOf(o) : \A j \in PlacesOf(o) : j <= i

AlInit ==
  /\ phase = [o \in Ops |-> "idle"]
  /\ doing = [o \in Ops |-> "main"]
  /\ txs = <<>>
  /\ allowance = Prior
  /\ spent = [s \in Spenders |-> 0]
  /\ disturbed = {}

---------------------------------------------------------------------------
(* The chain *)

Put(i, s) == txs' = [txs EXCEPT ![i].state = s]

\* transferFrom succeeds.
Covered(o) == allowance[SpenderOf[o]] >= Amount[o]

NextInLine(i) ==
  txs[i].state = "pool" /\ \A j \in 1..(i - 1) : txs[j].state \in {"executed", "reverted"}

Execute(i) ==
  LET o == txs[i].op
      s == SpenderOf[o] IN
  /\ NextInLine(i)
  /\ Put(i, "executed")
  /\ \/ /\ txs[i].what = "approve"
        /\ allowance' = [allowance EXCEPT ![s] = Amount[o]]
        /\ UNCHANGED spent
     \/ /\ txs[i].what = "main" /\ Covered(o)
        /\ allowance' = [allowance EXCEPT ![s] = @ - Amount[o]]
        /\ spent' = [spent EXCEPT ![s] = @ + Amount[o]]
  /\ UNCHANGED <<phase, doing, disturbed>>

\* No cover, no balance, out of gas, contract paused, quote expired.
Revert(i) ==
  /\ NextInLine(i)
  /\ Put(i, "reverted")
  /\ UNCHANGED <<phase, doing, allowance, spent, disturbed>>

---------------------------------------------------------------------------
(* The calls *)

Go(o, p) == phase' = [phase EXCEPT ![o] = p]

\* An exception while doing the main transaction of a transfer is caught to revoke the
\* approval; the approval itself is outside that try.
Raise(o) == Go(o, IF Kind[o] = "transfer" /\ doing[o] = "main" THEN "revoking" ELSE "failed")

Unsettled(o) == phase[o] # "idle" /\ (~Ended(o) \/ \E i \in PlacesOf(o) : txs[i].state = "pool")
Rivals(o) == {p \in Ops \ {o} : SpenderOf[p] = SpenderOf[o] /\ Unsettled(p)}

Called == {o \in Ops : phase[o] # "idle"}

Start(o) ==
  /\ phase[o] = "idle"
  /\ Cardinality(Called) < MaxCalls
  /\ Go(o, "checking")
  /\ disturbed' = IF Rivals(o) = {} THEN disturbed ELSE disturbed \cup Rivals(o) \cup {o}
  /\ UNCHANGED <<doing, txs, allowance, spent>>

\* The allowance of the latest block is compared with the amount.
AllowanceRead(o) ==
  /\ phase[o] = "checking"
  /\ LET low == allowance[SpenderOf[o]] < Amount[o] IN
     /\ Go(o, IF low /\ Kind[o] = "swap" THEN "failed"
              ELSE IF ~low /\ Kind[o] = "approve" THEN "done" ELSE "ready")
     /\ doing' = [doing EXCEPT ![o] = IF low THEN "approve" ELSE "main"]
  /\ UNCHANGED <<txs, allowance, spent, disturbed>>

TakeNonce(o) ==
  /\ phase[o] = "ready"
  /\ Go(o, "building")
  /\ txs' = Append(txs, [op |-> o, what |-> doing[o], state |-> "building"])
  /\ UNCHANGED <<doing, allowance, spent, disturbed>>

\* The node simulates the call on the latest block.
Estimate(o) ==
  /\ phase[o] = "building"
  /\ doing[o] = "approve" \/ Covered(o)
  /\ Go(o, "built")
  /\ UNCHANGED <<doing, txs, allowance, spent, disturbed>>

\* Mutant: the receipt of the approval is waited for only on request.
BroadcastWithoutWaiting(o) ==
  /\ phase[o] = "built"
  /\ Put(Place(o), "pool")
  /\ IF Waits[o] THEN Go(o, "receipt") /\ UNCHANGED doing
     ELSE IF Kind[o] = "transfer" /\ doing[o] = "approve"
          THEN Go(o, "ready") /\ doing' = [doing EXCEPT ![o] = "main"]
          ELSE Go(o, "done") /\ UNCHANGED doing
  /\ UNCHANGED <<allowance, spent, disturbed>>

\* transfer.py waits for the receipt of an approval in any case, swap.py does not.
Broadcast(o) ==
  /\ phase[o] = "built"
  /\ Put(Place(o), "pool")
  /\ Go(o, IF Waits[o] \/ (Kind[o] = "transfer" /\ doing[o] = "approve") THEN "receipt" ELSE "done")
  /\ UNCHANGED <<doing, allowance, spent, disturbed>>

\* The status is looked at if the caller asked for the receipt.
ReceiptComes(o) ==
  /\ phase[o] = "receipt"
  /\ txs[Place(o)].state \in {"executed", "reverted"}
  /\ \/ /\ Waits[o] /\ txs[Place(o)].state = "reverted"
        /\ Raise(o) /\ UNCHANGED doing
     \/ /\ ~Waits[o] \/ txs[Place(o)].state = "executed"
        /\ IF Kind[o] = "transfer" /\ doing[o] = "approve"
           THEN Go(o, "ready") /\ doing' = [doing EXCEPT ![o] = "main"]
           ELSE Go(o, "done") /\ UNCHANGED doing
  /\ UNCHANGED <<txs, allowance, spent, disturbed>>

\* Mutant: a send that raised is done again, with another nonce.
CallFailsAndSendsAgain(o) ==
  /\ phase[o] \in {"checking", "ready", "building", "built", "receipt"}
  /\ IF phase[o] = "built" /\ Cardinality(PlacesOf(o)) < 3
     THEN Go(o, "ready") /\ Put(Place(o), "pool")
     ELSE /\ IF phase[o] = "checking" THEN Go(o, "failed") ELSE Raise(o)
          /\ IF phase[o] \in {"building", "built"} THEN Put(Place(o), "lost") ELSE UNCHANGED txs
  /\ UNCHANGED <<doing, allowance, spent, disturbed>>

\* Any await raises: a provider error, an estimate that finds the call reverts, a
\* receipt timeout.  A send that raises may have reached the node.
CallFails(o) ==
  /\ phase[o] \in {"checking", "ready", "building", "built", "receipt"}
  /\ IF phase[o] = "checking" THEN Go(o, "failed") ELSE Raise(o)
  /\ \/ phase[o] \in {"building", "built"} /\ Put(Place(o), "lost")
     \/ phase[o] = "built" /\ Put(Place(o), "pool")
     \/ phase[o] \notin {"building", "built"} /\ UNCHANGED txs
  /\ UNCHANGED <<doing, allowance, spent, disturbed>>

\* _ensure_allowance(..., 0), its exceptions swallowed: it approves 0 if the allowance is
\* below 0.
Revoke(o) ==
  /\ phase[o] = "revoking"
  /\ Go(o, "failed")
  /\ UNCHANGED <<doing, txs, allowance, spent, disturbed>>

CallStep(o) ==
  \/ Start(o) \/ AllowanceRead(o) \/ TakeNonce(o) \/ Estimate(o) \/ Broadcast(o)
  \/ ReceiptComes(o) \/ CallFails(o) \/ Revoke(o)

AllSettled ==
  /\ Called = Ops \/ Cardinality(Called) = MaxCalls
  /\ \A o \in Called : Ended(o)
  /\ ~\E i \in DOMAIN txs : NextInLine(i)

AlNext ==
  \/ \E o \in Ops : CallStep(o)
  \/ \E i \in DOMAIN txs : Execute(i) \/ Revert(i)
  \/ AllSettled /\ UNCHANGED alVars

AlSpec == AlInit /\ [][AlNext]_alVars

\* Every await of a call ends, a receipt's with its timeout at the latest.
AlFairness == \A o \in Ops : WF_alVars(~(phase[o] = "idle") /\ CallStep(o))

AlFairSpec == AlSpec /\ AlFairness

---------------------------------------------------------------------------
\* The types; a call makes at most one approval and one transaction of its own.
AlTypeOK ==
  /\ phase \in [Ops -> Phases] /\ doing \in [Ops -> {"approve", "main"}]
  /\ txs \in Seq([op : Ops, what : {"approve", "main"}, state : TxStates])
  /\ \A o \in Ops : Cardinality(PlacesOf(o)) <= 2
  /\ allowance \in [Spenders -> Nat] /\ spent \in [Spenders -> Nat]
  /\ disturbed \subseteq Ops

\* o's transaction of that kind ended that way.
Has(o, what, state) == \E i \in PlacesOf(o) : txs[i].what = what /\ txs[i].state = state

Granters(s) == {o \in Ops : SpenderOf[o] = s /\ Has(o, "approve", "executed")}

\* The base units of those calls' amounts, each once: as many as the amounts add up to.
Granted(s) == UNION {{o} \X (1..Amount[o]) : o \in Granters(s)}

\* What a contract has taken and may still take is covered by what it was allowed in the
\* beginning and the amounts of the calls that approved it, once each: concurrent
\* approvals that overwrite each other, failures and late transactions never add to it.
NoExcessExposure ==
  \A s \in Spenders :
    spent[s] + allowance[s] <= Prior[s] + Cardinality(Granted(s))

\* Why the receipt of an approval is waited for (transfer.py:1811): with no other call of
\* its spender in its way, a deposit, withdrawal or swap that has got to its transaction
\* finds the allowance when the node estimates it, unless its own approval reverted.
UndisturbedSuffices ==
  \A o \in Ops \ disturbed :
    phase[o] \in {"building", "built"} /\ doing[o] = "main" /\ ~Has(o, "approve", "reverted") =>
      Covered(o)

\* A call that waits for receipts and reports success has had its last transaction
\* executed, a deposit, withdrawal or swap not only its approval.
SuccessIsExecuted ==
  \A o \in Ops : phase[o] = "done" /\ Waits[o] =>
    /\ Kind[o] # "approve" => Has(o, "main", "executed")
    /\ PlacesOf(o) # {} => txs[Place(o)].state = "executed"

\* Every call returns, also when a transaction before its own is never executed.
EveryOperationEnds == \A o \in Ops : (phase[o] # "idle") ~> Ended(o)

\* "revoke the approval to prevent a dangling allowance" (transfer.py:1261, 1709): once a
\* deposit or withdrawal has failed after its approval, the allowance is gone.
NoDanglingAllowance ==
  \A o \in Ops \ disturbed :
    phase[o] = "failed" /\ doing[o] = "main" /\ Has(o, "approve", "executed") /\
    ~Has(o, "main", "executed") /\ ~Has(o, "main", "pool") =>
      allowance[SpenderOf[o]] < Amount[o]
===========================================================================
