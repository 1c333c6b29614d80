-------------------------- MODULE NonceAllocator --------------------------
(***************************************************************************)
(* What a caller of the nonce manager may rely on, with no locks and no    *)
(* awaits: for each account on each chain, a grant hands out the successor *)
(* of the last nonce granted, in one step.  Only the first grant, and an   *)
(* explicit resynchronisation, take the number from outside.               *)
(***************************************************************************)
EXTENDS Naturals

CONSTANTS
  Calls,     \* get_nonce calls
  Keys,      \* "chain_id:address" keys
  MaxNonce,  \* bound on the numbers a node may report
  Unset      \* "no nonce"

VARIABLES
  last,      \* last[k]: the last nonce granted for k, Unset when unknown
  granted    \* granted[c]: the nonce call c was given, Unset before

allocVars == <<last, granted>>

AllocInit ==
  /\ last = [k \in Keys |-> Unset]
  /\ granted = [c \in Calls |-> Unset]

\* The first grant for a key follows the node, every later one its predecessor.
Grantable(k) == IF last[k] = Unset THEN 0..MaxNonce ELSE {last[k] + 1}

Grant(c, k) ==
  /\ granted[c] = Unset
  /\ \E n \in Grantable(k) :
       /\ last' = [last EXCEPT ![k] = n]
       /\ granted' = [granted EXCEPT ![c] = n]

\* reset_nonce: adopt the node's count.
Resync(k) ==
  /\ \E n \in 0..MaxNonce : last' = [last EXCEPT ![k] = n]
  /\ UNCHANGED granted

\* clear_nonce: forget the key.
Forget(k) ==
  /\ last' = [last EXCEPT ![k] = Unset]
  /\ UNCHANGED granted

AllocNext ==
  \/ \E c \in Calls, k \in Keys : Grant(c, k)
  \/ \E k \in Keys : Resync(k) \/ Forget(k)

AllocSpec == AllocInit /\ [][AllocNext]_allocVars
===========================================================================
