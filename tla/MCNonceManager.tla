-------------------------- MODULE MCNonceManager --------------------------
(***************************************************************************)
(* Instance of NonceManager for TLC: three get_nonce calls and one         *)
(* reset_nonce compete for one key, and clear_nonce may run at any point.  *)
(***************************************************************************)
EXTENDS NonceManager

CONSTANTS g1, g2, g3, r1, k1

MCGets == {g1, g2, g3}
MCResets == {r1}
MCKeys == {k1}
MCKeyOf == [t \in MCGets \cup MCResets |-> k1]
===========================================================================
