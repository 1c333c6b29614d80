--------------------------- MODULE MCRpcFailover ---------------------------
(***************************************************************************)
(* Instance of RpcFailover for TLC: three providers, each exhausted by two   *)
(* failures in a row, two concurrent calls and one reinitialize.           *)
(***************************************************************************)
EXTENDS RpcFailover

CONSTANTS c1, c2

MCCalls == {c1, c2}
=============================================================================
