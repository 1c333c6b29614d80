--------------------------- MODULE MCTxPipeline ---------------------------
(***************************************************************************)
(* Instance of TxPipeline for TLC: three concurrent transactions of one    *)
(* account, one of each way to treat the receipt; two providers, one       *)
(* attempt on each.                                                        *)
(***************************************************************************)
EXTENDS TxPipeline

CONSTANTS t1, t2, t3, k1

MCGets == {t1, t2, t3}
MCResets == {}
MCKeys == {k1}
MCKeyOf == [t \in MCGets |-> k1]
MCMode == [t \in MCGets |->
             IF t = t1 THEN "nowait" ELSE IF t = t2 THEN "wait" ELSE "unchecked"]
===========================================================================
