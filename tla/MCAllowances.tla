--------------------------- MODULE MCAllowances ---------------------------
(***************************************************************************)
(* Instance of Allowances for TLC: a deposit that waits for its receipt    *)
(* and one that does not, of different amounts, and the approval and the   *)
(* swap of one quote, all of one spender.  Any three of the four are made. *)
(***************************************************************************)
EXTENDS Allowances

CONSTANTS d1, d2, a1, s1, pool

MCOps == {d1, d2, a1, s1}
MCKind == [o \in MCOps |-> CASE o = a1 -> "approve" [] o = s1 -> "swap" [] OTHER -> "transfer"]
MCAmount == [o \in MCOps |-> IF o = d1 THEN 2 ELSE 1]
MCWaits == [o \in MCOps |-> o # d2]
MCSpenders == {pool}
MCSpenderOf == [o \in MCOps |-> pool]
MCPrior == [s \in MCSpenders |-> 0]
===========================================================================
