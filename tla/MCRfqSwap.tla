---------------------------- MODULE MCRfqSwap ----------------------------
(* Two chains, whose deployments may share an address; quotes of a maker   *)
(* the routers may allow and of the deployments, with and without an       *)
(* envelope.                                                               *)
EXTENDS RfqSwap, TLC

CONSTANTS s1, s2, x1, x2, m1, d1, d2, a1, a2

MCSymmetry == Permutations(Calls) \cup Permutations(Accounts)
MCPublished == [c \in Chains |-> c = x2]
Quote(c, m, to, n, v, d) ==
  [chain |-> c, maker |-> m, to |-> to, native |-> n, value |-> v, data |-> d]
MCQuotes ==
  {Quote(x1, m1, Router, FALSE, 0, "same"), Quote(x2, m1, Router, TRUE, Amount, None),
   Quote(x1, m1, None, TRUE, None, "other"), Quote(x2, d1, Router, FALSE, None, None),
   Quote(None, m1, d1, FALSE, None, None), Quote(x1, m1, m1, FALSE, Amount, "same")}
=============================================================================
