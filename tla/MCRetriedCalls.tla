--------------------------- MODULE MCRetriedCalls ---------------------------
(* RetriedCalls for TLC: a caller whose calls are retried and two whose are not.  The clock  *)
(* can go past the last slot and the last delay of every call that begins in time.           *)
EXTENDS RetriedCalls

\* The default of retry_exponential_base.
MCGrowth == [n \in 0..MaxAttempts - 1 |-> 2^n]
=============================================================================
