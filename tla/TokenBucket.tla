---------------------------- MODULE TokenBucket ----------------------------
(***************************************************************************)
(* What a rate limiter promises: from the first call after it is created   *)
(* or reset, tokens appear one per interval, and every call that starts    *)
(* takes one that has appeared.                                            *)
(***************************************************************************)
EXTENDS Naturals

CONSTANTS Interval, None

VARIABLES
  now,
  opened,  \* when the first token appeared, or None
  taken    \* the tokens that calls have taken

bucketVars == <<now, opened, taken>>

BucketInit == now \in Nat /\ opened = None /\ taken = {}

Pass == now' \in Nat /\ now' > now /\ UNCHANGED <<opened, taken>>

\* The first call opens the bucket and takes the first token.
Open == opened = None /\ opened' = now /\ taken' = {0} /\ UNCHANGED now

Take ==
  /\ opened # None
  /\ \E i \in taken' \ taken :
       /\ i \in Nat /\ now >= opened + i * Interval
       /\ taken' = taken \cup {i}
  /\ UNCHANGED <<now, opened>>

Close == opened' = None /\ taken' = {} /\ UNCHANGED now

BucketNext == Pass \/ Open \/ Take \/ Close

Bucket == BucketInit /\ [][BucketNext]_bucketVars
=============================================================================
