-------------------------- MODULE LaggingRegister --------------------------
(***************************************************************************)
(* What the callers of a cached method may rely on, with no store and no   *)
(* futures: for each key a register, from which a call reads in one step.  *)
(* A read may lag behind the writes, but not behind another read that has  *)
(* returned, nor behind the last barrier.                                  *)
(***************************************************************************)
EXTENDS Naturals

CONSTANTS Callers, Keys, KeyOf

VARIABLES
  version,   \* version[k]: the value of k, counted up by each write
  barrier,   \* barrier[k]: the value of k at its last barrier
  returned   \* returned[c]: what call c has read, 0 before

registerVars == <<version, barrier, returned>>

RegisterInit ==
  /\ version = [k \in Keys |-> 1]
  /\ barrier = [k \in Keys |-> 0]
  /\ returned = [c \in Callers |-> 0]

Write(k) ==
  /\ version' = [version EXCEPT ![k] = @ + 1]
  /\ UNCHANGED <<barrier, returned>>

Barrier(K) ==
  /\ barrier' = [k \in Keys |-> IF k \in K THEN version[k] ELSE barrier[k]]
  /\ UNCHANGED <<version, returned>>

\* The calls of S read k together.
Read(k, S) ==
  /\ \A c \in S : KeyOf[c] = k /\ returned[c] = 0
  /\ \E v \in 1..version[k] :
       /\ v >= barrier[k]
       /\ \A c \in Callers : KeyOf[c] = k => v >= returned[c]
       /\ returned' = [c \in Callers |-> IF c \in S THEN v ELSE returned[c]]
  /\ UNCHANGED <<version, barrier>>

RegisterNext ==
  \/ \E k \in Keys : Write(k)
  \/ \E K \in SUBSET Keys : Barrier(K)
  \/ \E k \in Keys, S \in SUBSET Callers : Read(k, S)

RegisterSpec == RegisterInit /\ [][RegisterNext]_registerVars
============================================================================
