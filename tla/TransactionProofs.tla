------------------------ MODULE TransactionProofs ------------------------
(***************************************************************************)
(* Proofs about NonceManager and TxPipeline, for any calls, transactions,  *)
(* accounts, providers and bounds; and, in the second part, about          *)
(* Allowances, for any calls, kinds, amounts, spenders and allowances in   *)
(* the beginning.                                                          *)
(*                                                                         *)
(* The manager: a task that fetches holds the lock of its key, so at most  *)
(* one fetches for a key; a get_nonce fetches only for a key that is not   *)
(* initialised, and stays the only one to initialise it; and while a key   *)
(* is initialised, _nonces holds the greatest number of its epoch.         *)
(*                                                                         *)
(* The senders use the nonce manager as any callers would, so what is      *)
(* proved about NMSpec holds for them.  The argument on top of it: the     *)
(* chain knows no transaction of an account before its first nonce is      *)
(* granted, so the pending count that is fetched is the number of those    *)
(* executed; and from then on the nonces from that number up to the last   *)
(* one handed out are each a sender's.                                     *)
(***************************************************************************)
EXTENDS TxPipeline, Allowances, FiniteSetTheorems, TLAPS

---------------------------------------------------------------------------
(* The nonce manager *)

\* The task that fetches has the lock.
HolderLocks == \A t \in Tasks : Holding(t) => lock[KeyOf[t]] = t

\* get_nonce fetches only for a key that nobody has initialised since.
FetchesFirst == \A t \in Gets : Holding(t) => ~initialized[KeyOf[t]]

\* A call that has returned no nonce yet has not been answered.
NotYetAnswered == \A c \in Gets : pc[c] # "done" => result[c] = Unset

\* What a node reported is in the bound.
AnswersBounded == \A t \in Tasks : answer[t] \in 0..MaxNonce

\* A nonce of the present epoch of its key is at most the last one handed out.
Tracked ==
  \A c \in Gets : result[c] # Unset =>
    /\ epochOf[c] <= epoch[KeyOf[c]]
    /\ epochOf[c] = epoch[KeyOf[c]] =>
         initialized[KeyOf[c]] /\ result[c] <= nonces[KeyOf[c]]

LockInv == NMTypeOK /\ HolderLocks /\ FetchesFirst /\ NotYetAnswered /\ AnswersBounded

GrantInv == LockInv /\ Tracked /\ NoReuse

LEMMA KeyType ==
  /\ \A t \in Tasks : KeyOf[t] \in Keys
  /\ \A t \in Gets : t \in Tasks /\ KeyOf[t] \in Keys /\ t \notin Resets
BY TasksAssumption, KeyAssumption DEF Tasks

---------------------------------------------------------------------------
(* Types *)

LEMMA TypeInit == NMInit => NMTypeOK
BY DEF NMInit, NMTypeOK, PC

LEMMA TypeStep == NMTypeOK /\ [NMNext]_nmVars => NMTypeOK'
<1> SUFFICES ASSUME NMTypeOK, [NMNext]_nmVars PROVE NMTypeOK'
  OBVIOUS
<1> USE KeyType, NonceAssumption DEF NMTypeOK, PC
<1>1. ASSUME NEW t \in Tasks, Call(t) PROVE NMTypeOK'
  BY <1>1 DEF Call
<1>2. ASSUME NEW t \in Tasks, GetTracked(t) PROVE NMTypeOK'
  BY <1>2 DEF GetTracked, Return
<1>3. ASSUME NEW t \in Tasks, StartFetch(t) PROVE NMTypeOK'
  BY <1>3 DEF StartFetch
<1>4. ASSUME NEW t \in Tasks, NEW n \in 0..MaxNonce, NodeAnswers(t, n) PROVE NMTypeOK'
  BY <1>4 DEF NodeAnswers
<1>5. ASSUME NEW t \in Tasks, FetchReturns(t) PROVE NMTypeOK'
  <2>1. CASE t \in Gets
    BY <1>5, <2>1 DEF FetchReturns, Return
  <2>2. CASE t \notin Gets
    BY <1>5, <2>2 DEF FetchReturns
  <2> QED BY <2>1, <2>2
<1>6. ASSUME NEW t \in Tasks, Abort(t) PROVE NMTypeOK'
  BY <1>6 DEF Abort
<1>7. ASSUME NEW k \in Keys, Clear(k) PROVE NMTypeOK'
  BY <1>7 DEF Clear
<1>8. CASE UNCHANGED nmVars
  BY <1>8 DEF nmVars
<1> QED
  BY <1>1, <1>2, <1>3, <1>4, <1>5, <1>6, <1>7, <1>8 DEF NMNext, TaskStep

\* Every variable keeps its type, whatever the calls, the node and clear_nonce do.
THEOREM TypeCorrect == NMSpec => []NMTypeOK
BY TypeInit, TypeStep, PTL DEF NMSpec

---------------------------------------------------------------------------
(* The lock *)

LEMMA LockInit == NMInit => LockInv
BY TypeInit, KeyType, NonceAssumption
   DEF NMInit, LockInv, HolderLocks, Holding, FetchesFirst, NotYetAnswered, AnswersBounded

LEMMA LockStep == LockInv /\ [NMNext]_nmVars => LockInv'
<1> SUFFICES ASSUME LockInv, [NMNext]_nmVars PROVE LockInv'
  OBVIOUS
<1> USE KeyType, NonceAssumption, TasksAssumption
<1> USE DEF HolderLocks, Holding, FetchesFirst, NotYetAnswered, AnswersBounded
<1> DEFINE Rest == HolderLocks /\ FetchesFirst /\ NotYetAnswered /\ AnswersBounded
<1>0. NMTypeOK /\ NMTypeOK' /\ Rest
  BY TypeStep DEF LockInv
<1>1. ASSUME NEW t \in Tasks, Call(t) PROVE Rest'
  BY <1>0, <1>1 DEF Call, NMTypeOK
<1>2. ASSUME NEW t \in Tasks, GetTracked(t) PROVE Rest'
  BY <1>0, <1>2 DEF GetTracked, Return, NMTypeOK
<1>3. ASSUME NEW t \in Tasks, StartFetch(t) PROVE Rest'
  BY <1>0, <1>3 DEF StartFetch, NMTypeOK
<1>4. ASSUME NEW t \in Tasks, NEW n \in 0..MaxNonce, NodeAnswers(t, n) PROVE Rest'
  BY <1>0, <1>4 DEF NodeAnswers, NMTypeOK
<1>5. ASSUME NEW t \in Tasks, FetchReturns(t) PROVE Rest'
  <2>1. \A u \in Tasks : Holding(u)' => Holding(u) /\ KeyOf[u] # KeyOf[t]
    BY <1>0, <1>5 DEF FetchReturns, NMTypeOK
  <2>2. HolderLocks' /\ FetchesFirst'
    BY <1>0, <1>5, <2>1 DEF FetchReturns, NMTypeOK
  <2>3. NotYetAnswered' /\ AnswersBounded'
    <3>1. CASE t \in Gets
      BY <1>0, <1>5, <3>1 DEF FetchReturns, Return, NMTypeOK
    <3>2. CASE t \notin Gets
      BY <1>0, <1>5, <3>2 DEF FetchReturns, NMTypeOK
    <3> QED BY <3>1, <3>2
  <2> QED BY <2>2, <2>3
<1>6. ASSUME NEW t \in Tasks, Abort(t) PROVE Rest'
  BY <1>0, <1>6 DEF Abort, NMTypeOK
<1>7. ASSUME NEW k \in Keys, Clear(k) PROVE Rest'
  BY <1>0, <1>7 DEF Clear, NMTypeOK
<1>8. ASSUME UNCHANGED nmVars PROVE Rest'
  BY <1>0, <1>8 DEF nmVars
<1> QED
  BY <1>0, <1>1, <1>2, <1>3, <1>4, <1>5, <1>6, <1>7, <1>8 DEF NMNext, TaskStep, LockInv

---------------------------------------------------------------------------
(* The nonces handed out *)

LEMMA GrantInit == NMInit => GrantInv
BY LockInit DEF NMInit, GrantInv, Tracked, NoReuse, SameEpoch

\* A step that grants nothing and does not touch a key's record keeps both facts.
LEMMA GrantUntouched ==
  ASSUME Tracked, NoReuse, UNCHANGED <<nonces, initialized, result, epoch, epochOf>>
  PROVE  Tracked' /\ NoReuse'
BY DEF Tracked, NoReuse, SameEpoch

\* So does one that ends the epoch of a key.
LEMMA GrantNewEpoch ==
  ASSUME NMTypeOK, Tracked, NoReuse, NEW k \in Keys,
         epoch' = [epoch EXCEPT ![k] = @ + 1],
         \A j \in Keys : j # k => nonces'[j] = nonces[j] /\ initialized'[j] = initialized[j],
         UNCHANGED <<result, epochOf>>
  PROVE  Tracked' /\ NoReuse'
<1>1. NoReuse'
  BY DEF NoReuse, SameEpoch
<1>2. ASSUME NEW c \in Gets, result'[c] # Unset
      PROVE  /\ epochOf'[c] <= epoch'[KeyOf[c]]
             /\ epochOf'[c] = epoch'[KeyOf[c]] =>
                  initialized'[KeyOf[c]] /\ result'[c] <= nonces'[KeyOf[c]]
  BY <1>2, KeyType DEF NMTypeOK, Tracked
<1> QED BY <1>1, <1>2 DEF Tracked

\* A grant that is greater than every nonce of the epoch keeps them too.
LEMMA GrantAnother ==
  ASSUME NMTypeOK, Tracked, NoReuse, NEW t \in Gets, NEW n \in Nat, Return(t, n),
         nonces' = [nonces EXCEPT ![KeyOf[t]] = n],
         initialized' = [initialized EXCEPT ![KeyOf[t]] = TRUE],
         UNCHANGED epoch,
         initialized[KeyOf[t]] => n > nonces[KeyOf[t]]
  PROVE  Tracked' /\ NoReuse'
<1> USE KeyType, NonceAssumption DEF NMTypeOK
<1>1. \A c \in Gets : c # t => result'[c] = result[c] /\ epochOf'[c] = epochOf[c]
  BY DEF Return
<1>2. result'[t] = n /\ epochOf'[t] = epoch[KeyOf[t]]
  BY DEF Return
<1>3. \A c \in Gets : c # t /\ SameEpoch(c, t)' => result'[c] < n
  BY <1>1, <1>2 DEF Tracked, SameEpoch
<1>4. NoReuse'
  BY <1>1, <1>2, <1>3 DEF NoReuse, SameEpoch
<1>5. ASSUME NEW c \in Gets, result'[c] # Unset
      PROVE  /\ epochOf'[c] <= epoch'[KeyOf[c]]
             /\ epochOf'[c] = epoch'[KeyOf[c]] =>
                  initialized'[KeyOf[c]] /\ result'[c] <= nonces'[KeyOf[c]]
  BY <1>1, <1>2, <1>5 DEF Tracked
<1> QED BY <1>4, <1>5 DEF Tracked

LEMMA GrantStep == GrantInv /\ [NMNext]_nmVars => GrantInv'
<1> SUFFICES ASSUME GrantInv, [NMNext]_nmVars PROVE Tracked' /\ NoReuse'
  BY LockStep DEF GrantInv
<1> USE KeyType DEF GrantInv, LockInv
<1>1. ASSUME NEW t \in Tasks, Call(t) PROVE Tracked' /\ NoReuse'
  BY <1>1, GrantUntouched DEF Call
<1>2. ASSUME NEW t \in Tasks, GetTracked(t) PROVE Tracked' /\ NoReuse'
  <2>1. /\ t \in Gets
        /\ nonces[KeyOf[t]] + 1 \in Nat /\ nonces[KeyOf[t]] + 1 > nonces[KeyOf[t]]
        /\ nonces' = [nonces EXCEPT ![KeyOf[t]] = nonces[KeyOf[t]] + 1]
        /\ initialized' = [initialized EXCEPT ![KeyOf[t]] = TRUE]
        /\ Return(t, nonces[KeyOf[t]] + 1) /\ UNCHANGED epoch
    BY <1>2 DEF GetTracked, NMTypeOK
  <2> QED BY <2>1, GrantAnother
<1>3. ASSUME NEW t \in Tasks, StartFetch(t) PROVE Tracked' /\ NoReuse'
  BY <1>3, GrantUntouched DEF StartFetch
<1>4. ASSUME NEW t \in Tasks, NEW n \in 0..MaxNonce, NodeAnswers(t, n)
      PROVE Tracked' /\ NoReuse'
  BY <1>4, GrantUntouched DEF NodeAnswers
<1>5. ASSUME NEW t \in Tasks, FetchReturns(t) PROVE Tracked' /\ NoReuse'
  <2>1. CASE t \in Gets
    <3>1. answer[t] \in Nat /\ ~initialized[KeyOf[t]]
      BY <1>5, <2>1 DEF FetchReturns, FetchesFirst, Holding, NMTypeOK
    <3>2. /\ nonces' = [nonces EXCEPT ![KeyOf[t]] = answer[t]]
          /\ initialized' = [initialized EXCEPT ![KeyOf[t]] = TRUE]
          /\ Return(t, answer[t]) /\ UNCHANGED epoch
      BY <1>5, <2>1 DEF FetchReturns
    <3> QED BY <2>1, <3>1, <3>2, GrantAnother
  <2>2. CASE t \notin Gets
    <3>1. /\ KeyOf[t] \in Keys
          /\ epoch' = [epoch EXCEPT ![KeyOf[t]] = @ + 1]
          /\ \A j \in Keys : j # KeyOf[t] =>
               nonces'[j] = nonces[j] /\ initialized'[j] = initialized[j]
          /\ UNCHANGED <<result, epochOf>>
      BY <1>5, <2>2 DEF FetchReturns, NMTypeOK
    <3> QED BY <3>1, GrantNewEpoch
  <2> QED BY <2>1, <2>2
<1>6. ASSUME NEW t \in Tasks, Abort(t) PROVE Tracked' /\ NoReuse'
  BY <1>6, GrantUntouched DEF Abort
<1>7. ASSUME NEW k \in Keys, Clear(k) PROVE Tracked' /\ NoReuse'
  <2>1. /\ epoch' = [epoch EXCEPT ![k] = @ + 1]
        /\ \A j \in Keys : j # k => nonces'[j] = nonces[j] /\ initialized'[j] = initialized[j]
        /\ UNCHANGED <<result, epochOf>>
    BY <1>7 DEF Clear, NMTypeOK
  <2> QED BY <2>1, GrantNewEpoch
<1>8. CASE UNCHANGED nmVars
  BY <1>8, GrantUntouched DEF nmVars
<1> QED
  BY <1>1, <1>2, <1>3, <1>4, <1>5, <1>6, <1>7, <1>8 DEF NMNext, TaskStep

\* No two get_nonce calls are answered with one nonce of a key within an epoch,
\* however the calls, the node's replies, failures, cancellations, reset_nonce and
\* clear_nonce interleave.
THEOREM NonceNeverReused == NMSpec => []NoReuse
<1>1. GrantInv => NoReuse
  BY DEF GrantInv
<1> QED BY GrantInit, GrantStep, <1>1, PTL DEF NMSpec

---------------------------------------------------------------------------
(* No number is left out *)

\* From each nonce of the present epoch of its key on, every number up to the last one
\* handed out was granted in that epoch.
Contiguous ==
  \A c \in Gets : result[c] # Unset /\ epochOf[c] = epoch[KeyOf[c]] =>
    \A n \in result[c]..nonces[KeyOf[c]] : \E e \in Gets : SameEpoch(c, e) /\ result[e] = n

GapInv == GrantInv /\ Contiguous /\ NoGapInGrants

LEMMA GapInit == NMInit => GapInv
BY GrantInit DEF NMInit, GapInv, Contiguous, NoGapInGrants, SameEpoch

LEMMA GapUntouched ==
  ASSUME Contiguous, NoGapInGrants, UNCHANGED <<nonces, result, epoch, epochOf>>
  PROVE  Contiguous' /\ NoGapInGrants'
BY DEF Contiguous, NoGapInGrants, SameEpoch

LEMMA GapNewEpoch ==
  ASSUME NMTypeOK, Tracked, Contiguous, NoGapInGrants, NEW k \in Keys,
         epoch' = [epoch EXCEPT ![k] = @ + 1],
         \A j \in Keys : j # k => nonces'[j] = nonces[j],
         UNCHANGED <<result, epochOf>>
  PROVE  Contiguous' /\ NoGapInGrants'
<1>1. NoGapInGrants'
  BY DEF NoGapInGrants, SameEpoch
<1>2. \A c, e \in Gets : SameEpoch(c, e) <=> SameEpoch(c, e)'
  BY DEF SameEpoch
<1>3. ASSUME NEW c \in Gets, result'[c] # Unset, epochOf'[c] = epoch'[KeyOf[c]]
      PROVE  KeyOf[c] # k /\ epochOf[c] = epoch[KeyOf[c]] /\ nonces'[KeyOf[c]] = nonces[KeyOf[c]]
  BY <1>3, KeyType DEF NMTypeOK, Tracked
<1>4. ASSUME NEW c \in Gets, result'[c] # Unset, epochOf'[c] = epoch'[KeyOf[c]],
             NEW n \in (result'[c])..(nonces'[KeyOf[c]])
      PROVE  \E e \in Gets : SameEpoch(c, e)' /\ result'[e] = n
  BY <1>2, <1>3, <1>4 DEF Contiguous
<1> QED BY <1>1, <1>4 DEF Contiguous

\* A grant is the first one of its epoch or the successor of the last one.
LEMMA GapAnother ==
  ASSUME NMTypeOK, Tracked, Contiguous, NoGapInGrants,
         NEW t \in Gets, NEW n \in Nat, result[t] = Unset, Return(t, n),
         nonces' = [nonces EXCEPT ![KeyOf[t]] = n],
         UNCHANGED epoch,
         initialized[KeyOf[t]] => n = nonces[KeyOf[t]] + 1
  PROVE  Contiguous' /\ NoGapInGrants'
<1> USE KeyType, NonceAssumption DEF NMTypeOK
<1>1. /\ \A c \in Gets : c # t => result'[c] = result[c] /\ epochOf'[c] = epochOf[c]
      /\ result'[t] = n /\ epochOf'[t] = epoch[KeyOf[t]]
  BY DEF Return
<1>2. \A c, e \in Gets : SameEpoch(c, e) =>
        c # t /\ e # t /\ SameEpoch(c, e)' /\ result'[e] = result[e] /\ result'[c] = result[c]
  BY <1>1 DEF SameEpoch
<1>3. ASSUME NEW c \in Gets, c # t, SameEpoch(c, t)'
      PROVE  /\ result[c] \in Nat /\ epochOf[c] = epoch[KeyOf[c]] /\ KeyOf[c] = KeyOf[t]
             /\ n = nonces[KeyOf[t]] + 1 /\ result[c] <= nonces[KeyOf[t]]
  BY <1>1, <1>3 DEF SameEpoch, Tracked
<1>4. ASSUME NEW c \in Gets, c # t, SameEpoch(c, t)', NEW m \in (result[c])..(n - 1)
      PROVE  \E e \in Gets : SameEpoch(c, e)' /\ result'[e] = m
  <2>1. m \in (result[c])..(nonces[KeyOf[c]]) /\ result[c] # Unset
        /\ epochOf[c] = epoch[KeyOf[c]]
    BY <1>3, <1>4
  <2>2. PICK e \in Gets : SameEpoch(c, e) /\ result[e] = m
    BY <2>1 DEF Contiguous
  <2> QED BY <1>2, <2>2
<1>5. Contiguous'
  <2> SUFFICES ASSUME NEW c \in Gets, result'[c] # Unset, epochOf'[c] = epoch'[KeyOf[c]],
                      NEW m \in (result'[c])..(nonces'[KeyOf[c]])
               PROVE  \E e \in Gets : SameEpoch(c, e)' /\ result'[e] = m
    BY DEF Contiguous
  <2>1. CASE KeyOf[c] = KeyOf[t]
    <3>1. SameEpoch(c, t)' /\ nonces'[KeyOf[c]] = n
      BY <1>1, <2>1 DEF SameEpoch
    <3>2. CASE m = n
      BY <1>1, <3>1, <3>2
    <3>3. CASE m # n
      <4>1. c # t
        BY <1>1, <3>1, <3>3
      <4>2. m \in (result[c])..(n - 1)
        BY <1>1, <1>3, <3>1, <3>3, <4>1
      <4> QED BY <1>4, <3>1, <4>1, <4>2
    <3> QED BY <3>2, <3>3
  <2>2. CASE KeyOf[c] # KeyOf[t]
    <3>1. c # t /\ result'[c] = result[c] /\ epochOf[c] = epoch[KeyOf[c]]
          /\ nonces'[KeyOf[c]] = nonces[KeyOf[c]]
      BY <1>1, <2>2
    <3>2. PICK e \in Gets : SameEpoch(c, e) /\ result[e] = m
      BY <3>1 DEF Contiguous
    <3> QED BY <1>2, <3>2
  <2> QED BY <2>1, <2>2
<1>6. NoGapInGrants'
  <2> SUFFICES ASSUME NEW c \in Gets, NEW d \in Gets, SameEpoch(c, d)',
                      NEW m \in (result'[c] + 1)..(result'[d] - 1)
               PROVE  \E e \in Gets : SameEpoch(c, e)' /\ result'[e] = m
    BY DEF NoGapInGrants
  <2>1. CASE c # t /\ d # t
    <3>1. SameEpoch(c, d) /\ m \in (result[c] + 1)..(result[d] - 1)
      BY <1>1, <2>1 DEF SameEpoch
    <3>2. PICK e \in Gets : SameEpoch(c, e) /\ result[e] = m
      BY <3>1 DEF NoGapInGrants
    <3> QED BY <1>2, <3>2
  <2>2. CASE c # t /\ d = t
    <3>1. result[c] \in Nat /\ result'[c] = result[c] /\ result'[d] = n
      BY <1>1, <1>3, <2>2
    <3>2. m \in (result[c])..(n - 1)
      BY <3>1
    <3> QED BY <1>4, <2>2, <3>2
  <2>3. CASE c = t /\ d # t
    <3>1. SameEpoch(d, t)'
      BY <2>3 DEF SameEpoch
    <3>2. result'[c] = n /\ result'[d] = result[d] /\ result[d] \in Nat /\ result[d] < n
      BY <1>1, <1>3, <2>3, <3>1
    <3> QED BY <3>2
  <2>4. CASE c = t /\ d = t
    BY <1>1, <2>4
  <2> QED BY <2>1, <2>2, <2>3, <2>4
<1> QED BY <1>5, <1>6

LEMMA GapStep == GapInv /\ [NMNext]_nmVars => GapInv'
<1> SUFFICES ASSUME GapInv, [NMNext]_nmVars PROVE Contiguous' /\ NoGapInGrants'
  BY GrantStep DEF GapInv
<1> USE KeyType DEF GapInv, GrantInv, LockInv
<1>1. ASSUME NEW t \in Tasks, Call(t) PROVE Contiguous' /\ NoGapInGrants'
  BY <1>1, GapUntouched DEF Call
<1>2. ASSUME NEW t \in Tasks, GetTracked(t) PROVE Contiguous' /\ NoGapInGrants'
  <2>1. /\ t \in Gets /\ result[t] = Unset
        /\ nonces[KeyOf[t]] + 1 \in Nat
        /\ nonces' = [nonces EXCEPT ![KeyOf[t]] = nonces[KeyOf[t]] + 1]
        /\ Return(t, nonces[KeyOf[t]] + 1) /\ UNCHANGED epoch
    BY <1>2 DEF GetTracked, NotYetAnswered, NMTypeOK
  <2> QED BY <2>1, GapAnother
<1>3. ASSUME NEW t \in Tasks, StartFetch(t) PROVE Contiguous' /\ NoGapInGrants'
  BY <1>3, GapUntouched DEF StartFetch
<1>4. ASSUME NEW t \in Tasks, NEW n \in 0..MaxNonce, NodeAnswers(t, n)
      PROVE Contiguous' /\ NoGapInGrants'
  BY <1>4, GapUntouched DEF NodeAnswers
<1>5. ASSUME NEW t \in Tasks, FetchReturns(t) PROVE Contiguous' /\ NoGapInGrants'
  <2>1. CASE t \in Gets
    <3>1. answer[t] \in Nat /\ ~initialized[KeyOf[t]] /\ result[t] = Unset
      BY <1>5, <2>1 DEF FetchReturns, FetchesFirst, NotYetAnswered, Holding, NMTypeOK
    <3>2. /\ nonces' = [nonces EXCEPT ![KeyOf[t]] = answer[t]]
          /\ Return(t, answer[t]) /\ UNCHANGED epoch
      BY <1>5, <2>1 DEF FetchReturns
    <3> QED BY <2>1, <3>1, <3>2, GapAnother
  <2>2. CASE t \notin Gets
    <3>1. /\ KeyOf[t] \in Keys
          /\ epoch' = [epoch EXCEPT ![KeyOf[t]] = @ + 1]
          /\ \A j \in Keys : j # KeyOf[t] => nonces'[j] = nonces[j]
          /\ UNCHANGED <<result, epochOf>>
      BY <1>5, <2>2 DEF FetchReturns, NMTypeOK
    <3> QED BY <3>1, GapNewEpoch
  <2> QED BY <2>1, <2>2
<1>6. ASSUME NEW t \in Tasks, Abort(t) PROVE Contiguous' /\ NoGapInGrants'
  BY <1>6, GapUntouched DEF Abort
<1>7. ASSUME NEW k \in Keys, Clear(k) PROVE Contiguous' /\ NoGapInGrants'
  <2>1. /\ epoch' = [epoch EXCEPT ![k] = @ + 1]
        /\ \A j \in Keys : j # k => nonces'[j] = nonces[j]
        /\ UNCHANGED <<result, epochOf>>
    BY <1>7 DEF Clear, NMTypeOK
  <2> QED BY <2>1, GapNewEpoch
<1>8. ASSUME UNCHANGED nmVars PROVE Contiguous' /\ NoGapInGrants'
  BY <1>8, GapUntouched DEF nmVars
<1> QED
  BY <1>1, <1>2, <1>3, <1>4, <1>5, <1>6, <1>7, <1>8 DEF NMNext, TaskStep

\* The nonces granted for a key in one epoch are consecutive: a call that fails or is
\* cancelled consumes none.
THEOREM NoNonceLeftOut == NMSpec => []NoGapInGrants
<1>1. GapInv => NoGapInGrants
  BY DEF GapInv
<1> QED BY GapInit, GapStep, <1>1, PTL DEF NMSpec

---------------------------------------------------------------------------
(* The implementation of the allocator *)

Last == [k \in Keys |-> IF initialized[k] THEN nonces[k] ELSE Unset]

LEMMA MapsInit == NMInit => Allocator!AllocInit
BY DEF NMInit, Allocator!AllocInit

\* A step that leaves the nonces and the results alone is a stutter of the allocator.
LEMMA MapsStutter ==
  ASSUME UNCHANGED <<nonces, initialized, result>>
  PROVE  UNCHANGED Allocator!allocVars
BY DEF Allocator!allocVars

LEMMA MapsStep == LockInv /\ [NMNext]_nmVars => [Allocator!AllocNext]_(Allocator!allocVars)
<1> SUFFICES ASSUME LockInv, NMNext
             PROVE  Allocator!AllocNext \/ UNCHANGED Allocator!allocVars
  BY MapsStutter DEF nmVars
<1> DEFINE Goal == Allocator!AllocNext \/ UNCHANGED Allocator!allocVars
<1> USE KeyType, NonceAssumption
<1>0. NMTypeOK
  BY DEF LockInv
<1>1. ASSUME NEW t \in Tasks, Call(t) PROVE Goal
  BY <1>1, MapsStutter DEF Call
<1>2. ASSUME NEW t \in Tasks, GetTracked(t) PROVE Goal
  <2>1. t \in Gets /\ result[t] = Unset
    BY <1>2 DEF GetTracked, LockInv, NotYetAnswered
  <2>2. Last[KeyOf[t]] # Unset /\ Last[KeyOf[t]] = nonces[KeyOf[t]]
    BY <1>0, <1>2 DEF GetTracked, Last, NMTypeOK
  <2>3. Last' = [Last EXCEPT ![KeyOf[t]] = nonces[KeyOf[t]] + 1]
    BY <1>0, <1>2 DEF GetTracked, Last, NMTypeOK
  <2>4. result' = [result EXCEPT ![t] = nonces[KeyOf[t]] + 1]
    BY <1>2 DEF GetTracked, Return
  <2>5. Allocator!Grant(t, KeyOf[t])
    BY <2>1, <2>2, <2>3, <2>4 DEF Last, Allocator!Grant, Allocator!Grantable
  <2> QED BY <2>1, <2>5 DEF Allocator!AllocNext
<1>3. ASSUME NEW t \in Tasks, StartFetch(t) PROVE Goal
  BY <1>3, MapsStutter DEF StartFetch
<1>4. ASSUME NEW t \in Tasks, NEW n \in 0..MaxNonce, NodeAnswers(t, n) PROVE Goal
  BY <1>4, MapsStutter DEF NodeAnswers
<1>5. ASSUME NEW t \in Tasks, FetchReturns(t) PROVE Goal
  <2>1. answer[t] \in 0..MaxNonce
    BY DEF LockInv, AnswersBounded
  <2>2. Last' = [Last EXCEPT ![KeyOf[t]] = answer[t]]
    BY <1>0, <1>5 DEF FetchReturns, Last, NMTypeOK
  <2>3. CASE t \in Gets
    <3>1. result[t] = Unset
      BY <1>5, <2>3 DEF FetchReturns, LockInv, NotYetAnswered
    <3>2. Last[KeyOf[t]] = Unset
      BY <1>5, <2>3 DEF FetchReturns, LockInv, FetchesFirst, Holding, Last
    <3>3. result' = [result EXCEPT ![t] = answer[t]]
      BY <1>5, <2>3 DEF FetchReturns, Return
    <3>4. Allocator!Grant(t, KeyOf[t])
      BY <2>1, <2>2, <3>1, <3>2, <3>3 DEF Last, Allocator!Grant, Allocator!Grantable
    <3> QED BY <2>3, <3>4 DEF Allocator!AllocNext
  <2>4. CASE t \notin Gets
    <3>1. Allocator!Resync(KeyOf[t])
      BY <1>5, <2>1, <2>2, <2>4 DEF FetchReturns, Last, Allocator!Resync
    <3> QED BY <3>1 DEF Allocator!AllocNext
  <2> QED BY <2>3, <2>4
<1>6. ASSUME NEW t \in Tasks, Abort(t) PROVE Goal
  BY <1>6, MapsStutter DEF Abort
<1>7. ASSUME NEW k \in Keys, Clear(k) PROVE Goal
  <2>1. Last' = [Last EXCEPT ![k] = Unset]
    BY <1>0, <1>7 DEF Clear, Last, NMTypeOK
  <2>2. Allocator!Forget(k)
    BY <1>7, <2>1 DEF Clear, Last, Allocator!Forget
  <2> QED BY <2>2 DEF Allocator!AllocNext
<1>8. ASSUME UNCHANGED nmVars PROVE Goal
  BY <1>8, MapsStutter DEF nmVars
<1> QED
  BY <1>1, <1>2, <1>3, <1>4, <1>5, <1>6, <1>7, <1>8 DEF NMNext, TaskStep

\* The nonce manager with its lock and its awaits implements the allocator that
\* grants each nonce in one step, as the successor of the last.
THEOREM ManagerImplementsAllocator == NMSpec => ImplementsAllocator
BY LockInit, LockStep, MapsInit, MapsStep, PTL DEF NMSpec, ImplementsAllocator, Allocator!AllocSpec

---------------------------------------------------------------------------
(* The pipeline *)

\* Without reset_nonce and clear_nonce, there is one epoch.
OneEpoch == (\A k \in Keys : epoch[k] = 0) /\ (\A t \in Gets : epochOf[t] = 0)

\* A sender has its nonce from the end of get_nonce on, and the chain its transaction
\* from the end of send_raw_transaction at the latest.
SenderOK ==
  \A t \in Gets :
    /\ stage[t] \in {"new", "nonce"} => pc[t] # "done"
    /\ stage[t] \in {"prepare", "send", "receipt", "done"} => result[t] # Unset
    /\ stage[t] \in {"new", "nonce", "prepare"} => onNode[t] = "none"
    /\ stage[t] \in {"receipt", "done"} => onNode[t] # "none"
    /\ onNode[t] # "none" => result[t] # Unset

\* The chain has executed the nonces below its count, and no other.
CountOK ==
  \A t \in Gets : result[t] # Unset =>
    (Mined(t) <=> result[t] < mined[KeyOf[t]])

\* The count that is fetched for an account whose nonces are not tracked yet.
AnswerOK == \A t \in Gets : pc[t] = "answered" => answer[t] = mined[KeyOf[t]]

\* Every nonce from the next one of the chain to the last one handed out is somebody's.
AllGranted ==
  \A k \in Keys : initialized[k] =>
    /\ mined[k] <= nonces[k] + 1
    /\ \A n \in mined[k]..nonces[k] : \E u \in Gets : KeyOf[u] = k /\ result[u] = n

\* What holds of the senders, and what holds of the chain given that.
Senders == TxTypeOK /\ GrantInv /\ OneEpoch /\ SenderOK /\ SuccessIsOnChain

Counts == CountOK /\ AnswerOK /\ AllGranted

TxInv == Senders /\ Counts

---------------------------------------------------------------------------
(* The nonce manager behind the senders *)

\* src/ resets no nonce: all tasks are transactions.
LEMMA AllGets == Tasks = Gets /\ \A t \in Gets : KeyOf[t] \in Keys
BY NoResets, KeyType DEF Tasks

LEMMA ManagerInit == TxInit => NMInit
BY DEF TxInit

LEMMA ManagerStep == [TxNext]_vars => [NMNext]_nmVars
<1> SUFFICES ASSUME TxNext PROVE NMNext \/ UNCHANGED nmVars
  BY DEF vars
<1>1. ASSUME NEW t \in Gets, Progress(t) PROVE NMNext \/ UNCHANGED nmVars
  <2>1. CASE AcquireNonce(t)
    BY <2>1, AllGets DEF AcquireNonce, NMNext, TaskStep
  <2>2. CASE Begin(t)
    BY <2>2, AllGets DEF Begin, NMNext, TaskStep
  <2>3. CASE ~AcquireNonce(t) /\ ~Begin(t)
    BY <1>1, <2>3
       DEF Progress, Refuse, Prepare, SendReturns, SendTimesOut, SendRejected,
           ReceiptArrives, Fail
  <2> QED BY <2>1, <2>2, <2>3
<1>2. ASSUME NEW t \in Gets, Mine(t) PROVE UNCHANGED nmVars
  BY <1>2 DEF Mine
<1>3. ASSUME UNCHANGED vars PROVE UNCHANGED nmVars
  BY <1>3 DEF vars
<1> QED BY <1>1, <1>2, <1>3 DEF TxNext

\* The senders are callers of the nonce manager as it is specified on its own: what is
\* proved about it holds for the pipeline.
THEOREM PipelineUsesManager == TxSpec => NMSpec
BY ManagerInit, ManagerStep, PTL DEF TxSpec, NMSpec

\* No two transactions of an account are given one nonce, whatever fails, is cancelled
\* or times out.
THEOREM NoReuseInPipeline == TxSpec => []NoReuse
BY PipelineUsesManager, NonceNeverReused, PTL

---------------------------------------------------------------------------
(* Types *)

LEMMA TxTypeInit == TxInit => TxTypeOK
BY TypeInit DEF TxInit, TxTypeOK, Stage, OnNode

LEMMA TriesType ==
  ASSUME NEW n \in Nat PROVE (n \div Attempts + 1) * Attempts \in Nat /\ n + 1 \in Nat
<1>1. n \div Attempts \in Nat
  BY SendAssumption
<1>2. PICK q \in Nat : q = n \div Attempts + 1
  BY <1>1
<1>3. q * Attempts \in Nat
  BY <1>2, SendAssumption
<1> QED BY <1>2, <1>3

LEMMA TxTypeStep == TxTypeOK /\ [TxNext]_vars => TxTypeOK'
<1> SUFFICES ASSUME TxTypeOK, [TxNext]_vars PROVE TxTypeOK'
  OBVIOUS
<1> USE AllGets DEF Stage, OnNode, Enter
<1> DEFINE Rest == /\ stage \in [Gets -> Stage] /\ tries \in [Gets -> Nat]
                   /\ onNode \in [Gets -> OnNode] /\ mined \in [Keys -> Nat]
<1>0. Rest /\ NMTypeOK'
  BY ManagerStep, TypeStep DEF TxTypeOK
<1>1. ASSUME NEW t \in Gets, Refuse(t) \/ Begin(t) \/ Prepare(t) \/ Fail(t) PROVE Rest'
  BY <1>0, <1>1 DEF Refuse, Begin, Prepare, Fail, chainVars
<1>2. ASSUME NEW t \in Gets, AcquireNonce(t) PROVE Rest'
  <2>1. PICK s \in Stage : stage' = [stage EXCEPT ![t] = s]
    BY <1>2 DEF AcquireNonce
  <2> QED BY <1>0, <1>2, <2>1 DEF AcquireNonce, chainVars
<1>3. ASSUME NEW t \in Gets, SendReturns(t) PROVE Rest'
  BY <1>0, <1>3 DEF SendReturns, Receive, Sent
<1>4. ASSUME NEW t \in Gets, SendTimesOut(t) \/ SendRejected(t) PROVE Rest'
  <2>1. tries' \in [Gets -> Nat]
    <3>1. PICK i \in Nat : tries' = [tries EXCEPT ![t] = i]
      BY <1>0, <1>4, TriesType DEF SendTimesOut, SendRejected, TryNext
    <3> QED BY <1>0, <3>1
  <2>2. stage' \in [Gets -> Stage]
    BY <1>0, <1>4 DEF SendTimesOut, SendRejected, TryNext
  <2>3. onNode' \in [Gets -> OnNode] /\ UNCHANGED mined
    BY <1>0, <1>4 DEF SendTimesOut, SendRejected, Receive, chainVars
  <2> QED BY <1>0, <2>1, <2>2, <2>3
<1>5. ASSUME NEW t \in Gets, ReceiptArrives(t) PROVE Rest'
  BY <1>0, <1>5 DEF ReceiptArrives, chainVars
<1>6. ASSUME NEW t \in Gets, Mine(t) PROVE Rest'
  BY <1>0, <1>6 DEF Mine
<1>7. ASSUME UNCHANGED vars PROVE Rest'
  BY <1>0, <1>7 DEF vars, txVars
<1> QED
  BY <1>0, <1>1, <1>2, <1>3, <1>4, <1>5, <1>6, <1>7 DEF TxNext, Progress, TxTypeOK

\* Every variable keeps its type: a nonce stays a number whatever fails.
THEOREM PipelineTypeCorrect == TxSpec => []TxTypeOK
BY TxTypeInit, TxTypeStep, PTL DEF TxSpec

---------------------------------------------------------------------------
(* The senders *)

LEMMA SendersInit == TxInit => Senders
BY TxTypeInit, GrantInit, AllGets
   DEF TxInit, Senders, NMInit, OneEpoch, SenderOK, SuccessIsOnChain

\* A step that takes no nonce keeps what the chain and the callers of get_nonce have, and
\* moves one sender.
LEMMA SenderMoves ==
  ASSUME TxTypeOK, SenderOK, SuccessIsOnChain, NEW t \in Gets, NEW s \in Stage,
         stage' = [stage EXCEPT ![t] = s],
         \A u \in Gets : /\ u # t => onNode'[u] = onNode[u] /\ pc'[u] = pc[u]
                         /\ result'[u] = result[u],
         onNode'[t] # "none" => result[t] # Unset,
         s \in {"new", "nonce"} => pc'[t] # "done",
         s \in {"prepare", "send", "receipt", "done"} => result[t] # Unset,
         s \in {"new", "nonce", "prepare"} => onNode'[t] = "none",
         s \in {"receipt", "done"} => onNode'[t] # "none",
         s = "done" => /\ Mode[t] = "wait" => onNode'[t] = "executed"
                       /\ Mode[t] = "unchecked" => onNode'[t] \in {"executed", "reverted"}
  PROVE  SenderOK' /\ SuccessIsOnChain'
<1>1. \A u \in Gets : stage'[u] = IF u = t THEN s ELSE stage[u]
  BY DEF TxTypeOK
<1>2. SenderOK'
  BY <1>1 DEF SenderOK
<1>3. SuccessIsOnChain'
  BY <1>1 DEF SuccessIsOnChain, Mined
<1> QED BY <1>2, <1>3

LEMMA SendersStep == Senders /\ [TxNext]_vars => Senders'
<1> SUFFICES ASSUME Senders, [TxNext]_vars PROVE OneEpoch' /\ SenderOK' /\ SuccessIsOnChain'
  BY TxTypeStep, ManagerStep, GrantStep DEF Senders
<1> USE AllGets DEF Enter, Stage
<1> DEFINE Rest == SenderOK /\ SuccessIsOnChain
<1>0. /\ TxTypeOK /\ NMTypeOK /\ OneEpoch /\ SenderOK /\ SuccessIsOnChain
      /\ NotYetAnswered /\ Unset \notin Nat
  BY NonceAssumption DEF Senders, GrantInv, LockInv
<1>1. ASSUME NEW t \in Gets, Refuse(t) PROVE Rest'
  BY <1>0, <1>1, SenderMoves DEF Refuse, nmVars, chainVars, SenderOK, Modes
<1>2. ASSUME NEW t \in Gets, Begin(t) PROVE Rest'
  <2>1. /\ \A u \in Gets : u # t => pc'[u] = pc[u]
        /\ pc'[t] = "locking" /\ UNCHANGED <<result, onNode>>
        /\ stage[t] = "new" /\ stage' = [stage EXCEPT ![t] = "nonce"]
    BY <1>0, <1>2 DEF Begin, Call, chainVars, NMTypeOK
  <2> QED BY <1>0, <2>1, SenderMoves DEF SenderOK
<1>3. ASSUME NEW t \in Gets, AcquireNonce(t) PROVE Rest'
  <2>1. /\ stage[t] = "nonce" /\ onNode[t] = "none" /\ result[t] = Unset /\ UNCHANGED onNode
        /\ \A u \in Gets : u # t => pc'[u] = pc[u] /\ result'[u] = result[u]
    BY <1>0, <1>3 DEF AcquireNonce, chainVars, SenderOK, NotYetAnswered, GetTracked,
                      StartFetch, NodeAnswers, FetchReturns, Abort, Return, NMTypeOK
  <2>2. \/ pc'[t] \in {"fetching", "answered", "failed"}
        \/ pc'[t] = "done" /\ result'[t] # Unset
    BY <1>0, <1>3 DEF AcquireNonce, GetTracked, StartFetch, NodeAnswers, FetchReturns, Abort,
                      Return, NMTypeOK
  <2>3. PICK s \in {"prepare", "failed", "nonce"} :
          /\ stage' = [stage EXCEPT ![t] = s]
          /\ s = "prepare" <=> pc'[t] = "done"
    BY <1>3 DEF AcquireNonce
  <2>4. \A u \in Gets : stage'[u] = IF u = t THEN s ELSE stage[u]
    BY <1>0, <2>3 DEF TxTypeOK
  <2>5. SenderOK'
    BY <1>0, <2>1, <2>2, <2>3, <2>4 DEF SenderOK
  <2>6. SuccessIsOnChain'
    BY <1>0, <2>1, <2>3, <2>4 DEF SuccessIsOnChain, Mined
  <2> QED BY <2>5, <2>6
<1>4. ASSUME NEW t \in Gets, Prepare(t) PROVE Rest'
  BY <1>0, <1>4, SenderMoves DEF Prepare, nmVars, chainVars, SenderOK
<1>5. ASSUME NEW t \in Gets, SendReturns(t) PROVE Rest'
  <2>1. /\ stage[t] = "send" /\ UNCHANGED <<pc, result>>
        /\ \A u \in Gets : u # t => onNode'[u] = onNode[u]
        /\ onNode'[t] = "pool"
    BY <1>0, <1>5 DEF SendReturns, Receive, nmVars, TxTypeOK
  <2>2. PICK s \in {"done", "receipt"} :
          stage' = [stage EXCEPT ![t] = s] /\ (s = "done" => Mode[t] = "nowait")
    BY <1>5 DEF SendReturns, Sent
  <2> QED BY <1>0, <2>1, <2>2, SenderMoves DEF SenderOK
<1>6. ASSUME NEW t \in Gets, SendTimesOut(t) \/ SendRejected(t) PROVE Rest'
  <2>1. /\ stage[t] = "send" /\ UNCHANGED <<pc, result>>
        /\ \A u \in Gets : u # t => onNode'[u] = onNode[u]
    BY <1>0, <1>6 DEF SendTimesOut, SendRejected, Receive, nmVars, chainVars, TxTypeOK
  <2>2. PICK s \in {"send", "failed"} : stage' = [stage EXCEPT ![t] = s]
    BY <1>0, <1>6, <2>1 DEF SendTimesOut, SendRejected, TryNext, TxTypeOK
  <2> QED BY <1>0, <2>1, <2>2, SenderMoves DEF SenderOK
<1>7. ASSUME NEW t \in Gets, ReceiptArrives(t) PROVE Rest'
  <2>1. /\ stage[t] = "receipt" /\ UNCHANGED <<pc, result, onNode>>
        /\ onNode[t] \in {"executed", "reverted"}
    BY <1>7 DEF ReceiptArrives, nmVars, chainVars, Mined
  <2>2. PICK s \in {"done", "failed"} :
          /\ stage' = [stage EXCEPT ![t] = s]
          /\ s = "done" /\ Mode[t] = "wait" => onNode[t] = "executed"
    BY <1>7, <2>1 DEF ReceiptArrives
  <2> QED BY <1>0, <2>1, <2>2, SenderMoves DEF SenderOK
<1>8. ASSUME NEW t \in Gets, Fail(t) PROVE Rest'
  BY <1>0, <1>8, SenderMoves DEF Fail, nmVars, chainVars, SenderOK
<1>9. ASSUME NEW t \in Gets, Mine(t) PROVE Rest'
  <2>1. /\ onNode[t] = "pool" /\ UNCHANGED <<pc, result, stage>>
        /\ \A u \in Gets : u # t => onNode'[u] = onNode[u]
        /\ onNode'[t] \in {"executed", "reverted"}
    BY <1>0, <1>9 DEF Mine, Executable, nmVars, TxTypeOK
  <2>2. SenderOK'
    BY <1>0, <2>1 DEF SenderOK
  <2>3. SuccessIsOnChain'
    BY <1>0, <2>1 DEF SuccessIsOnChain, Mined
  <2> QED BY <2>2, <2>3
<1>10. ASSUME UNCHANGED vars PROVE Rest'
  BY <1>0, <1>10 DEF vars, nmVars, txVars, SenderOK, SuccessIsOnChain, Mined
<1>11. OneEpoch'
  <2>1. ASSUME NEW t \in Gets, AcquireNonce(t) PROVE OneEpoch'
    BY <1>0, <2>1 DEF AcquireNonce, OneEpoch, GetTracked, StartFetch, NodeAnswers, FetchReturns,
                      Abort, Return, NMTypeOK
  <2>2. ASSUME NEW t \in Gets, Progress(t), ~AcquireNonce(t) PROVE UNCHANGED <<epoch, epochOf>>
    BY <2>2 DEF Progress, Refuse, Begin, Call, Prepare, SendReturns, SendTimesOut,
                SendRejected, ReceiptArrives, Fail, nmVars
  <2>3. ASSUME NEW t \in Gets, Mine(t) PROVE UNCHANGED <<epoch, epochOf>>
    BY <2>3 DEF Mine, nmVars
  <2>4. ASSUME UNCHANGED vars PROVE UNCHANGED <<epoch, epochOf>>
    BY <2>4 DEF vars, nmVars
  <2>5. OneEpoch' \/ UNCHANGED <<epoch, epochOf>>
    BY <2>1, <2>2, <2>3, <2>4 DEF TxNext
  <2> QED BY <1>0, <2>5 DEF OneEpoch
<1> QED
  BY <1>1, <1>2, <1>3, <1>4, <1>5, <1>6, <1>7, <1>8, <1>9, <1>10, <1>11 DEF TxNext, Progress

\* A sender that reports success has its transaction on the chain, executed if it asked
\* for the receipt.
THEOREM SuccessIsOnChainCorrect == TxSpec => []SuccessIsOnChain
<1>1. Senders => SuccessIsOnChain
  BY DEF Senders
<1> QED BY <1>1, SendersInit, SendersStep, PTL DEF TxSpec

---------------------------------------------------------------------------
(* The chain *)

LEMMA CountsInit == TxInit => Counts
BY AllGets DEF TxInit, NMInit, Counts, CountOK, AnswerOK, AllGranted

\* Two transactions of an account have two nonces, and its nonces are tracked.
LEMMA Distinct ==
  ASSUME Senders, NEW t \in Gets, NEW u \in Gets, result[t] # Unset, result[u] # Unset,
         KeyOf[t] = KeyOf[u]
  PROVE  /\ result[t] = result[u] => t = u
         /\ initialized[KeyOf[t]] /\ result[t] <= nonces[KeyOf[t]]
BY AllGets DEF Senders, GrantInv, NoReuse, SameEpoch, OneEpoch, Tracked

\* A step of the senders or of the chain that hands out no nonce and executes nothing.
LEMMA CountsUndisturbed ==
  ASSUME Counts,
         \A t \in Gets : pc'[t] = "answered" => pc[t] = "answered" /\ answer'[t] = answer[t],
         \A t \in Gets : Mined(t)' <=> Mined(t),
         UNCHANGED <<nonces, initialized, result, mined>>
  PROVE  Counts'
BY DEF Counts, CountOK, AnswerOK, AllGranted

\* The pool holds no transaction of an account none of whose nonces are tracked, so its
\* pending count is the number of its executed transactions.
LEMMA FirstCount ==
  ASSUME Senders, NEW k \in Keys, ~initialized[k], NEW n \in Nat, PendingCount(k, n)
  PROVE  n = mined[k]
<1>1. ASSUME NEW m PROVE ~InPool(k, m)
  BY AllGets DEF InPool, Senders, SenderOK, OneEpoch, GrantInv, Tracked
<1>2. n >= mined[k] /\ \A m \in mined[k]..(n - 1) : InPool(k, m)
  BY DEF PendingCount
<1>3. mined[k] \in Nat
  BY DEF Senders, TxTypeOK
<1>4. ~ (mined[k] \in mined[k]..(n - 1))
  BY <1>1, <1>2
<1> QED BY <1>2, <1>3, <1>4

LEMMA CountsStep == TxInv /\ [TxNext]_vars => Counts'
<1> SUFFICES ASSUME Senders, Counts, [TxNext]_vars PROVE Counts'
  BY DEF TxInv
<1> USE AllGets
<1>0. /\ TxTypeOK /\ NMTypeOK /\ OneEpoch /\ SenderOK /\ CountOK /\ AnswerOK /\ AllGranted
      /\ FetchesFirst /\ NotYetAnswered /\ Unset \notin Nat
  BY NonceAssumption DEF Senders, GrantInv, LockInv, Counts
<1>1. ASSUME NEW t \in Gets, Begin(t) PROVE Counts'
  BY <1>0, <1>1, CountsUndisturbed DEF Begin, Call, chainVars, NMTypeOK, Mined
<1>2. ASSUME NEW t \in Gets, GetTracked(t), UNCHANGED chainVars PROVE Counts'
  <2>1. PICK k \in Keys : k = KeyOf[t]
    OBVIOUS
  <2>2. PICK n \in Nat : n = nonces[k] + 1
    BY <1>0 DEF NMTypeOK
  <2>3. /\ initialized[k] /\ result[t] = Unset /\ onNode[t] = "none"
        /\ \A j \in Keys : nonces'[j] = IF j = k THEN n ELSE nonces[j]
        /\ \A u \in Gets : result'[u] = IF u = t THEN n ELSE result[u]
        /\ \A u \in Gets : pc'[u] = IF u = t THEN "done" ELSE pc[u]
        /\ UNCHANGED <<initialized, answer, onNode, mined>>
    BY <1>0, <1>2, <2>1, <2>2
       DEF GetTracked, Return, NotYetAnswered, SenderOK, NMTypeOK, chainVars
  <2>4. mined[k] \in Nat /\ nonces[k] \in Nat /\ mined[k] <= n
    BY <1>0, <2>2, <2>3 DEF AllGranted, TxTypeOK, NMTypeOK
  <2>5. CountOK'
    BY <1>0, <2>1, <2>3, <2>4 DEF CountOK, Mined, TxTypeOK
  <2>6. AnswerOK'
    BY <1>0, <2>3 DEF AnswerOK
  <2>7. AllGranted'
    <3> SUFFICES ASSUME NEW j \in Keys, initialized[j]
                 PROVE  /\ mined[j] <= nonces'[j] + 1
                        /\ \A m \in mined[j]..(nonces'[j]) :
                             \E u \in Gets : KeyOf[u] = j /\ result'[u] = m
      BY <2>3 DEF AllGranted
    <3>1. CASE j # k
      BY <1>0, <2>1, <2>3, <3>1 DEF AllGranted
    <3>2. CASE j = k
      <4>1. ASSUME NEW m \in mined[k]..nonces[k]
            PROVE  \E u \in Gets : KeyOf[u] = k /\ result'[u] = m
        <5>1. PICK u \in Gets : KeyOf[u] = k /\ result[u] = m
          BY <1>0, <2>3 DEF AllGranted
        <5>2. u # t
          BY <1>0, <2>3, <2>4, <5>1
        <5> QED BY <2>3, <5>1, <5>2
      <4>2. KeyOf[t] = k /\ result'[t] = n
        BY <2>1, <2>3
      <4>3. ASSUME NEW m \in mined[k]..n PROVE m \in mined[k]..nonces[k] \/ m = n
        BY <2>2, <2>4
      <4> QED BY <2>3, <2>4, <3>2, <4>1, <4>2, <4>3
    <3> QED BY <3>1, <3>2
  <2> QED BY <2>5, <2>6, <2>7 DEF Counts
<1>3. ASSUME NEW t \in Gets, StartFetch(t), UNCHANGED chainVars PROVE Counts'
  BY <1>0, <1>3, CountsUndisturbed DEF StartFetch, chainVars, NMTypeOK, Mined
<1>4. ASSUME NEW t \in Gets, NEW n \in 0..MaxNonce, PendingCount(KeyOf[t], n),
             NodeAnswers(t, n), UNCHANGED chainVars
      PROVE  Counts'
  <2>1. ~initialized[KeyOf[t]]
    BY <1>0, <1>4 DEF NodeAnswers, FetchesFirst, Holding
  <2>2. n = mined[KeyOf[t]]
    BY <1>4, <2>1, FirstCount, NonceAssumption
  <2>3. /\ \A u \in Gets : u # t => pc'[u] = pc[u] /\ answer'[u] = answer[u]
        /\ answer'[t] = n /\ UNCHANGED <<nonces, initialized, result, onNode, mined>>
    BY <1>0, <1>4 DEF NodeAnswers, chainVars, NMTypeOK
  <2>4. AnswerOK'
    BY <1>0, <2>2, <2>3 DEF AnswerOK
  <2> QED BY <1>0, <2>3, <2>4 DEF Counts, CountOK, AllGranted, Mined
<1>5. ASSUME NEW t \in Gets, FetchReturns(t), UNCHANGED chainVars PROVE Counts'
  <2>1. PICK k \in Keys : k = KeyOf[t]
    OBVIOUS
  <2>2. PICK n \in Nat : n = answer[t]
    BY <1>0 DEF NMTypeOK
  <2>3. /\ ~initialized[k] /\ onNode[t] = "none" /\ n = mined[k]
        /\ \A j \in Keys : nonces'[j] = IF j = k THEN n ELSE nonces[j]
        /\ \A j \in Keys : initialized'[j] = IF j = k THEN TRUE ELSE initialized[j]
        /\ \A u \in Gets : result'[u] = IF u = t THEN n ELSE result[u]
        /\ \A u \in Gets : pc'[u] = IF u = t THEN "done" ELSE pc[u]
        /\ UNCHANGED <<answer, onNode, mined>>
    BY <1>0, <1>5, <2>1, <2>2
       DEF FetchReturns, Return, FetchesFirst, Holding, NotYetAnswered, SenderOK, AnswerOK,
           NMTypeOK, chainVars
  <2>4. CountOK'
    BY <1>0, <2>1, <2>3 DEF CountOK, Mined, TxTypeOK
  <2>5. AnswerOK'
    BY <1>0, <2>3 DEF AnswerOK
  <2>6. AllGranted'
    <3> SUFFICES ASSUME NEW j \in Keys, initialized'[j]
                 PROVE  /\ mined[j] <= nonces'[j] + 1
                        /\ \A m \in mined[j]..(nonces'[j]) :
                             \E u \in Gets : KeyOf[u] = j /\ result'[u] = m
      BY <2>3 DEF AllGranted
    <3>1. CASE j # k
      <4>1. initialized[j] /\ nonces'[j] = nonces[j]
        BY <2>3, <3>1
      <4>2. ASSUME NEW m \in mined[j]..nonces[j]
            PROVE  \E u \in Gets : KeyOf[u] = j /\ result'[u] = m
        <5>1. PICK u \in Gets : KeyOf[u] = j /\ result[u] = m
          BY <1>0, <4>1 DEF AllGranted
        <5> QED BY <2>1, <2>3, <3>1, <5>1
      <4> QED BY <1>0, <4>1, <4>2 DEF AllGranted
    <3>2. CASE j = k
      <4>1. \A m \in mined[k]..n : m = n
        BY <2>3
      <4>2. KeyOf[t] = k /\ result'[t] = n
        BY <2>1, <2>3
      <4> QED BY <2>3, <3>2, <4>1, <4>2
    <3> QED BY <3>1, <3>2
  <2> QED BY <2>4, <2>5, <2>6 DEF Counts
<1>6. ASSUME NEW t \in Gets, Abort(t), UNCHANGED chainVars PROVE Counts'
  BY <1>0, <1>6, CountsUndisturbed DEF Abort, chainVars, NMTypeOK, Mined
<1>7. ASSUME NEW t \in Gets, AcquireNonce(t) PROVE Counts'
  BY <1>2, <1>3, <1>4, <1>5, <1>6, <1>7 DEF AcquireNonce
<1>8. ASSUME NEW t \in Gets, Mine(t) PROVE Counts'
  <2>1. PICK k \in Keys : k = KeyOf[t]
    OBVIOUS
  <2>2. /\ onNode[t] = "pool" /\ result[t] # Unset /\ result[t] = mined[k]
        /\ \A u \in Gets : u # t => onNode'[u] = onNode[u]
        /\ onNode'[t] \in {"executed", "reverted"}
        /\ \A j \in Keys : mined'[j] = IF j = k THEN mined[k] + 1 ELSE mined[j]
        /\ UNCHANGED <<nonces, initialized, pc, answer, result>>
    BY <1>0, <1>8, <2>1 DEF Mine, Executable, SenderOK, TxTypeOK, nmVars
  <2>3. initialized[k] /\ mined[k] <= nonces[k] /\ mined[k] \in Nat /\ nonces[k] \in Nat
    BY <1>0, <2>1, <2>2, Distinct DEF TxTypeOK, NMTypeOK
  <2>4. CountOK'
    <3> SUFFICES ASSUME NEW u \in Gets, result[u] # Unset
                 PROVE  Mined(u)' <=> result[u] < mined'[KeyOf[u]]
      BY <2>2 DEF CountOK, Mined
    <3>1. result[u] \in Nat
      BY <1>0 DEF NMTypeOK
    <3>2. CASE u = t
      BY <2>1, <2>2, <2>3, <3>1, <3>2 DEF Mined
    <3>3. CASE u # t /\ KeyOf[u] = k
      <4>1. result[u] # mined[k]
        BY <2>1, <2>2, <3>3, Distinct
      <4>2. Mined(u)' <=> Mined(u)
        BY <2>2, <3>3 DEF Mined
      <4>3. Mined(u) <=> result[u] < mined[k]
        BY <1>0, <3>3 DEF CountOK
      <4> QED BY <2>2, <2>3, <3>1, <3>3, <4>1, <4>2, <4>3
    <3>4. CASE u # t /\ KeyOf[u] # k
      BY <1>0, <2>2, <3>4 DEF CountOK, Mined
    <3> QED BY <3>2, <3>3, <3>4
  <2>5. AnswerOK'
    <3> SUFFICES ASSUME NEW u \in Gets, pc[u] = "answered" PROVE answer[u] = mined'[KeyOf[u]]
      BY <2>2 DEF AnswerOK
    <3>1. ~initialized[KeyOf[u]]
      BY <1>0 DEF FetchesFirst, Holding
    <3>2. KeyOf[u] # k
      BY <2>3, <3>1
    <3> QED BY <1>0, <2>2, <3>2 DEF AnswerOK
  <2>6. AllGranted'
    <3> SUFFICES ASSUME NEW j \in Keys, initialized[j]
                 PROVE  /\ mined'[j] <= nonces[j] + 1
                        /\ \A m \in mined'[j]..nonces[j] :
                             \E u \in Gets : KeyOf[u] = j /\ result[u] = m
      BY <2>2 DEF AllGranted
    <3>1. mined'[j] <= nonces[j] + 1
      BY <1>0, <2>2, <2>3 DEF AllGranted
    <3>2. \A m \in mined'[j]..nonces[j] : m \in mined[j]..nonces[j]
      BY <1>0, <2>2, <2>3 DEF TxTypeOK, NMTypeOK
    <3> QED BY <1>0, <3>1, <3>2 DEF AllGranted
  <2> QED BY <2>4, <2>5, <2>6 DEF Counts
<1>9. ASSUME NEW t \in Gets,
             \/ Refuse(t) \/ Prepare(t) \/ SendRejected(t) \/ ReceiptArrives(t) \/ Fail(t)
      PROVE  Counts'
  BY <1>9, CountsUndisturbed
     DEF Refuse, Prepare, SendRejected, ReceiptArrives, Fail, nmVars, chainVars, Mined
<1>10. ASSUME NEW t \in Gets, SendReturns(t) \/ SendTimesOut(t) PROVE Counts'
  <2>1. UNCHANGED nmVars /\ UNCHANGED mined
    BY <1>10 DEF SendReturns, SendTimesOut
  <2>2. \A u \in Gets : Mined(u)' <=> Mined(u)
    BY <1>0, <1>10 DEF SendReturns, SendTimesOut, Receive, Acceptable, Mined, TxTypeOK
  <2> QED BY <2>1, <2>2, CountsUndisturbed DEF nmVars
<1>11. ASSUME UNCHANGED vars PROVE Counts'
  BY <1>11, CountsUndisturbed DEF vars, nmVars, txVars, Mined
<1> QED
  BY <1>1, <1>7, <1>8, <1>9, <1>10, <1>11 DEF TxNext, Progress

LEMMA TxInvariant == TxSpec => []TxInv
<1>1. TxInit => TxInv
  BY SendersInit, CountsInit DEF TxInv
<1>2. TxInv /\ [TxNext]_vars => TxInv'
  BY SendersStep, CountsStep DEF TxInv
<1> QED BY <1>1, <1>2, PTL DEF TxSpec

\* A transaction about to be sent for the first time never meets a used nonce, nor
\* another transaction with its nonce.
THEOREM NeverRejectedForNonceCorrect == TxSpec => []NeverRejectedForNonce
<1>1. TxInv => NeverRejectedForNonce
  <2> SUFFICES ASSUME TxInv, NEW t \in Gets, stage[t] \in {"prepare", "send"}, onNode[t] = "none"
               PROVE  result[t] >= mined[KeyOf[t]] /\ ~InPool(KeyOf[t], result[t])
    BY DEF NeverRejectedForNonce, Acceptable
  <2>1. result[t] # Unset
    BY DEF TxInv, Senders, SenderOK
  <2>2. result[t] \in Nat /\ mined[KeyOf[t]] \in Nat
    BY <2>1, AllGets DEF TxInv, Senders, TxTypeOK, NMTypeOK
  <2>3. ~ (result[t] < mined[KeyOf[t]])
    BY <2>1 DEF TxInv, Counts, CountOK, Mined
  <2>4. ASSUME NEW u \in Gets, KeyOf[u] = KeyOf[t], onNode[u] = "pool", result[u] = result[t]
        PROVE  FALSE
    BY <2>1, <2>4, Distinct DEF TxInv
  <2> QED BY <2>2, <2>3, <2>4 DEF InPool
<1> QED BY <1>1, TxInvariant, PTL

\* Every nonce missing below a transaction in the pool is that of a sender of the account
\* which is still on its way or has failed.
THEOREM HolesHaveOwnersCorrect == TxSpec => []HolesHaveOwners
<1>1. TxInv => HolesHaveOwners
  <2> SUFFICES ASSUME TxInv, NEW t \in Gets, onNode[t] = "pool",
                      NEW n \in 0..(result[t] - 1), MissingBelow(t, n)
               PROVE  \E u \in Gets : /\ KeyOf[u] = KeyOf[t] /\ result[u] = n
                                      /\ stage[u] \in {"prepare", "send", "failed"}
    BY DEF HolesHaveOwners
  <2>1. PICK k \in Keys : k = KeyOf[t]
    BY AllGets
  <2>2. result[t] # Unset
    BY DEF TxInv, Senders, SenderOK
  <2>3. /\ result[t] \in Nat /\ mined[k] \in Nat /\ nonces[k] \in Nat
        /\ initialized[k] /\ result[t] <= nonces[k]
    BY <2>1, <2>2, Distinct, AllGets DEF TxInv, Senders, TxTypeOK, NMTypeOK
  <2>4. n \in mined[k]..nonces[k] /\ ~InPool(k, n) /\ n >= mined[k] /\ n \in Nat
    BY <2>1, <2>3 DEF MissingBelow
  <2>5. PICK u \in Gets : KeyOf[u] = k /\ result[u] = n
    BY <2>3, <2>4 DEF TxInv, Counts, AllGranted
  <2>6. result[u] # Unset
    BY <2>4, <2>5, NonceAssumption
  <2>7. ~Mined(u)
    BY <2>3, <2>4, <2>5, <2>6 DEF TxInv, Counts, CountOK
  <2>8. onNode[u] # "pool"
    BY <2>4, <2>5 DEF InPool
  <2>9. onNode[u] = "none" /\ stage[u] \in Stage
    BY <2>7, <2>8 DEF Mined, TxInv, Senders, TxTypeOK, OnNode
  <2>10. pc[u] = "done"
    BY <2>6 DEF TxInv, Senders, GrantInv, LockInv, NotYetAnswered
  <2>11. stage[u] \notin {"new", "nonce", "receipt", "done"}
    BY <2>9, <2>10 DEF TxInv, Senders, SenderOK
  <2> QED BY <2>1, <2>5, <2>9, <2>11 DEF Stage
<1> QED BY <1>1, TxInvariant, PTL

(***************************************************************************)
(* Allowances                                                              *)
(*                                                                         *)
(* A call's transactions are kept in step with where it is: one of each    *)
(* kind at most, the one it is doing the last of them, and still with the  *)
(* call until it is sent.  So an approval adds its amount once, whatever   *)
(* fails; and a call that never overlapped with another one of its spender *)
(* is the only one whose transactions can change the allowance from the    *)
(* moment it reads it until its own is estimated.                          *)
(***************************************************************************)

---------------------------------------------------------------------------
(* The invariant *)

Txs == [op : Ops, what : {"approve", "main"}, state : TxStates]

Types ==
  /\ phase \in [Ops -> Phases] /\ doing \in [Ops -> {"approve", "main"}]
  /\ txs \in Seq(Txs)
  /\ allowance \in [Spenders -> Nat] /\ spent \in [Spenders -> Nat]
  /\ disturbed \subseteq Ops

\* The transaction o is doing is the last of its own, and o has not sent it while it builds it.
AtHand(o) ==
  \E i \in PlacesOf(o) :
    /\ txs[i].what = doing[o]
    /\ phase[o] # "receipt" => txs[i].state = "building"
    /\ \A j \in PlacesOf(o) : j <= i

\* The approval first and at most once, the main transaction after it and at most once.
InOrder(o) ==
  /\ phase[o] \in {"idle", "checking"} => PlacesOf(o) = {}
  /\ doing[o] = "approve" => \A i \in PlacesOf(o) : txs[i].what = "approve"
  /\ phase[o] = "ready" => \A i \in PlacesOf(o) : txs[i].what # doing[o]
  /\ phase[o] \in {"building", "built", "receipt"} => AtHand(o)
  /\ \A i, j \in PlacesOf(o) : txs[i].what = txs[j].what => i = j

Order == \A o \in Ops : InOrder(o)

\* A call that has not been disturbed has no rival while it is unsettled.
Alone == \A o \in Ops \ disturbed : Unsettled(o) => Rivals(o) = {}

\* What an undisturbed call has read or approved is there until it uses it.
Kept(o) ==
  /\ phase[o] \in {"ready", "building", "built"} /\ doing[o] = "main"
       /\ ~Has(o, "approve", "reverted") => Covered(o)
  /\ phase[o] = "receipt" /\ doing[o] = "approve" /\ Has(o, "approve", "executed") => Covered(o)

Sufficient == \A o \in Ops \ disturbed : Kept(o)

Bounded ==
  \A s \in Spenders :
    /\ IsFiniteSet(Granted(s))
    /\ spent[s] + allowance[s] <= Prior[s] + Cardinality(Granted(s))

AllowanceInv == Types /\ Order /\ Alone /\ Sufficient /\ Bounded

---------------------------------------------------------------------------
(* The account's transactions *)

\* Only the state of the i-th transaction changes, to s.
Marks(i, s) ==
  /\ txs' \in Seq(Txs) /\ DOMAIN txs' = DOMAIN txs
  /\ \A j \in DOMAIN txs :
       /\ txs'[j].op = txs[j].op /\ txs'[j].what = txs[j].what
       /\ txs'[j].state = IF j = i THEN s ELSE txs[j].state
  /\ \A p \in Ops : PlacesOf(p)' = PlacesOf(p)

LEMMA TxFields ==
  ASSUME Types, NEW i \in DOMAIN txs
  PROVE  /\ i \in Nat \ {0} /\ txs[i] \in Txs
         /\ txs[i].op \in Ops /\ txs[i].what \in {"approve", "main"} /\ txs[i].state \in TxStates
         /\ i \in PlacesOf(txs[i].op)
<1>1. i \in Nat \ {0} /\ txs[i] \in Txs
  BY DEF Types
<1> QED
  BY <1>1 DEF Txs, PlacesOf

LEMMA PutMarks ==
  ASSUME Types, NEW i \in DOMAIN txs, NEW s \in TxStates, Put(i, s)
  PROVE  Marks(i, s)
<1>1. txs' = [txs EXCEPT ![i] = [@ EXCEPT !.state = s]]
  BY DEF Put
<1>2. txs[i] \in Txs /\ [txs[i] EXCEPT !.state = s] \in Txs
  BY TxFields DEF Txs
<1>3. txs' \in Seq(Txs) /\ DOMAIN txs' = DOMAIN txs
  BY <1>1, <1>2 DEF Types
<1>4. \A j \in DOMAIN txs : txs'[j] = IF j = i THEN [txs[i] EXCEPT !.state = s] ELSE txs[j]
  BY <1>1 DEF Types
<1>5. \A j \in DOMAIN txs :
        /\ txs'[j].op = txs[j].op /\ txs'[j].what = txs[j].what
        /\ txs'[j].state = IF j = i THEN s ELSE txs[j].state
  BY <1>2, <1>4, TxFields DEF Txs
<1> QED
  BY <1>3, <1>5 DEF Marks, PlacesOf

\* What taking a nonce adds.
Adds(o) ==
  LET n == Len(txs) + 1 IN
  /\ txs' \in Seq(Txs) /\ DOMAIN txs' = DOMAIN txs \cup {n} /\ n \notin DOMAIN txs
  /\ \A j \in DOMAIN txs : txs'[j] = txs[j] /\ j < n
  /\ txs'[n].op = o /\ txs'[n].what = doing[o] /\ txs'[n].state = "building"
  /\ \A p \in Ops \ {o} : PlacesOf(p)' = PlacesOf(p)
  /\ PlacesOf(o)' = PlacesOf(o) \cup {n}

LEMMA NonceAdds ==
  ASSUME Types, NEW o \in Ops, TakeNonce(o)
  PROVE  Adds(o)
<1> DEFINE n == Len(txs) + 1
           t == [op |-> o, what |-> doing[o], state |-> "building"]
<1>1. txs' = Append(txs, t) /\ t \in Txs
  BY DEF TakeNonce, Types, Txs, TxStates
<1> HIDE DEF t
<1>2. /\ txs' \in Seq(Txs) /\ DOMAIN txs' = DOMAIN txs \cup {n} /\ n \notin DOMAIN txs
      /\ \A j \in DOMAIN txs : txs'[j] = txs[j] /\ j < n
      /\ txs'[n] = t
  BY <1>1 DEF Types
<1>3. t.op = o /\ t.what = doing[o] /\ t.state = "building"
  BY DEF t
<1>4. /\ \A p \in Ops \ {o} : PlacesOf(p)' = PlacesOf(p)
      /\ PlacesOf(o)' = PlacesOf(o) \cup {n}
  BY <1>2, <1>3 DEF PlacesOf
<1> QED
  BY <1>2, <1>3, <1>4 DEF Adds

\* The transaction under way is the one o is doing.
LEMMA PlaceIsAtHand ==
  ASSUME Types, Order, NEW o \in Ops, phase[o] \in {"building", "built", "receipt"}
  PROVE  /\ Place(o) \in PlacesOf(o) /\ Place(o) \in DOMAIN txs /\ txs[Place(o)].op = o
         /\ txs[Place(o)].what = doing[o]
         /\ phase[o] # "receipt" => txs[Place(o)].state = "building"
         /\ \A j \in PlacesOf(o) : j <= Place(o)
<1>1. PICK i \in PlacesOf(o) :
        /\ txs[i].what = doing[o]
        /\ phase[o] # "receipt" => txs[i].state = "building"
        /\ \A j \in PlacesOf(o) : j <= i
  BY DEF Order, InOrder, AtHand
<1>2. PlacesOf(o) \subseteq Nat
  BY TxFields DEF PlacesOf
<1>3. \A k \in PlacesOf(o) : (\A j \in PlacesOf(o) : j <= k) => k = i
  BY <1>1, <1>2
<1>4. Place(o) = i
  BY <1>1, <1>3 DEF Place
<1> QED
  BY <1>1, <1>4 DEF PlacesOf

---------------------------------------------------------------------------
(* The types *)

LEMMA InitTypes == AlInit => Types
BY OpsAssumption, PriorAssumption DEF AlInit, Types, Phases

LEMMA TypesStep ==
  ASSUME Types, Order, [AlNext]_alVars
  PROVE  Types'
<1>1. ASSUME NEW o \in Ops, Start(o) PROVE Types'
  <2>1. Rivals(o) \subseteq Ops
    BY DEF Rivals
  <2> QED BY <1>1, <2>1 DEF Start, Go, Types, Phases
<1>2. ASSUME NEW o \in Ops, AllowanceRead(o) PROVE Types'
  <2>1. \E q \in Phases : Go(o, q)
    BY <1>2 DEF AllowanceRead, Phases
  <2> QED BY <1>2, <2>1 DEF AllowanceRead, Go, Types
<1>3. ASSUME NEW o \in Ops, TakeNonce(o) PROVE Types'
  BY <1>3, NonceAdds DEF TakeNonce, Adds, Go, Types, Phases
<1>4. ASSUME NEW o \in Ops, Estimate(o) PROVE Types'
  BY <1>4 DEF Estimate, Go, Types, Phases
<1>5. ASSUME NEW o \in Ops, Broadcast(o) PROVE Types'
  BY <1>5, PlaceIsAtHand, PutMarks DEF Broadcast, Marks, Go, Types, Phases, TxStates
<1>6. ASSUME NEW o \in Ops, ReceiptComes(o) PROVE Types'
  BY <1>6 DEF ReceiptComes, Raise, Go, Types, Phases
<1>7. ASSUME NEW o \in Ops, CallFails(o) PROVE Types'
  <2>1. phase' \in [Ops -> Phases]
    BY <1>7 DEF CallFails, Raise, Go, Types, Phases
  <2>2. txs' \in Seq(Txs)
    <3>1. CASE phase[o] \in {"building", "built"}
      BY <1>7, <3>1, PlaceIsAtHand, PutMarks DEF CallFails, Marks, TxStates
    <3>2. CASE phase[o] \notin {"building", "built"}
      BY <1>7, <3>2 DEF CallFails, Types
    <3> QED BY <3>1, <3>2
  <2> QED BY <1>7, <2>1, <2>2 DEF CallFails, Types
<1>8. ASSUME NEW o \in Ops, Revoke(o) PROVE Types'
  BY <1>8 DEF Revoke, Go, Types, Phases
<1>9. ASSUME NEW i \in DOMAIN txs, Execute(i) PROVE Types'
  <2>1. txs[i].op \in Ops /\ SpenderOf[txs[i].op] \in Spenders /\ Amount[txs[i].op] \in Nat
    BY OpsAssumption, TxFields
  <2>2. txs' \in Seq(Txs)
    BY <1>9, PutMarks DEF Execute, Marks, TxStates
  <2>3. allowance' \in [Spenders -> Nat] /\ spent' \in [Spenders -> Nat]
    <3> DEFINE o == txs[i].op
               s == SpenderOf[txs[i].op]
    <3>1. CASE allowance' = [allowance EXCEPT ![s] = Amount[o]] /\ UNCHANGED spent
      BY <2>1, <3>1 DEF Types
    <3>2. CASE /\ Covered(o)
               /\ allowance' = [allowance EXCEPT ![s] = @ - Amount[o]]
               /\ spent' = [spent EXCEPT ![s] = @ + Amount[o]]
      <4>1. allowance[s] \in Nat /\ spent[s] \in Nat
        BY <2>1 DEF Types
      <4>2. allowance[s] - Amount[o] \in Nat /\ spent[s] + Amount[o] \in Nat
        BY <2>1, <3>2, <4>1 DEF Covered
      <4> QED BY <2>1, <3>2, <4>2 DEF Types
    <3> QED BY <1>9, <3>1, <3>2 DEF Execute
  <2> QED BY <1>9, <2>2, <2>3 DEF Execute, Types
<1>10. ASSUME NEW i \in DOMAIN txs, Revert(i) PROVE Types'
  BY <1>10, PutMarks DEF Revert, Marks, TxStates, Types
<1>11. CASE UNCHANGED alVars
  BY <1>11 DEF alVars, Types
<1> QED
  BY <1>1, <1>2, <1>3, <1>4, <1>5, <1>6, <1>7, <1>8, <1>9, <1>10, <1>11 DEF AlNext, CallStep
---------------------------------------------------------------------------
(* What a step leaves alone *)

\* Where p is and what has become of its transactions.
Same(p) ==
  /\ phase'[p] = phase[p] /\ doing'[p] = doing[p]
  /\ PlacesOf(p)' = PlacesOf(p)
  /\ \A j \in PlacesOf(p) : txs'[j].what = txs[j].what /\ txs'[j].state = txs[j].state

\* A call sends, or gives up, no transaction but its own.
LEMMA OwnPlaceOnly ==
  ASSUME Types, Order, NEW o \in Ops, phase[o] \in {"building", "built"},
         NEW s \in TxStates, Put(Place(o), s)
  PROVE  /\ Marks(Place(o), s)
         /\ \A p \in Ops \ {o} : \A j \in PlacesOf(p) :
              txs'[j].what = txs[j].what /\ txs'[j].state = txs[j].state
<1>1. Marks(Place(o), s) /\ txs[Place(o)].op = o
  BY PlaceIsAtHand, PutMarks
<1> QED
  BY <1>1 DEF Marks, PlacesOf

LEMMA OthersSame ==
  ASSUME Types, Order, NEW o \in Ops, CallStep(o), NEW p \in Ops \ {o}
  PROVE  Same(p)
<1>1. phase'[p] = phase[p]
  BY DEF CallStep, Start, AllowanceRead, TakeNonce, Estimate, Broadcast, ReceiptComes, CallFails,
         Revoke, Raise, Go, Types
<1>2. doing'[p] = doing[p]
  BY DEF CallStep, Start, AllowanceRead, TakeNonce, Estimate, Broadcast, ReceiptComes, CallFails,
         Revoke, Types
<1>3. CASE UNCHANGED txs
  BY <1>1, <1>2, <1>3 DEF Same, PlacesOf
<1>4. CASE TakeNonce(o)
  BY <1>1, <1>2, <1>4, NonceAdds DEF Same, Adds, PlacesOf
<1>5. CASE phase[o] \in {"building", "built"} /\ \E s \in TxStates : Put(Place(o), s)
  BY <1>1, <1>2, <1>5, OwnPlaceOnly DEF Same, Marks
<1> QED
  BY <1>3, <1>4, <1>5
  DEF CallStep, Start, AllowanceRead, Estimate, Broadcast, ReceiptComes, CallFails, Revoke, TxStates

\* The chain moves no call, and changes no transaction but the one it takes from the pool.
LEMMA ChainMarks ==
  ASSUME Types, NEW i \in DOMAIN txs, Execute(i) \/ Revert(i)
  PROVE  /\ txs[i].state = "pool"
         /\ Execute(i) => Marks(i, "executed")
         /\ Revert(i) => Marks(i, "reverted")
         /\ UNCHANGED <<phase, doing, disturbed>>
         /\ \A p \in Ops : PlacesOf(p)' = PlacesOf(p)
BY PutMarks DEF Execute, Revert, NextInLine, Marks, TxStates

---------------------------------------------------------------------------
(* The order of a call's transactions *)

LEMMA InitOrder == AlInit => Order
BY DEF AlInit, Order, InOrder, PlacesOf, AtHand

LEMMA SameInOrder ==
  ASSUME NEW p \in Ops, InOrder(p), Same(p)
  PROVE  InOrder(p)'
<1>1. AtHand(p) => AtHand(p)'
  BY DEF AtHand, Same
<1> QED
  BY <1>1 DEF InOrder, Same

\* A step of a call that leaves its transactions alone.
LEMMA OrderAlongside ==
  ASSUME NEW o \in Ops, InOrder(o), UNCHANGED txs,
         phase'[o] \in {"idle", "checking"} => PlacesOf(o) = {},
         doing'[o] = "approve" => \A i \in PlacesOf(o) : txs[i].what = "approve",
         phase'[o] = "ready" => \A i \in PlacesOf(o) : txs[i].what # doing'[o],
         phase'[o] \in {"building", "built", "receipt"} =>
           /\ doing'[o] = doing[o] /\ phase[o] \in {"building", "built", "receipt"}
           /\ phase[o] = "receipt" => phase'[o] = "receipt"
  PROVE  InOrder(o)'
<1>1. PlacesOf(o)' = PlacesOf(o)
  BY DEF PlacesOf
<1>2. phase'[o] \in {"building", "built", "receipt"} => AtHand(o)'
  BY <1>1 DEF InOrder, AtHand
<1> QED
  BY <1>1, <1>2 DEF InOrder

LEMMA OwnOrder ==
  ASSUME Types, Order, NEW o \in Ops, CallStep(o)
  PROVE  InOrder(o)'
<1> USE DEF Go
<1>0. InOrder(o)
  BY DEF Order
<1>1. CASE Start(o)
  BY <1>0, <1>1, OrderAlongside DEF Start, Types, InOrder
<1>2. CASE AllowanceRead(o)
  <2>1. PlacesOf(o) = {} /\ UNCHANGED txs /\ phase'[o] \in {"failed", "done", "ready"}
    BY <1>0, <1>2 DEF AllowanceRead, Types, InOrder
  <2> QED BY <1>0, <2>1, OrderAlongside
<1>3. CASE TakeNonce(o)
  <2>1. Adds(o) /\ phase'[o] = "building" /\ doing' = doing
    BY <1>3, NonceAdds DEF TakeNonce, Types
  <2> DEFINE n == Len(txs) + 1
  <2>2. /\ n \in PlacesOf(o)' /\ txs'[n].what = doing[o] /\ txs'[n].state = "building"
        /\ \A j \in PlacesOf(o)' : j = n \/ (j \in PlacesOf(o) /\ j < n /\ txs'[j] = txs[j])
    BY <2>1 DEF Adds, PlacesOf
  <2>3. \A j \in PlacesOf(o)' : j <= n
    <3>1. PlacesOf(o) \subseteq Nat /\ n \in Nat
      BY TxFields DEF PlacesOf, Types
    <3> QED BY <2>2, <3>1
  <2>4. \A j \in PlacesOf(o) : txs[j].what # doing[o]
    BY <1>0, <1>3 DEF TakeNonce, InOrder
  <2>5. AtHand(o)'
    BY <2>1, <2>2, <2>3 DEF AtHand
  <2>6. \A i, j \in PlacesOf(o)' : txs'[i].what = txs'[j].what => i = j
    BY <1>0, <2>2, <2>4 DEF InOrder
  <2>7. doing'[o] = "approve" => \A i \in PlacesOf(o)' : txs'[i].what = "approve"
    BY <1>0, <2>1, <2>2 DEF InOrder
  <2> QED BY <2>1, <2>5, <2>6, <2>7 DEF InOrder
<1>4. CASE Estimate(o)
  BY <1>0, <1>4, OrderAlongside DEF Estimate, Types, InOrder
<1>5. CASE phase[o] \in {"building", "built"} /\ \E s \in TxStates : Put(Place(o), s)
           /\ doing' = doing /\ phase'[o] \in {"receipt", "done", "failed", "revoking"}
  <2>1. PICK s \in TxStates : Marks(Place(o), s)
    BY <1>5, OwnPlaceOnly
  <2>2. /\ PlacesOf(o)' = PlacesOf(o)
        /\ \A j \in PlacesOf(o) : txs'[j].what = txs[j].what
    BY <2>1 DEF Marks, PlacesOf
  <2>3. AtHand(o) => (phase'[o] = "receipt" => AtHand(o)')
    BY <1>5, <2>2 DEF AtHand
  <2> QED BY <1>0, <1>5, <2>2, <2>3 DEF InOrder
<1>6. CASE ReceiptComes(o)
  <2>1. UNCHANGED txs /\ phase[o] = "receipt" /\ AtHand(o)
    BY <1>0, <1>6 DEF ReceiptComes, InOrder
  <2>2. CASE doing' = doing /\ phase'[o] \in {"done", "failed", "revoking"}
    BY <1>0, <2>1, <2>2, OrderAlongside DEF InOrder
  <2>3. CASE doing[o] = "approve" /\ doing'[o] = "main" /\ phase'[o] = "ready"
    <3>1. \A i \in PlacesOf(o) : txs[i].what # "main"
      BY <1>0, <2>3 DEF InOrder
    <3> QED BY <1>0, <2>1, <2>3, <3>1, OrderAlongside
  <2> QED BY <1>6, <2>2, <2>3 DEF ReceiptComes, Raise, Types
<1>7. CASE CallFails(o) /\ UNCHANGED txs
  BY <1>0, <1>7, OrderAlongside DEF CallFails, Raise, Types, InOrder
<1>8. CASE Revoke(o)
  BY <1>0, <1>8, OrderAlongside DEF Revoke, Types, InOrder
<1>9. CASE Broadcast(o)
  BY <1>5, <1>9 DEF Broadcast, Types, TxStates
<1>10. CASE CallFails(o) /\ ~UNCHANGED txs
  BY <1>5, <1>10 DEF CallFails, Raise, Types, TxStates
<1> QED
  BY <1>1, <1>2, <1>3, <1>4, <1>6, <1>7, <1>8, <1>9, <1>10 DEF CallStep

LEMMA OrderStep ==
  ASSUME Types, Order, [AlNext]_alVars
  PROVE  Order'
<1>1. ASSUME NEW o \in Ops, CallStep(o) PROVE Order'
  BY <1>1, OwnOrder, OthersSame, SameInOrder DEF Order
<1>2. ASSUME NEW i \in DOMAIN txs, Execute(i) \/ Revert(i) PROVE Order'
  <2> SUFFICES ASSUME NEW p \in Ops PROVE InOrder(p)'
    BY DEF Order
  <2>1. /\ txs[i].state = "pool" /\ \E s \in TxStates : Marks(i, s)
        /\ UNCHANGED <<phase, doing>> /\ PlacesOf(p)' = PlacesOf(p)
    BY <1>2, ChainMarks DEF TxStates
  <2>2. InOrder(p)
    BY DEF Order
  <2>3. AtHand(p) => AtHand(p)'
    BY <2>1 DEF AtHand, Marks, PlacesOf
  <2>4. \A j \in PlacesOf(p) : txs'[j].what = txs[j].what
    BY <2>1 DEF Marks, PlacesOf
  <2> QED BY <2>1, <2>2, <2>3, <2>4 DEF InOrder
<1>3. CASE UNCHANGED alVars
  BY <1>3, SameInOrder DEF Order, Same, alVars, PlacesOf
<1> QED
  BY <1>1, <1>2, <1>3 DEF AlNext

---------------------------------------------------------------------------
(* Undisturbed calls *)

LEMMA InitAlone == AlInit => Alone
BY DEF AlInit, Alone, Unsettled

\* Only its start makes a call unsettled.
LEMMA UnsettledStays ==
  ASSUME Types, Order, NEW p \in Ops,
         \/ \E o \in Ops : CallStep(o) /\ ~Start(o)
         \/ \E i \in DOMAIN txs : Execute(i) \/ Revert(i),
         Unsettled(p)'
  PROVE  Unsettled(p)
<1>1. ASSUME NEW o \in Ops, CallStep(o), ~Start(o), o # p PROVE Unsettled(p)
  BY <1>1, OthersSame DEF Same, Unsettled, Ended
<1>2. ASSUME CallStep(p), ~Start(p) PROVE Unsettled(p)
  BY <1>2 DEF CallStep, AllowanceRead, TakeNonce, Estimate, Broadcast, ReceiptComes, CallFails,
              Revoke,
              Unsettled, Ended
<1>3. ASSUME NEW i \in DOMAIN txs, Execute(i) \/ Revert(i) PROVE Unsettled(p)
  BY <1>3, ChainMarks DEF Marks, PlacesOf, Unsettled, Ended
<1> QED
  BY <1>1, <1>2, <1>3

LEMMA AloneStep ==
  ASSUME Types, Order, Alone, [AlNext]_alVars
  PROVE  Alone'
<1>1. ASSUME NEW o \in Ops, Start(o) PROVE Alone'
  <2>1. \A p \in Ops \ {o} : Unsettled(p)' => Unsettled(p)
    BY <1>1, OthersSame DEF CallStep, Same, Unsettled, Ended
  <2>2. disturbed' = IF Rivals(o) = {} THEN disturbed ELSE disturbed \cup Rivals(o) \cup {o}
    BY <1>1 DEF Start
  <2> SUFFICES ASSUME NEW p \in Ops \ disturbed', Unsettled(p)', NEW q \in Rivals(p)'
               PROVE  FALSE
    BY DEF Alone
  <2>3. q \in Ops \ {p} /\ SpenderOf[q] = SpenderOf[p] /\ Unsettled(q)'
    BY DEF Rivals
  <2>4. p \in Ops \ disturbed
    BY <2>2
  <2>5. CASE p = o
    BY <2>1, <2>2, <2>3, <2>5 DEF Rivals
  <2>6. CASE q = o
    BY <2>1, <2>2, <2>3, <2>6 DEF Rivals
  <2>7. CASE p # o /\ q # o
    BY <2>1, <2>3, <2>4, <2>7 DEF Alone, Rivals
  <2> QED BY <2>5, <2>6, <2>7
<1>2. ASSUME \/ \E o \in Ops : CallStep(o) /\ ~Start(o)
             \/ \E i \in DOMAIN txs : Execute(i) \/ Revert(i)
      PROVE  Alone'
  <2>1. \A p \in Ops : Unsettled(p)' => Unsettled(p)
    BY <1>2, UnsettledStays
  <2>2. disturbed' = disturbed
    BY <1>2 DEF CallStep, AllowanceRead, TakeNonce, Estimate, Broadcast, ReceiptComes, CallFails,
                Revoke, Execute, Revert
  <2> QED BY <2>1, <2>2 DEF Alone, Rivals
<1>3. CASE UNCHANGED alVars
  BY <1>3 DEF Alone, Rivals, Unsettled, Ended, PlacesOf, alVars
<1> QED
  BY <1>1, <1>2, <1>3 DEF AlNext

LEMMA InitSufficient == AlInit => Sufficient
BY DEF AlInit, Sufficient, Kept

LEMMA SameKept ==
  ASSUME NEW p \in Ops, Kept(p), Same(p), allowance' = allowance
  PROVE  Kept(p)'
BY DEF Kept, Same, Has, Covered

\* Its own steps take a call to its transaction only with the allowance read or approved.
LEMMA OwnKept ==
  ASSUME Types, Order, NEW o \in Ops, CallStep(o), Kept(o)
  PROVE  Kept(o)'
<1> USE DEF Go
<1>0. InOrder(o)
  BY DEF Order
<1>1. CASE Start(o)
  BY <1>1 DEF Start, Types, Kept
<1>2. CASE AllowanceRead(o)
  <2>1. /\ UNCHANGED <<txs, allowance>> /\ phase'[o] \in {"failed", "done", "ready"}
        /\ doing'[o] = "main" => ~(allowance[SpenderOf[o]] < Amount[o])
    BY <1>2 DEF AllowanceRead, Types
  <2>2. allowance[SpenderOf[o]] \in Nat /\ Amount[o] \in Nat
    BY OpsAssumption DEF Types
  <2> QED BY <2>1, <2>2 DEF Kept, Covered
<1>3. CASE TakeNonce(o)
  <2>1. Adds(o) /\ phase'[o] = "building" /\ doing' = doing /\ allowance' = allowance
        /\ phase[o] = "ready"
    BY <1>3, NonceAdds DEF TakeNonce, Types
  <2>2. doing[o] = "main" => (Has(o, "approve", "reverted") => Has(o, "approve", "reverted")')
    BY <2>1 DEF Adds, Has, PlacesOf
  <2> QED BY <2>1, <2>2 DEF Kept, Covered
<1>4. CASE Estimate(o)
  BY <1>4 DEF Estimate, Types, Kept, Has, PlacesOf, Covered
<1>5. CASE Broadcast(o)
  <2>1. Marks(Place(o), "pool") /\ Place(o) \in PlacesOf(o) /\ txs[Place(o)].what = doing[o]
    BY <1>5, PlaceIsAtHand, PutMarks DEF Broadcast, TxStates
  <2>2. doing[o] = "approve" => ~Has(o, "approve", "executed")'
    BY <1>0, <2>1 DEF Marks, Has, PlacesOf, InOrder
  <2>3. phase'[o] \in {"receipt", "done"} /\ doing' = doing
    BY <1>5 DEF Broadcast, Types
  <2> QED BY <2>2, <2>3 DEF Kept
<1>6. CASE ReceiptComes(o)
  <2>1. /\ UNCHANGED <<txs, allowance>> /\ phase[o] = "receipt"
        /\ txs[Place(o)].state \in {"executed", "reverted"}
        /\ phase'[o] = "ready" => doing[o] = "approve"
        /\ phase'[o] \in {"ready", "done", "failed", "revoking"}
    BY <1>6 DEF ReceiptComes, Raise, Types
  <2>2. doing[o] = "approve" => Has(o, "approve", "executed") \/ Has(o, "approve", "reverted")
    BY <2>1, PlaceIsAtHand DEF Has
  <2> QED BY <2>1, <2>2 DEF Kept, Has, PlacesOf, Covered
<1>7. CASE CallFails(o) \/ Revoke(o)
  BY <1>7 DEF CallFails, Revoke, Raise, Types, Kept
<1> QED
  BY <1>1, <1>2, <1>3, <1>4, <1>5, <1>6, <1>7 DEF CallStep

\* What the chain executes for an undisturbed call, or for another spender, leaves it covered.
LEMMA ExecuteKept ==
  ASSUME Types, Order, Alone, NEW i \in DOMAIN txs, Execute(i),
         NEW p \in Ops \ disturbed, Kept(p)
  PROVE  Kept(p)'
<1> DEFINE o == txs[i].op
<1>1. /\ txs[i].state = "pool" /\ Marks(i, "executed") /\ UNCHANGED <<phase, doing, disturbed>>
      /\ PlacesOf(p)' = PlacesOf(p) /\ o \in Ops /\ i \in PlacesOf(o)
  BY ChainMarks, TxFields
<1>2. Unsettled(o)
  BY <1>1 DEF Order, InOrder, Unsettled
<1>3. Has(p, "approve", "reverted") => Has(p, "approve", "reverted")'
  BY <1>1 DEF Has, Marks, PlacesOf
<1>4. CASE SpenderOf[o] # SpenderOf[p]
  <2>1. allowance'[SpenderOf[p]] = allowance[SpenderOf[p]]
    <3>1. SpenderOf[p] \in Spenders
      BY OpsAssumption
    <3> QED BY <1>4, <3>1 DEF Execute, Types
  <2>2. Has(p, "approve", "executed")' => Has(p, "approve", "executed")
    BY <1>1, <1>4 DEF Has, Marks, PlacesOf
  <2> QED BY <1>1, <1>3, <2>1, <2>2 DEF Kept, Covered
<1>5. CASE SpenderOf[o] = SpenderOf[p] /\ o # p
  \* p is settled: else o, unsettled, would be its rival
  <2>1. ~Unsettled(p)
    BY <1>1, <1>2, <1>5 DEF Alone, Rivals
  <2> QED BY <1>1, <2>1 DEF Unsettled, Ended, Kept
<1>6. CASE o = p /\ txs[i].what = "approve"
  <2>1. allowance'[SpenderOf[p]] = Amount[p] /\ Amount[p] \in Nat
    BY <1>6, OpsAssumption DEF Execute, Types
  <2> QED BY <2>1 DEF Kept, Covered
<1>7. CASE o = p /\ txs[i].what = "main"
  <2>1. ~(phase[p] \in {"ready", "building", "built"} /\ doing[p] = "main")
    BY <1>1, <1>7 DEF Order, InOrder, AtHand
  <2>2. doing[p] # "approve"
    BY <1>1, <1>7 DEF Order, InOrder
  <2> QED BY <1>1, <2>1, <2>2 DEF Kept
<1> QED
  BY <1>4, <1>5, <1>6, <1>7, TxFields

LEMMA SufficientStep ==
  ASSUME Types, Order, Alone, Sufficient, [AlNext]_alVars
  PROVE  Sufficient'
<1> SUFFICES ASSUME NEW p \in Ops \ disturbed' PROVE Kept(p)'
  BY DEF Sufficient
<1>1. disturbed \subseteq disturbed'
  BY DEF AlNext, CallStep, Start, AllowanceRead, TakeNonce, Estimate, Broadcast, ReceiptComes,
         CallFails, Revoke, Execute, Revert, alVars
<1>2. Kept(p) /\ p \in Ops \ disturbed
  BY <1>1 DEF Sufficient
<1>3. ASSUME NEW o \in Ops, CallStep(o) PROVE Kept(p)'
  <2>1. allowance' = allowance
    BY <1>3 DEF CallStep, Start, AllowanceRead, TakeNonce, Estimate, Broadcast, ReceiptComes,
                CallFails, Revoke
  <2> QED BY <1>2, <1>3, <2>1, OwnKept, OthersSame, SameKept
<1>4. ASSUME NEW i \in DOMAIN txs, Execute(i) PROVE Kept(p)'
  BY <1>2, <1>4, ExecuteKept
<1>5. ASSUME NEW i \in DOMAIN txs, Revert(i) PROVE Kept(p)'
  <2>1. /\ Marks(i, "reverted") /\ UNCHANGED <<phase, doing, allowance>>
        /\ PlacesOf(p)' = PlacesOf(p) /\ txs[i].state = "pool"
    BY <1>5, ChainMarks DEF Revert
  <2>2. /\ Has(p, "approve", "executed")' => Has(p, "approve", "executed")
        /\ Has(p, "approve", "reverted") => Has(p, "approve", "reverted")'
    BY <2>1 DEF Marks, Has, PlacesOf
  <2> QED BY <1>2, <2>1, <2>2 DEF Kept, Covered
<1>6. CASE UNCHANGED alVars
  BY <1>2, <1>6 DEF alVars, Kept, Has, PlacesOf, Covered
<1> QED
  BY <1>3, <1>4, <1>5, <1>6 DEF AlNext

---------------------------------------------------------------------------
(* The sum of the amounts approved *)

LEMMA InitBounded == AlInit => Bounded
<1> SUFFICES ASSUME AlInit, NEW s \in Spenders
             PROVE  /\ IsFiniteSet(Granted(s))
                    /\ spent[s] + allowance[s] <= Prior[s] + Cardinality(Granted(s))
  BY DEF Bounded
<1>1. Granters(s) = {}
  BY DEF AlInit, Granters, Has, PlacesOf
<1>2. Granted(s) = {}
  BY <1>1 DEF Granted
<1> QED
  BY <1>2, FS_EmptySet, PriorAssumption DEF AlInit

\* One more granter adds the base units of its amount.
LEMMA OneMoreGranter ==
  ASSUME NEW s \in Spenders, NEW o \in Ops, o \notin Granters(s),
         Granters(s)' = Granters(s) \cup {o}, IsFiniteSet(Granted(s))
  PROVE  /\ IsFiniteSet(Granted(s)')
         /\ Cardinality(Granted(s)') = Cardinality(Granted(s)) + Amount[o]
<1> DEFINE own == {o} \X (1..Amount[o])
<1>1. Amount[o] \in Nat \ {0}
  BY OpsAssumption
<1>2. IsFiniteSet(1..Amount[o]) /\ Cardinality(1..Amount[o]) = Amount[o]
  BY <1>1, FS_Interval
<1>3. IsFiniteSet({o}) /\ Cardinality({o}) = 1
  BY FS_Singleton
<1>4. IsFiniteSet(own) /\ Cardinality(own) = Amount[o]
  <2>1. IsFiniteSet(own) /\ Cardinality(own) = Cardinality({o}) * Cardinality(1..Amount[o])
    BY <1>2, <1>3, FS_Product
  <2> QED BY <1>1, <1>2, <1>3, <2>1
<1>5. Granted(s)' = Granted(s) \cup own
  BY DEF Granted
<1>6. Granted(s) \cap own = {}
  BY DEF Granted
<1>7. Cardinality(Granted(s) \cap own) = 0
  BY <1>6, FS_EmptySet
<1>8. Cardinality(Granted(s)) \in Nat
  BY FS_CardinalityType
<1> HIDE DEF own
<1>9. IsFiniteSet(Granted(s) \cup own)
      /\ Cardinality(Granted(s) \cup own) = Cardinality(Granted(s)) + Cardinality(own) - 0
  BY <1>4, <1>7, FS_Union
<1> QED
  BY <1>1, <1>4, <1>5, <1>8, <1>9

\* No step of a call executes an approval.
LEMMA CallsGrantNothing ==
  ASSUME Types, Order, NEW o \in Ops, CallStep(o), NEW p \in Ops
  PROVE  Has(p, "approve", "executed")' <=> Has(p, "approve", "executed")
<1>1. CASE p # o
  BY <1>1, OthersSame DEF Same, Has
<1>2. CASE p = o /\ UNCHANGED txs
  BY <1>2 DEF Has, PlacesOf
<1>3. CASE p = o /\ TakeNonce(o)
  BY <1>3, NonceAdds DEF Adds, Has, PlacesOf
<1>4. CASE p = o /\ phase[o] \in {"building", "built"}
           /\ \E s \in {"pool", "lost"} : Put(Place(o), s)
  <2>1. PICK s \in {"pool", "lost"} : Marks(Place(o), s)
    BY <1>4, OwnPlaceOnly DEF TxStates
  <2>2. txs[Place(o)].state = "building"
    BY <1>4, PlaceIsAtHand
  <2> QED BY <1>4, <2>1, <2>2 DEF Marks, Has, PlacesOf
<1> QED
  BY <1>1, <1>2, <1>3, <1>4
  DEF CallStep, Start, AllowanceRead, Estimate, Broadcast, ReceiptComes, CallFails, Revoke

LEMMA BoundedSame ==
  ASSUME Bounded, UNCHANGED <<allowance, spent>>,
         \A p \in Ops : Has(p, "approve", "executed")' <=> Has(p, "approve", "executed")
  PROVE  Bounded'
<1>1. \A s \in Spenders : Granters(s)' = Granters(s)
  BY DEF Granters
<1> QED
  BY <1>1 DEF Bounded, Granted

LEMMA BoundedStep ==
  ASSUME Types, Order, Bounded, [AlNext]_alVars
  PROVE  Bounded'
<1>1. ASSUME NEW o \in Ops, CallStep(o) PROVE Bounded'
  <2>1. UNCHANGED <<allowance, spent>>
    BY <1>1 DEF CallStep, Start, AllowanceRead, TakeNonce, Estimate, Broadcast, ReceiptComes,
                CallFails, Revoke
  <2> QED BY <1>1, <2>1, CallsGrantNothing, BoundedSame
<1>2. ASSUME NEW i \in DOMAIN txs, Revert(i) PROVE Bounded'
  <2>1. \A p \in Ops : Has(p, "approve", "executed")' <=> Has(p, "approve", "executed")
    BY <1>2, ChainMarks DEF Marks, Has, PlacesOf
  <2> QED BY <1>2, <2>1, BoundedSame DEF Revert
<1>3. ASSUME NEW i \in DOMAIN txs, Execute(i) PROVE Bounded'
  <2>0. PICK o \in Ops : txs[i].op = o
    BY TxFields
  <2> DEFINE s == SpenderOf[o]
  <2>1. /\ Marks(i, "executed") /\ txs[i].state = "pool" /\ i \in PlacesOf(o)
        /\ \A p \in Ops : PlacesOf(p)' = PlacesOf(p)
    BY <1>3, <2>0, ChainMarks, TxFields
  <2>2. s \in Spenders /\ Amount[o] \in Nat
    BY OpsAssumption
  <2>3. \A z \in Spenders : allowance[z] \in Nat /\ spent[z] \in Nat /\ Prior[z] \in Nat
    BY PriorAssumption DEF Types
  <2>4. \A z \in Spenders : Cardinality(Granted(z)) \in Nat
    BY FS_CardinalityType DEF Bounded
  <2>5. CASE txs[i].what = "main"
    <3>1. \A p \in Ops : Has(p, "approve", "executed")' <=> Has(p, "approve", "executed")
      BY <2>0, <2>1, <2>5 DEF Marks, Has, PlacesOf
    <3>2. \A z \in Spenders : Granted(z)' = Granted(z)
      BY <3>1 DEF Granters, Granted
    <3>3. /\ allowance' = [allowance EXCEPT ![s] = @ - Amount[o]]
          /\ spent' = [spent EXCEPT ![s] = @ + Amount[o]]
      BY <1>3, <2>0, <2>5 DEF Execute
    <3>4. \A z \in Spenders : spent'[z] + allowance'[z] = spent[z] + allowance[z]
      BY <2>2, <2>3, <3>3 DEF Types
    <3> QED BY <3>2, <3>4 DEF Bounded
  <2>6. CASE txs[i].what = "approve"
    \* its only approval is just executed
    <3>1. ~Has(o, "approve", "executed")
      BY <2>1, <2>6 DEF Order, InOrder, Has
    <3>2. /\ Has(o, "approve", "executed")'
          /\ \A p \in Ops \ {o} : Has(p, "approve", "executed")' <=> Has(p, "approve", "executed")
      BY <2>0, <2>1, <2>6 DEF Marks, Has, PlacesOf
    <3>3. /\ allowance' = [allowance EXCEPT ![s] = Amount[o]] /\ spent' = spent
      BY <1>3, <2>0, <2>6 DEF Execute
    <3> SUFFICES ASSUME NEW z \in Spenders
                 PROVE  /\ IsFiniteSet(Granted(z)')
                        /\ spent'[z] + allowance'[z] <= Prior[z] + Cardinality(Granted(z)')
      BY DEF Bounded
    <3>4. IsFiniteSet(Granted(z)) /\ spent[z] + allowance[z] <= Prior[z] + Cardinality(Granted(z))
      BY DEF Bounded
    <3>5. CASE z # s
      <4>1. Granted(z)' = Granted(z)
        BY <3>2, <3>5 DEF Granters, Granted
      <4> QED BY <3>3, <3>4, <3>5, <4>1 DEF Types
    <3>6. CASE z = s
      <4>1. Granters(z)' = Granters(z) \cup {o} /\ o \notin Granters(z)
        <5>1. \A p \in Ops : p \in Granters(z)' <=> p \in Granters(z) \/ p = o
          BY <3>2, <3>6 DEF Granters
        <5>2. Granters(z) \subseteq Ops /\ Granters(z)' \subseteq Ops
          BY DEF Granters
        <5>3. o \notin Granters(z)
          BY <3>1 DEF Granters
        <5> QED BY <5>1, <5>2, <5>3
      <4>2. IsFiniteSet(Granted(z)')
            /\ Cardinality(Granted(z)') = Cardinality(Granted(z)) + Amount[o]
        BY <3>4, <4>1, OneMoreGranter
      <4>3. spent'[z] = spent[z] /\ allowance'[z] = Amount[o]
        BY <2>2, <3>3, <3>6 DEF Types
      <4> QED BY <2>2, <2>3, <2>4, <3>4, <4>2, <4>3
    <3> QED BY <3>5, <3>6
  <2> QED BY <2>5, <2>6, TxFields
<1>4. CASE UNCHANGED alVars
  BY <1>4, BoundedSame DEF alVars, Has, PlacesOf
<1> QED
  BY <1>1, <1>2, <1>3, <1>4 DEF AlNext

---------------------------------------------------------------------------
(* What is reported executed *)

\* The last transaction of o is executed.
LastExecuted(o) ==
  \E i \in PlacesOf(o) : txs[i].state = "executed" /\ \A j \in PlacesOf(o) : j <= i

\* A swap goes on with its own transaction only; SuccessIsExecuted, without the place.
Reported(o) ==
  /\ phase[o] \in {"ready", "building", "built", "receipt"} /\ Kind[o] = "swap" =>
       doing[o] = "main"
  /\ phase[o] = "done" /\ Waits[o] =>
       /\ Kind[o] # "approve" => Has(o, "main", "executed")
       /\ PlacesOf(o) # {} => LastExecuted(o)

\* Nothing undoes what is executed.
LEMMA ReportedStays ==
  ASSUME NEW p \in Ops, Reported(p), phase'[p] = phase[p], doing'[p] = doing[p],
         PlacesOf(p)' = PlacesOf(p),
         \A j \in PlacesOf(p) : txs'[j].what = txs[j].what,
         \A j \in PlacesOf(p) : txs[j].state = "executed" => txs'[j].state = "executed"
  PROVE  Reported(p)'
<1>1. Has(p, "main", "executed") => Has(p, "main", "executed")'
  BY DEF Has
<1>2. LastExecuted(p) => LastExecuted(p)'
  BY DEF LastExecuted
<1> QED
  BY <1>1, <1>2 DEF Reported

LEMMA OwnReported ==
  ASSUME Types, Order, NEW o \in Ops, Reported(o), CallStep(o)
  PROVE  Reported(o)'
<1> USE DEF Go
<1>1. CASE Start(o)
  BY <1>1 DEF Start, Types, Reported
<1>2. CASE AllowanceRead(o)
  <2>1. PlacesOf(o) = {} /\ UNCHANGED txs
    BY <1>2 DEF AllowanceRead, Order, InOrder
  <2>2. PlacesOf(o)' = {}
    BY <2>1 DEF PlacesOf
  <2>3. phase'[o] = "done" => Kind[o] = "approve"
    BY <1>2 DEF AllowanceRead, Types
  <2>4. phase'[o] \in {"ready", "building", "built", "receipt"} /\ Kind[o] = "swap" =>
          doing'[o] = "main"
    BY <1>2 DEF AllowanceRead, Types
  <2> QED BY <2>2, <2>3, <2>4 DEF Reported
<1>3. CASE TakeNonce(o) \/ Estimate(o)
  BY <1>3 DEF TakeNonce, Estimate, Types, Reported
<1>4. CASE Broadcast(o)
  BY <1>4 DEF Broadcast, Types, Reported
<1>5. CASE ReceiptComes(o)
  <2>1. /\ Place(o) \in PlacesOf(o) /\ txs[Place(o)].what = doing[o]
        /\ \A j \in PlacesOf(o) : j <= Place(o)
    BY <1>5, PlaceIsAtHand DEF ReceiptComes
  <2>2. UNCHANGED txs /\ PlacesOf(o)' = PlacesOf(o) /\ phase[o] = "receipt"
    BY <1>5 DEF ReceiptComes, PlacesOf
  <2>3. phase'[o] \in {"ready", "done", "failed", "revoking"}
    BY <1>5 DEF ReceiptComes, Raise, Types
  <2>4. phase'[o] = "ready" => Kind[o] = "transfer"
    BY <1>5 DEF ReceiptComes, Raise, Types
  <2>5. ASSUME phase'[o] = "done", Waits[o]
        PROVE  /\ txs[Place(o)].state = "executed"
               /\ Kind[o] # "approve" => doing[o] = "main"
    <3>1. txs[Place(o)].state = "executed"
      BY <1>5, <2>5 DEF ReceiptComes, Raise, Types
    <3>2. Kind[o] = "transfer" => doing[o] # "approve"
      BY <1>5, <2>5 DEF ReceiptComes, Raise, Types
    <3>3. Kind[o] = "swap" => doing[o] = "main"
      BY <2>2 DEF Reported
    <3>4. Kind[o] \in {"transfer", "approve", "swap"} /\ doing[o] \in {"approve", "main"}
      BY OpsAssumption DEF Types, Kinds
    <3> QED BY <3>1, <3>2, <3>3, <3>4
  <2>6. ASSUME phase'[o] = "done", Waits[o], Kind[o] # "approve"
        PROVE  Has(o, "main", "executed")'
    BY <2>1, <2>2, <2>5, <2>6 DEF Has
  <2>7. ASSUME phase'[o] = "done", Waits[o] PROVE LastExecuted(o)'
    BY <2>1, <2>2, <2>5, <2>7 DEF LastExecuted
  <2> QED BY <2>3, <2>4, <2>6, <2>7 DEF Reported
<1>6. CASE CallFails(o) \/ Revoke(o)
  BY <1>6 DEF CallFails, Revoke, Raise, Types, Reported
<1> QED
  BY <1>1, <1>2, <1>3, <1>4, <1>5, <1>6 DEF CallStep

LEMMA ReportedStep ==
  ASSUME Types, Order, \A o \in Ops : Reported(o), [AlNext]_alVars
  PROVE  \A o \in Ops : Reported(o)'
<1>1. ASSUME NEW o \in Ops, CallStep(o), NEW p \in Ops PROVE Reported(p)'
  BY <1>1, OwnReported, OthersSame, ReportedStays DEF Same
<1>2. ASSUME NEW i \in DOMAIN txs, Execute(i) \/ Revert(i), NEW p \in Ops PROVE Reported(p)'
  <2>1. /\ txs[i].state = "pool" /\ \E s \in TxStates : Marks(i, s)
        /\ UNCHANGED <<phase, doing>> /\ PlacesOf(p)' = PlacesOf(p)
    BY <1>2, ChainMarks DEF TxStates
  <2>2. \A j \in PlacesOf(p) :
          /\ txs'[j].what = txs[j].what
          /\ txs[j].state = "executed" => txs'[j].state = "executed"
    BY <2>1 DEF Marks, PlacesOf
  <2> QED BY <2>1, <2>2, ReportedStays
<1>3. ASSUME UNCHANGED alVars, NEW p \in Ops PROVE Reported(p)'
  BY <1>3, ReportedStays DEF alVars, PlacesOf
<1> QED
  BY <1>1, <1>2, <1>3 DEF AlNext

---------------------------------------------------------------------------
(* The theorems *)

\* A call has two transactions at most: an approval and its own.
LEMMA TwoPlaces ==
  ASSUME Types, Order, NEW o \in Ops
  PROVE  Cardinality(PlacesOf(o)) <= 2
<1> DEFINE kinds == {"approve"} \cup {"main"}
           kind == [i \in PlacesOf(o) |-> txs[i].what]
<1>1. IsFiniteSet({"approve"}) /\ Cardinality({"approve"}) = 1
  BY FS_Singleton
<1>2. IsFiniteSet(kinds) /\ Cardinality(kinds) = 2
  BY <1>1, FS_AddElement
<1>3. \A i \in PlacesOf(o) : txs[i].what \in kinds
  BY TxFields DEF PlacesOf
<1>4. kind \in [PlacesOf(o) -> kinds] /\ \A i, j \in PlacesOf(o) : kind[i] = kind[j] => i = j
  BY <1>3 DEF Order, InOrder
<1>5. kind \in Injection(PlacesOf(o), kinds)
  BY <1>4 DEF Injection, IsInjective
<1> QED
  BY <1>2, <1>5, FS_Injection

LEMMA InvariantHolds == AlSpec => []AllowanceInv
<1>1. AlInit => AllowanceInv
  BY InitTypes, InitOrder, InitAlone, InitSufficient, InitBounded DEF AllowanceInv
<1>2. AllowanceInv /\ [AlNext]_alVars => AllowanceInv'
  BY TypesStep, OrderStep, AloneStep, SufficientStep, BoundedStep DEF AllowanceInv
<1> QED
  BY <1>1, <1>2, PTL DEF AlSpec

\* The variables keep their types, and whatever fails a call makes at most one approval and one
\* transaction of its own (transfer.py:1241-1276, swap.py:522-761).
THEOREM AllowanceTypesCorrect == AlSpec => []AlTypeOK
<1>1. AllowanceInv => AlTypeOK
  BY TwoPlaces DEF AllowanceInv, Types, Txs, AlTypeOK
<1> QED
  BY <1>1, InvariantHolds, PTL

\* For any calls, amounts and spenders: what a contract has taken and may still take never
\* exceeds what it was allowed at first and the amounts approved for it, once each, however
\* approvals overwrite each other, fail or come late (transfer.py:1753-1813).
THEOREM NoExcessExposureCorrect == AlSpec => []NoExcessExposure
<1>1. AllowanceInv => NoExcessExposure
  BY DEF AllowanceInv, Bounded, NoExcessExposure
<1> QED
  BY <1>1, InvariantHolds, PTL

\* For any calls, amounts and spenders: a deposit, withdrawal or swap that no other call of its
\* spender overlaps finds its allowance when its transaction is estimated, unless its own
\* approval reverted (transfer.py:1811).
THEOREM UndisturbedSufficesCorrect == AlSpec => []UndisturbedSuffices
<1>1. AllowanceInv => UndisturbedSuffices
  BY DEF AllowanceInv, Sufficient, Kept, UndisturbedSuffices
<1> QED
  BY <1>1, InvariantHolds, PTL

\* For any calls, amounts and spenders: a call that waits for its receipts and reports success
\* has had its last transaction executed, and a deposit, withdrawal or swap its own, not only
\* the approval (transfer.py:1811-1828, swap.py:966-1031).
THEOREM SuccessIsExecutedCorrect == AlSpec => []SuccessIsExecuted
<1>1. AlInit => \A o \in Ops : Reported(o)
  BY DEF AlInit, Reported
<1>2. AllowanceInv /\ (\A o \in Ops : Reported(o)) /\ [AlNext]_alVars =>
        (\A o \in Ops : Reported(o))'
  BY ReportedStep DEF AllowanceInv
<1>3. AllowanceInv /\ (\A o \in Ops : Reported(o)) => SuccessIsExecuted
  <2> SUFFICES ASSUME AllowanceInv, NEW o \in Ops, Reported(o), phase[o] = "done", Waits[o]
               PROVE  /\ Kind[o] # "approve" => Has(o, "main", "executed")
                      /\ PlacesOf(o) # {} => txs[Place(o)].state = "executed"
    BY DEF SuccessIsExecuted
  <2>1. ASSUME PlacesOf(o) # {} PROVE txs[Place(o)].state = "executed"
    <3>1. PICK i \in PlacesOf(o) :
            txs[i].state = "executed" /\ \A j \in PlacesOf(o) : j <= i
      BY <2>1 DEF Reported, LastExecuted
    <3>2. PlacesOf(o) \subseteq Nat
      BY TxFields DEF AllowanceInv, PlacesOf
    <3>3. \A k \in PlacesOf(o) : (\A j \in PlacesOf(o) : j <= k) => k = i
      BY <3>1, <3>2
    <3>4. Place(o) = i
      BY <3>1, <3>3 DEF Place
    <3> QED BY <3>1, <3>4
  <2> QED BY <2>1 DEF Reported
<1> QED
  BY <1>1, <1>2, <1>3, InvariantHolds, PTL DEF AlSpec
===========================================================================
