--------------------------- MODULE RequestProofs ---------------------------
(***************************************************************************)
(* Proofs about the two ways a request leaves the client: HTTP calls       *)
(* through the rate limiter and the retry loop (RetriedCalls), and RPC     *)
(* calls through the list of providers (RpcFailover).                      *)
(***************************************************************************)
EXTENDS RetriedCalls, RpcFailover, TLAPS, WellFoundedInduction

(***************************************************************************)
(* What the rate limiter promises, for any callers, interval and clock,    *)
(* alone and under the calls that RetriedCalls makes of it.                *)
(*                                                                         *)
(* The n-th slot since a reset is at least n intervals after the first,    *)
(* because the last one reserved is: that bound, on lastCall, is what      *)
(* makes the rest inductive.                                               *)
(***************************************************************************)
-----------------------------------------------------------------------------
(* The invariant *)

\* Before the first reservation there is nothing to be found of any.
Closed ==
  opened = None =>
    /\ lastCall = 0 /\ count = 0 /\ taken = {}
    /\ \A c \in Callers : number[c] = None

\* The last slot reserved is as far from the first as the number of slots demands.
LastIsFar ==
  opened # None => /\ count > 0 /\ lastCall >= opened + (count - 1) * Interval

\* So is each caller's slot, and none is later than the last one.
SlotsAreFar ==
  \A c \in Callers : number[c] # None =>
    /\ opened # None
    /\ number[c] < count
    /\ slot[c] >= opened + number[c] * Interval
    /\ slot[c] <= lastCall

\* No caller has started twice.
SleepersTookNothing ==
  /\ \A i \in taken : i < count
  /\ \A c \in Callers : stage[c] = "acquire" /\ number[c] # None => number[c] \notin taken

RLInv ==
  /\ LimiterTypeOK
  /\ now >= Interval
  /\ Closed
  /\ LastIsFar
  /\ SlotsAreFar
  /\ SlotsSpaced
  /\ SleepersTookNothing

-----------------------------------------------------------------------------
(* Steps *)

\* The next slot is not before now; it is an interval after the last one, if there is one.
LEMMA NextSlotIsNext ==
  ASSUME RLInv
  PROVE /\ NextSlot \in Nat /\ NextSlot >= now
        /\ opened # None => NextSlot >= lastCall + Interval
        /\ opened = None => NextSlot = now
BY RateAssumption DEF RLInv, LimiterTypeOK, Closed, NextSlot

\* The n-th multiple of the interval.
LEMMA Multiples ==
  ASSUME NEW n \in Nat
  PROVE /\ n * Interval \in Nat
        /\ (n + 1) * Interval = n * Interval + Interval
        /\ n > 0 => (n - 1) * Interval \in Nat /\ n * Interval = (n - 1) * Interval + Interval
        /\ 0 * Interval = 0
BY RateAssumption

LEMMA InitInv == LimiterInit => RLInv
BY RateAssumption DEF LimiterInit, RLInv, LimiterTypeOK, Closed, LastIsFar, SlotsAreFar,
   SlotsSpaced, SleepersTookNothing

\* A reservation: the new slot is the last, and an interval from every other.
LEMMA AcquireInv ==
  ASSUME RLInv, NEW c \in Callers, Acquire(c)
  PROVE RLInv'
<1> USE RateAssumption
<1>1. /\ NextSlot \in Nat /\ NextSlot >= now
      /\ opened # None => NextSlot >= lastCall + Interval
      /\ opened = None => NextSlot = now
  BY NextSlotIsNext
<1>2. /\ lastCall' = NextSlot /\ now' = now /\ count' = count + 1
      /\ number' = [number EXCEPT ![c] = count] /\ slot' = [slot EXCEPT ![c] = NextSlot]
      /\ stage' = [stage EXCEPT ![c] = IF NextSlot > now THEN "acquire" ELSE "in"]
      /\ opened' = IF opened = None THEN NextSlot ELSE opened
      /\ taken' = IF NextSlot > now THEN taken ELSE taken \cup {count}
  BY DEF Acquire
<1>3. LimiterTypeOK
  BY DEF RLInv
<1>4. LimiterTypeOK'
  BY <1>1, <1>2, <1>3 DEF LimiterTypeOK
<1>5. now' >= Interval /\ Closed'
  BY <1>1, <1>2, <1>3 DEF RLInv, Closed, LimiterTypeOK
<1>6. opened = None => count = 0
  BY DEF RLInv, Closed
<1>7. LastIsFar'
  <2>1. CASE opened = None
    BY <2>1, <1>1, <1>2, <1>3, <1>6, Multiples DEF LastIsFar, LimiterTypeOK
  <2>2. CASE opened # None
    <3>1. count \in Nat /\ count > 0 /\ lastCall >= opened + (count - 1) * Interval
      BY <2>2, <1>3 DEF RLInv, LastIsFar, LimiterTypeOK
    <3>2. count * Interval = (count - 1) * Interval + Interval /\ (count - 1) * Interval \in Nat
      BY <3>1, Multiples
    <3>3. NextSlot >= opened + count * Interval
      BY <3>1, <3>2, <2>2, <1>1, <1>3 DEF LimiterTypeOK
    <3> QED
      BY <3>1, <3>3, <2>2, <1>2, <1>3 DEF LastIsFar, LimiterTypeOK
  <2> QED
    BY <2>1, <2>2
<1>8. SlotsAreFar'
  <2>1. /\ opened' # None /\ opened' \in Nat
        /\ NextSlot >= opened' + count * Interval
    <3>1. (count' - 1) = count
      BY <1>2, <1>3 DEF LimiterTypeOK
    <3> QED
      BY <3>1, <1>1, <1>2, <1>3, <1>7 DEF LastIsFar, LimiterTypeOK
  <2>2. ASSUME NEW d \in Callers, number'[d] # None, d # c
        PROVE /\ number'[d] < count'
              /\ slot'[d] >= opened' + number'[d] * Interval /\ slot'[d] <= lastCall'
    <3>1. number'[d] = number[d] /\ slot'[d] = slot[d]
      BY <2>2, <1>2, <1>3 DEF LimiterTypeOK
    <3>2. /\ opened # None /\ number[d] < count /\ slot[d] <= lastCall
          /\ slot[d] >= opened + number[d] * Interval
      BY <3>1, <2>2 DEF RLInv, SlotsAreFar
    <3> QED
      BY <3>1, <3>2, <2>2, <1>1, <1>2, <1>3 DEF LimiterTypeOK
  <2>3. /\ number'[c] = count /\ slot'[c] = NextSlot
    BY <1>2, <1>3 DEF LimiterTypeOK
  <2> QED
    BY <2>1, <2>2, <2>3, <1>2, <1>3 DEF SlotsAreFar, LimiterTypeOK
<1>9. SlotsSpaced'
  <2> SUFFICES ASSUME NEW d \in Callers, d # c, number'[d] # None
               PROVE number'[d] < number'[c] /\ slot'[d] + Interval <= slot'[c]
    <3>1. \A d, e \in Callers : d # c /\ e # c =>
            /\ number'[d] = number[d] /\ slot'[d] = slot[d]
            /\ number'[e] = number[e] /\ slot'[e] = slot[e]
      BY <1>2, <1>3 DEF LimiterTypeOK
    <3>2. \A d, e \in Callers : number[d] # None /\ number[e] # None /\ d # e =>
            \/ number[d] < number[e] /\ slot[d] + Interval <= slot[e]
            \/ number[e] < number[d] /\ slot[e] + Interval <= slot[d]
      BY DEF RLInv, SlotsSpaced
    <3> QED
      BY <3>1, <3>2 DEF SlotsSpaced
  <2>1. number'[d] = number[d] /\ slot'[d] = slot[d] /\ number'[c] = count /\ slot'[c] = NextSlot
    BY <1>2, <1>3 DEF LimiterTypeOK
  <2>2. opened # None /\ number[d] < count /\ slot[d] <= lastCall
    BY <2>1 DEF RLInv, SlotsAreFar
  <2> QED
    BY <2>1, <2>2, <1>1, <1>3 DEF LimiterTypeOK
<1>10. SleepersTookNothing'
  <2>1. \A i \in taken' : i < count'
    BY <1>2, <1>3 DEF RLInv, SleepersTookNothing, LimiterTypeOK
  <2>2. ASSUME NEW d \in Callers, stage'[d] = "acquire", number'[d] # None
        PROVE number'[d] \notin taken'
    <3>1. CASE d = c
      BY <3>1, <2>2, <1>2, <1>3 DEF RLInv, SleepersTookNothing, LimiterTypeOK
    <3>2. CASE d # c
      <4>1. number'[d] = number[d] /\ stage'[d] = stage[d]
        BY <3>2, <1>2, <1>3 DEF LimiterTypeOK
      <4>2. number[d] \notin taken /\ number[d] < count
        BY <4>1, <2>2 DEF RLInv, SleepersTookNothing, SlotsAreFar
      <4> QED
        BY <4>1, <4>2, <2>2, <1>2, <1>3 DEF LimiterTypeOK
    <3> QED
      BY <3>1, <3>2
  <2> QED
    BY <2>1, <2>2 DEF SleepersTookNothing
<1> QED
  BY <1>4, <1>5, <1>7, <1>8, <1>9, <1>10 DEF RLInv

\* A caller that starts takes its own token, which no sleeper has.
LEMMA WakeInv ==
  ASSUME RLInv, NEW c \in Callers, Wake(c)
  PROVE RLInv'
<1>1. /\ stage[c] = "acquire" /\ stage' = [stage EXCEPT ![c] = "in"]
      /\ taken' = IF number[c] = None THEN taken ELSE taken \cup {number[c]}
      /\ UNCHANGED <<now, lastCall, slot, count, opened, number>>
  BY DEF Wake
<1>2. LimiterTypeOK
  BY DEF RLInv
<1>3. LimiterTypeOK'
  BY <1>1, <1>2 DEF LimiterTypeOK
<1>4. now' >= Interval /\ LastIsFar' /\ SlotsAreFar' /\ SlotsSpaced'
  BY <1>1 DEF RLInv, LastIsFar, SlotsAreFar, SlotsSpaced
<1>5. Closed'
  BY <1>1 DEF RLInv, Closed
<1>6. SleepersTookNothing'
  <2>1. \A i \in taken' : i < count'
    BY <1>1 DEF RLInv, SleepersTookNothing, SlotsAreFar
  <2>2. ASSUME NEW d \in Callers, stage'[d] = "acquire", number'[d] # None
        PROVE number'[d] \notin taken'
    <3>1. d # c /\ stage[d] = "acquire" /\ number[d] # None
      BY <2>2, <1>1, <1>2 DEF LimiterTypeOK
    <3>2. number[d] \notin taken
      BY <3>1 DEF RLInv, SleepersTookNothing
    <3>3. number[c] # None => number[c] # number[d]
      BY <3>1, <1>2 DEF RLInv, SlotsSpaced, LimiterTypeOK
    <3> QED
      BY <3>2, <3>3, <1>1
  <2> QED
    BY <2>1, <2>2 DEF SleepersTookNothing
<1> QED
  BY <1>3, <1>4, <1>5, <1>6 DEF RLInv

\* A caller that ends, cancelled or not, changes nothing for the others.
LEMMA EndInv ==
  ASSUME RLInv, NEW c \in Callers, CancelSleep(c) \/ Leave(c)
  PROVE RLInv'
<1>1. /\ stage' = [stage EXCEPT ![c] = "over"]
      /\ UNCHANGED <<now, lastCall, slot, count, opened, number, taken>>
  BY DEF CancelSleep, Leave
<1>2. LimiterTypeOK /\ LimiterTypeOK'
  BY <1>1 DEF RLInv, LimiterTypeOK
<1>3. now' >= Interval /\ Closed' /\ LastIsFar' /\ SlotsAreFar' /\ SlotsSpaced'
  BY <1>1 DEF RLInv, Closed, LastIsFar, SlotsAreFar, SlotsSpaced
<1>4. SleepersTookNothing'
  BY <1>1, <1>2 DEF RLInv, SleepersTookNothing, LimiterTypeOK
<1> QED
  BY <1>2, <1>3, <1>4 DEF RLInv

LEMMA ResetInv == RLInv /\ Reset => RLInv'
BY RateAssumption DEF RLInv, Reset, LimiterTypeOK, Closed, LastIsFar, SlotsAreFar, SlotsSpaced,
   SleepersTookNothing

LEMMA TickInv == RLInv /\ ClockTicks => RLInv'
BY RateAssumption DEF RLInv, ClockTicks, LimiterTypeOK, Closed, LastIsFar, SlotsAreFar, SlotsSpaced,
   SleepersTookNothing

LEMMA NextInv == RLInv /\ [LimiterNext]_limiterVars => RLInv'
<1> SUFFICES ASSUME RLInv, [LimiterNext]_limiterVars PROVE RLInv'
  OBVIOUS
<1>1. ASSUME NEW c \in Callers, Acquire(c) PROVE RLInv'
  BY <1>1, AcquireInv
<1>2. ASSUME NEW c \in Callers, Wake(c) PROVE RLInv'
  BY <1>2, WakeInv
<1>3. ASSUME NEW c \in Callers, CancelSleep(c) \/ Leave(c) PROVE RLInv'
  BY <1>3, EndInv
<1>4. CASE Reset
  BY <1>4, ResetInv
<1>5. CASE ClockTicks
  BY <1>5, TickInv
<1>6. CASE UNCHANGED limiterVars
  BY <1>6 DEF limiterVars, RLInv, LimiterTypeOK, Closed, LastIsFar, SlotsAreFar, SlotsSpaced,
     SleepersTookNothing
<1> QED
  BY <1>1, <1>2, <1>3, <1>4, <1>5, <1>6 DEF LimiterNext

-----------------------------------------------------------------------------
(* The token bucket *)

\* Every step of the limiter is one of the bucket, or is none of its business.
LEMMA StepRefines == RLInv /\ [LimiterNext]_limiterVars => [TB!BucketNext]_(TB!bucketVars)
<1> SUFFICES ASSUME RLInv, [LimiterNext]_limiterVars
             PROVE TB!BucketNext \/ UNCHANGED <<now, opened, taken>>
  BY DEF TB!bucketVars
<1> USE RateAssumption
<1>1. ASSUME NEW c \in Callers, Acquire(c)
      PROVE TB!BucketNext \/ UNCHANGED <<now, opened, taken>>
  <2>1. /\ NextSlot \in Nat /\ NextSlot >= now
        /\ opened # None => NextSlot >= lastCall + Interval
        /\ opened = None => NextSlot = now
    BY NextSlotIsNext
  <2>2. CASE opened = None
    <3>1. count = 0 /\ taken = {} /\ now \in Nat
      BY <2>2 DEF RLInv, Closed, LimiterTypeOK
    <3>2. opened' = now /\ taken' = {0} /\ now' = now
      BY <1>1, <2>1, <2>2, <3>1 DEF Acquire
    <3> QED
      BY <2>2, <3>2 DEF TB!BucketNext, TB!Open
  <2>3. CASE opened # None /\ NextSlot > now
    BY <1>1, <2>3 DEF Acquire
  <2>4. CASE opened # None /\ ~(NextSlot > now)
    <3>1. /\ taken' = taken \cup {count} /\ opened' = opened /\ now' = now
          /\ now \in Nat /\ opened \in Nat /\ count \in Nat /\ lastCall \in Nat
      BY <1>1, <2>4 DEF Acquire, RLInv, LimiterTypeOK
    <3>2. now >= lastCall + Interval /\ count > 0 /\ lastCall >= opened + (count - 1) * Interval
      BY <2>1, <2>4, <3>1 DEF RLInv, LastIsFar
    <3>3. count * Interval = (count - 1) * Interval + Interval /\ (count - 1) * Interval \in Nat
      BY <3>1, <3>2, Multiples
    <3>4. now >= opened + count * Interval
      BY <3>1, <3>2, <3>3
    <3>5. count \notin taken
      BY <3>1 DEF RLInv, SleepersTookNothing
    <3>6. TB!Take
      BY <2>4, <3>1, <3>4, <3>5 DEF TB!Take
    <3> QED
      BY <3>6 DEF TB!BucketNext
  <2> QED
    BY <2>2, <2>3, <2>4
<1>2. ASSUME NEW c \in Callers, Wake(c)
      PROVE TB!BucketNext \/ UNCHANGED <<now, opened, taken>>
  <2>1. CASE number[c] = None
    BY <1>2, <2>1 DEF Wake
  <2>2. CASE number[c] # None
    <3>1. /\ taken' = taken \cup {number[c]} /\ opened' = opened /\ now' = now
          /\ stage[c] = "acquire" /\ now >= slot[c]
          /\ now \in Nat /\ number[c] \in Nat /\ slot[c] \in Nat
      BY <1>2, <2>2 DEF Wake, Rested, RLInv, LimiterTypeOK
    <3>2. opened # None /\ slot[c] >= opened + number[c] * Interval /\ number[c] \notin taken
      BY <2>2, <3>1 DEF RLInv, SlotsAreFar, SleepersTookNothing
    <3>3. number[c] * Interval \in Nat /\ opened \in Nat
      BY <3>1, <3>2, Multiples DEF RLInv, LimiterTypeOK
    <3>4. now >= opened + number[c] * Interval
      BY <3>1, <3>2, <3>3
    <3>5. TB!Take
      BY <3>1, <3>2, <3>4 DEF TB!Take
    <3> QED
      BY <3>5 DEF TB!BucketNext
  <2> QED
    BY <2>1, <2>2
<1>3. ASSUME NEW c \in Callers, CancelSleep(c) \/ Leave(c)
      PROVE UNCHANGED <<now, opened, taken>>
  BY <1>3 DEF CancelSleep, Leave
<1>4. CASE Reset
  BY <1>4 DEF Reset, TB!BucketNext, TB!Close
<1>5. CASE ClockTicks
  BY <1>5 DEF ClockTicks, TB!BucketNext, TB!Pass, RLInv, LimiterTypeOK
<1>6. CASE UNCHANGED limiterVars
  BY <1>6 DEF limiterVars
<1> QED
  BY <1>1, <1>2, <1>3, <1>4, <1>5, <1>6 DEF LimiterNext

-----------------------------------------------------------------------------
(* Theorems *)

LEMMA Invariance == LimiterSpec => []RLInv
<1>1. LimiterInit => RLInv
  BY InitInv
<1>2. RLInv /\ [LimiterNext]_limiterVars => RLInv'
  BY NextInv
<1> QED
  BY <1>1, <1>2, PTL DEF LimiterSpec

\* The limiter's state is well typed, for any callers and interval.
THEOREM LimiterTypes == LimiterSpec => []LimiterTypeOK
<1>1. RLInv => LimiterTypeOK
  BY DEF RLInv
<1> QED
  BY <1>1, Invariance, PTL

\* Calls that retry use the limiter as it is meant to be used: each of their steps is one of
\* the limiter's (swap.py:767-784, base.py:857).
THEOREM RetriedCallsUseLimiter == RetriedSpec => LimiterSpec
<1>1. RetriedInit => LimiterInit
  BY DEF RetriedInit
<1>2. [RetriedNext]_retriedVars => [LimiterNext]_limiterVars
  <2> SUFFICES ASSUME [RetriedNext]_retriedVars PROVE [LimiterNext]_limiterVars
    OBVIOUS
  <2>1. ASSUME NEW c \in Callers,
               Call(c) \/ Attempt(c) \/ Abandon(c) \/ (\E o \in Outcomes : Answered(c, o))
        PROVE [LimiterNext]_limiterVars
    BY <2>1 DEF Call, Attempt, Abandon, Answered, LimiterNext
  <2>2. ASSUME NEW c \in Callers, (Wake(c) \/ CancelSleep(c)) /\ UNCHANGED retryVars
        PROVE [LimiterNext]_limiterVars
    BY <2>2 DEF LimiterNext
  <2>3. CASE ResetOnce \/ PassTime
    BY <2>3 DEF ResetOnce, PassTime, LimiterNext
  <2>4. CASE UNCHANGED retriedVars
    BY <2>4 DEF retriedVars
  <2> QED
    BY <2>1, <2>2, <2>3, <2>4 DEF RetriedNext
<1> QED
  BY <1>1, <1>2, PTL DEF RetriedSpec, LimiterSpec

\* Two callers since a reset have slots an interval apart, in the order they called in, for
\* any number of callers, any interval, any oversleeping and cancellation
\* (rate_limit.py:38-45).
THEOREM SpacedCalls == RetriedSpec => []SlotsSpaced
<1>1. RLInv => SlotsSpaced
  BY DEF RLInv
<1> QED
  BY <1>1, Invariance, RetriedCallsUseLimiter, PTL

\* The limiter is a token bucket (rate_limit.py:5-11), whatever retries, resets and
\* cancellations there are.
THEOREM LimiterIsTokenBucket == RetriedSpec => ImplementsTokenBucket
<1>1. LimiterInit => TB!BucketInit
  BY RateAssumption DEF LimiterInit, TB!BucketInit
<1>2. RLInv /\ [LimiterNext]_limiterVars => [TB!BucketNext]_(TB!bucketVars)
  BY StepRefines
<1> QED
  BY <1>1, <1>2, Invariance, RetriedCallsUseLimiter, PTL
  DEF ImplementsTokenBucket, TB!Bucket, LimiterSpec

-----------------------------------------------------------------------------
(* The retry *)

RetryTypes ==
  /\ doing \in [Callers -> {"nothing", "asking", "backing"}]
  /\ tries \in [Callers -> 0..MaxAttempts]
  /\ latest \in [Callers -> Nat] /\ resumes \in [Callers -> Nat]
  /\ DOMAIN outcome = Callers

\* A call has made no attempt before it is let in, then it makes one after another; between
\* two of them, it resumes a delay after the latest one at the earliest.
RetryOK(c) ==
  /\ latest[c] <= now
  /\ stage[c] \in {"out", "acquire"} => doing[c] = "nothing" /\ tries[c] = 0 /\ outcome[c] = None
  /\ doing[c] # "nothing" => stage[c] = "in" /\ tries[c] > 0
  /\ doing[c] = "nothing" /\ stage[c] = "in" => tries[c] = 0
  /\ doing[c] = "backing" =>
       tries[c] < MaxAttempts /\ resumes[c] >= latest[c] + Delay(tries[c])

RetryInv == RetryTypes /\ \A c \in Callers : RetryOK(c)

\* A delay is one of the two that are compared.
LEMMA DelayIs ==
  ASSUME NEW n \in 1..MaxAttempts
  PROVE  /\ Delay(n) \in Nat
         /\ Delay(n) = InitialDelay * Growth[n - 1] \/ Delay(n) = MaxDelay
<1>1. n - 1 \in 0..MaxAttempts - 1 /\ Growth[n - 1] \in Nat /\ InitialDelay \in Nat /\ MaxDelay \in Nat
  BY RetryAssumption
<1>2. InitialDelay * Growth[n - 1] \in Nat
  BY <1>1
<1> QED BY <1>1, <1>2 DEF Delay

LEMMA RetryInitOK == RetriedInit => RetryInv
BY RateAssumption, RetryAssumption
   DEF RetriedInit, LimiterInit, RetryInit, RetryInv, RetryTypes, RetryOK

LEMMA RetryStep == LimiterTypeOK /\ RetryInv /\ [RetriedNext]_retriedVars => RetryInv'
<1> SUFFICES ASSUME LimiterTypeOK, RetryTypes, \A c \in Callers : RetryOK(c),
                    [RetriedNext]_retriedVars
             PROVE  RetryInv'
  BY DEF RetryInv
<1> USE DEF RetryInv, RetryOK
<1>1. ASSUME NEW c \in Callers, Call(c) PROVE RetryInv'
  <2>1. /\ stage[c] = "out" /\ UNCHANGED <<now, retryVars>>
        /\ \E s \in {"acquire", "in"} : stage' = [stage EXCEPT ![c] = s]
    BY <1>1 DEF Call, Acquire
  <2> QED BY <2>1 DEF LimiterTypeOK, RetryTypes, retryVars
<1>2. ASSUME NEW c \in Callers, Attempt(c) PROVE RetryInv'
  <2>1. tries[c] < MaxAttempts /\ tries[c] \in Nat /\ now \in Nat /\ MaxAttempts \in Nat
    BY <1>2, RetryAssumption DEF Attempt, RetryTypes, LimiterTypeOK
  <2>2. RetryTypes'
    BY <1>2, <2>1 DEF Attempt, RetryTypes
  <2>3. ASSUME NEW d \in Callers PROVE RetryOK(d)'
    <3>1. CASE d = c
      BY <1>2, <2>1, <3>1 DEF Attempt, RetryTypes, limiterVars
    <3>2. CASE d # c
      <4>1. /\ doing'[d] = doing[d] /\ tries'[d] = tries[d] /\ latest'[d] = latest[d]
            /\ UNCHANGED <<stage, now, resumes, outcome>>
        BY <1>2, <3>2 DEF Attempt, RetryTypes, limiterVars
      <4>2. RetryOK(d)
        OBVIOUS
      <4> QED BY <4>1, <4>2 DEF Delay
    <3> QED BY <3>1, <3>2
  <2> QED BY <2>2, <2>3
<1>3. ASSUME NEW c \in Callers, NEW o \in Outcomes, Answered(c, o) PROVE RetryInv'
  <2>1. stage[c] = "in" /\ tries[c] \in 1..MaxAttempts /\ now \in Nat /\ latest[c] \in Nat
    BY <1>3, RetryAssumption DEF Answered, RetryTypes, LimiterTypeOK
  <2>2. Delay(tries[c]) \in Nat
    BY <2>1, DelayIs
  <2>3. CASE Retries(c, o)
    <3>1. /\ tries[c] < MaxAttempts /\ now + Delay(tries[c]) >= latest[c] + Delay(tries[c])
          /\ now + Delay(tries[c]) \in Nat
      BY <2>1, <2>2, <2>3 DEF Retries
    <3>2. /\ UNCHANGED <<now, stage, tries, latest>>
          /\ doing' = [doing EXCEPT ![c] = "backing"] /\ outcome' = [outcome EXCEPT ![c] = o]
          /\ resumes' = [resumes EXCEPT ![c] = now + Delay(tries[c])]
      BY <1>3, <2>3 DEF Answered, limiterVars
    <3>3. RetryTypes'
      BY <3>1, <3>2 DEF RetryTypes
    <3>4. ASSUME NEW d \in Callers PROVE RetryOK(d)'
      <4>1. CASE d = c
        BY <2>1, <3>1, <3>2, <4>1 DEF RetryTypes, Delay
      <4>2. CASE d # c
        BY <3>2, <4>2 DEF RetryTypes, Delay
      <4> QED BY <4>1, <4>2
    <3> QED BY <3>3, <3>4
  <2>4. CASE ~Retries(c, o)
    <3>1. /\ UNCHANGED <<now, tries>>
          /\ stage' = [stage EXCEPT ![c] = "over"] /\ doing' = [doing EXCEPT ![c] = "nothing"]
          /\ outcome' = [outcome EXCEPT ![c] = o]
          /\ resumes' = [resumes EXCEPT ![c] = 0] /\ latest' = [latest EXCEPT ![c] = 0]
      BY <1>3, <2>4 DEF Answered, Leave
    <3>2. RetryTypes'
      BY <3>1 DEF RetryTypes
    <3>3. ASSUME NEW d \in Callers PROVE RetryOK(d)'
      <4>1. CASE d = c
        BY <2>1, <3>1, <4>1 DEF RetryTypes, LimiterTypeOK
      <4>2. CASE d # c
        BY <3>1, <4>2 DEF RetryTypes, LimiterTypeOK, Delay
      <4> QED BY <4>1, <4>2
    <3> QED BY <3>2, <3>3
  <2> QED BY <2>3, <2>4
<1>4. ASSUME NEW c \in Callers, Abandon(c) PROVE RetryInv'
  <2>1. /\ UNCHANGED <<now, tries>>
        /\ stage' = [stage EXCEPT ![c] = "over"] /\ doing' = [doing EXCEPT ![c] = "nothing"]
        /\ outcome' = [outcome EXCEPT ![c] = None]
        /\ resumes' = [resumes EXCEPT ![c] = 0] /\ latest' = [latest EXCEPT ![c] = 0]
    BY <1>4 DEF Abandon, Leave
  <2>2. RetryTypes'
    BY <2>1 DEF RetryTypes
  <2>3. ASSUME NEW d \in Callers PROVE RetryOK(d)'
    <3>1. CASE d = c
      BY <2>1, <3>1 DEF RetryTypes, LimiterTypeOK
    <3>2. CASE d # c
      BY <2>1, <3>2 DEF RetryTypes, LimiterTypeOK, Delay
    <3> QED BY <3>1, <3>2
  <2> QED BY <2>2, <2>3
<1>5. ASSUME NEW c \in Callers, Wake(c) \/ CancelSleep(c), UNCHANGED retryVars PROVE RetryInv'
  <2>1. /\ stage[c] = "acquire" /\ UNCHANGED <<now, retryVars>>
        /\ \E s \in {"in", "over"} : stage' = [stage EXCEPT ![c] = s]
    BY <1>5 DEF Wake, CancelSleep
  <2> QED BY <2>1 DEF LimiterTypeOK, RetryTypes, retryVars
<1>6. CASE ResetOnce
  BY <1>6 DEF ResetOnce, Reset, RetryTypes
<1>7. CASE PassTime
  BY <1>7 DEF PassTime, ClockTicks, RetryTypes, LimiterTypeOK, retryVars
<1>8. CASE UNCHANGED retriedVars
  BY <1>8 DEF retriedVars, limiterVars, retryVars, RetryTypes
<1> QED BY <1>1, <1>2, <1>3, <1>4, <1>5, <1>6, <1>7, <1>8 DEF RetriedNext

LEMMA RepeatsStep ==
  ASSUME LimiterTypeOK, RetryInv, [RetriedNext]_retriedVars, NEW c \in Callers
  PROVE  RepeatsAsConfigured(c)
<1>1. RetryTypes /\ RetryOK(c) /\ tries[c] \in Nat /\ tries[c] <= MaxAttempts
  BY RetryAssumption DEF RetryInv, RetryTypes
<1>2. ASSUME tries'[c] > tries[c], tries[c] > 0
      PROVE  \/ latest'[c] >= latest[c] + InitialDelay * Growth[tries[c] - 1]
             \/ latest'[c] >= latest[c] + MaxDelay
  <2>1. Attempt(c)
    <3>1. ASSUME NEW d \in Callers, Attempt(d), d # c PROVE FALSE
      BY <1>1, <1>2, <3>1 DEF Attempt, RetryTypes
    <3>2. UNCHANGED tries \/ \E d \in Callers : Attempt(d)
      <4>1. \A d \in Callers : Call(d) \/ Abandon(d) => UNCHANGED tries
        BY DEF Call, Abandon, retryVars
      <4>2. \A d \in Callers, o \in Outcomes : Answered(d, o) => UNCHANGED tries
        BY DEF Answered
      <4>3. ResetOnce \/ PassTime \/ UNCHANGED retryVars \/ UNCHANGED retriedVars => UNCHANGED tries
        BY DEF ResetOnce, PassTime, retryVars, retriedVars
      <4> QED BY <4>1, <4>2, <4>3 DEF RetriedNext
    <3> QED BY <1>1, <1>2, <3>1, <3>2
  <2>2. /\ doing[c] = "backing" /\ now >= resumes[c] /\ latest'[c] = now
        /\ resumes[c] >= latest[c] + Delay(tries[c]) /\ tries[c] \in 1..MaxAttempts
    BY <1>1, <1>2, <2>1, RetryAssumption DEF Attempt, RetryOK, RetryTypes
  <2>3. now \in Nat /\ resumes[c] \in Nat /\ latest[c] \in Nat
    BY <1>1 DEF RetryTypes, LimiterTypeOK
  <2>4. /\ Delay(tries[c]) \in Nat
        /\ Delay(tries[c]) = InitialDelay * Growth[tries[c] - 1] \/ Delay(tries[c]) = MaxDelay
    BY <2>2, DelayIs
  <2>5. latest'[c] >= latest[c] + Delay(tries[c])
    BY <2>2, <2>3, <2>4
  <2> QED BY <2>4, <2>5
<1>3. ASSUME stage[c] # stage'[c], outcome'[c] = "passing", c \in Retrying
      PROVE  tries[c] = MaxAttempts
  <2>1. ASSUME NEW d \in Callers, NEW o \in Outcomes, Answered(d, o) PROVE tries[c] = MaxAttempts
    <3>1. d = c /\ ~Retries(c, o)
      BY <1>3, <2>1 DEF Answered, Leave, limiterVars, LimiterTypeOK
    <3>2. o = "passing"
      BY <1>1, <1>3, <2>1, <3>1 DEF Answered, RetryTypes
    <3>3. ~(tries[c] < MaxAttempts)
      BY <1>3, <3>1, <3>2 DEF Retries
    <3>4. MaxAttempts \in Nat
      BY RetryAssumption
    <3> QED BY <1>1, <3>3, <3>4
  <2>2. ASSUME NEW d \in Callers, Abandon(d) PROVE FALSE
    BY <1>1, <1>3, <2>2, RetryAssumption DEF Abandon, Leave, LimiterTypeOK, RetryTypes
  <2>3. ASSUME NEW d \in Callers, Call(d) \/ ((Wake(d) \/ CancelSleep(d)) /\ UNCHANGED retryVars)
        PROVE  FALSE
    <3>1. UNCHANGED retryVars
      BY <2>3 DEF Call
    <3>2. stage[d] \in {"out", "acquire"} /\ \E s : stage' = [stage EXCEPT ![d] = s]
      BY <2>3 DEF Call, Acquire, Wake, CancelSleep
    <3>3. d = c
      BY <1>3, <3>2 DEF LimiterTypeOK
    <3>4. outcome[c] = None
      BY <1>1, <3>2, <3>3 DEF RetryOK
    <3> QED BY <1>3, <3>1, <3>4, RetryAssumption DEF retryVars
  <2>4. ASSUME NEW d \in Callers, Attempt(d) PROVE FALSE
    BY <1>3, <2>4 DEF Attempt, limiterVars
  <2>5. ASSUME ResetOnce \/ PassTime PROVE FALSE
    BY <1>3, <2>5 DEF ResetOnce, Reset, PassTime, ClockTicks
  <2>6. ASSUME UNCHANGED retriedVars PROVE FALSE
    BY <1>3, <2>6 DEF retriedVars, limiterVars
  <2> QED BY <2>1, <2>2, <2>3, <2>4, <2>5, <2>6 DEF RetriedNext
<1> QED BY <1>1, <1>2, <1>3 DEF RepeatsAsConfigured

\* A failure that may pass ends a retried call only after its last attempt, and each attempt
\* waits for its delay after the one before, for any delays, growth and number of attempts
\* (retry.py:49-86).
THEOREM RetriesAsConfiguredCorrect == RetriedSpec => RetriesAsConfigured
<1>1. LimiterTypeOK /\ RetryInv /\ [RetriedNext]_retriedVars
        => [\A c \in Callers : RepeatsAsConfigured(c)]_retriedVars
  BY RepeatsStep
<1> QED
  BY <1>1, RetryInitOK, RetryStep, LimiterTypes, RetriedCallsUseLimiter, PTL
  DEF RetriedSpec, RetriesAsConfigured

-----------------------------------------------------------------------------
(***************************************************************************)
(* Proofs about RpcFailover, for any calls, any number of providers, any   *)
(* threshold, cooldown and number of reinitializations.                    *)
(*                                                                         *)
(* Why a call that fails over reaches every provider although the others   *)
(* move the current index under it: as long as some provider of the list   *)
(* was never marked as failed, the index only moves forward and stops at   *)
(* that provider; a call's next provider therefore comes after the one it  *)
(* has just marked, and it has as many tries as there are indices left.    *)
(***************************************************************************)
USE ProvidersAssumption, MaxFailuresAssumption, CooldownAssumption

---------------------------------------------------------------------------
(* The methods of ProviderManager: the scan *)

LEMMA LeastExists ==
  ASSUME NEW U, U \subseteq Nat, U # {}
  PROVE  \E m \in U : \A j \in U : m <= j
<1>1. \E Less : IsWellFoundedOn(Less, Nat) /\ \A x, y \in Nat : x < y => <<x, y>> \in Less
  BY NatLessThanWellFounded DEF OpToRel
<1>2. PICK Less : IsWellFoundedOn(Less, Nat) /\ \A x, y \in Nat : x < y => <<x, y>> \in Less
  BY <1>1
<1>3. PICK m \in U : \A j \in U : ~ (<<j, m>> \in Less)
  BY <1>2, WFMin
<1>4. ASSUME NEW j \in U PROVE m <= j
  <2>1. m \in Nat /\ j \in Nat /\ ~ (<<j, m>> \in Less)
    BY <1>3
  <2>2. ~ (j < m)
    BY <1>2, <2>1
  <2> QED BY <2>1, <2>2
<1> QED BY <1>4

\* The scan that starts at from finds an element of U, and none of U comes before it.
LEMMA FirstFromFinds ==
  ASSUME NEW U, U \subseteq Indices, U # {}, NEW from \in Nat
  PROVE  FirstFrom(U, from) \in U /\ \A j \in U : NotAfter(FirstFrom(U, from), j, from)
<1>1. U \subseteq Nat
  BY DEF Indices
<1>2. \E i \in U : \A j \in U : NotAfter(i, j, from)
  <2> DEFINE Later == {i \in U : i >= from}
  <2>1. CASE Later = {}
    <3>1. PICK m \in U : \A j \in U : m <= j
      BY <1>1, LeastExists
    <3>2. \A j \in U : ~ (j >= from) /\ j < from
      BY <1>1, <2>1
    <3> QED BY <1>1, <3>1, <3>2 DEF NotAfter
  <2>2. CASE Later # {}
    <3>1. PICK m \in Later : \A j \in Later : m <= j
      BY <1>1, <2>2, LeastExists
    <3>2. m \in U /\ m >= from /\ \A j \in U : j < from \/ m <= j
      BY <1>1, <3>1
    <3> QED BY <3>2 DEF NotAfter
  <2> QED BY <2>1, <2>2
<1> QED BY <1>2 DEF FirstFrom

\* The scan does not pass an element of U, nor wrap around before it.
LEMMA FirstFromStops ==
  ASSUME NEW U, U \subseteq Indices, NEW from \in Nat, NEW i \in U, from <= i
  PROVE  from <= FirstFrom(U, from) /\ FirstFrom(U, from) <= i
<1>1. U # {}
  OBVIOUS
<1>2. FirstFrom(U, from) \in U /\ NotAfter(FirstFrom(U, from), i, from)
  BY <1>1, FirstFromFinds
<1>3. Indices \subseteq Nat
  BY DEF Indices
<1>4. FirstFrom(U, from) \in Nat /\ i \in Nat
  BY <1>2, <1>3
<1> QED BY <1>2, <1>4 DEF NotAfter

---------------------------------------------------------------------------
(* The methods of ProviderManager: types *)

LEMMA ManagerNew == NewManager \in Managers
BY DEF NewManager, Managers, Indices

LEMMA CurrentNat ==
  ASSUME NEW m \in Managers PROVE m.current \in Nat /\ m.current \in Indices
BY DEF Managers, Indices

LEMMA ManagerChosen ==
  ASSUME NEW m \in Managers, Usable(m) # {}
  PROVE  Chosen(m) \in Usable(m) /\ Chosen(m) \in Indices /\ CanRetry(m, Chosen(m))
<1>1. Usable(m) \subseteq Indices
  BY DEF Usable
<1>2. Chosen(m) \in Usable(m)
  BY <1>1, CurrentNat, FirstFromFinds DEF Chosen
<1> QED BY <1>2 DEF Usable

LEMMA ManagerGet == ASSUME NEW m \in Managers PROVE AfterGet(m) \in Managers
BY ManagerChosen DEF AfterGet, Managers

LEMMA ManagerCounted ==
  ASSUME NEW m \in Managers, NEW i \in Indices PROVE Counted(m, i) \in Managers
BY DEF Counted, Managers

\* mark_failure leaves the current index alone or moves it to a usable provider.
LEMMA ManagerFailure ==
  ASSUME NEW m \in Managers, NEW i \in Indices
  PROVE  /\ AfterFailure(m, i) \in Managers
         /\ AfterFailure(m, i).failures = Counted(m, i).failures
         /\ AfterFailure(m, i).healthy = Counted(m, i).healthy
<1> DEFINE n == Counted(m, i)
<1>1. n \in Managers
  BY ManagerCounted
<1>2. CASE m.current = i /\ Usable(n) # {}
  <2>1. Usable(n) \subseteq Indices /\ i + 1 \in Nat
    BY DEF Usable, Indices
  <2>2. FirstFrom(Usable(n), i + 1) \in Indices
    BY <1>2, <2>1, FirstFromFinds
  <2>3. AfterFailure(m, i) = [n EXCEPT !.current = FirstFrom(Usable(n), i + 1)]
    BY <1>2 DEF AfterFailure
  <2> HIDE DEF n
  <2> QED BY <1>1, <2>2, <2>3 DEF Managers, n
<1>3. CASE ~ (m.current = i /\ Usable(n) # {})
  BY <1>1, <1>3 DEF AfterFailure
<1> QED BY <1>2, <1>3

LEMMA ManagerSuccess ==
  ASSUME NEW m \in Managers, NEW i \in Indices PROVE AfterSuccess(m, i) \in Managers
BY DEF AfterSuccess, Managers

LEMMA ManagerTick == ASSUME NEW m \in Managers PROVE AfterTick(m) \in Managers
BY DEF AfterTick, Managers

---------------------------------------------------------------------------
(* The methods of ProviderManager: the flag and the count *)

\* is_healthy says whether failure_count is below the threshold.
Agrees(m) == \A i \in Indices : m.healthy[i] <=> m.failures[i] < MaxFailures

LEMMA AgreesNew == Agrees(NewManager)
BY DEF Agrees, NewManager

LEMMA AgreesGet == ASSUME NEW m \in Managers, Agrees(m) PROVE Agrees(AfterGet(m))
BY ManagerChosen DEF Agrees, AfterGet, CanRetry, Managers

LEMMA AgreesFailure ==
  ASSUME NEW m \in Managers, NEW i \in Indices, Agrees(m) PROVE Agrees(AfterFailure(m, i))
<1> DEFINE n == Counted(m, i)
<1>1. /\ n.failures = [m.failures EXCEPT ![i] = @ + 1]
      /\ n.healthy = [m.healthy EXCEPT ![i] = @ /\ m.failures[i] + 1 < MaxFailures]
  BY DEF Counted
<1>2. m.failures \in [Indices -> Nat] /\ m.healthy \in [Indices -> BOOLEAN]
  BY DEF Managers
<1> HIDE DEF n
<1>3. n.failures[i] = m.failures[i] + 1
      /\ (n.healthy[i] <=> m.healthy[i] /\ m.failures[i] + 1 < MaxFailures)
  BY <1>1, <1>2
<1>4. m.failures[i] + 1 < MaxFailures => m.failures[i] < MaxFailures
  BY <1>2
<1>5. n.healthy[i] <=> n.failures[i] < MaxFailures
  BY <1>3, <1>4 DEF Agrees
<1>6. \A j \in Indices : j # i => n.healthy[j] = m.healthy[j] /\ n.failures[j] = m.failures[j]
  BY <1>1, <1>2
<1>7. Agrees(n)
  BY <1>5, <1>6 DEF Agrees
<1> QED BY <1>7, ManagerFailure DEF Agrees, n

LEMMA AgreesSuccess ==
  ASSUME NEW m \in Managers, NEW i \in Indices, Agrees(m) PROVE Agrees(AfterSuccess(m, i))
BY DEF Agrees, AfterSuccess, Managers

LEMMA AgreesTick == ASSUME NEW m \in Managers, Agrees(m) PROVE Agrees(AfterTick(m))
BY DEF Agrees, AfterTick, Managers

---------------------------------------------------------------------------
(* The current index and the providers that never failed *)

\* The providers of S have not failed, and the current index has passed none of them.
Ahead(m, S) == \A i \in S : m.failures[i] = 0 /\ m.current <= i

LEMMA AheadNew == ASSUME NEW S \in SUBSET Indices PROVE Ahead(NewManager, S)
BY DEF Ahead, NewManager, Indices

\* get_provider finds a provider as long as S is not empty, and moves the current index
\* to it without passing any of S.
LEMMA AheadGet ==
  ASSUME NEW m \in Managers, NEW S \in SUBSET Indices, Ahead(m, S)
  PROVE  /\ Ahead(AfterGet(m), S)
         /\ S # {} => /\ Usable(m) # {}
                      /\ AfterGet(m).current = Chosen(m) /\ m.current <= Chosen(m)
<1>1. AfterGet(m).failures = m.failures
  BY DEF AfterGet, Managers
<1>2. ASSUME NEW i \in S
      PROVE  Usable(m) # {} /\ m.current <= Chosen(m) /\ Chosen(m) <= i
  <2>1. i \in Usable(m) /\ m.current <= i
    BY DEF Ahead, Usable, CanRetry
  <2>2. Usable(m) \subseteq Indices
    BY DEF Usable
  <2> QED BY <2>1, <2>2, CurrentNat, FirstFromStops DEF Chosen
<1>3. Usable(m) # {} => AfterGet(m).current = Chosen(m)
  BY DEF AfterGet, Managers
<1> QED BY <1>1, <1>2, <1>3 DEF Ahead

\* mark_failure of j does not move the current index past the rest of S, and never back;
\* if the index had not passed j yet, it does now.
LEMMA AheadFailure ==
  ASSUME NEW m \in Managers, NEW S \in SUBSET Indices, Ahead(m, S), NEW j \in Indices
  PROVE  /\ Ahead(AfterFailure(m, j), S \ {j})
         /\ S \ {j} # {} => /\ m.current <= AfterFailure(m, j).current
                            /\ j <= m.current => j < AfterFailure(m, j).current
<1> DEFINE n == Counted(m, j)
<1>1. n \in Managers /\ n.current = m.current
      /\ \A i \in Indices \ {j} : n.failures[i] = m.failures[i]
  BY ManagerCounted DEF Counted, Managers
<1>2. AfterFailure(m, j).failures = n.failures
  BY ManagerFailure
<1>3. m.current \in Nat /\ j \in Nat /\ AfterFailure(m, j).current \in Nat
  BY CurrentNat, ManagerFailure DEF Indices
<1>4. ASSUME NEW i \in S \ {j}
      PROVE  /\ AfterFailure(m, j).failures[i] = 0
             /\ AfterFailure(m, j).current <= i
             /\ m.current <= AfterFailure(m, j).current
             /\ j <= m.current => j < AfterFailure(m, j).current
  <2>1. i \in Nat /\ i # j /\ m.current <= i /\ n.failures[i] = 0
    <3>1. i \in Indices \ {j} /\ i \in Nat /\ i # j
      BY DEF Indices
    <3>2. m.failures[i] = 0 /\ m.current <= i
      BY DEF Ahead
    <3> HIDE DEF n
    <3> QED BY <1>1, <3>1, <3>2
  <2>2. i \in Usable(n)
    BY <2>1 DEF Usable, CanRetry
  <2>3. CASE m.current = j
    <3>1. AfterFailure(m, j) = [n EXCEPT !.current = FirstFrom(Usable(n), j + 1)]
      BY <2>2, <2>3 DEF AfterFailure
    <3> HIDE DEF n
    <3>2. AfterFailure(m, j).current = FirstFrom(Usable(n), j + 1)
      BY <1>1, <3>1 DEF Managers
    <3>3. Usable(n) \subseteq Indices /\ j + 1 \in Nat /\ j + 1 <= i
      BY <1>3, <2>1, <2>3 DEF Usable
    <3>4. j + 1 <= FirstFrom(Usable(n), j + 1) /\ FirstFrom(Usable(n), j + 1) <= i
      BY <2>2, <3>3, FirstFromStops
    <3> QED BY <1>2, <1>3, <2>1, <2>3, <3>2, <3>4
  <2>4. CASE m.current # j
    <3>1. AfterFailure(m, j).current = m.current
      BY <1>1, <2>4 DEF AfterFailure
    <3> HIDE DEF n
    <3> QED BY <1>2, <1>3, <2>1, <2>4, <3>1
  <2> QED BY <2>3, <2>4
<1> HIDE DEF n
<1> QED BY <1>4 DEF Ahead

LEMMA AheadSuccess ==
  ASSUME NEW m \in Managers, NEW S \in SUBSET Indices, Ahead(m, S), NEW j \in Indices
  PROVE  Ahead(AfterSuccess(m, j), S) /\ AfterSuccess(m, j).current = m.current
BY DEF Ahead, AfterSuccess, Managers

LEMMA AheadTick ==
  ASSUME NEW m \in Managers, NEW S \in SUBSET Indices, Ahead(m, S)
  PROVE  Ahead(AfterTick(m), S) /\ AfterTick(m).current = m.current
BY DEF Ahead, AfterTick, Managers

---------------------------------------------------------------------------
(* What a call that fails over is owed *)

\* The providers of the present list that no call has marked as failed.
Untried == {i \in Indices : <<gen, i>> \notin blamed}

\* A call has a provider from the time it got one.
HandlesHeld == \A c \in Calls : phase[c] \in {"holding", "asking"} => server[c] \in Nat \X Indices

\* c is in the loop of _rpc_call_with_failover, entered with the present list.
Looping(c) == phase[c] = "asking" /\ route[c] = "failover" /\ started[c] = gen

\* A call in the loop has not got past the current index, and has a try left for each
\* provider after the one it asks; it raises only when there is none left to try.
CallOK(c) ==
  /\ started[c] <= gen
  /\ Looping(c) /\ Untried # {} =>
       server[c][2] <= pm.current /\ N - 1 - server[c][2] <= left[c]
  /\ phase[c] = "raised" /\ route[c] = "failover" /\ started[c] = gen => Untried = {}

LoopInv == Ahead(pm, Untried) /\ \A c \in Calls : CallOK(c)

---------------------------------------------------------------------------
(* Types *)

LEMMA ServerType ==
  ASSUME RFTypeOK, HandlesHeld, NEW c \in Calls, phase[c] \in {"holding", "asking"}
  PROVE  server[c][2] \in Indices
BY DEF HandlesHeld

TypeInv == RFTypeOK /\ HandlesHeld

LEMMA RFTypeInit == RFInit => TypeInv
BY ManagerNew DEF RFInit, RFTypeOK, TypeInv, HandlesHeld, Phases

\* An iteration of the loop keeps the types.
LEMMA IterateTypes ==
  ASSUME TypeInv, NEW c \in Calls, NEW m \in Managers, NEW n \in 0..N, Iterate(c, m, n)
  PROVE  /\ pm' \in Managers
         /\ phase' \in [Calls -> Phases]
         /\ server' \in [Calls -> (Nat \X Indices) \cup {Nobody}]
         /\ left' \in [Calls -> 0..N]
         /\ gen' \in Nat /\ UNCHANGED gen => HandlesHeld'
<1>1. CASE n > 0 /\ Usable(m) # {}
  <2>1. gen \in Nat /\ Chosen(m) \in Indices /\ n - 1 \in 0..N
    BY <1>1, ManagerChosen DEF TypeInv, RFTypeOK
  <2>2. pm' = AfterGet(m) /\ server' = [server EXCEPT ![c] = <<gen, Chosen(m)>>]
        /\ left' = [left EXCEPT ![c] = n - 1] /\ phase' = [phase EXCEPT ![c] = "asking"]
    BY <1>1 DEF Iterate, Enter
  <2> QED BY <2>1, <2>2, ManagerGet DEF TypeInv, RFTypeOK, HandlesHeld, Phases
<1>2. CASE ~ (n > 0 /\ Usable(m) # {})
  <2>1. (pm' = m \/ pm' = AfterGet(m)) /\ UNCHANGED <<server, left>>
        /\ phase' = [phase EXCEPT ![c] = "raised"]
    BY <1>2 DEF Iterate, Enter
  <2> QED BY <2>1, ManagerGet DEF TypeInv, RFTypeOK, HandlesHeld, Phases
<1> QED BY <1>1, <1>2

LEMMA RFTypeStep == TypeInv /\ [RFNext]_rfVars => TypeInv'
<1> SUFFICES ASSUME TypeInv, [RFNext]_rfVars PROVE TypeInv'
  OBVIOUS
<1> USE DEF TypeInv, RFTypeOK, HandlesHeld, Phases, Enter
<1>1. ASSUME NEW c \in Calls, AcquireHandle(c) PROVE TypeInv'
  <2>1. pm' \in Managers
    BY <1>1, ManagerGet DEF AcquireHandle
  <2>2. server'[c] \in Nat \X Indices /\ server' = [server EXCEPT ![c] = server'[c]]
    <3>1. CASE Usable(pm) = {}
      <4>1. server' = [server EXCEPT ![c] = Primary]
        BY <1>1, <3>1 DEF AcquireHandle
      <4>2. Primary \in Nat \X Indices
        BY DEF Primary, Indices
      <4> QED BY <4>1, <4>2
    <3>2. CASE Usable(pm) # {}
      BY <1>1, <3>2, ManagerChosen DEF AcquireHandle
    <3> QED BY <3>1, <3>2
  <2> QED BY <1>1, <2>1, <2>2 DEF AcquireHandle
<1>2. ASSUME NEW c \in Calls, StartFailover(c) PROVE TypeInv'
  <2>1. Iterate(c, pm, N) /\ N \in 0..N /\ pm \in Managers /\ gen' = gen
    BY <1>2 DEF StartFailover
  <2>2. started' \in [Calls -> Nat] /\ UNCHANGED <<gen, route, blamed>>
    BY <1>2 DEF StartFailover
  <2> HIDE DEF Enter
  <2> QED BY <2>1, <2>2, IterateTypes
<1>3. ASSUME NEW c \in Calls, StartDirect(c) PROVE TypeInv'
  BY <1>3 DEF StartDirect
<1>4. ASSUME NEW c \in Calls, Succeed(c) PROVE TypeInv'
  <2>1. pm' \in Managers
    BY <1>4, ServerType, ManagerSuccess DEF Succeed
  <2> QED BY <1>4, <2>1 DEF Succeed
<1>5. ASSUME NEW c \in Calls, FailOver(c) PROVE TypeInv'
  <2>1. server[c][2] \in Indices
    BY <1>5, ServerType DEF FailOver
  <2>2. AfterFailure(pm, server[c][2]) \in Managers
    BY <2>1, ManagerFailure
  <2>3. blamed' \subseteq Nat \X Indices
    BY <1>5, <2>1 DEF FailOver
  <2>4. Iterate(c, AfterFailure(pm, server[c][2]), left[c]) /\ left[c] \in 0..N
        /\ UNCHANGED <<gen, route, started>>
    BY <1>5 DEF FailOver
  <2> HIDE DEF Enter
  <2> QED BY <2>2, <2>3, <2>4, IterateTypes
<1>6. ASSUME NEW c \in Calls, FailDirect(c) PROVE TypeInv'
  BY <1>6 DEF FailDirect
<1>7. ASSUME NEW c \in Calls, Cancel(c) PROVE TypeInv'
  BY <1>7 DEF Cancel
<1>8. ASSUME Reinitialize PROVE TypeInv'
  BY <1>8, ManagerNew DEF Reinitialize, callVars
<1>9. ASSUME Tick PROVE TypeInv'
  BY <1>9, ManagerTick DEF Tick, callVars
<1>10. ASSUME UNCHANGED rfVars PROVE TypeInv'
  BY <1>10 DEF rfVars, callVars
<1> QED
  BY <1>1, <1>2, <1>3, <1>4, <1>5, <1>6, <1>7, <1>8, <1>9, <1>10 DEF RFNext, CallStep

\* Every variable keeps its type; in particular a call never asks an index that is
\* not in the list, whatever list its provider came from.
THEOREM RFTypeCorrect == RFSpec => []RFTypeOK
<1>1. TypeInv => RFTypeOK
  BY DEF TypeInv
<1> QED BY RFTypeInit, RFTypeStep, <1>1, PTL DEF RFSpec

---------------------------------------------------------------------------
(* Health *)

LEMMA HealthStep ==
  TypeInv /\ HealthyBelowThreshold /\ [RFNext]_rfVars => HealthyBelowThreshold'
<1> SUFFICES ASSUME TypeInv, Agrees(pm), [RFNext]_rfVars PROVE Agrees(pm)'
  BY DEF HealthyBelowThreshold, Agrees
<1>0. pm \in Managers
  BY DEF TypeInv, RFTypeOK
<1>1. ASSUME NEW c \in Calls, AcquireHandle(c) PROVE Agrees(pm')
  BY <1>0, <1>1, AgreesGet DEF AcquireHandle
<1>2. ASSUME NEW c \in Calls, StartFailover(c) PROVE Agrees(pm')
  BY <1>0, <1>2, AgreesGet DEF StartFailover, Iterate
<1>3. ASSUME NEW c \in Calls, Succeed(c) PROVE Agrees(pm')
  BY <1>0, <1>3, ServerType, AgreesSuccess DEF Succeed, TypeInv
<1>4. ASSUME NEW c \in Calls, FailOver(c) PROVE Agrees(pm')
  <2> DEFINE m == AfterFailure(pm, server[c][2])
  <2>1. server[c][2] \in Indices
    BY <1>4, ServerType DEF FailOver, TypeInv
  <2>2. m \in Managers /\ Agrees(m)
    BY <1>0, <2>1, ManagerFailure, AgreesFailure
  <2>3. pm' = m \/ pm' = AfterGet(m)
    BY <1>4 DEF FailOver, Iterate
  <2> QED BY <2>2, <2>3, AgreesGet
<1>5. ASSUME Reinitialize PROVE Agrees(pm')
  BY <1>5, AgreesNew DEF Reinitialize
<1>6. ASSUME Tick PROVE Agrees(pm')
  BY <1>0, <1>6, AgreesTick DEF Tick
<1>7. ASSUME pm' = pm PROVE Agrees(pm')
  BY <1>7
<1>8. Agrees(pm')
  BY <1>1, <1>2, <1>3, <1>4, <1>5, <1>6, <1>7
     DEF RFNext, CallStep, StartDirect, FailDirect, Cancel, rfVars
<1> QED BY <1>8 DEF Agrees

\* A provider is flagged unhealthy exactly when its count has reached the threshold,
\* whatever concurrent calls, late answers and reinitialize do.
THEOREM FlagAgreesWithCount == RFSpec => []HealthyBelowThreshold
<1>1. RFInit => HealthyBelowThreshold
  BY AgreesNew DEF RFInit, Agrees, HealthyBelowThreshold
<1> QED BY RFTypeInit, RFTypeStep, HealthStep, <1>1, PTL DEF RFSpec

---------------------------------------------------------------------------
(* Revival *)

\* Only mark_success lowers a count.
LEMMA CountsKept ==
  ASSUME NEW m \in Managers, NEW i \in Indices
  PROVE  /\ AfterGet(m).failures[i] = m.failures[i]
         /\ AfterTick(m).failures[i] = m.failures[i]
         /\ \A j \in Indices : AfterFailure(m, j).failures[i] >= m.failures[i]
         /\ \A j \in Indices : j # i => AfterSuccess(m, j).failures[i] = m.failures[i]
<1>1. AfterGet(m).failures[i] = m.failures[i] /\ AfterTick(m).failures[i] = m.failures[i]
  BY DEF AfterGet, AfterTick, Managers
<1>2. ASSUME NEW j \in Indices PROVE AfterFailure(m, j).failures[i] >= m.failures[i]
  <2>1. AfterFailure(m, j).failures = [m.failures EXCEPT ![j] = @ + 1]
    BY ManagerFailure DEF Counted
  <2> QED BY <2>1 DEF Managers
<1>3. ASSUME NEW j \in Indices, j # i PROVE AfterSuccess(m, j).failures[i] = m.failures[i]
  BY <1>3 DEF AfterSuccess, Managers
<1> QED BY <1>1, <1>2, <1>3

LEMMA RevivalStep == TypeInv /\ [RFNext]_rfVars => RevivedByAnswer
<1> SUFFICES ASSUME TypeInv, [RFNext]_rfVars, NEW i \in Indices,
                    pm.failures[i] >= MaxFailures, pm'.failures[i] < MaxFailures
             PROVE  \/ gen' # gen
                    \/ \E c \in Calls : /\ phase[c] = "asking" /\ phase'[c] = "ok"
                                        /\ server[c][2] = i
  BY DEF RevivedByAnswer
<1>0. pm \in Managers /\ pm.failures[i] \in Nat /\ pm'.failures[i] # pm.failures[i]
  BY DEF TypeInv, RFTypeOK, Managers
<1>1. ASSUME NEW c \in Calls, AcquireHandle(c) \/ StartFailover(c) PROVE FALSE
  <2>1. pm' = AfterGet(pm) \/ pm' = pm
    BY <1>1 DEF AcquireHandle, StartFailover, Iterate
  <2> QED BY <1>0, <2>1, CountsKept
<1>2. ASSUME NEW c \in Calls, Succeed(c)
      PROVE  phase[c] = "asking" /\ phase'[c] = "ok" /\ server[c][2] = i
  <2>1. server[c][2] \in Indices
    BY <1>2, ServerType DEF Succeed, TypeInv
  <2>2. pm' = AfterSuccess(pm, server[c][2])
    BY <1>0, <1>2 DEF Succeed
  <2>3. server[c][2] = i
    BY <1>0, <2>1, <2>2, CountsKept
  <2> QED BY <1>2, <2>3 DEF Succeed, Enter, TypeInv, RFTypeOK
<1>3. ASSUME NEW c \in Calls, FailOver(c) PROVE FALSE
  <2> DEFINE m == AfterFailure(pm, server[c][2])
  <2>1. server[c][2] \in Indices
    BY <1>3, ServerType DEF FailOver, TypeInv
  <2>2. m \in Managers /\ m.failures[i] >= pm.failures[i] /\ m.failures[i] \in Nat
    BY <1>0, <2>1, ManagerFailure, CountsKept DEF Managers
  <2>3. pm' = m \/ pm' = AfterGet(m)
    BY <1>3 DEF FailOver, Iterate
  <2> HIDE DEF m
  <2>4. pm'.failures[i] = m.failures[i]
    BY <2>2, <2>3, CountsKept
  <2> QED BY <1>0, <2>2, <2>4
<1>4. ASSUME Tick PROVE FALSE
  BY <1>0, <1>4, CountsKept DEF Tick
<1>5. ASSUME Reinitialize PROVE gen' # gen
  BY <1>5 DEF Reinitialize, TypeInv, RFTypeOK
<1> QED
  BY <1>0, <1>1, <1>2, <1>3, <1>4, <1>5
     DEF RFNext, CallStep, StartDirect, FailDirect, Cancel, rfVars

\* An exhausted provider is usable again only after reinitialize, or after the answer
\* of a request that was out to its index.
THEOREM OnlyAnswersRevive == RFSpec => RevivedOnlyByAnswer
<1>1. TypeInv /\ [RFNext]_rfVars => [RevivedByAnswer]_rfVars
  BY RevivalStep
<1> QED BY RFTypeInit, RFTypeStep, <1>1, PTL DEF RFSpec, RevivedOnlyByAnswer

---------------------------------------------------------------------------
(* The loop *)

LEMMA LoopInit == RFInit => LoopInv
BY AheadNew DEF RFInit, LoopInv, CallOK, Looping, Untried

\* A call that does not move is fine after a step that, while a provider is left to
\* try, does not take the current index back.
LEMMA OthersOK ==
  ASSUME TypeInv, LoopInv, UNCHANGED gen, blamed \subseteq blamed',
         pm' \in Managers, Untried' # {} => pm.current <= pm'.current,
         NEW d \in Calls,
         phase'[d] = phase[d], server'[d] = server[d], left'[d] = left[d],
         route'[d] = route[d], started'[d] = started[d]
  PROVE  CallOK(d)'
<1>1. Untried' \subseteq Untried
  BY DEF Untried
<1>2. CallOK(d)
  BY DEF LoopInv
<1>3. Looping(d)' <=> Looping(d)
  BY DEF Looping
<1>4. Looping(d) => server[d][2] \in Nat
  BY ServerType DEF Looping, TypeInv, Indices
<1>5. pm.current \in Nat /\ pm'.current \in Nat
  BY CurrentNat DEF TypeInv, RFTypeOK
<1> QED BY <1>1, <1>2, <1>3, <1>4, <1>5 DEF CallOK

\* The iteration after mark_failure of provider p, p having been asked in the loop.
LEMMA FailOverStep ==
  ASSUME TypeInv, LoopInv, NEW c \in Calls, FailOver(c)
  PROVE  LoopInv'
<1> DEFINE p == server[c][2]
           m == AfterFailure(pm, p)
<1>1. /\ pm \in Managers /\ p \in Indices /\ m \in Managers /\ Untried \in SUBSET Indices
      /\ left[c] \in 0..N
  BY ServerType, ManagerFailure DEF FailOver, TypeInv, RFTypeOK, Untried
<1>2. Untried' = Untried \ {p} /\ UNCHANGED <<gen, route, started>> /\ blamed \subseteq blamed'
  BY DEF FailOver, Untried
<1>3. /\ Ahead(m, Untried')
      /\ Untried' # {} => pm.current <= m.current /\ (p <= pm.current => p < m.current)
  BY <1>1, <1>2, AheadFailure DEF LoopInv
<1>4. /\ Ahead(AfterGet(m), Untried')
      /\ Untried' # {} => /\ Usable(m) # {}
                          /\ AfterGet(m).current = Chosen(m) /\ m.current <= Chosen(m)
  BY <1>1, <1>2, <1>3, AheadGet
<1>5. Iterate(c, m, left[c]) /\ (pm' = m \/ pm' = AfterGet(m))
  BY DEF FailOver, Iterate
<1>6. /\ pm.current \in Nat /\ m.current \in Nat /\ p \in Nat
      /\ Usable(m) # {} => Chosen(m) \in Nat
  BY <1>1, CurrentNat, ManagerChosen DEF Indices
<1>7. pm' \in Managers
  BY <1>1, <1>5, ManagerGet
<1> HIDE DEF p, m
<1>8. Untried' # {} => pm.current <= pm'.current
  BY <1>3, <1>4, <1>5, <1>6
<1>9. ASSUME NEW d \in Calls, d # c PROVE CallOK(d)'
  <2>1. phase'[d] = phase[d] /\ server'[d] = server[d] /\ left'[d] = left[d]
    BY <1>5, <1>9 DEF Iterate, Enter, TypeInv, RFTypeOK
  <2> QED BY <1>2, <1>7, <1>8, <2>1, OthersOK
<1>10. CallOK(c)'
  <2>1. started'[c] <= gen'
    BY <1>2 DEF LoopInv, CallOK
  <2>2. CASE started[c] # gen
    BY <1>2, <2>1, <2>2 DEF CallOK, Looping
  <2>3. CASE Untried' = {}
    BY <2>1, <2>3 DEF CallOK
  <2>4. CASE started[c] = gen /\ Untried' # {}
    <3>1. Looping(c) /\ Untried # {}
      BY <1>2, <2>4 DEF FailOver, Looping
    <3>2. p <= pm.current /\ N - 1 - p <= left[c]
      BY <3>1 DEF LoopInv, CallOK, p
    <3>3. p < m.current /\ m.current <= Chosen(m) /\ Usable(m) # {}
      BY <1>3, <1>4, <2>4, <3>2
    <3>4. PICK i \in Indices : i # p /\ i \in Untried
      BY <1>2, <2>4 DEF Untried
    <3>5. i \in Nat /\ i <= N - 1 /\ pm.current <= i
      BY <3>4 DEF LoopInv, Ahead, Indices
    <3>6. left[c] > 0
      BY <1>1, <1>6, <3>2, <3>4, <3>5
    <3>7. /\ phase' = [phase EXCEPT ![c] = "asking"]
          /\ server' = [server EXCEPT ![c] = <<gen, Chosen(m)>>]
          /\ left' = [left EXCEPT ![c] = left[c] - 1]
          /\ pm' = AfterGet(m)
      BY <1>5, <3>3, <3>6 DEF Iterate, Enter
    <3>8. phase'[c] = "asking" /\ server'[c][2] = Chosen(m) /\ left'[c] = left[c] - 1
      BY <3>7 DEF TypeInv, RFTypeOK
    <3>9. pm'.current = Chosen(m)
      BY <1>4, <2>4, <3>7
    <3>10. Chosen(m) <= Chosen(m) /\ N - 1 - Chosen(m) <= left[c] - 1
      BY <1>1, <1>6, <3>2, <3>3
    <3> QED BY <2>1, <3>8, <3>9, <3>10 DEF CallOK
  <2> QED BY <2>2, <2>3, <2>4
<1>11. Ahead(pm', Untried')
  BY <1>3, <1>4, <1>5
<1>12. \A d \in Calls : CallOK(d)'
  BY <1>9, <1>10
<1> QED BY <1>11, <1>12 DEF LoopInv, Ahead

LEMMA StartFailoverStep ==
  ASSUME TypeInv, LoopInv, NEW c \in Calls, StartFailover(c)
  PROVE  LoopInv'
<1>1. /\ pm \in Managers /\ Untried \in SUBSET Indices
      /\ Untried' = Untried /\ UNCHANGED <<gen, route, blamed>>
  BY DEF StartFailover, TypeInv, RFTypeOK, Untried
<1>2. /\ Iterate(c, pm, N) /\ pm' = AfterGet(pm) /\ pm' \in Managers
      /\ started' = [started EXCEPT ![c] = gen]
  BY <1>1, ManagerGet DEF StartFailover, Iterate
<1>3. /\ Ahead(pm', Untried')
      /\ Untried # {} => Usable(pm) # {} /\ pm'.current = Chosen(pm) /\ pm.current <= Chosen(pm)
  BY <1>1, <1>2, AheadGet DEF LoopInv
<1>4. ASSUME NEW d \in Calls, d # c PROVE CallOK(d)'
  <2>1. /\ phase'[d] = phase[d] /\ server'[d] = server[d] /\ left'[d] = left[d]
        /\ route'[d] = route[d] /\ started'[d] = started[d]
    BY <1>1, <1>2, <1>4 DEF Iterate, Enter, TypeInv, RFTypeOK
  <2> QED BY <1>1, <1>2, <1>3, <2>1, OthersOK
<1>5. CallOK(c)'
  <2>1. started'[c] = gen /\ gen' = gen /\ gen \in Nat
    BY <1>1, <1>2 DEF TypeInv, RFTypeOK
  <2>2. CASE Untried = {}
    BY <1>1, <2>1, <2>2 DEF CallOK
  <2>3. CASE Untried # {}
    <3>1. /\ phase' = [phase EXCEPT ![c] = "asking"]
          /\ server' = [server EXCEPT ![c] = <<gen, Chosen(pm)>>]
          /\ left' = [left EXCEPT ![c] = N - 1]
      BY <1>2, <1>3, <2>3 DEF Iterate, Enter
    <3>2. phase'[c] = "asking" /\ server'[c][2] = Chosen(pm) /\ left'[c] = N - 1
      BY <3>1 DEF TypeInv, RFTypeOK
    <3>3. Chosen(pm) \in Nat
      BY <1>1, <1>3, <2>3, ManagerChosen DEF Indices
    <3>4. pm'.current = Chosen(pm)
      BY <1>3, <2>3
    <3>5. Chosen(pm) <= Chosen(pm) /\ N - 1 - Chosen(pm) <= N - 1
      BY <3>3
    <3> QED BY <2>1, <3>2, <3>4, <3>5 DEF CallOK
  <2> QED BY <2>2, <2>3
<1>6. \A d \in Calls : CallOK(d)'
  BY <1>4, <1>5
<1> QED BY <1>3, <1>6 DEF LoopInv, Ahead

\* The steps in which no provider is marked and no call enters the loop.
LEMMA QuietStep ==
  ASSUME TypeInv, LoopInv, UNCHANGED <<gen, blamed>>,
         pm' \in Managers, Ahead(pm', Untried), Untried # {} => pm.current <= pm'.current,
         \A d \in Calls :
           \/ /\ phase'[d] = phase[d] /\ server'[d] = server[d] /\ left'[d] = left[d]
              /\ route'[d] = route[d] /\ started'[d] = started[d]
           \/ /\ started'[d] = started[d]
              /\ phase'[d] \in {"holding", "ok", "cancelled"} \/ route'[d] = "direct"
  PROVE  LoopInv'
<1>1. Untried' = Untried
  BY DEF Untried
<1>2. ASSUME NEW d \in Calls PROVE CallOK(d)'
  <2>1. CASE /\ phase'[d] = phase[d] /\ server'[d] = server[d] /\ left'[d] = left[d]
             /\ route'[d] = route[d] /\ started'[d] = started[d]
    BY <1>1, <2>1, OthersOK
  <2>2. CASE /\ started'[d] = started[d]
             /\ phase'[d] \in {"holding", "ok", "cancelled"} \/ route'[d] = "direct"
    BY <2>2 DEF CallOK, LoopInv, Looping
  <2> QED BY <2>1, <2>2
<1> QED BY <1>1, <1>2 DEF LoopInv, Ahead

LEMMA LoopStep == TypeInv /\ LoopInv /\ [RFNext]_rfVars => LoopInv'
<1> SUFFICES ASSUME TypeInv, LoopInv, [RFNext]_rfVars PROVE LoopInv'
  OBVIOUS
<1>0. /\ pm \in Managers /\ Untried \in SUBSET Indices /\ Ahead(pm, Untried)
      /\ pm.current \in Nat
  BY CurrentNat DEF TypeInv, RFTypeOK, LoopInv, Untried
<1>1. ASSUME NEW c \in Calls, AcquireHandle(c) PROVE LoopInv'
  <2>1. pm' = AfterGet(pm) /\ UNCHANGED <<gen, blamed>>
    BY <1>1 DEF AcquireHandle
  <2>2. pm' \in Managers /\ Ahead(pm', Untried) /\ (Untried # {} => pm.current <= pm'.current)
    BY <1>0, <2>1, ManagerGet, AheadGet
  <2>3. \A d \in Calls :
          \/ /\ phase'[d] = phase[d] /\ server'[d] = server[d] /\ left'[d] = left[d]
             /\ route'[d] = route[d] /\ started'[d] = started[d]
          \/ started'[d] = started[d] /\ phase'[d] = "holding"
    BY <1>1 DEF AcquireHandle, Enter, TypeInv, RFTypeOK
  <2> QED BY <2>1, <2>2, <2>3, QuietStep
<1>2. ASSUME NEW c \in Calls, StartFailover(c) PROVE LoopInv'
  BY <1>2, StartFailoverStep
<1>3. ASSUME NEW c \in Calls, StartDirect(c) PROVE LoopInv'
  <2>1. \A d \in Calls :
          \/ /\ phase'[d] = phase[d] /\ server'[d] = server[d] /\ left'[d] = left[d]
             /\ route'[d] = route[d] /\ started'[d] = started[d]
          \/ started'[d] = started[d] /\ route'[d] = "direct"
    BY <1>3 DEF StartDirect, Enter, TypeInv, RFTypeOK
  <2> QED BY <1>0, <1>3, <2>1, QuietStep DEF StartDirect
<1>4. ASSUME NEW c \in Calls, Succeed(c) PROVE LoopInv'
  <2>1. server[c][2] \in Indices
    BY <1>4, ServerType DEF Succeed, TypeInv
  <2>2. pm' \in Managers /\ Ahead(pm', Untried) /\ pm'.current = pm.current
    BY <1>0, <1>4, <2>1, ManagerSuccess, AheadSuccess DEF Succeed
  <2>3. \A d \in Calls :
          \/ /\ phase'[d] = phase[d] /\ server'[d] = server[d] /\ left'[d] = left[d]
             /\ route'[d] = route[d] /\ started'[d] = started[d]
          \/ started'[d] = started[d] /\ phase'[d] = "ok"
    BY <1>4 DEF Succeed, Enter, TypeInv, RFTypeOK
  <2> QED BY <1>0, <1>4, <2>2, <2>3, QuietStep DEF Succeed
<1>5. ASSUME NEW c \in Calls, FailOver(c) PROVE LoopInv'
  BY <1>5, FailOverStep
<1>6. ASSUME NEW c \in Calls, FailDirect(c) PROVE LoopInv'
  <2>1. \A d \in Calls :
          \/ /\ phase'[d] = phase[d] /\ server'[d] = server[d] /\ left'[d] = left[d]
             /\ route'[d] = route[d] /\ started'[d] = started[d]
          \/ started'[d] = started[d] /\ route'[d] = "direct"
    BY <1>6 DEF FailDirect, Enter, TypeInv, RFTypeOK
  <2> QED BY <1>0, <1>6, <2>1, QuietStep DEF FailDirect
<1>7. ASSUME NEW c \in Calls, Cancel(c) PROVE LoopInv'
  <2>1. \A d \in Calls :
          \/ /\ phase'[d] = phase[d] /\ server'[d] = server[d] /\ left'[d] = left[d]
             /\ route'[d] = route[d] /\ started'[d] = started[d]
          \/ started'[d] = started[d] /\ phase'[d] = "cancelled"
    BY <1>7 DEF Cancel, Enter, TypeInv, RFTypeOK
  <2> QED BY <1>0, <1>7, <2>1, QuietStep DEF Cancel
<1>8. ASSUME Reinitialize PROVE LoopInv'
  <2>1. Untried' \in SUBSET Indices /\ pm' = NewManager
    BY <1>8 DEF Reinitialize, Untried
  <2>2. \A c \in Calls : started'[c] \in Nat /\ gen \in Nat /\ started'[c] <= gen /\ gen' = gen + 1
    BY <1>8 DEF Reinitialize, callVars, LoopInv, CallOK, TypeInv, RFTypeOK
  <2>3. \A c \in Calls : started'[c] <= gen' /\ started'[c] # gen'
    BY <2>2
  <2>4. \A c \in Calls : CallOK(c)'
    BY <2>3 DEF CallOK, Looping
  <2>5. Ahead(pm', Untried')
    BY <2>1, AheadNew
  <2> QED BY <2>4, <2>5 DEF LoopInv, Ahead
<1>9. ASSUME Tick PROVE LoopInv'
  <2>1. pm' \in Managers /\ Ahead(pm', Untried) /\ pm'.current = pm.current
    BY <1>0, <1>9, ManagerTick, AheadTick DEF Tick
  <2> QED BY <1>0, <1>9, <2>1, QuietStep DEF Tick, callVars
<1>10. ASSUME UNCHANGED rfVars PROVE LoopInv'
  BY <1>0, <1>10, QuietStep DEF rfVars, callVars
<1> QED
  BY <1>1, <1>2, <1>3, <1>4, <1>5, <1>6, <1>7, <1>8, <1>9, <1>10 DEF RFNext, CallStep

\* A call that fails over raises only when every provider of the list it entered with
\* has been marked as failed, however concurrent calls move the current index.
THEOREM RaisedMeansAllFailed == RFSpec => []RaisesOnlyWhenAllFailed
<1>1. LoopInv => RaisesOnlyWhenAllFailed
  BY DEF LoopInv, CallOK, RaisesOnlyWhenAllFailed, Untried
<1> QED BY RFTypeInit, RFTypeStep, LoopInit, LoopStep, <1>1, PTL DEF RFSpec
============================================================================
