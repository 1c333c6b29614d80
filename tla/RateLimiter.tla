---------------------------- MODULE RateLimiter ----------------------------
(***************************************************************************)
(* utils/rate_limit.py: AsyncRateLimiter, and the callers of acquire().    *)
(*                                                                         *)
(* acquire() reserves the next slot and sleeps until it.  The lock is held *)
(* over no await, so that a reservation is one step; a caller may be       *)
(* cancelled in its sleep, and wake later than it asked.  Time is counted  *)
(* in units of the clock; time.monotonic() is past the first interval when *)
(* a client is made.                                                       *)
(***************************************************************************)
EXTENDS Naturals

CONSTANTS
  Callers,   \* tasks that acquire once each
  Interval,  \* min_interval
  Epoch,     \* the clock when the limiter is made
  None

ASSUME RateAssumption ==
  /\ Interval \in Nat \ {0} /\ Epoch \in Nat /\ Interval <= Epoch
  /\ None \notin Nat

VARIABLES
  now,
  lastCall,  \* _last_call
  stage,     \* where a caller is: "out", asleep in "acquire", "in" what it does then, "over"
  slot,      \* the instant it reserved
  count,     \* history: the slots reserved since the last reset
  opened,    \* history: the first of them, or None
  number,    \* history: which of them a caller reserved, None before the reset
  taken      \* history: the ones whose callers went in

limiterVars == <<now, lastCall, stage, slot, count, opened, number, taken>>

LimiterInit ==
  /\ now = Epoch /\ lastCall = 0 /\ count = 0
  /\ stage = [c \in Callers |-> "out"] /\ slot = [c \in Callers |-> 0]
  /\ opened = None /\ number = [c \in Callers |-> None] /\ taken = {}

-----------------------------------------------------------------------------
(* acquire() *)

\* Mutant: the sleep is not added to what is reserved.
NextSlotNow == now

\* The slot a call gets: an interval after the one before, or now.
NextSlot == IF now < lastCall + Interval THEN lastCall + Interval ELSE now

\* The slot is reserved; without a sleep the caller goes straight in.
Acquire(c) ==
  /\ stage[c] = "out"
  /\ slot' = [slot EXCEPT ![c] = NextSlot] /\ lastCall' = NextSlot
  /\ stage' = [stage EXCEPT ![c] = IF NextSlot > now THEN "acquire" ELSE "in"]
  /\ number' = [number EXCEPT ![c] = count] /\ count' = count + 1
  /\ opened' = IF opened = None THEN NextSlot ELSE opened
  /\ taken' = IF NextSlot > now THEN taken ELSE taken \cup {count}
  /\ UNCHANGED now

\* Mutant: the caller goes in as soon as it is woken.
RestedAnyhow(c) == TRUE

\* Mutant: a caller that oversleeps misses its slot.
RestedExactly(c) == now = slot[c]

\* The sleep is over, or was some time ago.
Rested(c) == now >= slot[c]

Wake(c) ==
  /\ stage[c] = "acquire" /\ Rested(c)
  /\ stage' = [stage EXCEPT ![c] = "in"]
  /\ taken' = IF number[c] = None THEN taken ELSE taken \cup {number[c]}
  /\ UNCHANGED <<now, lastCall, slot, count, opened, number>>

\* A caller that is cancelled leaves its slot to nobody.
CancelSleep(c) ==
  /\ stage[c] = "acquire" /\ stage' = [stage EXCEPT ![c] = "over"]
  /\ UNCHANGED <<now, lastCall, slot, count, opened, number, taken>>

Leave(c) ==
  /\ stage[c] = "in" /\ stage' = [stage EXCEPT ![c] = "over"]
  /\ UNCHANGED <<now, lastCall, slot, count, opened, number, taken>>

\* reset(): the callers that sleep are forgotten, and sleep on.
Reset ==
  /\ lastCall' = 0
  /\ count' = 0 /\ opened' = None /\ taken' = {} /\ number' = [c \in Callers |-> None]
  /\ UNCHANGED <<now, stage, slot>>

ClockTicks ==
  /\ now' = now + 1
  /\ UNCHANGED <<lastCall, stage, slot, count, opened, number, taken>>

LimiterNext ==
  \/ \E c \in Callers : Acquire(c) \/ Wake(c) \/ CancelSleep(c) \/ Leave(c)
  \/ Reset \/ ClockTicks

LimiterSpec == LimiterInit /\ [][LimiterNext]_limiterVars

-----------------------------------------------------------------------------
(* Properties *)

LimiterTypeOK ==
  /\ now \in Nat /\ lastCall \in Nat /\ count \in Nat
  /\ stage \in [Callers -> {"out", "acquire", "in", "over"}]
  /\ slot \in [Callers -> Nat]
  /\ opened \in Nat \cup {None}
  /\ number \in [Callers -> Nat \cup {None}]
  /\ taken \subseteq Nat

\* Of two callers that reserved since the last reset, the later one has its slot at least an
\* interval after the other, however they interleave, oversleep or are cancelled
\* (rate_limit.py:38-45).
SlotsSpaced ==
  \A c, d \in Callers :
    number[c] # None /\ number[d] # None /\ c # d =>
      \/ number[c] < number[d] /\ slot[c] + Interval <= slot[d]
      \/ number[d] < number[c] /\ slot[d] + Interval <= slot[c]

TB == INSTANCE TokenBucket

\* The limiter is a token bucket: the n-th caller since the first one after a reset goes in
\* no sooner than n intervals after it, and no token is taken twice (rate_limit.py:5-11).
ImplementsTokenBucket == TB!Bucket

-----------------------------------------------------------------------------
(* What does not hold *)

\* The slots of two callers under way are an interval apart, across a reset too.
SlotsAlwaysSpaced ==
  \A c, d \in Callers :
    stage[c] \in {"acquire", "in"} /\ stage[d] \in {"acquire", "in"} /\ c # d =>
      slot[c] + Interval <= slot[d] \/ slot[d] + Interval <= slot[c]
=============================================================================
