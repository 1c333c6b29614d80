---------------------------- MODULE RetriedCalls ----------------------------
(***************************************************************************)
(* core/base.py, core/swap.py and utils/retry.py: requests behind a rate   *)
(* limiter.  A call acquires once; async_retry then repeats what failed in *)
(* a way that may pass, after a delay that doubles.                        *)
(*                                                                         *)
(* Only what is awaited under async_retry is repeated: the reads of RFQ    *)
(* targets are (_call_with_rpc_policy), while _make_http_request wraps the *)
(* making of a request that its caller sends, and the failover of the RPC  *)
(* providers has a loop of its own that acquires for each attempt.         *)
(***************************************************************************)
EXTENDS RateLimiter, Functions

CONSTANTS
  Retrying,     \* callers whose call is awaited under async_retry
  MaxAttempts, InitialDelay, MaxDelay,
  Growth,       \* exponential_base ** n, for n in range(max_attempts)
  Closing,      \* bound: nobody calls after this time
  Horizon,      \* bound: nor does the clock go on after this one, unless for a sleeper
  MaxResets     \* bound on the calls of reset()

ASSUME RetryAssumption ==
  /\ Retrying \subseteq Callers
  /\ MaxAttempts \in Nat \ {0} /\ InitialDelay \in Nat /\ MaxDelay \in Nat
  /\ Growth \in [0..MaxAttempts - 1 -> Nat \ {0}]
  /\ None # "passing"
  /\ Closing \in Nat /\ Horizon \in Nat /\ MaxResets \in Nat

VARIABLES
  doing,    \* "nothing", "asking", "answered" for, or "backing" off
  tries,    \* the attempts made
  latest,   \* history: when the last of them was made
  resumes,  \* when the next may be
  outcome,  \* of the last attempt
  resets

retryVars == <<doing, tries, latest, resumes, outcome, resets>>
retriedVars == <<limiterVars, retryVars>>

RetryInit ==
  /\ doing = [c \in Callers |-> "nothing"] /\ tries = [c \in Callers |-> 0]
  /\ latest = [c \in Callers |-> 0]
  /\ resumes = [c \in Callers |-> 0] /\ outcome = [c \in Callers |-> None]
  /\ resets = 0

-----------------------------------------------------------------------------
\* Beside an answer: a failure that may pass, which is a status to be retried or, without a
\* status, a failed or slow connection; and any other, another status among them.
Outcomes == {"ok", "passing", "final"}

Retries(c, o) ==
  c \in Retrying /\ o = "passing" /\ tries[c] < MaxAttempts

\* Mutant: the delays do not grow.
DelayConstant(n) == InitialDelay

\* min(initial_delay * exponential_base ** attempt, max_delay), of the n-th attempt.
Delay(n) ==
  IF InitialDelay * Growth[n - 1] > MaxDelay THEN MaxDelay ELSE InitialDelay * Growth[n - 1]

Call(c) ==
  /\ now <= Closing /\ Acquire(c)
  /\ UNCHANGED retryVars

Attempt(c) ==
  /\ stage[c] = "in" /\ doing[c] \in {"nothing", "backing"} /\ now >= resumes[c]
  /\ doing' = [doing EXCEPT ![c] = "asking"]
  /\ tries' = [tries EXCEPT ![c] = @ + 1] /\ latest' = [latest EXCEPT ![c] = now]
  /\ UNCHANGED <<limiterVars, resumes, outcome, resets>>

Answered(c, o) ==
  /\ doing[c] = "asking" /\ outcome' = [outcome EXCEPT ![c] = o]
  /\ IF Retries(c, o)
     THEN /\ doing' = [doing EXCEPT ![c] = "backing"]
          /\ resumes' = [resumes EXCEPT ![c] = now + Delay(tries[c])]
          /\ UNCHANGED <<limiterVars, latest>>
     ELSE /\ Leave(c)
          /\ doing' = [doing EXCEPT ![c] = "nothing"]
          /\ resumes' = [resumes EXCEPT ![c] = 0] /\ latest' = [latest EXCEPT ![c] = 0]
  /\ UNCHANGED <<tries, resets>>

\* The task is cancelled between two attempts or in one.
Abandon(c) ==
  /\ Leave(c)
  /\ doing' = [doing EXCEPT ![c] = "nothing"] /\ resumes' = [resumes EXCEPT ![c] = 0]
  /\ latest' = [latest EXCEPT ![c] = 0]
  /\ outcome' = [outcome EXCEPT ![c] = None]
  /\ UNCHANGED <<tries, resets>>

ResetOnce ==
  /\ resets < MaxResets /\ resets' = resets + 1
  /\ Reset
  /\ UNCHANGED <<doing, tries, latest, resumes, outcome>>

Asleep(c) ==
  \/ stage[c] = "acquire" /\ now < slot[c]
  \/ doing[c] = "backing" /\ now < resumes[c]

PassTime ==
  /\ now < Horizon \/ \E c \in Callers : Asleep(c)
  /\ ClockTicks
  /\ UNCHANGED retryVars

RetriedNext ==
  \/ \E c \in Callers : \/ Call(c) \/ Attempt(c) \/ Abandon(c)
                        \/ \E o \in Outcomes : Answered(c, o)
                        \/ (Wake(c) \/ CancelSleep(c)) /\ UNCHANGED retryVars
  \/ ResetOnce \/ PassTime

\* The clock goes on, sleepers are woken and requests are answered.
RetriedFairness ==
  /\ WF_retriedVars(PassTime)
  /\ \A c \in Callers : /\ WF_retriedVars(Wake(c) /\ UNCHANGED retryVars)
                        /\ WF_retriedVars(Attempt(c))
                        /\ WF_retriedVars(\E o \in Outcomes : Answered(c, o))

RetriedInit == LimiterInit /\ RetryInit
RetriedSpec == RetriedInit /\ [][RetriedNext]_retriedVars /\ RetriedFairness

-----------------------------------------------------------------------------
(* Properties *)

\* The next attempt is made late enough, and the last failure that may pass is the last.
RepeatsAsConfigured(c) ==
  /\ tries'[c] > tries[c] /\ tries[c] > 0 =>
       \/ latest'[c] >= latest[c] + InitialDelay * Growth[tries[c] - 1]
       \/ latest'[c] >= latest[c] + MaxDelay
  /\ tries[c] <= MaxAttempts
  /\ stage[c] # stage'[c] /\ outcome'[c] = "passing" /\ c \in Retrying =>
       tries[c] = MaxAttempts

\* A failure that may pass ends a retried call only after its last attempt, and each attempt
\* is made after the one before by at least the first delay, grown for every attempt
\* already repeated, up to the largest: however long the requests take, and whatever the
\* limiter does meanwhile (retry.py:49-86).
RetriesAsConfigured == [][\A c \in Callers : RepeatsAsConfigured(c)]_retriedVars

\* Every call ends in an answer, a failure or its cancellation, whatever is reset, late or
\* cancelled beside it (rate_limit.py:27-46, retry.py:44-88).
EveryCallEndsInTime ==
  \A c \in Callers : stage[c] # "out" ~> stage[c] = "over"

-----------------------------------------------------------------------------
(* What does not hold *)

\* The attempts that are made are no more than the tokens that have appeared: those after
\* the first of a call take none (swap.py:767-784).
AttemptsWithinRate ==
  resets = 0 /\ opened # None =>
    SumFunction(tries) <= 1 + (now - opened) \div Interval
=============================================================================
