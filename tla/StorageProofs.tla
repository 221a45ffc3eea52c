---------------------------- MODULE StorageProofs ----------------------------
(***************************************************************************)
(* The storage package for any number of callers and tasks, any thresholds *)
(* and any migration files.                                                *)
(*                                                                         *)
(* The breaker: its counters agree with its state, and it implements       *)
(* BreakerContract.  The contract speaks of runs of completions, the code  *)
(* of counters; RunsCounted is the strengthening that ties the two.        *)
(*                                                                         *)
(* The pipeline: it is a behaviour of the breaker alone with the retry     *)
(* loop as its caller, what it reports is what happened, and every step of *)
(* an operation is one of boundedly many.                                  *)
(*                                                                         *)
(* The startup: what the migrations table says is true, and a script is    *)
(* executed once and once more for each loss of track.  Budget is the      *)
(* strengthening: the executions so far and those the running coroutines   *)
(* are still entitled to stay together within the bound.  Nobody waits for *)
(* a lock whose holder cannot go on.                                       *)
(***************************************************************************)
EXTENDS StoragePipeline, StorageStartup, FiniteSetTheorems, WellFoundedInduction, TLAPS

(* The circuit breaker.                                                    *)

\* In CLOSED the failure counter is the run of failures; in HALF_OPEN the
\* success counter never exceeds the run of successes.
RunsCounted ==
    /\ state = "CLOSED" => failure_count = failRun
    /\ state = "HALF_OPEN" => success_count <= okRun

IInv == TypeOK /\ CountersAgree /\ RunsCounted

\* The saturating increment stays in range, never decreases a counter, and
\* reaches a threshold exactly when the true increment does.
LEMMA BumpFacts ==
    ASSUME NEW n \in 0 .. MaxCount
    PROVE  /\ Bump(n) \in 0 .. MaxCount
           /\ n <= Bump(n)
           /\ n < MaxCount => Bump(n) = n + 1
  BY BreakerAssumption DEF Bump

LEMMA InitIInv == Init => IInv
  BY BreakerAssumption
  DEF Init, IInv, TypeOK, CountersAgree, RunsCounted,
      CircuitStates, CallStates, Never

\* The breaker as it starts is the contract as it starts.
LEMMA InitContract == Init => Contract!Init
  BY DEF Init, Contract!Init, Never

\* Every step of the breaker keeps the counters, the state and the runs of
\* completions in agreement.
LEMMA NextIInv == IInv /\ [Next]_vars => IInv'
<1> SUFFICES ASSUME IInv, [Next]_vars PROVE IInv'
    OBVIOUS
<1> USE BreakerAssumption
<1> USE DEF IInv, TypeOK, CountersAgree, RunsCounted,
            CircuitStates, CallStates, Never, breakerVars, historyVars
<1>1. ASSUME NEW c \in Callers, Admit(c) PROVE IInv'
      BY <1>1 DEF Admit, ShouldAttemptReset
<1>2. ASSUME NEW c \in Callers, Reject(c) PROVE IInv'
      BY <1>2 DEF Reject
<1>3. ASSUME NEW c \in Callers, Succeed(c) PROVE IInv'
      BY <1>3, BumpFacts DEF Succeed, OnSuccess
<1>4. ASSUME NEW c \in Callers, Fail(c) PROVE IInv'
      BY <1>4, BumpFacts DEF Fail, OnFailure
<1>5. ASSUME NEW c \in Callers, Cancel(c) PROVE IInv'
      BY <1>5 DEF Cancel
<1>6. CASE Tick
      BY <1>6 DEF Tick
<1>7. CASE StoreBreaks
      BY <1>7 DEF StoreBreaks
<1>8. CASE StoreHeals
      BY <1>8 DEF StoreHeals
<1>9. CASE UNCHANGED vars
      BY <1>9 DEF vars
<1> QED
    BY <1>1, <1>2, <1>3, <1>4, <1>5, <1>6, <1>7, <1>8, <1>9 DEF Next

\* Every step of the breaker is a step of the contract or changes nothing the
\* contract sees.
LEMMA NextContract ==
    IInv /\ [Next]_vars => [Contract!Next]_(Contract!contractVars)
<1> SUFFICES ASSUME IInv, [Next]_vars
             PROVE  Contract!Next \/ UNCHANGED Contract!contractVars
    OBVIOUS
<1> USE BreakerAssumption
<1> USE DEF IInv, TypeOK, CountersAgree, RunsCounted,
            CircuitStates, Never, breakerVars, historyVars,
            Contract!contractVars
<1>1. ASSUME NEW c \in Callers, Admit(c)
      PROVE  Contract!Next \/ UNCHANGED Contract!contractVars
      BY <1>1 DEF Admit, ShouldAttemptReset, Contract!Next, Contract!Probe
<1>2. ASSUME NEW c \in Callers, Succeed(c) PROVE Contract!Success
  <2>1. okRun' = Contract!Longer(okRun) /\ failRun' = 0
        BY <1>2 DEF Succeed, Bump, Contract!Longer
  <2>2. \/ state' = state
        \/ state = "HALF_OPEN" /\ okRun' >= SuccessThreshold /\ state' = "CLOSED"
        BY <1>2, BumpFacts DEF Succeed, OnSuccess
  <2> QED
      BY <1>2, <2>1, <2>2 DEF Succeed, OnSuccess, Contract!Success
<1>3. ASSUME NEW c \in Callers, Fail(c) PROVE Contract!Failure
  <2>1. failRun' = Contract!Longer(failRun) /\ okRun' = 0
        BY <1>3 DEF Fail, Bump, Contract!Longer
  <2>2. state' = IF state = "CLOSED" /\ failRun' < FailureThreshold
                 THEN "CLOSED" ELSE "OPEN"
        BY <1>3, BumpFacts DEF Fail, OnFailure
  <2> QED
      BY <1>3, <2>1, <2>2 DEF Fail, OnFailure, Contract!Failure
<1>4. CASE Tick
      BY <1>4 DEF Tick, Contract!Next, Contract!Wait
<1>5. CASE \/ \E c \in Callers : Reject(c) \/ Cancel(c)
           \/ StoreBreaks \/ StoreHeals \/ UNCHANGED vars
      BY <1>5 DEF Reject, Cancel, StoreBreaks, StoreHeals, vars
<1> QED
    BY <1>1, <1>2, <1>3, <1>4, <1>5 DEF Next, Contract!Next

-----------------------------------------------------------------------------

\* The inductive invariant holds in every behaviour.
THEOREM Invariance == Spec => []IInv
  BY InitIInv, NextIInv, PTL DEF Spec

\* Every variable keeps its type, for any callers and thresholds.
THEOREM TypeCorrect == Spec => []TypeOK
  BY Invariance, PTL DEF IInv

\* CLOSED if and only if fewer failures than the threshold are counted; a
\* half-open breaker is short of its success threshold; a breaker that is not
\* closed has a last failure time to recover from.
THEOREM CountersAlwaysAgree == Spec => []CountersAgree
  BY Invariance, PTL DEF IInv

\* The breaker implements its contract.
THEOREM Refinement == Spec => ContractSpec
  BY Invariance, InitContract, NextContract, PTL DEF Spec, ContractSpec, Contract!Spec

-----------------------------------------------------------------------------
(* The retry pipeline around it.                                           *)

PInv == PipelineTypeOK /\ OutcomesAccounted

\* The cap keeps a delay positive.
LEMMA CappedType == ASSUME NEW d \in Nat \ {0} PROVE Capped(d * Base) \in Nat \ {0}
<1>1. d * Base \in Nat /\ d * Base >= 1
  <2>1. \A m \in Nat : \A n \in Nat : m * n \in Nat
        OBVIOUS
  <2>2. \A m, n \in Nat \ {0} : m * n # 0
        OBVIOUS
  <2> QED BY <2>1, <2>2, RetryAssumption
<1> QED BY <1>1, RetryAssumption DEF Capped

\* Every step of the pipeline is a step of the breaker or leaves it alone.
LEMMA StepIsBreakerStep == [PipelineNext]_pipelineVars => [Next]_vars
<1> SUFFICES ASSUME [PipelineNext]_pipelineVars PROVE Next \/ UNCHANGED vars
    OBVIOUS
<1>1. ASSUME NEW c \in Callers,
             \/ Begin(c) \/ Retry(c) \/ AttemptSucceeds(c) \/ AttemptFails(c)
             \/ CancelAttempt(c)
      PROVE  Next
      BY <1>1 DEF Begin, Retry, Attempt, AttemptSucceeds, AttemptFails,
                  CancelAttempt, Next
<1>2. ASSUME NEW c \in Callers, CancelSleep(c) PROVE UNCHANGED vars
      BY <1>2 DEF CancelSleep
<1>3. CASE Clock
      BY <1>3 DEF Clock, Next
<1>4. CASE StoreTurns
      BY <1>4 DEF StoreTurns, Next
<1>5. CASE UNCHANGED pipelineVars
      BY <1>5 DEF pipelineVars
<1> QED BY <1>1, <1>2, <1>3, <1>4, <1>5 DEF PipelineNext

\* The instance Breaker substitutes nothing: its steps are those of the module.
LEMMA SameBreaker == [Next]_vars => [Breaker!Next]_(Breaker!vars)
<1>1. Next => Breaker!Next
      BY DEF Next, Breaker!Next, Admit, Reject, Succeed, Fail, Cancel, Tick, StoreBreaks, StoreHeals,
             ShouldAttemptReset, OnSuccess, OnFailure, Bump, Never,
             breakerVars, historyVars,
             Breaker!Admit, Breaker!Reject, Breaker!Succeed, Breaker!Fail,
             Breaker!Cancel, Breaker!Tick, Breaker!StoreBreaks,
             Breaker!StoreHeals, Breaker!ShouldAttemptReset,
             Breaker!OnSuccess, Breaker!OnFailure, Breaker!Bump,
             Breaker!Never, Breaker!breakerVars, Breaker!historyVars
<1>2. UNCHANGED vars => UNCHANGED Breaker!vars
      BY DEF vars, breakerVars, historyVars, Breaker!vars, Breaker!breakerVars,
             Breaker!historyVars
<1> QED BY <1>1, <1>2

\* The pipeline uses the breaker as the breaker is specified.
THEOREM PipelineIsBreaker == PipelineSpec => BreakerSpec
<1>1. PipelineInit => Breaker!Init
      BY DEF PipelineInit, Init, Breaker!Init, Never, Breaker!Never
<1> QED BY <1>1, StepIsBreakerStep, SameBreaker, PTL
        DEF PipelineSpec, BreakerSpec, Breaker!Spec

-----------------------------------------------------------------------------

LEMMA InitPInv == PipelineInit => PInv
  BY BreakerAssumption, RetryAssumption
  DEF PipelineInit, Init, PInv, PipelineTypeOK, TypeOK, OutcomesAccounted,
      Phases, CallStates, CircuitStates, Never

\* A step of the breaker keeps the types of the breaker's variables.
LEMMA BreakerTypes == TypeOK /\ [Next]_vars => TypeOK'
<1> SUFFICES ASSUME TypeOK, [Next]_vars PROVE TypeOK'
    OBVIOUS
<1> USE BreakerAssumption
<1> USE DEF TypeOK, CircuitStates, CallStates, Never, breakerVars, historyVars
<1>1. \A n \in 0 .. MaxCount : Bump(n) \in 0 .. MaxCount
      BY DEF Bump
<1>2. CASE \E c \in Callers : Admit(c) \/ Reject(c) \/ Cancel(c)
      BY <1>2 DEF Admit, Reject, Cancel
<1>3. CASE \E c \in Callers : Succeed(c)
      BY <1>1, <1>3 DEF Succeed, OnSuccess
<1>4. CASE \E c \in Callers : Fail(c)
      BY <1>1, <1>4 DEF Fail, OnFailure
<1>5. CASE Tick \/ StoreBreaks \/ StoreHeals \/ UNCHANGED vars
      BY <1>5 DEF Tick, StoreBreaks, StoreHeals, vars
<1> QED BY <1>2, <1>3, <1>4, <1>5 DEF Next

\* An attempt, the first one or a later one, leaves the operation running with
\* one more hit, asleep with one more refusal, or failed with all of them used.
LEMMA AttemptKeeps ==
    ASSUME PInv, TypeOK',
           NEW c \in Callers, NEW n \in 0 .. MaxRetries, NEW d \in Nat \ {0},
           NEW h \in Nat, NEW r \in Nat, h + r = n,
           Attempt(c, n, d, h, r)
    PROVE  PInv'
<1> USE RetryAssumption
<1> USE DEF PInv, PipelineTypeOK, TypeOK, OutcomesAccounted, Phases, CallStates
<1>1. CASE Admit(c) /\ phase' = [phase EXCEPT ![c] = "running"]
      BY <1>1 DEF Attempt, Admit, Reject
<1>2. CASE Reject(c) /\ OnException(c, n, d)
  <2>1. CASE n = MaxRetries
        BY <1>2, <2>1 DEF Attempt, Admit, Reject, OnException
  <2>2. CASE n < MaxRetries
        BY <1>2, <2>2, CappedType DEF Attempt, Admit, Reject, OnException
  <2> QED BY <1>2, <2>1, <2>2 DEF OnException
<1> QED BY <1>1, <1>2 DEF Attempt

\* Every step of the pipeline keeps the books.
LEMMA NextPInv == PInv /\ [PipelineNext]_pipelineVars => PInv'
<1> SUFFICES ASSUME PInv, [PipelineNext]_pipelineVars PROVE PInv'
    OBVIOUS
<1> USE RetryAssumption
<1>a. TypeOK'
  <2>1. [Next]_vars
        BY StepIsBreakerStep
  <2> QED BY <2>1, BreakerTypes DEF PInv, PipelineTypeOK
<1>1. ASSUME NEW c \in Callers, Begin(c) PROVE PInv'
      BY <1>a, <1>1, AttemptKeeps DEF Begin
<1>2. ASSUME NEW c \in Callers, Retry(c) PROVE PInv'
  <2>1. hits[c] + refused[c] = attempt[c]
        BY <1>2 DEF Retry, PInv, OutcomesAccounted
  <2> QED BY <1>a, <1>2, <2>1, AttemptKeeps DEF Retry, PInv, PipelineTypeOK
<1> USE DEF PInv, PipelineTypeOK, TypeOK, OutcomesAccounted, Phases, CallStates
<1>3. ASSUME NEW c \in Callers, AttemptSucceeds(c) PROVE PInv'
      BY <1>a, <1>3 DEF AttemptSucceeds, Succeed
<1>4. ASSUME NEW c \in Callers, AttemptFails(c) PROVE PInv'
  <2>1. CASE attempt[c] = MaxRetries
        BY <1>a, <1>4, <2>1 DEF AttemptFails, Fail, OnException
  <2>2. CASE attempt[c] < MaxRetries
    <3>1. delay[c] \in Nat \ {0}
          OBVIOUS
    <3>2. PICK d \in Nat \ {0} : delay' = [delay EXCEPT ![c] = d]
          BY <1>4, <2>2, <3>1, CappedType DEF AttemptFails, OnException
    <3>3. /\ phase' = [phase EXCEPT ![c] = "sleeping"]
          /\ attempt' = [attempt EXCEPT ![c] = attempt[c] + 1]
          /\ nap' = [nap EXCEPT ![c] = delay[c]]
          /\ call' = [call EXCEPT ![c] = "error"]
          /\ UNCHANGED <<hits, refused>>
          /\ call[c] = "running"
          BY <1>4, <2>2 DEF AttemptFails, Fail, OnException
    <3> QED BY <1>a, <2>2, <3>1, <3>2, <3>3
  <2> QED BY <1>4, <2>1, <2>2 DEF AttemptFails, OnException
<1>5. ASSUME NEW c \in Callers, CancelAttempt(c) PROVE PInv'
      BY <1>a, <1>5 DEF CancelAttempt, Cancel
<1>6. ASSUME NEW c \in Callers, CancelSleep(c) PROVE PInv'
      BY <1>a, <1>6 DEF CancelSleep, vars
<1>7. CASE Clock
      BY <1>a, <1>7 DEF Clock, Tick, vars
<1>8. CASE StoreTurns
      BY <1>a, <1>8 DEF StoreTurns, StoreBreaks, StoreHeals, retryVars
<1>9. CASE UNCHANGED pipelineVars
      BY <1>a, <1>9 DEF pipelineVars, retryVars, vars
<1> QED BY <1>1, <1>2, <1>3, <1>4, <1>5, <1>6, <1>7, <1>8, <1>9 DEF PipelineNext

\* For any callers, retries and delays the variables keep their types.
THEOREM PipelineTypes == PipelineSpec => []PipelineTypeOK
  BY InitPInv, NextPInv, PTL DEF PipelineSpec, PInv

\* The attempts of an operation are accounted for, and its reported outcome is
\* the outcome of its last attempt.
THEOREM PipelineOutcomes == PipelineSpec => []OutcomesAccounted
  BY InitPInv, NextPInv, PTL DEF PipelineSpec, PInv

-----------------------------------------------------------------------------
(* The safety half of OperationsEnd, for any callers and any settings: how *)
(* long an operation may still go on is bounded, and every step shortens   *)
(* it or belongs to somebody else.                                         *)

\* The steps an operation has before it: each attempt left, and the sleep
\* before it.
StepsLeft(c) ==
    CASE phase[c] = "running" -> 2 * (MaxRetries - attempt[c]) + 1
      [] phase[c] = "sleeping" -> 2 * (MaxRetries - attempt[c]) + 2
      [] OTHER -> 0

\* The first sleep is the initial delay, which nothing caps; the later ones
\* are capped.
Longest == IF InitialDelay > MaxDelay THEN InitialDelay ELSE MaxDelay

OperationsBounded ==
    \A c \in Callers : /\ StepsLeft(c) \in 0 .. 2 * MaxRetries + 2
                       /\ nap[c] <= Longest /\ delay[c] <= Longest

Untouched(c) == UNCHANGED <<phase[c], attempt[c], nap[c]>>

\* A step is of one operation, which has fewer steps before it than it had or
\* has only now begun; or it is the clock's, and every sleep gets shorter; or
\* it is the database's, which touches no operation.
OperationsForward ==
    \/ \E c \in Callers :
          /\ InProgress(c) => StepsLeft(c)' < StepsLeft(c)
          /\ \A d \in Callers \ {c} : Untouched(d)
    \/ /\ UNCHANGED <<phase, attempt>>
       /\ \A c \in Callers : nap[c] > 0 => nap'[c] = nap[c] - 1
    \/ UNCHANGED <<retryVars, breakerVars, call>>

LEMMA LongestFacts ==
    /\ Longest \in Nat /\ InitialDelay <= Longest
    /\ \A d \in Nat \ {0} : Capped(d * Base) <= Longest
<1>1. Longest \in Nat /\ InitialDelay <= Longest /\ MaxDelay <= Longest
      BY RetryAssumption DEF Longest
<1>2. ASSUME NEW d \in Nat \ {0} PROVE Capped(d * Base) <= MaxDelay
  <2>1. \A n \in Nat : (IF n < MaxDelay THEN n ELSE MaxDelay) <= MaxDelay
        BY RetryAssumption
  <2>2. \A m, n \in Nat : m * n \in Nat
        OBVIOUS
  <2>3. d * Base \in Nat
        BY <2>2, RetryAssumption
  <2> QED BY <2>1, <2>3 DEF Capped
<1>3. \A d \in Nat \ {0} : Capped(d * Base) \in Nat
      BY CappedType
<1>4. ASSUME NEW d \in Nat \ {0} PROVE Capped(d * Base) <= Longest
  <2>1. \A x, y, z \in Nat : x <= y /\ y <= z => x <= z
        OBVIOUS
  <2>2. MaxDelay \in Nat
        BY RetryAssumption
  <2> QED BY <1>1, <1>2, <1>3, <2>1, <2>2
<1> QED BY <1>1, <1>4

\* No step makes a sleep, or the next one, longer than the longest.
LEMMA DelaysNext ==
    ASSUME PInv, \A c \in Callers : nap[c] <= Longest /\ delay[c] <= Longest,
           PipelineNext
    PROVE  \A c \in Callers : nap'[c] <= Longest /\ delay'[c] <= Longest
<1> DEFINE Bounded == \A c \in Callers : nap[c] <= Longest /\ delay[c] <= Longest
<1> SUFFICES Bounded'
    OBVIOUS
<1>0. /\ delay \in [Callers -> Nat \ {0}] /\ nap \in [Callers -> Nat]
      /\ Longest \in Nat /\ InitialDelay <= Longest /\ InitialDelay \in Nat \ {0}
      /\ Bounded
      BY LongestFacts, RetryAssumption DEF PInv, PipelineTypeOK
<1>1. ASSUME NEW c \in Callers, NEW n, NEW d \in Nat \ {0}, d <= Longest,
             OnException(c, n, d)
      PROVE  Bounded'
  <2>1. Capped(d * Base) <= Longest
        BY LongestFacts
  <2>2. /\ nap' = nap \/ nap' = [nap EXCEPT ![c] = d]
        /\ \/ delay' = [delay EXCEPT ![c] = d]
           \/ delay' = [delay EXCEPT ![c] = Capped(d * Base)]
        BY <1>1 DEF OnException
  <2> QED BY <1>0, <1>1, <2>1, <2>2
<1>2. ASSUME NEW c \in Callers, NEW n, NEW d \in Nat \ {0}, d <= Longest,
             NEW h, NEW r, Attempt(c, n, d, h, r)
      PROVE  Bounded'
  <2>1. CASE delay' = [delay EXCEPT ![c] = d] /\ UNCHANGED nap
        BY <1>0, <1>2, <2>1
  <2> QED BY <1>1, <1>2, <2>1 DEF Attempt
<1>3. ASSUME NEW c \in Callers, Begin(c) \/ Retry(c) \/ AttemptFails(c)
      PROVE  Bounded'
  <2>1. CASE Begin(c)
        BY <1>0, <1>2, <2>1 DEF Begin
  <2>2. delay[c] \in Nat \ {0} /\ delay[c] <= Longest
        BY <1>0
  <2>3. CASE Retry(c)
        BY <1>2, <2>2, <2>3 DEF Retry
  <2>4. CASE AttemptFails(c)
        BY <1>1, <2>2, <2>4 DEF AttemptFails
  <2> QED BY <1>3, <2>1, <2>3, <2>4
<1>4. ASSUME NEW c \in Callers,
             AttemptSucceeds(c) \/ CancelAttempt(c) \/ CancelSleep(c)
      PROVE  Bounded'
  <2>1. UNCHANGED delay /\ \A d \in Callers : nap'[d] \in {nap[d], 0}
        BY <1>0, <1>4 DEF AttemptSucceeds, CancelAttempt, CancelSleep
  <2> QED BY <1>0, <2>1
<1>5. CASE Clock
  <2>1. UNCHANGED delay /\ \A d \in Callers : nap'[d] <= nap[d] /\ nap'[d] \in Nat
        BY <1>0, <1>5 DEF Clock
  <2> QED BY <1>0, <2>1
<1>6. CASE StoreTurns
      BY <1>0, <1>6 DEF StoreTurns, retryVars
<1> QED BY <1>3, <1>4, <1>5, <1>6 DEF PipelineNext

LEMMA StepsRange == PInv => \A c \in Callers : StepsLeft(c) \in 0 .. 2 * MaxRetries + 2
<1> SUFFICES ASSUME PInv, NEW c \in Callers
             PROVE  StepsLeft(c) \in 0 .. 2 * MaxRetries + 2
    OBVIOUS
<1>1. attempt[c] \in 0 .. MaxRetries
      BY DEF PInv, PipelineTypeOK
<1> QED BY <1>1, RetryAssumption DEF StepsLeft

\* However often it is retried, an operation has at most 2 * max_retries + 2
\* steps before it, and no sleep is longer than max_delay, or than
\* initial_delay where that is the longer (RetryStrategy.execute).
THEOREM RetriesAreBounded == PipelineSpec => []OperationsBounded
<1> DEFINE Delays == \A c \in Callers : nap[c] <= Longest /\ delay[c] <= Longest
<1>1. PipelineInit => Delays
  <2>1. \A c \in Callers : 0 <= Longest
        BY LongestFacts
  <2> QED BY <2>1, LongestFacts DEF PipelineInit
<1>2. PInv /\ Delays /\ [PipelineNext]_pipelineVars => Delays'
      BY DelaysNext DEF pipelineVars, retryVars
<1>3. PInv /\ Delays => OperationsBounded
      BY StepsRange DEF OperationsBounded
<1> HIDE DEF Delays
<1> QED BY <1>1, <1>2, <1>3, InitPInv, NextPInv, PTL DEF PipelineSpec

\* An attempt uses up a step of the operation it is made for.
LEMMA AttemptForward ==
    ASSUME PInv, NEW c \in Callers, NEW n \in 0 .. MaxRetries, NEW d, NEW h, NEW r,
           Attempt(c, n, d, h, r)
    PROVE  /\ StepsLeft(c)' < 2 * (MaxRetries - n) + 2
           /\ \A e \in Callers \ {c} : Untouched(e)
<1> USE RetryAssumption
<1>0. /\ phase \in [Callers -> Phases] /\ attempt \in [Callers -> 0 .. MaxRetries]
      /\ nap \in [Callers -> Nat]
      BY DEF PInv, PipelineTypeOK
<1>1. CASE /\ phase' = [phase EXCEPT ![c] = "running"]
           /\ attempt' = [attempt EXCEPT ![c] = n] /\ UNCHANGED nap
      BY <1>0, <1>1 DEF StepsLeft, Untouched
<1>2. CASE OnException(c, n, d)
  <2>1. CASE n = MaxRetries
        BY <1>0, <1>2, <2>1 DEF OnException, StepsLeft, Untouched
  <2>2. CASE n < MaxRetries
        BY <1>0, <1>2, <2>2 DEF OnException, StepsLeft, Untouched
  <2> QED BY <2>1, <2>2
<1> QED BY <1>1, <1>2 DEF Attempt

\* Every step takes an operation nearer its end, begins one, shortens the
\* sleeps, or leaves the operations alone: an operation goes on for ever only
\* if it is never scheduled again (RetryStrategy.execute).
THEOREM OperationsGoForward == PipelineSpec => [][OperationsForward]_pipelineVars
<1>1. PInv /\ [PipelineNext]_pipelineVars => [OperationsForward]_pipelineVars
  <2> SUFFICES ASSUME PInv, PipelineNext PROVE OperationsForward
      OBVIOUS
  <2>0. /\ phase \in [Callers -> Phases] /\ attempt \in [Callers -> 0 .. MaxRetries]
        /\ nap \in [Callers -> Nat]
        BY DEF PInv, PipelineTypeOK
  <2>1. ASSUME NEW c \in Callers, Begin(c) PROVE OperationsForward
    <3>1. 0 \in 0 .. MaxRetries
          BY RetryAssumption
    <3>2. ~InProgress(c) /\ \A e \in Callers \ {c} : Untouched(e)
          BY <2>1, <3>1, AttemptForward DEF Begin
    <3> QED BY <3>2 DEF OperationsForward
  <2>2. ASSUME NEW c \in Callers, Retry(c) PROVE OperationsForward
    <3>1. StepsLeft(c) = 2 * (MaxRetries - attempt[c]) + 2
          BY <2>2 DEF Retry, StepsLeft
    <3>2. attempt[c] \in 0 .. MaxRetries
          BY <2>0
    <3>3. /\ StepsLeft(c)' < StepsLeft(c)
          /\ \A e \in Callers \ {c} : Untouched(e)
          BY <2>2, <3>1, <3>2, AttemptForward DEF Retry
    <3> QED BY <3>3 DEF OperationsForward
  <2>3. ASSUME NEW c \in Callers, AttemptFails(c) PROVE OperationsForward
    <3>1. phase[c] = "running"
          BY <2>3 DEF AttemptFails, Fail, PInv, OutcomesAccounted
    <3>2. OnException(c, attempt[c], delay[c])
          BY <2>3 DEF AttemptFails
    <3>3. StepsLeft(c)' < StepsLeft(c)
      <4>1. CASE attempt[c] = MaxRetries
            BY <2>0, <3>1, <3>2, <4>1, RetryAssumption DEF OnException, StepsLeft
      <4>2. CASE attempt[c] < MaxRetries
            BY <2>0, <3>1, <3>2, <4>2, RetryAssumption DEF OnException, StepsLeft
      <4> QED BY <3>2, <4>1, <4>2 DEF OnException
    <3>4. \A e \in Callers \ {c} : Untouched(e)
          BY <2>0, <3>2 DEF OnException, Untouched
    <3> QED BY <3>3, <3>4 DEF OperationsForward
  <2>4. ASSUME NEW c \in Callers,
               AttemptSucceeds(c) \/ CancelAttempt(c) \/ CancelSleep(c)
        PROVE  OperationsForward
    <3>1. phase[c] \in {"running", "sleeping"}
          BY <2>4 DEF AttemptSucceeds, CancelAttempt, CancelSleep, Succeed, Cancel,
                      PInv, OutcomesAccounted
    <3>2. /\ phase'[c] \in {"ok", "cancelled"}
          /\ \A e \in Callers \ {c} : Untouched(e)
          BY <2>0, <2>4 DEF AttemptSucceeds, CancelAttempt, CancelSleep, Untouched
    <3>3. StepsLeft(c)' = 0
          BY <3>2 DEF StepsLeft
    <3>4. StepsLeft(c) > 0
          BY <2>0, <3>1, RetryAssumption DEF StepsLeft
    <3> QED BY <3>2, <3>3, <3>4 DEF OperationsForward
  <2>5. CASE Clock
        BY <2>0, <2>5 DEF Clock, OperationsForward
  <2>6. CASE StoreTurns
        BY <2>6 DEF StoreTurns, StoreBreaks, StoreHeals, OperationsForward
  <2> QED BY <2>1, <2>2, <2>3, <2>4, <2>5, <2>6 DEF PipelineNext
<1> QED BY <1>1, InitPInv, NextPInv, PTL DEF PipelineSpec

-----------------------------------------------------------------------------
(* The startup and its migrations.                                         *)

Resting == {"idle", "waiting", "connecting", "using", "done", "failed"}
Running == {"creating", "listing", "executing", "recording"}

\* Every variable keeps its type.
StartupTypeOK ==
    /\ setting \in BOOLEAN /\ initialized \in BOOLEAN
    /\ disabled \in BOOLEAN /\ enabled \in BOOLEAN
    /\ lock \in Tasks \cup {None}
    /\ path \in Paths /\ nsRun \subseteq Paths
    /\ pc \in [Tasks -> Resting \cup Running]
    /\ stage \in [Tasks -> {"none", "core", "namespace", "manual"}]
    /\ plan \in [Tasks -> Paths]
    /\ todo \in [Tasks -> SUBSET Nat]
    /\ left \in [Tasks -> SUBSET DOMAIN Registered]
    /\ saved \in [Tasks -> [path : Paths, enabled : BOOLEAN, disabled : BOOLEAN]]
    /\ executed \in [Scripts -> Nat]
    /\ lost \in [Scripts -> Nat]
    /\ faults \in Nat

\* Who connects or runs the core's or a namespace's migrations has the lock; a
\* runner of any kind runs on a connected store.
LockHeld ==
    /\ \A t \in Tasks :
          /\ lock = t <=> pc[t] = "connecting" \/ stage[t] \in {"core", "namespace"}
          /\ stage[t] = "none" <=> pc[t] \in Resting
          /\ pc[t] = "connecting" => ~initialized
          /\ stage[t] # "none" \/ pc[t] = "using" => initialized
          /\ stage[t] = "core" => plan[t] = "core"
          /\ stage[t] = "namespace" => plan[t] # "core"
          /\ stage[t] = "manual" => t \in Manuals /\ plan[t] = t
    /\ ~initialized => path = "core" /\ enabled = setting

\* A runner's files are those its directory has and the table does not; the one
\* to be recorded has been executed.
RunsSound ==
    \A t \in Tasks :
        /\ pc[t] \in {"executing", "recording"} =>
              /\ todo[t] \subseteq DOMAIN Files[plan[t]]
              /\ \A i \in DOMAIN Files[plan[t]] \ todo[t] : Files[plan[t]][i] \in recorded
        /\ pc[t] = "recording" =>
              \A i \in todo[t] : First(i, todo[t]) => executed[Script(plan[t], i)] > 0

\* The run t is in may still execute s.
MayStill(t, s) ==
    /\ plan[t] = s[1]
    /\ \/ pc[t] \in {"creating", "listing"} /\ s[2] \notin recorded
       \/ /\ pc[t] \in {"executing", "recording"}
          /\ \E i \in todo[t] :
                /\ s[2] = Files[s[1]][i]
                /\ pc[t] = "recording" => ~First(i, todo[t])

\* The critical section t is in has the directory of s still before it.
Later(t, s) ==
    \/ stage[t] = "core" /\ s[1] # "core"
    \/ stage[t] = "namespace" /\ s[1] # plan[t] /\ \E i \in left[t] : s[1] = Registered[i]

\* s may still be executed, in the life of this process, under the lock ...
InLock(t, s) ==
    /\ stage[t] \in {"core", "namespace"}
    /\ MayStill(t, s) \/ (Later(t, s) /\ s[2] \notin recorded)

LockMay(s) ==
    \/ ~initialized /\ s[2] \notin recorded
    \/ \E t \in Tasks : InLock(t, s)

\* ... and by the manual run of its namespace.
ManualMay(s) ==
    /\ s[1] \in Manuals
    /\ \/ pc[s[1]] \in {"idle", "waiting", "connecting"} /\ s[2] \notin recorded
       \/ stage[s[1]] \in {"core", "namespace"} /\ s[2] \notin recorded
       \/ stage[s[1]] = "manual" /\ MayStill(s[1], s)

Once(b) == IF b THEN 1 ELSE 0

Allowed(s) == IF s[1] \in Manuals THEN 2 + 2 * lost[s] ELSE 1 + lost[s]

\* How often s has been executed and may still be is within the bound.
Fits(s) == executed[s] + Once(LockMay(s)) + Once(ManualMay(s)) <= Allowed(s)

Budget == \A s \in Scripts : Fits(s)

\* As long as nothing fails and no manual run begins: whoever connects finds
\* the migrations enabled, and runs the core's.
CoreFirst ==
    setting /\ faults = 0 /\ (\A m \in Manuals : pc[m] = "idle") =>
        /\ ~initialized => ~disabled
        /\ initialized => CoreFiles \subseteq recorded \/ \E t \in Tasks : stage[t] = "core"

StartupInv ==
    /\ StartupTypeOK
    /\ LockHeld
    /\ RunsSound
    /\ RecordedIsExecuted
    /\ Budget
    /\ CoreFirst

-----------------------------------------------------------------------------
(* What the helpers do to a task.                                          *)

\* t leaves the critical section, to go on as a query, a startup or a manual
\* run.
LeavesLock(t) ==
    /\ lock' = None
    /\ \/ \E r \in {"using", "done"} : Rest(t, r)
       \/ t \in Manuals /\ StartRun(t, "manual", t)

\* t runs the next of the namespaces in rest that are not in done.
GoesOn(t, rest, done) ==
    /\ lock' = lock
    /\ left' = [left EXCEPT ![t] = {i \in rest : Registered[i] \notin done}]
    /\ \E i \in rest : Registered[i] \notin done /\ StartRun(t, "namespace", Registered[i])

\* The values the settings and the saved ones keep.
SettingsTyped ==
    /\ path' \in Paths /\ enabled' \in BOOLEAN /\ disabled' \in BOOLEAN
    /\ saved' \in [Tasks -> [path : Paths, enabled : BOOLEAN, disabled : BOOLEAN]]
    /\ left' \in [Tasks -> SUBSET DOMAIN Registered]

LEMMA AfterEnsureEffect ==
    ASSUME StartupTypeOK, NEW t \in Tasks, NEW p \in Paths, NEW e \in BOOLEAN,
           NEW d \in BOOLEAN, AfterEnsure(t, p, e, d)
    PROVE  /\ path' \in Paths /\ enabled' \in BOOLEAN /\ disabled' \in BOOLEAN
           /\ saved' \in [Tasks -> [path : Paths, enabled : BOOLEAN, disabled : BOOLEAN]]
           /\ \/ \E r \in {"using", "done"} : Rest(t, r)
              \/ t \in Manuals /\ StartRun(t, "manual", t)
<1> USE StartupAssumption
<1>1. \A m \in Manuals : m \in Paths
      BY DEF Paths
<1>2. CASE t \in Manuals
  <2>1. /\ saved' = [saved EXCEPT ![t].path = p] /\ StartRun(t, "manual", t)
        /\ path' = t /\ enabled' = e /\ disabled' = saved[t].disabled
        BY <1>2 DEF AfterEnsure
  <2>2. saved \in [Tasks -> [path : Paths, enabled : BOOLEAN, disabled : BOOLEAN]]
        BY DEF StartupTypeOK
  <2> QED BY <1>1, <1>2, <2>1, <2>2
<1>3. CASE t \notin Manuals
      BY <1>3 DEF AfterEnsure, StartupTypeOK
<1> QED BY <1>2, <1>3

LEMMA ContinueEffect ==
    ASSUME StartupTypeOK, NEW t \in Tasks, NEW rest \in SUBSET DOMAIN Registered,
           NEW p \in Paths, NEW e \in BOOLEAN, NEW done, Continue(t, rest, p, e, done)
    PROVE  SettingsTyped /\ (LeavesLock(t) \/ GoesOn(t, rest, done))
<1> USE StartupAssumption
<1>1. CASE /\ lock' = None
           /\ left' = [left EXCEPT ![t] = {}]
           /\ AfterEnsure(t, p, e, disabled)
      BY <1>1, AfterEnsureEffect DEF StartupTypeOK, SettingsTyped, LeavesLock
<1>2. ASSUME NEW i \in {j \in rest : Registered[j] \notin done},
             saved' = [saved EXCEPT ![t].path = p, ![t].enabled = e],
             left' = [left EXCEPT ![t] = {j \in rest : Registered[j] \notin done}],
             path' = Registered[i],
             enabled' = TRUE,
             StartRun(t, "namespace", Registered[i]),
             UNCHANGED <<lock, disabled>>
      PROVE  SettingsTyped /\ GoesOn(t, rest, done)
  <2>1. Registered[i] \in Paths
        BY DEF Paths
  <2>2. saved \in [Tasks -> [path : Paths, enabled : BOOLEAN, disabled : BOOLEAN]]
        /\ left \in [Tasks -> SUBSET DOMAIN Registered] /\ disabled \in BOOLEAN
        BY DEF StartupTypeOK
  <2>3. saved' \in [Tasks -> [path : Paths, enabled : BOOLEAN, disabled : BOOLEAN]]
        BY <1>2, <2>2
  <2>4. left' \in [Tasks -> SUBSET DOMAIN Registered]
        BY <1>2, <2>2
  <2>5. GoesOn(t, rest, done)
        BY <1>2 DEF GoesOn
  <2> QED BY <1>2, <2>1, <2>2, <2>3, <2>4, <2>5 DEF SettingsTyped
<1> QED BY <1>1, <1>2 DEF Continue

LEMMA RunEndsEffect ==
    ASSUME StartupTypeOK, NEW t \in Tasks, RunEnds(t)
    PROVE  /\ SettingsTyped /\ nsRun' \subseteq nsRun \cup {t, plan[t]}
           /\ \/ /\ stage[t] = "core"
                 /\ \/ LeavesLock(t)
                    \/ GoesOn(t, DOMAIN Registered, nsRun)
              \/ /\ stage[t] = "namespace"
                 /\ LeavesLock(t) \/ GoesOn(t, left[t], nsRun \cup {plan[t]})
              \/ /\ stage[t] = "manual"
                 /\ lock' = lock /\ Rest(t, "done")
<1>1. CASE stage[t] = "core" /\ AfterCore(t) /\ UNCHANGED nsRun
  <2>1. CASE disabled
    <3>1. Continue(t, {}, path, enabled, nsRun)
          BY <1>1, <2>1 DEF AfterCore
    <3>2. SettingsTyped /\ (LeavesLock(t) \/ GoesOn(t, {}, nsRun))
          BY <3>1, ContinueEffect DEF StartupTypeOK
    <3> QED BY <1>1, <3>2 DEF GoesOn
  <2>2. CASE ~disabled
    <3>1. Continue(t, DOMAIN Registered, path, enabled, nsRun)
          BY <1>1, <2>2 DEF AfterCore
    <3> QED BY <1>1, <3>1, ContinueEffect DEF StartupTypeOK
  <2> QED BY <2>1, <2>2
<1>2. CASE /\ stage[t] = "namespace"
           /\ nsRun' = nsRun \cup {plan[t]}
           /\ Continue(t, left[t], saved[t].path, saved[t].enabled, nsRun')
      BY <1>2, ContinueEffect DEF StartupTypeOK
<1>3. CASE /\ stage[t] = "manual"
           /\ path' = saved[t].path
           /\ nsRun' = nsRun \cup {t}
           /\ Rest(t, "done")
           /\ UNCHANGED <<lock, disabled, enabled, left, saved>>
      BY <1>3 DEF StartupTypeOK, SettingsTyped
<1> QED BY <1>1, <1>2, <1>3 DEF RunEnds

-----------------------------------------------------------------------------

LEMMA TasksOf ==
    /\ Manuals \subseteq Paths /\ Manuals \subseteq Tasks
    /\ \A i \in DOMAIN Registered : Registered[i] \in Paths \ {"core"}
    /\ \A n \in Paths : \A i \in DOMAIN Files[n] : Script(n, i) \in Scripts
<1> USE StartupAssumption
<1>1. \A i \in DOMAIN Registered : Registered[i] \in Paths \ {"core"}
      BY DEF Paths
<1>2. \A n \in Paths : \A i \in DOMAIN Files[n] : Script(n, i) \in Scripts
      BY DEF Scripts
<1> QED BY <1>1, <1>2 DEF Tasks

\* How a task moves: only its own entries change.
Moves(t) ==
    /\ \E s \in Resting \cup Running : pc' = [pc EXCEPT ![t] = s]
    /\ \/ stage' = stage
       \/ \E w \in {"none", "core", "namespace", "manual"} : stage' = [stage EXCEPT ![t] = w]
    /\ plan' = plan \/ \E p \in Paths : plan' = [plan EXCEPT ![t] = p]

LEMMA MovesTyped ==
    ASSUME StartupTypeOK, NEW t \in Tasks, Moves(t)
    PROVE  /\ pc' \in [Tasks -> Resting \cup Running]
           /\ stage' \in [Tasks -> {"none", "core", "namespace", "manual"}]
           /\ plan' \in [Tasks -> Paths]
BY DEF StartupTypeOK, Moves

LEMMA RestMoves ==
    ASSUME NEW t \in Tasks, NEW s \in Resting, Rest(t, s)
    PROVE  Moves(t)
BY DEF Rest, Moves

LEMMA StartRunMoves ==
    ASSUME NEW t \in Tasks, NEW w \in {"core", "namespace", "manual"}, NEW p \in Paths,
           StartRun(t, w, p)
    PROVE  Moves(t)
<1>1. "creating" \in Resting \cup Running
      BY DEF Running
<1> QED BY <1>1 DEF StartRun, Moves

LEMMA LeavesMoves ==
    ASSUME NEW t \in Tasks, LeavesLock(t)
    PROVE  Moves(t) /\ lock' = None
BY RestMoves, StartRunMoves, TasksOf DEF LeavesLock, Resting

LEMMA GoesOnMoves ==
    ASSUME NEW t \in Tasks, NEW rest \in SUBSET DOMAIN Registered, NEW done,
           GoesOn(t, rest, done)
    PROVE  Moves(t) /\ lock' = lock
BY StartRunMoves, TasksOf DEF GoesOn

LEMMA RunEndsMoves ==
    ASSUME StartupTypeOK, LockHeld, NEW t \in Tasks, RunEnds(t)
    PROVE  Moves(t) /\ SettingsTyped /\ lock' \in Tasks \cup {None} /\ nsRun' \subseteq Paths
<1>1. nsRun' \subseteq Paths
  <2>1. plan[t] \in Paths /\ nsRun \subseteq Paths
        BY DEF StartupTypeOK
  <2>2. stage[t] = "manual" => t \in Paths
        BY TasksOf DEF LockHeld
  <2> QED BY <2>1, <2>2 DEF RunEnds
<1>2. left[t] \in SUBSET DOMAIN Registered /\ DOMAIN Registered \in SUBSET DOMAIN Registered
      BY DEF StartupTypeOK
<1>3. lock \in Tasks \cup {None} /\ SettingsTyped
      BY RunEndsEffect DEF StartupTypeOK
<1>4. CASE LeavesLock(t)
      BY <1>1, <1>3, <1>4, LeavesMoves
<1>5. CASE \/ GoesOn(t, DOMAIN Registered, nsRun)
           \/ GoesOn(t, left[t], nsRun \cup {plan[t]})
      BY <1>1, <1>2, <1>3, <1>5, GoesOnMoves
<1>6. CASE lock' = lock /\ Rest(t, "done")
  <2>1. Moves(t)
        BY <1>6, RestMoves DEF Resting
  <2> QED BY <1>1, <1>3, <1>6, <2>1
<1> QED BY <1>4, <1>5, <1>6, RunEndsEffect

LEMMA ExecutesMoves ==
    ASSUME StartupTypeOK, LockHeld, NEW t \in Tasks, NEW files, Executes(t, files)
    PROVE  Moves(t) /\ SettingsTyped /\ lock' \in Tasks \cup {None} /\ nsRun' \subseteq Paths
<1>1. CASE RunEnds(t)
      BY <1>1, RunEndsMoves
<1>2. CASE /\ pc' = [pc EXCEPT ![t] = "executing"]
           /\ UNCHANGED <<lock, disabled, enabled, path, nsRun, stage, plan, left, saved>>
  <2>1. Moves(t)
        BY <1>2 DEF Moves, Running
  <2> QED BY <1>2, <2>1 DEF StartupTypeOK, SettingsTyped
<1> QED BY <1>1, <1>2 DEF Executes

LEMMA FilesAreNat ==
    ASSUME StartupTypeOK, NEW t \in Tasks
    PROVE  DOMAIN Files[plan[t]] \subseteq Nat
BY StartupAssumption DEF StartupTypeOK

LEMMA TypeStep ==
    ASSUME StartupTypeOK, LockHeld, StartupNext
    PROVE  StartupTypeOK'
<1> USE StartupAssumption
<1>1. ASSUME NEW t \in Tasks, Enter(t)
      PROVE  StartupTypeOK'
  <2>1. CASE t \in Manuals /\ initialized
    <3>1. StartRun(t, "manual", t) /\ t \in Paths
          BY <1>1, <2>1, TasksOf DEF Enter
    <3>2. Moves(t)
          BY <3>1, StartRunMoves
    <3>3. saved' = [saved EXCEPT ![t].path = path] /\ path' = t
          BY <1>1, <2>1 DEF Enter
    <3>4. saved' \in [Tasks -> [path : Paths, enabled : BOOLEAN, disabled : BOOLEAN]]
          BY <3>3 DEF StartupTypeOK
    <3>5. UNCHANGED <<setting, initialized, lock, nsRun, todo, left, enabled, disabled,
                      database, faults>>
          BY <1>1, <2>1 DEF Enter
    <3> QED BY <3>1, <3>2, <3>3, <3>4, <3>5, MovesTyped DEF StartupTypeOK, database
  <2>2. CASE t \notin Manuals /\ initialized
    <3>1. AfterEnsure(t, path, enabled, disabled)
          BY <1>1, <2>2 DEF Enter
    <3>2. path \in Paths /\ enabled \in BOOLEAN /\ disabled \in BOOLEAN
          BY DEF StartupTypeOK
    <3>3. Moves(t)
          BY <3>1, <3>2, AfterEnsureEffect, RestMoves, StartRunMoves, TasksOf DEF Resting
    <3> QED BY <1>1, <3>1, <3>2, <3>3, AfterEnsureEffect, MovesTyped
            DEF Enter, StartupTypeOK, database
  <2>3. CASE ~initialized
    <3>1. Moves(t)
          BY <1>1, <2>3 DEF Enter, Moves, Resting
    <3>2. saved' \in [Tasks -> [path : Paths, enabled : BOOLEAN, disabled : BOOLEAN]]
      <4>1. CASE t \in Manuals
        <5>1. saved' = [saved EXCEPT ![t].disabled = disabled]
              BY <1>1, <2>3, <4>1 DEF Enter
        <5> QED BY <5>1 DEF StartupTypeOK
      <4>2. CASE t \notin Manuals
            BY <1>1, <2>3, <4>2 DEF Enter, StartupTypeOK
      <4> QED BY <4>1, <4>2
    <3>3. disabled' \in BOOLEAN
          BY <1>1, <2>3 DEF Enter, StartupTypeOK
    <3>4. UNCHANGED <<setting, initialized, lock, nsRun, todo, left, enabled, path,
                      database, faults>>
          BY <1>1, <2>3 DEF Enter
    <3> QED BY <3>1, <3>2, <3>3, <3>4, MovesTyped DEF StartupTypeOK, database
  <2> QED BY <2>1, <2>2, <2>3 DEF StartupTypeOK
<1>2. ASSUME NEW t \in Tasks, EnterNothing(t) \/ Use(t)
      PROVE  StartupTypeOK'
  <2>1. Rest(t, "done")
        BY <1>2 DEF EnterNothing, Use
  <2>2. Moves(t)
        BY <2>1, RestMoves DEF Resting
  <2> QED BY <1>2, <2>2, MovesTyped DEF EnterNothing, Use, StartupTypeOK, process, database
<1>3. ASSUME NEW t \in Tasks, Acquire(t)
      PROVE  StartupTypeOK'
  <2>1. CASE initialized
    <3>1. AfterEnsure(t, path, enabled, disabled)
          BY <1>3, <2>1 DEF Acquire
    <3>2. path \in Paths /\ enabled \in BOOLEAN /\ disabled \in BOOLEAN
          BY DEF StartupTypeOK
    <3>3. Moves(t)
          BY <3>1, <3>2, AfterEnsureEffect, RestMoves, StartRunMoves, TasksOf DEF Resting
    <3> QED BY <1>3, <2>1, <3>1, <3>2, <3>3, AfterEnsureEffect, MovesTyped
            DEF Acquire, StartupTypeOK, database
  <2>2. CASE ~initialized
    <3>1. Moves(t)
          BY <1>3, <2>2 DEF Acquire, Moves, Resting
    <3> QED BY <1>3, <2>2, <3>1, MovesTyped DEF Acquire, StartupTypeOK, database
  <2> QED BY <2>1, <2>2 DEF StartupTypeOK
<1>4. ASSUME NEW t \in Tasks, Connect(t)
      PROVE  StartupTypeOK'
  <2>1. CASE ~disabled /\ enabled
    <3>1. StartRun(t, "core", path) /\ path \in Paths
          BY <1>4, <2>1 DEF Connect, StartupTypeOK
    <3>2. Moves(t)
          BY <3>1, StartRunMoves
    <3> QED BY <1>4, <2>1, <3>2, MovesTyped DEF Connect, StartupTypeOK, database
  <2>2. CASE AfterCore(t)
    <3>1. \E rest \in SUBSET DOMAIN Registered : Continue(t, rest, path, enabled, nsRun)
          BY <2>2 DEF AfterCore
    <3>2. PICK rest \in SUBSET DOMAIN Registered : Continue(t, rest, path, enabled, nsRun)
          BY <3>1
    <3>3. SettingsTyped /\ (LeavesLock(t) \/ GoesOn(t, rest, nsRun))
          BY <3>2, ContinueEffect DEF StartupTypeOK
    <3>4. Moves(t) /\ lock' \in Tasks \cup {None}
          BY <3>3, LeavesMoves, GoesOnMoves DEF StartupTypeOK
    <3> QED BY <1>4, <3>3, <3>4, MovesTyped DEF Connect, StartupTypeOK, SettingsTyped, database
  <2> QED BY <1>4, <2>1, <2>2 DEF Connect
<1>5. ASSUME NEW t \in Tasks, CreateTable(t)
      PROVE  StartupTypeOK'
      BY <1>5 DEF CreateTable, StartupTypeOK, process, database, Running
<1>6. ASSUME NEW t \in Tasks, List(t)
      PROVE  StartupTypeOK'
  <2>1. Moves(t) /\ SettingsTyped /\ lock' \in Tasks \cup {None} /\ nsRun' \subseteq Paths
        BY <1>6, ExecutesMoves DEF List
  <2>2. todo' \in [Tasks -> SUBSET Nat]
        BY <1>6, FilesAreNat DEF List, Pending, StartupTypeOK
  <2> QED BY <1>6, <2>1, <2>2, MovesTyped DEF List, StartupTypeOK, SettingsTyped, database
<1>7. ASSUME NEW t \in Tasks, ListFails(t)
      PROVE  StartupTypeOK'
  <2>1. Moves(t) /\ SettingsTyped /\ lock' \in Tasks \cup {None} /\ nsRun' \subseteq Paths
        BY <1>7, ExecutesMoves DEF ListFails
  <2>2. todo' \in [Tasks -> SUBSET Nat]
        BY <1>7, FilesAreNat DEF ListFails, Pending, StartupTypeOK
  <2>3. lost' \in [Scripts -> Nat]
        BY <1>7 DEF ListFails, StartupTypeOK
  <2> QED BY <1>7, <2>1, <2>2, <2>3, MovesTyped DEF ListFails, StartupTypeOK, SettingsTyped
<1>8. ASSUME NEW t \in Tasks, Runs(t)
      PROVE  executed' \in [Scripts -> Nat]
  <2>1. PICK x : executed' = [executed EXCEPT ![x] = @ + 1]
        BY <1>8 DEF Runs
  <2>2. executed \in [Scripts -> Nat]
        BY DEF StartupTypeOK
  <2>3. \A s \in Scripts : executed'[s] = IF s = x THEN executed[s] + 1 ELSE executed[s]
        BY <2>1, <2>2
  <2>4. executed' = [s \in Scripts |-> executed'[s]]
        BY <2>1, <2>2
  <2> QED BY <2>2, <2>3, <2>4
<1>9. ASSUME NEW t \in Tasks, Execute(t)
      PROVE  StartupTypeOK'
      BY <1>8, <1>9 DEF Execute, StartupTypeOK, process, Running
<1>10. ASSUME NEW t \in Tasks, Record(t)
       PROVE  StartupTypeOK'
  <2>1. Moves(t) /\ SettingsTyped /\ lock' \in Tasks \cup {None} /\ nsRun' \subseteq Paths
        BY <1>10, ExecutesMoves DEF Record
  <2>2. todo' \in [Tasks -> SUBSET Nat]
        BY <1>10 DEF Record, StartupTypeOK
  <2> QED BY <1>10, <2>1, <2>2, MovesTyped DEF Record, StartupTypeOK, SettingsTyped
<1>11. LosesTrack \in [Scripts -> Nat]
       BY DEF LosesTrack, StartupTypeOK
<1>12. ASSUME NEW t \in Tasks, Fault(t)
       PROVE  StartupTypeOK'
  <2>1. Moves(t)
        BY <1>12, RestMoves DEF Fault, Resting
  <2>2. executed' \in [Scripts -> Nat]
        BY <1>8, <1>12 DEF Fault, StartupTypeOK
  <2>3. lock' \in Tasks \cup {None}
        BY <1>12 DEF Fault, StartupTypeOK
  <2>4. lost' \in [Scripts -> Nat] /\ faults' \in Nat
        BY <1>11, <1>12 DEF Fault, StartupTypeOK
  <2> QED BY <1>12, <2>1, <2>2, <2>3, <2>4, MovesTyped DEF Fault, StartupTypeOK
<1>13. ASSUME Crash
       PROVE  StartupTypeOK'
  <2>1. /\ pc' \in [Tasks -> Resting \cup Running]
        /\ stage' \in [Tasks -> {"none", "core", "namespace", "manual"}]
        /\ plan' \in [Tasks -> Paths]
        /\ todo' \in [Tasks -> SUBSET Nat]
        /\ left' \in [Tasks -> SUBSET DOMAIN Registered]
        /\ saved' \in [Tasks -> [path : Paths, enabled : BOOLEAN, disabled : BOOLEAN]]
        BY <1>13 DEF Crash, NotSaved, Resting
  <2>2. lost' \in [Scripts -> Nat]
        BY <1>11, <1>13 DEF Crash
  <2>3. /\ UNCHANGED <<setting, executed>>
        /\ initialized' = FALSE /\ lock' = None /\ disabled' = FALSE
        /\ enabled' = setting /\ path' = "core" /\ nsRun' = {} /\ faults' = faults + 1
        BY <1>13 DEF Crash
  <2>4. /\ setting' \in BOOLEAN /\ initialized' \in BOOLEAN
        /\ disabled' \in BOOLEAN /\ enabled' \in BOOLEAN
        BY <2>3 DEF StartupTypeOK
  <2>5. /\ lock' \in Tasks \cup {None} /\ path' \in Paths /\ nsRun' \subseteq Paths
        /\ executed' \in [Scripts -> Nat] /\ faults' \in Nat
        BY <2>3 DEF StartupTypeOK
  <2> QED BY <2>1, <2>2, <2>4, <2>5 DEF StartupTypeOK
<1> QED BY <1>1, <1>2, <1>3, <1>4, <1>5, <1>6, <1>7, <1>9, <1>10, <1>12, <1>13
        DEF StartupNext, Step

-----------------------------------------------------------------------------
(* Who has the lock.                                                       *)

LEMMA LeavesKeepsLock ==
    ASSUME StartupTypeOK, LockHeld, NEW t \in Tasks, LeavesLock(t), lock = t, initialized'
    PROVE  LockHeld'
<1> USE StartupAssumption
<1>1. ASSUME NEW r \in {"using", "done"}, Rest(t, r)
      PROVE  LockHeld'
      BY <1>1 DEF LeavesLock, Rest, StartupTypeOK, LockHeld, Resting
<1>2. CASE t \in Manuals /\ StartRun(t, "manual", t)
      BY <1>2 DEF LeavesLock, StartRun, StartupTypeOK, LockHeld, Resting
<1> QED BY <1>1, <1>2 DEF LeavesLock

LEMMA GoesOnKeepsLock ==
    ASSUME StartupTypeOK, LockHeld, NEW t \in Tasks, NEW rest \in SUBSET DOMAIN Registered,
           NEW done, GoesOn(t, rest, done), lock = t, initialized'
    PROVE  LockHeld'
<1> USE StartupAssumption
<1>1. PICK i \in rest : StartRun(t, "namespace", Registered[i])
      BY DEF GoesOn
<1>2. Registered[i] # "core"
      BY TasksOf
<1> QED BY <1>1, <1>2 DEF GoesOn, StartRun, StartupTypeOK, LockHeld, Resting

LEMMA RunEndsKeepsLock ==
    ASSUME StartupTypeOK, LockHeld, NEW t \in Tasks, RunEnds(t), UNCHANGED initialized
    PROVE  LockHeld'
<1> USE StartupAssumption
<1>1. left[t] \in SUBSET DOMAIN Registered /\ DOMAIN Registered \in SUBSET DOMAIN Registered
      BY DEF StartupTypeOK
<1>2. initialized
      BY RunEndsEffect DEF LockHeld
<1>3. CASE stage[t] \in {"core", "namespace"}
  <2>1. lock = t
        BY <1>3 DEF LockHeld
  <2> QED BY <1>1, <1>2, <1>3, <2>1, RunEndsEffect, LeavesKeepsLock, GoesOnKeepsLock
<1>4. CASE stage[t] = "manual" /\ lock' = lock /\ Rest(t, "done")
      BY <1>2, <1>4 DEF Rest, StartupTypeOK, LockHeld, Resting
<1> QED BY <1>3, <1>4, RunEndsEffect

LEMMA ExecutesKeepsLock ==
    ASSUME StartupTypeOK, LockHeld, NEW t \in Tasks, NEW files, Executes(t, files),
           UNCHANGED <<initialized, setting>>, pc[t] \in Running
    PROVE  LockHeld'
<1>1. CASE RunEnds(t)
      BY <1>1, RunEndsKeepsLock
<1>2. CASE /\ pc' = [pc EXCEPT ![t] = "executing"]
           /\ UNCHANGED <<lock, disabled, enabled, path, nsRun, stage, plan, left, saved>>
      BY <1>2 DEF StartupTypeOK, LockHeld, Resting, Running
<1> QED BY <1>1, <1>2 DEF Executes

LEMMA AfterEnsureKeepsLock ==
    ASSUME StartupTypeOK, LockHeld, NEW t \in Tasks, AfterEnsure(t, path, enabled, disabled),
           pc[t] \in {"idle", "waiting"}, initialized, UNCHANGED <<initialized, lock>>
    PROVE  LockHeld'
<1> USE StartupAssumption
<1>1. /\ \/ \E r \in {"using", "done"} : Rest(t, r)
         \/ t \in Manuals /\ StartRun(t, "manual", t)
      BY AfterEnsureEffect DEF StartupTypeOK
<1>2. ASSUME NEW r \in {"using", "done"}, Rest(t, r)
      PROVE  LockHeld'
      BY <1>2 DEF Rest, StartupTypeOK, LockHeld, Resting
<1>3. CASE t \in Manuals /\ StartRun(t, "manual", t)
      BY <1>3 DEF StartRun, StartupTypeOK, LockHeld, Resting
<1> QED BY <1>1, <1>2, <1>3

LEMMA LockStep ==
    ASSUME StartupTypeOK, LockHeld, StartupNext
    PROVE  LockHeld'
<1> USE StartupAssumption
<1>1. ASSUME NEW t \in Tasks, Enter(t)
      PROVE  LockHeld'
  <2>1. CASE t \in Manuals /\ initialized
    <3>1. StartRun(t, "manual", t) /\ UNCHANGED <<initialized, lock>> /\ pc[t] = "idle"
          BY <1>1, <2>1 DEF Enter
    <3> QED BY <2>1, <3>1 DEF StartRun, StartupTypeOK, LockHeld, Resting
  <2>2. CASE t \notin Manuals /\ initialized
    <3>1. /\ AfterEnsure(t, path, enabled, disabled)
          /\ UNCHANGED <<initialized, lock>> /\ pc[t] = "idle"
          BY <1>1, <2>2 DEF Enter
    <3> QED BY <2>2, <3>1, AfterEnsureKeepsLock
  <2>3. CASE ~initialized
    <3>1. /\ pc' = [pc EXCEPT ![t] = "waiting"] /\ pc[t] = "idle"
          /\ UNCHANGED <<initialized, lock, setting, path, enabled, stage, plan>>
          BY <1>1, <2>3 DEF Enter
    <3> QED BY <2>3, <3>1 DEF StartupTypeOK, LockHeld, Resting
  <2> QED BY <2>1, <2>2, <2>3 DEF StartupTypeOK
<1>2. ASSUME NEW t \in Tasks, EnterNothing(t) \/ Use(t)
      PROVE  LockHeld'
      BY <1>2 DEF EnterNothing, Use, Rest, StartupTypeOK, LockHeld, Resting, process
<1>3. ASSUME NEW t \in Tasks, Acquire(t)
      PROVE  LockHeld'
  <2>1. CASE initialized
    <3>1. /\ AfterEnsure(t, path, enabled, disabled)
          /\ UNCHANGED <<initialized, lock>> /\ pc[t] = "waiting"
          BY <1>3, <2>1 DEF Acquire
    <3> QED BY <2>1, <3>1, AfterEnsureKeepsLock
  <2>2. CASE ~initialized
    <3>1. /\ pc[t] = "waiting" /\ lock = None /\ lock' = t
          /\ pc' = [pc EXCEPT ![t] = "connecting"]
          /\ UNCHANGED <<path, enabled, setting, stage, plan, initialized>>
          BY <1>3, <2>2 DEF Acquire
    <3> QED BY <2>2, <3>1 DEF StartupTypeOK, LockHeld, Resting
  <2> QED BY <2>1, <2>2 DEF StartupTypeOK
<1>4. ASSUME NEW t \in Tasks, Connect(t)
      PROVE  LockHeld'
  <2>1. CASE ~disabled /\ enabled
    <3>1. StartRun(t, "core", path) /\ UNCHANGED lock /\ pc[t] = "connecting" /\ initialized'
          BY <1>4, <2>1 DEF Connect
    <3>2. path = "core" /\ lock = t
          BY <3>1 DEF LockHeld
    <3> QED BY <3>1, <3>2 DEF StartRun, StartupTypeOK, LockHeld, Resting
  <2>2. CASE AfterCore(t)
    <3>1. PICK rest \in SUBSET DOMAIN Registered : Continue(t, rest, path, enabled, nsRun)
          BY <2>2 DEF AfterCore
    <3>2. LeavesLock(t) \/ GoesOn(t, rest, nsRun)
          BY <3>1, ContinueEffect DEF StartupTypeOK
    <3>3. lock = t /\ initialized'
          BY <1>4 DEF Connect, LockHeld
    <3> QED BY <3>2, <3>3, LeavesKeepsLock, GoesOnKeepsLock
  <2> QED BY <1>4, <2>1, <2>2 DEF Connect
<1>5. ASSUME NEW t \in Tasks, CreateTable(t)
      PROVE  LockHeld'
      BY <1>5 DEF CreateTable, StartupTypeOK, LockHeld, process, Resting, Running
<1>6. ASSUME NEW t \in Tasks, List(t) \/ ListFails(t) \/ Record(t)
      PROVE  LockHeld'
  <2>1. \E files : Executes(t, files)
        BY <1>6 DEF List, ListFails, Record
  <2>2. UNCHANGED <<initialized, setting>> /\ pc[t] \in Running
        BY <1>6 DEF List, ListFails, Record, Running
  <2> QED BY <2>1, <2>2, ExecutesKeepsLock
<1>7. ASSUME NEW t \in Tasks, Execute(t)
      PROVE  LockHeld'
      BY <1>7 DEF Execute, StartupTypeOK, LockHeld, process, Resting
<1>8. ASSUME NEW t \in Tasks, Fault(t)
      PROVE  LockHeld'
  <2>1. /\ Rest(t, "failed") /\ lock' = IF lock = t THEN None ELSE lock
        /\ UNCHANGED <<setting, initialized, enabled, path>>
        BY <1>8 DEF Fault
  <2> QED BY <2>1 DEF Rest, StartupTypeOK, LockHeld, Resting
<1>9. ASSUME Crash
      PROVE  LockHeld'
      BY <1>9 DEF Crash, LockHeld, Resting
<1> QED BY <1>1, <1>2, <1>3, <1>4, <1>5, <1>6, <1>7, <1>8, <1>9 DEF StartupNext, Step

-----------------------------------------------------------------------------
(* What the runners know of the table.                                     *)

\* The database forgets nothing.
Keeps ==
    /\ recorded \subseteq recorded'
    /\ \A s \in Scripts : executed[s] > 0 => executed'[s] > 0

\* t has left the loop over its files, and nobody else has moved.
Apart(t) ==
    \A u \in Tasks \ {t} :
        pc'[u] = pc[u] /\ plan'[u] = plan[u] /\ todo'[u] = todo[u] /\ stage'[u] = stage[u]

Quiet(t) == Apart(t) /\ pc'[t] \notin {"idle", "executing", "recording"}

LEMMA MovesApart ==
    ASSUME StartupTypeOK, NEW t \in Tasks, Moves(t),
           \E f : todo' = [todo EXCEPT ![t] = f]
    PROVE  Apart(t)
BY DEF StartupTypeOK, Moves, Apart

LEMMA EndsQuiet ==
    ASSUME StartupTypeOK, NEW t \in Tasks,
           \/ \E s \in Resting \ {"idle"} : Rest(t, s)
           \/ \E w \in {"core", "namespace", "manual"}, p \in Paths : StartRun(t, w, p),
           \E f : todo' = [todo EXCEPT ![t] = f]
    PROVE  Quiet(t)
BY DEF Rest, StartRun, StartupTypeOK, Quiet, Apart, Resting

LEMMA LeavesQuiet ==
    ASSUME StartupTypeOK, NEW t \in Tasks,
           \/ LeavesLock(t)
           \/ \E rest \in SUBSET DOMAIN Registered : \E done : GoesOn(t, rest, done),
           \E f : todo' = [todo EXCEPT ![t] = f]
    PROVE  Quiet(t)
<1>1. CASE LeavesLock(t)
      BY <1>1, EndsQuiet, TasksOf DEF LeavesLock, Resting
<1>2. ASSUME NEW rest \in SUBSET DOMAIN Registered, NEW done, GoesOn(t, rest, done)
      PROVE  Quiet(t)
      BY <1>2, EndsQuiet, TasksOf DEF GoesOn
<1> QED BY <1>1, <1>2

LEMMA RunEndsQuiet ==
    ASSUME StartupTypeOK, NEW t \in Tasks, RunEnds(t),
           \E f : todo' = [todo EXCEPT ![t] = f]
    PROVE  Quiet(t)
<1>1. left[t] \in SUBSET DOMAIN Registered /\ DOMAIN Registered \in SUBSET DOMAIN Registered
      BY DEF StartupTypeOK
<1>2. CASE Rest(t, "done")
      BY <1>2, EndsQuiet DEF Resting
<1> QED BY <1>1, <1>2, LeavesQuiet, RunEndsEffect

LEMMA QuietRuns ==
    ASSUME StartupTypeOK, RunsSound, NEW t \in Tasks, Quiet(t), Keeps
    PROVE  RunsSound'
<1> SUFFICES ASSUME NEW u \in Tasks
             PROVE  /\ pc'[u] \in {"executing", "recording"} =>
                          /\ todo'[u] \subseteq DOMAIN Files[plan'[u]]
                          /\ \A i \in DOMAIN Files[plan'[u]] \ todo'[u] :
                                Files[plan'[u]][i] \in recorded'
                    /\ pc'[u] = "recording" =>
                          \A i \in todo'[u] : First(i, todo'[u]) =>
                                executed'[Script(plan'[u], i)] > 0
    BY DEF RunsSound, First
<1>1. CASE u = t
      BY <1>1 DEF Quiet
<1>2. CASE u # t
  <2>1. pc'[u] = pc[u] /\ plan'[u] = plan[u] /\ todo'[u] = todo[u]
        BY <1>2 DEF Quiet, Apart
  <2>2. plan[u] \in Paths
        BY DEF StartupTypeOK
  <2> QED BY <2>1, <2>2, TasksOf DEF RunsSound, Keeps
<1> QED BY <1>1, <1>2

LEMMA KeepsOrder ==
    ASSUME RecordedIsExecuted, recorded' = recorded, executed' = executed
    PROVE  RecordedIsExecuted'
BY DEF RecordedIsExecuted

\* A runner that has its files.
LEMMA ListedRuns ==
    ASSUME StartupTypeOK, RunsSound, NEW t \in Tasks, NEW applied \in SUBSET recorded,
           pc' = [pc EXCEPT ![t] = "executing"], plan' = plan, recorded' = recorded,
           executed' = executed, todo' = [todo EXCEPT ![t] = Pending(t, applied)]
    PROVE  RunsSound'
<1>1. \A u \in Tasks \ {t} : pc'[u] = pc[u] /\ todo'[u] = todo[u]
      BY DEF StartupTypeOK
<1>2. pc'[t] = "executing" /\ todo'[t] = Pending(t, applied)
      BY DEF StartupTypeOK
<1> QED BY <1>1, <1>2 DEF RunsSound, Pending, First

LEMMA RunsStep ==
    ASSUME StartupTypeOK, LockHeld, RunsSound, RecordedIsExecuted, StartupNext
    PROVE  RunsSound' /\ RecordedIsExecuted'
<1> USE StartupAssumption
<1>1. ASSUME NEW t \in Tasks, Quiet(t), UNCHANGED <<recorded, executed>>
      PROVE  RunsSound' /\ RecordedIsExecuted'
      BY <1>1, QuietRuns, KeepsOrder DEF Keeps
<1>2. ASSUME NEW t \in Tasks, UNCHANGED todo
      PROVE  \E f : todo' = [todo EXCEPT ![t] = f]
  <2>1. todo' = [todo EXCEPT ![t] = todo[t]]
        BY <1>2 DEF StartupTypeOK
  <2> QED BY <2>1
<1>3. ASSUME NEW t \in Tasks, Enter(t)
      PROVE  RunsSound' /\ RecordedIsExecuted'
  <2>1. UNCHANGED <<todo, recorded, executed>>
        BY <1>3 DEF Enter, database
  <2>2. CASE t \in Manuals /\ initialized
    <3>1. StartRun(t, "manual", t) /\ t \in Paths
          BY <1>3, <2>2, TasksOf DEF Enter
    <3> QED BY <1>1, <1>2, <2>1, <3>1, EndsQuiet
  <2>3. CASE t \notin Manuals /\ initialized
    <3>1. AfterEnsure(t, path, enabled, disabled)
          BY <1>3, <2>3 DEF Enter
    <3>2. \E s \in {"using", "done"} : Rest(t, s)
          BY <2>3, <3>1 DEF AfterEnsure
    <3> QED BY <1>1, <1>2, <2>1, <3>2, EndsQuiet DEF Resting
  <2>4. CASE ~initialized
    <3>1. Quiet(t)
          BY <1>3, <2>1, <2>4 DEF Enter, Quiet, Apart, StartupTypeOK
    <3> QED BY <1>1, <2>1, <3>1
  <2> QED BY <2>2, <2>3, <2>4 DEF StartupTypeOK
<1>4. ASSUME NEW t \in Tasks, EnterNothing(t) \/ Use(t)
      PROVE  RunsSound' /\ RecordedIsExecuted'
  <2>1. Rest(t, "done") /\ UNCHANGED <<todo, recorded, executed>>
        BY <1>4 DEF EnterNothing, Use, database
  <2> QED BY <1>1, <1>2, <2>1, EndsQuiet DEF Resting
<1>5. ASSUME NEW t \in Tasks, Acquire(t)
      PROVE  RunsSound' /\ RecordedIsExecuted'
  <2>1. UNCHANGED <<todo, recorded, executed>>
        BY <1>5 DEF Acquire, database
  <2>2. CASE initialized
    <3>1. AfterEnsure(t, path, enabled, disabled)
          BY <1>5, <2>2 DEF Acquire
    <3>2. path \in Paths /\ enabled \in BOOLEAN /\ disabled \in BOOLEAN
          BY DEF StartupTypeOK
    <3>3. Quiet(t)
          BY <1>2, <2>1, <3>1, <3>2, AfterEnsureEffect, EndsQuiet, TasksOf DEF Resting
    <3> QED BY <1>1, <2>1, <3>3
  <2>3. CASE ~initialized
    <3>1. Quiet(t)
          BY <1>5, <2>1, <2>3 DEF Acquire, Quiet, Apart, StartupTypeOK
    <3> QED BY <1>1, <2>1, <3>1
  <2> QED BY <2>2, <2>3 DEF StartupTypeOK
<1>6. ASSUME NEW t \in Tasks, Connect(t)
      PROVE  RunsSound' /\ RecordedIsExecuted'
  <2>1. UNCHANGED <<todo, recorded, executed>>
        BY <1>6 DEF Connect, database
  <2>2. CASE StartRun(t, "core", path)
        BY <1>1, <1>2, <2>1, <2>2, EndsQuiet DEF StartupTypeOK
  <2>3. CASE AfterCore(t)
    <3>1. PICK rest \in SUBSET DOMAIN Registered : Continue(t, rest, path, enabled, nsRun)
          BY <2>3 DEF AfterCore
    <3>2. LeavesLock(t) \/ GoesOn(t, rest, nsRun)
          BY <3>1, ContinueEffect DEF StartupTypeOK
    <3> QED BY <1>1, <1>2, <2>1, <3>2, LeavesQuiet
  <2> QED BY <1>6, <2>2, <2>3 DEF Connect
<1>7. ASSUME NEW t \in Tasks, CreateTable(t)
      PROVE  RunsSound' /\ RecordedIsExecuted'
  <2>1. UNCHANGED <<recorded, executed>>
        BY <1>7 DEF CreateTable, database
  <2>2. Quiet(t)
        BY <1>7 DEF CreateTable, Quiet, Apart, StartupTypeOK
  <2> QED BY <1>1, <2>1, <2>2
<1>8. ASSUME NEW t \in Tasks, List(t) \/ ListFails(t)
      PROVE  RunsSound' /\ RecordedIsExecuted'
  <2>1. PICK applied \in SUBSET recorded :
               /\ todo' = [todo EXCEPT ![t] = Pending(t, applied)]
               /\ Executes(t, Pending(t, applied))
        BY <1>8 DEF List, ListFails
  <2>2. UNCHANGED <<recorded, executed>>
        BY <1>8 DEF List, ListFails, database
  <2>3. CASE RunEnds(t)
        BY <1>1, <2>1, <2>2, <2>3, RunEndsQuiet
  <2>4. CASE ~RunEnds(t)
    <3>1. pc' = [pc EXCEPT ![t] = "executing"] /\ plan' = plan
          BY <2>1, <2>4 DEF Executes
    <3> QED BY <2>1, <2>2, <3>1, ListedRuns, KeepsOrder
  <2> QED BY <2>3, <2>4
<1>9. ASSUME NEW t \in Tasks, Runs(t), pc[t] = "executing", recorded' = recorded
      PROVE  Keeps /\ RecordedIsExecuted'
  <2>1. PICK i \in todo[t] :
               /\ First(i, todo[t])
               /\ executed' = [executed EXCEPT ![Script(plan[t], i)] = @ + 1]
        BY <1>9 DEF Runs
  <2>2. \A s \in Scripts :
               executed'[s] = IF s = Script(plan[t], i) THEN executed[s] + 1 ELSE executed[s]
        BY <2>1 DEF StartupTypeOK
  <2>3. executed \in [Scripts -> Nat] /\ todo[t] \subseteq Nat
        BY DEF StartupTypeOK
  <2>4. \A s \in Scripts : executed[s] > 0 => executed'[s] > 0
        BY <2>2, <2>3
  <2>5. ASSUME NEW n \in Paths, NEW k \in DOMAIN Files[n], executed'[Script(n, k)] > 0,
               NEW j \in DOMAIN Files[n], j < k
        PROVE  Files[n][j] \in recorded'
    <3>1. CASE Script(n, k) = Script(plan[t], i)
      <4>1. n = plan[t] /\ i \in DOMAIN Files[n] /\ Files[n][k] = Files[n][i]
            BY <1>9, <3>1 DEF RunsSound, Script
      <4>2. k = i
            BY <4>1
      <4>3. j \notin todo[t]
            BY <2>1, <2>3, <2>5, <4>2 DEF First
      <4> QED BY <1>9, <4>1, <4>3 DEF RunsSound
    <3>2. CASE Script(n, k) # Script(plan[t], i)
      <4>1. executed[Script(n, k)] > 0
            BY <2>2, <2>5, <3>2, TasksOf
      <4> QED BY <1>9, <2>5, <4>1 DEF RecordedIsExecuted
    <3> QED BY <3>1, <3>2
  <2>6. \A f \in recorded' : \E s \in Scripts : s[2] = f /\ executed'[s] > 0
        BY <1>9, <2>4 DEF RecordedIsExecuted
  <2> QED BY <1>9, <2>4, <2>5, <2>6 DEF Keeps, RecordedIsExecuted
<1>10. ASSUME NEW t \in Tasks, Execute(t)
       PROVE  RunsSound' /\ RecordedIsExecuted'
  <2>1. Keeps /\ RecordedIsExecuted'
        BY <1>9, <1>10 DEF Execute
  <2>2. PICK i \in todo[t] :
               /\ First(i, todo[t])
               /\ executed' = [executed EXCEPT ![Script(plan[t], i)] = @ + 1]
        BY <1>10 DEF Execute, Runs
  <2>3. todo[t] \subseteq DOMAIN Files[plan[t]] /\ plan[t] \in Paths
        BY <1>10 DEF Execute, RunsSound, StartupTypeOK
  <2>4. executed'[Script(plan[t], i)] > 0
    <3>1. Script(plan[t], i) \in Scripts
          BY <2>3, TasksOf
    <3> QED BY <2>2, <3>1 DEF StartupTypeOK
  <2>5. \A k \in todo[t] : First(k, todo[t]) => k = i
        BY <2>2 DEF First, StartupTypeOK
  <2>6. UNCHANGED <<plan, todo, recorded>> /\ pc' = [pc EXCEPT ![t] = "recording"]
        BY <1>10 DEF Execute
  <2>7. ASSUME NEW u \in Tasks
        PROVE  /\ pc'[u] \in {"executing", "recording"} =>
                     /\ todo'[u] \subseteq DOMAIN Files[plan'[u]]
                     /\ \A k \in DOMAIN Files[plan'[u]] \ todo'[u] :
                           Files[plan'[u]][k] \in recorded'
               /\ pc'[u] = "recording" =>
                     \A k \in todo'[u] : First(k, todo'[u]) =>
                           executed'[Script(plan'[u], k)] > 0
    <3>1. CASE u = t
          BY <1>10, <2>3, <2>4, <2>5, <2>6, <3>1 DEF Execute, RunsSound
    <3>2. CASE u # t
      <4>1. pc'[u] = pc[u] /\ plan[u] \in Paths
            BY <2>6, <3>2 DEF StartupTypeOK
      <4> QED BY <2>1, <2>6, <4>1, TasksOf DEF RunsSound, Keeps
    <3> QED BY <3>1, <3>2
  <2> QED BY <2>1, <2>7 DEF RunsSound, First
<1>11. ASSUME NEW t \in Tasks, Record(t)
       PROVE  RunsSound' /\ RecordedIsExecuted'
  <2>1. PICK i \in todo[t] :
               /\ First(i, todo[t])
               /\ recorded' = recorded \cup {Files[plan[t]][i]}
               /\ todo' = [todo EXCEPT ![t] = @ \ {i}]
               /\ Executes(t, todo[t] \ {i})
        BY <1>11 DEF Record
  <2>2. UNCHANGED executed /\ pc[t] = "recording"
        BY <1>11 DEF Record
  <2>3. /\ i \in DOMAIN Files[plan[t]] /\ plan[t] \in Paths
        /\ executed[Script(plan[t], i)] > 0
        BY <2>1, <2>2 DEF RunsSound, StartupTypeOK
  <2>4. RecordedIsExecuted'
    <3>1. \A f \in recorded' : \E s \in Scripts : s[2] = f /\ executed'[s] > 0
      <4>1. Script(plan[t], i) \in Scripts /\ Script(plan[t], i)[2] = Files[plan[t]][i]
            BY <2>3, TasksOf DEF Script
      <4> QED BY <2>1, <2>2, <2>3, <4>1 DEF RecordedIsExecuted
    <3> QED BY <2>1, <2>2, <3>1 DEF RecordedIsExecuted
  <2>5. Keeps
        BY <2>1, <2>2 DEF Keeps
  <2>6. CASE RunEnds(t)
        BY <2>1, <2>4, <2>5, <2>6, RunEndsQuiet, QuietRuns
  <2>7. CASE ~RunEnds(t)
    <3>1. pc' = [pc EXCEPT ![t] = "executing"] /\ plan' = plan
          BY <2>1, <2>7 DEF Executes
    <3>2. ASSUME NEW u \in Tasks
          PROVE  /\ pc'[u] \in {"executing", "recording"} =>
                       /\ todo'[u] \subseteq DOMAIN Files[plan'[u]]
                       /\ \A k \in DOMAIN Files[plan'[u]] \ todo'[u] :
                             Files[plan'[u]][k] \in recorded'
                 /\ pc'[u] = "recording" =>
                       \A k \in todo'[u] : First(k, todo'[u]) =>
                             executed'[Script(plan'[u], k)] > 0
      <4>1. CASE u = t
        <5>1. pc'[t] = "executing" /\ todo'[t] = todo[t] \ {i}
              BY <2>1, <3>1 DEF StartupTypeOK
        <5> QED BY <2>1, <2>2, <3>1, <4>1, <5>1 DEF RunsSound
      <4>2. CASE u # t
        <5>1. pc'[u] = pc[u] /\ todo'[u] = todo[u] /\ plan'[u] = plan[u]
              BY <2>1, <3>1, <4>2 DEF StartupTypeOK
        <5> QED BY <2>5, <5>1, <2>2 DEF RunsSound, Keeps
      <4> QED BY <4>1, <4>2
    <3> QED BY <2>4, <3>2 DEF RunsSound, First
  <2> QED BY <2>6, <2>7
<1>12. ASSUME NEW t \in Tasks, Fault(t)
       PROVE  RunsSound' /\ RecordedIsExecuted'
  <2>1. Rest(t, "failed") /\ UNCHANGED <<todo, recorded>>
        BY <1>12 DEF Fault
  <2>2. Quiet(t)
        BY <1>2, <2>1, EndsQuiet DEF Resting
  <2>3. CASE UNCHANGED executed
        BY <1>1, <2>1, <2>2, <2>3
  <2>4. CASE Runs(t) /\ pc[t] = "executing"
        BY <1>9, <2>1, <2>2, <2>4, QuietRuns
  <2> QED BY <1>12, <2>3, <2>4 DEF Fault
<1>13. ASSUME Crash
       PROVE  RunsSound' /\ RecordedIsExecuted'
       BY <1>13, KeepsOrder DEF Crash, RunsSound
<1> QED BY <1>3, <1>4, <1>5, <1>6, <1>7, <1>8, <1>10, <1>11, <1>12, <1>13
        DEF StartupNext, Step

-----------------------------------------------------------------------------
(* The core's tables.                                                      *)

\* A step of t, who is not about to connect.
LEMMA CoreKept ==
    ASSUME StartupTypeOK, CoreFirst, NEW t \in Tasks, Apart(t), pc'[t] # "idle",
           UNCHANGED <<setting, faults, initialized>>, recorded \subseteq recorded',
           stage[t] = "core" => stage'[t] = "core" \/ CoreFiles \subseteq recorded',
           initialized \/ t \in Manuals \/ UNCHANGED disabled
    PROVE  CoreFirst'
<1> SUFFICES ASSUME setting', faults' = 0, \A m \in Manuals : pc'[m] = "idle"
             PROVE  /\ ~initialized' => ~disabled'
                    /\ initialized' => \/ CoreFiles \subseteq recorded'
                                       \/ \E u \in Tasks : stage'[u] = "core"
    BY DEF CoreFirst, CoreFiles
<1>1. t \notin Manuals /\ \A m \in Manuals : pc[m] = "idle"
      BY TasksOf DEF Apart
<1>2. ~initialized' => ~disabled'
      BY <1>1 DEF CoreFirst
<1>3. ASSUME initialized'
      PROVE  CoreFiles \subseteq recorded' \/ \E u \in Tasks : stage'[u] = "core"
  <2>1. CASE CoreFiles \subseteq recorded
        BY <2>1
  <2>2. ASSUME NEW u \in Tasks, stage[u] = "core"
        PROVE  CoreFiles \subseteq recorded' \/ \E v \in Tasks : stage'[v] = "core"
        BY <2>2 DEF Apart
  <2> QED BY <1>1, <1>3, <2>1, <2>2 DEF CoreFirst
<1> QED BY <1>2, <1>3

\* A run of the core's ends when every file is in the table.
LEMMA CoreDone ==
    ASSUME StartupTypeOK, LockHeld, CoreFirst, NEW t \in Tasks, NEW files,
           Executes(t, files), todo' = [todo EXCEPT ![t] = files], pc[t] \in Running,
           UNCHANGED <<setting, faults, initialized>>, recorded \subseteq recorded',
           \A i \in DOMAIN Files[plan[t]] \ files : Files[plan[t]][i] \in recorded'
    PROVE  CoreFirst'
<1>1. initialized
      BY DEF LockHeld, Resting, Running
<1>2. CASE RunEnds(t) /\ files = {}
  <2>1. Quiet(t)
        BY <1>2, RunEndsQuiet
  <2>2. stage[t] = "core" => CoreFiles \subseteq recorded'
        BY <1>2 DEF LockHeld, CoreFiles
  <2> QED BY <1>1, <2>1, <2>2, CoreKept DEF Quiet
<1>3. CASE pc' = [pc EXCEPT ![t] = "executing"] /\ UNCHANGED <<stage, plan>>
  <2>1. Apart(t) /\ pc'[t] # "idle"
        BY <1>3 DEF StartupTypeOK, Apart
  <2> QED BY <1>1, <1>3, <2>1, CoreKept
<1> QED BY <1>2, <1>3 DEF Executes

LEMMA CoreStep ==
    ASSUME StartupTypeOK, LockHeld, RunsSound, CoreFirst, StartupNext
    PROVE  CoreFirst'
<1> USE StartupAssumption
<1>1. ASSUME NEW t \in Tasks, UNCHANGED todo
      PROVE  \E f : todo' = [todo EXCEPT ![t] = f]
  <2>1. todo' = [todo EXCEPT ![t] = todo[t]]
        BY <1>1 DEF StartupTypeOK
  <2> QED BY <2>1
<1>2. ASSUME NEW t \in Tasks, Enter(t)
      PROVE  CoreFirst'
  <2>1. UNCHANGED <<setting, faults, initialized, recorded, todo>> /\ pc[t] = "idle"
        BY <1>2 DEF Enter, database
  <2>2. stage[t] = "none"
        BY <2>1 DEF LockHeld, Resting
  <2>3. CASE t \in Manuals /\ initialized
    <3>1. StartRun(t, "manual", t) /\ t \in Paths
          BY <1>2, <2>3, TasksOf DEF Enter
    <3>2. Quiet(t)
          BY <1>1, <2>1, <3>1, EndsQuiet
    <3> QED BY <2>1, <2>2, <2>3, <3>2, CoreKept DEF Quiet
  <2>4. CASE t \notin Manuals /\ initialized
    <3>1. AfterEnsure(t, path, enabled, disabled)
          BY <1>2, <2>4 DEF Enter
    <3>2. \E s \in {"using", "done"} : Rest(t, s)
          BY <2>4, <3>1 DEF AfterEnsure
    <3>3. Quiet(t)
          BY <1>1, <2>1, <3>2, EndsQuiet DEF Resting
    <3> QED BY <2>1, <2>2, <2>4, <3>3, CoreKept DEF Quiet
  <2>5. CASE ~initialized
    <3>1. Quiet(t)
          BY <1>2, <2>1, <2>5 DEF Enter, Quiet, Apart, StartupTypeOK
    <3>2. t \in Manuals \/ UNCHANGED disabled
          BY <1>2, <2>5 DEF Enter
    <3> QED BY <2>1, <2>2, <3>1, <3>2, CoreKept DEF Quiet
  <2> QED BY <2>3, <2>4, <2>5 DEF StartupTypeOK
<1>3. ASSUME NEW t \in Tasks, EnterNothing(t) \/ Use(t)
      PROVE  CoreFirst'
  <2>1. /\ Rest(t, "done") /\ UNCHANGED <<setting, faults, initialized, recorded, todo, disabled>>
        /\ pc[t] \in Resting
        BY <1>3 DEF EnterNothing, Use, database, process, Resting
  <2>2. Quiet(t) /\ stage[t] = "none"
        BY <1>1, <2>1, EndsQuiet DEF Resting, LockHeld
  <2> QED BY <2>1, <2>2, CoreKept DEF Quiet
<1>4. ASSUME NEW t \in Tasks, Acquire(t)
      PROVE  CoreFirst'
  <2>1. UNCHANGED <<setting, faults, initialized, recorded, todo>> /\ pc[t] = "waiting"
        BY <1>4 DEF Acquire, database
  <2>2. stage[t] = "none"
        BY <2>1 DEF LockHeld, Resting
  <2>3. CASE initialized
    <3>1. AfterEnsure(t, path, enabled, disabled)
          BY <1>4, <2>3 DEF Acquire
    <3>2. path \in Paths /\ enabled \in BOOLEAN /\ disabled \in BOOLEAN
          BY DEF StartupTypeOK
    <3>3. Quiet(t)
          BY <1>1, <2>1, <3>1, <3>2, AfterEnsureEffect, EndsQuiet, TasksOf DEF Resting
    <3> QED BY <2>1, <2>2, <2>3, <3>3, CoreKept DEF Quiet
  <2>4. CASE ~initialized
    <3>1. Quiet(t) /\ UNCHANGED disabled
          BY <1>4, <2>1, <2>4 DEF Acquire, Quiet, Apart, StartupTypeOK
    <3> QED BY <2>1, <2>2, <3>1, CoreKept DEF Quiet
  <2> QED BY <2>3, <2>4 DEF StartupTypeOK
<1>5. ASSUME NEW t \in Tasks, Connect(t)
      PROVE  CoreFirst'
  <2>1. initialized' /\ UNCHANGED <<setting, faults, recorded, todo>> /\ pc[t] = "connecting"
        BY <1>5 DEF Connect, database
  <2>2. ~initialized /\ enabled = setting
        BY <2>1 DEF LockHeld
  <2>3. CASE StartRun(t, "core", path)
    <3>1. stage'[t] = "core"
          BY <2>3 DEF StartRun, StartupTypeOK
    <3> QED BY <2>1, <3>1 DEF CoreFirst
  <2>4. CASE (disabled \/ ~enabled) /\ AfterCore(t)
    <3>1. PICK rest \in SUBSET DOMAIN Registered : Continue(t, rest, path, enabled, nsRun)
          BY <2>4 DEF AfterCore
    <3>2. LeavesLock(t) \/ GoesOn(t, rest, nsRun)
          BY <3>1, ContinueEffect DEF StartupTypeOK
    <3>3. Quiet(t)
          BY <1>1, <2>1, <3>2, LeavesQuiet
    <3>4. ASSUME setting, faults = 0, \A m \in Manuals : pc'[m] = "idle"
          PROVE  FALSE
      <4>1. \A m \in Manuals : pc[m] = "idle"
            BY <3>3, <3>4, TasksOf DEF Quiet, Apart
      <4> QED BY <2>2, <2>4, <3>4, <4>1 DEF CoreFirst
    <3> QED BY <2>1, <3>4 DEF CoreFirst
  <2> QED BY <1>5, <2>3, <2>4 DEF Connect
<1>6. ASSUME NEW t \in Tasks, CreateTable(t)
      PROVE  CoreFirst'
  <2>1. UNCHANGED <<setting, faults, initialized, recorded, todo, disabled, stage>>
        BY <1>6 DEF CreateTable, database, process
  <2>2. Quiet(t)
        BY <1>6 DEF CreateTable, Quiet, Apart, StartupTypeOK
  <2> QED BY <2>1, <2>2, CoreKept DEF Quiet
<1>7. ASSUME NEW t \in Tasks, List(t)
      PROVE  CoreFirst'
  <2> DEFINE files == Pending(t, recorded)
  <2>1. /\ Executes(t, files) /\ todo' = [todo EXCEPT ![t] = files] /\ pc[t] \in Running
        /\ UNCHANGED <<setting, faults, initialized, recorded>>
        BY <1>7 DEF List, database, Running
  <2>2. \A i \in DOMAIN Files[plan[t]] \ files : Files[plan[t]][i] \in recorded'
        BY <2>1 DEF Pending
  <2> QED BY <2>1, <2>2, CoreDone
<1>8. ASSUME NEW t \in Tasks, Execute(t)
      PROVE  CoreFirst'
  <2>1. UNCHANGED <<setting, faults, initialized, recorded, todo, disabled, stage>>
        BY <1>8 DEF Execute, process
  <2>2. Apart(t) /\ pc'[t] # "idle"
        BY <1>8 DEF Execute, Apart, StartupTypeOK
  <2> QED BY <2>1, <2>2, CoreKept
<1>9. ASSUME NEW t \in Tasks, Record(t)
      PROVE  CoreFirst'
  <2>1. PICK i \in todo[t] :
               /\ recorded' = recorded \cup {Files[plan[t]][i]}
               /\ todo' = [todo EXCEPT ![t] = @ \ {i}]
               /\ Executes(t, todo[t] \ {i})
        BY <1>9 DEF Record
  <2>2. pc[t] = "recording" /\ UNCHANGED <<setting, faults, initialized>>
        BY <1>9 DEF Record
  <2>3. \A k \in DOMAIN Files[plan[t]] \ (todo[t] \ {i}) : Files[plan[t]][k] \in recorded'
        BY <2>1, <2>2 DEF RunsSound
  <2>4. todo' = [todo EXCEPT ![t] = todo[t] \ {i}]
        BY <2>1
  <2> QED BY <2>1, <2>2, <2>3, <2>4, CoreDone DEF Running
<1>10. ASSUME faults' = faults + 1
       PROVE  CoreFirst'
  <2>1. faults' # 0
        BY <1>10 DEF StartupTypeOK
  <2> QED BY <2>1 DEF CoreFirst
<1> QED BY <1>2, <1>3, <1>4, <1>5, <1>6, <1>7, <1>8, <1>9, <1>10
        DEF StartupNext, Step, ListFails, Fault, Crash

-----------------------------------------------------------------------------
(* How often a script is executed.                                         *)

LEMMA FitsKept ==
    ASSUME StartupTypeOK, StartupTypeOK', NEW s \in Scripts, Fits(s),
           executed'[s] = executed[s], lost'[s] >= lost[s],
           LockMay(s)' => LockMay(s), ManualMay(s)' => ManualMay(s)
    PROVE  Fits(s)'
<1>1. /\ executed[s] \in Nat /\ lost[s] \in Nat /\ lost'[s] \in Nat
      BY DEF StartupTypeOK
<1>2. Once(LockMay(s))' <= Once(LockMay(s)) /\ Once(ManualMay(s))' <= Once(ManualMay(s))
      BY DEF Once
<1>3. /\ Once(LockMay(s))' \in 0..1 /\ Once(LockMay(s)) \in 0..1
      /\ Once(ManualMay(s))' \in 0..1 /\ Once(ManualMay(s)) \in 0..1
      BY DEF Once
<1>4. Allowed(s)' >= Allowed(s) /\ Allowed(s) \in Nat /\ Allowed(s)' \in Nat
      BY <1>1 DEF Allowed
<1> QED BY <1>1, <1>2, <1>3, <1>4 DEF Fits

\* One execution uses one of the chances up.
LEMMA FitsUsed ==
    ASSUME StartupTypeOK, StartupTypeOK', NEW s \in Scripts, Fits(s),
           executed'[s] = executed[s] + 1, lost'[s] >= lost[s],
           \/ LockMay(s) /\ ~LockMay(s)' /\ (ManualMay(s)' => ManualMay(s))
           \/ ManualMay(s) /\ ~ManualMay(s)' /\ (LockMay(s)' => LockMay(s))
    PROVE  Fits(s)'
<1>1. /\ executed[s] \in Nat /\ lost[s] \in Nat /\ lost'[s] \in Nat
      BY DEF StartupTypeOK
<1>2. Once(LockMay(s))' + Once(ManualMay(s))' + 1 <= Once(LockMay(s)) + Once(ManualMay(s))
      BY DEF Once
<1>3. /\ Once(LockMay(s))' \in 0..1 /\ Once(LockMay(s)) \in 0..1
      /\ Once(ManualMay(s))' \in 0..1 /\ Once(ManualMay(s)) \in 0..1
      BY DEF Once
<1>4. Allowed(s)' >= Allowed(s) /\ Allowed(s) \in Nat /\ Allowed(s)' \in Nat
      BY <1>1 DEF Allowed
<1> QED BY <1>1, <1>2, <1>3, <1>4 DEF Fits

\* Whatever becomes possible when track of s is lost is allowed.
LEMMA FitsLost ==
    ASSUME StartupTypeOK, StartupTypeOK', NEW s \in Scripts, Fits(s),
           executed'[s] <= executed[s] + Once(LockMay(s)) + Once(ManualMay(s)),
           lost'[s] = lost[s] + 1
    PROVE  Fits(s)'
<1>1. executed[s] \in Nat /\ executed'[s] \in Nat /\ lost[s] \in Nat
      BY DEF StartupTypeOK
<1>2. /\ Once(LockMay(s))' \in 0..1 /\ Once(LockMay(s)) \in 0..1
      /\ Once(ManualMay(s))' \in 0..1 /\ Once(ManualMay(s)) \in 0..1
      BY DEF Once
<1>3. s[1] \notin Manuals => Once(ManualMay(s))' = 0
      BY DEF Once, ManualMay
<1>4. /\ Allowed(s) \in Nat
      /\ Allowed(s)' = Allowed(s) + (IF s[1] \in Manuals THEN 2 ELSE 1)
      BY <1>1 DEF Allowed
<1> QED BY <1>1, <1>2, <1>3, <1>4 DEF Fits

\* A step of t leaves the chances of the others as they are.
Elsewhere(t) ==
    /\ Apart(t)
    /\ recorded \subseteq recorded'
    /\ initialized => initialized'
    /\ lock = t \/ UNCHANGED left

LEMMA OthersLock ==
    ASSUME LockHeld, NEW t \in Tasks, Elsewhere(t), NEW s \in Scripts,
           LockMay(s)', ~InLock(t, s)'
    PROVE  LockMay(s)
<1>1. CASE ~initialized' /\ s[2] \notin recorded'
      BY <1>1 DEF Elsewhere, LockMay
<1>2. ASSUME NEW u \in Tasks \ {t}, InLock(u, s)'
      PROVE  LockMay(s)
  <2>1. stage'[u] = stage[u] /\ pc'[u] = pc[u] /\ plan'[u] = plan[u] /\ todo'[u] = todo[u]
        BY DEF Elsewhere, Apart
  <2>2. lock = u /\ stage[u] \in {"core", "namespace"}
        BY <1>2, <2>1 DEF InLock, LockHeld
  <2>3. left' = left
        BY <2>2 DEF Elsewhere
  <2>4. s[2] \notin recorded' => s[2] \notin recorded
        BY DEF Elsewhere
  <2>5. MayStill(u, s)' => MayStill(u, s)
        BY <2>1, <2>4 DEF MayStill, First
  <2>6. Later(u, s)' => Later(u, s)
        BY <2>1, <2>3 DEF Later
  <2>7. InLock(u, s)
        BY <1>2, <2>2, <2>4, <2>5, <2>6 DEF InLock
  <2> QED BY <2>7 DEF LockMay
<1> QED BY <1>1, <1>2 DEF LockMay

LEMMA OthersManual ==
    ASSUME NEW t \in Tasks, Elsewhere(t), NEW s \in Scripts, s[1] # t, ManualMay(s)'
    PROVE  ManualMay(s)
<1> DEFINE m == s[1]
<1>1. /\ m \in Manuals
      /\ stage'[m] = stage[m] /\ pc'[m] = pc[m] /\ plan'[m] = plan[m] /\ todo'[m] = todo[m]
      BY TasksOf DEF ManualMay, Elsewhere, Apart
<1>2. s[2] \notin recorded' => s[2] \notin recorded
      BY DEF Elsewhere
<1>3. MayStill(m, s)' => MayStill(m, s)
      BY <1>1, <1>2 DEF MayStill, First
<1> QED BY <1>1, <1>2, <1>3 DEF ManualMay

\* So it is enough to look at t.
LEMMA FitsElsewhere ==
    ASSUME StartupTypeOK, StartupTypeOK', LockHeld, NEW t \in Tasks, Elsewhere(t),
           NEW s \in Scripts, Fits(s), executed'[s] = executed[s], lost'[s] >= lost[s],
           InLock(t, s)' => LockMay(s),
           s[1] = t /\ ManualMay(s)' => ManualMay(s)
    PROVE  Fits(s)'
BY OthersLock, OthersManual, FitsKept


\* What a task that stops, begins its manual run or goes on to the next
\* namespace may still execute.
LEMMA RestChances ==
    ASSUME StartupTypeOK, NEW t \in Tasks, NEW r \in {"using", "done", "failed"}, Rest(t, r),
           NEW s \in Scripts
    PROVE  ~InLock(t, s)' /\ ~(s[1] = t /\ ManualMay(s)')
<1>1. pc'[t] = r /\ stage'[t] = "none"
      BY DEF Rest, StartupTypeOK
<1> QED BY <1>1 DEF InLock, ManualMay

LEMMA ManualChances ==
    ASSUME StartupTypeOK, NEW t \in Manuals, StartRun(t, "manual", t), NEW s \in Scripts
    PROVE  ~InLock(t, s)' /\ (s[1] = t /\ ManualMay(s)' => s[2] \notin recorded')
<1>1. pc'[t] = "creating" /\ stage'[t] = "manual"
      BY TasksOf DEF StartRun, StartupTypeOK
<1> QED BY <1>1 DEF InLock, ManualMay, MayStill

LEMMA GoesOnChances ==
    ASSUME StartupTypeOK, NEW t \in Tasks, NEW rest \in SUBSET DOMAIN Registered, NEW done,
           GoesOn(t, rest, done), NEW s \in Scripts
    PROVE  /\ InLock(t, s)' =>
                 /\ s[2] \notin recorded'
                 /\ \E i \in rest : Registered[i] \notin done /\ s[1] = Registered[i]
           /\ s[1] = t /\ ManualMay(s)' => s[2] \notin recorded'
<1>1. PICK i \in rest : Registered[i] \notin done /\ StartRun(t, "namespace", Registered[i])
      BY DEF GoesOn
<1>2. pc'[t] = "creating" /\ stage'[t] = "namespace" /\ plan'[t] = Registered[i]
      BY <1>1 DEF StartRun, StartupTypeOK
<1>3. left'[t] = {j \in rest : Registered[j] \notin done}
      BY DEF GoesOn, StartupTypeOK
<1> QED BY <1>1, <1>2, <1>3 DEF InLock, ManualMay, MayStill, Later

LEMMA LeavesChances ==
    ASSUME StartupTypeOK, NEW t \in Tasks, LeavesLock(t), NEW s \in Scripts
    PROVE  ~InLock(t, s)' /\ (s[1] = t /\ ManualMay(s)' => s[2] \notin recorded')
BY RestChances, ManualChances DEF LeavesLock

LEMMA RunEndsChances ==
    ASSUME StartupTypeOK, LockHeld, NEW t \in Tasks, RunEnds(t), recorded \subseteq recorded',
           NEW s \in Scripts
    PROVE  /\ InLock(t, s)' => InLock(t, s)
           /\ s[1] = t /\ ManualMay(s)' => ManualMay(s)
<1> USE StartupAssumption
<1>1. left[t] \in SUBSET DOMAIN Registered /\ DOMAIN Registered \in SUBSET DOMAIN Registered
      BY DEF StartupTypeOK
<1>2. CASE stage[t] \in {"core", "namespace"} /\ LeavesLock(t)
  <2>1. s[1] = t /\ ManualMay(s)' => s[1] \in Manuals /\ s[2] \notin recorded
        BY <1>2, LeavesChances DEF ManualMay
  <2> QED BY <1>2, <2>1, LeavesChances DEF ManualMay
<1>3. CASE stage[t] = "core" /\ GoesOn(t, DOMAIN Registered, nsRun)
  <2>1. InLock(t, s)' => s[2] \notin recorded /\ s[1] # "core"
        BY <1>1, <1>3, GoesOnChances, TasksOf
  <2>2. s[1] = t /\ ManualMay(s)' => s[1] \in Manuals /\ s[2] \notin recorded
        BY <1>1, <1>3, GoesOnChances DEF ManualMay
  <2> QED BY <1>3, <2>1, <2>2 DEF InLock, Later, ManualMay
<1>4. CASE stage[t] = "namespace" /\ GoesOn(t, left[t], nsRun \cup {plan[t]})
  <2>1. InLock(t, s)' => /\ s[2] \notin recorded /\ s[1] # plan[t]
                         /\ \E i \in left[t] : s[1] = Registered[i]
        BY <1>1, <1>4, GoesOnChances
  <2>2. s[1] = t /\ ManualMay(s)' => s[1] \in Manuals /\ s[2] \notin recorded
        BY <1>1, <1>4, GoesOnChances DEF ManualMay
  <2> QED BY <1>4, <2>1, <2>2 DEF InLock, Later, ManualMay
<1>5. CASE Rest(t, "done")
      BY <1>5, RestChances
<1> QED BY <1>2, <1>3, <1>4, <1>5, RunEndsEffect

\* The step at which a run has its files, has recorded one, or ends.
LEMMA ExecutesElsewhere ==
    ASSUME StartupTypeOK, LockHeld, NEW t \in Tasks, NEW files, Executes(t, files),
           todo' = [todo EXCEPT ![t] = files], recorded \subseteq recorded',
           UNCHANGED initialized
    PROVE  Elsewhere(t)
<1>1. Moves(t)
      BY ExecutesMoves
<1>2. Apart(t)
      BY <1>1, MovesApart
<1>3. lock = t \/ UNCHANGED left
      BY DEF Executes, RunEnds, LockHeld
<1> QED BY <1>2, <1>3 DEF Elsewhere

LEMMA ExecutesChances ==
    ASSUME StartupTypeOK, LockHeld, NEW t \in Tasks, NEW files, Executes(t, files),
           todo' = [todo EXCEPT ![t] = files], recorded \subseteq recorded',
           NEW s \in Scripts,
           (\E i \in files : s[2] = Files[s[1]][i]) /\ plan[t] = s[1] => MayStill(t, s)
    PROVE  /\ InLock(t, s)' => InLock(t, s)
           /\ s[1] = t /\ ManualMay(s)' => ManualMay(s)
<1>1. CASE RunEnds(t)
      BY <1>1, RunEndsChances
<1>2. CASE pc' = [pc EXCEPT ![t] = "executing"] /\ UNCHANGED <<stage, plan, left>>
  <2>1. pc'[t] = "executing" /\ todo'[t] = files /\ stage'[t] = stage[t] /\ plan'[t] = plan[t]
        BY <1>2 DEF StartupTypeOK
  <2>2. MayStill(t, s)' => MayStill(t, s)
        BY <2>1 DEF MayStill
  <2>3. Later(t, s)' => Later(t, s)
        BY <1>2 DEF Later
  <2> QED BY <2>1, <2>2, <2>3 DEF InLock, ManualMay
<1> QED BY <1>1, <1>2 DEF Executes


\* The scripts of a run are its files.
LEMMA SameFile ==
    ASSUME StartupTypeOK, RunsSound, NEW t \in Tasks, pc[t] \in {"executing", "recording"},
           NEW i \in todo[t], First(i, todo[t])
    PROVE  /\ Script(plan[t], i) \in Scripts
           /\ \A k \in todo[t] : First(k, todo[t]) => k = i
           /\ \A k \in todo[t] : Files[plan[t]][k] = Files[plan[t]][i] => k = i
<1>1. plan[t] \in Paths /\ todo[t] \subseteq DOMAIN Files[plan[t]] /\ todo[t] \subseteq Nat
      BY DEF StartupTypeOK, RunsSound
<1>2. Script(plan[t], i) \in Scripts
      BY <1>1, TasksOf
<1>3. \A k \in todo[t] : First(k, todo[t]) => k = i
      BY <1>1 DEF First
<1> QED BY <1>1, <1>2, <1>3, StartupAssumption

\* Before its execution a script is one that may still be executed, and after
\* it the run it was executed in has no more use for it.
LEMMA RunsUses ==
    ASSUME StartupTypeOK, LockHeld, RunsSound, NEW t \in Tasks, pc[t] = "executing",
           NEW i \in todo[t], First(i, todo[t]), NEW s \in Scripts, s = Script(plan[t], i),
           Elsewhere(t), initialized,
           \/ stage' = stage /\ plan' = plan /\ todo' = todo /\ pc'[t] = "recording"
           \/ stage'[t] = "none" /\ pc'[t] = "failed",
           recorded' = recorded
    PROVE  \/ LockMay(s) /\ ~LockMay(s)' /\ (ManualMay(s)' => ManualMay(s))
           \/ ManualMay(s) /\ ~ManualMay(s)' /\ (LockMay(s)' => LockMay(s))
<1>1. s[1] = plan[t] /\ s[2] = Files[s[1]][i]
      BY DEF Script
<1>2. MayStill(t, s)
      BY <1>1 DEF MayStill
<1>3. stage'[t] # "none" => ~MayStill(t, s)' /\ ~Later(t, s)'
  <2>1. HAVE stage'[t] # "none"
  <2>2. pc'[t] = "recording" /\ plan'[t] = plan[t] /\ todo'[t] = todo[t]
        BY <2>1
  <2>3. ASSUME NEW k \in todo[t], s[2] = Files[s[1]][k]
        PROVE  First(k, todo[t])
    <3>1. Files[plan[t]][k] = Files[plan[t]][i]
          BY <1>1, <2>3
    <3>2. \A j \in todo[t] : Files[plan[t]][j] = Files[plan[t]][i] => j = i
          BY SameFile
    <3>3. k = i
          BY <3>1, <3>2
    <3> QED BY <3>3
  <2>4. ~MayStill(t, s)'
        BY <2>2, <2>3 DEF MayStill, First
  <2>5. ~Later(t, s)'
        BY <1>1, <2>1 DEF Later, LockHeld
  <2> QED BY <2>4, <2>5
<1>4. stage[t] \in {"core", "namespace", "manual"} /\ stage'[t] \in {"none", stage[t]}
      BY DEF LockHeld, Resting, StartupTypeOK
<1>5. ~InLock(t, s)'
      BY <1>3 DEF InLock
<1>6. CASE stage[t] \in {"core", "namespace"}
  <2>1. lock = t /\ InLock(t, s) /\ LockMay(s)
        BY <1>2, <1>6 DEF LockHeld, InLock, LockMay
  <2>2. ASSUME NEW u \in Tasks
        PROVE  ~InLock(u, s)'
    <3>1. CASE u = t
          BY <1>5, <3>1
    <3>2. CASE u # t
          BY <2>1, <3>2 DEF Elsewhere, Apart, LockHeld, InLock
    <3> QED BY <3>1, <3>2
  <2>3. ~LockMay(s)'
        BY <2>2 DEF LockMay, Elsewhere
  <2>4. ManualMay(s)' => ManualMay(s)
    <3>1. CASE s[1] # t
          BY <3>1, OthersManual
    <3>2. CASE s[1] = t
          BY <1>4, <1>6, <3>2 DEF ManualMay
    <3> QED BY <3>1, <3>2
  <2> QED BY <2>1, <2>3, <2>4
<1>7. CASE stage[t] = "manual"
  <2>1. s[1] = t /\ t \in Manuals /\ ManualMay(s)
        BY <1>1, <1>2, <1>7 DEF LockHeld, ManualMay
  <2>2. ~ManualMay(s)'
        BY <1>3, <1>4, <1>7, <2>1 DEF ManualMay
  <2>3. LockMay(s)' => LockMay(s)
        BY <1>5, OthersLock
  <2> QED BY <2>1, <2>2, <2>3
<1> QED BY <1>4, <1>6, <1>7

LEMMA BudgetStep ==
    ASSUME StartupTypeOK, StartupTypeOK', LockHeld, RunsSound, Budget, StartupNext
    PROVE  Budget'
<1> USE StartupAssumption
<1>1. ASSUME NEW t \in Tasks, UNCHANGED todo
      PROVE  \E f : todo' = [todo EXCEPT ![t] = f]
  <2>1. todo' = [todo EXCEPT ![t] = todo[t]]
        BY <1>1 DEF StartupTypeOK
  <2> QED BY <2>1
<1>2. ASSUME NEW t \in Tasks, Elsewhere(t), executed' = executed, lost' = lost,
             \A s \in Scripts : /\ InLock(t, s)' => LockMay(s)
                                /\ s[1] = t /\ ManualMay(s)' => ManualMay(s)
      PROVE  Budget'
  <2>1. ASSUME NEW s \in Scripts
        PROVE  Fits(s)'
    <3>1. executed'[s] = executed[s] /\ lost'[s] >= lost[s]
          BY <1>2 DEF StartupTypeOK
    <3> QED BY <1>2, <3>1, FitsElsewhere DEF Budget
  <2> QED BY <2>1 DEF Budget
<1>3. ASSUME NEW t \in Tasks, Enter(t)
      PROVE  Budget'
  <2>1. /\ UNCHANGED <<initialized, recorded, todo, left, executed, lost>> /\ pc[t] = "idle"
        BY <1>3 DEF Enter, database
  <2>2. CASE t \in Manuals /\ initialized
    <3>1. StartRun(t, "manual", t) /\ t \in Paths
          BY <1>3, <2>2, TasksOf DEF Enter
    <3>2. Elsewhere(t)
          BY <1>1, <2>1, <3>1, EndsQuiet DEF Elsewhere, Quiet
    <3>3. \A s \in Scripts : s[1] = t /\ ManualMay(s)' => ManualMay(s)
          BY <2>1, <2>2, <3>1, ManualChances DEF ManualMay
    <3> QED BY <1>2, <2>1, <2>2, <3>1, <3>2, <3>3, ManualChances
  <2>3. CASE t \notin Manuals /\ initialized
    <3>1. AfterEnsure(t, path, enabled, disabled)
          BY <1>3, <2>3 DEF Enter
    <3>2. \E s \in {"using", "done"} : Rest(t, s)
          BY <2>3, <3>1 DEF AfterEnsure
    <3>3. Elsewhere(t)
          BY <1>1, <2>1, <3>2, EndsQuiet DEF Elsewhere, Quiet, Resting
    <3> QED BY <1>2, <2>1, <3>2, <3>3, RestChances
  <2>4. CASE ~initialized
    <3>1. pc' = [pc EXCEPT ![t] = "waiting"] /\ UNCHANGED <<stage, plan>>
          BY <1>3, <2>4 DEF Enter
    <3>2. Elsewhere(t)
          BY <2>1, <3>1 DEF Elsewhere, Apart, StartupTypeOK
    <3>3. stage[t] = "none"
          BY <2>1 DEF LockHeld, Resting
    <3>4. \A s \in Scripts : /\ ~InLock(t, s)'
                             /\ s[1] = t /\ ManualMay(s)' => ManualMay(s)
          BY <2>1, <3>1, <3>3 DEF InLock, ManualMay
    <3> QED BY <1>2, <2>1, <3>2, <3>4
  <2> QED BY <2>2, <2>3, <2>4 DEF StartupTypeOK
<1>4. ASSUME NEW t \in Tasks, EnterNothing(t) \/ Use(t)
      PROVE  Budget'
  <2>1. Rest(t, "done") /\ UNCHANGED <<initialized, recorded, todo, left, executed, lost>>
        BY <1>4 DEF EnterNothing, Use, database, process
  <2>2. Elsewhere(t)
        BY <1>1, <2>1, EndsQuiet DEF Elsewhere, Quiet, Resting
  <2> QED BY <1>2, <2>1, <2>2, RestChances
<1>5. ASSUME NEW t \in Tasks, Acquire(t)
      PROVE  Budget'
  <2>1. UNCHANGED <<initialized, recorded, todo, left, executed, lost>> /\ pc[t] = "waiting"
        BY <1>5 DEF Acquire, database
  <2>2. CASE initialized
    <3>1. AfterEnsure(t, path, enabled, disabled)
          BY <1>5, <2>2 DEF Acquire
    <3>2. path \in Paths /\ enabled \in BOOLEAN /\ disabled \in BOOLEAN
          BY DEF StartupTypeOK
    <3>3. \/ \E r \in {"using", "done"} : Rest(t, r)
          \/ t \in Manuals /\ StartRun(t, "manual", t)
          BY <3>1, <3>2, AfterEnsureEffect
    <3>4. Elsewhere(t)
          BY <1>1, <2>1, <3>3, EndsQuiet, TasksOf DEF Elsewhere, Quiet, Resting
    <3>5. \A s \in Scripts : ~InLock(t, s)' /\ (s[1] = t /\ ManualMay(s)' => ManualMay(s))
          BY <2>1, <3>3, RestChances, ManualChances DEF ManualMay
    <3> QED BY <1>2, <2>1, <3>4, <3>5
  <2>3. CASE ~initialized
    <3>1. pc' = [pc EXCEPT ![t] = "connecting"] /\ UNCHANGED <<stage, plan>>
          BY <1>5, <2>3 DEF Acquire
    <3>2. Elsewhere(t)
          BY <2>1, <3>1 DEF Elsewhere, Apart, StartupTypeOK
    <3>3. stage[t] = "none"
          BY <2>1 DEF LockHeld, Resting
    <3>4. \A s \in Scripts : /\ ~InLock(t, s)'
                             /\ s[1] = t /\ ManualMay(s)' => ManualMay(s)
          BY <2>1, <3>1, <3>3 DEF InLock, ManualMay
    <3> QED BY <1>2, <2>1, <3>2, <3>4
  <2> QED BY <2>2, <2>3 DEF StartupTypeOK
<1>6. ASSUME NEW t \in Tasks, Connect(t)
      PROVE  Budget'
  <2>1. initialized' /\ UNCHANGED <<recorded, todo, executed, lost>> /\ pc[t] = "connecting"
        BY <1>6 DEF Connect, database
  <2>2. ~initialized /\ lock = t
        BY <2>1 DEF LockHeld
  <2>3. CASE StartRun(t, "core", path)
    <3>1. Elsewhere(t)
          BY <1>1, <2>1, <2>2, <2>3, EndsQuiet DEF Elsewhere, Quiet, StartupTypeOK
    <3>2. pc'[t] = "creating" /\ stage'[t] = "core" /\ plan'[t] = "core"
          BY <2>2, <2>3 DEF StartRun, StartupTypeOK, LockHeld
    <3>3. \A s \in Scripts : InLock(t, s)' => LockMay(s)
          BY <2>1, <2>2, <3>2 DEF InLock, LockMay, MayStill
    <3>4. \A s \in Scripts : s[1] = t /\ ManualMay(s)' => ManualMay(s)
          BY <2>1, <3>2 DEF ManualMay
    <3> QED BY <1>2, <2>1, <3>1, <3>3, <3>4
  <2>4. CASE AfterCore(t)
    <3>1. PICK rest \in SUBSET DOMAIN Registered : Continue(t, rest, path, enabled, nsRun)
          BY <2>4 DEF AfterCore
    <3>2. LeavesLock(t) \/ GoesOn(t, rest, nsRun)
          BY <3>1, ContinueEffect DEF StartupTypeOK
    <3>3. Elsewhere(t)
          BY <1>1, <2>1, <2>2, <3>2, LeavesQuiet DEF Elsewhere, Quiet
    <3>4. ASSUME NEW s \in Scripts
          PROVE  /\ InLock(t, s)' => s[2] \notin recorded
                 /\ s[1] = t /\ ManualMay(s)' => s[2] \notin recorded
          BY <2>1, <3>2, LeavesChances, GoesOnChances
    <3>5. \A s \in Scripts : /\ InLock(t, s)' => LockMay(s)
                             /\ s[1] = t /\ ManualMay(s)' => ManualMay(s)
          BY <2>1, <2>2, <3>4 DEF LockMay, ManualMay
    <3> QED BY <1>2, <2>1, <3>3, <3>5
  <2> QED BY <1>6, <2>3, <2>4 DEF Connect
<1>7. ASSUME NEW t \in Tasks, CreateTable(t)
      PROVE  Budget'
  <2>1. /\ UNCHANGED <<initialized, recorded, todo, left, stage, plan, executed, lost>>
        /\ pc[t] = "creating" /\ pc' = [pc EXCEPT ![t] = "listing"]
        BY <1>7 DEF CreateTable, database, process
  <2>2. Elsewhere(t)
        BY <2>1 DEF Elsewhere, Apart, StartupTypeOK
  <2>3. pc'[t] = "listing"
        BY <2>1 DEF StartupTypeOK
  <2>4. \A s \in Scripts : /\ InLock(t, s)' => InLock(t, s)
                           /\ s[1] = t /\ ManualMay(s)' => ManualMay(s)
        BY <2>1, <2>3 DEF InLock, ManualMay, MayStill, Later
  <2> QED BY <1>2, <2>1, <2>2, <2>4 DEF LockMay
<1>8. ASSUME NEW t \in Tasks, List(t)
      PROVE  Budget'
  <2> DEFINE files == Pending(t, recorded)
  <2>1. /\ Executes(t, files) /\ todo' = [todo EXCEPT ![t] = files] /\ pc[t] = "listing"
        /\ UNCHANGED <<initialized, recorded, executed, lost>>
        BY <1>8 DEF List, database
  <2>2. Elsewhere(t)
        BY <2>1, ExecutesElsewhere
  <2>3. ASSUME NEW s \in Scripts, \E i \in files : s[2] = Files[s[1]][i], plan[t] = s[1]
        PROVE  MayStill(t, s)
        BY <2>1, <2>3 DEF Pending, MayStill
  <2>4. \A s \in Scripts : /\ InLock(t, s)' => InLock(t, s)
                           /\ s[1] = t /\ ManualMay(s)' => ManualMay(s)
        BY <2>1, <2>3, ExecutesChances
  <2> QED BY <1>2, <2>1, <2>2, <2>4 DEF LockMay
<1>9. ASSUME NEW t \in Tasks, ListFails(t)
      PROVE  Budget'
  <2> DEFINE files == Pending(t, {})
  <2>1. /\ Executes(t, files) /\ todo' = [todo EXCEPT ![t] = files] /\ pc[t] = "listing"
        /\ UNCHANGED <<initialized, recorded, executed>>
        BY <1>9 DEF ListFails
  <2>2. Elsewhere(t)
        BY <2>1, ExecutesElsewhere
  <2>3. ASSUME NEW s \in Scripts
        PROVE  Fits(s)'
    <3>1. CASE s[1] = plan[t] /\ s[2] \in recorded
      <4>1. lost'[s] = lost[s] + 1 /\ executed'[s] = executed[s] /\ executed[s] \in Nat
            BY <1>9, <2>1, <3>1 DEF ListFails, StartupTypeOK
      <4>2. executed'[s] <= executed[s] + Once(LockMay(s)) + Once(ManualMay(s))
            BY <4>1 DEF Once
      <4> QED BY <4>1, <4>2, FitsLost DEF Budget
    <3>2. CASE ~(s[1] = plan[t] /\ s[2] \in recorded)
      <4>1. lost'[s] = lost[s] /\ executed'[s] = executed[s] /\ lost[s] \in Nat
            BY <1>9, <2>1, <3>2 DEF ListFails, StartupTypeOK
      <4>2. (\E i \in files : s[2] = Files[s[1]][i]) /\ plan[t] = s[1] => MayStill(t, s)
            BY <2>1, <3>2 DEF MayStill
      <4>3. /\ InLock(t, s)' => LockMay(s)
            /\ s[1] = t /\ ManualMay(s)' => ManualMay(s)
            BY <2>1, <4>2, ExecutesChances DEF LockMay
      <4> QED BY <2>2, <4>1, <4>3, FitsElsewhere DEF Budget
    <3> QED BY <3>1, <3>2
  <2> QED BY <2>3 DEF Budget
<1>10. ASSUME NEW t \in Tasks, Execute(t)
       PROVE  Budget'
  <2>1. PICK i \in todo[t] :
               /\ First(i, todo[t])
               /\ executed' = [executed EXCEPT ![Script(plan[t], i)] = @ + 1]
        BY <1>10 DEF Execute, Runs
  <2>2. /\ UNCHANGED <<initialized, recorded, todo, left, stage, plan, lost>>
        /\ pc[t] = "executing" /\ pc' = [pc EXCEPT ![t] = "recording"]
        BY <1>10 DEF Execute, process
  <2>3. Elsewhere(t) /\ pc'[t] = "recording" /\ initialized
    <3>1. stage[t] # "none"
          BY <2>2 DEF LockHeld, Resting
    <3>2. initialized
          BY <3>1 DEF LockHeld
    <3> QED BY <2>2, <3>2 DEF Elsewhere, Apart, StartupTypeOK
  <2>4. ASSUME NEW s \in Scripts
        PROVE  Fits(s)'
    <3>1. lost'[s] >= lost[s] /\ lost[s] \in Nat
          BY <2>2 DEF StartupTypeOK
    <3>2. CASE s = Script(plan[t], i)
      <4>1. executed'[s] = executed[s] + 1
            BY <2>1, <3>2 DEF StartupTypeOK
      <4>2. \/ LockMay(s) /\ ~LockMay(s)' /\ (ManualMay(s)' => ManualMay(s))
            \/ ManualMay(s) /\ ~ManualMay(s)' /\ (LockMay(s)' => LockMay(s))
            BY <2>1, <2>2, <2>3, <3>2, RunsUses
      <4> QED BY <3>1, <4>1, <4>2, FitsUsed DEF Budget
    <3>3. CASE s # Script(plan[t], i)
      <4>1. executed'[s] = executed[s]
            BY <2>1, <3>3 DEF StartupTypeOK
      <4>2. MayStill(t, s)' => MayStill(t, s)
            BY <2>2, <2>3 DEF MayStill, First
      <4>3. /\ InLock(t, s)' => LockMay(s)
            /\ s[1] = t /\ ManualMay(s)' => ManualMay(s)
            BY <2>2, <2>3, <4>2 DEF InLock, ManualMay, LockMay, Later
      <4> QED BY <2>3, <3>1, <4>1, <4>3, FitsElsewhere DEF Budget
    <3> QED BY <3>2, <3>3
  <2> QED BY <2>4 DEF Budget
<1>11. ASSUME NEW t \in Tasks, Record(t)
       PROVE  Budget'
  <2>1. PICK i \in todo[t] :
               /\ First(i, todo[t])
               /\ recorded' = recorded \cup {Files[plan[t]][i]}
               /\ todo' = [todo EXCEPT ![t] = @ \ {i}]
               /\ Executes(t, todo[t] \ {i})
        BY <1>11 DEF Record
  <2>2. pc[t] = "recording" /\ UNCHANGED <<initialized, executed, lost>>
        BY <1>11 DEF Record
  <2>3. todo' = [todo EXCEPT ![t] = todo[t] \ {i}] /\ recorded \subseteq recorded'
        BY <2>1
  <2>4. Elsewhere(t)
        BY <2>1, <2>2, <2>3, ExecutesElsewhere
  <2>5. ASSUME NEW s \in Scripts, \E k \in todo[t] \ {i} : s[2] = Files[s[1]][k], plan[t] = s[1]
        PROVE  MayStill(t, s)
        BY <2>1, <2>2, <2>5, SameFile DEF MayStill
  <2>6. \A s \in Scripts : /\ InLock(t, s)' => InLock(t, s)
                           /\ s[1] = t /\ ManualMay(s)' => ManualMay(s)
        BY <2>1, <2>3, <2>5, ExecutesChances
  <2> QED BY <1>2, <2>2, <2>4, <2>6 DEF LockMay
<1>12. ASSUME NEW s \in Scripts, lost' = LosesTrack
       PROVE  lost'[s] = IF executed'[s] > 0 /\ s[2] \notin recorded
                         THEN lost[s] + 1 ELSE lost[s]
       BY <1>12 DEF LosesTrack
<1>13. ASSUME NEW t \in Tasks, Fault(t)
       PROVE  Budget'
  <2>1. /\ Rest(t, "failed") /\ UNCHANGED <<initialized, recorded, todo, left>>
        /\ lost' = LosesTrack
        BY <1>13 DEF Fault
  <2>2. Elsewhere(t)
        BY <1>1, <2>1, EndsQuiet DEF Elsewhere, Quiet, Resting
  <2>3. ASSUME NEW s \in Scripts
        PROVE  lost'[s] >= lost[s] /\ lost[s] \in Nat /\ executed[s] \in Nat
        BY <1>12, <2>1 DEF StartupTypeOK
  <2>4. ASSUME NEW s \in Scripts, executed'[s] = executed[s]
        PROVE  Fits(s)'
        BY <2>1, <2>2, <2>3, <2>4, RestChances, FitsElsewhere DEF Budget
  <2>5. CASE UNCHANGED executed
        BY <2>4, <2>5 DEF Budget
  <2>6. ASSUME pc[t] = "executing", Runs(t)
        PROVE  Budget'
    <3>1. PICK i \in todo[t] :
                 /\ First(i, todo[t])
                 /\ executed' = [executed EXCEPT ![Script(plan[t], i)] = @ + 1]
          BY <2>6 DEF Runs
    <3>2. stage'[t] = "none" /\ pc'[t] = "failed" /\ initialized
      <4>1. stage[t] # "none"
            BY <2>6 DEF LockHeld, Resting
      <4>2. initialized
            BY <4>1 DEF LockHeld
      <4> QED BY <2>1, <4>2 DEF Rest, StartupTypeOK
    <3>3. ASSUME NEW s \in Scripts, s = Script(plan[t], i)
          PROVE  Fits(s)'
      <4>1. executed'[s] = executed[s] + 1
            BY <3>1, <3>3 DEF StartupTypeOK
      <4>2. \/ LockMay(s) /\ ~LockMay(s)' /\ (ManualMay(s)' => ManualMay(s))
            \/ ManualMay(s) /\ ~ManualMay(s)' /\ (LockMay(s)' => LockMay(s))
            BY <2>1, <2>2, <2>6, <3>1, <3>2, <3>3, RunsUses
      <4> QED BY <2>3, <4>1, <4>2, FitsUsed DEF Budget
    <3>4. ASSUME NEW s \in Scripts, s # Script(plan[t], i)
          PROVE  Fits(s)'
      <4>1. executed'[s] = executed[s]
            BY <3>1, <3>4 DEF StartupTypeOK
      <4> QED BY <2>4, <4>1
    <3> QED BY <3>3, <3>4 DEF Budget
  <2> QED BY <1>13, <2>5, <2>6 DEF Fault
<1>14. ASSUME Crash
       PROVE  Budget'
  <2>1. /\ ~initialized' /\ stage' = [t \in Tasks |-> "none"] /\ UNCHANGED <<recorded, executed>>
        /\ lost' = LosesTrack
        BY <1>14 DEF Crash
  <2>2. ASSUME NEW s \in Scripts
        PROVE  Fits(s)'
    <3>1. executed[s] \in Nat /\ lost[s] \in Nat /\ executed'[s] = executed[s]
          BY <2>1 DEF StartupTypeOK
    <3>2. CASE executed[s] > 0 /\ s[2] \notin recorded
      <4>1. lost'[s] = lost[s] + 1
            BY <1>12, <2>1, <3>1, <3>2
      <4>2. executed'[s] <= executed[s] + Once(LockMay(s)) + Once(ManualMay(s))
            BY <3>1 DEF Once
      <4> QED BY <4>1, <4>2, FitsLost DEF Budget
    <3>3. CASE s[2] \in recorded
      <4>1. lost'[s] = lost[s]
            BY <1>12, <2>1, <3>3
      <4>2. ~LockMay(s)'
            BY <2>1, <3>3 DEF LockMay, InLock
      <4>3. ~ManualMay(s)'
            BY <2>1, <3>3, TasksOf DEF ManualMay
      <4> QED BY <3>1, <4>1, <4>2, <4>3, FitsKept DEF Budget
    <3>4. CASE executed[s] = 0
      <4>1. lost'[s] \in Nat /\ executed'[s] = 0
            BY <3>1, <3>4 DEF StartupTypeOK
      <4>2. Once(LockMay(s))' \in 0..1 /\ Once(ManualMay(s))' \in 0..1
            BY DEF Once
      <4>3. s[1] \notin Manuals => Once(ManualMay(s))' = 0
            BY DEF Once, ManualMay
      <4> QED BY <4>1, <4>2, <4>3 DEF Fits, Allowed
    <3> QED BY <3>1, <3>2, <3>3, <3>4
  <2> QED BY <2>2 DEF Budget
<1> QED BY <1>3, <1>4, <1>5, <1>6, <1>7, <1>8, <1>9, <1>10, <1>11, <1>13, <1>14
        DEF StartupNext, Step

-----------------------------------------------------------------------------
(* The invariant and what follows from it.                                 *)

LEMMA InitHolds == StartupInit => StartupInv
<1> SUFFICES ASSUME StartupInit
             PROVE  StartupInv
    OBVIOUS
<1> USE StartupAssumption
<1>1. StartupTypeOK
      BY DEF StartupInit, StartupTypeOK, NotSaved, Resting
<1>2. LockHeld
      BY DEF StartupInit, LockHeld, Resting
<1>3. RunsSound
      BY DEF StartupInit, RunsSound
<1>4. RecordedIsExecuted
      BY TasksOf DEF StartupInit, RecordedIsExecuted
<1>5. ASSUME NEW s \in Scripts
      PROVE  Fits(s)
  <2>1. executed[s] = 0 /\ lost[s] = 0
        BY DEF StartupInit
  <2>2. Once(LockMay(s)) \in 0..1 /\ Once(ManualMay(s)) \in 0..1
        BY DEF Once
  <2>3. s[1] \notin Manuals => Once(ManualMay(s)) = 0
        BY DEF Once, ManualMay
  <2> QED BY <2>1, <2>2, <2>3 DEF Fits, Allowed
<1>6. CoreFirst
      BY DEF StartupInit, CoreFirst
<1> QED BY <1>1, <1>2, <1>3, <1>4, <1>5, <1>6 DEF StartupInv, Budget

LEMMA StepHolds == StartupInv /\ [StartupNext]_startupVars => StartupInv'
<1> SUFFICES ASSUME StartupInv, [StartupNext]_startupVars
             PROVE  StartupInv'
    OBVIOUS
<1>1. CASE StartupNext
  <2>1. StartupTypeOK' /\ LockHeld'
        BY <1>1, TypeStep, LockStep DEF StartupInv
  <2>2. RunsSound' /\ RecordedIsExecuted'
        BY <1>1, RunsStep DEF StartupInv
  <2>3. Budget'
        BY <1>1, <2>1, BudgetStep DEF StartupInv
  <2>4. CoreFirst'
        BY <1>1, CoreStep DEF StartupInv
  <2> QED BY <2>1, <2>2, <2>3, <2>4 DEF StartupInv
<1>2. CASE UNCHANGED startupVars
  <2> USE <1>2 DEF startupVars, process, tasks, database
  <2>1. StartupTypeOK' /\ LockHeld'
        BY DEF StartupInv, StartupTypeOK, LockHeld
  <2>2. RunsSound' /\ RecordedIsExecuted'
        BY DEF StartupInv, RunsSound, RecordedIsExecuted, First
  <2>3. Budget'
    <3> SUFFICES ASSUME NEW s \in Scripts
                 PROVE  Fits(s)'
        BY DEF Budget
    <3>1. ASSUME NEW t \in Tasks
          PROVE  (MayStill(t, s)' => MayStill(t, s)) /\ (InLock(t, s)' => InLock(t, s))
          BY DEF MayStill, InLock, Later, First
    <3>2. LockMay(s)' => LockMay(s)
          BY <3>1 DEF LockMay
    <3>3. ManualMay(s)' => ManualMay(s)
          BY <3>1, TasksOf DEF ManualMay
    <3>4. executed'[s] = executed[s] /\ lost'[s] >= lost[s]
          BY DEF StartupInv, StartupTypeOK
    <3> QED BY <2>1, <3>2, <3>3, <3>4, FitsKept DEF StartupInv, Budget
  <2>4. CoreFirst'
        BY DEF StartupInv, CoreFirst, CoreFiles
  <2> QED BY <2>1, <2>2, <2>3, <2>4 DEF StartupInv
<1> QED BY <1>1, <1>2

\* The invariant holds from the first call to the last, over every crash.
THEOREM StartupInvariance == StartupSpec => []StartupInv
BY InitHolds, StepHolds, PTL DEF StartupSpec

\* Every variable of the startup keeps its type.
THEOREM StartupTypes == StartupSpec => []StartupTypeOK
<1>1. StartupInv => StartupTypeOK
      BY DEF StartupInv
<1> QED BY <1>1, StartupInvariance, PTL

\* schema_migrations says of no script that it was executed when it was not,
\* and of none too early: RecordedIsExecuted, of MigrationRunner.run.
THEOREM RecordIsTrue == StartupSpec => []RecordedIsExecuted
<1>1. StartupInv => RecordedIsExecuted
      BY DEF StartupInv
<1> QED BY <1>1, StartupInvariance, PTL

\* However the calls interleave and whatever fails, a script is executed once,
\* and once more for each time the process lost track of it.
THEOREM OnceEach == StartupSpec => []ExecutionsBounded
<1>1. StartupInv => ExecutionsBounded
  <2> SUFFICES ASSUME StartupInv, NEW s \in Scripts
               PROVE  executed[s] <= (1 + lost[s]) * (IF s[1] \in Manuals THEN 2 ELSE 1)
      BY DEF ExecutionsBounded
  <2>1. executed[s] \in Nat /\ lost[s] \in Nat
        BY DEF StartupInv, StartupTypeOK
  <2>2. Once(LockMay(s)) >= 0 /\ Once(ManualMay(s)) >= 0
        BY DEF Once
  <2>3. Fits(s)
        BY DEF StartupInv, Budget
  <2>4. Once(LockMay(s)) \in Int /\ Once(ManualMay(s)) \in Int
        BY DEF Once
  <2>5. executed[s] <= Allowed(s)
        BY <2>1, <2>2, <2>3, <2>4 DEF Fits, Allowed
  <2> QED BY <2>1, <2>5 DEF Allowed
<1> QED BY <1>1, StartupInvariance, PTL

\* A store that is ready has the core's tables, if no manual run interfered:
\* _ensure_initialized.
THEOREM CoreInPlace == StartupSpec => []CoreMigrated
<1>1. StartupInv => CoreMigrated
  <2> SUFFICES ASSUME StartupInv, setting, initialized, lock = None, faults = 0,
                      \A m \in Manuals : pc[m] = "idle"
               PROVE  CoreFiles \subseteq recorded
      BY DEF CoreMigrated
  <2>1. \A t \in Tasks : stage[t] # "core"
        BY StartupAssumption DEF StartupInv, LockHeld
  <2> QED BY <2>1 DEF StartupInv, CoreFirst
<1> QED BY <1>1, StartupInvariance, PTL

-----------------------------------------------------------------------------
(* The safety half of CallsEnd: nobody waits for a lock that nobody is     *)
(* about to give back.                                                     *)

\* A runner that executes or records has a file to do it with.
HasFiles == \A t \in Tasks : pc[t] \in {"executing", "recording"} => todo[t] # {}

\* The task in the lock is connecting or runs migrations; one of the latter
\* that is at a file has a first one.
HolderGoesOn ==
    /\ \A t \in Tasks :
          pc[t] = "waiting" =>
              \/ lock = None
              \/ lock \in Tasks \ {t} /\ pc[lock] \in {"connecting"} \cup Running
    /\ \A t \in Tasks :
          pc[t] \in {"executing", "recording"} => \E i \in todo[t] : First(i, todo[t])

LEMMA FirstExists ==
    ASSUME NEW S \in SUBSET Nat, S # {}
    PROVE  \E n \in S : First(n, S)
<1> DEFINE T == {1 .. n : n \in S}
<1>1. T \subseteq FiniteSubsetsOf(Nat)
  <2>1. ASSUME NEW n \in Nat PROVE 1 .. n \in FiniteSubsetsOf(Nat)
    <3>1. IsFiniteSet(1 .. n)
          BY FS_Interval
    <3>2. 1 .. n \in SUBSET Nat
          OBVIOUS
    <3> QED BY <3>1, <3>2 DEF FiniteSubsetsOf
  <2> QED BY <2>1
<1>2. PICK x \in T : \A y \in T : ~(<<y, x>> \in StrictSubsetOrdering(Nat))
  <2>1. T # {}
        OBVIOUS
  <2> HIDE DEF T
  <2> QED BY <1>1, <2>1, WFMin, FS_StrictSubsetOrderingWellFounded
<1>3. PICK n \in S : x = 1 .. n
      OBVIOUS
<1>4. ASSUME NEW m \in S, m < n PROVE FALSE
  <2>1. 1 .. m \in SUBSET Nat /\ x \in SUBSET Nat
        BY <1>3
  <2>2. 1 .. m \subseteq x /\ n \in x /\ n \notin 1 .. m
        BY <1>3, <1>4
  <2>3. <<1 .. m, x>> \in StrictSubsetOrdering(Nat)
        BY <2>1, <2>2 DEF StrictSubsetOrdering
  <2> QED BY <1>2, <2>3
<1> QED BY <1>4 DEF First

\* Every step leaves the loop over the files, or has found one.
LEMMA FilesStep ==
    ASSUME StartupTypeOK, LockHeld, HasFiles, StartupNext
    PROVE  HasFiles'
<1> USE StartupAssumption
<1>1. ASSUME NEW t \in Tasks, Quiet(t)
      PROVE  HasFiles'
      BY <1>1 DEF HasFiles, Quiet, Apart
<1>2. ASSUME NEW t \in Tasks, UNCHANGED todo
      PROVE  \E f : todo' = [todo EXCEPT ![t] = f]
  <2>1. todo' = [todo EXCEPT ![t] = todo[t]]
        BY <1>2 DEF StartupTypeOK
  <2> QED BY <2>1
<1>3. ASSUME NEW t \in Tasks, NEW s, s \notin {"idle", "executing", "recording"},
             pc' = [pc EXCEPT ![t] = s], UNCHANGED todo
      PROVE  HasFiles'
      BY <1>3 DEF HasFiles, StartupTypeOK
<1>4. ASSUME NEW t \in Tasks, AfterEnsure(t, path, enabled, disabled), UNCHANGED todo
      PROVE  HasFiles'
  <2>1. path \in Paths /\ enabled \in BOOLEAN /\ disabled \in BOOLEAN
        BY DEF StartupTypeOK
  <2>2. Quiet(t)
        BY <1>2, <1>4, <2>1, AfterEnsureEffect, EndsQuiet, TasksOf DEF Resting
  <2> QED BY <1>1, <2>2
<1>5. ASSUME NEW t \in Tasks, Enter(t)
      PROVE  HasFiles'
  <2>1. \/ AfterEnsure(t, path, enabled, disabled)
        \/ StartRun(t, "manual", t)
        \/ pc' = [pc EXCEPT ![t] = "waiting"]
        BY <1>5 DEF Enter
  <2>2. UNCHANGED todo
        BY <1>5 DEF Enter
  <2> QED BY <1>3, <1>4, <2>1, <2>2 DEF StartRun
<1>6. ASSUME NEW t \in Tasks, EnterNothing(t) \/ Use(t) \/ CreateTable(t)
      PROVE  HasFiles'
      BY <1>3, <1>6 DEF EnterNothing, Use, CreateTable, Rest
<1>7. ASSUME NEW t \in Tasks, Acquire(t)
      PROVE  HasFiles'
      BY <1>3, <1>4, <1>7 DEF Acquire
<1>8. ASSUME NEW t \in Tasks, Connect(t)
      PROVE  HasFiles'
  <2>1. UNCHANGED todo
        BY <1>8 DEF Connect
  <2>2. CASE StartRun(t, "core", path)
        BY <1>3, <2>1, <2>2 DEF StartRun
  <2>3. CASE AfterCore(t)
    <3>1. PICK rest \in SUBSET DOMAIN Registered : Continue(t, rest, path, enabled, nsRun)
          BY <2>3 DEF AfterCore
    <3>2. LeavesLock(t) \/ GoesOn(t, rest, nsRun)
          BY <3>1, ContinueEffect DEF StartupTypeOK
    <3> QED BY <1>1, <1>2, <2>1, <3>2, LeavesQuiet
  <2> QED BY <1>8, <2>2, <2>3 DEF Connect
<1>9. ASSUME NEW t \in Tasks, NEW files, Executes(t, files), todo' = [todo EXCEPT ![t] = files]
      PROVE  HasFiles'
  <2>1. CASE RunEnds(t)
        BY <1>1, <1>9, <2>1, RunEndsQuiet
  <2>2. CASE files # {} /\ pc' = [pc EXCEPT ![t] = "executing"]
        BY <1>9, <2>2 DEF HasFiles, StartupTypeOK
  <2> QED BY <1>9, <2>1, <2>2 DEF Executes
<1>10. ASSUME NEW t \in Tasks, List(t) \/ ListFails(t)
       PROVE  HasFiles'
       BY <1>9, <1>10 DEF List, ListFails
<1>11. ASSUME NEW t \in Tasks, Record(t)
       PROVE  HasFiles'
  <2>1. PICK i \in todo[t] :
               /\ todo' = [todo EXCEPT ![t] = @ \ {i}]
               /\ Executes(t, todo[t] \ {i})
        BY <1>11 DEF Record
  <2>2. todo' = [todo EXCEPT ![t] = todo[t] \ {i}]
        BY <2>1
  <2> QED BY <1>9, <2>1, <2>2
<1>12. ASSUME NEW t \in Tasks, Execute(t)
       PROVE  HasFiles'
       BY <1>12 DEF Execute, HasFiles, StartupTypeOK
<1>13. ASSUME NEW t \in Tasks, Fault(t)
       PROVE  HasFiles'
       BY <1>3, <1>13 DEF Fault, Rest
<1>14. ASSUME Crash
       PROVE  HasFiles'
       BY <1>14 DEF Crash, HasFiles
<1> QED BY <1>5, <1>6, <1>7, <1>8, <1>10, <1>11, <1>12, <1>13, <1>14 DEF StartupNext, Step

\* However the calls interleave, fail and are interrupted by a crash, a task
\* that waits for _init_lock finds it free or with one that is at an await of
\* its own and has what it needs to go on (StorageManager._ensure_initialized).
THEOREM LockComesFree == StartupSpec => []HolderGoesOn
<1>1. StartupInit => HasFiles
      BY DEF StartupInit, HasFiles
<1>2. StartupInv /\ HasFiles /\ [StartupNext]_startupVars => HasFiles'
  <2> SUFFICES ASSUME StartupInv, HasFiles, [StartupNext]_startupVars
               PROVE  HasFiles'
      OBVIOUS
  <2>1. CASE StartupNext
        BY <2>1, FilesStep DEF StartupInv
  <2>2. CASE UNCHANGED startupVars
        BY <2>2 DEF HasFiles, startupVars, tasks
  <2> QED BY <2>1, <2>2
<1>3. StartupInv /\ HasFiles => HolderGoesOn
  <2> SUFFICES ASSUME StartupInv, HasFiles
               PROVE  HolderGoesOn
      OBVIOUS
  <2>1. ASSUME NEW t \in Tasks, pc[t] = "waiting", lock # None
        PROVE  lock \in Tasks \ {t} /\ pc[lock] \in {"connecting"} \cup Running
    <3>1. lock \in Tasks /\ pc[lock] \in Resting \cup Running
          BY <2>1 DEF StartupInv, StartupTypeOK
    <3>2. pc[lock] = "connecting" \/ stage[lock] \in {"core", "namespace"}
          BY <3>1 DEF StartupInv, LockHeld
    <3>3. stage[lock] = "none" <=> pc[lock] \in Resting
          BY <3>1 DEF StartupInv, LockHeld
    <3>4. pc[lock] # "waiting"
          BY <3>2, <3>3 DEF Resting
    <3> QED BY <2>1, <3>1, <3>2, <3>3, <3>4
  <2>2. ASSUME NEW t \in Tasks, pc[t] \in {"executing", "recording"}
        PROVE  \E i \in todo[t] : First(i, todo[t])
    <3>1. todo[t] \in SUBSET Nat /\ todo[t] # {}
          BY <2>2 DEF StartupInv, StartupTypeOK, HasFiles
    <3> QED BY <3>1, FirstExists
  <2> QED BY <2>1, <2>2 DEF HolderGoesOn
<1> QED BY <1>1, <1>2, <1>3, StartupInvariance, PTL DEF StartupSpec

=============================================================================
