--------------------------- MODULE StoragePipeline ---------------------------
(***************************************************************************)
(* StorageManager._execute_with_resilience (storage/manager.py) with the   *)
(* default pipeline ["retry", "circuit_breaker"]: every operation runs in  *)
(* RetryStrategy.execute (storage/resilience/strategies/retry.py), and     *)
(* every attempt of it in the one CircuitBreakerStrategy of the manager.   *)
(* The exception of an attempt is caught, counted and turned into a sleep  *)
(* without an await in between, so each step below is a breaker step and   *)
(* what the retry loop does with its outcome.                              *)
(***************************************************************************)
EXTENDS CircuitBreaker, FiniteSets

CONSTANTS
    MaxRetries,         \* RetryConfig.max_retries
    InitialDelay,       \* RetryConfig.initial_delay, in ticks
    MaxDelay,           \* RetryConfig.max_delay, in ticks
    Base                \* RetryConfig.exponential_base

ASSUME RetryAssumption ==
    /\ MaxRetries \in Nat \ {0}
    /\ InitialDelay \in Nat \ {0}
    /\ MaxDelay \in Nat \ {0}
    /\ Base \in Nat \ {0, 1}

VARIABLES
    phase,              \* caller -> where its operation is
    attempt,            \* caller -> the loop variable
    delay,              \* caller -> the next sleep
    nap,                \* caller -> ticks left of this sleep
    hits,               \* history: attempts that reached the database
    refused             \* history: attempts the breaker refused

retryVars == <<phase, attempt, delay, nap, hits, refused>>
pipelineVars == <<vars, retryVars>>

Phases == {"none", "running", "sleeping", "ok", "failed", "cancelled"}
InProgress(c) == phase[c] \in {"running", "sleeping"}

PipelineInit ==
    /\ Init
    /\ phase = [c \in Callers |-> "none"]
    /\ attempt = [c \in Callers |-> 0]
    /\ delay = [c \in Callers |-> InitialDelay]
    /\ nap = [c \in Callers |-> 0]
    /\ hits = [c \in Callers |-> 0]
    /\ refused = [c \in Callers |-> 0]

Capped(d) == IF d < MaxDelay THEN d ELSE MaxDelay

\* Mutant: after the last attempt the loop neither raises nor goes on.
OnExceptionHangs(c, n, d) ==
    /\ phase' = [phase EXCEPT ![c] = IF n = MaxRetries THEN "running" ELSE "sleeping"]
    /\ attempt' = [attempt EXCEPT ![c] = IF n = MaxRetries THEN n ELSE n + 1]
    /\ nap' = [nap EXCEPT ![c] = d]
    /\ delay' = [delay EXCEPT ![c] = Capped(d * Base)]

\* except Exception: the last attempt raises, an earlier one sleeps for d and
\* moves the loop on.
OnException(c, n, d) ==
    \/ /\ n = MaxRetries
       /\ phase' = [phase EXCEPT ![c] = "failed"]
       /\ attempt' = [attempt EXCEPT ![c] = n]
       /\ delay' = [delay EXCEPT ![c] = d]
       /\ UNCHANGED nap
    \/ /\ n < MaxRetries
       /\ phase' = [phase EXCEPT ![c] = "sleeping"]
       /\ attempt' = [attempt EXCEPT ![c] = n + 1]
       /\ nap' = [nap EXCEPT ![c] = d]
       /\ delay' = [delay EXCEPT ![c] = Capped(d * Base)]

\* One attempt: the breaker lets it through to the database or refuses it, and
\* a refusal (CircuitBreakerOpenError) is an Exception like any other.
Attempt(c, n, d, h, r) ==
    \/ /\ Admit(c)
       /\ phase' = [phase EXCEPT ![c] = "running"]
       /\ attempt' = [attempt EXCEPT ![c] = n]
       /\ delay' = [delay EXCEPT ![c] = d]
       /\ hits' = [hits EXCEPT ![c] = h + 1]
       /\ refused' = [refused EXCEPT ![c] = r]
       /\ UNCHANGED nap
    \/ /\ Reject(c)
       /\ OnException(c, n, d)
       /\ hits' = [hits EXCEPT ![c] = h]
       /\ refused' = [refused EXCEPT ![c] = r + 1]

\* Mutant: the attempts of the caller's last operation count for this one.
BeginContinues(c) ==
    /\ ~InProgress(c)
    /\ Attempt(c, attempt[c], InitialDelay, 0, 0)

Begin(c) ==
    /\ ~InProgress(c)
    /\ Attempt(c, 0, InitialDelay, 0, 0)

Retry(c) ==
    /\ phase[c] = "sleeping"
    /\ nap[c] = 0
    /\ Attempt(c, attempt[c], delay[c], hits[c], refused[c])

AttemptSucceeds(c) ==
    /\ Succeed(c)
    /\ phase' = [phase EXCEPT ![c] = "ok"]
    /\ UNCHANGED <<attempt, delay, nap, hits, refused>>

AttemptFails(c) ==
    /\ Fail(c)
    /\ OnException(c, attempt[c], delay[c])
    /\ UNCHANGED <<hits, refused>>

\* The caller's task is cancelled, in the database or in the sleep: the retry
\* loop catches Exception, which CancelledError is not.
CancelAttempt(c) ==
    /\ Cancel(c)
    /\ phase' = [phase EXCEPT ![c] = "cancelled"]
    /\ UNCHANGED <<attempt, delay, nap, hits, refused>>

CancelSleep(c) ==
    /\ phase[c] = "sleeping"
    /\ phase' = [phase EXCEPT ![c] = "cancelled"]
    /\ nap' = [nap EXCEPT ![c] = 0]
    /\ UNCHANGED <<vars, attempt, delay, hits, refused>>

\* Time passes for the breaker and for every sleeper.
Clock ==
    /\ \/ Tick
       \/ /\ last_failure \notin 0 .. RecoveryTimeout - 1
          /\ \E c \in Callers : nap[c] > 0
          /\ UNCHANGED vars
    /\ nap' = [c \in Callers |-> IF nap[c] > 0 THEN nap[c] - 1 ELSE 0]
    /\ UNCHANGED <<phase, attempt, delay, hits, refused>>

StoreTurns == (StoreBreaks \/ StoreHeals) /\ UNCHANGED retryVars

PipelineNext ==
    \/ \E c \in Callers :
          \/ Begin(c) \/ Retry(c)
          \/ AttemptSucceeds(c) \/ AttemptFails(c)
          \/ CancelAttempt(c) \/ CancelSleep(c)
    \/ Clock
    \/ StoreTurns

PipelineSpec == PipelineInit /\ [][PipelineNext]_pipelineVars

\* Time passes, sleepers wake, the database answers every call one way or the
\* other, and a caller is not cancelled every time it would have succeeded.
PipelineFairSpec ==
    /\ PipelineSpec
    /\ WF_pipelineVars(Clock)
    /\ \A c \in Callers :
          /\ WF_pipelineVars(Begin(c))
          /\ WF_pipelineVars(Retry(c))
          /\ WF_pipelineVars(AttemptSucceeds(c) \/ AttemptFails(c))
          /\ SF_pipelineVars(AttemptSucceeds(c))

-----------------------------------------------------------------------------

PipelineTypeOK ==
    /\ TypeOK
    /\ phase \in [Callers -> Phases]
    /\ attempt \in [Callers -> 0 .. MaxRetries]
    /\ delay \in [Callers -> Nat \ {0}]
    /\ nap \in [Callers -> Nat]
    /\ hits \in [Callers -> Nat]
    /\ refused \in [Callers -> Nat]

\* What the caller is told is what happened: every attempt either reached the
\* database once or was refused, an operation reported failed used all
\* max_retries + 1 of them, and one reported done had its last attempt succeed.
OutcomesAccounted ==
    \A c \in Callers :
        /\ phase[c] \in {"running", "ok", "failed"} =>
              hits[c] + refused[c] = attempt[c] + 1
        /\ phase[c] = "sleeping" => hits[c] + refused[c] = attempt[c]
        /\ phase[c] = "failed" =>
              attempt[c] = MaxRetries /\ call[c] \in {"error", "rejected"}
        /\ phase[c] = "ok" => call[c] = "ok"
        /\ phase[c] = "running" <=> call[c] = "running"

\* No operation waits for ever: sleeps are bounded and attempts are counted.
OperationsEnd ==
    \A c \in Callers : InProgress(c) ~> ~InProgress(c)

\* Once the database answers for good, operations stop failing: the retries of
\* callers caught by an open breaker do not keep it open.
HealedOperationsSucceed ==
    <>[](store = "up") => <>[](\A c \in Callers : phase[c] # "failed")

\* A pipeline is a breaker with somebody deciding when to call it again.
Breaker == INSTANCE CircuitBreaker
BreakerSpec == Breaker!Spec

=============================================================================
