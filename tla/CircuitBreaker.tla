--------------------------- MODULE CircuitBreaker ---------------------------
(***************************************************************************)
(* storage/resilience/strategies/circuit_breaker.py: one breaker shared by *)
(* every coroutine that uses a StorageManager.  execute() looks at the     *)
(* state, awaits the store, and only then counts the outcome, so any       *)
(* number of calls, admitted under different states, overlap in the await. *)
(* A step is what runs between two awaits on the event loop.               *)
(***************************************************************************)
EXTENDS Integers

CONSTANTS
    Callers,            \* coroutines that share the breaker
    FailureThreshold,   \* CircuitBreakerConfig.failure_threshold
    SuccessThreshold,   \* CircuitBreakerConfig.success_threshold
    RecoveryTimeout,    \* CircuitBreakerConfig.recovery_timeout, in ticks
    MaxCount            \* bound: counters stay here once they reach it

ASSUME BreakerAssumption ==
    /\ FailureThreshold \in Nat \ {0}
    /\ SuccessThreshold \in Nat \ {0}
    /\ RecoveryTimeout \in Nat \ {0}
    /\ MaxCount \in Nat
    /\ FailureThreshold <= MaxCount
    /\ SuccessThreshold <= MaxCount

Never == -1             \* last_failure_time is None

VARIABLES
    state,              \* CircuitState
    failure_count,
    success_count,
    last_failure,       \* ticks since last_failure_time, or Never
    call,               \* caller -> where its execute() is
    store,              \* the database answers ("up") or raises ("down")
    failRun,            \* history: failures completed since the last success
    okRun               \* history: successes completed since the last failure

breakerVars == <<state, failure_count, success_count, last_failure>>
historyVars == <<failRun, okRun>>
vars == <<breakerVars, historyVars, call, store>>

CircuitStates == {"CLOSED", "OPEN", "HALF_OPEN"}
CallStates == {"idle", "running", "ok", "error", "rejected", "cancelled"}

Bump(n) == IF n < MaxCount THEN n + 1 ELSE n

ShouldAttemptReset == last_failure # Never /\ last_failure >= RecoveryTimeout

Init ==
    /\ state = "CLOSED"
    /\ failure_count = 0
    /\ success_count = 0
    /\ last_failure = Never
    /\ call = [c \in Callers |-> "idle"]
    /\ store = "up"
    /\ failRun = 0
    /\ okRun = 0

-----------------------------------------------------------------------------

\* Mutant: a new probe phase goes on counting from the last one.
AdmitKeepsSuccesses(c) ==
    /\ call[c] # "running"
    /\ state = "OPEN" => ShouldAttemptReset
    /\ call' = [call EXCEPT ![c] = "running"]
    /\ state' = IF state = "OPEN" THEN "HALF_OPEN" ELSE state
    /\ UNCHANGED <<success_count, failure_count, last_failure, store, historyVars>>

\* execute(), up to the await: an open breaker whose timeout has passed turns
\* half open; otherwise the state is left as it is.
Admit(c) ==
    /\ call[c] # "running"
    /\ state = "OPEN" => ShouldAttemptReset
    /\ call' = [call EXCEPT ![c] = "running"]
    /\ state' = IF state = "OPEN" THEN "HALF_OPEN" ELSE state
    /\ success_count' = IF state = "OPEN" THEN 0 ELSE success_count
    /\ UNCHANGED <<failure_count, last_failure, store, historyVars>>

\* execute() raises CircuitBreakerOpenError without calling func.
Reject(c) ==
    /\ call[c] # "running"
    /\ state = "OPEN"
    /\ ~ShouldAttemptReset
    /\ call' = [call EXCEPT ![c] = "rejected"]
    /\ UNCHANGED <<breakerVars, store, historyVars>>

\* _on_success()
OnSuccess ==
    /\ success_count' = IF state = "HALF_OPEN" THEN Bump(success_count)
                                               ELSE success_count
    /\ state' = IF state = "HALF_OPEN" /\ success_count' >= SuccessThreshold
                THEN "CLOSED" ELSE state
    /\ failure_count' = IF state = "CLOSED" \/ state' = "CLOSED"
                        THEN 0 ELSE failure_count
    /\ UNCHANGED last_failure

\* Mutant: a failure that opens the breaker leaves no time to recover from.
OnFailureUntimed ==
    /\ failure_count' = Bump(failure_count)
    /\ state' = IF state = "HALF_OPEN" \/ failure_count' >= FailureThreshold
                THEN "OPEN" ELSE state
    /\ UNCHANGED <<success_count, last_failure>>

\* _on_failure()
OnFailure ==
    /\ failure_count' = Bump(failure_count)
    /\ last_failure' = 0
    /\ state' = IF state = "HALF_OPEN" \/ failure_count' >= FailureThreshold
                THEN "OPEN" ELSE state
    /\ UNCHANGED success_count

\* func() returned: _on_success() under whatever state the breaker has by now.
Succeed(c) ==
    /\ call[c] = "running"
    /\ store = "up"
    /\ call' = [call EXCEPT ![c] = "ok"]
    /\ OnSuccess
    /\ okRun' = Bump(okRun)
    /\ failRun' = 0
    /\ UNCHANGED store

\* func() raised an Exception: _on_failure(), then the exception goes on.
Fail(c) ==
    /\ call[c] = "running"
    /\ store = "down"
    /\ call' = [call EXCEPT ![c] = "error"]
    /\ OnFailure
    /\ failRun' = Bump(failRun)
    /\ okRun' = 0
    /\ UNCHANGED store

\* The task is cancelled in the await: CancelledError is no Exception, so the
\* breaker counts neither a success nor a failure.
Cancel(c) ==
    /\ call[c] = "running"
    /\ call' = [call EXCEPT ![c] = "cancelled"]
    /\ UNCHANGED <<breakerVars, store, historyVars>>

\* The clock; beyond the timeout the age of the last failure tells no more.
Tick ==
    /\ last_failure \in 0 .. RecoveryTimeout - 1
    /\ last_failure' = last_failure + 1
    /\ UNCHANGED <<state, failure_count, success_count, call, store, historyVars>>

StoreBreaks ==
    /\ store = "up"
    /\ store' = "down"
    /\ UNCHANGED <<breakerVars, call, historyVars>>

StoreHeals ==
    /\ store = "down"
    /\ store' = "up"
    /\ UNCHANGED <<breakerVars, call, historyVars>>

Next ==
    \/ \E c \in Callers :
          Admit(c) \/ Reject(c) \/ Succeed(c) \/ Fail(c) \/ Cancel(c)
    \/ Tick
    \/ StoreBreaks
    \/ StoreHeals

Spec == Init /\ [][Next]_vars

-----------------------------------------------------------------------------

TypeOK ==
    /\ state \in CircuitStates
    /\ failure_count \in 0 .. MaxCount
    /\ success_count \in 0 .. MaxCount
    /\ last_failure \in Nat \cup {Never}
    /\ call \in [Callers -> CallStates]
    /\ store \in {"up", "down"}
    /\ failRun \in 0 .. MaxCount
    /\ okRun \in 0 .. MaxCount

\* The counters and the state never disagree, however the awaits overlap: the
\* breaker is closed exactly while fewer failures than the threshold are
\* counted, a half-open one is short of its successes, and one that is not
\* closed has a last_failure_time, so _should_attempt_reset can come true.
CountersAgree ==
    /\ state = "CLOSED" <=> failure_count < FailureThreshold
    /\ state = "HALF_OPEN" => success_count < SuccessThreshold
    /\ state # "CLOSED" => last_failure # Never

\* CircuitBreaker implements BreakerContract: however the calls overlap, a
\* closed breaker opens exactly at failure_threshold failures with no success
\* completing in between, an open one stays quiet for recovery_timeout after
\* the latest failure, and a half-open one closes only after success_threshold
\* successes with no failure in between.
Contract == INSTANCE BreakerContract WITH mode <- state, quiet <- last_failure
ContractSpec == Contract!Spec

=============================================================================
