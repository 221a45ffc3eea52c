--------------------------- MODULE BreakerContract ---------------------------
(***************************************************************************)
(* What the users of the storage circuit breaker are promised, with no     *)
(* counter in it: a mode, how many completions of each kind came last in a *)
(* row, and how long ago the last failure was.  The promises are those of  *)
(* CircuitBreakerConfig (storage/config.py): "Consecutive failures before  *)
(* opening", "Seconds before trying HALF_OPEN", "Successes in HALF_OPEN    *)
(* before CLOSED".                                                         *)
(***************************************************************************)
EXTENDS Integers

CONSTANTS FailureThreshold, SuccessThreshold, RecoveryTimeout, MaxCount

VARIABLES mode, quiet, failRun, okRun

contractVars == <<mode, quiet, failRun, okRun>>

Longer(run) == IF run < MaxCount THEN run + 1 ELSE run

Init == mode = "CLOSED" /\ failRun = 0 /\ okRun = 0 /\ quiet = -1

\* A call completes well; it may be the one that closes a half-open breaker.
Success ==
    /\ okRun' = Longer(okRun)
    /\ failRun' = 0
    /\ UNCHANGED quiet
    /\ \/ mode' = mode
       \/ /\ mode = "HALF_OPEN"
          /\ okRun' >= SuccessThreshold
          /\ mode' = "CLOSED"

\* A call fails.  A probe's failure opens the breaker again at once; a closed
\* one opens exactly when the run of failures is long enough.
Failure ==
    /\ failRun' = Longer(failRun)
    /\ okRun' = 0
    /\ quiet' = 0
    /\ mode' = IF mode = "CLOSED" /\ failRun' < FailureThreshold
               THEN "CLOSED" ELSE "OPEN"

\* An open breaker lets a probe through once it has been quiet long enough.
Probe ==
    /\ mode = "OPEN"
    /\ quiet >= RecoveryTimeout
    /\ mode' = "HALF_OPEN"
    /\ UNCHANGED <<quiet, failRun, okRun>>

Wait ==
    /\ quiet' = quiet + 1
    /\ quiet >= 0
    /\ UNCHANGED <<mode, failRun, okRun>>

Next == Success \/ Failure \/ Probe \/ Wait

Spec == Init /\ [][Next]_contractVars

=============================================================================
