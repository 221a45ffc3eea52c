SPECIFICATION PipelineFairSpec
CONSTANTS
    Callers = {c1, c2}
    FailureThreshold = 2
    SuccessThreshold = 2
    RecoveryTimeout = 2
    MaxCount = 3
    MaxRetries = 2
    InitialDelay = 1
    MaxDelay = 3
    Base = 2
INVARIANTS OutcomesAccounted
PROPERTIES ContractSpec OperationsEnd HealedOperationsSucceed
