CONSTANTS
    Requests = {r1, r2, r3}
    Limit = 1
    FailureThreshold = 2
    ResetTimeout = 1
    MonthLength = 2
    MaxTime = 3
    MaxWatched = 3
    MaxFaults = 1
SPECIFICATION MeterSpec
SYMMETRY MCSymmetry
INVARIANTS
    OverrunNeedsUncounted
    OutageIsEarned
CHECK_DEADLOCK FALSE
