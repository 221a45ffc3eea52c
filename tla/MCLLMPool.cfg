CONSTANTS
    N = 2
    Wheels <- MCWheels
    Callers = {a, b}
    MaxBatch = 3
    MaxFaults = 2
SPECIFICATION PoolFairSpec
INVARIANTS
    LoadCounted
    BatchAccounted
    LeftRunning
PROPERTIES
    EverythingEnds
CHECK_DEADLOCK FALSE
