CONSTANTS
    Callers = {a, b}
    Conns = {1, 2, 3, 4, 5, 6}
    Attempts = 2
    MaxOps = 2
    MaxAlone = 2
    MaxFaults = 1
    None = None
SPECIFICATION FairSpec
INVARIANTS
    SessionLives
    OrphansHaveCause
    SoloSucceeds
PROPERTIES
    CallsEnd
CHECK_DEADLOCK FALSE
