SPECIFICATION FairSpec
CONSTANTS
    Turns = {"t1", "t2"}
    Nodes <- MCNodes
    Entry <- MCEntry
    Config <- MCConfig
INVARIANTS Isolated NameIsInnermost RetryIsEarned
PROPERTIES TurnsEnd
CHECK_DEADLOCK FALSE
