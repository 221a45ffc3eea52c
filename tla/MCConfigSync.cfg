CONSTANTS
    s1 = s1
    s2 = s2
    k1 = k1
    Servers <- MCServers
    Keys <- MCKeys
    Kinds <- MCKinds
    MaxPublished = 1
    MaxEdits = 1
    MaxFaults = 1
SPECIFICATION Spec
SYMMETRY Interchangeable
INVARIANTS
    StaleIsNoticed
    TypedIsCurrent
CHECK_DEADLOCK FALSE
