SPECIFICATION FairSpec
CONSTANTS
    Signers = {s1}
    Verifiers = {v1}
    Rotator = rotator
    RotationDays = 2
    GraceDays = 1
    MaxKeys = 3
    MaxTime = 3
    MaxFaults = 1
INVARIANTS LossExplained UsedIsStored
PROPERTIES DueIsRotated
CHECK_DEADLOCK FALSE
