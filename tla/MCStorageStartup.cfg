SPECIFICATION FairStartupSpec
CONSTANTS
    Queries = {q1}
    Startups = {s1}
    Manuals <- AppManual
    Registered <- MCRegistered
    Files <- MCFiles
    MaxFaults = 2
INVARIANTS RecordedIsExecuted ExecutionsBounded CoreMigrated
PROPERTIES CallsEnd
CHECK_DEADLOCK FALSE
