CONSTANTS
    OptIns <- MCOptIns
    ToolsGiven <- MCTools
    MaxInvocations = 2
SPECIFICATION FairSpec
INVARIANTS
    ToolCallsAnswered
CHECK_DEADLOCK FALSE
