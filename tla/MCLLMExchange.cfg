CONSTANTS
    OptIns <- MCOptIns
    ToolsGiven <- MCTools
    MaxInvocations = 2
SPECIFICATION FairSpec
INVARIANTS
    ReturnedIsStored
    TasksEnd
    SuggestionsFollow
PROPERTIES
    InvocationEnds
CHECK_DEADLOCK FALSE
