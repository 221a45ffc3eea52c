SPECIFICATION FairSpec
CONSTANTS
    Pipelines <- AtMostOne
    MaxRounds = 3
    MaxText = 2
INVARIANTS ChunksAccounted ToolCallsOnce EndMeansSaved
PROPERTIES FinalizedOnce EveryPullReturns
CHECK_DEADLOCK FALSE
