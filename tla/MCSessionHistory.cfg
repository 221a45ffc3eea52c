CONSTANTS
    Turns <- MCTurns
    Keepers <- MCKeepers
    Silent <- MCSilent
    Restorer = 0
    MaxBusy = 2
    MaxFaults = 1
SPECIFICATION Spec
INVARIANTS
    LossNeedsOverlap
    TurnsSeeFinished
    TurnsNumbered
    DoneIsFiled
CHECK_DEADLOCK FALSE
