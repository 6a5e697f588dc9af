CONSTANTS
    MaxTotal = 2
    MaxConcurrent = 1
    MaxHandoffs = 0
    Budget = 0
    Usage = {0}
    Tasks = {t1}
    Requests <- TurnRequests
    WaitSets <- WaitForAll
    MaxTurns = 2
SPECIFICATION Spec
CHECK_DEADLOCK FALSE
INVARIANT RedundantIsActive
