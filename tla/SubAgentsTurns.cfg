CONSTANTS
    MaxTotal = 2
    MaxConcurrent = 1
    MaxHandoffs = 1
    Budget = 4
    Usage = {0, 1}
    Tasks = {t1}
    Requests <- TurnRequests
    WaitSets <- AnyWait
    MaxTurns = 2
SPECIFICATION FairSpec
CHECK_DEADLOCK FALSE
INVARIANT PermitsConserved
INVARIANT AtMostOneComplete
INVARIANT SandboxesKept
INVARIANT ReservationsExact
INVARIANT WaitedHaveResults
PROPERTY TasksEnd
PROPERTY CleanupEnds
