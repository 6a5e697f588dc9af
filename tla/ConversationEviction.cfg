CONSTANTS
    Senders = {s1}
    Retriers = {r1}
    Cancellers = {c1}
    m0 = m0
    k0 = k0
    k1 = k1
    First = m0
    Key <- NoKeys
    NoKey = NoKey
    CacheLimit = 1
    CanDelete = TRUE
    MaxEntries = 2
    MaxTurns = 2
SPECIFICATION TimerSpec
CHECK_DEADLOCK FALSE
INVARIANT EndAnnounced
PROPERTY CancelEnds
PROPERTY SendReturns
