CONSTANTS
    Senders = {s1}
    Retriers = {}
    Cancellers = {c1}
    m0 = m0
    k0 = k0
    k1 = k1
    First = m0
    Key <- NoKeys
    NoKey = NoKey
    CacheLimit = 1
    CanDelete = FALSE
    MaxEntries = 1
    MaxTurns = 2
SPECIFICATION Spec
CHECK_DEADLOCK FALSE
INVARIANT StoppedWasAsked
