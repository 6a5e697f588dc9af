CONSTANTS
    Senders = {s1}
    Retriers = {r1}
    Cancellers = {}
    m0 = m0
    k0 = k0
    k1 = k1
    First = m0
    Key <- NoKeys
    NoKey = NoKey
    CacheLimit = 1
    CanDelete = FALSE
    MaxEntries = 1
    MaxTurns = 3
SPECIFICATION Spec
CHECK_DEADLOCK FALSE
INVARIANT RetryRerunsLast
