CONSTANTS
    Senders = {s1, s2}
    Retriers = {r1}
    Cancellers = {c1}
    m0 = m0
    k0 = k0
    k1 = k1
    First = m0
    Key <- SameKey
    NoKey = NoKey
    CacheLimit = 1
    CanDelete = FALSE
    MaxEntries = 1
    MaxTurns = 4
SPECIFICATION Spec
SYMMETRY AlikeSenders
CHECK_DEADLOCK FALSE
INVARIANT OneTurn
INVARIANT HistoryKept
INVARIANT ForcedWasAsked
INVARIANT AnsweredOnce
