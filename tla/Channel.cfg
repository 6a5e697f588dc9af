SPECIFICATION ChannelsSpec
CONSTANTS
    d1 = d1
    d2 = d2
    d3 = d3
    p = p
    q = q
    Nobody = Nobody
    Deliveries = {d1, d2, d3}
    Message <- Retried
    s1 = s1
    s2 = s2
    Submits = {s1}
    Foreign = {s1}
    CanDelete = TRUE
    MaxAsks = 1
    \* Links
    j1 = j1
    j2 = j2
    j3 = j3
    Parts = {"messages", "links", "stream"}
    Bots = {b1, b2}
    LinkTokens = {t1}
    Jobs = {j1, j2, j3}
    Acts <- LinkActs
    \* Streaming
    Tries = 2
    Rounds = 2
    MaxDeltas = 3
    FlushAt = 2
INVARIANTS AnswersKept ProcessedOnce ChatsBelong TextAccounted
PROPERTY AnswerArrives
CHECK_DEADLOCK FALSE
