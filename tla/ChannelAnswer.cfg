SPECIFICATION ChannelsSpec
CONSTANTS
    d1 = d1
    d2 = d2
    d3 = d3
    p = p
    q = q
    Nobody = Nobody
    Deliveries = {d1, d2}
    Message <- AllDifferent
    s1 = s1
    s2 = s2
    Submits = {}
    Foreign = {}
    CanDelete = FALSE
    MaxAsks = 0
    \* Links
    j1 = j1
    j2 = j2
    j3 = j3
    Parts = {"messages"}
    Bots = {b1}
    LinkTokens = {}
    Jobs = {j1, j2, j3}
    Acts <- LinkActs
    \* Streaming
    Tries = 2
    Rounds = 2
    MaxDeltas = 3
    FlushAt = 2
CHECK_DEADLOCK FALSE
PROPERTY AnswerSentBack
