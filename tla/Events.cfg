SPECIFICATION EventsSpec
CONSTANTS
    \* Delivery
    EventKinds = {"stage", "artifact", "answer"}
    Responders = 1
    MaxPending = 4
    LiveSize = 2
    QueueSize = 2
    MaxRetries = 2
    MaxEvents = 3
    \* AgentRuns
    c1 = c1
    c2 = c2
    m1 = m1
    x1 = x1
    t1 = t1
    k1 = k1
    Creators = {c1, c2}
    Messagers = {m1}
    Stoppers = {x1}
    Streamers = {t1}
    Thread <- ToFirst
    Subject <- ToFirst
    RunKey <- SharedKey
    Payload <- SamePayload
    Unkeyed = Unkeyed
    NoRun = NoRun
    Casts <- RunCasts
    MayCrash = TRUE
INVARIANTS
    WritesKept
    RunPerKey StreamFaithful
PROPERTIES
    DropsJustified DrainEnds
    OutcomeRevised CancelSettles
CHECK_DEADLOCK FALSE
