SPECIFICATION ServicesSpec
CONSTANTS
    \* SubAgents
    MaxTotal = 3
    MaxConcurrent = 1
    MaxHandoffs = 0
    Budget = 0
    Usage = {0}
    Tasks = {t1}
    Requests <- GraphRequests
    WaitSets <- WaitForAll
    MaxTurns = 1
    \* Sandboxes
    Executors = {e1, e2}
    Boxes = {b1, b2}
    MaxPerKey = 1
    Reserved = Reserved
    NoBox = NoBox
    Nobody = Nobody
    \* McpServers
    n1 = n1
    n2 = n2
    add1 = add1
    add2 = add2
    upd = upd
    ren = ren
    on = on
    off = off
    rem = rem
    lst = lst
    Names = {n1, n2}
    McpRequests = {add1, add2, upd, ren, on, off, rem, lst}
    Kind <- McpKind
    Name <- McpName
    NewName <- McpNewName
    McpCasts <- AnyRequests
    Stored = {n1}
    NoClient = NoClient
    \* AgentLoop
    Modes = {"web", "planner", "worker"}
    TokenBudget = 6
    MaxFull = 1
    MaxDialogue = 1
    SummaryWeights = {2}
    PreviewWeight = 1
    TurnLimit <- TurnsOf
    MaxIterations <- IterationsOf
    MaxCalls = 2
    Weights = {2}
    Skills = {sk}
    Nil = Nil
    \* McpClient
    Rpcs = {r1, r2}
    Hello = Hello
    MaxSessions = 3
    \* Background
    Shells = {s1}
    MaxProcs = 2
    Files = {f1}
    Uploaded = {}
    ExitCodes = {0, 1}
    Notices = {n1}
    \* Planning
    step1 = step1
    step2 = step2
    Steps = {step1, step2}
    Works = {w1}
    Scopes <- PlanScopes
    \* SkillShelf
    v1 = v1
    v2 = v2
    v3 = v3
    bundle = bundle
    own = own
    twin = twin
    SkillNames = {bundle, own, twin}
    Bundled = {bundle}
    Folder <- FolderOf
    Visits = {v1, v2, v3}
    Asks <- ShelfCasts
    \* Memories
    c1 = c1
    c2 = c2
    Chats = {c1, c2}
    Values = {"x", "y"}
    Storers = {s1, s2}
    Scripts <- MemoryScripts
    FactRetries = 3
    \* Artifacts
    Extractors = {s1, s2}
    MaxArtifacts = 2
    MaxFileTurns = 2
    Viewers = {r1, r2, r3}
    MaxRenders = 2
INVARIANTS
    DependencyPolicy ReplanClimbs PoolKept
    ClientsAgree NoCallStranded ToldTruthfully TeamKept SkillsShown Remembered ArtifactsShown
    RequestSound
PROPERTY
    ImplementsTaskGraph ImplementsLending
CHECK_DEADLOCK FALSE
