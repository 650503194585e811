\* Two mapping entries for one test.  The session may return.
SPECIFICATION MCSpec
CONSTANTS
    Parts = {"session"}
    t1 = t1
    m1 = m1
    m2 = m2
    e1 = e1
    e2 = e2
    Feed <- LateFeed
    EntryTest <- LateTest
    EntryMocks <- LateMocks
    Compose = {TRUE, FALSE}
    RecordTimer = TRUE
    ErrCap = 1
    MaxFaults = 0
    CanCancel = TRUE
    AppScenes <- MCApps
    ConflictRetries = 2
    DepRetries = 2
    AgentScenes <- MCAgents
INVARIANTS
    MappingKept
CHECK_DEADLOCK FALSE
