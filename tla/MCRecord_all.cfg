\* A session that returned stops, and so do the two processes.
SPECIFICATION MCSpec
CONSTANTS
    Parts = {"session", "runner", "agent"}
    t1 = t1
    m1 = m1
    m2 = m2
    e1 = e1
    e2 = e2
    Feed <- SessionFeed
    EntryTest <- SessionTest
    EntryMocks <- SessionMocks
    Compose = {TRUE, FALSE}
    RecordTimer = TRUE
    ErrCap = 1
    MaxFaults = 1
    CanCancel = TRUE
    AppScenes <- MCApps
    ConflictRetries = 2
    DepRetries = 2
    AgentScenes <- MCAgents
INVARIANTS
    MappingNamesStored
    RunAccounts
PROPERTIES
    OneWayPath
    SessionEnds
CHECK_DEADLOCK FALSE
