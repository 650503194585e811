SPECIFICATION MCSpec
CONSTANTS
    PreDispatchPause = {TRUE}
    TLSUpgradeFn = TRUE
    Requests <- PauseRequests
    MaxSent <- Sent22
    LossyTees = {"c2d"}
    ClosingPeers = {"c2d", "d2c"}
    MaxDirectives = 2
    CanCancel = TRUE
    CanAbort = TRUE
    d1 = d1
    q1 = q1
    q2 = q2
    q3 = q3
    ph = ph
    pg = pg
    Mocks = {d1}
    Reusable = {}
    ConfigMocks = {}
    Leaky = {}
    HttpReqs = {ph}
    Streaming = {}
    GrpcReqs = {pg}
    QueuedReqs = {q1, q2, q3}
    Duplicates = {q1}
    Mapped = {q1, q2, q3}
    StartupWindow = 1
    Horizon = 10
    MaxRecent = 2
    Cap = 1
    MaxTime = 14
    MaxEpisodes = 0
    CanStop = FALSE
    MaxStall = 2
CONSTRAINT Bounded
INVARIANTS
    MocksSurvive
    MappingSound
    OrphanFree
    HandlerExclusive
    InOrder
    NothingLost
    NoStaleDeadline
    ClientUnitsSeen
