\* A forwarder may wait for a silent peer: the relay may stop.
SPECIFICATION MCSpec
CONSTANTS
    m1 = m1
    m2 = m2
    m3 = m3
    q1 = q1
    sh = sh
    sg = sg
    Mocks = {m1, m2, m3}
    Reusable = {}
    ConfigMocks = {m3}
    Leaky = {m2}
    HttpReqs = {sh}
    Streaming = {sh}
    GrpcReqs = {sg}
    QueuedReqs = {q1}
    Duplicates = {sg}
    Mapped = {}
    StartupWindow = 0
    Horizon = 10
    MaxRecent = 2
    Cap = 1
    MaxTime = 4
    MaxEpisodes = 0
    CanStop = TRUE
    MaxStall = 0
INVARIANTS
    ExactlyOnce
PROPERTIES
    MocksAndRelaySettle
CHECK_DEADLOCK FALSE
