\* Connections end and test sets are over: a behaviour may stop.
CONSTANTS
    HandshakeSessions <- MCHandshakes
    DecodeSessions <- MCDecodes
    CommandSessions <- MCCommands
    LegacyScenarios <- MCLegacy
    MatchScenes <- MCMatches
    GenericScenes <- MCGenerics
    GrpcScenes <- MCGrpc
    Boxes <- MCBoxes
    VerdictScenes <- MCVerdicts
    ReplayConfigs <- MCConfigs
    MatchConns = {"a", "b"}
    Reading <- MCReading
    MaxFaults = 1
    MaxResetResends = 1
    MaxFailAttempts = 1
    BuffCap = 2
    DecodeCap = 2
    ChanCap = 2
SPECIFICATION Spec
CHECK_DEADLOCK FALSE
INVARIANTS
    HandshakeReplays
    CommandsRecorded
    CommandsAnswered
    LegacyFaithful
    HttpServed
    GenericKept
    VerdictsHonest
    GrpcFaithful
    GuardSound
    RunAccounted
PROPERTIES
    PruneSafe
