\* Only the comparison of responses: ones with a new field, a changed value
\* and another length.  The tests end.
CONSTANTS
    HandshakeSessions <- MCNone
    DecodeSessions <- MCNone
    CommandSessions <- MCNone
    LegacyScenarios <- MCNone
    MatchScenes <- MCNone
    GenericScenes <- MCNone
    GrpcScenes <- MCNone
    Boxes <- MCNone
    VerdictScenes <- MCAdditions
    ReplayConfigs <- MCNone
    MatchConns = {"a", "b"}
    Reading <- MCReading
    MaxFaults = 1
    MaxResetResends = 1
    MaxFailAttempts = 1
    BuffCap = 2
    DecodeCap = 2
    ChanCap = 2
SPECIFICATION Spec
CHECK_DEADLOCK FALSE
INVARIANTS
    VerdictsHonest
