\* The calls are bounded, and a run of the model may stop after them.
CONSTANTS
    Callers = {p1, p2}
    MockStores <- MCMockStores
    MockCalls = 4
    TestScenes <- MCTestScenes
    TestCalls = 3
    MaxIndex = 3
    MaxClaims = 2
    PoolConns = {"c1", "c2"}
    PoolCalls = 1
    ErrTests = 2
    ChanCap = 2
    MaxPending = 2
    MaxMisses = 3
    MaxFaults = 1
    RecordScenarios <- MCRecordings
    ChanBuf = 1
    Queries = {1, 2}
    Questions <- MCQuestions
    Resolvers <- MCResolvers
    MaxPools = 1
SPECIFICATION Spec
CHECK_DEADLOCK FALSE
INVARIANTS
    MocksKept
    TestsKept
    ConsumedReported
    
    MissesAttributed
    AnswerRecorded
    FramedIntact
PROPERTIES
    WindowRead
