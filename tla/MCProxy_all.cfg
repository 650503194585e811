SPECIFICATION MCSpec
CONSTANTS
    Conns = {1, 2}
    Configs <- MCConfigs
    MaxFaults = 1
    Scenarios <- MCSniff
    Budget = 2
    RecordScenarios <- MCRecords
    ChanBuf = 1
INVARIANTS
    UpstreamReleased
    RelayedInOrder
PROPERTIES
    CancelEnds
