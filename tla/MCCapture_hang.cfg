\* The application hangs while the forwarder is stopped.
SPECIFICATION MCSpec
CONSTANTS
    NumSessions = 2
    MocksOf = 1
    QueueCap = 1
    MaxFaults = 1
    Overruns <- FirstOverruns
    Parts = {"ingress"}
    Clients = {1, 2}
    Scenes <- MCHang
    SamplingCap = 1
    ReplayConfigs <- MCConfigs
PROPERTIES
    WorkEnds
CHECK_DEADLOCK FALSE
