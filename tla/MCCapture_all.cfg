\* Sessions and connections end: a behaviour may stop.
SPECIFICATION MCSpec
CONSTANTS
    NumSessions = 2
    MocksOf = 2
    QueueCap = 1
    MaxFaults = 1
    Overruns <- FirstOverruns
    Parts = {"gob", "ingress", "replay"}
    Clients = {1, 2}
    Scenes <- MCScenes
    SamplingCap = 1
    ReplayConfigs <- MCConfigs
INVARIANTS
    IngressFaithful
    AcceptedIsDurable
    OneEncoderPerFile
PROPERTIES
    WorkEnds
CHECK_DEADLOCK FALSE
