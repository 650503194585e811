SPECIFICATION AnsweringSpec
CONSTANTS
    PreDispatchPause = {TRUE}
    TLSUpgradeFn = TRUE
    Requests <- ResumeOnly
    MaxSent <- Sent11
    LossyTees = {"c2d"}
    ClosingPeers = {"c2d", "d2c"}
    MaxDirectives = 1
    CanCancel = FALSE
    CanAbort = FALSE
PROPERTY
    ClientTrafficFlows
CHECK_DEADLOCK FALSE
