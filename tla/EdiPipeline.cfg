CONSTANTS
    o1 = o1
    Orders = {o1}
    Window = 5
    MaxLag = 2
    MaxEvents = 5
    MaxRuns = 0
    Horizon = 11
    MaxDelay = 2
    MaxFaults = 2
    MayEnd = TRUE
SPECIFICATION PipelineSpec
INVARIANTS PipelineTypeOK InjectedIsReported InjectedIsNotMissed NoEarlyReport
CHECK_DEADLOCK FALSE
