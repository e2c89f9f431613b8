\* Telemetry in order, so that a fault as long as six ticks can be looked at.
CONSTANTS
    OutOfOrderness = 0
    Within = 4
    Schedules <- MCSchedules
    Duration = 7
    TempFrom = 1
    TempSure = 0
    End = 9
    QuietFrom = 8
    MaxInFlight = 1
    MaxFaults = 0
SPECIFICATION Spec
INVARIANT OneMatchPerCascade
CHECK_DEADLOCK FALSE
