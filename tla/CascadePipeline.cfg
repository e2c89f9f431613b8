\* A clock whose unit is some minutes: a cascade and its phases last a few ticks.
CONSTANTS
    OutOfOrderness = 1
    Within = 3
    Schedules <- MCSchedules
    Duration = 3
    TempFrom = 1
    TempSure = 0
    End = 7
    QuietFrom = 5
    MaxInFlight = 2
    MaxFaults = 1
SPECIFICATION Spec
INVARIANTS TypeOK MatchesExact EventTimeOrder OnTimeIsKept MatchMeansFault CascadeIsReported
CHECK_DEADLOCK FALSE
