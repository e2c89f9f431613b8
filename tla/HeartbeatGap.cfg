CONSTANTS
    Milli = 2
    Second = 2
    Interval = 12
    GapThreshold = 4
    Steps = {4, 5, 7}
    MaxStep = 7
    Starts = {9, 40}
    Duration <- MCDuration
    End = 58
    MaxFailures = 1
    MaxRepeats = 1
    MaxRuns = 1
SPECIFICATION Spec
INVARIANTS TypeOK SilenceEnds
PROPERTIES GapIffMissing
CHECK_DEADLOCK FALSE
