CONSTANTS
    p1 = p1
    p2 = p2
    Partitions = {p1, p2}
    Kinds = {"ok"}
    MaxLog = 1
    Established = FALSE
    MaxFaults = 1
SPECIFICATION Spec
INVARIANTS HalfDoneIsRetried
CHECK_DEADLOCK FALSE
