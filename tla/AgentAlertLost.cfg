CONSTANTS
    p1 = p1
    p2 = p2
    Partitions = {p1, p2}
    Kinds = {"ok"}
    MaxLog = 1
    Established = TRUE
    MaxFaults = 1
SPECIFICATION Spec
INVARIANTS CommittedIsAlerted
CHECK_DEADLOCK FALSE
