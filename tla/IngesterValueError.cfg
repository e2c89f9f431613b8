CONSTANTS
    p1 = p1
    p2 = p2
    Partitions = {p1, p2}
    Kinds = {"ok", "invalid"}
    MaxLog = 1
    GraphitiValueErrors = TRUE
    MaxFaults = 1
SPECIFICATION Spec
INVARIANTS ValidIsIngested
CHECK_DEADLOCK FALSE
