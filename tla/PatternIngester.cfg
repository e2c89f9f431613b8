CONSTANTS
    p1 = p1
    p2 = p2
    Partitions = {p1, p2}
    Kinds = {"ok", "invalid", "undecodable", "hopeless"}
    MaxLog = 2
    GraphitiValueErrors = TRUE
    MaxFaults = 1
SPECIFICATION FairSpec
INVARIANTS TypeOK IngestedOrReported ReplaysNeedFaults
PROPERTIES ImplementsAtLeastOnce EverythingSettles
CHECK_DEADLOCK FALSE
