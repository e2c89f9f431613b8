CONSTANTS
    p1 = p1
    p2 = p2
    Partitions = {p1, p2}
    Kinds = {"ok", "bad_json", "invalid", "hopeless"}
    MaxLog = 1
    Established = TRUE
    MaxFaults = 2
SPECIFICATION FairSpec
PROPERTIES EverythingSettles
CHECK_DEADLOCK FALSE
