CONSTANTS
    p1 = p1
    p2 = p2
    Partitions = {p1, p2}
    Kinds = {"ok", "invalid", "undecodable"}
    MaxLog = 2
    Established = TRUE
    MaxFaults = 2
SPECIFICATION Spec
INVARIANTS TypeOK CommittedIsSettled NoDeepReplay EffectsOrdered DuplicatesNeedFaults
PROPERTIES CommitNeverRegresses ImplementsAtLeastOnce
SYMMETRY Symmetry
CHECK_DEADLOCK FALSE
