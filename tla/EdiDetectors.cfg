CONSTANTS
    o1 = o1
    o2 = o2
    Orders = {o1}
    Window = 2
    MaxLag = 0
    MaxEvents = 4
    MaxRuns = 1
    Horizon = 5
SPECIFICATION FairSpec
INVARIANTS TypeOK SwoExact IwsExact OuSound OpenIsWatched
PROPERTIES OpenIsReported
CHECK_DEADLOCK FALSE
