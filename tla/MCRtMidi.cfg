SPECIFICATION AlsaSpec
CONSTANTS
    RingSize = 3
    Message <- Messages
    Realtime = {"time"}
    Chunks = 2
    SeqLimit = 2
    MaxEvents = 3
    MaxOpens = 2
    IgnoreSets <- TimeOnly
    MaxIgnores = 1
INVARIANTS
    PopsInOrder
    ClosedMeansQuiet
    WholeMessages
    ArrivalOrder
PROPERTIES
    CloseReturns
CHECK_DEADLOCK FALSE
