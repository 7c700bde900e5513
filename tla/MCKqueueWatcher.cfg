SPECIFICATION FairSpec
CONSTANTS
    Paths = {"a", "b"}
    Files = {1, 2}
    MaxChanges = 3
    HandlerRemoves = FALSE
INVARIANTS
    NoStaleEntry
    ToldTheTruth
PROPERTIES
    EventsArrive
    ProcessingEnds
CHECK_DEADLOCK FALSE
