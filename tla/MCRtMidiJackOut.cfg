SPECIFICATION Spec
CONSTANTS
    HaveSemaphore = TRUE
    RingBytes = 11
    EventLimit = 11
    Sizes = {2, 6}
    MaxSends = 4
    MaxOpens = 3
INVARIANTS
    WholeInOrder
    TokensMatch
    CycleFlushes
CHECK_DEADLOCK FALSE
