SPECIFICATION FairSpec
CONSTANTS
    Threads = {1, 2}
    Resolution = 2
    SelectLimit = 4
    Lag = 1
    MaxLead = 6
    MaxStops = 3
    CallbackStops = TRUE
    Overlap = FALSE
INVARIANTS
    TypeOK
    StoppedMeansStopped
    OneTimer
    NotEarly
PROPERTIES
    TimeBaseSteady
    StopReturns
