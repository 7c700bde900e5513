SPECIFICATION Spec
CONSTANTS
    Names = {"default", "virtual"}
    NoName = "none"
    Hardware <- OneFound
    Drivers = {"sndio", "virtual"}
    Block = 2
    MaxDevices = 5
    Streams = {1, 2}
    Careful = TRUE
INVARIANTS
    NamesDistinct
    StreamsOwned
PROPERTY
    NotRenumbered
CHECK_DEADLOCK FALSE
