SPECIFICATION Spec
CONSTANTS
    Slots = 2
    Words = 2
    MaxMsgs = 4
    OverflowInOrder = TRUE
INVARIANTS
    NoTornMessage
    NoOverwrite
PROPERTIES
    LossReported
    ImplementsQueue
