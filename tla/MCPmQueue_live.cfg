SPECIFICATION FairSpec
CONSTANTS
    Slots = 1
    Words = 2
    MaxMsgs = 3
    OverflowInOrder = TRUE
PROPERTIES
    AcceptedDelivered
    LossEventuallyReported
