SPECIFICATION FairSpec
CONSTANTS
    MaxDevices = 2
    Counts = {1, 2}
    Used = {1}
    Streams = {1, 2}
INVARIANTS HandleOwned ModeMatches JoinedBeforeFree InputServed
PROPERTIES CallsReturn
CHECK_DEADLOCK FALSE
