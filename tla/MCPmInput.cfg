SPECIFICATION DriverSpec
CONSTANTS
    Capacity = 2
    MaxRead = 2
    FilterSets <- MCFilterSets
    ChannelMasks <- MCChannelMasks
    Truncates = FALSE
    SysexLengths <- MCSysexLengths
    MaxSent = 3
    MaxClocks = 1
INVARIANT StreamWhole
