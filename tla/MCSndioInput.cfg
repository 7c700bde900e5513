SPECIFICATION SndioSpec
CONSTANTS
    Capacity = 2
    MaxRead = 2
    FilterSets <- MCFilterSets
    ChannelMasks <- MCChannelMasks
    BitOr <- MCBitOr
    SYSEX_MAXLEN = 10
    ShortMessages <- MCShortMessages
    SysexLengths <- MCSysexLengths
    RealTimes <- MCRealTimes
    MaxSent = 2
INVARIANTS Parses NothingLeftOver
