SPECIFICATION CodecSpec
CONSTANTS
    Size = 4
    Values <- MCValues
INVARIANTS
    RoundTrip
    WholeWhenVisible
