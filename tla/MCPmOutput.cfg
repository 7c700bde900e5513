SPECIFICATION Spec
CONSTANTS
    BUFLEN = 2
    WholeMessages <- MCWholeMessages
    Pieces <- MCPieces
    SysexMessages <- MCSysexMessages
INVARIANTS
    WrittenAsGiven
    InStep
    Resynchronised
