SPECIFICATION Spec
CONSTANTS
    Inputs <- MCInputs
    Configs <- MCConfigs
    CodeWindow = 4
    CodeOverlap = 25
    DocOverlap = 40
    HeaderLines = 2
    Threshold = 4
CHECK_DEADLOCK FALSE
INVARIANTS ChunkingTypeOK WindowsAdvance SymbolsAreChunked
