SPECIFICATION ScanSpec
CONSTANTS
    MaxSeparators = 1
    MaxChars = 3
    Modules <- MCModules
    Pattern <- MCPattern
    Keywords <- MCKeywords
    Paddings <- MCPaddings
CHECK_DEADLOCK FALSE
INVARIANTS
    ImmuneToPadding
