CONSTANTS
    MaxScale = 4
    Pow10 <- MCPow10
    MaxUint64 = 7
    Bases <- MCBases
    Exponents <- MCExponents
    Scales <- MCScales
    Modes <- MCModes
SPECIFICATION Spec
CHECK_DEADLOCK FALSE
INVARIANTS
    TypeOK
    RefusedOnlyWhenTooWide
    PowerIsExact
    RoundedOnce
