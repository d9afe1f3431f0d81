CONSTANTS
    MaxInt64 = 127
    MaxFixedScale = 2
    MaxScale = 4
    Pow10 <- MCPow10
    Operands <- MCOperands
    Scales <- MCScales
    Modes <- MCModes
SPECIFICATION Spec
INVARIANTS
    TypeOK
    CmpIsNumeric
PROPERTIES
    RefinesExactCalc
    PathsAgree
