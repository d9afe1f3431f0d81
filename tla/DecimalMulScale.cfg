CONSTANTS
    MaxScale = 3
    Pow10 <- MCPow10
    Operands <- MCOperands
    Scales <- MCScales
    Modes <- MCModes
    MaxCoef = 40
SPECIFICATION SpecAnyScale
INVARIANT
    ScaleNonNegative
