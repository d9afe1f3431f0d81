CONSTANTS
    MaxScale = 4
    Pow10 <- MCPow10
    MaxInt64 = 127
    MaxFixedScale = 2
    Texts <- MCTexts
    FixedTexts <- MCFixedTexts
    OptionSets <- MCOptionSets
    DefaultOptions <- MCDefaultOptions
    FastDigits = 2
    FixedScales <- MCFixedScales
    Modes <- MCModes
SPECIFICATION FixedSpec
CHECK_DEADLOCK FALSE
INVARIANT
    CanonicalTextParses
