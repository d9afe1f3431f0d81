CONSTANTS
    MaxScale = 2
    Pow10 <- MCPow10
    MaxInt64 = 127
    Amounts <- MCAmounts
    RatioLists <- MCRatioLists
    Scales <- MCScales
    Modes <- MCModes
SPECIFICATION Spec
CHECK_DEADLOCK FALSE
INVARIANTS
    TypeOK
    OnlyBadRatiosAreInvalid
    SharesNearQuota
    PartsAddUp
    PartsFollowRatios
