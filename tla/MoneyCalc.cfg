CONSTANTS
    MaxScale = 2
    Pow10 <- MCPow10
    Currencies = {"USD", "EUR"}
    NormalCode <- MCNormalCode
    NoCurrency = ""
    MaxInt64 = 7
    Numbers <- MCNumbers
    Contexts <- MCContexts
    MaxAmount = 15
SPECIFICATION CallerSpec
INVARIANTS
    CallerTypeOK
    RangesQuantizeFirst
    UnitsRoundTrip
PROPERTY
    RefinesMoneyContract
