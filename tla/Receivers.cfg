CONSTANTS
    MaxScale = 4
    Pow10 <- MCPow10
    Currencies = {"USD", "EUR"}
    NormalCode <- MCNormalCode
    NoCurrency = ""
    MaxInt64 = 15
    MaxFixedScale = 1
    MaxDigits = 2
    MaxParseScale = 2
    MaxBSONText = 4
    MaxCoefBytes = 2
    ByteSize = 16
    Values <- MCValues
    Foreign <- MCForeign
SPECIFICATION ReceiverSpec
INVARIANTS
    ReceiverTypeOK
    WrittenReadsBack
PROPERTY
    NullableMirrorsPlain
