CONSTANTS
    MaxInt64 = 127
    MaxFixedScale = 2
    MaxScale = 4
    Pow10 <- MCPow10
    ValueLists <- MCValueLists
    DecimalLists <- MCDecimalLists
    MoneyLists <- MCMoneyLists
    Currencies = {"USD", "EUR"}
    Policies = {"USD", "usd"}
    AskedScales <- MCScales
    AskedModes <- MCModes
SPECIFICATION AggregateSpec
CHECK_DEADLOCK FALSE
INVARIANTS
    AggregateTypeOK
    SumIsExact
    AvgRoundsOnce
    AvgExactIsExact
    CurrenciesNeverMix
