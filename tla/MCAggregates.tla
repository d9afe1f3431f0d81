---------------------------- MODULE MCAggregates ----------------------------
(* Bounded instance of Aggregates: up to three values, 8-bit units and three *)
(* powers for Fixed64, a wider coefficient and scale for Decimal; two        *)
(* currencies and an invalid one.                                            *)
EXTENDS Aggregates

MCPow10 == [e \in 0 .. 8 |-> 10 ^ e]
MCValues == {Fixed(u, 0) : u \in {-128, -1, 3, 100, 127}} \cup {Fixed(-128, 2), Fixed(5, 1), Fixed(125, 2)}
Cash(c, u, s) == [currency |-> c, units |-> u, scale |-> s]
MCMoney == {Cash("USD", 5, 0), Cash("USD", -128, 1), Cash("EUR", 5, 1), Cash("", 0, 0)}
Lists(S) == UNION {[1 .. n -> S] : n \in 0 .. 3}
MCValueLists == Lists(MCValues)
MCDecimalLists == Lists({Fixed(u, 0) : u \in {-1, 3, 29}} \cup {Fixed(-25, 1), Fixed(125, 2), Fixed(201, 3)})
MCMoneyLists == Lists(MCMoney)
MCScales == -1 .. 3
MCModes == {"ToNearestEven", "TowardNegative", "none"}

\* The hypothesis of AlwaysExact (AggregatesProofs) holds of this instance
ASSUME MCAveragesFit == AveragesFit
=============================================================================
