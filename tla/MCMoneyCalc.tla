---------------------------- MODULE MCMoneyCalc ----------------------------
(* Bounded instance of MoneyCalc: two currencies; policies of both, and one  *)
(* with each kind of invalid part.                                           *)
EXTENDS MoneyCalc, TLC

MCPow10 == [e \in 0 .. 4 |-> 10 ^ e]
MCNormalCode == ("USD" :> "USD") @@ ("EUR" :> "EUR") @@ (" eur" :> "EUR") @@ ("x" :> NoCurrency)
MCNumbers == {Dec(0, 0), Dec(-5, 1), Dec(3, 0), Dec(15, 1)}
Policy(c, s, m) == [currency |-> c, scale |-> s, rounding |-> m]
MCContexts == {Policy("EUR", 0, "ToNearestEven"), Policy("EUR", 1, "TowardNegative"),
               Policy("USD", 0, "ToNearestAway"), Policy("USD", 1, "AwayFromZero"),
               Policy("usd", 0, "TowardZero"), Policy("USD", -1, "TowardZero"), Policy("EUR", 0, "none")}
=============================================================================
