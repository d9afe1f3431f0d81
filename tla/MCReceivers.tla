---------------------------- MODULE MCReceivers ----------------------------
(* Bounded instance of Receivers: texts of 2 digits, binary coefficients of  *)
(* 2 bytes of 4 bits, an int64 of 5 bits with scales 0 and 1.  Some values   *)
(* are beyond one limit and not the other, and some foreign data are what no *)
(* encoder of the library writes.                                            *)
EXTENDS Receivers, TLC

MCPow10 == [e \in 0 .. 8 |-> 10 ^ e]
MCNormalCode == ("USD" :> "USD") @@ ("EUR" :> "EUR") @@ ("eur" :> "EUR") @@ ("x" :> NoCurrency)

Bare(amounts) == {Money(d, NoCurrency) : d \in amounts}
MCValues ==
    [Decimal |-> Bare({Dec(0, 1), Dec(-5, 1), Dec(7, 2), Dec(15, 3), Dec(-99, 0), Dec(-250, 1), Dec(300, 0)}),
     Fixed64 |-> Bare({Dec(0, 1), Dec(-16, 0), Dec(15, 1)}),
     Money   |-> {Money(d, "USD") : d \in {Dec(-5, 1), Dec(300, 0), Dec(15, 3)}}]

Payload(sign, bytes, scale) == [sign |-> sign, bytes |-> bytes, scale |-> scale]
Payloads == {Payload(1, <<>>, 1), Payload(1, <<0, 5>>, 0), Payload(2, <<5>>, 0), Payload(0, <<1, 0, 0>>, 0),
             Payload(0, <<5>>, 3), Payload(0, <<5>>, 5)}
Numbers  == Bare({Dec(16, 0), Dec(-5, 1), Dec(7, 2)})
Prices   == {Money(Dec(-5, 1), c) : c \in {"USD", "eur", "x"}}

MCForeign ==
         {Datum(form, "number", v) : form \in {"text", "loose", "json", "extended", "bson", "document"}, v \in Numbers}
    \cup {Datum(form, "money", v) : form \in {"text", "loose", "json", "partial"}, v \in Prices}
    \cup {Datum("binary", "Decimal", Money(b, NoCurrency)) : b \in Payloads}
    \cup {Datum("binary", "Fixed64", Money([word |-> 31, scale |-> s], NoCurrency)) : s \in {1, 2}}
    \cup {Datum("binary", "Money", Money(b, c)) : b \in Payloads, c \in {"USD", "eur"}}
    \cup {Datum("native", t, v) : t \in {"Decimal", "Fixed64"}, v \in Numbers}
    \cup {Datum("native", "Money", v) : v \in Prices \cup {NoMoney}}
    \cup {Datum("int", "number", Money(Dec(n, 0), NoCurrency)) : n \in {-16, 300}}
    \cup {Datum(form, "none", NoMoney) : form \in {"null", "nil", "float", "garbage"}}
=============================================================================
