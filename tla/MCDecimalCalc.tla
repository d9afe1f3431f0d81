--------------------------- MODULE MCDecimalCalc ---------------------------
(* Bounded instance of DecimalCalc. *)
EXTENDS DecimalCalc

MCPow10 == [e \in 0 .. 6 |-> 10 ^ e]
MCOperands == {Dec(c, s) : c \in {-25, -3, 0, 1, 16}, s \in 0 .. 1} \cup {Dec(-125, 3), Dec(7, 2)}
MCScales == {-1, 0, 2}
MCModes == RoundingModes \cup {"none"}
=============================================================================
