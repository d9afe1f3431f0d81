--------------------------- MODULE MCFixed64Calc ---------------------------
(* Bounded instance of Fixed64Calc: 8-bit units, a table of three powers.   *)
EXTENDS Fixed64Calc

MCPow10 == [e \in 0 .. 8 |-> 10 ^ e]
MCOperands == {Fixed(u, s) : u \in {-128, -13, 5, 127}, s \in {0, 2}}
              \cup {Fixed(0, 0), Fixed(-1, 1), Fixed(-25, 1), Fixed(15, 1)}
MCScales == {-1, 0, 2, 3}
MCModes == RoundingModes \cup {"none"}
=============================================================================
