------------------------------ MODULE MCPower ------------------------------
(* Bounded instance of Power: scales of at most 4 digits, so that exponents *)
(* from 2 up meet the bound, and 7 as the largest exponent.                 *)
EXTENDS Power

MCPow10 == [e \in 0 .. 8 |-> 10 ^ e]
MCBases == {Dec(c, s) : c \in {-3, -1, 0, 2, 10}, s \in 1 .. 3} \cup {Dec(c, 0) : c \in {-3, -1, 0, 2}}
MCExponents == {Dec(c, 0) : c \in -8 .. 8} \cup {Dec(-20, 1), Dec(300, 2), Dec(25, 1)}
MCScales == {-1, 0, 2}
MCModes == {"ToNearestEven", "TowardPositive", "TowardZero", "none"}
=============================================================================
