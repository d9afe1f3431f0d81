----------------------------- MODULE MCAllocate -----------------------------
(* Bounded instance of Allocate.                                            *)
EXTENDS Allocate

MCPow10 == [e \in 0 .. 4 |-> 10 ^ e]
MCAmounts == {Dec(c, 1) : c \in {-100, -75, -5, 0, 4, 25, 100, 116}} \cup {Dec(7, 0)}
MCRatioLists ==
    UNION {[1 .. n -> {-1, 0, 1, 2, 3, 100}] : n \in 0 .. 3} \cup [1 .. 4 -> {0, 1, 2}]
    \cup {EqualRatios(n) : n \in -1 .. 6}
MCScales == {-1, 0, 1}
MCModes == {"ToNearestEven", "TowardNegative", "none"}
=============================================================================
