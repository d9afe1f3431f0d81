--------------------------- MODULE MCFixedParser ---------------------------
(* Bounded instance of FixedParser and Parser: limits of 4 digits and scale  *)
(* 4 by default, options that lift them or turn the others on, a fast path   *)
(* of Parse of 2 digits, and 8-bit units of Fixed64 at scales up to 2.       *)
EXTENDS FixedParser

MCPow10 == [e \in 0 .. 8 |-> 10 ^ e]

Upto(S, n) == UNION {[1 .. k -> S] : k \in 0 .. n}
ParserTexts ==
    Upto({"0", "5", ".", ",", "-", "+", "minus", "e", " "}, 3)
    \cup Upto({"5", ".", "e", "-"}, 6)
    \cup Upto({"5", ",", "."}, 6)
    \cup Upto({"0", "3", "e"}, 5)
    \cup {<<"nan">>, <<"-", "inf">>, <<" ", "inf", " ">>, <<"5", "nan">>}
    \cup {<<"5", ",", "5", "5", "5", ",", "5", "5", "5">>, <<"5", "5", "5", "5", ",", "5", "5", "5">>}

Signs     == {<<>>, <<"-">>, <<"+">>}
Wholes    == {<<>>, <<"0">>, <<"0", "0", "1">>, <<"1">>, <<"1", "2">>, <<"1", "2", "7">>, <<"1", "2", "8">>}
Fractions == {<<>>, <<".">>, <<".", "0">>, <<".", "5">>, <<".", "2", "7">>, <<".", "2", "8">>,
              <<".", "4", "9">>, <<".", "5", "0">>, <<".", "5", "1">>, <<".", "0", "5">>,
              <<".", "2", "7", "5">>, <<".", "2", "8", "5">>, <<".", "2", "8", "5", "1">>}
Others    == {<<"1", ".", ".", "5">>, <<"1", "e", "2">>, <<"1", "2", "e", "-", "1">>, <<"minus", "5">>,
              <<"5", "e", "3">>, <<"1", "-">>, <<"1", ".", "5", ".">>,
              <<"1", "2", "8", "5", "e", "-", "3">>, <<"minus", "1", ".", "2", "8">>}
MCFixedTexts == {s \o w \o f : s \in Signs, w \in Wholes, f \in Fractions} \cup Others
MCTexts == ParserTexts \cup MCFixedTexts

MCDefaultOptions ==
    [trimSpace |-> FALSE, unicodeMinus |-> TRUE, plus |-> TRUE, thousands |-> FALSE,
     decimalSeparator |-> ".", thousandsSeparator |-> "none",
     maxDigits |-> 4, maxScale |-> 4, maxExponentDigits |-> 1]
MCOptionSets ==
    { [MCDefaultOptions EXCEPT !.trimSpace = TRUE, !.thousands = TRUE, !.thousandsSeparator = ",",
                               !.maxDigits = 7],
      [MCDefaultOptions EXCEPT !.decimalSeparator = ",", !.plus = FALSE, !.unicodeMinus = FALSE,
                               !.maxDigits = 0, !.maxScale = 0, !.maxExponentDigits = 0],
      [MCDefaultOptions EXCEPT !.decimalSeparator = "none", !.thousands = TRUE,
                               !.thousandsSeparator = ".", !.maxDigits = 0] }
MCFixedScales == {-1, 0, 1, 2, 3}
MCModes == RoundingModes \cup {"none"}
=============================================================================
