----------------------------- MODULE Formatting -----------------------------
(***************************************************************************)
(* The canonical texts of values: String of Decimal (decimal.go) from the  *)
(* digits of its coefficient, and String of Fixed64 (fixed64.go) by moving *)
(* the digits inside a buffer.  A text is a sequence of characters.        *)
(***************************************************************************)
EXTENDS Rounding, Sequences

DigitChar == <<"0", "1", "2", "3", "4", "5", "6", "7", "8", "9">>

\* The digits of a magnitude, as math/big and strconv write them
DigitsOf[n \in Nat] ==
    LET last == <<DigitChar[(n % 10) + 1]>> IN IF n < 10 THEN last ELSE DigitsOf[n \div 10] \o last

Zeros(n) == [k \in 1 .. n |-> "0"]
Minus(n) == IF n < 0 THEN <<"-">> ELSE <<>>

\* Mutant: a small number loses the zeros after its point
DecimalTextUnpadded(d) ==
    LET digits == DigitsOf[Magnitude(d.coef)]
        point  == Len(digits) - d.scale
    IN  IF d.scale = 0 THEN Minus(d.coef) \o digits
        ELSE IF point <= 0 THEN Minus(d.coef) \o <<"0", ".">> \o digits
        ELSE Minus(d.coef) \o SubSeq(digits, 1, point) \o <<".">> \o SubSeq(digits, point + 1, Len(digits))

\* Decimal.appendText
DecimalText(d) ==
    LET digits == DigitsOf[Magnitude(d.coef)]
        point  == Len(digits) - d.scale
    IN  IF d.coef = 0 THEN IF d.scale = 0 THEN <<"0">> ELSE <<"0", ".">> \o Zeros(d.scale)
        ELSE IF d.scale = 0 THEN Minus(d.coef) \o digits
        ELSE IF point <= 0 THEN Minus(d.coef) \o <<"0", ".">> \o Zeros(-point) \o digits
        ELSE Minus(d.coef) \o SubSeq(digits, 1, point) \o <<".">> \o SubSeq(digits, point + 1, Len(digits))

\* Fixed64.appendText: the digits are shifted right in place, by one for the point
\* or by as much as the leading zeros need
FixedText(f) ==
    LET digits == DigitsOf[Magnitude(f.units)]
        point  == Len(digits) - f.scale
        prefix == 2 - point
        shifted(n) == [k \in 1 .. Len(digits) + n |-> IF k <= n THEN "0" ELSE digits[k - n]]
        moved == IF point <= 0 THEN [shifted(prefix) EXCEPT ![2] = "."]
                 ELSE [k \in 1 .. Len(digits) + 1 |->
                         IF k <= point THEN digits[k] ELSE IF k = point + 1 THEN "." ELSE digits[k - 1]]
    IN  Minus(f.units) \o (IF f.scale = 0 THEN digits ELSE moved)
=============================================================================
