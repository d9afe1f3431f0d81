------------------------------- MODULE Power -------------------------------
(***************************************************************************)
(* Decimal.PowInt and Decimal.Pow (pow.go): repeated squaring with a check *)
(* of the scale before each product, one half of an iteration at a time,   *)
(* then the rounding, or the division for a negative exponent, of Pow.     *)
(***************************************************************************)
EXTENDS Decimals

CONSTANTS
    MaxUint64,  \* the largest exponent PowInt takes
    Bases,      \* decimals to raise
    Exponents,  \* decimals asked for as exponents of Pow
    Scales,     \* scales asked for, negative ones included
    Modes       \* rounding modes asked for, an invalid one included

ASSUME MaxUint64Assumption == MaxUint64 \in Nat

ASSUME InputAssumption ==
    /\ \A d \in Bases \cup Exponents : d.coef \in Int /\ d.scale \in 0 .. MaxScale
    /\ \A s \in Scales : s \in Int /\ s <= MaxScale

VARIABLES
    d, exp, scale, mode,  \* the receiver and the arguments; exp is a Decimal
    intOnly,              \* PowInt itself was called, with a natural exponent
    pc,                   \* "check", "multiply", "square", "round" or "done"
    result, base,         \* the loop's variables
    n,                    \* the exponent bits left, the code's exp
    err                   \* error returned, "nil" for none

\* The exponent of the loop, which the code shifts away
VARIABLE exponent

input == <<d, exp, scale, mode, intOnly>>
vars  == <<input, pc, result, base, n, err, exponent>>

One == Dec(1, 0)

Init ==
    /\ d \in Bases
    /\ exp \in Exponents
    /\ scale \in Scales
    /\ mode \in Modes
    /\ intOnly \in BOOLEAN
    /\ intOnly => exp.scale = 0 /\ exp.coef \in 0 .. MaxUint64
    /\ pc = "check"
    /\ result = One /\ base = d
    /\ n = 0 /\ exponent = 0
    /\ err = "nil"

Return(answer) ==
    /\ pc' = "done" /\ err' = answer.err /\ result' = answer.val
    /\ UNCHANGED <<input, base, n, exponent>>

\* The exponent as an integer, the coefficient Normalize leaves when IsInteger
\* holds, and as the natural number given to PowInt
Integral  == Quo(exp.coef, Pow10[exp.scale])
Magnified == Magnitude(Integral)

StartLoop ==
    /\ pc' = IF Magnified = 0 THEN "round" ELSE "multiply"
    /\ n' = Magnified /\ exponent' = Magnified
    /\ UNCHANGED <<input, result, base, err>>

CheckInt == pc = "check" /\ intOnly /\ StartLoop

CheckArguments ==
    /\ pc = "check" /\ ~intOnly
    /\ \/ scale < 0 /\ Return(Fail("ErrInvalidScale"))
       \/ scale >= 0 /\ mode \notin RoundingModes /\ Return(Fail("ErrInvalidRoundingMode"))
       \/ /\ scale >= 0 /\ mode \in RoundingModes
          /\ \/ ~IsInteger(exp) /\ Return(Fail("ErrInexact"))
             \/ IsInteger(exp) /\ Integral = 0 /\ Return(Rescale(One, scale, mode))
             \/ /\ IsInteger(exp) /\ Integral # 0
                /\ IF Magnified > MaxUint64 THEN Return(Fail("ErrOverflow")) ELSE StartLoop

\* Mutant: the scale of the product is not checked
MultiplyUnchecked ==
    /\ pc = "multiply"
    /\ result' = IF n % 2 = 1 THEN Mul(result, base) ELSE result
    /\ n' = n \div 2
    /\ pc' = IF n \div 2 = 0 THEN "round" ELSE "square"
    /\ UNCHANGED <<input, base, err, exponent>>

\* Mutant: the last bit of the exponent is forgotten
MultiplyTopBit ==
    /\ pc = "multiply"
    /\ result' = IF n % 2 = 1 /\ n > 1 THEN Mul(result, base) ELSE result
    /\ n' = n \div 2
    /\ pc' = IF n \div 2 = 0 THEN "round" ELSE "square"
    /\ UNCHANGED <<input, base, err, exponent>>

Multiply ==
    /\ pc = "multiply"
    /\ IF n % 2 = 1 /\ result.scale + base.scale > MaxScale
         THEN Return(Fail("ErrInvalidScale"))
         ELSE /\ result' = IF n % 2 = 1 THEN Mul(result, base) ELSE result
              /\ n' = n \div 2
              /\ pc' = IF n \div 2 = 0 THEN "round" ELSE "square"
              /\ UNCHANGED <<input, base, err, exponent>>

\* Mutant: the check leaves room for one square more than is needed
SquareEarly ==
    /\ pc = "square"
    /\ IF 4 * base.scale > MaxScale
         THEN Return(Fail("ErrInvalidScale"))
         ELSE /\ base' = Mul(base, base)
              /\ pc' = "multiply"
              /\ UNCHANGED <<input, result, n, err, exponent>>

Square ==
    /\ pc = "square"
    /\ IF base.scale + base.scale > MaxScale
         THEN Return(Fail("ErrInvalidScale"))
         ELSE /\ base' = Mul(base, base)
              /\ pc' = "multiply"
              /\ UNCHANGED <<input, result, n, err, exponent>>

\* Mutant: the inverse is that of the power already rounded
RoundTwice ==
    /\ pc = "round"
    /\ \/ intOnly /\ Return(Ok(result))
       \/ ~intOnly /\ Integral >= 0 /\ Return(Rescale(result, scale, mode))
       \/ ~intOnly /\ Integral < 0 /\ Return(Div(One, Rescale(result, scale, mode).val, scale, mode))

Round ==
    /\ pc = "round"
    /\ \/ intOnly /\ Return(Ok(result))
       \/ ~intOnly /\ Integral > 0 /\ Return(Rescale(result, scale, mode))
       \/ ~intOnly /\ Integral < 0 /\ Return(Div(One, result, scale, mode))

Next == CheckInt \/ CheckArguments \/ Multiply \/ Square \/ Round
Spec == Init /\ [][Next]_vars

-----------------------------------------------------------------------------
\* The products of the loop never wrap the int32 scale, although the base is
\* squared ahead of the result.  (pow.go PowInt)
TypeOK ==
    /\ d \in Bases /\ exp \in Exponents /\ scale \in Scales /\ mode \in Modes
    /\ intOnly \in BOOLEAN
    /\ pc \in {"check", "multiply", "square", "round", "done"}
    /\ n \in Nat /\ exponent \in Nat
    /\ result.scale \in 0 .. MaxScale /\ base.scale \in 0 .. MaxScale
    /\ err \in {"nil", "ErrInvalidScale", "ErrInvalidRoundingMode", "ErrInexact", "ErrOverflow",
                "ErrDivisionByZero"}

\* The loop invariant on scales: the digits of the result, and those the base will
\* still contribute, are those of the exact power.
ScaleInv ==
    /\ pc = "check" => result = One /\ base = d
    /\ pc = "multiply" => n > 0 /\ result.scale + base.scale * n = d.scale * exponent
    /\ pc = "square"   => n > 0 /\ result.scale + 2 * (base.scale * n) = d.scale * exponent
    /\ pc = "round"    => result.scale = d.scale * exponent

\* A power is refused for its scale only when the exact power itself is too wide:
\* no intermediate square is the reason.  (pow.go PowInt, "returns d^exp exactly")
RefusedOnlyWhenTooWide ==
    pc = "done" /\ err = "ErrInvalidScale" =>
        \/ ~intOnly /\ scale < 0
        \/ d.scale * exponent > MaxScale

Raised == Powers(d.coef)[exponent]

\* The loop invariant on values: the product of the result and of what the base will
\* still contribute is the exact power.
ValueInv ==
    /\ pc # "done" =>
         /\ result = Dec(result.coef, result.scale) /\ result.coef \in Int /\ base.coef \in Int
    /\ pc = "check"    => exponent = 0
    /\ pc = "multiply" => result.coef * Powers(base.coef)[n] = Raised
    /\ pc = "square"   => result.coef * Powers(base.coef * base.coef)[n] = Raised
    /\ pc = "round"    => result.coef = Raised

\* The loop ends with the exact power: in the value and in the scale.
PowerIsExact ==
    pc = "round" => result = Dec(Raised, d.scale * exponent)

\* Pow rounds the exact power, or the exact inverse of it, once.  (pow.go Pow)
RoundedOnce ==
    pc = "done" /\ err = "nil" /\ ~intOnly =>
    LET num == Raised
        den == Pow10[d.scale * exponent]
        a   == IF Integral < 0 THEN den ELSE num
        b   == IF Integral < 0 THEN num ELSE den
    IN  result.scale = scale /\ IsRounded(result.coef, a * Pow10[scale], b, mode)
=============================================================================
