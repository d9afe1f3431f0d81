------------------------------ MODULE Decimals ------------------------------
(***************************************************************************)
(* The operations of the Decimal value type (decimal.go): coef * 10^-scale *)
(* with an unbounded coefficient and an int32 scale.  A Go function that   *)
(* returns (Decimal, error) is an operator returning a record              *)
(* [val, err]; on an error val is the Go zero value.  canonicalZero is not *)
(* modelled: math/big keeps zero canonical, so it never changes a value.   *)
(***************************************************************************)
EXTENDS Rounding, FiniteSetsExt

CONSTANTS
    MaxScale,  \* math.MaxInt32 in the code, small here; scales wrap above it
    Pow10      \* powers of ten by exponent, for every exponent a sum of two
               \* scales can be

ASSUME MaxScaleAssumption == MaxScale \in Nat \ {0}

ASSUME Pow10Assumption == PowersOfTen(Pow10, 2 * MaxScale)

Dec(coef, scale) == [coef |-> coef, scale |-> scale]
ZeroValue == Dec(0, 0)

\* The number a Decimal stands for
AsFraction(d) == [num |-> d.coef, den |-> Pow10[d.scale]]

Ok(d)     == [val |-> d, err |-> "nil"]
Fail(err) == [val |-> ZeroValue, err |-> err]

\* An int32 scale wraps around, as Go defines it
WrapScale(n) == ((n + MaxScale + 1) % (2 * (MaxScale + 1))) - (MaxScale + 1)
AddScale(a, b) == WrapScale(a + b)

LargerScale(a, b) == IF a.scale > b.scale THEN a.scale ELSE b.scale

\* align: the two coefficients at the larger of the two scales
AlignTo(d, scale) == d.coef * Pow10[scale - d.scale]

New(coef, scale) == IF scale < 0 THEN Fail("ErrInvalidScale") ELSE Ok(Dec(coef, scale))

Neg(d) == Dec(-d.coef, d.scale)
Abs(d) == Dec(Magnitude(d.coef), d.scale)

IsZero(d)    == d.coef = 0
IsInteger(d) == IsZero(d) \/ Rem(Magnitude(d.coef), Pow10[d.scale]) = 0

\* Mutant: a zero keeps the scale it was left with
NormalizeZeroKept(d) ==
    IF IsZero(d) THEN d
    ELSE LET n == Max({k \in 0 .. d.scale : Rem(d.coef, Pow10[k]) = 0})
         IN  Dec(Quo(d.coef, Pow10[n]), d.scale - n)

\* The loop strips one trailing zero at a time; it ends at the smallest scale
\* that still divides the coefficient exactly.
Normalize(d) ==
    IF IsZero(d) THEN ZeroValue
    ELSE LET Strippable == {n \in 0 .. d.scale : Rem(d.coef, Pow10[n]) = 0}
             n == Max(Strippable)
         IN  Dec(Quo(d.coef, Pow10[n]), d.scale - n)

Add(a, b) == LET s == LargerScale(a, b) IN Dec(AlignTo(a, s) + AlignTo(b, s), s)
Sub(a, b) == LET s == LargerScale(a, b) IN Dec(AlignTo(a, s) - AlignTo(b, s), s)
Mul(a, b) == Dec(a.coef * b.coef, AddScale(a.scale, b.scale))

Cmp(a, b) ==
    LET s == LargerScale(a, b) IN Sign(AlignTo(a, s) - AlignTo(b, s))

\* Mutant: the scale of the dividend is forgotten
NumeratorUnshifted(a, b, scale) == a.coef * Pow10[b.scale + scale]

\* Numerator and denominator of a/b * 10^scale, as Div and DivExact set them up
Numerator(a, b, scale) ==
    LET e == b.scale + scale - a.scale
    IN  a.coef * (IF e >= 0 THEN Pow10[e] ELSE 1)
Denominator(a, b, scale) ==
    LET e == b.scale + scale - a.scale
    IN  b.coef * (IF e >= 0 THEN 1 ELSE Pow10[-e])

Div(a, b, scale, mode) ==
    IF IsZero(b) THEN Fail("ErrDivisionByZero")
    ELSE IF scale < 0 THEN Fail("ErrInvalidScale")
    ELSE IF mode \notin RoundingModes THEN Fail("ErrInvalidRoundingMode")
    ELSE Ok(Dec(RoundQuotient(Numerator(a, b, scale), Denominator(a, b, scale), mode), scale))

\* removeFactor: the count is an int32
RemoveFactor(value, factor) == [Removed(value, factor) EXCEPT !.count = WrapScale(@)]

\* Mutant: common factors stay
LowestTermsUnreduced(a, b) ==
    [num |-> Numerator(a, b, 0) * Sign(b.coef), den |-> Magnitude(Denominator(a, b, 0))]

\* The quotient a/b in lowest terms, with a positive denominator
LowestTerms(a, b) ==
    LET num == Numerator(a, b, 0) * Sign(b.coef)
        den == Magnitude(Denominator(a, b, 0))
        gcd == Gcd(Magnitude(num), den)
    IN  [num |-> Quo(num, gcd), den |-> den \div gcd]

\* Mutant: the two factors are matched one after the other, not at the same time
DivExactSummedScale(a, b) ==
    IF IsZero(b) THEN Fail("ErrDivisionByZero")
    ELSE LET q     == LowestTerms(a, b)
             twos  == RemoveFactor(q.den, 2)
             fives == RemoveFactor(twos.left, 5)
         IN  IF fives.left # 1 THEN Fail("ErrInexact")
             ELSE Ok(Dec(q.num * Powers(2)[fives.count] * Powers(5)[twos.count], twos.count + fives.count))

\* The check of scale against maxScale is left out: an int32 is never larger.
DivExact(a, b) ==
    IF IsZero(b) THEN Fail("ErrDivisionByZero")
    ELSE LET q     == LowestTerms(a, b)
             twos  == RemoveFactor(q.den, 2)
             fives == RemoveFactor(twos.left, 5)
             scale == Max({twos.count, fives.count})
         IN  IF fives.left # 1 THEN Fail("ErrInexact")
             ELSE Ok(Dec(q.num * Powers(2)[scale - twos.count] * Powers(5)[scale - fives.count], scale))

\* Bound under which the factors of a quotient can be counted in an int32, which
\* DivExact does not check
QuotientFits(a, b) ==
    ~IsZero(b) => LET twos == Removed(LowestTerms(a, b).den, 2)
                  IN  twos.count <= MaxScale /\ Removed(twos.left, 5).count <= MaxScale

Rescale(d, scale, mode) ==
    IF scale < 0 THEN Fail("ErrInvalidScale")
    ELSE IF mode \notin RoundingModes THEN Fail("ErrInvalidRoundingMode")
    ELSE IF scale >= d.scale THEN Ok(Dec(d.coef * Pow10[scale - d.scale], scale))
    ELSE Ok(Dec(RoundQuotient(d.coef, Pow10[d.scale - scale], mode), scale))

RescaleExact(d, scale) ==
    IF scale < 0 THEN Fail("ErrInvalidScale")
    ELSE IF scale >= d.scale THEN Ok(Dec(d.coef * Pow10[scale - d.scale], scale))
    ELSE IF Rem(d.coef, Pow10[d.scale - scale]) # 0 THEN Fail("ErrInexact")
    ELSE Ok(Dec(Quo(d.coef, Pow10[d.scale - scale]), scale))

QuantizeStep(d, step, mode) ==
    IF IsZero(step) THEN Fail("ErrDivisionByZero")
    ELSE LET units == Div(d, Abs(step), 0, mode)
         IN  IF units.err # "nil" THEN units
             ELSE Rescale(Mul(units.val, Abs(step)), step.scale, "TowardZero")

QuantizeStepExact(d, step) ==
    IF IsZero(step) THEN Fail("ErrDivisionByZero")
    ELSE LET units == DivExact(d, Abs(step))
         IN  IF units.err # "nil" THEN units
             ELSE IF ~IsInteger(units.val) THEN Fail("ErrInexact")
             ELSE RescaleExact(Mul(units.val, Abs(step)), step.scale)

\* Min and Max of two values: the first wins a tie
MinOf(a, b) == IF Cmp(b, a) < 0 THEN b ELSE a
MaxOf(a, b) == IF Cmp(b, a) > 0 THEN b ELSE a

\* Bounds may be reversed
Between(d, a, b, inclusive) ==
    LET lower == Cmp(d, MinOf(a, b))
        upper == Cmp(d, MaxOf(a, b))
    IN  IF inclusive THEN lower >= 0 /\ upper <= 0 ELSE lower > 0 /\ upper < 0

Clamp(d, a, b) ==
    LET reversed == Cmp(a, b) > 0
        min == IF reversed THEN b ELSE a
        max == IF reversed THEN a ELSE b
    IN  IF Cmp(d, min) < 0 THEN min ELSE IF Cmp(d, max) > 0 THEN max ELSE d
=============================================================================
