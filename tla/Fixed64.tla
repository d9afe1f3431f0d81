------------------------------ MODULE Fixed64 ------------------------------
(***************************************************************************)
(* The operations of Fixed64 (fixed64.go): an int64 number of minor units  *)
(* at a scale the table fixedPow10 covers.  Every operation first tries    *)
(* checked int64 arithmetic; Mul, Div, QuantizeStep and Cmp fall back to   *)
(* Decimal when that overflows.  D!op is the Decimal operation.            *)
(***************************************************************************)
EXTENDS Rounding

CONSTANTS
    MaxInt64,       \* 2^63 - 1 in the code, small here
    MaxFixedScale,  \* len(fixedPow10) - 1, 18 in the code
    MaxScale,       \* math.MaxInt32, the widest Decimal scale
    Pow10           \* powers of ten

MinInt64 == -MaxInt64 - 1
Int64 == MinInt64 .. MaxInt64

ASSUME Fixed64Assumption ==
    /\ MaxInt64 \in Nat
    /\ MaxFixedScale \in Nat
    /\ MaxScale \in Nat /\ PowersOfTen(Pow10, 2 * MaxScale)
    /\ 2 * MaxFixedScale <= MaxScale
    /\ Pow10[MaxFixedScale] <= MaxInt64

D == INSTANCE Decimals

Fixed(units, scale) == [units |-> units, scale |-> scale]
Ok(f)     == [val |-> f, err |-> "nil"]
Fail(err) == [val |-> Fixed(0, 0), err |-> err]

ValidFixed64Scale(scale) == 0 <= scale /\ scale <= MaxFixedScale

\* The values the type can hold
Fixed64s == [units : Int64, scale : 0 .. MaxFixedScale]

\* Two's complement wrap-around of an int64 result
Wrap64(n) == ((n - MinInt64) % (2 * (MaxInt64 + 1))) + MinInt64

\* The checked operations return the set of their results: empty on overflow
CheckedAdd64(a, b) ==
    IF (b > 0 /\ a > MaxInt64 - b) \/ (b < 0 /\ a < MinInt64 - b) THEN {} ELSE {a + b}

\* Mutant: nothing is said of the smallest int64 and -1
CheckedMul64Unguarded(a, b) ==
    IF a = 0 \/ b = 0 THEN {0}
    ELSE IF Wrap64(Quo(Wrap64(a * b), b)) # a THEN {} ELSE {Wrap64(a * b)}

\* Dividing back wraps too, for the smallest int64 and -1 only: their product is the
\* smallest int64 again, and so is the quotient.
CheckedMul64(a, b) ==
    IF a = 0 \/ b = 0 THEN {0}
    ELSE IF (a = MinInt64 /\ b = -1) \/ (b = MinInt64 /\ a = -1) THEN {}
    ELSE IF Wrap64(Quo(Wrap64(a * b), b)) # a THEN {} ELSE {Wrap64(a * b)}

ScaleUnits64(units, delta) ==
    IF delta < 0 \/ delta > MaxFixedScale THEN {} ELSE CheckedMul64(units, Pow10[delta])

\* Mutant: the direction is read off the quotient, which may be zero
DivRoundQuotientSign(numerator, divisor, mode) ==
    LET q    == Quo(numerator, divisor)
        r    == Rem(numerator, divisor)
        sign == IF q < 0 THEN -1 ELSE 1
    IN  IF divisor <= 0 THEN {}
        ELSE IF r # 0 /\ RoundsAway(q, r, divisor, sign, mode) THEN CheckedAdd64(q, sign)
        ELSE {q}

\* divRoundFixed64Units; Rescale carries the same code for a power-of-ten divisor
DivRound(numerator, divisor, mode) ==
    LET q    == Quo(numerator, divisor)
        r    == Rem(numerator, divisor)
        sign == IF numerator < 0 THEN -1 ELSE 1
    IN  IF divisor <= 0 THEN {}
        ELSE IF r # 0 /\ RoundsAway(q, r, divisor, sign, mode) THEN CheckedAdd64(q, sign)
        ELSE {q}

\* The value if there is one, ErrOverflow otherwise
OrOverflow(units, scale) ==
    IF units = {} THEN Fail("ErrOverflow") ELSE Ok(Fixed(CHOOSE u \in units : TRUE, scale))

-----------------------------------------------------------------------------
Decimal(f) == D!New(f.units, f.scale).val

Fixed64FromDecimal(d, scale, mode) ==
    IF ~ValidFixed64Scale(scale) THEN Fail("ErrInvalidScale")
    ELSE LET rounded == D!Rescale(d, scale, mode)
         IN  IF rounded.err # "nil" THEN Fail(rounded.err)
             ELSE OrOverflow({rounded.val.coef} \cap Int64, scale)

\* Mutant: the smallest int64 has no special case
NegUnchecked(f) == Ok(Fixed(-f.units, f.scale))

Neg(f) == IF f.units = MinInt64 THEN Fail("ErrOverflow") ELSE Ok(Fixed(-f.units, f.scale))
Abs(f) == IF f.units >= 0 THEN Ok(f) ELSE Neg(f)

Rescale(f, scale, mode) ==
    IF ~ValidFixed64Scale(scale) THEN Fail("ErrInvalidScale")
    ELSE IF mode \notin RoundingModes THEN Fail("ErrInvalidRoundingMode")
    ELSE IF scale = f.scale THEN Ok(f)
    ELSE IF scale > f.scale THEN OrOverflow(ScaleUnits64(f.units, scale - f.scale), scale)
    ELSE OrOverflow(DivRound(f.units, Pow10[f.scale - scale], mode), scale)

\* alignFixed64: the pairs of units at the larger scale, none on overflow
AlignedScale(a, b) == IF a.scale >= b.scale THEN a.scale ELSE b.scale
Aligned(a, b) ==
    IF a.scale = b.scale THEN {<<a.units, b.units>>}
    ELSE IF a.scale > b.scale
      THEN {<<a.units, r>> : r \in ScaleUnits64(b.units, a.scale - b.scale)}
      ELSE {<<l, b.units>> : l \in ScaleUnits64(a.units, b.scale - a.scale)}

Add(a, b) == OrOverflow(UNION {CheckedAdd64(p[1], p[2]) : p \in Aligned(a, b)}, AlignedScale(a, b))

\* Sub negates its operand first
Sub(a, b) == IF Neg(b).err # "nil" THEN Neg(b) ELSE Add(a, Neg(b).val)

Mul(a, b, scale, mode) ==
    LET product == CheckedMul64(a.units, b.units)
    IN  IF ~ValidFixed64Scale(scale) THEN Fail("ErrInvalidScale")
        ELSE IF product # {} /\ ValidFixed64Scale(a.scale + b.scale)
          THEN Rescale(Fixed(CHOOSE p \in product : TRUE, a.scale + b.scale), scale, mode)
          ELSE Fixed64FromDecimal(D!Mul(Decimal(a), Decimal(b)), scale, mode)

Div(a, b, scale, mode) ==
    IF b.units = 0 THEN Fail("ErrDivisionByZero")
    ELSE IF ~ValidFixed64Scale(scale) THEN Fail("ErrInvalidScale")
    ELSE LET out == D!Div(Decimal(a), Decimal(b), scale, mode)
         IN  IF out.err # "nil" THEN Fail(out.err)
             ELSE Fixed64FromDecimal(out.val, scale, "TowardZero")

\* Mutant: values that cannot be aligned are compared by their units
CmpByUnits(a, b) ==
    IF Aligned(a, b) = {} THEN Sign(a.units - b.units)
    ELSE LET p == CHOOSE p \in Aligned(a, b) : TRUE IN Sign(p[1] - p[2])

Cmp(a, b) ==
    IF Aligned(a, b) = {} THEN D!Cmp(Decimal(a), Decimal(b))
    ELSE LET p == CHOOSE p \in Aligned(a, b) : TRUE IN Sign(p[1] - p[2])

MinFixed64(a, b) == IF Cmp(b, a) < 0 THEN b ELSE a
MaxFixed64(a, b) == IF Cmp(b, a) > 0 THEN b ELSE a

\* fixed64QuantizeStepFast: empty when any int64 step overflows
QuantizeStepFast(f, step, mode) ==
    LET stepUnits == IF step.units = MinInt64 THEN {} ELSE {Magnitude(step.units)}
        numerators == IF step.scale > f.scale
                        THEN ScaleUnits64(f.units, step.scale - f.scale) ELSE {f.units}
    IN  UNION { LET divisors == IF step.scale < f.scale
                                  THEN ScaleUnits64(s, f.scale - step.scale) ELSE {s}
                IN  UNION { CheckedMul64(q, s) :
                            q \in UNION { DivRound(n, d, mode) : n \in numerators, d \in divisors } }
              : s \in stepUnits }

QuantizeStepDecimal(f, step, mode) ==
    LET out == D!QuantizeStep(Decimal(f), D!Abs(Decimal(step)), mode)
    IN  IF out.err # "nil" THEN Fail(out.err)
        ELSE Fixed64FromDecimal(out.val, step.scale, "TowardZero")

QuantizeStep(f, step, mode) ==
    IF step.units = 0 THEN Fail("ErrDivisionByZero")
    ELSE IF mode \notin RoundingModes THEN Fail("ErrInvalidRoundingMode")
    ELSE IF QuantizeStepFast(f, step, mode) # {}
      THEN OrOverflow(QuantizeStepFast(f, step, mode), step.scale)
      ELSE QuantizeStepDecimal(f, step, mode)
=============================================================================
