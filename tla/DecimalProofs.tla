--------------------------- MODULE DecimalProofs ---------------------------
(***************************************************************************)
(* Decimal, for every width of the scale, set of operands, of scales and of*)
(* modes: what each operation of decimal.go returns as a number, and from  *)
(* this the type invariant of a chain of calls, the refinement of ExactCalc*)
(* and the agreement of Key with Cmp.                                      *)
(***************************************************************************)
EXTENDS DecimalCalc, RoundingProofs

-----------------------------------------------------------------------------
(* Scales and powers of ten. *)

Valid(d) == d.coef \in Int /\ d.scale \in 0 .. MaxScale

LEMMA Table ==
    /\ MaxScale \in Nat \ {0} /\ 2 * MaxScale \in Nat
    /\ PowersOfTen(Pow10, 2 * MaxScale)
    /\ \A s \in 0 .. 2 * MaxScale : Pow10[s] \in Nat \ {0}
    /\ Pow10[0] = 1
  BY MaxScaleAssumption, Pow10Assumption DEF PowersOfTen

LEMMA ValidFields ==
    ASSUME NEW d, Valid(d)
    PROVE  /\ d.coef \in Int /\ d.scale \in Nat /\ d.scale \in 0 .. MaxScale
           /\ d.scale <= MaxScale /\ d.scale \in 0 .. 2 * MaxScale
           /\ Pow10[d.scale] \in Nat \ {0}
<1>1. d.coef \in Int /\ d.scale \in 0 .. MaxScale
  BY DEF Valid
<1>2. d.scale \in 0 .. 2 * MaxScale
  BY <1>1, Table
<1> QED
  BY <1>1, <1>2, Table

\* An int32 does not wrap a scale that is one.
LEMMA WrapScaleFits ==
    ASSUME NEW n \in 0 .. MaxScale
    PROVE  WrapScale(n) = n
BY MaxScaleAssumption, NoWrap DEF WrapScale

\* Two fractions with a shared factor divide alike.
LEMMA DividesScaled ==
    ASSUME NEW p \in Int, NEW n \in Int, NEW c \in Int \ {0}
    PROVE  Divides(p * c, n * c) <=> Divides(p, n)
<1>1. ASSUME NEW k \in Int PROVE n * c = k * (p * c) <=> n = k * p
  <2> DEFINE q == k * p
  <2>1. q \in Int /\ k * (p * c) = q * c
    OBVIOUS
  <2> HIDE DEF q
  <2>2. CASE c > 0
    <3>1. n * c = q * c <=> n = q
      BY <2>1, <2>2, ScaledOrder
    <3> QED
      BY <2>1, <3>1 DEF q
  <2>3. CASE c < 0
    <3> DEFINE b == -c
    <3>1. b \in Int /\ b > 0
      BY <2>3
    <3>2. n * c = -(n * b) /\ q * c = -(q * b) /\ n * b \in Int /\ q * b \in Int
      BY <2>1
    <3> HIDE DEF b
    <3>3. n * b = q * b <=> n = q
      BY <2>1, <3>1, ScaledOrder
    <3>4. n * c = q * c <=> n * b = q * b
      BY <3>2
    <3> QED
      BY <2>1, <3>3, <3>4 DEF q
  <2> QED
    BY <2>2, <2>3
<1> QED
  BY <1>1 DEF Divides

-----------------------------------------------------------------------------
(* What the operations return, as numbers. *)

\* The coefficient moved from one scale to another
Shifted(coef, from, to, mode) ==
    IF to >= from THEN coef * Pow10[to - from] ELSE RoundQuotient(coef, Pow10[from - to], mode)

LEMMA RescaleIsRounded ==
    ASSUME NEW d, Valid(d), NEW scale \in Int, scale <= MaxScale, NEW mode
    PROVE  /\ Rescale(d, scale, mode)
                = IF scale < 0 THEN Fail("ErrInvalidScale")
                  ELSE IF mode \notin RoundingModes THEN Fail("ErrInvalidRoundingMode")
                  ELSE Ok(Dec(Shifted(d.coef, d.scale, scale, mode), scale))
           /\ scale >= 0 /\ mode \in RoundingModes =>
                /\ Shifted(d.coef, d.scale, scale, mode) \in Int
                /\ IsRounded(Shifted(d.coef, d.scale, scale, mode),
                             d.coef * Pow10[scale], Pow10[d.scale], mode)
<1>1. Rescale(d, scale, mode)
        = IF scale < 0 THEN Fail("ErrInvalidScale")
          ELSE IF mode \notin RoundingModes THEN Fail("ErrInvalidRoundingMode")
          ELSE Ok(Dec(Shifted(d.coef, d.scale, scale, mode), scale))
  BY DEF Rescale, Shifted
<1>2. ASSUME scale >= 0, mode \in RoundingModes
      PROVE  /\ Shifted(d.coef, d.scale, scale, mode) \in Int
             /\ IsRounded(Shifted(d.coef, d.scale, scale, mode),
                          d.coef * Pow10[scale], Pow10[d.scale], mode)
  <2> DEFINE w == 2 * MaxScale
             c == d.coef
             from == d.scale
  <2>1. /\ w \in Nat /\ PowersOfTen(Pow10, w) /\ c \in Int /\ from \in 0 .. w /\ scale \in 0 .. w
    BY <1>2, Table, ValidFields
  <2> HIDE DEF w, c, from
  <2>2. Shifted(c, from, scale, mode) \in Int
        /\ IsRounded(Shifted(c, from, scale, mode), c * Pow10[scale], Pow10[from], mode)
    BY <1>2, <2>1, ShiftIsRounded DEF Shifted
  <2> QED
    BY <2>2 DEF c, from
<1> QED
  BY <1>1, <1>2

\* The coefficient Div computes
Quotient(n, from, d, by, scale, mode) ==
    LET e == by + scale - from
    IN  RoundQuotient(n * (IF e >= 0 THEN Pow10[e] ELSE 1), d * (IF e >= 0 THEN 1 ELSE Pow10[-e]), mode)

LEMMA QuotientIsRounded ==
    ASSUME NEW n \in Int, NEW from \in 0 .. MaxScale, NEW d \in Int \ {0},
           NEW by \in 0 .. MaxScale, NEW scale \in 0 .. MaxScale, NEW mode \in RoundingModes
    PROVE  /\ Quotient(n, from, d, by, scale, mode) \in Int
           /\ IsRounded(Quotient(n, from, d, by, scale, mode),
                        (n * Pow10[by]) * Pow10[scale], Pow10[from] * d, mode)
<1> DEFINE w == 2 * MaxScale
<1>1. /\ w \in Nat /\ PowersOfTen(Pow10, w)
      /\ from \in 0 .. w /\ by \in Nat /\ scale \in Nat /\ by + scale <= w
  BY Table
<1> HIDE DEF w
<1> QED
  BY <1>1, ShiftedQuotientIsRounded DEF Quotient

LEMMA DivIsRounded ==
    ASSUME NEW a, Valid(a), NEW b, Valid(b), NEW scale \in Int, scale <= MaxScale, NEW mode
    PROVE  /\ Div(a, b, scale, mode)
                = IF b.coef = 0 THEN Fail("ErrDivisionByZero")
                  ELSE IF scale < 0 THEN Fail("ErrInvalidScale")
                  ELSE IF mode \notin RoundingModes THEN Fail("ErrInvalidRoundingMode")
                  ELSE Ok(Dec(Quotient(a.coef, a.scale, b.coef, b.scale, scale, mode), scale))
           /\ b.coef # 0 /\ scale >= 0 /\ mode \in RoundingModes =>
                /\ Quotient(a.coef, a.scale, b.coef, b.scale, scale, mode) \in Int
                /\ IsRounded(Quotient(a.coef, a.scale, b.coef, b.scale, scale, mode),
                             (a.coef * Pow10[b.scale]) * Pow10[scale], Pow10[a.scale] * b.coef, mode)
<1>1. Div(a, b, scale, mode)
        = IF b.coef = 0 THEN Fail("ErrDivisionByZero")
          ELSE IF scale < 0 THEN Fail("ErrInvalidScale")
          ELSE IF mode \notin RoundingModes THEN Fail("ErrInvalidRoundingMode")
          ELSE Ok(Dec(Quotient(a.coef, a.scale, b.coef, b.scale, scale, mode), scale))
  BY DEF Div, IsZero, Numerator, Denominator, Quotient
<1>2. ASSUME b.coef # 0, scale >= 0, mode \in RoundingModes
      PROVE  /\ Quotient(a.coef, a.scale, b.coef, b.scale, scale, mode) \in Int
             /\ IsRounded(Quotient(a.coef, a.scale, b.coef, b.scale, scale, mode),
                          (a.coef * Pow10[b.scale]) * Pow10[scale], Pow10[a.scale] * b.coef, mode)
  <2>1. /\ a.coef \in Int /\ a.scale \in 0 .. MaxScale /\ b.coef \in Int \ {0} /\ b.scale \in 0 .. MaxScale
        /\ scale \in 0 .. MaxScale
    BY <1>2, ValidFields
  <2> QED
    BY <1>2, <2>1, QuotientIsRounded
<1> QED
  BY <1>1, <1>2

\* QuantizeStep rounds the quotient by the step to an integer, once: the multiple
\* keeps the scale of the step, and bringing it to that scale changes nothing.
LEMMA QuantizeStepIsRounded ==
    ASSUME NEW d, Valid(d), NEW step, Valid(step), NEW mode
    PROVE  LET m == Magnitude(step.coef)
               k == Quotient(d.coef, d.scale, m, step.scale, 0, mode)
           IN  /\ QuantizeStep(d, step, mode)
                    = IF step.coef = 0 THEN Fail("ErrDivisionByZero")
                      ELSE IF mode \notin RoundingModes THEN Fail("ErrInvalidRoundingMode")
                      ELSE Ok(Dec(k * m, step.scale))
               /\ step.coef # 0 /\ mode \in RoundingModes =>
                    /\ k \in Int /\ m \in Int \ {0}
                    /\ IsRounded(k, d.coef * Pow10[step.scale], Pow10[d.scale] * m, mode)
<1> DEFINE m == Magnitude(step.coef)
           s == step.scale
           k == Quotient(d.coef, d.scale, m, s, 0, mode)
           abs == Abs(step)
           units == Div(d, abs, 0, mode)
<1>1. step.coef \in Int /\ m \in Int /\ (m = 0 <=> step.coef = 0)
      /\ s \in 0 .. MaxScale /\ s \in Nat /\ 0 \in Int /\ 0 <= MaxScale
  BY ValidFields, Table DEF Magnitude
<1>2. abs = Dec(m, s) /\ abs.coef = m /\ abs.scale = s /\ Valid(abs)
  BY <1>1 DEF Abs, Dec, Valid
<1>3. CASE step.coef = 0
  BY <1>1, <1>3 DEF QuantizeStep, IsZero
<1>4. CASE step.coef # 0
  <2>1. units = IF mode \notin RoundingModes THEN Fail("ErrInvalidRoundingMode") ELSE Ok(Dec(k, 0))
    <3> HIDE DEF abs, m, s
    <3>1. units = IF abs.coef = 0 THEN Fail("ErrDivisionByZero")
                  ELSE IF 0 < 0 THEN Fail("ErrInvalidScale")
                  ELSE IF mode \notin RoundingModes THEN Fail("ErrInvalidRoundingMode")
                  ELSE Ok(Dec(Quotient(d.coef, d.scale, abs.coef, abs.scale, 0, mode), 0))
      BY <1>1, <1>2, DivIsRounded
    <3> QED
      BY <1>1, <1>2, <1>4, <3>1
  <2>2. QuantizeStep(d, step, mode)
          = IF units.err # "nil" THEN units ELSE Rescale(Mul(units.val, abs), s, "TowardZero")
    BY <1>4 DEF QuantizeStep, IsZero
  <2>3. CASE mode \notin RoundingModes
    <3> HIDE DEF units
    <3> QED
      BY <1>4, <2>1, <2>2, <2>3 DEF Fail
  <2>4. CASE mode \in RoundingModes
    <3>1. k \in Int /\ IsRounded(k, (d.coef * Pow10[s]) * Pow10[0], Pow10[d.scale] * m, mode)
      <4> DEFINE c == d.coef
                 from == d.scale
      <4>1. c \in Int /\ from \in 0 .. MaxScale /\ m \in Int \ {0} /\ 0 \in 0 .. MaxScale
        BY <1>1, <1>4, ValidFields
      <4> HIDE DEF c, from, m, s
      <4> QED
        BY <1>1, <2>4, <4>1, QuotientIsRounded DEF c, from
    <3>2. (d.coef * Pow10[s]) * Pow10[0] = d.coef * Pow10[s]
      <4> DEFINE x == d.coef
                 y == Pow10[s]
      <4>1. x \in Int /\ y \in Int
        BY ValidFields
      <4> HIDE DEF x, y
      <4>2. (x * y) * 1 = x * y
        BY <4>1
      <4> QED
        BY <4>2, Table DEF x, y
    <3> HIDE DEF units, abs, k
    <3>3. units.err = "nil" /\ units.val = Dec(k, 0)
      BY <2>1, <2>4 DEF Ok
    <3> DEFINE p == Mul(units.val, abs)
    <3>4. p = Dec(k * m, s)
      <4>1. AddScale(0, s) = s
        BY <1>1, WrapScaleFits DEF AddScale
      <4> QED
        BY <1>2, <3>3, <4>1 DEF Mul, Dec
    <3> HIDE DEF p
    <3>5. Rescale(p, s, "TowardZero") = Ok(Dec(k * m, s))
      <4> DEFINE n == k * m
      <4>1. n \in Int /\ s >= s /\ s - s = 0 /\ ~(s < 0)
        BY <1>1, <3>1
      <4> HIDE DEF n
      <4>2. p.coef = n /\ p.scale = s /\ n * 1 = n
        BY <3>4, <4>1 DEF n, Dec
      <4>3. "TowardZero" \in RoundingModes
        BY DEF RoundingModes, DirectedModes
      <4>4. Rescale(p, s, "TowardZero") = Ok(Dec(n, s))
        BY <4>1, <4>2, <4>3, Table DEF Rescale
      <4> QED
        BY <4>4 DEF n
    <3> QED
      BY <1>1, <1>4, <2>2, <2>4, <3>1, <3>2, <3>3, <3>5 DEF p, k
  <2> QED
    BY <2>3, <2>4
<1> QED
  BY <1>3, <1>4

\* RescaleExact drops digits only when all of them are zeros.
LEMMA RescaleExactIsExact ==
    ASSUME NEW d, Valid(d), NEW scale \in Int, scale <= MaxScale
    PROVE  LET result == RescaleExact(d, scale)
           IN  /\ scale < 0 => result = Fail("ErrInvalidScale")
               /\ scale >= 0 =>
                    \/ result = Fail("ErrInexact") /\ ~Divides(Pow10[d.scale], d.coef * Pow10[scale])
                    \/ \E k \in Int : /\ result = Ok(Dec(k, scale))
                                      /\ k * Pow10[d.scale] = d.coef * Pow10[scale]
<1> DEFINE c == d.coef
           from == d.scale
           w == 2 * MaxScale
           result == RescaleExact(d, scale)
<1>1. w \in Nat /\ PowersOfTen(Pow10, w) /\ c \in Int /\ from \in Nat /\ from <= w /\ scale <= w
  BY Table, ValidFields
<1>2. CASE scale < 0
  BY <1>2 DEF RescaleExact
<1>3. CASE scale >= from
  <2> DEFINE g == Pow10[scale - from]
             f == Pow10[from]
             k == c * g
  <2> HIDE DEF w
  <2>1. g \in Nat \ {0} /\ f \in Nat \ {0} /\ Pow10[scale] = f * g
    BY <1>1, <1>3, PowersGrow
  <2>2. result = Ok(Dec(k, scale))
    BY <1>1, <1>3 DEF RescaleExact
  <2> HIDE DEF c, g, f, result
  <2>3. k \in Int /\ k * f = c * (f * g)
    BY <1>1, <2>1
  <2> QED
    BY <1>1, <1>3, <2>1, <2>2, <2>3 DEF result, c, f
<1>4. CASE 0 <= scale /\ scale < from
  <2> DEFINE g == Pow10[from - scale]
             t == Pow10[scale]
             k == Quo(c, g)
  <2> HIDE DEF w
  <2>1. g \in Nat \ {0} /\ t \in Nat \ {0} /\ Pow10[from] = t * g /\ scale \in Nat
    <3>1. scale \in Nat /\ scale <= from
      BY <1>1, <1>4
    <3> HIDE DEF from
    <3> QED
      BY <1>1, <3>1, PowersGrow
  <2>2. result = IF Rem(c, g) # 0 THEN Fail("ErrInexact") ELSE Ok(Dec(k, scale))
    BY <1>1, <1>4 DEF RescaleExact
  <2> HIDE DEF c, g, t, result
  <2>3. /\ Rem(c, g) = 0 <=> Divides(g, c)
        /\ Rem(c, g) = 0 => c = k * g
        /\ k \in Int
    <3>1. g \in Int \ {0}
      BY <2>1
    <3> QED
      BY <1>1, <3>1, NoRemainder
  <2> HIDE DEF k
  <2>4. Divides(g * t, c * t) <=> Divides(g, c)
    <3>1. g \in Int /\ t \in Int \ {0}
      BY <2>1
    <3> QED
      BY <1>1, <3>1, DividesScaled
  <2>5. g * t = t * g
    BY <2>1
  <2>6. CASE Rem(c, g) # 0
    <3>1. result = Fail("ErrInexact") /\ ~Divides(t * g, c * t)
      BY <2>2, <2>3, <2>4, <2>5, <2>6
    <3> QED
      BY <1>4, <2>1, <3>1 DEF result, c, t
  <2>7. CASE Rem(c, g) = 0
    <3>1. k * (t * g) = (k * g) * t
      BY <2>1, <2>3
    <3>2. result = Ok(Dec(k, scale)) /\ k \in Int /\ k * (t * g) = c * t
      BY <2>2, <2>3, <2>7, <3>1
    <3> QED
      BY <1>4, <2>1, <3>2 DEF result, c, t
  <2> QED
    BY <2>6, <2>7
<1> QED
  BY <1>1, <1>2, <1>3, <1>4

\* The two operands brought to integers by Numerator and Denominator, with the
\* sign of the divisor in the numerator, as LowestTerms takes them: one factor
\* takes them to the products of coefficients and powers of ten.
LEMMA QuotientTerms ==
    ASSUME NEW a, Valid(a), NEW b, Valid(b), b.coef # 0
    PROVE  LET num == Numerator(a, b, 0) * Sign(b.coef)
               den == Magnitude(Denominator(a, b, 0))
           IN  /\ num \in Int /\ den \in Nat \ {0}
               /\ \E c \in Int \ {0} : /\ a.coef * Pow10[b.scale] = num * c
                                       /\ Pow10[a.scale] * b.coef = den * c
<1> DEFINE n == a.coef
           d == b.coef
           from == a.scale
           by == b.scale
           e == by + 0 - from
           up == IF e >= 0 THEN Pow10[e] ELSE 1
           down == IF e >= 0 THEN 1 ELSE Pow10[-e]
           sign == Sign(d)
           num == Numerator(a, b, 0) * Sign(b.coef)
           den == Magnitude(Denominator(a, b, 0))
           w == 2 * MaxScale
<1>1. /\ n \in Int /\ d \in Int /\ d # 0 /\ from \in Nat /\ by \in Nat /\ from <= w /\ by <= w
      /\ w \in Nat /\ PowersOfTen(Pow10, w)
  BY Table, ValidFields
<1>2. num = (n * up) * sign /\ den = Magnitude(d * down)
  BY DEF Numerator, Denominator
<1>3. PICK x \in Nat \ {0} : /\ Pow10[by] = x * up /\ Pow10[from] = x * down
                             /\ up \in Nat \ {0} /\ down \in Nat \ {0}
  <2> HIDE DEF w
  <2>1. CASE by >= from
    <3> DEFINE g == Pow10[by - from]
               f == Pow10[from]
    <3>1. g \in Nat \ {0} /\ f \in Nat \ {0} /\ Pow10[by] = f * g
      BY <1>1, <2>1, PowersGrow
    <3>2. e >= 0 /\ e = by - from
      BY <1>1, <2>1
    <3>3. up = g /\ down = 1
      BY <3>2
    <3> HIDE DEF g, f, up, down
    <3>4. f * 1 = f
      BY <3>1
    <3> QED
      BY <3>1, <3>3, <3>4 DEF f
  <2>2. CASE by < from
    <3> DEFINE g == Pow10[from - by]
               f == Pow10[by]
    <3>1. g \in Nat \ {0} /\ f \in Nat \ {0} /\ Pow10[from] = f * g
      <4>1. by <= from
        BY <1>1, <2>2
      <4> HIDE DEF from, by
      <4> QED
        BY <1>1, <4>1, PowersGrow
    <3>2. ~(e >= 0) /\ -e = from - by
      BY <1>1, <2>2
    <3>3. up = 1 /\ down = g
      BY <3>2
    <3> HIDE DEF g, f, up, down
    <3>4. f * 1 = f
      BY <3>1
    <3> QED
      BY <3>1, <3>3, <3>4 DEF f
  <2> QED
    BY <1>1, <2>1, <2>2
<1> DEFINE y == n * up
           z == d * down
<1> HIDE DEF up, down, n, d, from, by
<1>4. sign \in {1, -1} /\ (sign = 1 <=> d > 0) /\ (sign = -1 <=> d < 0)
  BY <1>1 DEF Sign
<1>5. y \in Int /\ z \in Int /\ (d > 0 => z > 0) /\ (d < 0 => z < 0)
  BY <1>1, <1>3
<1>6. (x * up) * n = y * x /\ (x * down) * d = z * x /\ Pow10[by] * n = n * Pow10[by]
  <2>1. Pow10[by] \in Int
    BY <1>3
  <2> DEFINE q == Pow10[by]
  <2> HIDE DEF q
  <2>2. q * n = n * q
    BY <1>1, <2>1 DEF q
  <2> QED
    BY <1>1, <1>3, <2>2 DEF q
<1> HIDE DEF num, den, y, z, sign
<1>7. num = y * sign /\ den = Magnitude(z)
  BY <1>2 DEF y, z
<1>8. num \in Int /\ den \in Nat \ {0} /\ den = z * sign
  BY <1>1, <1>4, <1>5, <1>7 DEF Magnitude
<1> DEFINE c == sign * x
<1>9. c \in Int \ {0} /\ num * c = y * x /\ den * c = z * x
  <2>1. CASE sign = 1
    BY <1>3, <1>5, <1>7, <1>8, <2>1
  <2>2. CASE sign = -1
    <3>1. (-y) * (-x) = y * x /\ (-z) * (-x) = z * x
      BY <1>3, <1>5
    <3>2. num = -y /\ den = -z /\ c = -x
      BY <1>3, <1>5, <1>7, <1>8, <2>2
    <3> QED
      BY <1>3, <3>1, <3>2
  <2> QED
    BY <1>4, <2>1, <2>2
<1>10. n * Pow10[by] = num * c /\ Pow10[from] * d = den * c
  BY <1>3, <1>6, <1>9
<1> HIDE DEF c
<1> QED
  BY <1>8, <1>9, <1>10 DEF n, d, from, by, num, den

LEMMA LargerScaleOfTwo ==
    ASSUME NEW x \in Int, NEW y \in Int
    PROVE  Max({x, y}) = IF x >= y THEN x ELSE y
BY LargerOfTwo DEF Max

\* DivExact gives all digits of the quotient, as few as there are, and refuses
\* exactly the quotients no scale is enough for.
LEMMA DivExactIsNarrowest ==
    ASSUME NEW a, Valid(a), NEW b, Valid(b), b.coef # 0, QuotientFits(a, b)
    PROVE  LET n == a.coef * Pow10[b.scale]
               d == Pow10[a.scale] * b.coef
           IN  \/ /\ DivExact(a, b) = Fail("ErrInexact")
                  /\ \A s \in 0 .. MaxScale : ~Divides(d, n * Pow10[s])
               \/ \E k \in Int, s \in 0 .. MaxScale :
                    /\ DivExact(a, b) = Ok(Dec(k, s))
                    /\ k * d = n * Pow10[s]
                    /\ \A r \in 0 .. MaxScale : Divides(d, n * Pow10[r]) => s <= r
<1> DEFINE n     == a.coef * Pow10[b.scale]
           d     == Pow10[a.scale] * b.coef
           num   == Numerator(a, b, 0) * Sign(b.coef)
           den   == Magnitude(Denominator(a, b, 0))
           g     == Gcd(Magnitude(num), den)
           m     == Quo(num, g)
           twos  == Removed(den \div g, 2)
           fives == Removed(twos.left, 5)
           t     == twos.count
           f     == fives.count
           w     == 2 * MaxScale
<1>1. /\ num \in Int /\ den \in Nat \ {0}
      /\ \E c \in Int \ {0} : n = num * c /\ d = den * c
  BY QuotientTerms
<1>2. PICK c \in Int \ {0} : n = num * c /\ d = den * c
  BY <1>1
<1> DEFINE q == LowestTerms(a, b)
           r2 == RemoveFactor(q.den, 2)
           r5 == RemoveFactor(r2.left, 5)
           scale == Max({r2.count, r5.count})
<1>3. q = [num |-> m, den |-> den \div g]
  BY DEF LowestTerms
<1>4. DivExact(a, b) = IF r5.left # 1 THEN Fail("ErrInexact")
                       ELSE Ok(Dec(q.num * Powers(2)[scale - r2.count] * Powers(5)[scale - r5.count], scale))
  BY DEF DivExact, IsZero
<1>5. t <= MaxScale /\ f <= MaxScale
  <2>1. ~IsZero(b)
    BY DEF IsZero
  <2>2. Removed(q.den, 2).count <= MaxScale /\ Removed(Removed(q.den, 2).left, 5).count <= MaxScale
    BY <2>1 DEF QuotientFits
  <2> HIDE DEF q
  <2>3. q.den = den \div g
    BY <1>3
  <2> QED
    BY <2>2, <2>3
<1> HIDE DEF q, n, d, num, den
<1>6. w \in Nat /\ PowersOfTen(Pow10, w) /\ MaxScale \in Nat /\ 0 .. MaxScale \subseteq 0 .. w
  BY Table
<1> HIDE DEF w
<1>7. /\ m \in Int /\ t \in Nat /\ f \in Nat
      /\ fives.left # 1 => \A s \in 0 .. w : ~Divides(den, num * Pow10[s])
      /\ fives.left = 1 => \A s \in 0 .. w :
           t <= s /\ f <= s => /\ m * Powers(2)[s - t] * Powers(5)[s - f] \in Int
                               /\ (m * Powers(2)[s - t] * Powers(5)[s - f]) * den = num * Pow10[s]
      /\ \A s \in 0 .. w : Divides(den, num * Pow10[s]) => t <= s /\ f <= s
      /\ Divides(den, num) => t = 0 /\ f = 0 /\ fives.left = 1 /\ m * den = num
  BY <1>1, <1>6, ExpansionIsExact
<1> DEFINE l2 == twos.left
           l5 == fives.left
<1>8. r2.left = l2 /\ r2.count = t
  <2>1. q.den = den \div g
    BY <1>3
  <2>2. r2 = [twos EXCEPT !.count = WrapScale(@)]
    BY <2>1 DEF RemoveFactor
  <2>3. WrapScale(t) = t
    BY <1>5, <1>6, <1>7, WrapScaleFits
  <2>4. \E S : twos \in [left : S, count : S]
    <3>1. den \div g \in Nat /\ 2 \in Nat /\ 2 > 1
      BY <1>1, LowestTermsShare
    <3>2. twos \in [left : Nat, count : Nat]
      <4> DEFINE v == den \div g
      <4> HIDE DEF v
      <4>1. Removed(v, 2) \in [left : Nat, count : Nat]
        BY <3>1, RemovedStep DEF v
      <4> QED
        BY <4>1 DEF v
    <3> QED
      BY <3>2
  <2> HIDE DEF twos
  <2> QED
    BY <2>2, <2>3, <2>4
<1>9. r5.left = l5 /\ r5.count = f
  <2>1. r5 = [fives EXCEPT !.count = WrapScale(@)]
    <3> HIDE DEF r2
    <3> QED
      BY <1>8 DEF RemoveFactor
  <2>2. WrapScale(f) = f
    BY <1>5, <1>6, <1>7, WrapScaleFits
  <2>3. fives \in [left : Nat, count : Nat]
    <3>1. l2 \in Nat /\ 5 \in Nat /\ 5 > 1
      <4> DEFINE v == den \div g
      <4>1. v \in Nat /\ 2 \in Nat /\ 2 > 1
        BY <1>1, LowestTermsShare
      <4>2. twos = Removed(v, 2)
        OBVIOUS
      <4> HIDE DEF v
      <4>3. Removed(v, 2) \in [left : Nat, count : Nat]
        BY <4>1, RemovedStep
      <4> HIDE DEF twos
      <4> QED
        BY <4>2, <4>3
    <3> HIDE DEF l2
    <3>2. Removed(l2, 5) \in [left : Nat, count : Nat]
      BY <3>1, RemovedStep
    <3> QED
      BY <3>2 DEF l2
  <2> HIDE DEF fives
  <2> QED
    BY <2>1, <2>2, <2>3
<1>10. DivExact(a, b) = IF l5 # 1 THEN Fail("ErrInexact")
                        ELSE Ok(Dec(m * Powers(2)[scale - t] * Powers(5)[scale - f], scale))
  <2>1. q.num = m
    BY <1>3
  <2> HIDE DEF scale, q, r2, r5, m, l5, t, f
  <2> QED
    BY <1>4, <1>8, <1>9, <2>1
<1>11. scale = IF t >= f THEN t ELSE f
  <2> HIDE DEF t, f, r2, r5
  <2> QED
    BY <1>7, <1>8, <1>9, LargerScaleOfTwo
<1> HIDE DEF scale, t, f, m, l5, fives, twos
<1>12. \A x \in Int : Divides(d, n * x) <=> Divides(den, num * x)
  <2> TAKE x \in Int
  <2> DEFINE y == num * x
  <2>1. y \in Int /\ n * x = y * c
    BY <1>1, <1>2
  <2> HIDE DEF y
  <2>2. Divides(den * c, y * c) <=> Divides(den, y)
    BY <1>1, <1>2, <2>1, DividesScaled
  <2> QED
    BY <1>2, <2>1, <2>2 DEF y
<1>13. CASE l5 # 1
  <2>1. DivExact(a, b) = Fail("ErrInexact")
    BY <1>10, <1>13
  <2>2. ASSUME NEW s \in 0 .. MaxScale PROVE ~Divides(d, n * Pow10[s])
    <3>1. s \in 0 .. w /\ Pow10[s] \in Int
      BY <1>6 DEF PowersOfTen
    <3>2. ~Divides(den, num * Pow10[s])
      BY <1>7, <1>13, <3>1 DEF l5
    <3> QED
      BY <1>12, <3>1, <3>2
  <2> QED
    BY <2>1, <2>2 DEF n, d
<1>14. CASE l5 = 1
  <2> DEFINE k == m * Powers(2)[scale - t] * Powers(5)[scale - f]
  <2>1. DivExact(a, b) = Ok(Dec(k, scale))
    BY <1>10, <1>14
  <2>2. scale \in 0 .. MaxScale /\ t <= scale /\ f <= scale
    BY <1>5, <1>6, <1>7, <1>11
  <2>3. k \in Int /\ k * den = num * Pow10[scale]
    BY <1>6, <1>7, <1>14, <2>2 DEF l5
  <2>4. k * d = n * Pow10[scale]
    <3> DEFINE p == Pow10[scale]
    <3>1. p \in Int
      BY <1>6, <2>2 DEF PowersOfTen
    <3> HIDE DEF k, p
    <3>2. k * (den * c) = (k * den) * c /\ (num * c) * p = (num * p) * c
      BY <1>1, <1>2, <2>3, <3>1
    <3> QED
      BY <1>2, <2>3, <3>2 DEF p
  <2>5. ASSUME NEW r \in 0 .. MaxScale, Divides(d, n * Pow10[r]) PROVE scale <= r
    <3>1. r \in 0 .. w /\ Pow10[r] \in Int
      BY <1>6 DEF PowersOfTen
    <3>2. Divides(den, num * Pow10[r])
      BY <1>12, <2>5, <3>1
    <3>3. t <= r /\ f <= r
      BY <1>7, <3>1, <3>2
    <3> QED
      BY <1>11, <3>3
  <2> HIDE DEF k
  <2> QED
    BY <2>1, <2>2, <2>3, <2>4, <2>5 DEF n, d
<1> QED
  BY <1>13, <1>14

LEMMA DivExactIsExact ==
    ASSUME NEW a, Valid(a), NEW b, Valid(b), b.coef # 0, QuotientFits(a, b)
    PROVE  LET n == a.coef * Pow10[b.scale]
               d == Pow10[a.scale] * b.coef
           IN  \/ /\ DivExact(a, b) = Fail("ErrInexact")
                  /\ \A s \in 0 .. MaxScale : ~Divides(d, n * Pow10[s])
               \/ \E k \in Int, s \in 0 .. MaxScale :
                    /\ DivExact(a, b) = Ok(Dec(k, s))
                    /\ k * d = n * Pow10[s]
                    /\ Divides(d, n) => s = 0
<1> DEFINE n == a.coef * Pow10[b.scale]
           d == Pow10[a.scale] * b.coef
<1>1. \/ /\ DivExact(a, b) = Fail("ErrInexact")
         /\ \A s \in 0 .. MaxScale : ~Divides(d, n * Pow10[s])
      \/ \E k \in Int, s \in 0 .. MaxScale :
           /\ DivExact(a, b) = Ok(Dec(k, s))
           /\ k * d = n * Pow10[s]
           /\ \A r \in 0 .. MaxScale : Divides(d, n * Pow10[r]) => s <= r
  BY DivExactIsNarrowest
<1>2. n \in Int /\ 0 \in 0 .. MaxScale /\ Pow10[0] = 1
  <2> DEFINE u == a.coef
             p == Pow10[b.scale]
  <2>1. u \in Int /\ p \in Int
    BY ValidFields
  <2> HIDE DEF u, p
  <2>2. u * p \in Int
    BY <2>1
  <2> QED
    BY <2>2, Table DEF u, p
<1> HIDE DEF n, d
<1>3. ASSUME NEW s \in 0 .. MaxScale, Divides(d, n), \A r \in 0 .. MaxScale : Divides(d, n * Pow10[r]) => s <= r
      PROVE  s = 0
  <2>1. n * Pow10[0] = n
    BY <1>2
  <2>2. s <= 0
    BY <1>2, <1>3, <2>1
  <2> QED
    BY <2>2
<1>4. \/ /\ DivExact(a, b) = Fail("ErrInexact")
         /\ \A s \in 0 .. MaxScale : ~Divides(d, n * Pow10[s])
      \/ \E k \in Int, s \in 0 .. MaxScale :
           /\ DivExact(a, b) = Ok(Dec(k, s))
           /\ k * d = n * Pow10[s]
           /\ Divides(d, n) => s = 0
  BY <1>1, <1>3
<1> QED
  BY <1>4 DEF n, d

\* At a smaller scale the quotient could not be stored without losing a digit.
LEMMA NarrowerIsInexact ==
    ASSUME NEW a, Valid(a), NEW b, Valid(b), b.coef # 0, QuotientFits(a, b),
           NEW q, DivExact(a, b) = Ok(q), NEW r \in 0 .. q.scale - 1
    PROVE  RescaleExact(q, r).err = "ErrInexact"
<1> DEFINE n == a.coef * Pow10[b.scale]
           d == Pow10[a.scale] * b.coef
           p == Pow10[q.scale - r]
           z == Pow10[r]
<1>1. n \in Int /\ d \in Int
  <2> DEFINE u == a.coef
             v == b.coef
             e == Pow10[b.scale]
             f == Pow10[a.scale]
  <2>1. u \in Int /\ v \in Int /\ e \in Int /\ f \in Int
    BY ValidFields
  <2> HIDE DEF u, v, e, f
  <2>2. u * e \in Int /\ f * v \in Int
    BY <2>1
  <2> QED
    BY <2>2 DEF u, v, e, f
<1>2. /\ q.coef \in Int /\ q.scale \in 0 .. MaxScale /\ q.coef * d = n * Pow10[q.scale]
      /\ \A s \in 0 .. MaxScale : Divides(d, n * Pow10[s]) => q.scale <= s
  <2>1. \/ DivExact(a, b) = Fail("ErrInexact")
        \/ \E k \in Int, s \in 0 .. MaxScale :
             /\ DivExact(a, b) = Ok(Dec(k, s))
             /\ k * d = n * Pow10[s]
             /\ \A x \in 0 .. MaxScale : Divides(d, n * Pow10[x]) => s <= x
    BY DivExactIsNarrowest
  <2> HIDE DEF n, d
  <2>2. PICK k \in Int, s \in 0 .. MaxScale :
          /\ q = Dec(k, s) /\ k * d = n * Pow10[s]
          /\ \A x \in 0 .. MaxScale : Divides(d, n * Pow10[x]) => s <= x
    <3>1. Ok(q) # Fail("ErrInexact") /\ \A y : Ok(q) = Ok(y) => q = y
      BY DEF Ok, Fail
    <3> QED
      BY <2>1, <3>1
  <2>3. q.coef = k /\ q.scale = s
    BY <2>2 DEF Dec
  <2> QED
    BY <2>2, <2>3
<1>3. r \in 0 .. MaxScale /\ z \in Nat \ {0} /\ p \in Nat \ {0} /\ Pow10[q.scale] = z * p
  <2>1. /\ r \in Nat /\ q.scale - r \in Nat /\ r + (q.scale - r) = q.scale
        /\ r \in 0 .. MaxScale /\ r \in 0 .. 2 * MaxScale /\ q.scale - r \in 0 .. 2 * MaxScale
        /\ q.scale <= 2 * MaxScale
    BY <1>2, Table
  <2>2. Pow10[r + (q.scale - r)] = Pow10[r] * Pow10[q.scale - r]
    BY <2>1, Table, PowersAdd
  <2> QED
    BY <2>1, <2>2, Table
<1> HIDE DEF n, d, p, z
<1>4. ASSUME Rem(q.coef, p) = 0 PROVE FALSE
  <2>1. PICK k \in Int : q.coef = k * p
    <3>1. q.coef \in Int /\ p \in Int \ {0}
      BY <1>2, <1>3
    <3>2. Divides(p, q.coef)
      BY <1>4, <3>1, NoRemainder
    <3> QED
      BY <3>2 DEF Divides
  <2> DEFINE u == k * d
             v == n * z
  <2>2. u \in Int /\ v \in Int /\ (k * p) * d = u * p /\ n * (z * p) = v * p
    BY <1>1, <1>3
  <2>3. u * p = v * p
    BY <1>2, <1>3, <2>1, <2>2
  <2> HIDE DEF u, v
  <2>4. u = v
    BY <1>3, <2>2, <2>3, ScaledOrder
  <2>5. Divides(d, n * Pow10[r])
    BY <2>4 DEF Divides, u, v, z
  <2>6. q.scale <= r
    BY <1>2, <1>3, <2>5
  <2> QED
    BY <1>2, <1>3, <2>6
<1>5. ~(r < 0) /\ ~(r >= q.scale)
  BY <1>2, <1>3
<1> QED
  BY <1>4, <1>5 DEF RescaleExact, Fail, p

\* The sign of the divisor decides nothing about the factors of the quotient.
LEMMA FitsUnsigned ==
    ASSUME NEW a, Valid(a), NEW b, Valid(b), b.coef # 0, QuotientFits(a, b)
    PROVE  QuotientFits(a, Abs(b))
<1> DEFINE abs == Abs(b)
           d == b.coef
           num(c) == Numerator(a, c, 0) * Sign(c.coef)
           den(c) == Magnitude(Denominator(a, c, 0))
<1>1. abs.coef = Magnitude(d) /\ abs.scale = b.scale /\ d \in Int /\ d # 0
  BY ValidFields DEF Abs, Dec
<1>2. Valid(abs) /\ abs.coef # 0
  BY <1>1, ValidFields DEF Valid, Magnitude
<1>3. num(abs) \in Int /\ num(b) \in Int
  BY <1>2, QuotientTerms
<1>4. Magnitude(num(abs)) = Magnitude(num(b))
  <2> DEFINE n == Numerator(a, b, 0)
  <2>1. Numerator(a, abs, 0) = n
    BY <1>1 DEF Numerator
  <2>2. Sign(abs.coef) = 1 /\ (Sign(d) = 1 \/ Sign(d) = -1)
    BY <1>1 DEF Sign, Magnitude
  <2>3. n \in Int
    <3> DEFINE e == b.scale + 0 - a.scale
    <3>1. e \in Int /\ (e >= 0 => e \in 0 .. 2 * MaxScale) /\ a.coef \in Int
      BY Table, ValidFields
    <3>2. n = a.coef * (IF e >= 0 THEN Pow10[e] ELSE 1)
      BY DEF Numerator
    <3>3. (IF e >= 0 THEN Pow10[e] ELSE 1) \in Int
      BY <3>1, Table
    <3> HIDE DEF n
    <3> QED
      BY <3>1, <3>2, <3>3
  <2> HIDE DEF n, abs
  <2>4. num(abs) = n * 1 /\ (num(b) = n * 1 \/ num(b) = n * (-1))
    BY <2>1, <2>2 DEF n
  <2> HIDE DEF num
  <2> QED
    BY <2>3, <2>4 DEF Magnitude
<1>5. den(abs) = den(b)
  <2> DEFINE e == b.scale + 0 - a.scale
             p == IF e >= 0 THEN 1 ELSE Pow10[-e]
  <2>1. e \in Int /\ (e < 0 => -e \in 0 .. 2 * MaxScale)
    BY Table, ValidFields
  <2>2. p \in Int /\ p > 0
    BY <2>1, Table
  <2>3. Denominator(a, abs, 0) = Magnitude(d) * p /\ Denominator(a, b, 0) = d * p
    BY <1>1 DEF Denominator
  <2> HIDE DEF p, d, abs
  <2>4. Magnitude(d * p) = Magnitude(d) * p
    BY <1>1, <2>2, ScaledMagnitude
  <2>5. Magnitude(Magnitude(d)) = Magnitude(d) /\ Magnitude(d) \in Int
    BY <1>1 DEF Magnitude
  <2>6. Magnitude(Magnitude(d) * p) = Magnitude(Magnitude(d)) * p
    BY <2>2, <2>5, ScaledMagnitude
  <2> QED
    BY <2>3, <2>4, <2>5, <2>6
<1>6. LowestTerms(a, abs).den = LowestTerms(a, b).den
  <2>1. \A c : LowestTerms(a, c).den = den(c) \div Gcd(Magnitude(num(c)), den(c))
    BY DEF LowestTerms
  <2> HIDE DEF num, den, abs
  <2> QED
    BY <1>4, <1>5, <2>1
<1> HIDE DEF abs
<1> QED
  BY <1>1, <1>2, <1>6 DEF QuotientFits, IsZero, abs

\* QuantizeStepExact answers only with the value itself, and refuses only a value
\* that is no multiple of the step.
LEMMA QuantizeStepExactIsExact ==
    ASSUME NEW v, Valid(v), NEW step, Valid(step), step.coef # 0, QuotientFits(v, step)
    PROVE  LET m == Magnitude(step.coef)
               n == v.coef * Pow10[step.scale]
               d == Pow10[v.scale] * m
           IN  \/ QuantizeStepExact(v, step) = Fail("ErrInexact") /\ ~Divides(d, n)
               \/ \E k \in Int : /\ QuantizeStepExact(v, step) = Ok(Dec(k * m, step.scale))
                                 /\ k * d = n
<1> DEFINE m == Magnitude(step.coef)
           n == v.coef * Pow10[step.scale]
           d == Pow10[v.scale] * m
           abs == Abs(step)
           units == DivExact(v, abs)
           by == step.scale
           result == QuantizeStepExact(v, step)
<1>1. /\ m \in Nat \ {0} /\ n \in Int /\ d \in Int \ {0} /\ abs.coef = m /\ abs.scale = by
      /\ by \in 0 .. MaxScale /\ Valid(abs)
  <2>1. step.coef \in Int /\ v.coef \in Int /\ by \in 0 .. MaxScale
        /\ Pow10[by] \in Int /\ Pow10[v.scale] \in Nat \ {0}
    BY ValidFields
  <2>2. m \in Nat \ {0}
    BY <2>1 DEF Magnitude
  <2>3. abs.coef = m /\ abs.scale = by
    BY DEF Abs, Dec
  <2> HIDE DEF abs, m
  <2> QED
    BY <2>1, <2>2, <2>3 DEF Valid
<1>2. QuotientFits(v, abs) /\ abs.coef # 0
  BY <1>1, FitsUnsigned
<1>3. result = IF units.err # "nil" THEN units
               ELSE IF ~IsInteger(units.val) THEN Fail("ErrInexact")
               ELSE RescaleExact(Mul(units.val, abs), by)
  BY DEF QuantizeStepExact, IsZero
<1>4. \/ units = Fail("ErrInexact") /\ \A s \in 0 .. MaxScale : ~Divides(d, n * Pow10[s])
      \/ \E k \in Int, s \in 0 .. MaxScale :
           units = Ok(Dec(k, s)) /\ k * d = n * Pow10[s] /\ (Divides(d, n) => s = 0)
  <2> HIDE DEF m, abs
  <2> QED
    BY <1>1, <1>2, DivExactIsExact
<1> HIDE DEF m, n, d, abs, units, result
<1>5. CASE units = Fail("ErrInexact") /\ \A s \in 0 .. MaxScale : ~Divides(d, n * Pow10[s])
  <2>1. 0 \in 0 .. MaxScale /\ Pow10[0] = 1 /\ n * 1 = n
    BY <1>1, Table
  <2>2. ~Divides(d, n)
    BY <1>5, <2>1
  <2>3. result = Fail("ErrInexact")
    BY <1>3, <1>5 DEF Fail
  <2> QED
    BY <2>2, <2>3 DEF result, n, d, m
<1>6. CASE \E k \in Int, s \in 0 .. MaxScale :
             units = Ok(Dec(k, s)) /\ k * d = n * Pow10[s] /\ (Divides(d, n) => s = 0)
  <2>1. PICK k \in Int, s \in 0 .. MaxScale :
               units = Ok(Dec(k, s)) /\ k * d = n * Pow10[s] /\ (Divides(d, n) => s = 0)
    BY <1>6
  <2>2. units.err = "nil" /\ units.val = Dec(k, s) /\ units.val.coef = k /\ units.val.scale = s
    BY <2>1 DEF Ok, Dec
  <2> DEFINE T == Pow10[s]
  <2>3. T \in Nat \ {0}
    BY Table
  <2>4. IsInteger(units.val) <=> Divides(T, k)
    <3>1. Magnitude(k) \in Int /\ T \in Int \ {0}
      BY <2>3 DEF Magnitude
    <3>2. Rem(Magnitude(k), T) = 0 <=> Divides(T, Magnitude(k))
      <4> DEFINE u == Magnitude(k)
      <4> HIDE DEF u, T
      <4> QED
        BY <3>1, NoRemainder DEF u
    <3>3. Divides(T, Magnitude(k)) <=> Divides(T, k)
      <4> HIDE DEF T
      <4>1. \A j \in Int : -j \in Int /\ (k = j * T <=> -k = (-j) * T) /\ (-k = j * T <=> k = (-j) * T)
        <5> TAKE j \in Int
        <5>1. (-j) * T = -(j * T) /\ j * T \in Int
          BY <3>1
        <5> QED
          BY <5>1
      <4> QED
        BY <4>1 DEF Divides, Magnitude
    <3>4. k = 0 => Divides(T, k)
      <4> HIDE DEF T
      <4>1. 0 = 0 * T /\ 0 \in Int
        BY <3>1
      <4> QED
        BY <4>1 DEF Divides
    <3> HIDE DEF T
    <3>5. IsInteger(units.val) <=> k = 0 \/ Rem(Magnitude(k), T) = 0
      BY <2>2 DEF IsInteger, IsZero, T
    <3> QED
      BY <3>2, <3>3, <3>4, <3>5
  <2>5. Divides(T, k) <=> Divides(d, n)
    <3> HIDE DEF T
    <3>0. T \in Int \ {0} /\ T \in Int /\ d \in Int /\ n \in Int
      BY <1>1, <2>3
    <3>1. Divides(T * d, k * d) <=> Divides(T, k)
      BY <1>1, <3>0, DividesScaled
    <3>2. Divides(d * T, n * T) <=> Divides(d, n)
      BY <3>0, DividesScaled
    <3>3. T * d = d * T /\ k * d = n * T
      BY <1>1, <2>1, <2>3 DEF T
    <3> QED
      BY <3>1, <3>2, <3>3
  <2>6. CASE ~Divides(d, n)
    <3>1. result = Fail("ErrInexact")
      BY <1>3, <2>2, <2>4, <2>5, <2>6
    <3> QED
      BY <2>6, <3>1 DEF result, n, d, m
  <2>7. CASE Divides(d, n)
    <3>1. s = 0 /\ T = 1
      BY <2>1, <2>7, Table
    <3>2. k * d = n
      <4>1. n * 1 = n
        BY <1>1
      <4> QED
        BY <2>1, <3>1, <4>1
    <3> DEFINE p == Mul(units.val, abs)
               x == k * m
    <3>3. x \in Int
      BY <1>1
    <3>4. p.coef = x /\ p.scale = by
      <4>1. AddScale(0, by) = by
        BY <1>1, WrapScaleFits DEF AddScale
      <4> QED
        BY <1>1, <2>2, <3>1, <4>1 DEF Mul, Dec
    <3> HIDE DEF p, x
    <3>5. RescaleExact(p, by) = Ok(Dec(x, by))
      <4>1. by >= by /\ by - by = 0 /\ ~(by < 0) /\ x * 1 = x
        BY <1>1, <3>3
      <4> QED
        BY <3>4, <4>1, Table DEF RescaleExact
    <3>6. result = Ok(Dec(x, by))
      BY <1>3, <2>2, <2>4, <2>5, <2>7, <3>5 DEF p
    <3> QED
      BY <3>2, <3>6 DEF result, x, n, d, m
  <2> QED
    BY <2>6, <2>7
<1> QED
  BY <1>4, <1>5, <1>6

-----------------------------------------------------------------------------
(* Aligned operands, order and the key. *)

\* align brings both coefficients to the larger scale: these are the units of the
\* contract, and they compare as the cross-multiplied fractions do.
LEMMA AlignedIsCommon ==
    ASSUME NEW a, Valid(a), NEW b, Valid(b)
    PROVE  LET s == LargerScale(a, b)
               x == AlignTo(a, s)
               y == AlignTo(b, s)
           IN  /\ s \in 0 .. MaxScale /\ x \in Int /\ y \in Int
               /\ LargerScale(b, a) = s
               /\ x = Contract!Common(AsFraction(a), AsFraction(b))
               /\ y = Contract!Common(AsFraction(b), AsFraction(a))
               /\ Pow10[s] = IF Pow10[a.scale] >= Pow10[b.scale] THEN Pow10[a.scale] ELSE Pow10[b.scale]
               /\ x <= y <=> a.coef * Pow10[b.scale] <= b.coef * Pow10[a.scale]
               /\ x = y <=> a.coef * Pow10[b.scale] = b.coef * Pow10[a.scale]
<1> DEFINE m == a.coef
           n == b.coef
           i == a.scale
           j == b.scale
           p == Pow10[i]
           q == Pow10[j]
           w == 2 * MaxScale
           s == LargerScale(a, b)
           x == AlignTo(a, s)
           y == AlignTo(b, s)
<1>1. /\ m \in Int /\ n \in Int /\ i \in Nat /\ j \in Nat /\ p \in Nat \ {0} /\ q \in Nat \ {0}
      /\ i \in 0 .. MaxScale /\ j \in 0 .. MaxScale
      /\ w \in Nat /\ i <= w /\ j <= w /\ PowersOfTen(Pow10, w) /\ Pow10[0] = 1
  BY ValidFields, Table
<1>2. /\ Contract!Common(AsFraction(a), AsFraction(b)) = IF p >= q THEN m ELSE m * (q \div p)
      /\ Contract!Common(AsFraction(b), AsFraction(a)) = IF q >= p THEN n ELSE n * (p \div q)
  BY DEF Contract!Common, AsFraction
<1>3. s = (IF i > j THEN i ELSE j) /\ LargerScale(b, a) = (IF j > i THEN j ELSE i)
  BY DEF LargerScale
<1>4. x = m * Pow10[s - i] /\ y = n * Pow10[s - j]
  BY DEF AlignTo
<1> HIDE DEF m, n, i, j, w, s, x, y
<1>5. CASE i = j
  <2>1. s = i /\ LargerScale(b, a) = s /\ s - i = 0 /\ s - j = 0 /\ p = q
    BY <1>1, <1>3, <1>5
  <2>2. m * 1 = m /\ n * 1 = n /\ p >= q /\ q >= p
    BY <1>1, <2>1
  <2>3. x = m /\ y = n
    BY <1>1, <1>4, <2>1, <2>2
  <2> HIDE DEF p, q
  <2>4. /\ m * q <= n * q <=> m <= n
        /\ m * q = n * q <=> m = n
    BY <1>1, ScaledOrder
  <2> QED
    BY <1>1, <1>2, <1>5, <2>1, <2>2, <2>3, <2>4 DEF p, q, m, n, i, j, s, x, y
<1>6. CASE i > j
  <2> DEFINE g == Pow10[i - j]
  <2>1. g \in Nat \ {0} /\ p = q * g /\ q < p /\ p \div q = g
    BY <1>1, <1>6, PowersGrow
  <2>2. s = i /\ LargerScale(b, a) = s /\ s - i = 0
    BY <1>1, <1>3, <1>6
  <2>3. m * 1 = m
    BY <1>1
  <2>4. x = m /\ y = n * g
    BY <1>1, <1>4, <2>2, <2>3
  <2> HIDE DEF p, q, g
  <2>5. y \in Int /\ n * p = y * q
    BY <1>1, <2>1, <2>4
  <2>6. /\ m * q <= y * q <=> m <= y
        /\ m * q = y * q <=> m = y
    BY <1>1, <2>5, ScaledOrder
  <2>7. p >= q /\ ~(q >= p)
    BY <1>1, <2>1
  <2> QED
    BY <1>1, <1>2, <2>1, <2>2, <2>4, <2>5, <2>6, <2>7 DEF p, q, m, n, i, j, s, x, y
<1>7. CASE i < j
  <2> DEFINE g == Pow10[j - i]
  <2>1. g \in Nat \ {0} /\ q = p * g /\ p < q /\ q \div p = g
    BY <1>1, <1>7, PowersGrow
  <2>2. s = j /\ LargerScale(b, a) = s /\ s - j = 0
    BY <1>1, <1>3, <1>7
  <2>3. n * 1 = n
    BY <1>1
  <2>4. y = n /\ x = m * g
    BY <1>1, <1>4, <2>2, <2>3
  <2> HIDE DEF p, q, g
  <2>5. x \in Int /\ m * q = x * p
    BY <1>1, <2>1, <2>4
  <2>6. /\ x * p <= n * p <=> x <= n
        /\ x * p = n * p <=> x = n
    BY <1>1, <2>5, ScaledOrder
  <2>7. q >= p /\ ~(p >= q)
    BY <1>1, <2>1
  <2> QED
    BY <1>1, <1>2, <2>1, <2>2, <2>4, <2>5, <2>6, <2>7 DEF p, q, m, n, i, j, s, x, y
<1> QED
  BY <1>1, <1>5, <1>6, <1>7

\* Two decimals that stand for one number
SameNumber(d, e) == d.coef * Pow10[e.scale] = e.coef * Pow10[d.scale]

LEMMA CmpIsOrder ==
    ASSUME NEW a, Valid(a), NEW b, Valid(b)
    PROVE  /\ Cmp(a, b) > 0 <=> ~(a.coef * Pow10[b.scale] <= b.coef * Pow10[a.scale])
           /\ Cmp(a, b) < 0 <=> ~(b.coef * Pow10[a.scale] <= a.coef * Pow10[b.scale])
           /\ Cmp(a, b) = 0 <=> SameNumber(a, b)
<1> DEFINE s == LargerScale(a, b)
           x == AlignTo(a, s)
           y == AlignTo(b, s)
           l == a.coef * Pow10[b.scale]
           r == b.coef * Pow10[a.scale]
<1>1. x \in Int /\ y \in Int /\ (x <= y <=> l <= r) /\ (x = y <=> l = r)
  BY AlignedIsCommon
<1>2. l \in Int /\ r \in Int
  BY ValidFields
<1>3. Cmp(a, b) = Sign(x - y) /\ (SameNumber(a, b) <=> l = r)
  BY DEF Cmp, SameNumber
<1> HIDE DEF x, y, l, r
<1>4. /\ Cmp(a, b) > 0 <=> ~(x <= y)
      /\ Cmp(a, b) < 0 <=> x <= y /\ x # y
      /\ Cmp(a, b) = 0 <=> x = y
  BY <1>1, <1>3 DEF Sign
<1> QED
  BY <1>1, <1>2, <1>3, <1>4 DEF l, r

\* Numbers are equal to a third one only when they are equal.
LEMMA SameNumberTransitive ==
    ASSUME NEW a, Valid(a), NEW b, Valid(b), NEW c, Valid(c), SameNumber(a, b)
    PROVE  SameNumber(b, a) /\ (SameNumber(b, c) <=> SameNumber(a, c))
<1> DEFINE m == a.coef
           n == b.coef
           k == c.coef
           p == Pow10[a.scale]
           q == Pow10[b.scale]
           r == Pow10[c.scale]
<1>1. /\ m \in Int /\ n \in Int /\ k \in Int
      /\ p \in Nat \ {0} /\ q \in Nat \ {0} /\ r \in Nat \ {0}
  BY ValidFields
<1>2. m * q = n * p
  BY DEF SameNumber
<1> HIDE DEF m, n, k, p, q, r
<1>3. (n * r) * p = (m * r) * q
  <2>1. (n * r) * p = (n * p) * r /\ (m * r) * q = (m * q) * r
    BY <1>1
  <2> QED
    BY <1>2, <2>1
<1>4. n * r = k * q <=> m * r = k * p
  <2> DEFINE x == n * r
             y == k * q
             u == m * r
             v == k * p
  <2>1. x \in Int /\ y \in Int /\ u \in Int /\ v \in Int /\ y * p = v * q
    BY <1>1
  <2> HIDE DEF x, y, u, v
  <2>2. x * p = y * p <=> x = y
    BY <1>1, <2>1, ScaledOrder
  <2>3. u * q = v * q <=> u = v
    BY <1>1, <2>1, ScaledOrder
  <2>4. x * p = u * q
    BY <1>3 DEF x, u
  <2> QED
    BY <2>1, <2>2, <2>3, <2>4 DEF x, y, u, v
<1> QED
  BY <1>2, <1>4 DEF SameNumber, m, n, k, p, q, r

\* No trailing zero can be stripped
Reduced(d) == d.scale = 0 \/ ~Divides(10, d.coef)

\* Normalize keeps the number and leaves nothing to strip.
LEMMA NormalizeIsReduced ==
    ASSUME NEW d, Valid(d)
    PROVE  /\ Normalize(d) = Dec(Normalize(d).coef, Normalize(d).scale)
           /\ Valid(Normalize(d)) /\ SameNumber(Normalize(d), d) /\ Reduced(Normalize(d))
<1> DEFINE c == d.coef
           s == d.scale
           w == 2 * MaxScale
<1>1. c \in Int /\ s \in Nat /\ s <= MaxScale /\ MaxScale <= w /\ w \in Nat /\ PowersOfTen(Pow10, w)
      /\ Pow10[0] = 1 /\ MaxScale \in Nat
  BY ValidFields, Table
<1> HIDE DEF w
<1>2. CASE c = 0
  <2>1. Normalize(d) = Dec(0, 0)
    BY <1>2 DEF Normalize, IsZero, ZeroValue
  <2>2. Dec(0, 0).coef = 0 /\ Dec(0, 0).scale = 0
    BY DEF Dec
  <2>3. Pow10[s] \in Int
    BY ValidFields
  <2>4. SameNumber(Dec(0, 0), d)
    <3> DEFINE t == Pow10[s]
    <3> HIDE DEF t
    <3>1. 0 * t = 0 /\ 0 * 1 = 0
      BY <2>3 DEF t
    <3> QED
      BY <1>1, <1>2, <2>2, <3>1 DEF SameNumber, t
  <2>5. Valid(Dec(0, 0)) /\ Reduced(Dec(0, 0))
    BY <1>1, <2>2 DEF Valid, Reduced
  <2> QED
    BY <2>1, <2>2, <2>4, <2>5
<1>3. CASE c # 0
  <2> DEFINE S == {k \in 0 .. s : Rem(c, Pow10[k]) = 0}
             n == Max(S)
  <2>1. \A k \in 0 .. s : /\ Pow10[k] \in Nat \ {0}
                          /\ k \in S <=> Divides(Pow10[k], c)
                          /\ k \in S => c = Quo(c, Pow10[k]) * Pow10[k] /\ Quo(c, Pow10[k]) \in Int
    <3> TAKE k \in 0 .. s
    <3>1. Pow10[k] \in Nat \ {0} /\ Pow10[k] \in Int \ {0}
      BY <1>1 DEF PowersOfTen
    <3> DEFINE t == Pow10[k]
    <3>2. k \in S <=> Rem(c, t) = 0
      OBVIOUS
    <3> HIDE DEF t, c, S
    <3>3. /\ Rem(c, t) = 0 <=> Divides(t, c)
          /\ Rem(c, t) = 0 => c = Quo(c, t) * t
          /\ Quo(c, t) \in Int
      BY <1>1, <3>1, NoRemainder DEF t
    <3> QED
      BY <3>1, <3>2, <3>3 DEF t
  <2>2. 0 \in S
    <3>1. c = c * 1 /\ 0 \in 0 .. s
      BY <1>1
    <3>2. Divides(1, c)
      BY <1>1, <3>1 DEF Divides
    <3> QED
      BY <1>1, <2>1, <3>1, <3>2
  <2>3. n \in S /\ \A k \in S : n >= k
    <3> DEFINE gaps == {s - k : k \in S}
    <3>1. gaps \in SUBSET Nat /\ gaps # {}
      BY <1>1, <2>2
    <3>2. PICK g \in gaps : \A h \in gaps : g <= h
      <4> HIDE DEF gaps
      <4> QED
        BY <3>1, LeastNumber
    <3>3. PICK b \in S : g = s - b
      BY <3>2
    <3>4. \A k \in S : b >= k
      <4> TAKE k \in S
      <4>1. s - k \in gaps
        OBVIOUS
      <4>2. k \in Nat /\ b \in Nat
        OBVIOUS
      <4> QED
        BY <1>1, <3>2, <3>3, <4>1, <4>2
    <3> HIDE DEF S
    <3> QED
      BY <3>4 DEF Max
  <2>4. Normalize(d) = Dec(Quo(c, Pow10[n]), s - n)
    BY <1>3 DEF Normalize, IsZero
  <2> DEFINE q == Quo(c, Pow10[n])
             t == s - n
  <2>5. n \in Nat /\ n <= s
    BY <2>3
  <2> HIDE DEF n, S
  <2>6. q \in Int /\ c = q * Pow10[n] /\ t \in Nat /\ t <= s
    BY <1>1, <2>1, <2>3, <2>5
  <2> HIDE DEF q
  <2>7. Pow10[s] = Pow10[n] * Pow10[t] /\ Pow10[n] \in Nat \ {0} /\ Pow10[t] \in Nat \ {0}
    <3>1. PowersOfTen(Pow10, w) /\ w \in Nat /\ n \in Nat /\ s \in Nat /\ n <= s /\ s <= w
      BY <1>1, <2>5
    <3> HIDE DEF s, t, c
    <3>2. /\ Pow10[n] \in Nat \ {0} /\ Pow10[s - n] \in Nat \ {0}
          /\ Pow10[s] = Pow10[n] * Pow10[s - n]
      BY <3>1, PowersGrow
    <3> QED
      BY <3>2 DEF t
  <2>8. SameNumber(Dec(q, t), d)
    <3> DEFINE x == Pow10[n]
               y == Pow10[t]
    <3>1. x \in Int /\ y \in Int
      BY <2>7
    <3> HIDE DEF x, y
    <3>2. q * (x * y) = (q * x) * y
      BY <2>6, <3>1
    <3>3. Dec(q, t).coef = q /\ Dec(q, t).scale = t
      BY DEF Dec
    <3> QED
      BY <2>6, <2>7, <3>2, <3>3 DEF SameNumber, x, y, c, s
  <2>9. ASSUME t # 0, Divides(10, q) PROVE FALSE
    <3>1. n + 1 \in 0 .. s /\ n + 1 \in Nat /\ n + 1 <= w /\ n + 1 > n
      BY <1>1, <2>5, <2>6, <2>9
    <3>2. Pow10[n + 1] = 10 * Pow10[n]
      BY <1>1, <2>5, <3>1, PowerStep
    <3>3. PICK k \in Int : q = k * 10
      BY <2>9 DEF Divides
    <3>4. c = k * Pow10[n + 1]
      <4> DEFINE x == Pow10[n]
      <4>1. x \in Int
        BY <2>7
      <4> HIDE DEF x
      <4>2. (k * 10) * x = k * (10 * x)
        BY <4>1
      <4> QED
        BY <2>6, <3>2, <3>3, <4>2 DEF x
    <3>5. n + 1 \in S
      <4>1. Divides(Pow10[n + 1], c)
        BY <3>4 DEF Divides
      <4> QED
        BY <2>1, <3>1, <4>1
    <3>6. n >= n + 1
      BY <2>3, <3>5
    <3> QED
      BY <2>5, <3>6
  <2>10. Dec(q, t).coef = q /\ Dec(q, t).scale = t
    BY DEF Dec
  <2>11. Valid(Dec(q, t)) /\ Reduced(Dec(q, t))
    <3> HIDE DEF t
    <3> QED
      BY <1>1, <2>6, <2>9, <2>10 DEF Valid, Reduced
  <2> QED
    BY <2>4, <2>8, <2>10, <2>11 DEF q
<1> QED
  BY <1>2, <1>3

\* A number has one reduced decimal.
LEMMA ReducedIsUnique ==
    ASSUME NEW a, Valid(a), NEW b, Valid(b), SameNumber(a, b), Reduced(a), Reduced(b)
    PROVE  a.coef = b.coef /\ a.scale = b.scale
<1>1. ASSUME NEW x, Valid(x), NEW y, Valid(y), SameNumber(x, y), Reduced(y), x.scale < y.scale
      PROVE  FALSE
  <2> DEFINE m == x.coef
             n == y.coef
             i == x.scale
             j == y.scale
             w == 2 * MaxScale
             p == Pow10[i]
  <2>1. m \in Int /\ n \in Int /\ i \in Nat /\ j \in Nat /\ j <= w /\ i < j /\ w \in Nat
        /\ PowersOfTen(Pow10, w)
    BY <1>1, ValidFields, Table
  <2>2. m * Pow10[j] = n * p
    BY <1>1 DEF SameNumber
  <2> HIDE DEF m, n, i, j, w, p
  <2> DEFINE e == j - i - 1
             g == Pow10[e]
  <2>3. Pow10[j] = p * Pow10[j - i] /\ p \in Nat \ {0}
    <3>1. i <= j
      BY <2>1
    <3> QED
      BY <2>1, <3>1, PowersGrow DEF p
  <2>4. g \in Nat \ {0} /\ Pow10[j - i] = 10 * g
    <3>1. e \in Nat /\ e + 1 <= w /\ e + 1 = j - i
      BY <2>1
    <3> HIDE DEF e
    <3> QED
      BY <2>1, <3>1, PowerStep
  <2> HIDE DEF g
  <2>5. (m * g) * 10 = n
    <3> DEFINE z == (m * g) * 10
    <3>1. z \in Int /\ m * (p * (10 * g)) = z * p
      BY <2>1, <2>3, <2>4
    <3> HIDE DEF z
    <3>2. z * p = n * p
      BY <2>2, <2>3, <2>4, <3>1
    <3>3. z = n
      BY <2>1, <2>3, <3>1, <3>2, ScaledOrder
    <3> QED
      BY <3>3 DEF z
  <2>6. Divides(10, n)
    <3>1. m * g \in Int
      BY <2>1, <2>4
    <3> QED
      BY <2>5, <3>1 DEF Divides
  <2>7. j # 0
    BY <2>1
  <2> QED
    BY <1>1, <2>6, <2>7 DEF Reduced, n, j
<1>2. SameNumber(b, a)
  BY DEF SameNumber
<1>3. a.scale = b.scale
  <2>1. a.scale \in Nat /\ b.scale \in Nat
    BY ValidFields
  <2>2. ~(a.scale < b.scale) /\ ~(b.scale < a.scale)
    BY <1>1, <1>2
  <2> QED
    BY <2>1, <2>2
<1>4. a.coef = b.coef
  <2> DEFINE m == a.coef
             n == b.coef
             p == Pow10[a.scale]
  <2>1. m \in Int /\ n \in Int /\ p \in Int /\ p > 0 /\ m * p = n * p
    BY <1>3, ValidFields DEF SameNumber
  <2> HIDE DEF m, n, p
  <2>2. m = n
    BY <2>1, ScaledOrder
  <2> QED
    BY <2>2 DEF m, n
<1> QED
  BY <1>3, <1>4

\* decimal.go Key: decimals have the same key exactly when Cmp calls them equal.
LEMMA KeyIsNumber ==
    ASSUME NEW a, Valid(a), NEW b, Valid(b)
    PROVE  Normalize(a) = Normalize(b) <=> Cmp(a, b) = 0
<1> DEFINE x == Normalize(a)
           y == Normalize(b)
<1>1. /\ x = Dec(x.coef, x.scale) /\ Valid(x) /\ SameNumber(x, a) /\ Reduced(x)
      /\ y = Dec(y.coef, y.scale) /\ Valid(y) /\ SameNumber(y, b) /\ Reduced(y)
  BY NormalizeIsReduced
<1>2. Cmp(a, b) = 0 <=> SameNumber(a, b)
  BY CmpIsOrder
<1> HIDE DEF x, y
<1>3. SameNumber(a, b) <=> SameNumber(x, b)
  BY <1>1, SameNumberTransitive
<1>4. SameNumber(x, b) <=> SameNumber(x, y)
  <2>1. SameNumber(b, y) /\ (SameNumber(y, x) <=> SameNumber(b, x))
    BY <1>1, SameNumberTransitive
  <2>2. (SameNumber(x, b) <=> SameNumber(b, x)) /\ (SameNumber(x, y) <=> SameNumber(y, x))
    BY DEF SameNumber
  <2> QED
    BY <2>1, <2>2
<1>5. SameNumber(x, y) <=> x = y
  <2>1. x = y => SameNumber(x, y)
    BY DEF SameNumber
  <2>2. SameNumber(x, y) => x = y
    BY <1>1, ReducedIsUnique
  <2> QED
    BY <2>1, <2>2
<1> QED
  BY <1>2, <1>3, <1>4, <1>5 DEF x, y

-----------------------------------------------------------------------------
(* The type invariant. *)

CallOps == {"Neg", "Abs", "Normalize", "Add", "Sub", "Mul", "Min", "Max", "DivExact",
            "QuantizeStepExact", "Rescale", "RescaleExact", "Div", "QuantizeStep"}
Unrounded == CallOps \ {"Rescale", "Div", "QuantizeStep"}
CallArgs == Operands \cup {ZeroValue}
CallScales == {s \in Int : s <= MaxScale}
CallModes == Modes \cup {"TowardZero"}
CallRecords == [op : CallOps, arg : CallArgs, scale : CallScales, mode : CallModes]

LEMMA CallsAreRecords == Calls \subseteq CallRecords
<1>1. 0 \in CallScales /\ Scales \subseteq CallScales
  BY Table, OperandsAssumption DEF CallScales
<1>2. \A ops, args, scales, modes :
        ops \subseteq CallOps /\ args \subseteq CallArgs /\ scales \subseteq CallScales /\ modes \subseteq CallModes
          => Call(ops, args, scales, modes) \subseteq CallRecords
  BY DEF Call, CallRecords
<1>3. /\ {"Neg", "Abs", "Normalize"} \subseteq CallOps
      /\ {"Add", "Sub", "Mul", "Min", "Max", "DivExact", "QuantizeStepExact"} \subseteq CallOps
      /\ {"Rescale"} \subseteq CallOps /\ {"RescaleExact"} \subseteq CallOps
      /\ {"Div"} \subseteq CallOps /\ {"QuantizeStep"} \subseteq CallOps
  BY DEF CallOps
<1>4. /\ {ZeroValue} \subseteq CallArgs /\ Operands \subseteq CallArgs /\ {0} \subseteq CallScales
      /\ {"TowardZero"} \subseteq CallModes /\ Modes \subseteq CallModes
  BY <1>1 DEF CallArgs, CallModes
<1>5. /\ Call({"Neg", "Abs", "Normalize"}, {ZeroValue}, {0}, {"TowardZero"}) \subseteq CallRecords
      /\ Call({"Add", "Sub", "Mul", "Min", "Max", "DivExact", "QuantizeStepExact"},
              Operands, {0}, {"TowardZero"}) \subseteq CallRecords
      /\ Call({"Rescale"}, {ZeroValue}, Scales, Modes) \subseteq CallRecords
      /\ Call({"RescaleExact"}, {ZeroValue}, Scales, {"TowardZero"}) \subseteq CallRecords
      /\ Call({"Div"}, Operands, Scales, Modes) \subseteq CallRecords
      /\ Call({"QuantizeStep"}, Operands, {0}, Modes) \subseteq CallRecords
  BY <1>1, <1>2, <1>3, <1>4
<1> QED
  BY <1>5 DEF Calls

\* What a call carries: a mode of its own only when it rounds
LEMMA CallFields ==
    ASSUME NEW c \in Calls
    PROVE  /\ c \in CallRecords /\ c.op \in CallOps /\ c # NoCall
           /\ Valid(c.arg) /\ c.scale \in Int /\ c.scale <= MaxScale
           /\ c.op \in Unrounded => c.mode = "TowardZero"
<1>1. c \in CallRecords /\ c.op \in CallOps /\ c.arg \in Operands \cup {ZeroValue}
      /\ c.scale \in Int /\ c.scale <= MaxScale
  BY CallsAreRecords DEF CallRecords, CallArgs, CallScales
<1>2. Valid(c.arg)
  <2>1. Valid(ZeroValue)
    BY Table DEF Valid, ZeroValue, Dec
  <2>2. \A d \in Operands : Valid(d)
    BY OperandsAssumption DEF Valid
  <2> QED
    BY <1>1, <2>1, <2>2
<1>3. c # NoCall
  BY <1>1 DEF NoCall, CallOps
<1>4. ASSUME c.op \in Unrounded PROVE c.mode = "TowardZero"
  <2>1. c.op \notin {"Rescale", "Div", "QuantizeStep"}
    BY <1>4 DEF Unrounded
  <2>2. \A ops, args, scales, modes :
          c \in Call(ops, args, scales, modes) => c.op \in ops /\ c.mode \in modes
    BY DEF Call
  <2>3. \/ c \in Call({"Neg", "Abs", "Normalize"}, {ZeroValue}, {0}, {"TowardZero"})
        \/ c \in Call({"Add", "Sub", "Mul", "Min", "Max", "DivExact", "QuantizeStepExact"},
                      Operands, {0}, {"TowardZero"})
        \/ c \in Call({"Rescale"}, {ZeroValue}, Scales, Modes)
        \/ c \in Call({"RescaleExact"}, {ZeroValue}, Scales, {"TowardZero"})
        \/ c \in Call({"Div"}, Operands, Scales, Modes)
        \/ c \in Call({"QuantizeStep"}, Operands, {0}, Modes)
    BY DEF Calls
  <2>4. CASE \/ c \in Call({"Neg", "Abs", "Normalize"}, {ZeroValue}, {0}, {"TowardZero"})
             \/ c \in Call({"Add", "Sub", "Mul", "Min", "Max", "DivExact", "QuantizeStepExact"},
                           Operands, {0}, {"TowardZero"})
             \/ c \in Call({"RescaleExact"}, {ZeroValue}, Scales, {"TowardZero"})
    BY <2>2, <2>4
  <2>5. CASE \/ c \in Call({"Rescale"}, {ZeroValue}, Scales, Modes)
             \/ c \in Call({"Div"}, Operands, Scales, Modes)
             \/ c \in Call({"QuantizeStep"}, Operands, {0}, Modes)
    <3>1. c.op \in {"Rescale"} \/ c.op \in {"Div"} \/ c.op \in {"QuantizeStep"}
      BY <2>2, <2>5
    <3> QED
      BY <2>1, <3>1
  <2> QED
    BY <2>3, <2>4, <2>5
<1> QED
  BY <1>1, <1>2, <1>3, <1>4

Errors == {"nil", "ErrDivisionByZero", "ErrInexact", "ErrInvalidScale", "ErrInvalidRoundingMode"}

\* A result a caller may be given
Returnable(result) ==
    /\ result.err \in Errors
    /\ result.err = "nil" => Valid(result.val)

LEMMA ResultsAreReturnable ==
    /\ \A e \in Errors \ {"nil"} : Returnable(Fail(e))
    /\ \A d : Valid(d) => Returnable(Ok(d))
    /\ \A k \in Int : \A s \in 0 .. MaxScale : Valid(Dec(k, s)) /\ Returnable(Ok(Dec(k, s)))
<1>1. \A e \in Errors \ {"nil"} : Returnable(Fail(e))
  BY DEF Returnable, Fail
<1>2. \A d : Valid(d) => Returnable(Ok(d))
  BY DEF Returnable, Ok, Errors
<1>3. \A k \in Int : \A s \in 0 .. MaxScale : Valid(Dec(k, s))
  BY DEF Valid, Dec
<1> QED
  BY <1>1, <1>2, <1>3

\* Mul adds two scales that are one scale together.
LEMMA MulIsProduct ==
    ASSUME NEW a, Valid(a), NEW b, Valid(b), a.scale + b.scale <= MaxScale
    PROVE  /\ Mul(a, b) = Dec(a.coef * b.coef, a.scale + b.scale)
           /\ a.coef * b.coef \in Int /\ a.scale + b.scale \in 0 .. MaxScale
<1>1. a.scale + b.scale \in 0 .. MaxScale /\ a.coef * b.coef \in Int
  BY ValidFields
<1>2. AddScale(a.scale, b.scale) = a.scale + b.scale
  BY <1>1, WrapScaleFits DEF AddScale
<1> QED
  BY <1>1, <1>2 DEF Mul

\* Whatever a call is given, while its scale and its counts are int32s
LEMMA OperationsAreReturnable ==
    ASSUME NEW a, Valid(a), NEW b, Valid(b), NEW scale \in Int, scale <= MaxScale, NEW mode
    PROVE  /\ Returnable(Ok(Neg(a))) /\ Returnable(Ok(Abs(a))) /\ Returnable(Ok(Normalize(a)))
           /\ Returnable(Ok(Add(a, b))) /\ Returnable(Ok(Sub(a, b)))
           /\ a.scale + b.scale <= MaxScale => Returnable(Ok(Mul(a, b)))
           /\ Returnable(Ok(MinOf(a, b))) /\ Returnable(Ok(MaxOf(a, b)))
           /\ Returnable(Div(a, b, scale, mode))
           /\ Returnable(Rescale(a, scale, mode)) /\ Returnable(RescaleExact(a, scale))
           /\ Returnable(QuantizeStep(a, b, mode))
           /\ QuotientFits(a, b) => Returnable(DivExact(a, b)) /\ Returnable(QuantizeStepExact(a, b))
<1>1. /\ a.coef \in Int /\ a.scale \in 0 .. MaxScale /\ b.coef \in Int /\ b.scale \in 0 .. MaxScale
      /\ scale >= 0 => scale \in 0 .. MaxScale
  BY ValidFields, Table
<1>2. /\ Returnable(Fail("ErrDivisionByZero")) /\ Returnable(Fail("ErrInexact"))
      /\ Returnable(Fail("ErrInvalidScale")) /\ Returnable(Fail("ErrInvalidRoundingMode"))
  BY ResultsAreReturnable DEF Errors
<1>3. Returnable(Ok(Neg(a))) /\ Returnable(Ok(Abs(a)))
  <2>1. -a.coef \in Int /\ Magnitude(a.coef) \in Int
    BY <1>1 DEF Magnitude
  <2> QED
    BY <1>1, <2>1, ResultsAreReturnable DEF Neg, Abs
<1>4. Returnable(Ok(Normalize(a)))
  BY NormalizeIsReduced, ResultsAreReturnable
<1>5. Returnable(Ok(Add(a, b))) /\ Returnable(Ok(Sub(a, b)))
  <2> DEFINE s == LargerScale(a, b)
             x == AlignTo(a, s)
             y == AlignTo(b, s)
  <2>1. s \in 0 .. MaxScale /\ x \in Int /\ y \in Int
    BY AlignedIsCommon
  <2>2. Add(a, b) = Dec(x + y, s) /\ Sub(a, b) = Dec(x - y, s)
    BY DEF Add, Sub
  <2> HIDE DEF s, x, y
  <2>3. x + y \in Int /\ x - y \in Int
    BY <2>1
  <2> QED
    BY <2>1, <2>2, <2>3, ResultsAreReturnable
<1>6. a.scale + b.scale <= MaxScale => Returnable(Ok(Mul(a, b)))
  BY MulIsProduct, ResultsAreReturnable
<1>7. Returnable(Ok(MinOf(a, b))) /\ Returnable(Ok(MaxOf(a, b)))
  BY ResultsAreReturnable DEF MinOf, MaxOf
<1>8. Returnable(Div(a, b, scale, mode))
  BY <1>1, <1>2, DivIsRounded, ResultsAreReturnable
<1>9. Returnable(Rescale(a, scale, mode))
  BY <1>1, <1>2, RescaleIsRounded, ResultsAreReturnable
<1>10. Returnable(RescaleExact(a, scale))
  <2>1. CASE scale < 0
    BY <1>2, <2>1, RescaleExactIsExact
  <2>2. CASE scale >= 0
    <3>1. \/ RescaleExact(a, scale) = Fail("ErrInexact")
          \/ \E k \in Int : RescaleExact(a, scale) = Ok(Dec(k, scale))
      BY <2>2, RescaleExactIsExact
    <3> QED
      BY <1>1, <1>2, <2>2, <3>1, ResultsAreReturnable
  <2> QED
    BY <2>1, <2>2
<1>11. Returnable(QuantizeStep(a, b, mode))
  <2> DEFINE m == Magnitude(b.coef)
             k == Quotient(a.coef, a.scale, m, b.scale, 0, mode)
  <2>1. /\ QuantizeStep(a, b, mode)
             = IF b.coef = 0 THEN Fail("ErrDivisionByZero")
               ELSE IF mode \notin RoundingModes THEN Fail("ErrInvalidRoundingMode")
               ELSE Ok(Dec(k * m, b.scale))
        /\ b.coef # 0 /\ mode \in RoundingModes => k \in Int /\ m \in Int
    BY QuantizeStepIsRounded
  <2> HIDE DEF k, m
  <2>2. b.coef # 0 /\ mode \in RoundingModes => k * m \in Int
    BY <2>1
  <2> QED
    BY <1>1, <1>2, <2>1, <2>2, ResultsAreReturnable
<1>12. ASSUME QuotientFits(a, b) PROVE Returnable(DivExact(a, b)) /\ Returnable(QuantizeStepExact(a, b))
  <2>1. CASE b.coef = 0
    BY <1>2, <2>1 DEF DivExact, QuantizeStepExact, IsZero
  <2>2. CASE b.coef # 0
    <3>1. \/ DivExact(a, b) = Fail("ErrInexact")
          \/ \E k \in Int, s \in 0 .. MaxScale : DivExact(a, b) = Ok(Dec(k, s))
      BY <1>12, <2>2, DivExactIsExact
    <3>2. \/ QuantizeStepExact(a, b) = Fail("ErrInexact")
          \/ \E k \in Int : QuantizeStepExact(a, b) = Ok(Dec(k * Magnitude(b.coef), b.scale))
      BY <1>12, <2>2, QuantizeStepExactIsExact
    <3>3. \A k \in Int : k * Magnitude(b.coef) \in Int
      <4>1. Magnitude(b.coef) \in Int
        BY <1>1 DEF Magnitude
      <4> QED
        BY <4>1
    <3>4. Returnable(DivExact(a, b))
      BY <1>2, <3>1, ResultsAreReturnable
    <3>5. Returnable(QuantizeStepExact(a, b))
      BY <1>1, <1>2, <3>2, <3>3, ResultsAreReturnable
    <3> QED
      BY <3>4, <3>5
  <2> QED
    BY <2>1, <2>2
<1> QED
  BY <1>3, <1>4, <1>5, <1>6, <1>7, <1>8, <1>9, <1>10, <1>11, <1>12

\* The call that is pending was made while its results fit.
PendingFits == call # NoCall => ProductFits(call) /\ CallFits(call)

Inv == TypeOK /\ PendingFits

LEMMA InvFields ==
    ASSUME Inv
    PROVE  /\ Valid(acc) /\ acc.scale \in Nat
           /\ call = NoCall \/ call \in Calls
           /\ call \in Calls => /\ Valid(call.arg) /\ call.op \in CallOps
                                /\ call.scale \in Int /\ call.scale <= MaxScale
                                /\ call.op = "Mul" => acc.scale + call.arg.scale <= MaxScale
                                /\ call.op \in {"DivExact", "QuantizeStepExact"} => QuotientFits(acc, call.arg)
<1>1. Valid(acc) /\ (call = NoCall \/ call \in Calls)
  BY DEF Inv, TypeOK, Valid
<1>2. ASSUME call \in Calls
      PROVE  /\ Valid(call.arg) /\ call.op \in CallOps
             /\ call.scale \in Int /\ call.scale <= MaxScale
             /\ call.op = "Mul" => acc.scale + call.arg.scale <= MaxScale
             /\ call.op \in {"DivExact", "QuantizeStepExact"} => QuotientFits(acc, call.arg)
  <2>1. call # NoCall /\ Valid(call.arg) /\ call.op \in CallOps /\ call.scale \in Int /\ call.scale <= MaxScale
    BY <1>2, CallFields
  <2>2. ProductFits(call) /\ CallFits(call)
    BY <2>1 DEF Inv, PendingFits
  <2> QED
    BY <2>1, <2>2 DEF ProductFits, CallFits
<1> QED
  BY <1>1, <1>2, ValidFields

\* A call that returned
Returned(result) ==
    /\ acc' = IF result.err = "nil" THEN result.val ELSE acc
    /\ err' = result.err
    /\ call' = NoCall

LEMMA ReturnAnswersCall ==
    ASSUME Inv, NEW op \in CallOps, NEW result, Return(op, result)
    PROVE  call \in Calls /\ call.op = op /\ Returned(result)
<1>1. call.op = op /\ Returned(result)
  BY DEF Return, Returned
<1>2. op # "none"
  BY DEF CallOps
<1>3. call # NoCall
  BY <1>1, <1>2 DEF NoCall
<1> QED
  BY <1>1, <1>3, InvFields

\* The calls of a caller, one action at a time: what each returns
LEMMA EachCallReturns ==
    ASSUME Inv, Next
    PROVE  \/ /\ call = NoCall /\ err' = "nil"
              /\ \/ call' = call /\ Valid(acc')
                 \/ /\ acc' = acc /\ call' \in Calls
                    /\ ProductFits(call') /\ CallFits(call')
           \/ \E result : Returnable(result) /\ Returned(result)
<1>1. CASE Load
  BY <1>1, OperandsAssumption DEF Load, Valid
<1>2. CASE \E c \in Calls : ProductFits(c) /\ CallFits(c) /\ Request(c)
  BY <1>2 DEF Request
<1>3. ASSUME NEW op \in CallOps, NEW result, Return(op, result)
      PROVE  /\ Valid(acc) /\ Valid(call.arg)
             /\ call.scale \in Int /\ call.scale <= MaxScale
             /\ op = "Mul" => acc.scale + call.arg.scale <= MaxScale
             /\ op \in {"DivExact", "QuantizeStepExact"} => QuotientFits(acc, call.arg)
             /\ Returned(result)
  BY <1>3, ReturnAnswersCall, InvFields
<1>4. CASE DoAdd
  <2>1. "Add" \in CallOps /\ Return("Add", Ok(Add(acc, call.arg)))
    BY <1>4 DEF DoAdd, CallOps
  <2>2. Returned(Ok(Add(acc, call.arg))) /\ Returnable(Ok(Add(acc, call.arg)))
    BY <2>1, <1>3, OperationsAreReturnable
  <2> QED
    BY <2>2
<1>5. CASE DoSub
  <2>1. "Sub" \in CallOps /\ Return("Sub", Ok(Sub(acc, call.arg)))
    BY <1>5 DEF DoSub, CallOps
  <2>2. Returned(Ok(Sub(acc, call.arg))) /\ Returnable(Ok(Sub(acc, call.arg)))
    BY <2>1, <1>3, OperationsAreReturnable
  <2> QED
    BY <2>2
<1>6. CASE DoMul
  <2>1. "Mul" \in CallOps /\ Return("Mul", Ok(Mul(acc, call.arg)))
    BY <1>6 DEF DoMul, CallOps
  <2>2. Returned(Ok(Mul(acc, call.arg))) /\ Returnable(Ok(Mul(acc, call.arg)))
    BY <2>1, <1>3, OperationsAreReturnable
  <2> QED
    BY <2>2
<1>7. CASE DoNeg
  <2>1. "Neg" \in CallOps /\ Return("Neg", Ok(Neg(acc)))
    BY <1>7 DEF DoNeg, CallOps
  <2>2. Returned(Ok(Neg(acc))) /\ Returnable(Ok(Neg(acc)))
    BY <2>1, <1>3, OperationsAreReturnable
  <2> QED
    BY <2>2
<1>8. CASE DoAbs
  <2>1. "Abs" \in CallOps /\ Return("Abs", Ok(Abs(acc)))
    BY <1>8 DEF DoAbs, CallOps
  <2>2. Returned(Ok(Abs(acc))) /\ Returnable(Ok(Abs(acc)))
    BY <2>1, <1>3, OperationsAreReturnable
  <2> QED
    BY <2>2
<1>9. CASE DoMin
  <2>1. "Min" \in CallOps /\ Return("Min", Ok(MinOf(acc, call.arg)))
    BY <1>9 DEF DoMin, CallOps
  <2>2. Returned(Ok(MinOf(acc, call.arg))) /\ Returnable(Ok(MinOf(acc, call.arg)))
    BY <2>1, <1>3, OperationsAreReturnable
  <2> QED
    BY <2>2
<1>10. CASE DoMax
  <2>1. "Max" \in CallOps /\ Return("Max", Ok(MaxOf(acc, call.arg)))
    BY <1>10 DEF DoMax, CallOps
  <2>2. Returned(Ok(MaxOf(acc, call.arg))) /\ Returnable(Ok(MaxOf(acc, call.arg)))
    BY <2>1, <1>3, OperationsAreReturnable
  <2> QED
    BY <2>2
<1>11. CASE DoNormalize
  <2>1. "Normalize" \in CallOps /\ Return("Normalize", Ok(Normalize(acc)))
    BY <1>11 DEF DoNormalize, CallOps
  <2>2. Returned(Ok(Normalize(acc))) /\ Returnable(Ok(Normalize(acc)))
    BY <2>1, <1>3, OperationsAreReturnable
  <2> QED
    BY <2>2
<1>12. CASE DoDiv
  <2>1. "Div" \in CallOps /\ Return("Div", Div(acc, call.arg, call.scale, call.mode))
    BY <1>12 DEF DoDiv, CallOps
  <2>2. Returned(Div(acc, call.arg, call.scale, call.mode)) /\ Returnable(Div(acc, call.arg, call.scale, call.mode))
    BY <2>1, <1>3, OperationsAreReturnable
  <2> QED
    BY <2>2
<1>13. CASE DoDivExact
  <2>1. "DivExact" \in CallOps /\ Return("DivExact", DivExact(acc, call.arg))
    BY <1>13 DEF DoDivExact, CallOps
  <2>2. Returned(DivExact(acc, call.arg)) /\ Returnable(DivExact(acc, call.arg))
    BY <2>1, <1>3, OperationsAreReturnable
  <2> QED
    BY <2>2
<1>14. CASE DoRescale
  <2>1. "Rescale" \in CallOps /\ Return("Rescale", Rescale(acc, call.scale, call.mode))
    BY <1>14 DEF DoRescale, CallOps
  <2>2. Returned(Rescale(acc, call.scale, call.mode)) /\ Returnable(Rescale(acc, call.scale, call.mode))
    BY <2>1, <1>3, OperationsAreReturnable
  <2> QED
    BY <2>2
<1>15. CASE DoRescaleExact
  <2>1. "RescaleExact" \in CallOps /\ Return("RescaleExact", RescaleExact(acc, call.scale))
    BY <1>15 DEF DoRescaleExact, CallOps
  <2>2. Returned(RescaleExact(acc, call.scale)) /\ Returnable(RescaleExact(acc, call.scale))
    BY <2>1, <1>3, OperationsAreReturnable
  <2> QED
    BY <2>2
<1>16. CASE DoQuantizeStep
  <2>1. "QuantizeStep" \in CallOps /\ Return("QuantizeStep", QuantizeStep(acc, call.arg, call.mode))
    BY <1>16 DEF DoQuantizeStep, CallOps
  <2>2. Returned(QuantizeStep(acc, call.arg, call.mode)) /\ Returnable(QuantizeStep(acc, call.arg, call.mode))
    BY <2>1, <1>3, OperationsAreReturnable
  <2> QED
    BY <2>2
<1>17. CASE DoQuantizeStepExact
  <2>1. "QuantizeStepExact" \in CallOps /\ Return("QuantizeStepExact", QuantizeStepExact(acc, call.arg))
    BY <1>17 DEF DoQuantizeStepExact, CallOps
  <2>2. Returned(QuantizeStepExact(acc, call.arg)) /\ Returnable(QuantizeStepExact(acc, call.arg))
    BY <2>1, <1>3, OperationsAreReturnable
  <2> QED
    BY <2>2
<1> QED
  BY <1>1, <1>2, <1>4, <1>5, <1>6, <1>7, <1>8, <1>9, <1>10, <1>11, <1>12, <1>13, <1>14,
     <1>15, <1>16, <1>17 DEF Next, Returns

LEMMA InvIsInductive == Spec => []Inv
<1>1. Init => Inv
  BY OperandsAssumption DEF Init, Inv, TypeOK, PendingFits
<1>2. Inv /\ [Next]_vars => Inv'
  <2>1. CASE UNCHANGED vars
    BY <2>1 DEF vars, Inv, TypeOK, PendingFits, ProductFits, CallFits
  <2>2. ASSUME Inv, Next PROVE Inv'
    <3>1. Valid(acc) /\ call \in Calls \cup {NoCall}
      BY <2>2, InvFields
    <3>2. CASE /\ call = NoCall /\ err' = "nil"
               /\ \/ call' = call /\ Valid(acc')
                  \/ acc' = acc /\ call' \in Calls /\ ProductFits(call') /\ CallFits(call')
      <4>1. TypeOK'
        BY <3>1, <3>2 DEF TypeOK, Valid
      <4>2. PendingFits'
        BY <3>2 DEF PendingFits, ProductFits, CallFits
      <4> QED
        BY <4>1, <4>2 DEF Inv
    <3>3. CASE \E result : Returnable(result) /\ Returned(result)
      <4>1. call' = NoCall /\ err' \in Errors /\ Valid(acc')
        BY <3>1, <3>3 DEF Returnable, Returned
      <4> QED
        BY <4>1 DEF Inv, TypeOK, PendingFits, Valid, Errors
    <3> QED
      BY <2>2, <3>2, <3>3, EachCallReturns
  <2> QED
    BY <2>1, <2>2
<1> QED
  BY <1>1, <1>2, PTL DEF Spec

\* decimal.go: no chain of calls whose products fit an int32 scale leaves a value
\* with a scale below zero or above the largest int32.
THEOREM DecimalTypeCorrect == Spec => []TypeOK
<1>1. Inv => TypeOK
  BY DEF Inv
<1> QED
  BY <1>1, InvIsInductive, PTL

\* decimal.go Key and Cmp: whatever the scales a chain of calls leaves, two
\* decimals have one key exactly when they compare equal.
THEOREM KeyCorrect == Spec => []KeyAgreesWithCmp
<1>1. Inv => KeyAgreesWithCmp
  <2> SUFFICES ASSUME Inv, NEW d \in Operands PROVE Normalize(acc) = Normalize(d) <=> Cmp(acc, d) = 0
    BY DEF KeyAgreesWithCmp
  <2>1. Valid(acc) /\ Valid(d)
    BY InvFields, OperandsAssumption DEF Valid
  <2> QED
    BY <2>1, KeyIsNumber
<1> QED
  BY <1>1, InvIsInductive, PTL

\* decimal.go DivExact: whatever calls made its operands, an exact quotient is
\* returned with as few digits as it has, and rescaling it to any smaller scale is
\* refused.
THEOREM QuotientsAreNarrowest == Spec => QuotientIsNarrowest
<1> DEFINE Narrowest == call.op = "DivExact" /\ err' = "nil" =>
             \A s \in 0 .. acc'.scale - 1 : RescaleExact(acc', s).err = "ErrInexact"
<1>1. Inv /\ [Next]_vars => [Narrowest]_vars
  <2> SUFFICES ASSUME Inv, Next, call.op = "DivExact", err' = "nil",
                      NEW s \in 0 .. acc'.scale - 1
               PROVE  RescaleExact(acc', s).err = "ErrInexact"
    OBVIOUS
  <2>1. call # NoCall
    BY DEF NoCall
  <2>2. DoDivExact
    BY <2>1 DEF Next, Load, Request, Returns, Return, DoAdd, DoSub, DoMul, DoNeg, DoAbs, DoMin,
                DoMax, DoNormalize, DoDiv, DoDivExact, DoRescale, DoRescaleExact,
                DoQuantizeStep, DoQuantizeStepExact
  <2> DEFINE result == DivExact(acc, call.arg)
  <2>3. call \in Calls /\ Returned(result)
    BY <2>2, ReturnAnswersCall DEF DoDivExact, CallOps
  <2>4. Valid(acc) /\ Valid(call.arg) /\ QuotientFits(acc, call.arg)
    BY <2>3, InvFields
  <2>5. result.err = "nil" /\ acc' = result.val
    BY <2>3 DEF Returned
  <2>6. call.arg.coef # 0
    BY <2>5 DEF DivExact, IsZero, Fail
  <2>7. result = Ok(acc')
    <3>1. result = Fail("ErrInexact") \/ \E k \in Int, e \in 0 .. MaxScale : result = Ok(Dec(k, e))
      BY <2>4, <2>6, DivExactIsExact
    <3> HIDE DEF result
    <3> QED
      BY <2>5, <3>1 DEF Ok, Fail
  <2> QED
    BY <2>4, <2>6, <2>7, NarrowerIsInexact
<1> QED
  BY <1>1, InvIsInductive, PTL DEF Spec, QuotientIsNarrowest
-----------------------------------------------------------------------------
(* Refinement of ExactCalc. *)

LEMMA RequestFields ==
    ASSUME call \in Calls
    PROVE  /\ AsRequest # Contract!NoCall
           /\ AsRequest.op = call.op /\ call.op \in CallOps
           /\ AsRequest.arg = AsFraction(call.arg) /\ Valid(call.arg)
           /\ AsRequest.scale = call.scale /\ call.scale \in Int /\ call.scale <= MaxScale
           /\ AsRequest.mode = call.mode
           /\ call.op \in Unrounded => call.mode = "TowardZero"
<1>1. /\ call \in CallRecords /\ call.op \in CallOps /\ call # NoCall
      /\ Valid(call.arg) /\ call.scale \in Int /\ call.scale <= MaxScale
      /\ call.op \in Unrounded => call.mode = "TowardZero"
  BY CallFields
<1>2. AsRequest = [call EXCEPT !.arg = AsFraction(@)]
  BY <1>1 DEF AsRequest
<1>3. /\ AsRequest.op = call.op /\ AsRequest.arg = AsFraction(call.arg)
      /\ AsRequest.scale = call.scale /\ AsRequest.mode = call.mode
  BY <1>1, <1>2 DEF CallRecords
<1>4. AsRequest # Contract!NoCall
  BY <1>1, <1>3 DEF CallOps, Contract!NoCall
<1> QED
  BY <1>1, <1>3, <1>4

LEMMA SameRounding ==
    /\ Contract!RoundingModes = RoundingModes
    /\ \A n : Contract!Magnitude(n) = Magnitude(n)
    /\ \A n, d : Contract!Quo(n, d) = Quo(n, d)
    /\ \A q, n, d, mode : Contract!IsRounded(q, n, d, mode) <=> IsRounded(q, n, d, mode)
    /\ \A n \in Int, d \in Int \ {0} : Contract!Rem(n, d) = 0 <=> Divides(d, n)
<1>1. Contract!RoundingModes = RoundingModes /\ Contract!NearestModes = NearestModes
  BY DEF Contract!RoundingModes, RoundingModes, Contract!NearestModes, NearestModes,
         Contract!DirectedModes, DirectedModes
<1>2. \A n : Contract!Magnitude(n) = Magnitude(n)
  BY DEF Contract!Magnitude, Magnitude
<1>3. \A n, d : Contract!Quo(n, d) = Quo(n, d)
  BY <1>2 DEF Contract!Quo, Quo
<1>4. \A m, q, n, d, mode : Contract!IsRoundedTo(m, q, n, d, mode) <=> IsRoundedTo(m, q, n, d, mode)
  BY <1>1, <1>2 DEF Contract!IsRoundedTo, IsRoundedTo
<1>5. \A q, n, d, mode : Contract!IsRounded(q, n, d, mode) <=> IsRounded(q, n, d, mode)
  BY <1>4 DEF Contract!IsRounded, IsRounded
<1>6. \A n \in Int, d \in Int \ {0} : Contract!Rem(n, d) = 0 <=> Divides(d, n)
  <2>1. \A n, d : Contract!Rem(n, d) = Rem(n, d)
    BY <1>3 DEF Contract!Rem, Rem
  <2>2. \A n \in Int, d \in Int \ {0} : Rem(n, d) = 0 <=> Divides(d, n)
    BY NoRemainder
  <2> QED
    BY <2>1, <2>2
<1> QED
  BY <1>1, <1>2, <1>3, <1>5, <1>6

LEMMA ReturnedIsSucceed ==
    ASSUME NEW result, Returned(result)
    PROVE  /\ AsRequest' = Contract!NoCall
           /\ result.err = "nil" => Contract!Succeed /\ acc' = result.val
           /\ result.err # "nil" => Contract!Refuse(result.err)
<1>1. AsRequest' = Contract!NoCall
  BY DEF Returned, AsRequest, NoCall, Contract!NoCall
<1>2. result.err = "nil" => Contract!Succeed /\ acc' = result.val
  BY <1>1 DEF Returned, Contract!Succeed
<1>3. result.err # "nil" => Contract!Refuse(result.err)
  <2> SUFFICES ASSUME result.err # "nil" PROVE Contract!Refuse(result.err)
    OBVIOUS
  <2>1. acc' = acc
    BY DEF Returned
  <2>2. AsFraction(acc)' = AsFraction(acc)
    BY <2>1 DEF AsFraction
  <2> QED
    BY <1>1, <2>2 DEF Returned, Contract!Refuse
<1> QED
  BY <1>1, <1>2, <1>3

\* Refused for its arguments
LEMMA RefusedForArguments ==
    ASSUME call \in Calls, NEW result, Returned(result),
           \/ result.err = "ErrDivisionByZero" /\ Contract!DivisorIsZero
           \/ result.err = "ErrInvalidScale" /\ Contract!ScaleIsBad
           \/ result.err = "ErrInvalidRoundingMode" /\ Contract!ModeIsBad
    PROVE  Contract!Next
<1>1. AsRequest # Contract!NoCall
  BY RequestFields
<1>2. Contract!Refuse(result.err)
  BY ReturnedIsSucceed
<1> QED
  BY <1>1, <1>2 DEF Contract!Next, Contract!RefuseArguments

\* Answered with a rounded number of steps of the grid
LEMMA AnsweredRounded ==
    ASSUME call \in Calls, call.op \in {"Rescale", "Div", "QuantizeStep"}, Contract!Answerable,
           NEW k \in Contract!StepCounts, NEW n, n = k * Contract!Grid.num,
           NEW scale, Contract!Grid.den = Pow10[scale],
           Returned(Ok(Dec(n, scale)))
    PROVE  Contract!Next
<1>1. AsRequest.op \in Contract!RoundedOps
  BY RequestFields DEF Contract!RoundedOps
<1>2. Contract!Succeed /\ acc' = Dec(n, scale)
  BY ReturnedIsSucceed DEF Ok
<1>3. AsFraction(acc)' = [num |-> n, den |-> Pow10[scale]]
  BY <1>2 DEF AsFraction, Dec
<1>4. Contract!FracEq(AsFraction(acc)', Contract!Frac(k * Contract!Grid.num, Contract!Grid.den))
  BY <1>3 DEF Contract!FracEq, Contract!Frac
<1>5. Contract!ReturnRounded
  BY <1>1, <1>2, <1>4 DEF Contract!ReturnRounded
<1> QED
  BY <1>5 DEF Contract!Next, Contract!Answer

\* A rounding of the exact number is one of the step counts of the contract.
LEMMA CountedStep ==
    ASSUME call \in Calls, NEW k \in Int, NEW num \in Int, NEW den \in Int \ {0},
           num = Contract!Exact.num * Contract!Grid.den, den = Contract!Exact.den * Contract!Grid.num,
           IsRounded(k, num, den, call.mode)
    PROVE  k \in Contract!StepCounts
<1>1. k \in {Quo(num, den) - 1, Quo(num, den), Quo(num, den) + 1}
  BY RoundedNearby
<1>2. AsRequest.mode = call.mode
  BY RequestFields
<1>3. Contract!StepCounts = {j \in {Quo(num, den) - 1, Quo(num, den), Quo(num, den) + 1} :
                               IsRounded(j, num, den, call.mode)}
  BY <1>2, SameRounding DEF Contract!StepCounts, Contract!Counts
<1> QED
  BY <1>1, <1>3

\* Answered with the number itself, whatever the scale it is written with
LEMMA AnsweredExact ==
    ASSUME call \in Calls, call.op \in {"Neg", "Abs", "Normalize", "Add", "Sub", "Mul", "Min", "Max"},
           NEW d, Contract!FracEq(AsFraction(d), Contract!ExactResult), Returned(Ok(d))
    PROVE  Contract!Next
<1>1. AsRequest.op \in Contract!ExactOps
  BY RequestFields DEF Contract!ExactOps
<1>2. Contract!Succeed /\ acc' = d
  BY ReturnedIsSucceed DEF Ok
<1>3. AsFraction(acc)' = AsFraction(d)
  BY <1>2 DEF AsFraction
<1>4. Contract!ReturnExact
  BY <1>1, <1>2, <1>3 DEF Contract!ReturnExact
<1> QED
  BY <1>4 DEF Contract!Next, Contract!Answer

\* Answered with all digits, because there are only so many
LEMMA AnsweredUnrounded ==
    ASSUME call \in Calls, call.op \in {"RescaleExact", "DivExact", "QuantizeStepExact"},
           Contract!Answerable, Contract!NothingToRound,
           NEW n, NEW scale, n * Contract!Exact.den = Contract!Exact.num * Pow10[scale],
           Returned(Ok(Dec(n, scale)))
    PROVE  Contract!Next
<1>1. AsRequest.op \in Contract!ExactOnlyOps
  BY RequestFields DEF Contract!ExactOnlyOps
<1>2. Contract!Succeed /\ acc' = Dec(n, scale)
  BY ReturnedIsSucceed DEF Ok
<1>3. AsFraction(acc)' = [num |-> n, den |-> Pow10[scale]]
  BY <1>2 DEF AsFraction, Dec
<1>4. Contract!ReturnExactOnly
  BY <1>1, <1>2, <1>3 DEF Contract!ReturnExactOnly
<1> QED
  BY <1>4 DEF Contract!Next, Contract!Answer

\* Refused because something would have to be rounded
LEMMA RefusedUnrounded ==
    ASSUME call \in Calls, call.op \in {"RescaleExact", "DivExact", "QuantizeStepExact"},
           Contract!Answerable, ~Contract!NothingToRound, Returned(Fail("ErrInexact"))
    PROVE  Contract!Next
<1>1. AsRequest.op \in Contract!ExactOnlyOps
  BY RequestFields DEF Contract!ExactOnlyOps
<1>2. Contract!Refuse("ErrInexact")
  BY ReturnedIsSucceed DEF Fail
<1>3. Contract!RefuseInexact
  BY <1>1, <1>2 DEF Contract!RefuseInexact
<1> QED
  BY <1>3 DEF Contract!Next, Contract!Answer
LEMMA RescaleRefines ==
    ASSUME Inv, call \in Calls, call.op = "Rescale", Returned(Rescale(acc, call.scale, call.mode))
    PROVE  Contract!Next
<1> DEFINE scale == call.scale
           mode == call.mode
           c == acc.coef
           result == Rescale(acc, scale, mode)
<1>1. /\ Valid(acc) /\ scale \in Int /\ scale <= MaxScale
      /\ AsRequest.op = "Rescale" /\ AsRequest.scale = scale /\ AsRequest.mode = mode
  BY RequestFields, InvFields
<1>2. c \in Int /\ acc.scale \in 0 .. MaxScale
  BY <1>1, ValidFields
<1>3. result = IF scale < 0 THEN Fail("ErrInvalidScale")
               ELSE IF mode \notin RoundingModes THEN Fail("ErrInvalidRoundingMode")
               ELSE Ok(Dec(Shifted(c, acc.scale, scale, mode), scale))
  BY <1>1, RescaleIsRounded
<1>4. /\ Contract!ScaleIsBad <=> scale < 0
      /\ Contract!ModeIsBad <=> mode \notin RoundingModes
      /\ ~Contract!DivisorIsZero
  BY <1>1, SameRounding, Table
     DEF Contract!ScaleIsBad, Contract!ModeIsBad, Contract!DivisorIsZero, Contract!ExactOps
<1>5. CASE scale < 0 \/ mode \notin RoundingModes
  BY <1>3, <1>4, <1>5, RefusedForArguments DEF Fail
<1>6. CASE scale >= 0 /\ mode \in RoundingModes
  <2> DEFINE k == Shifted(c, acc.scale, scale, mode)
             g == Pow10[scale]
             f == Pow10[acc.scale]
  <2>1. scale \in 0 .. MaxScale /\ ~(scale < 0)
    BY <1>1, <1>6
  <2>2. k \in Int /\ IsRounded(k, c * g, f, mode)
    BY <1>1, <1>6, RescaleIsRounded
  <2>3. /\ Contract!Exact.num = c /\ Contract!Exact.den = f
        /\ Contract!Grid.num = 1 /\ Contract!Grid.den = g
    BY <1>1 DEF Contract!Exact, Contract!Grid, Contract!ScaleGrid, Contract!Frac, AsFraction
  <2>4. g \in Nat \ {0} /\ f \in Nat \ {0}
    BY <1>1, <2>1, ValidFields, Table
  <2>5. result = Ok(Dec(k, scale))
    BY <1>3, <1>6, <2>1
  <2> HIDE DEF k, f, g, c, result
  <2>6. c * g \in Int /\ f \in Int \ {0} /\ f = f * 1 /\ k = k * 1
    BY <1>2, <2>2, <2>4
  <2>7. k \in Contract!StepCounts
    <3>1. c * g = Contract!Exact.num * Contract!Grid.den /\ f = Contract!Exact.den * Contract!Grid.num
      BY <2>3, <2>6
    <3> QED
      BY <2>2, <2>6, <3>1, CountedStep
  <2>8. Contract!Answerable
    BY <1>4, <1>6, <2>1 DEF Contract!Answerable
  <2>9. k = k * Contract!Grid.num /\ Contract!Grid.den = Pow10[scale] /\ Returned(Ok(Dec(k, scale)))
    BY <2>3, <2>5, <2>6 DEF g, result
  <2> QED
    BY <2>7, <2>8, <2>9, AnsweredRounded
<1> QED
  BY <1>1, <1>5, <1>6

LEMMA DivRefines ==
    ASSUME Inv, call \in Calls, call.op = "Div",
           Returned(Div(acc, call.arg, call.scale, call.mode))
    PROVE  Contract!Next
<1> DEFINE scale == call.scale
           mode == call.mode
           b == call.arg
           result == Div(acc, b, scale, mode)
<1>1. /\ Valid(acc) /\ Valid(b) /\ scale \in Int /\ scale <= MaxScale
      /\ AsRequest.op = "Div" /\ AsRequest.scale = scale /\ AsRequest.mode = mode
      /\ AsRequest.arg = AsFraction(b)
  BY RequestFields, InvFields
<1>2. result = IF b.coef = 0 THEN Fail("ErrDivisionByZero")
               ELSE IF scale < 0 THEN Fail("ErrInvalidScale")
               ELSE IF mode \notin RoundingModes THEN Fail("ErrInvalidRoundingMode")
               ELSE Ok(Dec(Quotient(acc.coef, acc.scale, b.coef, b.scale, scale, mode), scale))
  BY <1>1, DivIsRounded
<1>3. /\ Contract!ScaleIsBad <=> scale < 0
      /\ Contract!ModeIsBad <=> mode \notin RoundingModes
      /\ Contract!DivisorIsZero <=> b.coef = 0
  BY <1>1, SameRounding, Table
     DEF Contract!ScaleIsBad, Contract!ModeIsBad, Contract!DivisorIsZero, Contract!ExactOps, AsFraction
<1>4. CASE b.coef = 0 \/ scale < 0 \/ mode \notin RoundingModes
  BY <1>2, <1>3, <1>4, RefusedForArguments DEF Fail
<1>5. CASE b.coef # 0 /\ scale >= 0 /\ mode \in RoundingModes
  <2> DEFINE k == Quotient(acc.coef, acc.scale, b.coef, b.scale, scale, mode)
             g == Pow10[scale]
             f == Pow10[acc.scale]
             t == Pow10[b.scale]
             u == acc.coef
             v == b.coef
             num == (u * t) * g
             den == f * v
  <2>1. scale \in 0 .. MaxScale /\ ~(scale < 0)
    BY <1>1, <1>5
  <2>2. k \in Int /\ IsRounded(k, num, den, mode)
    BY <1>1, <1>5, DivIsRounded
  <2>3. /\ Contract!Exact.num = u * t /\ Contract!Exact.den = den
        /\ Contract!Grid.num = 1 /\ Contract!Grid.den = g
    BY <1>1 DEF Contract!Exact, Contract!Grid, Contract!ScaleGrid, Contract!Frac, AsFraction
  <2>4. g \in Nat \ {0} /\ f \in Nat \ {0} /\ t \in Nat \ {0} /\ u \in Int /\ v \in Int \ {0}
    BY <1>1, <1>5, <2>1, ValidFields, Table
  <2>5. result = Ok(Dec(k, scale))
    BY <1>2, <1>5, <2>1
  <2> HIDE DEF k, f, g, t, u, v, result
  <2>6. u * t \in Int /\ num \in Int /\ den \in Int \ {0} /\ den = den * 1 /\ k = k * 1
    BY <2>2, <2>4
  <2>7. k \in Contract!StepCounts
    <3>1. num = Contract!Exact.num * Contract!Grid.den /\ den = Contract!Exact.den * Contract!Grid.num
      BY <2>3, <2>6
    <3> HIDE DEF num, den
    <3> QED
      BY <2>2, <2>6, <3>1, CountedStep
  <2>8. Contract!Answerable
    BY <1>3, <1>5, <2>1 DEF Contract!Answerable
  <2>9. k = k * Contract!Grid.num /\ Contract!Grid.den = Pow10[scale] /\ Returned(Ok(Dec(k, scale)))
    BY <2>3, <2>5, <2>6 DEF g, result
  <2> QED
    BY <2>7, <2>8, <2>9, AnsweredRounded
<1> QED
  BY <1>1, <1>4, <1>5

LEMMA QuantizeStepRefines ==
    ASSUME Inv, call \in Calls, call.op = "QuantizeStep",
           Returned(QuantizeStep(acc, call.arg, call.mode))
    PROVE  Contract!Next
<1> DEFINE mode == call.mode
           b == call.arg
           m == Magnitude(b.coef)
           k == Quotient(acc.coef, acc.scale, m, b.scale, 0, mode)
           result == QuantizeStep(acc, b, mode)
<1>1. /\ Valid(acc) /\ Valid(b)
      /\ AsRequest.op = "QuantizeStep" /\ AsRequest.mode = mode /\ AsRequest.arg = AsFraction(b)
  BY RequestFields, InvFields
<1>2. /\ result = IF b.coef = 0 THEN Fail("ErrDivisionByZero")
                  ELSE IF mode \notin RoundingModes THEN Fail("ErrInvalidRoundingMode")
                  ELSE Ok(Dec(k * m, b.scale))
      /\ b.coef # 0 /\ mode \in RoundingModes =>
           /\ k \in Int /\ m \in Int \ {0}
           /\ IsRounded(k, acc.coef * Pow10[b.scale], Pow10[acc.scale] * m, mode)
  BY <1>1, QuantizeStepIsRounded
<1>3. /\ ~Contract!ScaleIsBad
      /\ Contract!ModeIsBad <=> mode \notin RoundingModes
      /\ Contract!DivisorIsZero <=> b.coef = 0
  BY <1>1, SameRounding
     DEF Contract!ScaleIsBad, Contract!ModeIsBad, Contract!DivisorIsZero, Contract!ExactOps, AsFraction
<1>4. CASE b.coef = 0 \/ mode \notin RoundingModes
  <2> HIDE DEF k, m
  <2> QED
    BY <1>2, <1>3, <1>4, RefusedForArguments DEF Fail
<1>5. CASE b.coef # 0 /\ mode \in RoundingModes
  <2> DEFINE f == Pow10[acc.scale]
             t == Pow10[b.scale]
             u == acc.coef
             num == u * t
             den == f * m
  <2>1. f \in Nat \ {0} /\ t \in Nat \ {0} /\ u \in Int
    BY <1>1, ValidFields
  <2>2. k \in Int /\ m \in Int \ {0} /\ IsRounded(k, num, den, mode)
    BY <1>2, <1>5
  <2>3. /\ Contract!Exact.num = u /\ Contract!Exact.den = f
        /\ Contract!Grid.num = m /\ Contract!Grid.den = t
    BY <1>1, SameRounding DEF Contract!Exact, Contract!Grid, Contract!StepGrid, Contract!Frac, AsFraction
  <2>4. result = Ok(Dec(k * m, b.scale))
    BY <1>2, <1>5
  <2> HIDE DEF k, f, t, u, m, result
  <2>5. num \in Int /\ den \in Int \ {0}
    BY <2>1, <2>2
  <2>6. k \in Contract!StepCounts
    <3>1. num = Contract!Exact.num * Contract!Grid.den /\ den = Contract!Exact.den * Contract!Grid.num
      BY <2>3
    <3> HIDE DEF num, den
    <3> QED
      BY <2>2, <2>5, <3>1, CountedStep
  <2>7. Contract!Answerable
    BY <1>3, <1>5 DEF Contract!Answerable
  <2>8. k * m = k * Contract!Grid.num /\ Contract!Grid.den = Pow10[b.scale] /\ Returned(Ok(Dec(k * m, b.scale)))
    BY <2>3, <2>4 DEF t, result
  <2> QED
    BY <2>6, <2>7, <2>8, AnsweredRounded
<1> QED
  BY <1>4, <1>5

LEMMA RescaleExactRefines ==
    ASSUME Inv, call \in Calls, call.op = "RescaleExact", Returned(RescaleExact(acc, call.scale))
    PROVE  Contract!Next
<1> DEFINE scale == call.scale
           c == acc.coef
           f == Pow10[acc.scale]
           g == Pow10[scale]
           result == RescaleExact(acc, scale)
<1>1. /\ Valid(acc) /\ scale \in Int /\ scale <= MaxScale
      /\ AsRequest.op = "RescaleExact" /\ AsRequest.scale = scale /\ AsRequest.mode = "TowardZero"
  BY RequestFields, InvFields DEF Unrounded, CallOps
<1>2. /\ Contract!ScaleIsBad <=> scale < 0
      /\ ~Contract!ModeIsBad /\ ~Contract!DivisorIsZero
  BY <1>1, SameRounding, Table
     DEF Contract!ScaleIsBad, Contract!ModeIsBad, Contract!DivisorIsZero, Contract!ExactOps,
         RoundingModes, DirectedModes
<1>3. CASE scale < 0
  <2>1. result = Fail("ErrInvalidScale")
    BY <1>1, <1>3, RescaleExactIsExact
  <2> QED
    BY <1>2, <1>3, <2>1, RefusedForArguments DEF Fail
<1>4. CASE scale >= 0
  <2>1. \/ result = Fail("ErrInexact") /\ ~Divides(f, c * g)
        \/ \E k \in Int : result = Ok(Dec(k, scale)) /\ k * f = c * g
    BY <1>1, <1>4, RescaleExactIsExact
  <2>2. scale \in 0 .. MaxScale /\ ~(scale < 0)
    BY <1>1, <1>4
  <2>3. g \in Nat \ {0} /\ f \in Nat \ {0} /\ c \in Int
    BY <1>1, <2>2, ValidFields, Table
  <2>4. /\ Contract!Exact.num = c /\ Contract!Exact.den = f
        /\ Contract!Grid.num = 1 /\ Contract!Grid.den = g
        /\ Contract!NothingToRound <=> Contract!OnGrid(Contract!Grid)
    BY <1>1 DEF Contract!Exact, Contract!Grid, Contract!ScaleGrid, Contract!Frac,
                Contract!NothingToRound, AsFraction
  <2>5. Contract!Answerable
    BY <1>2, <2>2 DEF Contract!Answerable
  <2> HIDE DEF c, f, g
  <2>6. c * g \in Int /\ f \in Int \ {0} /\ f * 1 = f
    BY <2>3
  <2>7. Contract!NothingToRound <=> Divides(f, c * g)
    BY <2>4, <2>6, SameRounding DEF Contract!OnGrid
  <2>8. CASE result = Fail("ErrInexact") /\ ~Divides(f, c * g)
    BY <2>5, <2>7, <2>8, RefusedUnrounded
  <2>9. ASSUME NEW k \in Int, result = Ok(Dec(k, scale)), k * f = c * g PROVE Contract!Next
    <3>1. k * Contract!Exact.den = Contract!Exact.num * Pow10[scale]
      BY <2>4, <2>9 DEF g
    <3>2. Contract!NothingToRound
      BY <2>7, <2>9 DEF Divides
    <3> QED
      BY <2>5, <2>9, <3>1, <3>2, AnsweredUnrounded
  <2> QED
    BY <2>1, <2>8, <2>9
<1> QED
  BY <1>1, <1>3, <1>4

LEMMA DivExactRefines ==
    ASSUME Inv, call \in Calls, call.op = "DivExact", Returned(DivExact(acc, call.arg))
    PROVE  Contract!Next
<1> DEFINE b == call.arg
           n == acc.coef * Pow10[b.scale]
           d == Pow10[acc.scale] * b.coef
           result == DivExact(acc, b)
<1>1. /\ Valid(acc) /\ Valid(b) /\ QuotientFits(acc, b)
      /\ AsRequest.op = "DivExact" /\ AsRequest.mode = "TowardZero" /\ AsRequest.arg = AsFraction(b)
  BY RequestFields, InvFields DEF Unrounded, CallOps
<1>2. /\ ~Contract!ScaleIsBad /\ ~Contract!ModeIsBad
      /\ Contract!DivisorIsZero <=> b.coef = 0
  BY <1>1, SameRounding
     DEF Contract!ScaleIsBad, Contract!ModeIsBad, Contract!DivisorIsZero, Contract!ExactOps,
         RoundingModes, DirectedModes, AsFraction
<1>3. CASE b.coef = 0
  <2>1. result = Fail("ErrDivisionByZero")
    BY <1>3 DEF DivExact, IsZero
  <2> QED
    BY <1>2, <1>3, <2>1, RefusedForArguments DEF Fail
<1>4. CASE b.coef # 0
  <2>1. \/ /\ result = Fail("ErrInexact")
           /\ \A s \in 0 .. MaxScale : ~Divides(d, n * Pow10[s])
        \/ \E k \in Int, s \in 0 .. MaxScale : result = Ok(Dec(k, s)) /\ k * d = n * Pow10[s]
    BY <1>1, <1>4, DivExactIsExact
  <2>2. n \in Int /\ d \in Int \ {0}
    <3> DEFINE u == acc.coef
               v == b.coef
               p == Pow10[acc.scale]
               q == Pow10[b.scale]
    <3>1. u \in Int /\ v \in Int \ {0} /\ p \in Nat \ {0} /\ q \in Nat \ {0}
      BY <1>1, <1>4, ValidFields
    <3> HIDE DEF u, v, p, q
    <3>2. u * q \in Int /\ p * v \in Int \ {0}
      BY <3>1
    <3> QED
      BY <3>2 DEF u, v, p, q
  <2>3. Contract!Exact.num = n /\ Contract!Exact.den = d
    BY <1>1 DEF Contract!Exact, AsFraction
  <2>4. Contract!Answerable
    BY <1>2, <1>4 DEF Contract!Answerable
  <2> HIDE DEF n, d, result
  <2>5. \A s \in 0 .. MaxScale : Contract!OnGrid(Contract!Frac(1, Pow10[s])) <=> Divides(d, n * Pow10[s])
    <3> SUFFICES ASSUME NEW s \in 0 .. MaxScale
                 PROVE  Contract!OnGrid(Contract!Frac(1, Pow10[s])) <=> Divides(d, n * Pow10[s])
      OBVIOUS
    <3> DEFINE g == Pow10[s]
    <3>1. g \in Nat \ {0}
      BY Table
    <3>2. Contract!OnGrid(Contract!Frac(1, g)) <=> Contract!Rem(n * g, d * 1) = 0
      BY <2>3 DEF Contract!OnGrid, Contract!Frac
    <3> HIDE DEF g
    <3>3. n * g \in Int /\ d * 1 = d
      BY <2>2, <3>1
    <3>4. Contract!OnGrid(Contract!Frac(1, g)) <=> Divides(d, n * g)
      BY <2>2, <3>2, <3>3, SameRounding
    <3> QED
      BY <3>4 DEF g
  <2>6. Contract!NothingToRound <=> \E s \in 0 .. MaxScale : Divides(d, n * Pow10[s])
    BY <1>1, <2>5 DEF Contract!NothingToRound, Contract!Finite
  <2>7. CASE result = Fail("ErrInexact") /\ \A s \in 0 .. MaxScale : ~Divides(d, n * Pow10[s])
    <3>1. Returned(Fail("ErrInexact"))
      BY <2>7 DEF result
    <3> QED
      BY <2>4, <2>6, <2>7, <3>1, RefusedUnrounded
  <2>8. ASSUME NEW k \in Int, NEW s \in 0 .. MaxScale, result = Ok(Dec(k, s)), k * d = n * Pow10[s]
        PROVE  Contract!Next
    <3>1. Contract!NothingToRound
      BY <2>6, <2>8 DEF Divides
    <3>2. Returned(Ok(Dec(k, s)))
      BY <2>8 DEF result
    <3> QED
      BY <2>3, <2>4, <2>8, <3>1, <3>2, AnsweredUnrounded
  <2> QED
    BY <2>1, <2>7, <2>8
<1> QED
  BY <1>3, <1>4

LEMMA QuantizeStepExactRefines ==
    ASSUME Inv, call \in Calls, call.op = "QuantizeStepExact",
           Returned(QuantizeStepExact(acc, call.arg))
    PROVE  Contract!Next
<1> DEFINE b == call.arg
           m == Magnitude(b.coef)
           u == acc.coef
           p == Pow10[acc.scale]
           q == Pow10[b.scale]
           result == QuantizeStepExact(acc, b)
<1>1. /\ Valid(acc) /\ Valid(b) /\ QuotientFits(acc, b)
      /\ AsRequest.op = "QuantizeStepExact" /\ AsRequest.mode = "TowardZero"
      /\ AsRequest.arg = AsFraction(b)
  BY RequestFields, InvFields DEF Unrounded, CallOps
<1>2. /\ ~Contract!ScaleIsBad /\ ~Contract!ModeIsBad
      /\ Contract!DivisorIsZero <=> b.coef = 0
  BY <1>1, SameRounding
     DEF Contract!ScaleIsBad, Contract!ModeIsBad, Contract!DivisorIsZero, Contract!ExactOps,
         RoundingModes, DirectedModes, AsFraction
<1>3. CASE b.coef = 0
  <2>1. result = Fail("ErrDivisionByZero")
    BY <1>3 DEF QuantizeStepExact, IsZero
  <2> QED
    BY <1>2, <1>3, <2>1, RefusedForArguments DEF Fail
<1>4. CASE b.coef # 0
  <2>1. \/ result = Fail("ErrInexact") /\ ~Divides(p * m, u * q)
        \/ \E k \in Int : result = Ok(Dec(k * m, b.scale)) /\ k * (p * m) = u * q
    BY <1>1, <1>4, QuantizeStepExactIsExact
  <2>2. /\ u \in Int /\ m \in Int \ {0} /\ p \in Nat \ {0} /\ q \in Nat \ {0}
    BY <1>1, <1>4, ValidFields DEF Magnitude
  <2>3. /\ Contract!Exact.num = u /\ Contract!Exact.den = p
        /\ Contract!Grid.num = m /\ Contract!Grid.den = q
        /\ Contract!NothingToRound <=> Contract!OnGrid(Contract!Grid)
    BY <1>1, SameRounding DEF Contract!Exact, Contract!Grid, Contract!StepGrid, Contract!Frac,
                Contract!NothingToRound, AsFraction
  <2>4. Contract!Answerable
    BY <1>2, <1>4 DEF Contract!Answerable
  <2> HIDE DEF u, m, p, q, result
  <2>5. u * q \in Int /\ p * m \in Int \ {0}
    BY <2>2
  <2>6. Contract!NothingToRound <=> Divides(p * m, u * q)
    BY <2>3, <2>5, SameRounding DEF Contract!OnGrid
  <2>7. CASE result = Fail("ErrInexact") /\ ~Divides(p * m, u * q)
    <3>1. Returned(Fail("ErrInexact"))
      BY <2>7 DEF result
    <3> QED
      BY <2>4, <2>6, <2>7, <3>1, RefusedUnrounded
  <2>8. ASSUME NEW k \in Int, result = Ok(Dec(k * m, b.scale)), k * (p * m) = u * q
        PROVE  Contract!Next
    <3>1. Contract!NothingToRound
      BY <2>6, <2>8 DEF Divides
    <3>2. Returned(Ok(Dec(k * m, b.scale)))
      BY <2>8 DEF result
    <3>3. (k * m) * p = u * q
      BY <2>2, <2>8
    <3>4. (k * m) * Contract!Exact.den = Contract!Exact.num * Pow10[b.scale]
      BY <2>3, <3>3 DEF q
    <3> QED
      BY <2>4, <3>1, <3>2, <3>4, AnsweredUnrounded
  <2> QED
    BY <2>1, <2>7, <2>8
<1> QED
  BY <1>3, <1>4
LEMMA NegRefines ==
    ASSUME Inv, call \in Calls, call.op = "Neg", Returned(Ok(Neg(acc)))
    PROVE  Contract!Next
<1>1. AsRequest.op = "Neg"
  BY RequestFields
<1>2. Contract!ExactResult.num = -acc.coef /\ Contract!ExactResult.den = Pow10[acc.scale]
  BY <1>1 DEF Contract!ExactResult, Contract!Frac, AsFraction
<1>3. Contract!FracEq(AsFraction(Neg(acc)), Contract!ExactResult)
  BY <1>2 DEF Contract!FracEq, AsFraction, Neg, Dec
<1> QED
  BY <1>3, AnsweredExact

LEMMA AbsRefines ==
    ASSUME Inv, call \in Calls, call.op = "Abs", Returned(Ok(Abs(acc)))
    PROVE  Contract!Next
<1> DEFINE m == Magnitude(acc.coef)
<1>1. AsRequest.op = "Abs"
  BY RequestFields
<1>2. Contract!ExactResult.num = m /\ Contract!ExactResult.den = Pow10[acc.scale]
  BY <1>1, SameRounding DEF Contract!ExactResult, Contract!Frac, AsFraction
<1>3. Abs(acc) = Dec(m, acc.scale)
  BY DEF Abs
<1> HIDE DEF m
<1>4. Contract!FracEq(AsFraction(Abs(acc)), Contract!ExactResult)
  BY <1>2, <1>3 DEF Contract!FracEq, AsFraction, Dec
<1> QED
  BY <1>4, AnsweredExact

LEMMA NormalizeRefines ==
    ASSUME Inv, call \in Calls, call.op = "Normalize", Returned(Ok(Normalize(acc)))
    PROVE  Contract!Next
<1> DEFINE d == Normalize(acc)
<1>1. AsRequest.op = "Normalize" /\ Valid(acc)
  BY RequestFields, InvFields
<1>2. SameNumber(d, acc)
  BY <1>1, NormalizeIsReduced
<1>3. Contract!ExactResult.num = acc.coef /\ Contract!ExactResult.den = Pow10[acc.scale]
  BY <1>1 DEF Contract!ExactResult, AsFraction
<1> HIDE DEF d
<1>4. Contract!FracEq(AsFraction(d), Contract!ExactResult)
  BY <1>2, <1>3 DEF Contract!FracEq, AsFraction, SameNumber
<1> QED
  BY <1>4, AnsweredExact DEF d

\* Both operands of the contract at the larger scale
LEMMA OperandsAreAligned ==
    ASSUME Inv, call \in Calls
    PROVE  LET s == LargerScale(acc, call.arg)
           IN  /\ Contract!Left = AlignTo(acc, s) /\ Contract!Right = AlignTo(call.arg, s)
               /\ Contract!CommonDen = Pow10[s]
<1> DEFINE b == call.arg
           s == LargerScale(acc, b)
<1>1. Valid(acc) /\ Valid(b) /\ AsRequest.arg = AsFraction(b)
  BY RequestFields, InvFields
<1>2. /\ AlignTo(acc, s) = Contract!Common(AsFraction(acc), AsFraction(b))
      /\ AlignTo(b, s) = Contract!Common(AsFraction(b), AsFraction(acc))
      /\ Pow10[s] = IF Pow10[acc.scale] >= Pow10[b.scale] THEN Pow10[acc.scale] ELSE Pow10[b.scale]
  BY <1>1, AlignedIsCommon
<1>3. Contract!Left = AlignTo(acc, s) /\ Contract!Right = AlignTo(b, s)
  BY <1>1, <1>2 DEF Contract!Left, Contract!Right
<1>4. Contract!CommonDen = IF Pow10[acc.scale] >= Pow10[b.scale] THEN Pow10[acc.scale] ELSE Pow10[b.scale]
  BY <1>1 DEF Contract!CommonDen, AsFraction
<1> QED
  BY <1>2, <1>3, <1>4

LEMMA AddRefines ==
    ASSUME Inv, call \in Calls, call.op = "Add", Returned(Ok(Add(acc, call.arg)))
    PROVE  Contract!Next
<1> DEFINE s == LargerScale(acc, call.arg)
           n == AlignTo(acc, s) + AlignTo(call.arg, s)
<1>1. AsRequest.op = "Add"
  BY RequestFields
<1>2. Contract!ExactResult.num = n /\ Contract!ExactResult.den = Pow10[s]
  BY <1>1, OperandsAreAligned DEF Contract!ExactResult, Contract!Frac
<1>3. Add(acc, call.arg) = Dec(n, s)
  BY DEF Add
<1> HIDE DEF n, s
<1>4. Contract!FracEq(AsFraction(Add(acc, call.arg)), Contract!ExactResult)
  BY <1>2, <1>3 DEF Contract!FracEq, AsFraction, Dec
<1> QED
  BY <1>4, AnsweredExact

LEMMA SubRefines ==
    ASSUME Inv, call \in Calls, call.op = "Sub", Returned(Ok(Sub(acc, call.arg)))
    PROVE  Contract!Next
<1> DEFINE s == LargerScale(acc, call.arg)
           n == AlignTo(acc, s) - AlignTo(call.arg, s)
<1>1. AsRequest.op = "Sub"
  BY RequestFields
<1>2. Contract!ExactResult.num = n /\ Contract!ExactResult.den = Pow10[s]
  BY <1>1, OperandsAreAligned DEF Contract!ExactResult, Contract!Frac
<1>3. Sub(acc, call.arg) = Dec(n, s)
  BY DEF Sub
<1> HIDE DEF n, s
<1>4. Contract!FracEq(AsFraction(Sub(acc, call.arg)), Contract!ExactResult)
  BY <1>2, <1>3 DEF Contract!FracEq, AsFraction, Dec
<1> QED
  BY <1>4, AnsweredExact

LEMMA MulRefines ==
    ASSUME Inv, call \in Calls, call.op = "Mul", Returned(Ok(Mul(acc, call.arg)))
    PROVE  Contract!Next
<1> DEFINE b == call.arg
           n == acc.coef * b.coef
           s == acc.scale
           t == b.scale
<1>1. /\ Valid(acc) /\ Valid(b) /\ s + t <= MaxScale
      /\ AsRequest.op = "Mul" /\ AsRequest.arg = AsFraction(b)
  BY RequestFields, InvFields
<1>2. Mul(acc, b) = Dec(n, s + t)
  BY <1>1, MulIsProduct
<1>3. Contract!ExactResult.num = n /\ Contract!ExactResult.den = Pow10[s] * Pow10[t]
  BY <1>1 DEF Contract!ExactResult, Contract!Frac, AsFraction
<1>4. s \in Nat /\ t \in Nat
  BY <1>1, ValidFields
<1>5. Pow10[s] * Pow10[t] = Pow10[s + t]
  <2> DEFINE w == 2 * MaxScale
  <2>1. w \in Nat /\ PowersOfTen(Pow10, w) /\ s + t <= w
    BY <1>1, <1>4, Table
  <2> HIDE DEF w, s, t
  <2> QED
    BY <1>4, <2>1, PowersAdd
<1> HIDE DEF n, s, t
<1>6. Contract!FracEq(AsFraction(Mul(acc, b)), Contract!ExactResult)
  BY <1>2, <1>3, <1>5 DEF Contract!FracEq, AsFraction, Dec
<1> QED
  BY <1>6, AnsweredExact

LEMMA MinRefines ==
    ASSUME Inv, call \in Calls, call.op = "Min", Returned(Ok(MinOf(acc, call.arg)))
    PROVE  Contract!Next
<1> DEFINE b == call.arg
<1>1. /\ Valid(acc) /\ Valid(b)
      /\ AsRequest.op = "Min" /\ AsRequest.arg = AsFraction(b)
  BY RequestFields, InvFields
<1>2. Contract!ExactResult = IF acc.coef * Pow10[b.scale] <= b.coef * Pow10[acc.scale]
                               THEN AsFraction(acc) ELSE AsFraction(b)
  BY <1>1 DEF Contract!ExactResult, Contract!FracLeq, AsFraction
<1>3. Cmp(b, acc) < 0 <=> ~(acc.coef * Pow10[b.scale] <= b.coef * Pow10[acc.scale])
  BY <1>1, CmpIsOrder
<1>4. AsFraction(MinOf(acc, b)) = Contract!ExactResult
  BY <1>2, <1>3 DEF MinOf
<1>5. Contract!FracEq(AsFraction(MinOf(acc, b)), Contract!ExactResult)
  BY <1>4 DEF Contract!FracEq
<1> QED
  BY <1>5, AnsweredExact

LEMMA MaxRefines ==
    ASSUME Inv, call \in Calls, call.op = "Max", Returned(Ok(MaxOf(acc, call.arg)))
    PROVE  Contract!Next
<1> DEFINE b == call.arg
<1>1. /\ Valid(acc) /\ Valid(b)
      /\ AsRequest.op = "Max" /\ AsRequest.arg = AsFraction(b)
  BY RequestFields, InvFields
<1>2. Contract!ExactResult = IF b.coef * Pow10[acc.scale] <= acc.coef * Pow10[b.scale]
                               THEN AsFraction(acc) ELSE AsFraction(b)
  BY <1>1 DEF Contract!ExactResult, Contract!FracLeq, AsFraction
<1>3. Cmp(b, acc) > 0 <=> ~(b.coef * Pow10[acc.scale] <= acc.coef * Pow10[b.scale])
  BY <1>1, CmpIsOrder
<1>4. AsFraction(MaxOf(acc, b)) = Contract!ExactResult
  BY <1>2, <1>3 DEF MaxOf
<1>5. Contract!FracEq(AsFraction(MaxOf(acc, b)), Contract!ExactResult)
  BY <1>4 DEF Contract!FracEq
<1> QED
  BY <1>5, AnsweredExact

\* Loading and asking are steps of the contract's caller.
LEMMA CallerRefines ==
    ASSUME Inv, Load \/ \E c \in Calls : Request(c)
    PROVE  Contract!Next
<1>1. call = NoCall /\ AsRequest = Contract!NoCall /\ err' = "nil"
  BY DEF Load, Request, AsRequest, NoCall, Contract!NoCall
<1>2. \A d : Valid(d) => AsFraction(d) \in Contract!Fractions
  BY ValidFields DEF AsFraction, Contract!Fractions
<1>3. CASE Load
  <2>1. call' = NoCall /\ Valid(acc')
    BY <1>1, <1>3, OperandsAssumption DEF Load, Valid
  <2>2. AsRequest' = Contract!NoCall
    BY <2>1 DEF AsRequest, NoCall, Contract!NoCall
  <2>3. AsFraction(acc)' \in Contract!Fractions
    <3>1. AsFraction(acc)' = AsFraction(acc')
      BY DEF AsFraction
    <3> QED
      BY <1>2, <2>1, <3>1
  <2>4. Contract!Load
    BY <1>1, <2>2, <2>3 DEF Contract!Load
  <2> QED
    BY <2>4 DEF Contract!Next
<1>4. CASE \E c \in Calls : Request(c)
  <2>1. PICK c \in Calls : Request(c)
    BY <1>4
  <2>2. call' = c /\ acc' = acc
    BY <2>1 DEF Request
  <2>3. c \in CallRecords /\ c.op \in CallOps /\ c # NoCall /\ Valid(c.arg) /\ c.scale \in Int
    BY <2>1, CallFields
  <2>4. AsRequest' = [c EXCEPT !.arg = AsFraction(@)]
    BY <2>2, <2>3 DEF AsRequest, NoCall, AsFraction
  <2>5. AsRequest'.op = c.op /\ AsRequest'.arg = AsFraction(c.arg) /\ AsRequest'.scale = c.scale
    BY <2>3, <2>4 DEF CallRecords
  <2>6. AsRequest'.op \in Contract!Ops
    BY <2>3, <2>5 DEF CallOps, Contract!Ops, Contract!ExactOps, Contract!RoundedOps, Contract!ExactOnlyOps
  <2>7. AsRequest'.arg \in Contract!Fractions /\ AsRequest'.scale \in Int
    BY <1>2, <2>3, <2>5
  <2>8. AsFraction(acc)' = AsFraction(acc)
    BY <2>2 DEF AsFraction
  <2>9. Contract!Request
    BY <1>1, <2>6, <2>7, <2>8 DEF Contract!Request
  <2> QED
    BY <2>9 DEF Contract!Next
<1> QED
  BY <1>3, <1>4

\* decimal.go: whatever the operands, the scales, the modes and the largest
\* scale, every chain of Decimal calls gives the exact number, the exact number
\* rounded once, all digits of a quotient that ends, or an error the numbers
\* justify.
THEOREM DecimalRefinesExactCalc == Spec => RefinesExactCalc
<1>1. Init => Contract!Init
  <2> SUFFICES ASSUME Init PROVE Contract!Init
    OBVIOUS
  <2>1. Valid(acc) /\ AsRequest = Contract!NoCall /\ err = "nil"
    BY OperandsAssumption DEF Init, AsRequest, NoCall, Contract!NoCall, Valid
  <2>2. AsFraction(acc) \in Contract!Fractions
    BY <2>1, ValidFields DEF AsFraction, Contract!Fractions
  <2> QED
    BY <2>1, <2>2 DEF Contract!Init
<1>2. Inv /\ [Next]_vars => [Contract!Next]_(Contract!vars)
  <2>1. CASE UNCHANGED vars
    <3>1. acc' = acc /\ call' = call /\ err' = err
      BY <2>1 DEF vars
    <3>2. AsFraction(acc)' = AsFraction(acc) /\ AsRequest' = AsRequest
      BY <3>1 DEF AsFraction, AsRequest, NoCall
    <3> QED
      BY <3>1, <3>2 DEF Contract!vars
  <2>2. ASSUME Inv, Next PROVE Contract!Next
    <3>1. ASSUME NEW op \in CallOps, NEW result, Return(op, result)
          PROVE  call \in Calls /\ call.op = op /\ Returned(result)
      BY <2>2, <3>1, ReturnAnswersCall
    <3>2. CASE Load \/ \E c \in Calls : ProductFits(c) /\ CallFits(c) /\ Request(c)
      <4>1. Load \/ \E c \in Calls : Request(c)
        BY <3>2
      <4> QED
        BY <2>2, <4>1, CallerRefines
    <3>3. CASE DoNeg
      BY <2>2, <3>1, <3>3, NegRefines DEF DoNeg, CallOps
    <3>4. CASE DoAbs
      BY <2>2, <3>1, <3>4, AbsRefines DEF DoAbs, CallOps
    <3>5. CASE DoNormalize
      BY <2>2, <3>1, <3>5, NormalizeRefines DEF DoNormalize, CallOps
    <3>6. CASE DoAdd
      BY <2>2, <3>1, <3>6, AddRefines DEF DoAdd, CallOps
    <3>7. CASE DoSub
      BY <2>2, <3>1, <3>7, SubRefines DEF DoSub, CallOps
    <3>8. CASE DoMul
      BY <2>2, <3>1, <3>8, MulRefines DEF DoMul, CallOps
    <3>9. CASE DoMin
      BY <2>2, <3>1, <3>9, MinRefines DEF DoMin, CallOps
    <3>10. CASE DoMax
      BY <2>2, <3>1, <3>10, MaxRefines DEF DoMax, CallOps
    <3>11. CASE DoDiv
      BY <2>2, <3>1, <3>11, DivRefines DEF DoDiv, CallOps
    <3>12. CASE DoDivExact
      BY <2>2, <3>1, <3>12, DivExactRefines DEF DoDivExact, CallOps
    <3>13. CASE DoRescale
      BY <2>2, <3>1, <3>13, RescaleRefines DEF DoRescale, CallOps
    <3>14. CASE DoRescaleExact
      BY <2>2, <3>1, <3>14, RescaleExactRefines DEF DoRescaleExact, CallOps
    <3>15. CASE DoQuantizeStep
      BY <2>2, <3>1, <3>15, QuantizeStepRefines DEF DoQuantizeStep, CallOps
    <3>16. CASE DoQuantizeStepExact
      BY <2>2, <3>1, <3>16, QuantizeStepExactRefines DEF DoQuantizeStepExact, CallOps
    <3> QED
      BY <2>2, <3>2, <3>3, <3>4, <3>5, <3>6, <3>7, <3>8, <3>9, <3>10, <3>11, <3>12, <3>13,
         <3>14, <3>15, <3>16 DEF Next, Returns
  <2> QED
    BY <2>1, <2>2
<1> QED
  BY <1>1, <1>2, InvIsInductive, PTL DEF Spec, RefinesExactCalc, Contract!Spec
=============================================================================
