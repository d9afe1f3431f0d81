---------------------------- MODULE Fixed64Proofs ----------------------------
(***************************************************************************)
(* The int64 operations return what the same operations on unbounded       *)
(* integers return, or ErrOverflow when that does not fit, and the         *)
(* conversion of a Decimal rounds once and stores what fits; from this,    *)
(* for every width of the integers, table of powers, operands, scales and  *)
(* modes: the type invariant, the order of Cmp, the agreement of the fast  *)
(* paths with the Decimal fallbacks, and the refinement of ExactCalc.      *)
(* The second half is about aggregates: sums and averages of Decimal,      *)
(* Money and Fixed64 values, for lists of any length.                      *)
(***************************************************************************)
EXTENDS Fixed64Calc, Aggregates, RoundingProofs, SequenceTheorems

-----------------------------------------------------------------------------
(* The checked operations on int64. *)

LEMMA CheckedAdd64IsSum ==
    ASSUME NEW a \in Int64, NEW b \in Int64
    PROVE  CheckedAdd64(a, b) = {a + b} \cap Int64
<1>1. MaxInt64 \in Nat
  BY Fixed64Assumption
<1>2. (b > 0 /\ a > MaxInt64 - b) \/ (b < 0 /\ a < MinInt64 - b) <=> a + b \notin Int64
  BY <1>1 DEF Int64, MinInt64
<1> QED
  BY <1>2 DEF CheckedAdd64

\* A remainder is smaller than the divisor, whatever the signs.
LEMMA RemainderIsSmall ==
    ASSUME NEW num \in Int, NEW den \in Int \ {0}
    PROVE  /\ Quo(num, den) \in Int /\ Rem(num, den) \in Int
           /\ num = Quo(num, den) * den + Rem(num, den)
           /\ Magnitude(Rem(num, den)) < Magnitude(den)
<1>1. CASE den > 0
  BY <1>1, TruncatedDivision DEF Magnitude
<1>2. CASE den < 0
  <2>1. -den \in Int /\ -den > 0 /\ Magnitude(den) = -den
    BY <1>2 DEF Magnitude
  <2>2. /\ Rem(num, -den) \in Int
        /\ Magnitude(Rem(num, -den)) < -den
    BY <2>1, TruncatedDivision
  <2>3. Rem(num, -den) = Rem(num, den) /\ Quo(num, den) \in Int
    BY NegatedDivisor
  <2> DEFINE p == Quo(num, den) * den
  <2>4. p \in Int /\ Rem(num, den) = num - p
    BY <2>3 DEF Rem
  <2>5. num = p + Rem(num, den)
    <3> HIDE DEF p
    <3> QED
      BY <2>4
  <2> QED
    BY <2>1, <2>2, <2>3, <2>5
<1> QED
  BY <1>1, <1>2

\* Wrap-around keeps a number modulo 2^64 and leaves alone the numbers that fit.
LEMMA WrapAround ==
    ASSUME NEW n \in Int
    PROVE  /\ Wrap64(n) \in Int64
           /\ \E k \in Int : Wrap64(n) = n - k * (2 * (MaxInt64 + 1))
           /\ n \in Int64 => Wrap64(n) = n
<1> DEFINE width == 2 * (MaxInt64 + 1)
           m == n - MinInt64
           k == m \div width
           r == m % width
<1>1. MaxInt64 \in Nat /\ width \in Int /\ width > 0 /\ m \in Int
  BY Fixed64Assumption DEF MinInt64
<1>2. Wrap64(n) = r + MinInt64
  BY DEF Wrap64
<1>3. k \in Int /\ m = k * width + r /\ r \in Int /\ 0 <= r /\ r < width
  <2> HIDE DEF m, width
  <2> QED
    BY <1>1, FloorDivision
<1>4. k * width \in Int
  <2> HIDE DEF k, width
  <2> QED
    BY <1>1, <1>3
<1>5. Wrap64(n) = n - k * width
  <2> DEFINE p == k * width
  <2>1. p \in Int /\ m = p + r
    BY <1>3, <1>4
  <2> HIDE DEF p, r
  <2> QED
    BY <1>1, <1>2, <1>3, <2>1 DEF p, MinInt64
<1>6. Wrap64(n) \in Int64
  <2> HIDE DEF r
  <2> QED
    BY <1>1, <1>2, <1>3 DEF Int64, MinInt64
<1>7. ASSUME n \in Int64 PROVE k = 0
  <2>1. 0 <= m /\ m < width
    BY <1>1, <1>7 DEF Int64, MinInt64
  <2> HIDE DEF k, m, width, r
  <2>2. k >= 1 => k * width >= width
    BY <1>1, <1>3
  <2>3. k <= -1 => k * width <= -width
    BY <1>1, <1>3
  <2> DEFINE p == k * width
  <2> HIDE DEF p
  <2>4. p \in Int /\ m = p + r /\ (k >= 1 => p >= width) /\ (k <= -1 => p <= -width)
    BY <1>3, <1>4, <2>2, <2>3 DEF p
  <2> QED
    BY <1>1, <1>3, <2>1, <2>4
<1>8. 0 * width = 0 /\ n - 0 = n
  BY <1>1
<1> QED
  BY <1>3, <1>5, <1>6, <1>7, <1>8

\* The only int64 quotient that is no int64 is that of the smallest one by -1.
LEMMA QuotientFitsInt64 ==
    ASSUME NEW w \in Int64, NEW b \in Int64 \ {0}, ~(w = MinInt64 /\ b = -1)
    PROVE  Quo(w, b) \in Int64
<1> DEFINE m == Magnitude(w)
           c == Magnitude(b)
           q == m \div c
<1>1. /\ MaxInt64 \in Nat /\ w \in Int /\ b \in Int /\ b # 0
      /\ m \in Nat /\ m <= MaxInt64 + 1 /\ c \in Nat /\ c > 0
  BY Fixed64Assumption DEF Int64, MinInt64, Magnitude
<1>2. q \in Int /\ m = q * c + (m % c) /\ m % c \in Int /\ 0 <= m % c /\ m % c < c
  <2> HIDE DEF m, c
  <2> QED
    BY <1>1, FloorDivision
<1>3. q >= 0 /\ q <= m /\ (c > 1 => q <= MaxInt64)
  <2> DEFINE r == m % c
             p == q * c
  <2> HIDE DEF m, c, q, r
  <2>1. p \in Int /\ m = p + r /\ r \in Int /\ 0 <= r /\ r < c
    BY <1>1, <1>2 DEF r
  <2>2. (q <= -1 => p <= -c) /\ (q >= 0 => p >= q) /\ (q >= 1 /\ c > 1 => p >= q + 1)
    <3>1. q <= -1 => p <= -c
      BY <1>1, <1>2
    <3>2. q >= 0 => p >= q
      BY <1>1, <1>2
    <3>3. q >= 1 /\ c > 1 => p >= 2 * q
      BY <1>1, <1>2
    <3> HIDE DEF p
    <3> QED
      BY <1>2, <2>1, <3>1, <3>2, <3>3
  <2> HIDE DEF p
  <2> QED
    BY <1>1, <1>2, <2>1, <2>2
<1>4. Quo(w, b) = IF (w >= 0) = (b > 0) THEN q ELSE -q
  BY DEF Quo
<1>5. c = 1 => (b = 1 \/ b = -1)
  BY <1>1 DEF Magnitude
<1>6. m = MaxInt64 + 1 => w = MinInt64
  BY <1>1 DEF Magnitude, Int64, MinInt64
<1> HIDE DEF m, c, q
<1>7. CASE q <= MaxInt64
  BY <1>1, <1>2, <1>3, <1>4, <1>7 DEF Int64, MinInt64
<1>8. CASE ~(q <= MaxInt64)
  <2>1. c = 1 /\ q = MaxInt64 + 1 /\ w = MinInt64
    BY <1>1, <1>2, <1>3, <1>6, <1>8
  <2>2. b = 1
    BY <1>5, <2>1
  <2> QED
    BY <1>1, <1>2, <1>4, <2>1, <2>2 DEF Int64, MinInt64
<1> QED
  BY <1>7, <1>8

LEMMA CheckedMul64IsProduct ==
    ASSUME NEW a \in Int64, NEW b \in Int64
    PROVE  CheckedMul64(a, b) = {a * b} \cap Int64
<1>1. MaxInt64 \in Nat /\ a \in Int /\ b \in Int /\ 0 \in Int64
  BY Fixed64Assumption DEF Int64, MinInt64
<1>2. CASE a = 0 \/ b = 0
  <2>1. a * b = 0
    BY <1>1, <1>2
  <2> QED
    BY <1>1, <1>2, <2>1 DEF CheckedMul64
<1>3. CASE a # 0 /\ b # 0 /\ ((a = MinInt64 /\ b = -1) \/ (b = MinInt64 /\ a = -1))
  <2>1. a * b = MaxInt64 + 1
    BY <1>1, <1>3 DEF MinInt64
  <2> QED
    BY <1>1, <1>3, <2>1 DEF CheckedMul64, Int64
<1>4. CASE a # 0 /\ b # 0 /\ ~((a = MinInt64 /\ b = -1) \/ (b = MinInt64 /\ a = -1))
  <2> DEFINE n == a * b
             w == Wrap64(n)
             width == 2 * (MaxInt64 + 1)
  <2>1. n \in Int
    BY <1>1
  <2>3. w \in Int64 /\ (\E k \in Int : w = n - k * width) /\ (n \in Int64 => w = n)
    <3> HIDE DEF n
    <3> QED
      BY <2>1, WrapAround
  <2>8. ~(w = MinInt64 /\ b = -1)
    <3> SUFFICES ASSUME b = -1 PROVE w # MinInt64
      OBVIOUS
    <3>1. n = -a /\ a # MinInt64
      BY <1>1, <1>4
    <3>2. n \in Int64 /\ n # MinInt64
      BY <1>1, <3>1 DEF Int64, MinInt64
    <3> QED
      BY <2>3, <3>2
  <2>9. Wrap64(Quo(w, b)) = Quo(w, b)
    <3> HIDE DEF w
    <3>1. Quo(w, b) \in Int64
      BY <1>4, <2>3, <2>8, QuotientFitsInt64
    <3>2. Quo(w, b) \in Int
      BY <1>1, <3>1 DEF Int64, MinInt64
    <3> QED
      BY <3>1, <3>2, WrapAround
  <2>2. CheckedMul64(a, b) = IF Quo(w, b) # a THEN {} ELSE {w}
    BY <1>4, <2>9 DEF CheckedMul64
  <2>4. n \in Int64 => Quo(w, b) = a
    <3>1. Quo(n, b) = a
      BY <1>1, <1>4, ExactQuotient
    <3> QED
      BY <2>3, <3>1
  <2>5. ASSUME Quo(w, b) = a PROVE w = n
    <3> DEFINE r == Rem(w, b)
    <3>1. w \in Int
      BY <1>1, <2>3 DEF Int64, MinInt64
    <3>2. w = n + r /\ r \in Int /\ Magnitude(r) < Magnitude(b)
      <4> HIDE DEF w
      <4> QED
        BY <1>1, <1>4, <2>5, <3>1, RemainderIsSmall
    <3>3. PICK k \in Int : w = n - k * width
      BY <2>3
    <3> DEFINE p == k * width
    <3> HIDE DEF w, n, r
    <3>4. p \in Int /\ (k >= 1 => p >= width) /\ (k <= -1 => p <= -width) /\ (k = 0 => p = 0)
      BY <1>1
    <3>5. w = n - p
      BY <3>3
    <3>6. p = -r
      <4> HIDE DEF p
      <4> QED
        BY <2>1, <3>1, <3>2, <3>4, <3>5
    <3>7. -width < p /\ p < width
      <4> HIDE DEF p
      <4> QED
        BY <1>1, <3>2, <3>6 DEF Magnitude, Int64, MinInt64
    <3>8. k = 0
      <4> HIDE DEF p
      <4> QED
        BY <1>1, <3>4, <3>7
    <3> HIDE DEF p
    <3> QED
      BY <2>1, <3>4, <3>5, <3>8
  <2> HIDE DEF w
  <2>6. CASE Quo(w, b) = a
    BY <2>2, <2>3, <2>5, <2>6
  <2>7. CASE Quo(w, b) # a
    BY <2>2, <2>4, <2>7
  <2> QED
    BY <2>6, <2>7
<1> QED
  BY <1>2, <1>3, <1>4

LEMMA Constants ==
    /\ MaxInt64 \in Nat /\ MaxFixedScale \in Nat /\ MaxScale \in Nat
    /\ 2 * MaxFixedScale <= MaxScale
    /\ PowersOfTen(Pow10, 2 * MaxScale)
    /\ Int64 \subseteq Int /\ 0 \in Int64
    /\ \A s \in 0 .. MaxScale : Pow10[s] \in Nat \ {0}
    /\ Pow10[0] = 1
<1>1. MaxInt64 \in Nat /\ MaxFixedScale \in Nat /\ MaxScale \in Nat
  BY Fixed64Assumption
<1>2. \A s \in 0 .. MaxScale : s \in 0 .. 2 * MaxScale
  BY <1>1
<1> QED
  BY <1>1, <1>2, Fixed64Assumption DEF Int64, MinInt64, PowersOfTen

LEMMA PowerFits ==
    ASSUME NEW delta \in 0 .. MaxFixedScale
    PROVE  Pow10[delta] \in Int64
<1>1. /\ delta \in Nat /\ delta <= MaxFixedScale /\ MaxFixedScale \in Nat
      /\ 2 * MaxScale \in Nat /\ MaxFixedScale <= 2 * MaxScale
  BY Constants
<1>2. Pow10[delta] \in Nat /\ Pow10[delta] <= Pow10[MaxFixedScale] /\ Pow10[MaxFixedScale] \in Nat
  BY <1>1, Constants, PowersGrow
<1> QED
  BY <1>2, Fixed64Assumption DEF Int64, MinInt64

LEMMA PowerIsPositive ==
    ASSUME NEW delta \in 0 .. MaxFixedScale
    PROVE  Pow10[delta] \in Int /\ Pow10[delta] > 0
<1>1. delta \in 0 .. MaxScale
  <2>1. MaxFixedScale \in Nat /\ MaxScale \in Nat /\ 2 * MaxFixedScale <= MaxScale
    BY Constants
  <2> QED
    BY <2>1
<1> QED
  BY <1>1, Constants

LEMMA ScaleUnits64IsShift ==
    ASSUME NEW us \in Int64, NEW delta \in 0 .. MaxFixedScale
    PROVE  ScaleUnits64(us, delta) = {us * Pow10[delta]} \cap Int64
<1>1. Pow10[delta] \in Int64 /\ ~(delta < 0 \/ delta > MaxFixedScale)
  BY PowerFits, Constants
<1> QED
  BY <1>1, CheckedMul64IsProduct DEF ScaleUnits64

\* divRoundFixed64Units, and the rounding branch of Rescale: roundQuotient when
\* the result fits.
LEMMA DivRoundIsRounded ==
    ASSUME NEW n \in Int64, NEW d \in Int, d > 0, NEW md
    PROVE  /\ DivRound(n, d, md) = {RoundQuotient(n, d, md)} \cap Int64
           /\ RoundQuotient(n, d, md) \in Int
<1> DEFINE q == Quo(n, d)
           r == Rem(n, d)
           away == r # 0 /\ RoundsAway(q, r, d, Sign(n), md)
           p == q * d
<1>1. n \in Int /\ MaxInt64 \in Nat /\ Magnitude(d) = d
  BY Constants DEF Magnitude
<1>2. /\ q \in Int /\ r \in Int /\ n = p + r /\ Magnitude(r) < d
      /\ n >= 0 => r >= 0 /\ q >= 0
      /\ n <= 0 => r <= 0 /\ q <= 0
  BY <1>1, TruncatedDivision
<1>3. p \in Int /\ (q >= 0 => p >= q) /\ (q <= 0 => p <= q)
  <2> HIDE DEF q
  <2>1. q >= 0 => q * d >= q
    BY <1>2
  <2>2. q <= 0 => q * d <= q
    BY <1>2
  <2> QED
    BY <1>2, <2>1, <2>2
<1>4. q \in Int64
  <2> HIDE DEF q, r, p
  <2> QED
    BY <1>1, <1>2, <1>3 DEF Int64, MinInt64
<1>5. n = 0 => r = 0
  <2> HIDE DEF q, r, p
  <2> QED
    BY <1>1, <1>2
<1>6. n # 0 => Sign(n) = (IF n < 0 THEN -1 ELSE 1)
  BY <1>1 DEF Sign
<1>7. RoundQuotient(n, d, md) = IF away THEN q + Sign(n) ELSE q
  BY <1>1 DEF RoundQuotient
<1>8. DivRound(n, d, md) = IF away THEN CheckedAdd64(q, Sign(n)) ELSE {q}
  <2> HIDE DEF q, r
  <2>1. DivRound(n, d, md)
          = IF r # 0 /\ RoundsAway(q, r, d, IF n < 0 THEN -1 ELSE 1, md)
              THEN CheckedAdd64(q, IF n < 0 THEN -1 ELSE 1) ELSE {q}
    BY DEF DivRound, q, r
  <2> QED
    BY <1>5, <1>6, <2>1
<1>9. Sign(n) \in Int /\ (away => Sign(n) \in Int64)
  <2>1. n # 0 => q \in Int /\ (n = 1 \/ n = -1 \/ Magnitude(n) > 1)
    BY <1>1, <1>2 DEF Magnitude
  <2>2. n > 0 => 1 \in Int64
    BY <1>1 DEF Int64, MinInt64
  <2>3. n < 0 => -1 \in Int64
    BY <1>1 DEF Int64, MinInt64
  <2> QED
    BY <1>1, <1>5, <2>2, <2>3 DEF Sign
<1> HIDE DEF away, q
<1>10. CASE away
  BY <1>2, <1>4, <1>7, <1>8, <1>9, <1>10, CheckedAdd64IsSum
<1>11. CASE ~away
  BY <1>2, <1>4, <1>7, <1>8, <1>11
<1> QED
  BY <1>10, <1>11

-----------------------------------------------------------------------------
(* Results.  Stored: what an operation on unbounded integers returns when   *)
(* its result has to be stored in an int64.                                 *)

Stored(n, sc) == IF n \in Int64 THEN Ok(Fixed(n, sc)) ELSE Fail("ErrOverflow")

LEMMA OrOverflowIsStored ==
    ASSUME NEW n, NEW sc
    PROVE  OrOverflow({n} \cap Int64, sc) = Stored(n, sc)
<1>1. CASE n \in Int64
  <2>1. {n} \cap Int64 = {n} /\ (CHOOSE u \in {n} : TRUE) = n
    BY <1>1
  <2> QED
    BY <1>1, <2>1 DEF OrOverflow, Stored
<1>2. CASE n \notin Int64
  <2>1. {n} \cap Int64 = {}
    BY <1>2
  <2> QED
    BY <1>2, <2>1 DEF OrOverflow, Stored
<1> QED
  BY <1>1, <1>2

LEMMA StoredIsFixed64 ==
    ASSUME NEW n, NEW sc \in 0 .. MaxFixedScale
    PROVE  /\ Stored(n, sc).err \in {"nil", "ErrOverflow"}
           /\ Stored(n, sc).err = "nil" => Stored(n, sc).val \in Fixed64s
           /\ Stored(n, sc).err = "nil" <=> n \in Int64
           /\ n \in Int64 => Stored(n, sc).val = Fixed(n, sc)
  BY DEF Stored, Ok, Fail, Fixed, Fixed64s

LEMMA Fields ==
    ASSUME NEW f \in Fixed64s
    PROVE  /\ f.units \in Int64 /\ f.units \in Int
           /\ f.scale \in 0 .. MaxFixedScale /\ f.scale \in Nat /\ f.scale <= MaxFixedScale
           /\ f = Fixed(f.units, f.scale)
           /\ ValidFixed64Scale(f.scale)
           /\ Pow10[f.scale] \in Nat \ {0}
<1>1. f.units \in Int64 /\ f.scale \in 0 .. MaxFixedScale /\ f = Fixed(f.units, f.scale)
  BY DEF Fixed64s, Fixed
<1> DEFINE u == f.units
           s == f.scale
<1> HIDE DEF u, s
<1>2. u \in Int /\ s \in 0 .. MaxScale /\ s \in Nat /\ s <= MaxFixedScale /\ 0 <= s
  <2>1. MaxFixedScale \in Nat /\ MaxScale \in Nat /\ 2 * MaxFixedScale <= MaxScale /\ Int64 \subseteq Int
    BY Constants
  <2>2. u \in Int64 /\ s \in 0 .. MaxFixedScale
    BY <1>1 DEF u, s
  <2>3. s \in 0 .. MaxScale /\ s \in Nat /\ s <= MaxFixedScale /\ 0 <= s
    BY <2>1, <2>2
  <2> QED
    BY <2>1, <2>2, <2>3
<1>3. Pow10[s] \in Nat \ {0}
  BY <1>2, Constants
<1> QED
  BY <1>1, <1>2, <1>3 DEF ValidFixed64Scale, u, s

\* The Decimal module's arithmetic is this module's.
LEMMA SameArithmetic ==
    /\ D!RoundingModes = RoundingModes
    /\ \A n : D!Magnitude(n) = Magnitude(n) /\ D!Sign(n) = Sign(n)
    /\ \A n, d : D!Quo(n, d) = Quo(n, d) /\ D!Rem(n, d) = Rem(n, d)
    /\ \A n, d, md : D!RoundQuotient(n, d, md) = RoundQuotient(n, d, md)
<1>1. D!RoundingModes = RoundingModes /\ D!NearestModes = NearestModes
  BY DEF D!RoundingModes, RoundingModes, D!NearestModes, NearestModes, D!DirectedModes, DirectedModes
<1>2. \A n : D!Magnitude(n) = Magnitude(n) /\ D!Sign(n) = Sign(n)
  BY DEF D!Magnitude, Magnitude, D!Sign, Sign
<1>3. \A n, d : D!Quo(n, d) = Quo(n, d) /\ D!Rem(n, d) = Rem(n, d)
  BY <1>2 DEF D!Quo, Quo, D!Rem, Rem
<1>4. \A q, r, d, s, md : D!RoundsAway(q, r, d, s, md) = RoundsAway(q, r, d, s, md)
  BY <1>1, <1>2 DEF D!RoundsAway, RoundsAway
<1>5. \A n, d, md : D!RoundQuotient(n, d, md) = RoundQuotient(n, d, md)
  BY <1>2, <1>3, <1>4 DEF D!RoundQuotient, RoundQuotient
<1> QED
  BY <1>1, <1>2, <1>3, <1>5

LEMMA DecimalOf ==
    ASSUME NEW f \in Fixed64s
    PROVE  Decimal(f) = D!Dec(f.units, f.scale) /\ Decimal(f).coef = f.units /\ Decimal(f).scale = f.scale
<1>1. ~(f.scale < 0)
  BY Fields
<1> QED
  BY <1>1 DEF Decimal, D!New, D!Ok, D!Dec

\* Decimal.Rescale to a scale the Fixed64 table covers, as one quantity
Rescaled(coef, from, to, md) ==
    IF to >= from THEN coef * Pow10[to - from] ELSE RoundQuotient(coef, Pow10[from - to], md)

LEMMA FromDecimalIsStored ==
    ASSUME NEW d, NEW sc \in Int, NEW md
    PROVE  Fixed64FromDecimal(d, sc, md)
             = IF ~ValidFixed64Scale(sc) THEN Fail("ErrInvalidScale")
               ELSE IF md \notin RoundingModes THEN Fail("ErrInvalidRoundingMode")
               ELSE Stored(Rescaled(d.coef, d.scale, sc, md), sc)
<1>1. CASE ~ValidFixed64Scale(sc)
  BY <1>1 DEF Fixed64FromDecimal
<1>2. CASE ValidFixed64Scale(sc)
  <2>1. ~(sc < 0)
    BY <1>2 DEF ValidFixed64Scale
  <2> DEFINE r == D!Rescale(d, sc, md)
  <2>2. Fixed64FromDecimal(d, sc, md)
          = IF r.err # "nil" THEN Fail(r.err) ELSE OrOverflow({r.val.coef} \cap Int64, sc)
    BY <1>2 DEF Fixed64FromDecimal
  <2>3. CASE md \notin RoundingModes
    <3>1. r.err = "ErrInvalidRoundingMode"
      BY <2>1, <2>3, SameArithmetic DEF D!Rescale, D!Fail
    <3> QED
      BY <1>2, <2>2, <2>3, <3>1
  <2>4. CASE md \in RoundingModes
    <3>1. r.err = "nil" /\ r.val.coef = Rescaled(d.coef, d.scale, sc, md)
      BY <2>1, <2>4, SameArithmetic DEF D!Rescale, D!Ok, D!Dec, Rescaled
    <3> QED
      BY <1>2, <2>2, <2>4, <3>1, OrOverflowIsStored
  <2> QED
    BY <2>3, <2>4
<1> QED
  BY <1>1, <1>2

LEMMA RescaledInPlace ==
    ASSUME NEW coef \in Int, NEW sc \in Int, NEW md
    PROVE  Rescaled(coef, sc, sc, md) = coef
<1>1. sc >= sc /\ sc - sc = 0 /\ coef * 1 = coef
  OBVIOUS
<1> QED
  BY <1>1, Constants DEF Rescaled

-----------------------------------------------------------------------------
(* The fast paths against the Decimal fallbacks. *)

\* fixed64.go Rescale: shifting and rounding int64 units is rescaling the Decimal.
LEMMA RescaleIsDecimal ==
    ASSUME NEW f \in Fixed64s, NEW sc \in Int, NEW md
    PROVE  Rescale(f, sc, md) = Fixed64FromDecimal(Decimal(f), sc, md)
<1>1. Fixed64FromDecimal(Decimal(f), sc, md)
        = IF ~ValidFixed64Scale(sc) THEN Fail("ErrInvalidScale")
          ELSE IF md \notin RoundingModes THEN Fail("ErrInvalidRoundingMode")
          ELSE Stored(Rescaled(f.units, f.scale, sc, md), sc)
  BY DecimalOf, FromDecimalIsStored
<1>2. CASE ~ValidFixed64Scale(sc) \/ md \notin RoundingModes
  BY <1>1, <1>2 DEF Rescale
<1>3. CASE ValidFixed64Scale(sc) /\ md \in RoundingModes
  <2> DEFINE u == f.units
             s == f.scale
  <2>1. u \in Int64 /\ u \in Int /\ s \in Nat /\ s <= MaxFixedScale /\ f = Fixed(u, s)
    BY Fields
  <2> HIDE DEF u, s
  <2>2. /\ 0 <= sc /\ sc <= MaxFixedScale /\ MaxFixedScale \in Nat
        /\ sc >= s => sc - s \in 0 .. MaxFixedScale
        /\ sc < s => s - sc \in 0 .. MaxFixedScale
    BY <1>3, <2>1, Constants DEF ValidFixed64Scale
  <2>3. Rescale(f, sc, md)
          = IF sc = s THEN Ok(Fixed(u, s))
            ELSE IF sc > s THEN OrOverflow(ScaleUnits64(u, sc - s), sc)
            ELSE OrOverflow(DivRound(u, Pow10[s - sc], md), sc)
    BY <1>3, <2>1 DEF Rescale, u, s
  <2>4. CASE sc = s
    <3>1. Rescaled(u, s, sc, md) = u
      BY <2>1, <2>4, RescaledInPlace
    <3>2. Stored(u, s) = Ok(Fixed(u, s))
      BY <2>1 DEF Stored
    <3> QED
      BY <1>1, <1>3, <2>3, <2>4, <3>1, <3>2 DEF u, s
  <2>5. CASE sc > s
    <3>1. ScaleUnits64(u, sc - s) = {u * Pow10[sc - s]} \cap Int64
      BY <2>1, <2>2, <2>5, ScaleUnits64IsShift
    <3>2. Rescale(f, sc, md) = Stored(u * Pow10[sc - s], sc)
      BY <2>1, <2>3, <2>5, <3>1, OrOverflowIsStored
    <3>3. Rescaled(u, s, sc, md) = u * Pow10[sc - s]
      BY <2>1, <2>5 DEF Rescaled
    <3> QED
      BY <1>1, <1>3, <3>2, <3>3 DEF u, s
  <2>6. CASE sc < s
    <3>1. Pow10[s - sc] \in Int /\ Pow10[s - sc] > 0
      BY <2>1, <2>2, <2>6, PowerIsPositive
    <3>2. DivRound(u, Pow10[s - sc], md) = {RoundQuotient(u, Pow10[s - sc], md)} \cap Int64
      BY <2>1, <3>1, DivRoundIsRounded
    <3>3. Rescale(f, sc, md) = Stored(RoundQuotient(u, Pow10[s - sc], md), sc)
      BY <2>1, <2>3, <2>6, <3>2, OrOverflowIsStored
    <3>4. Rescaled(u, s, sc, md) = RoundQuotient(u, Pow10[s - sc], md)
      BY <2>1, <2>6 DEF Rescaled
    <3> QED
      BY <1>1, <1>3, <3>3, <3>4 DEF u, s
  <2> QED
    BY <2>1, <2>4, <2>5, <2>6
<1> QED
  BY <1>2, <1>3

LEMMA ScaleSumFits ==
    ASSUME NEW a \in 0 .. MaxFixedScale, NEW b \in 0 .. MaxFixedScale
    PROVE  D!AddScale(a, b) = a + b
<1> DEFINE n == a + b + MaxScale + 1
           width == 2 * (MaxScale + 1)
<1>1. n \in Int /\ width \in Int /\ width > 0 /\ 0 <= n /\ n < width /\ n - (MaxScale + 1) = a + b
  BY Constants
<1> HIDE DEF n, width
<1>2. n % width = n
  <2> DEFINE k == n \div width
             r == n % width
             p == k * width
  <2>1. k \in Int /\ n = p + r /\ r \in Int /\ 0 <= r /\ r < width
    BY <1>1, FloorDivision
  <2>2. p \in Int /\ (k >= 1 => p >= width) /\ (k <= -1 => p <= -width) /\ (k = 0 => p = 0)
    <3> HIDE DEF k
    <3> QED
      BY <1>1, <2>1
  <2> HIDE DEF k, r, p
  <2> QED
    BY <1>1, <2>1, <2>2 DEF r
<1>3. D!AddScale(a, b) = (n % width) - (MaxScale + 1)
  BY DEF D!AddScale, D!WrapScale, n, width
<1> QED
  BY <1>1, <1>2, <1>3

\* fixed64.go Mul: the int64 product rescaled, and the Decimal product converted
\* back, are the same.
LEMMA MulIsDecimal ==
    ASSUME NEW a \in Fixed64s, NEW b \in Fixed64s, NEW sc \in Int, NEW md
    PROVE  /\ Mul(a, b, sc, md) = Fixed64FromDecimal(D!Mul(Decimal(a), Decimal(b)), sc, md)
           /\ D!Mul(Decimal(a), Decimal(b)).coef = a.units * b.units
           /\ D!Mul(Decimal(a), Decimal(b)).scale = a.scale + b.scale
<1> DEFINE n == a.units * b.units
           s == a.scale + b.scale
           d == D!Mul(Decimal(a), Decimal(b))
<1>1. D!AddScale(a.scale, b.scale) = s /\ s \in Nat
  BY Fields, ScaleSumFits
<1>2. d.coef = n /\ d.scale = s
  BY <1>1, DecimalOf DEF D!Mul, D!Dec
<1>3. CASE ~ValidFixed64Scale(sc)
  BY <1>2, <1>3, FromDecimalIsStored DEF Mul
<1>4. CASE ValidFixed64Scale(sc) /\ CheckedMul64(a.units, b.units) # {} /\ ValidFixed64Scale(s)
  <2>1. n \in Int64
    BY <1>4, Fields, CheckedMul64IsProduct
  <2>2. s \in 0 .. MaxFixedScale
    BY <1>1, <1>4, Constants DEF ValidFixed64Scale
  <2> HIDE DEF n, s, d
  <2>3. Fixed(n, s) \in Fixed64s /\ Fixed(n, s).units = n /\ Fixed(n, s).scale = s
    BY <2>1, <2>2 DEF Fixed64s, Fixed
  <2>4. Rescale(Fixed(n, s), sc, md) = Fixed64FromDecimal(Decimal(Fixed(n, s)), sc, md)
    BY <2>3, RescaleIsDecimal
  <2>5. Fixed64FromDecimal(Decimal(Fixed(n, s)), sc, md) = Fixed64FromDecimal(d, sc, md)
    BY <1>2, <2>3, DecimalOf, FromDecimalIsStored
  <2>6. Mul(a, b, sc, md) = Rescale(Fixed(n, s), sc, md)
    <3>1. CheckedMul64(a.units, b.units) = {n}
      BY <2>1, Fields, CheckedMul64IsProduct DEF n
    <3>2. (CHOOSE p \in {n} : TRUE) = n
      OBVIOUS
    <3> QED
      BY <1>4, <3>1, <3>2 DEF Mul, s
  <2> QED
    BY <1>2, <2>4, <2>5, <2>6 DEF n, s, d
<1>5. CASE ValidFixed64Scale(sc) /\ ~(CheckedMul64(a.units, b.units) # {} /\ ValidFixed64Scale(s))
  BY <1>2, <1>5 DEF Mul
<1> QED
  BY <1>3, <1>4, <1>5

-----------------------------------------------------------------------------
(* Quotients. *)

\* Decimal.Div of two coefficients at their scales, before it is stored
Quotient(n, from, d, by, sc, md) ==
    LET e == by + sc - from
    IN  RoundQuotient(n * (IF e >= 0 THEN Pow10[e] ELSE 1), d * (IF e >= 0 THEN 1 ELSE Pow10[-e]), md)

LEMMA QuotientIsInteger ==
    ASSUME NEW n \in Int, NEW from \in 0 .. MaxFixedScale, NEW d \in Int \ {0},
           NEW by \in 0 .. MaxFixedScale, NEW sc \in 0 .. MaxFixedScale, NEW md \in RoundingModes
    PROVE  Quotient(n, from, d, by, sc, md) \in Int
<1> DEFINE e == by + sc - from
           up == IF e >= 0 THEN Pow10[e] ELSE 1
           down == IF e >= 0 THEN 1 ELSE Pow10[-e]
<1>1. e \in Int /\ (e >= 0 => e \in 0 .. MaxScale) /\ (e < 0 => -e \in 0 .. MaxScale)
  BY Constants
<1>2. up \in Nat \ {0} /\ down \in Nat \ {0}
  BY <1>1, Constants
<1> HIDE DEF up, down
<1>3. n * up \in Int /\ d * down \in Int \ {0}
  BY <1>2
<1>4. RoundQuotient(n * up, d * down, md) \in Int
  BY <1>3, RoundQuotientIsRounded
<1> QED
  BY <1>4 DEF Quotient, up, down

LEMMA DecimalQuotient ==
    ASSUME NEW n, NEW from, NEW d, NEW by, NEW sc \in Nat, NEW md, d # 0
    PROVE  D!Div(D!Dec(n, from), D!Dec(d, by), sc, md)
             = IF md \notin RoundingModes THEN D!Fail("ErrInvalidRoundingMode")
               ELSE D!Ok(D!Dec(Quotient(n, from, d, by, sc, md), sc))
<1>1. /\ D!Dec(n, from).coef = n /\ D!Dec(n, from).scale = from
      /\ D!Dec(d, by).coef = d /\ D!Dec(d, by).scale = by
  BY DEF D!Dec
<1>2. ~(sc < 0) /\ ~D!IsZero(D!Dec(d, by))
  BY <1>1 DEF D!IsZero
<1> HIDE DEF D!Dec
<1>3. RoundQuotient(D!Numerator(D!Dec(n, from), D!Dec(d, by), sc),
                    D!Denominator(D!Dec(n, from), D!Dec(d, by), sc), md)
        = Quotient(n, from, d, by, sc, md)
  BY <1>1 DEF D!Numerator, D!Denominator, Quotient
<1> QED
  BY <1>2, <1>3, SameArithmetic DEF D!Div

\* fixed64.go Div goes through Decimal; converting back never rounds again.
LEMMA DivIsStored ==
    ASSUME NEW a \in Fixed64s, NEW b \in Fixed64s, NEW sc \in Int, NEW md
    PROVE  Div(a, b, sc, md)
             = IF b.units = 0 THEN Fail("ErrDivisionByZero")
               ELSE IF ~ValidFixed64Scale(sc) THEN Fail("ErrInvalidScale")
               ELSE IF md \notin RoundingModes THEN Fail("ErrInvalidRoundingMode")
               ELSE Stored(Quotient(a.units, a.scale, b.units, b.scale, sc, md), sc)
<1>1. CASE b.units = 0 \/ ~ValidFixed64Scale(sc)
  BY <1>1 DEF Div
<1>2. CASE b.units # 0 /\ ValidFixed64Scale(sc)
  <2> DEFINE q == Quotient(a.units, a.scale, b.units, b.scale, sc, md)
             out == D!Div(Decimal(a), Decimal(b), sc, md)
  <2>1. sc \in Nat /\ sc \in 0 .. MaxFixedScale
    BY <1>2, Constants DEF ValidFixed64Scale
  <2>2. out = IF md \notin RoundingModes THEN D!Fail("ErrInvalidRoundingMode")
              ELSE D!Ok(D!Dec(q, sc))
    BY <1>2, <2>1, DecimalOf, DecimalQuotient
  <2>3. Div(a, b, sc, md)
          = IF out.err # "nil" THEN Fail(out.err) ELSE Fixed64FromDecimal(out.val, sc, "TowardZero")
    BY <1>2 DEF Div
  <2> HIDE DEF q, out
  <2>4. CASE md \notin RoundingModes
    BY <1>2, <2>2, <2>3, <2>4 DEF D!Fail
  <2>5. CASE md \in RoundingModes
    <3>1. q \in Int
      BY <1>2, <2>1, <2>5, Fields, QuotientIsInteger DEF q
    <3>2. out.err = "nil" /\ out.val.coef = q /\ out.val.scale = sc
      BY <2>2, <2>5 DEF D!Ok, D!Dec
    <3>3. "TowardZero" \in RoundingModes
      BY DEF RoundingModes, DirectedModes
    <3>4. Fixed64FromDecimal(out.val, sc, "TowardZero") = Stored(Rescaled(q, sc, sc, "TowardZero"), sc)
      BY <1>2, <3>2, <3>3, FromDecimalIsStored
    <3>5. Rescaled(q, sc, sc, "TowardZero") = q
      BY <2>1, <3>1, RescaledInPlace
    <3> QED
      BY <1>2, <2>3, <2>5, <3>2, <3>4, <3>5 DEF q
  <2> QED
    BY <2>4, <2>5
<1> QED
  BY <1>1, <1>2

\* The number of steps of |step| nearest to a value, times the step
Stepped(f, step, md) ==
    Quotient(f.units, f.scale, Magnitude(step.units), step.scale, 0, md) * Magnitude(step.units)

LEMMA StepIsDecimal ==
    ASSUME NEW f \in Fixed64s, NEW step \in Fixed64s, step.units # 0, NEW md
    PROVE  /\ QuantizeStepDecimal(f, step, md)
                = IF md \notin RoundingModes THEN Fail("ErrInvalidRoundingMode")
                  ELSE Stored(Stepped(f, step, md), step.scale)
           /\ md \in RoundingModes => Stepped(f, step, md) \in Int
<1> DEFINE m == Magnitude(step.units)
           s == step.scale
           q == Quotient(f.units, f.scale, m, s, 0, md)
           abs == D!Abs(Decimal(step))
           us == D!Div(Decimal(f), abs, 0, md)
           out == D!QuantizeStep(Decimal(f), abs, md)
<1>1. m \in Int /\ m # 0 /\ m > 0
  BY Fields DEF Magnitude
<1>2. abs = D!Dec(m, s) /\ abs.coef = m /\ abs.scale = s
  BY DecimalOf, SameArithmetic DEF D!Abs, D!Dec
<1>3. us = IF md \notin RoundingModes THEN D!Fail("ErrInvalidRoundingMode")
              ELSE D!Ok(D!Dec(q, 0))
  BY <1>1, <1>2, DecimalOf, DecimalQuotient
<1>4. out = IF us.err # "nil" THEN us
            ELSE D!Rescale(D!Mul(us.val, abs), s, "TowardZero")
  <2>1. ~D!IsZero(abs)
    BY <1>1, <1>2 DEF D!IsZero
  <2>2. D!Abs(abs) = abs
    BY <1>1, <1>2, SameArithmetic DEF D!Abs, Magnitude
  <2> HIDE DEF abs
  <2> QED
    BY <1>2, <2>1, <2>2 DEF D!QuantizeStep
<1>5. QuantizeStepDecimal(f, step, md)
        = IF out.err # "nil" THEN Fail(out.err) ELSE Fixed64FromDecimal(out.val, s, "TowardZero")
  BY DEF QuantizeStepDecimal
<1>6. CASE md \notin RoundingModes
  <2> HIDE DEF out, us
  <2> QED
    BY <1>3, <1>4, <1>5, <1>6 DEF D!Fail
<1>7. CASE md \in RoundingModes
  <2>1. s \in 0 .. MaxFixedScale /\ s \in Nat /\ 0 \in 0 .. MaxFixedScale /\ f.scale \in 0 .. MaxFixedScale
        /\ f.units \in Int
    BY Fields, Constants
  <2> HIDE DEF m, s, abs, us, out
  <2>2. q \in Int
    <3>1. m \in Int \ {0}
      BY <1>1
    <3> QED
      BY <1>7, <2>1, <3>1, QuotientIsInteger
  <2> HIDE DEF q
  <2>3. us.err = "nil" /\ us.val = D!Dec(q, 0)
    BY <1>3, <1>7 DEF D!Ok
  <2> DEFINE d == D!Mul(us.val, abs)
             n == q * m
  <2>4. d.coef = n /\ d.scale = s
    <3>1. D!AddScale(0, s) = s
      BY <2>1, ScaleSumFits
    <3> QED
      BY <1>2, <2>3, <3>1 DEF D!Mul, D!Dec
  <2>5. n \in Int
    BY <1>1, <2>2
  <2> HIDE DEF d, n
  <2>6. "TowardZero" \in RoundingModes
    BY DEF RoundingModes, DirectedModes
  <2>7. D!Rescale(d, s, "TowardZero") = D!Ok(D!Dec(n, s))
    <3>1. s >= d.scale /\ s - d.scale = 0 /\ d.coef * Pow10[0] = n /\ ~(s < 0)
      BY <2>1, <2>4, <2>5, Constants
    <3> QED
      BY <2>6, <3>1, SameArithmetic DEF D!Rescale
  <2>8. out.err = "nil" /\ out.val.coef = n /\ out.val.scale = s
    BY <1>4, <2>3, <2>7 DEF D!Ok, D!Dec, d
  <2>9. Fixed64FromDecimal(out.val, s, "TowardZero") = Stored(n, s)
    <3>1. ValidFixed64Scale(s)
      BY Fields DEF s
    <3>2. Rescaled(n, s, s, "TowardZero") = n
      BY <2>1, <2>5, RescaledInPlace
    <3> QED
      BY <2>1, <2>6, <2>8, <3>1, <3>2, FromDecimalIsStored
  <2> QED
    BY <1>5, <1>7, <2>5, <2>8, <2>9 DEF Stepped, n, q, m, s
<1> QED
  BY <1>6, <1>7

\* fixed64QuantizeStepFast: when no int64 step overflows it finds the same units.
LEMMA FastStepIsStepped ==
    ASSUME NEW f \in Fixed64s, NEW step \in Fixed64s, step.units # 0, NEW md
    PROVE  QuantizeStepFast(f, step, md) \subseteq {Stepped(f, step, md)} \cap Int64
<1> DEFINE m == Magnitude(step.units)
           u == f.units
           from == f.scale
           by == step.scale
           e == by + 0 - from
           q == Quotient(u, from, m, by, 0, md)
           numerators == IF by > from THEN ScaleUnits64(u, by - from) ELSE {u}
           divisors(s) == IF by < from THEN ScaleUnits64(s, from - by) ELSE {s}
<1>1. /\ u \in Int64 /\ u \in Int /\ from \in Nat /\ by \in Nat /\ from <= MaxFixedScale /\ by <= MaxFixedScale
      /\ step.units \in Int64 /\ step.units \in Int /\ m \in Int /\ m > 0 /\ MaxFixedScale \in Nat
      /\ MaxInt64 \in Nat
  BY Fields, Constants DEF Magnitude
<1>2. SUFFICES ASSUME NEW x \in QuantizeStepFast(f, step, md)
               PROVE  x = q * m /\ x \in Int64
  BY DEF Stepped
<1>3. PICK s \in (IF step.units = MinInt64 THEN {} ELSE {m}) :
         \E n \in numerators, d \in divisors(s) : \E k \in DivRound(n, d, md) : x \in CheckedMul64(k, s)
  BY DEF QuantizeStepFast
<1>4. s = m /\ s \in Int64
  BY <1>1, <1>3 DEF Magnitude, Int64, MinInt64
<1>5. PICK n \in numerators, d \in divisors(m) : \E k \in DivRound(n, d, md) : x \in CheckedMul64(k, m)
  BY <1>3, <1>4
<1>6. PICK k \in DivRound(n, d, md) : x \in CheckedMul64(k, m)
  BY <1>5
<1> HIDE DEF m, u, from, by, q
<1>7. /\ n \in Int64 /\ n = u * (IF e >= 0 THEN Pow10[e] ELSE 1)
      /\ d \in Int /\ d > 0 /\ d = m * (IF e >= 0 THEN 1 ELSE Pow10[-e])
  <2>1. CASE by > from
    <3>1. e >= 0 /\ e = by - from /\ e \in 0 .. MaxFixedScale
      BY <1>1, <2>1
    <3>2. n \in {u * Pow10[e]} \cap Int64
      <4> HIDE DEF e
      <4>1. numerators = ScaleUnits64(u, e)
        BY <2>1, <3>1
      <4> QED
        BY <1>1, <1>5, <3>1, <4>1, ScaleUnits64IsShift
    <3>3. d = m /\ m = m * 1
      BY <1>1, <1>5, <2>1
    <3> HIDE DEF e
    <3> QED
      BY <1>1, <3>1, <3>2, <3>3
  <2>2. CASE by < from
    <3>1. ~(e >= 0) /\ -e = from - by /\ -e \in 0 .. MaxFixedScale
      BY <1>1, <2>2
    <3>2. d \in {m * Pow10[-e]} \cap Int64
      <4> HIDE DEF e
      <4>1. divisors(m) = ScaleUnits64(m, -e)
        BY <2>2, <3>1
      <4> QED
        BY <1>4, <1>5, <3>1, <4>1, ScaleUnits64IsShift
    <3>3. n = u /\ u = u * 1
      BY <1>1, <1>5, <2>2
    <3> HIDE DEF e
    <3>4. m * Pow10[-e] > 0
      <4>1. Pow10[-e] \in Int /\ Pow10[-e] > 0
        BY <3>1, PowerIsPositive
      <4> DEFINE c == Pow10[-e]
      <4> HIDE DEF c
      <4>2. m * c > 0
        BY <1>1, <4>1 DEF c
      <4> QED
        BY <4>2 DEF c
    <3> QED
      BY <1>1, <3>1, <3>2, <3>3, <3>4, Constants
  <2>3. CASE by = from
    <3>1. e = 0 /\ Pow10[0] = 1
      BY <1>1, <2>3, Constants
    <3>2. n = u /\ u = u * 1 /\ d = m /\ m = m * 1
      BY <1>1, <1>5, <2>3
    <3> HIDE DEF e
    <3> QED
      BY <1>1, <3>1, <3>2
  <2> QED
    BY <1>1, <2>1, <2>2, <2>3
<1>8. RoundQuotient(n, d, md) = q
  BY <1>7 DEF Quotient, q
<1>9. k = q /\ k \in Int64
  BY <1>6, <1>7, <1>8, DivRoundIsRounded
<1>10. x \in {q * m} \cap Int64
  BY <1>4, <1>6, <1>9, CheckedMul64IsProduct
<1> QED
  BY <1>10

LEMMA QuantizeStepIsStored ==
    ASSUME NEW f \in Fixed64s, NEW step \in Fixed64s, NEW md
    PROVE  QuantizeStep(f, step, md)
             = IF step.units = 0 THEN Fail("ErrDivisionByZero")
               ELSE IF md \notin RoundingModes THEN Fail("ErrInvalidRoundingMode")
               ELSE Stored(Stepped(f, step, md), step.scale)
<1>1. CASE step.units = 0 \/ md \notin RoundingModes
  BY <1>1 DEF QuantizeStep
<1>2. CASE step.units # 0 /\ md \in RoundingModes /\ QuantizeStepFast(f, step, md) # {}
  <2> DEFINE n == Stepped(f, step, md)
             fast == QuantizeStepFast(f, step, md)
  <2>1. fast \subseteq {n} \cap Int64
    BY <1>2, FastStepIsStepped
  <2>2. fast = {n} \cap Int64
    BY <1>2, <2>1
  <2>3. QuantizeStep(f, step, md) = OrOverflow(fast, step.scale)
    BY <1>2 DEF QuantizeStep
  <2> HIDE DEF n, fast
  <2>4. QuantizeStep(f, step, md) = Stored(n, step.scale)
    BY <2>2, <2>3, OrOverflowIsStored
  <2> QED
    BY <1>2, <2>4 DEF n
<1>3. CASE step.units # 0 /\ md \in RoundingModes /\ QuantizeStepFast(f, step, md) = {}
  BY <1>3, StepIsDecimal DEF QuantizeStep
<1> QED
  BY <1>1, <1>2, <1>3

-----------------------------------------------------------------------------
(* Aligned operands. *)

\* The units of one operand at the larger of the two scales
Shifted(f, g) == IF f.scale >= g.scale THEN f.units ELSE f.units * Pow10[g.scale - f.scale]

LEMMA AlignedIsShifted ==
    ASSUME NEW a \in Fixed64s, NEW b \in Fixed64s
    PROVE  /\ Aligned(a, b) = IF Shifted(a, b) \in Int64 /\ Shifted(b, a) \in Int64
                                THEN {<<Shifted(a, b), Shifted(b, a)>>} ELSE {}
           /\ Shifted(a, b) \in Int /\ Shifted(b, a) \in Int
           /\ AlignedScale(a, b) \in 0 .. MaxFixedScale
<1>1. /\ a.units \in Int64 /\ b.units \in Int64 /\ a.units \in Int /\ b.units \in Int
      /\ a.scale \in Nat /\ b.scale \in Nat /\ a.scale <= MaxFixedScale /\ b.scale <= MaxFixedScale
      /\ MaxFixedScale \in Nat
  BY Fields, Constants
<1>2. AlignedScale(a, b) \in 0 .. MaxFixedScale
  BY <1>1 DEF AlignedScale
<1>3. CASE a.scale = b.scale
  BY <1>1, <1>2, <1>3 DEF Aligned, Shifted
<1>4. CASE a.scale > b.scale
  <2> DEFINE delta == a.scale - b.scale
             n == b.units * Pow10[delta]
  <2>1. delta \in 0 .. MaxFixedScale
    BY <1>1, <1>4
  <2>2. Shifted(a, b) = a.units /\ Shifted(b, a) = n
    BY <1>1, <1>4 DEF Shifted
  <2>3. ScaleUnits64(b.units, delta) = {n} \cap Int64 /\ n \in Int
    <3> HIDE DEF delta
    <3>1. Pow10[delta] \in Int
      BY <2>1, PowerIsPositive
    <3> QED
      BY <1>1, <2>1, <3>1, ScaleUnits64IsShift
  <2>4. Aligned(a, b) = {<<a.units, r>> : r \in ScaleUnits64(b.units, delta)}
    BY <1>1, <1>4 DEF Aligned
  <2> HIDE DEF n, delta
  <2> QED
    BY <1>1, <1>2, <2>2, <2>3, <2>4
<1>5. CASE b.scale > a.scale
  <2> DEFINE delta == b.scale - a.scale
             n == a.units * Pow10[delta]
  <2>1. delta \in 0 .. MaxFixedScale
    BY <1>1, <1>5
  <2>2. Shifted(b, a) = b.units /\ Shifted(a, b) = n
    BY <1>1, <1>5 DEF Shifted
  <2>3. ScaleUnits64(a.units, delta) = {n} \cap Int64 /\ n \in Int
    <3> HIDE DEF delta
    <3>1. Pow10[delta] \in Int
      BY <2>1, PowerIsPositive
    <3> QED
      BY <1>1, <2>1, <3>1, ScaleUnits64IsShift
  <2>4. Aligned(a, b) = {<<l, b.units>> : l \in ScaleUnits64(a.units, delta)}
    BY <1>1, <1>5 DEF Aligned
  <2> HIDE DEF n, delta
  <2> QED
    BY <1>1, <1>2, <2>2, <2>3, <2>4
<1> QED
  BY <1>1, <1>3, <1>4, <1>5

\* fixed64.go Cmp: comparing aligned int64 units, and comparing as Decimals when
\* they cannot be aligned, are the same.
LEMMA CmpIsDecimal ==
    ASSUME NEW a \in Fixed64s, NEW b \in Fixed64s
    PROVE  /\ Cmp(a, b) = D!Cmp(Decimal(a), Decimal(b))
           /\ Cmp(a, b) = Sign(Shifted(a, b) - Shifted(b, a))
<1> DEFINE x == Shifted(a, b)
           y == Shifted(b, a)
<1>1. D!Cmp(Decimal(a), Decimal(b)) = Sign(x - y)
  <2>1. /\ a.units \in Int /\ b.units \in Int /\ a.scale \in Nat /\ b.scale \in Nat /\ Pow10[0] = 1
    BY Fields, Constants
  <2> DEFINE s == D!LargerScale(Decimal(a), Decimal(b))
  <2>2. s = IF a.scale > b.scale THEN a.scale ELSE b.scale
    BY DecimalOf DEF D!LargerScale
  <2>3. D!AlignTo(Decimal(a), s) = a.units * Pow10[s - a.scale]
    BY DecimalOf DEF D!AlignTo
  <2>4. D!AlignTo(Decimal(b), s) = b.units * Pow10[s - b.scale]
    BY DecimalOf DEF D!AlignTo
  <2>5. D!Cmp(Decimal(a), Decimal(b)) = Sign(D!AlignTo(Decimal(a), s) - D!AlignTo(Decimal(b), s))
    BY SameArithmetic DEF D!Cmp
  <2> HIDE DEF s
  <2>6. CASE a.scale > b.scale
    <3>1. s - a.scale = 0 /\ a.units * Pow10[0] = a.units
      BY <2>1, <2>2, <2>6
    <3>2. x = a.units /\ y = b.units * Pow10[a.scale - b.scale]
      BY <2>1, <2>6 DEF Shifted
    <3> QED
      BY <2>2, <2>3, <2>4, <2>5, <2>6, <3>1, <3>2
  <2>7. CASE ~(a.scale > b.scale)
    <3>1. s = b.scale /\ s - b.scale = 0 /\ b.units * Pow10[0] = b.units
      BY <2>1, <2>2, <2>7
    <3>2. y = b.units
      BY <2>1, <2>7 DEF Shifted
    <3>3. x = a.units * Pow10[s - a.scale]
      <4>1. CASE a.scale = b.scale
        <5>1. s - a.scale = 0 /\ a.units * Pow10[0] = a.units /\ x = a.units
          BY <2>1, <3>1, <4>1 DEF Shifted
        <5> QED
          BY <5>1
      <4>2. CASE a.scale < b.scale
        BY <2>1, <3>1, <4>2 DEF Shifted
      <4> QED
        BY <2>1, <2>7, <4>1, <4>2
    <3> QED
      BY <2>3, <2>4, <2>5, <3>1, <3>2, <3>3
  <2> QED
    BY <2>6, <2>7
<1>2. CASE x \in Int64 /\ y \in Int64
  <2>1. Aligned(a, b) = {<<x, y>>}
    BY <1>2, AlignedIsShifted
  <2> HIDE DEF x, y
  <2>2. (CHOOSE p \in Aligned(a, b) : TRUE) = <<x, y>> /\ Aligned(a, b) # {}
    BY <2>1
  <2> DEFINE p == CHOOSE p \in Aligned(a, b) : TRUE
  <2>3. Cmp(a, b) = Sign(p[1] - p[2])
    BY <2>2 DEF Cmp
  <2>4. p[1] = x /\ p[2] = y
    <3> HIDE DEF p
    <3>1. p = <<x, y>>
      BY <2>2 DEF p
    <3> QED
      BY <3>1
  <2> QED
    BY <1>1, <2>3, <2>4 DEF x, y
<1>3. CASE ~(x \in Int64 /\ y \in Int64)
  <2>1. Aligned(a, b) = {}
    BY <1>3, AlignedIsShifted
  <2> QED
    BY <1>1, <2>1 DEF Cmp
<1> QED
  BY <1>2, <1>3

-----------------------------------------------------------------------------
(* The remaining operations, as what they store. *)

LEMMA NegIsStored ==
    ASSUME NEW f \in Fixed64s
    PROVE  Neg(f) = Stored(-f.units, f.scale) /\ Abs(f) = Stored(Magnitude(f.units), f.scale)
<1>1. f.units \in Int64 /\ f.units \in Int /\ MaxInt64 \in Nat /\ f = Fixed(f.units, f.scale)
  BY Fields, Constants
<1>2. f.units = MinInt64 <=> -f.units \notin Int64
  BY <1>1 DEF Int64, MinInt64
<1>3. Neg(f) = Stored(-f.units, f.scale)
  BY <1>2 DEF Neg, Stored
<1>4. CASE f.units >= 0
  BY <1>1, <1>3, <1>4 DEF Abs, Magnitude, Stored
<1>5. CASE ~(f.units >= 0)
  BY <1>3, <1>5 DEF Abs, Magnitude
<1> QED
  BY <1>3, <1>4, <1>5

LEMMA AddIsStored ==
    ASSUME NEW a \in Fixed64s, NEW b \in Fixed64s
    PROVE  Add(a, b) = IF Shifted(a, b) \in Int64 /\ Shifted(b, a) \in Int64
                         THEN Stored(Shifted(a, b) + Shifted(b, a), AlignedScale(a, b))
                         ELSE Fail("ErrOverflow")
<1> DEFINE x == Shifted(a, b)
           y == Shifted(b, a)
           sums == UNION {CheckedAdd64(p[1], p[2]) : p \in Aligned(a, b)}
<1>1. Aligned(a, b) = IF x \in Int64 /\ y \in Int64 THEN {<<x, y>>} ELSE {}
  BY AlignedIsShifted
<1>2. Add(a, b) = OrOverflow(sums, AlignedScale(a, b))
  BY DEF Add
<1> HIDE DEF x, y
<1>3. CASE x \in Int64 /\ y \in Int64
  <2>1. \A p : p = <<x, y>> => p[1] = x /\ p[2] = y
    OBVIOUS
  <2>2. sums = CheckedAdd64(x, y)
    BY <1>1, <1>3, <2>1
  <2>3. sums = {x + y} \cap Int64
    BY <1>3, <2>2, CheckedAdd64IsSum
  <2> HIDE DEF sums
  <2> QED
    BY <1>2, <1>3, <2>3, OrOverflowIsStored DEF x, y
<1>4. CASE ~(x \in Int64 /\ y \in Int64)
  <2>1. sums = {}
    BY <1>1, <1>4
  <2> HIDE DEF sums
  <2> QED
    BY <1>2, <1>4, <2>1 DEF OrOverflow, x, y
<1> QED
  BY <1>3, <1>4

LEMMA SubIsStored ==
    ASSUME NEW a \in Fixed64s, NEW b \in Fixed64s
    PROVE  Sub(a, b) = IF -b.units \in Int64 /\ Shifted(a, b) \in Int64 /\ -Shifted(b, a) \in Int64
                         THEN Stored(Shifted(a, b) - Shifted(b, a), AlignedScale(a, b))
                         ELSE Fail("ErrOverflow")
<1> DEFINE c == Fixed(-b.units, b.scale)
           x == Shifted(a, b)
           y == Shifted(b, a)
<1>1. b.units \in Int /\ a.scale \in Nat /\ b.scale \in Nat /\ b.scale \in 0 .. MaxFixedScale
      /\ a.scale <= MaxFixedScale /\ MaxFixedScale \in Nat
  BY Fields, Constants
<1>2. x \in Int /\ y \in Int
  BY AlignedIsShifted
<1>3. Neg(b) = Stored(-b.units, b.scale)
  BY NegIsStored
<1>4. CASE -b.units \notin Int64
  BY <1>3, <1>4 DEF Sub, Stored, Fail
<1>5. CASE -b.units \in Int64
  <2>1. c \in Fixed64s /\ c.units = -b.units /\ c.scale = b.scale
    BY <1>1, <1>5 DEF Fixed64s, Fixed
  <2>2. Sub(a, b) = Add(a, c)
    BY <1>3, <1>5 DEF Sub, Stored, Ok
  <2> HIDE DEF c
  <2>3. Shifted(a, c) = x /\ AlignedScale(a, c) = AlignedScale(a, b)
    BY <2>1 DEF Shifted, AlignedScale
  <2>4. Shifted(c, a) = -y
    <3>1. CASE b.scale >= a.scale
      BY <2>1, <3>1 DEF Shifted
    <3>2. CASE ~(b.scale >= a.scale)
      <4>1. a.scale - b.scale \in 0 .. MaxFixedScale
        BY <1>1, <3>2
      <4>2. Pow10[a.scale - b.scale] \in Int
        BY <4>1, PowerIsPositive
      <4> DEFINE p == Pow10[a.scale - b.scale]
      <4>3. (-b.units) * p = -(b.units * p)
        <5> HIDE DEF p
        <5>1. p \in Int
          BY <4>2 DEF p
        <5> QED
          BY <1>1, <5>1
      <4> QED
        BY <2>1, <3>2, <4>3 DEF Shifted
    <3> QED
      BY <3>1, <3>2
  <2> HIDE DEF x, y
  <2>5. x + (-y) = x - y
    BY <1>2
  <2>6. Add(a, c) = IF x \in Int64 /\ -y \in Int64
                      THEN Stored(x + (-y), AlignedScale(a, b)) ELSE Fail("ErrOverflow")
    BY <2>1, <2>3, <2>4, AddIsStored
  <2> QED
    BY <1>5, <2>2, <2>5, <2>6 DEF x, y
<1> QED
  BY <1>4, <1>5

-----------------------------------------------------------------------------
(* The type invariant. *)

CallOps == {"Neg", "Abs", "Add", "Sub", "Min", "Max", "Rescale", "MulTo", "Div", "QuantizeStep"}
CallRecords == [op : CallOps, arg : Fixed64s, scale : Int, mode : RoundingModes \cup Modes]

LEMMA CallsAreRecords == Calls \subseteq CallRecords
<1>1. Fixed(0, 0) \in Fixed64s
  BY Constants DEF Fixed, Fixed64s
<1>2. Operands \subseteq Fixed64s /\ Scales \subseteq Int
  BY OperandsAssumption
<1>3. \A ops, args, scales, modes :
        ops \subseteq CallOps /\ args \subseteq Fixed64s /\ scales \subseteq Int /\ modes \subseteq RoundingModes \cup Modes
          => Call(ops, args, scales, modes) \subseteq CallRecords
  BY DEF Call, CallRecords
<1>4. /\ {"Neg", "Abs"} \subseteq CallOps /\ {"Add", "Sub", "Min", "Max"} \subseteq CallOps
      /\ {"Rescale"} \subseteq CallOps /\ {"MulTo", "Div"} \subseteq CallOps /\ {"QuantizeStep"} \subseteq CallOps
  BY DEF CallOps
<1>5. /\ {Fixed(0, 0)} \subseteq Fixed64s /\ {0} \subseteq Int
      /\ {"TowardZero"} \subseteq RoundingModes \cup Modes /\ Modes \subseteq RoundingModes \cup Modes
  BY <1>1 DEF RoundingModes, DirectedModes
<1>6. /\ Call({"Neg", "Abs"}, {Fixed(0, 0)}, {0}, {"TowardZero"}) \subseteq CallRecords
      /\ Call({"Add", "Sub", "Min", "Max"}, Operands, {0}, {"TowardZero"}) \subseteq CallRecords
      /\ Call({"Rescale"}, {Fixed(0, 0)}, Scales, Modes) \subseteq CallRecords
      /\ Call({"MulTo", "Div"}, Operands, Scales, Modes) \subseteq CallRecords
      /\ Call({"QuantizeStep"}, Operands, {0}, Modes) \subseteq CallRecords
  BY <1>2, <1>3, <1>4, <1>5
<1> QED
  BY <1>6 DEF Calls

\* What a call with an operation's name carries
LEMMA PendingCall ==
    ASSUME call \in Calls \cup {NoCall}, call.op # "none"
    PROVE  /\ call \in Calls
           /\ call # NoCall
           /\ call.op \in CallOps /\ call.arg \in Fixed64s /\ call.scale \in Int
<1>1. call # NoCall
  BY DEF NoCall
<1>2. call \in CallRecords
  BY <1>1, CallsAreRecords
<1> QED
  BY <1>1, <1>2 DEF CallRecords

Errors == {"nil", "ErrDivisionByZero", "ErrOverflow", "ErrInvalidScale", "ErrInvalidRoundingMode"}

\* A result a caller may be given
Returnable(answer) ==
    /\ answer.err \in Errors
    /\ answer.err = "nil" => answer.val \in Fixed64s

LEMMA ResultsAreReturnable ==
    /\ \A e \in Errors \ {"nil"} : Returnable(Fail(e))
    /\ \A f \in Fixed64s : Returnable(Ok(f))
    /\ \A n, sc : sc \in 0 .. MaxFixedScale => Returnable(Stored(n, sc))
<1>1. \A e \in Errors \ {"nil"} : Returnable(Fail(e))
  BY DEF Returnable, Fail
<1>2. \A f \in Fixed64s : Returnable(Ok(f))
  BY DEF Returnable, Ok, Errors
<1>3. \A n, sc : sc \in 0 .. MaxFixedScale => Returnable(Stored(n, sc))
  BY StoredIsFixed64 DEF Returnable, Errors
<1> QED
  BY <1>1, <1>2, <1>3

LEMMA OperationsAreReturnable ==
    ASSUME NEW a \in Fixed64s, NEW b \in Fixed64s, NEW sc \in Int, NEW md
    PROVE  /\ Returnable(Neg(a)) /\ Returnable(Abs(a))
           /\ Returnable(Add(a, b)) /\ Returnable(Sub(a, b))
           /\ Returnable(Ok(MinFixed64(a, b))) /\ Returnable(Ok(MaxFixed64(a, b)))
           /\ Returnable(Mul(a, b, sc, md))
           /\ Returnable(Div(a, b, sc, md))
           /\ Returnable(Rescale(a, sc, md))
           /\ Returnable(QuantizeStep(a, b, md))
<1>1. /\ a.scale \in 0 .. MaxFixedScale /\ b.scale \in 0 .. MaxFixedScale
      /\ AlignedScale(a, b) \in 0 .. MaxFixedScale
      /\ ValidFixed64Scale(sc) => sc \in 0 .. MaxFixedScale
  BY Fields, AlignedIsShifted, Constants DEF ValidFixed64Scale
<1>2. /\ Returnable(Fail("ErrDivisionByZero")) /\ Returnable(Fail("ErrOverflow"))
      /\ Returnable(Fail("ErrInvalidScale")) /\ Returnable(Fail("ErrInvalidRoundingMode"))
  BY ResultsAreReturnable DEF Errors
<1>3. \A d : Returnable(Fixed64FromDecimal(d, sc, md))
  BY <1>1, <1>2, FromDecimalIsStored, ResultsAreReturnable
<1>4. Returnable(Neg(a)) /\ Returnable(Abs(a))
  BY <1>1, NegIsStored, ResultsAreReturnable
<1>5. Returnable(Add(a, b))
  BY <1>1, <1>2, AddIsStored, ResultsAreReturnable
<1>6. Returnable(Sub(a, b))
  BY <1>1, <1>2, SubIsStored, ResultsAreReturnable
<1>7. Returnable(Ok(MinFixed64(a, b))) /\ Returnable(Ok(MaxFixed64(a, b)))
  BY ResultsAreReturnable DEF MinFixed64, MaxFixed64
<1>8. Returnable(Mul(a, b, sc, md)) /\ Returnable(Rescale(a, sc, md))
  BY <1>3, MulIsDecimal, RescaleIsDecimal
<1>9. Returnable(Div(a, b, sc, md))
  BY <1>1, <1>2, DivIsStored, ResultsAreReturnable
<1>10. Returnable(QuantizeStep(a, b, md))
  BY <1>1, <1>2, QuantizeStepIsStored, ResultsAreReturnable
<1> QED
  BY <1>4, <1>5, <1>6, <1>7, <1>8, <1>9, <1>10

\* The calls of a caller, one action at a time: what each returns
LEMMA EachCallReturns ==
    ASSUME TypeOK, Next
    PROVE  \/ /\ call = NoCall /\ call' \in Calls \cup {NoCall} /\ err' = "nil"
              /\ acc' \in Fixed64s /\ (acc' = acc \/ call' = NoCall)
           \/ /\ call \in Calls /\ call' = NoCall
              /\ \E answer : /\ Returnable(answer)
                             /\ acc' = IF answer.err = "nil" THEN answer.val ELSE acc
                             /\ err' = answer.err
<1>1. acc \in Fixed64s /\ call \in Calls \cup {NoCall}
  BY DEF TypeOK
<1>2. CASE Load
  BY <1>2, OperandsAssumption DEF Load
<1>3. CASE \E c \in Calls : Request(c)
  BY <1>1, <1>3 DEF Request
<1>4. ASSUME NEW name, name # "none", NEW answer, Return(name, answer),
             call.arg \in Fixed64s /\ call.scale \in Int => Returnable(answer)
      PROVE  /\ call \in Calls /\ call' = NoCall
             /\ \E r : /\ Returnable(r)
                       /\ acc' = IF r.err = "nil" THEN r.val ELSE acc
                       /\ err' = r.err
  BY <1>1, <1>4, PendingCall DEF Return
<1>5. CASE DoNeg
  BY <1>1, <1>4, <1>5, OperationsAreReturnable DEF DoNeg
<1>6. CASE DoAbs
  BY <1>1, <1>4, <1>6, OperationsAreReturnable DEF DoAbs
<1>7. CASE DoAdd
  BY <1>1, <1>4, <1>7, OperationsAreReturnable DEF DoAdd
<1>8. CASE DoSub
  BY <1>1, <1>4, <1>8, OperationsAreReturnable DEF DoSub
<1>9. CASE DoMin
  BY <1>1, <1>4, <1>9, OperationsAreReturnable DEF DoMin
<1>10. CASE DoMax
  BY <1>1, <1>4, <1>10, OperationsAreReturnable DEF DoMax
<1>11. CASE DoMul
  BY <1>1, <1>4, <1>11, OperationsAreReturnable DEF DoMul
<1>12. CASE DoDiv
  BY <1>1, <1>4, <1>12, OperationsAreReturnable DEF DoDiv
<1>13. CASE DoRescale
  BY <1>1, <1>4, <1>13, OperationsAreReturnable DEF DoRescale
<1>14. CASE DoQuantizeStep
  BY <1>1, <1>4, <1>14, OperationsAreReturnable DEF DoQuantizeStep
<1> QED
  BY <1>2, <1>3, <1>5, <1>6, <1>7, <1>8, <1>9, <1>10, <1>11, <1>12, <1>13, <1>14 DEF Next

\* A Fixed64 always holds an int64 at a scale its table covers (fixed64.go, every
\* operation): whatever overflows on the way, no wrapped or widened value is kept.
THEOREM TypeCorrect == Spec => []TypeOK
<1>1. Init => TypeOK
  BY OperandsAssumption DEF Init, TypeOK
<1>2. TypeOK /\ [Next]_vars => TypeOK'
  <2>1. CASE UNCHANGED vars
    BY <2>1 DEF vars, TypeOK
  <2>2. ASSUME TypeOK, Next PROVE TypeOK'
    BY <2>2, EachCallReturns DEF TypeOK, Returnable, Errors
  <2> QED
    BY <2>1, <2>2
<1> QED
  BY <1>1, <1>2, PTL DEF Spec

\* fixed64.go Cmp, Min, Max: values of different scales are ordered as their
\* Decimals are, aligned or not.
THEOREM CmpCorrect == Spec => []CmpIsNumeric
<1>1. TypeOK => CmpIsNumeric
  BY OperandsAssumption, CmpIsDecimal DEF TypeOK, CmpIsNumeric
<1> QED
  BY <1>1, TypeCorrect, PTL

\* fixed64.go Mul, Rescale, QuantizeStep: the int64 paths answer as the Decimal
\* computation converted back would.
THEOREM PathsCorrect == Spec => PathsAgree
<1> DEFINE Agree == call.op \in {"MulTo", "Rescale", "QuantizeStep"} =>
                      /\ err' = DecimalAnswer.err
                      /\ err' = "nil" => acc' = DecimalAnswer.val
<1>1. TypeOK /\ [Next]_vars => [Agree]_vars
  <2> SUFFICES ASSUME TypeOK, Next PROVE Agree
    OBVIOUS
  <2>1. acc \in Fixed64s /\ call \in Calls \cup {NoCall}
    BY DEF TypeOK
  <2>2. ASSUME NEW answer, call.op \in {"MulTo", "Rescale", "QuantizeStep"},
               Return(call.op, answer), answer = DecimalAnswer
        PROVE  Agree
    BY <2>2 DEF Return
  <2>3. CASE call = NoCall
    BY <2>3 DEF NoCall
  <2>4. CASE call # NoCall
    <3>1. call \in Calls /\ call.arg \in Fixed64s /\ call.scale \in Int /\ call.op \in CallOps
      BY <2>1, <2>4, CallsAreRecords DEF CallRecords
    <3>2. CASE DoMul
      <4>1. call.op = "MulTo" /\ Return(call.op, Mul(acc, call.arg, call.scale, call.mode))
        BY <3>2 DEF DoMul, Return
      <4>2. Mul(acc, call.arg, call.scale, call.mode) = DecimalAnswer
        BY <2>1, <3>1, <4>1, MulIsDecimal DEF DecimalAnswer
      <4> QED
        BY <2>2, <4>1, <4>2
    <3>3. CASE DoRescale
      <4>1. call.op = "Rescale" /\ Return(call.op, Rescale(acc, call.scale, call.mode))
        BY <3>3 DEF DoRescale, Return
      <4>2. Rescale(acc, call.scale, call.mode) = DecimalAnswer
        BY <2>1, <3>1, <4>1, RescaleIsDecimal DEF DecimalAnswer
      <4> QED
        BY <2>2, <4>1, <4>2
    <3>4. CASE DoQuantizeStep
      <4>1. call.op = "QuantizeStep" /\ Return(call.op, QuantizeStep(acc, call.arg, call.mode))
        BY <3>4 DEF DoQuantizeStep, Return
      <4>2. QuantizeStep(acc, call.arg, call.mode) = DecimalAnswer
        <5>1. CASE call.arg.units = 0
          BY <2>1, <3>1, <4>1, <5>1, QuantizeStepIsStored DEF DecimalAnswer
        <5>2. CASE call.arg.units # 0
          BY <2>1, <3>1, <4>1, <5>2, QuantizeStepIsStored, StepIsDecimal DEF DecimalAnswer
        <5> QED
          BY <5>1, <5>2
      <4> QED
        BY <2>2, <4>1, <4>2
    <3>5. CASE ~(DoMul \/ DoRescale \/ DoQuantizeStep)
      BY <2>4, <3>5 DEF Next, Load, Request, Return, DoNeg, DoAbs, DoAdd, DoSub, DoMin, DoMax, DoDiv
    <3> QED
      BY <3>2, <3>3, <3>4, <3>5
  <2> QED
    BY <2>3, <2>4
<1> QED
  BY <1>1, TypeCorrect, PTL DEF Spec, PathsAgree

-----------------------------------------------------------------------------
(* The numbers the results stand for. *)

\* A rescaled coefficient is the number rounded to the grid of the new scale.
LEMMA RescaledIsRounded ==
    ASSUME NEW c \in Int, NEW from \in 0 .. MaxScale, NEW to \in 0 .. MaxScale, NEW md \in RoundingModes
    PROVE  /\ Rescaled(c, from, to, md) \in Int
           /\ IsRounded(Rescaled(c, from, to, md), c * Pow10[to], Pow10[from], md)
<1> DEFINE w == 2 * MaxScale
<1>1. w \in Nat /\ from \in 0 .. w /\ to \in 0 .. w /\ PowersOfTen(Pow10, w)
  BY Constants
<1> HIDE DEF w
<1> QED
  BY <1>1, ShiftIsRounded DEF Rescaled

\* Decimal.Div shifts dividend and divisor so that the integer quotient is the
\* exact one on the grid of the result.
LEMMA QuotientIsRounded ==
    ASSUME NEW n \in Int, NEW from \in 0 .. MaxFixedScale, NEW d \in Int \ {0},
           NEW by \in 0 .. MaxFixedScale, NEW sc \in 0 .. MaxFixedScale, NEW md \in RoundingModes
    PROVE  /\ Quotient(n, from, d, by, sc, md) \in Int
           /\ IsRounded(Quotient(n, from, d, by, sc, md),
                        (n * Pow10[by]) * Pow10[sc], Pow10[from] * d, md)
<1> DEFINE w == 2 * MaxScale
<1>1. /\ w \in Nat /\ PowersOfTen(Pow10, w)
      /\ from \in 0 .. w /\ by \in Nat /\ sc \in Nat /\ by + sc <= w
  BY Constants
<1> HIDE DEF w
<1> QED
  BY <1>1, ShiftedQuotientIsRounded DEF Quotient

\* Order of two values, by aligned units and by cross-multiplied fractions.
LEMMA ShiftedIsCommon ==
    ASSUME NEW a \in Fixed64s, NEW b \in Fixed64s
    PROVE  /\ Contract!Common(AsFraction(a), AsFraction(b)) = Shifted(a, b)
           /\ Shifted(a, b) <= Shifted(b, a) <=> Contract!FracLeq(AsFraction(a), AsFraction(b))
           /\ Pow10[AlignedScale(a, b)]
                = IF Pow10[a.scale] >= Pow10[b.scale] THEN Pow10[a.scale] ELSE Pow10[b.scale]
<1> DEFINE x == a.units
           y == b.units
           s == a.scale
           t == b.scale
           p == Pow10[s]
           q == Pow10[t]
           w == 2 * MaxScale
<1>1. /\ x \in Int /\ y \in Int /\ s \in Nat /\ t \in Nat /\ p \in Nat \ {0} /\ q \in Nat \ {0}
      /\ w \in Nat /\ s <= w /\ t <= w /\ PowersOfTen(Pow10, w)
  BY Fields, Constants
<1>2. /\ Contract!Common(AsFraction(a), AsFraction(b)) = IF p >= q THEN x ELSE x * (q \div p)
      /\ Contract!FracLeq(AsFraction(a), AsFraction(b)) <=> x * q <= y * p
  BY DEF Contract!Common, Contract!FracLeq, AsFraction
<1>3. Shifted(a, b) = IF s >= t THEN x ELSE x * Pow10[t - s]
  BY DEF Shifted
<1>4. Shifted(b, a) = IF t >= s THEN y ELSE y * Pow10[s - t]
  BY DEF Shifted
<1>5. AlignedScale(a, b) = IF s >= t THEN s ELSE t
  BY DEF AlignedScale
<1> HIDE DEF x, y, s, t, w
<1>6. CASE s = t
  <2>1. x * q <= y * p <=> x <= y
    <3> HIDE DEF p, q
    <3>1. x * q <= y * q <=> x <= y
      BY <1>1, ScaledOrder
    <3>2. p = q
      BY <1>6 DEF p, q
    <3> QED
      BY <3>1, <3>2
  <2>2. p >= q
    BY <1>1, <1>6
  <2> QED
    BY <1>1, <1>2, <1>3, <1>4, <1>5, <1>6, <2>1, <2>2 DEF s, t
<1>7. CASE s > t
  <2> DEFINE g == Pow10[s - t]
  <2>1. g \in Nat \ {0} /\ p = q * g /\ q <= p /\ s - t \in Nat
    BY <1>1, <1>7, PowersGrow
  <2> HIDE DEF p, q, g
  <2>2. x * q <= y * p <=> x <= y * g
    <3>1. y * p = (y * g) * q /\ y * g \in Int
      BY <1>1, <2>1
    <3>2. x * q <= (y * g) * q <=> x <= y * g
      BY <1>1, <3>1, ScaledOrder
    <3> QED
      BY <3>1, <3>2
  <2>3. Shifted(a, b) = x /\ Shifted(b, a) = y * g /\ AlignedScale(a, b) = s /\ p >= q
    BY <1>1, <1>3, <1>4, <1>5, <1>7, <2>1 DEF g
  <2> QED
    BY <1>2, <2>2, <2>3 DEF p, q, s, t
<1>8. CASE s < t
  <2> DEFINE g == Pow10[t - s]
  <2>1. g \in Nat \ {0} /\ q = p * g /\ p < q /\ q \div p = g /\ t - s \in Nat
    BY <1>1, <1>8, PowersGrow
  <2> HIDE DEF p, q, g
  <2>2. x * q <= y * p <=> x * g <= y
    <3>1. x * q = (x * g) * p /\ x * g \in Int
      BY <1>1, <2>1
    <3>2. (x * g) * p <= y * p <=> x * g <= y
      BY <1>1, <3>1, ScaledOrder
    <3> QED
      BY <3>1, <3>2
  <2>3. Shifted(a, b) = x * g /\ Shifted(b, a) = y /\ AlignedScale(a, b) = t /\ ~(p >= q)
    BY <1>1, <1>3, <1>4, <1>5, <1>8, <2>1 DEF g
  <2> QED
    BY <1>2, <2>1, <2>2, <2>3 DEF p, q, s, t
<1> QED
  BY <1>1, <1>6, <1>7, <1>8

-----------------------------------------------------------------------------
(* Refinement of ExactCalc. *)

LEMMA RequestFields ==
    ASSUME call \in Calls
    PROVE  /\ AsRequest # NoCall /\ AsRequest # Contract!NoCall
           /\ AsRequest.op = call.op /\ call.op \in CallOps
           /\ AsRequest.arg = AsFraction(call.arg) /\ call.arg \in Fixed64s
           /\ AsRequest.scale = call.scale /\ call.scale \in Int
           /\ AsRequest.mode = call.mode
<1>1. call \in CallRecords /\ call.op \in CallOps /\ call.arg \in Fixed64s /\ call.scale \in Int
  BY CallsAreRecords DEF CallRecords
<1>2. call.op # "none"
  BY <1>1 DEF CallOps
<1>3. call # NoCall
  BY <1>2 DEF NoCall
<1>4. AsRequest = [call EXCEPT !.arg = AsFraction(@)]
  BY <1>3 DEF AsRequest
<1>5. /\ AsRequest.op = call.op /\ AsRequest.arg = AsFraction(call.arg)
      /\ AsRequest.scale = call.scale /\ AsRequest.mode = call.mode
  BY <1>1, <1>4 DEF CallRecords
<1>6. AsRequest # NoCall /\ AsRequest # Contract!NoCall
  BY <1>2, <1>5 DEF NoCall, Contract!NoCall
<1> QED
  BY <1>1, <1>5, <1>6

LEMMA SameRounding ==
    /\ Contract!RoundingModes = RoundingModes
    /\ \A n : Contract!Magnitude(n) = Magnitude(n)
    /\ \A n, d : Contract!Quo(n, d) = Quo(n, d)
    /\ \A q, n, d, md : Contract!IsRounded(q, n, d, md) <=> IsRounded(q, n, d, md)
<1>1. Contract!RoundingModes = RoundingModes /\ Contract!NearestModes = NearestModes
  BY DEF Contract!RoundingModes, RoundingModes, Contract!NearestModes, NearestModes,
         Contract!DirectedModes, DirectedModes
<1>2. \A n : Contract!Magnitude(n) = Magnitude(n)
  BY DEF Contract!Magnitude, Magnitude
<1>3. \A n, d : Contract!Quo(n, d) = Quo(n, d)
  BY <1>2 DEF Contract!Quo, Quo
<1>4. \A m, q, n, d, md : Contract!IsRoundedTo(m, q, n, d, md) <=> IsRoundedTo(m, q, n, d, md)
  BY <1>1, <1>2 DEF Contract!IsRoundedTo, IsRoundedTo
<1>5. \A q, n, d, md : Contract!IsRounded(q, n, d, md) <=> IsRounded(q, n, d, md)
  BY <1>4 DEF Contract!IsRounded, IsRounded
<1> QED
  BY <1>1, <1>2, <1>3, <1>5

\* A call that returned, as the contract sees it
Returned(answer) ==
    /\ acc' = IF answer.err = "nil" THEN answer.val ELSE acc
    /\ err' = answer.err
    /\ call' = NoCall

LEMMA ReturnedIsSucceed ==
    ASSUME NEW answer, Returned(answer)
    PROVE  /\ AsRequest' = Contract!NoCall
           /\ answer.err = "nil" => Contract!Succeed /\ acc' = answer.val
           /\ answer.err # "nil" => Contract!Refuse(answer.err)
<1>1. AsRequest' = Contract!NoCall
  BY DEF Returned, AsRequest, NoCall, Contract!NoCall
<1>2. answer.err = "nil" => Contract!Succeed /\ acc' = answer.val
  BY <1>1 DEF Returned, Contract!Succeed
<1>3. answer.err # "nil" => Contract!Refuse(answer.err)
  <2> SUFFICES ASSUME answer.err # "nil" PROVE Contract!Refuse(answer.err)
    OBVIOUS
  <2>1. acc' = acc
    BY DEF Returned
  <2>2. AsFraction(acc)' = AsFraction(acc)
    BY <2>1 DEF AsFraction
  <2> QED
    BY <1>1, <2>2 DEF Returned, Contract!Refuse
<1> QED
  BY <1>1, <1>2, <1>3

\* Refused for its arguments
LEMMA RefusedForArguments ==
    ASSUME call \in Calls, NEW answer, Returned(answer),
           \/ answer.err = "ErrDivisionByZero" /\ Contract!DivisorIsZero
           \/ answer.err = "ErrInvalidScale" /\ Contract!ScaleIsBad
           \/ answer.err = "ErrInvalidRoundingMode" /\ Contract!ModeIsBad
    PROVE  Contract!Next
<1>1. AsRequest # Contract!NoCall
  BY RequestFields
<1>2. Contract!Refuse(answer.err)
  BY ReturnedIsSucceed
<1> QED
  BY <1>1, <1>2 DEF Contract!Next, Contract!RefuseArguments

\* Answered with a rounded number of steps of the grid
LEMMA AnsweredRounded ==
    ASSUME call \in Calls, call.op \in {"Rescale", "MulTo", "Div", "QuantizeStep"},
           Contract!Answerable,
           NEW k \in Contract!StepCounts, NEW n, n = k * Contract!Grid.num,
           NEW sc, Contract!Grid.den = Pow10[sc],
           Returned(Stored(n, sc))
    PROVE  Contract!Next
<1>1. AsRequest.op \in Contract!RoundedOps
  BY RequestFields DEF Contract!RoundedOps
<1>2. CASE n \in Int64
  <2>1. Stored(n, sc) = Ok(Fixed(n, sc))
    BY <1>2 DEF Stored
  <2>2. Contract!Succeed /\ acc' = Fixed(n, sc)
    BY <2>1, ReturnedIsSucceed DEF Ok
  <2>3. AsFraction(acc)' = [num |-> n, den |-> Pow10[sc]]
    BY <2>2 DEF AsFraction, Fixed
  <2>4. Contract!FracEq(AsFraction(acc)', Contract!Frac(k * Contract!Grid.num, Contract!Grid.den))
    BY <2>3 DEF Contract!FracEq, Contract!Frac
  <2>5. Contract!ReturnRounded
    BY <1>1, <1>2, <2>2, <2>4 DEF Contract!ReturnRounded
  <2> QED
    BY <2>5 DEF Contract!Next, Contract!Answer
<1>3. CASE n \notin Int64
  <2>1. Stored(n, sc).err = "ErrOverflow"
    BY <1>3 DEF Stored, Fail
  <2>2. Contract!Refuse("ErrOverflow")
    BY <2>1, ReturnedIsSucceed
  <2>3. Contract!RefuseOverflow
    BY <1>1, <1>3, <2>2 DEF Contract!RefuseOverflow
  <2> QED
    BY <2>3 DEF Contract!Next, Contract!Answer
<1> QED
  BY <1>2, <1>3

\* A rounding of the exact number is one of the step counts of the contract.
LEMMA CountedStep ==
    ASSUME call \in Calls, NEW k \in Int, NEW num \in Int, NEW den \in Int \ {0},
           num = Contract!Exact.num * Contract!Grid.den, den = Contract!Exact.den * Contract!Grid.num,
           IsRounded(k, num, den, call.mode)
    PROVE  k \in Contract!StepCounts
<1>1. k \in {Quo(num, den) - 1, Quo(num, den), Quo(num, den) + 1}
  BY RoundedNearby
<1>2. AsRequest.mode = call.mode
  BY RequestFields
<1>3. Contract!StepCounts = {j \in {Quo(num, den) - 1, Quo(num, den), Quo(num, den) + 1} :
                               IsRounded(j, num, den, call.mode)}
  BY <1>2, SameRounding DEF Contract!StepCounts, Contract!Counts
<1> QED
  BY <1>1, <1>3

LEMMA RescaleRefines ==
    ASSUME TypeOK, call \in Calls, call.op = "Rescale",
           Returned(Rescale(acc, call.scale, call.mode))
    PROVE  Contract!Next
<1> DEFINE sc == call.scale
           md == call.mode
           answer == Rescale(acc, sc, md)
<1>1. /\ acc \in Fixed64s /\ acc.units \in Int /\ acc.scale \in 0 .. MaxScale /\ sc \in Int
      /\ AsRequest.op = "Rescale" /\ AsRequest.scale = sc /\ AsRequest.mode = md
  BY RequestFields, Fields, Constants DEF TypeOK
<1>2. answer = IF ~ValidFixed64Scale(sc) THEN Fail("ErrInvalidScale")
               ELSE IF md \notin RoundingModes THEN Fail("ErrInvalidRoundingMode")
               ELSE Stored(Rescaled(acc.units, acc.scale, sc, md), sc)
  BY <1>1, RescaleIsDecimal, DecimalOf, FromDecimalIsStored
<1>3. /\ Contract!ScaleIsBad <=> ~ValidFixed64Scale(sc)
      /\ Contract!ModeIsBad <=> md \notin RoundingModes
      /\ ~Contract!DivisorIsZero
  BY <1>1, SameRounding, Constants
     DEF Contract!ScaleIsBad, Contract!ModeIsBad, Contract!DivisorIsZero, Contract!ExactOps, ValidFixed64Scale
<1>4. CASE ~ValidFixed64Scale(sc) \/ md \notin RoundingModes
  BY <1>2, <1>3, <1>4, RefusedForArguments DEF Fail
<1>5. CASE ValidFixed64Scale(sc) /\ md \in RoundingModes
  <2> DEFINE k == Rescaled(acc.units, acc.scale, sc, md)
             g == Pow10[sc]
             f == Pow10[acc.scale]
  <2>1. sc \in 0 .. MaxScale
    BY <1>1, <1>5, Constants DEF ValidFixed64Scale
  <2>2. k \in Int /\ IsRounded(k, acc.units * g, f, md)
    BY <1>1, <1>5, <2>1, RescaledIsRounded
  <2>3. /\ Contract!Exact.num = acc.units /\ Contract!Exact.den = f
        /\ Contract!Grid.num = 1 /\ Contract!Grid.den = g
    BY <1>1 DEF Contract!Exact, Contract!Grid, Contract!ScaleGrid, Contract!Frac, AsFraction
  <2>4. g \in Nat \ {0} /\ f \in Nat \ {0}
    BY <1>1, <2>1, Constants
  <2>5. answer = Stored(k, sc)
    BY <1>2, <1>5
  <2> HIDE DEF k, f, g, answer
  <2>6. acc.units * g \in Int /\ f \in Int \ {0} /\ f = f * 1 /\ k = k * 1
    BY <1>1, <2>2, <2>4
  <2>7. k \in Contract!StepCounts
    <3>1. acc.units * g = Contract!Exact.num * Contract!Grid.den /\ f = Contract!Exact.den * Contract!Grid.num
      BY <2>3, <2>6
    <3> QED
      BY <2>2, <2>6, <3>1, CountedStep
  <2>8. Contract!Answerable
    BY <1>3, <1>5 DEF Contract!Answerable
  <2>9. k = k * Contract!Grid.num /\ Contract!Grid.den = Pow10[sc] /\ Returned(Stored(k, sc))
    BY <2>3, <2>5, <2>6 DEF g, answer
  <2> QED
    BY <2>7, <2>8, <2>9, AnsweredRounded
<1> QED
  BY <1>4, <1>5

LEMMA MulRefines ==
    ASSUME TypeOK, call \in Calls, call.op = "MulTo",
           Returned(Mul(acc, call.arg, call.scale, call.mode))
    PROVE  Contract!Next
<1> DEFINE sc == call.scale
           md == call.mode
           b == call.arg
           n == acc.units * b.units
           from == acc.scale + b.scale
           answer == Mul(acc, b, sc, md)
<1>1. /\ acc \in Fixed64s /\ b \in Fixed64s /\ sc \in Int
      /\ AsRequest.op = "MulTo" /\ AsRequest.scale = sc /\ AsRequest.mode = md
      /\ AsRequest.arg = AsFraction(b)
  BY RequestFields DEF TypeOK
<1>2. /\ n \in Int /\ from \in 0 .. MaxScale
      /\ acc.scale \in Nat /\ b.scale \in Nat /\ from <= 2 * MaxScale
  BY <1>1, Fields, Constants
<1>3. answer = IF ~ValidFixed64Scale(sc) THEN Fail("ErrInvalidScale")
               ELSE IF md \notin RoundingModes THEN Fail("ErrInvalidRoundingMode")
               ELSE Stored(Rescaled(n, from, sc, md), sc)
  BY <1>1, MulIsDecimal, FromDecimalIsStored
<1>4. /\ Contract!ScaleIsBad <=> ~ValidFixed64Scale(sc)
      /\ Contract!ModeIsBad <=> md \notin RoundingModes
      /\ ~Contract!DivisorIsZero
  BY <1>1, SameRounding, Constants
     DEF Contract!ScaleIsBad, Contract!ModeIsBad, Contract!DivisorIsZero, Contract!ExactOps, ValidFixed64Scale
<1>5. CASE ~ValidFixed64Scale(sc) \/ md \notin RoundingModes
  BY <1>3, <1>4, <1>5, RefusedForArguments DEF Fail
<1>6. CASE ValidFixed64Scale(sc) /\ md \in RoundingModes
  <2> DEFINE k == Rescaled(n, from, sc, md)
             g == Pow10[sc]
             f == Pow10[from]
  <2>1. sc \in 0 .. MaxScale
    BY <1>1, <1>6, Constants DEF ValidFixed64Scale
  <2> HIDE DEF n
  <2>2. k \in Int /\ IsRounded(k, n * g, f, md)
    BY <1>2, <1>6, <2>1, RescaledIsRounded
  <2>3. Pow10[acc.scale] * Pow10[b.scale] = f
    <3>1. 2 * MaxScale \in Nat
      BY Constants
    <3> QED
      BY <1>2, <3>1, Constants, PowersAdd
  <2>4. /\ Contract!Exact.num = n /\ Contract!Exact.den = f
        /\ Contract!Grid.num = 1 /\ Contract!Grid.den = g
    BY <1>1, <2>3 DEF Contract!Exact, Contract!Grid, Contract!ScaleGrid, Contract!Frac, AsFraction, n
  <2>5. g \in Nat \ {0} /\ f \in Nat \ {0}
    BY <1>2, <2>1, Constants
  <2>6. answer = Stored(k, sc)
    BY <1>3, <1>6
  <2> HIDE DEF k, f, g, answer, from
  <2>7. n * g \in Int /\ f \in Int \ {0} /\ f = f * 1 /\ k = k * 1
    BY <1>2, <2>2, <2>5
  <2>8. k \in Contract!StepCounts
    <3>1. n * g = Contract!Exact.num * Contract!Grid.den /\ f = Contract!Exact.den * Contract!Grid.num
      BY <2>4, <2>7
    <3> QED
      BY <2>2, <2>7, <3>1, CountedStep
  <2>9. Contract!Answerable
    BY <1>4, <1>6 DEF Contract!Answerable
  <2>10. k = k * Contract!Grid.num /\ Contract!Grid.den = Pow10[sc] /\ Returned(Stored(k, sc))
    BY <2>4, <2>6, <2>7 DEF g, answer
  <2> QED
    BY <2>8, <2>9, <2>10, AnsweredRounded
<1> QED
  BY <1>5, <1>6

LEMMA DivRefines ==
    ASSUME TypeOK, call \in Calls, call.op = "Div",
           Returned(Div(acc, call.arg, call.scale, call.mode))
    PROVE  Contract!Next
<1> DEFINE sc == call.scale
           md == call.mode
           b == call.arg
           answer == Div(acc, b, sc, md)
<1>1. /\ acc \in Fixed64s /\ b \in Fixed64s /\ sc \in Int
      /\ AsRequest.op = "Div" /\ AsRequest.scale = sc /\ AsRequest.mode = md
      /\ AsRequest.arg = AsFraction(b)
  BY RequestFields DEF TypeOK
<1>2. /\ acc.units \in Int /\ acc.scale \in 0 .. MaxFixedScale /\ b.units \in Int /\ b.scale \in 0 .. MaxFixedScale
      /\ Pow10[acc.scale] \in Nat \ {0} /\ Pow10[b.scale] \in Nat \ {0}
  BY <1>1, Fields
<1>3. answer = IF b.units = 0 THEN Fail("ErrDivisionByZero")
               ELSE IF ~ValidFixed64Scale(sc) THEN Fail("ErrInvalidScale")
               ELSE IF md \notin RoundingModes THEN Fail("ErrInvalidRoundingMode")
               ELSE Stored(Quotient(acc.units, acc.scale, b.units, b.scale, sc, md), sc)
  BY <1>1, DivIsStored
<1>4. /\ Contract!ScaleIsBad <=> ~ValidFixed64Scale(sc)
      /\ Contract!ModeIsBad <=> md \notin RoundingModes
      /\ Contract!DivisorIsZero <=> b.units = 0
  BY <1>1, SameRounding, Constants
     DEF Contract!ScaleIsBad, Contract!ModeIsBad, Contract!DivisorIsZero, Contract!ExactOps,
         ValidFixed64Scale, AsFraction
<1>5. CASE b.units = 0 \/ ~ValidFixed64Scale(sc) \/ md \notin RoundingModes
  BY <1>3, <1>4, <1>5, RefusedForArguments DEF Fail
<1>6. CASE b.units # 0 /\ ValidFixed64Scale(sc) /\ md \in RoundingModes
  <2> DEFINE k == Quotient(acc.units, acc.scale, b.units, b.scale, sc, md)
             g == Pow10[sc]
             f == Pow10[acc.scale]
             t == Pow10[b.scale]
             u == acc.units
             v == b.units
             num == (u * t) * g
             den == f * v
  <2>1. sc \in 0 .. MaxScale /\ sc \in 0 .. MaxFixedScale
    BY <1>1, <1>6, Constants DEF ValidFixed64Scale
  <2>2. k \in Int /\ IsRounded(k, num, den, md)
    BY <1>2, <1>6, <2>1, QuotientIsRounded
  <2>3. /\ Contract!Exact.num = u * t /\ Contract!Exact.den = den
        /\ Contract!Grid.num = 1 /\ Contract!Grid.den = g
    BY <1>1 DEF Contract!Exact, Contract!Grid, Contract!ScaleGrid, Contract!Frac, AsFraction
  <2>4. g \in Nat \ {0} /\ f \in Nat \ {0} /\ t \in Nat \ {0} /\ u \in Int /\ v \in Int \ {0}
    BY <1>2, <1>6, <2>1, Constants
  <2>5. answer = Stored(k, sc)
    BY <1>3, <1>6
  <2> HIDE DEF k, f, g, t, u, v, answer
  <2>6. u * t \in Int /\ num \in Int /\ den \in Int \ {0} /\ den = den * 1 /\ k = k * 1
    BY <2>2, <2>4
  <2>7. k \in Contract!StepCounts
    <3>1. num = Contract!Exact.num * Contract!Grid.den /\ den = Contract!Exact.den * Contract!Grid.num
      BY <2>3, <2>6
    <3> HIDE DEF num, den
    <3> QED
      BY <2>2, <2>6, <3>1, CountedStep
  <2>8. Contract!Answerable
    BY <1>4, <1>6 DEF Contract!Answerable
  <2>9. k = k * Contract!Grid.num /\ Contract!Grid.den = Pow10[sc] /\ Returned(Stored(k, sc))
    BY <2>3, <2>5, <2>6 DEF g, answer
  <2> QED
    BY <2>7, <2>8, <2>9, AnsweredRounded
<1> QED
  BY <1>5, <1>6

LEMMA QuantizeStepRefines ==
    ASSUME TypeOK, call \in Calls, call.op = "QuantizeStep",
           Returned(QuantizeStep(acc, call.arg, call.mode))
    PROVE  Contract!Next
<1> DEFINE md == call.mode
           b == call.arg
           m == Magnitude(b.units)
           answer == QuantizeStep(acc, b, md)
<1>1. /\ acc \in Fixed64s /\ b \in Fixed64s
      /\ AsRequest.op = "QuantizeStep" /\ AsRequest.mode = md
      /\ AsRequest.arg = AsFraction(b)
  BY RequestFields DEF TypeOK
<1>2. /\ acc.units \in Int /\ acc.scale \in 0 .. MaxFixedScale /\ b.units \in Int /\ b.scale \in 0 .. MaxFixedScale
      /\ Pow10[acc.scale] \in Nat \ {0} /\ Pow10[b.scale] \in Nat \ {0}
  BY <1>1, Fields
<1>3. answer = IF b.units = 0 THEN Fail("ErrDivisionByZero")
               ELSE IF md \notin RoundingModes THEN Fail("ErrInvalidRoundingMode")
               ELSE Stored(Stepped(acc, b, md), b.scale)
  BY <1>1, QuantizeStepIsStored
<1>4. /\ ~Contract!ScaleIsBad
      /\ Contract!ModeIsBad <=> md \notin RoundingModes
      /\ Contract!DivisorIsZero <=> b.units = 0
  BY <1>1, SameRounding
     DEF Contract!ScaleIsBad, Contract!ModeIsBad, Contract!DivisorIsZero, Contract!ExactOps, AsFraction
<1>5. CASE b.units = 0 \/ md \notin RoundingModes
  BY <1>3, <1>4, <1>5, RefusedForArguments DEF Fail
<1>6. CASE b.units # 0 /\ md \in RoundingModes
  <2> DEFINE k == Quotient(acc.units, acc.scale, m, b.scale, 0, md)
             f == Pow10[acc.scale]
             t == Pow10[b.scale]
             u == acc.units
             num == u * t
             den == f * m
  <2>1. m \in Int \ {0} /\ Contract!Magnitude(b.units) = m
    BY <1>2, <1>6, SameRounding DEF Magnitude
  <2>2. f \in Nat \ {0} /\ t \in Nat \ {0} /\ u \in Int
    BY <1>2
  <2>3. k \in Int /\ IsRounded(k, (u * t) * Pow10[0], den, md)
    <3>1. 0 \in 0 .. MaxFixedScale
      BY Constants
    <3> QED
      BY <1>2, <1>6, <2>1, <3>1, QuotientIsRounded
  <2>4. /\ Contract!Exact.num = u /\ Contract!Exact.den = f
        /\ Contract!Grid.num = m /\ Contract!Grid.den = t
    BY <1>1, <2>1 DEF Contract!Exact, Contract!Grid, Contract!StepGrid, Contract!Frac, AsFraction
  <2>5. answer = Stored(k * m, b.scale)
    BY <1>3, <1>6 DEF Stepped
  <2> HIDE DEF k, f, t, u, m, answer
  <2>6. num \in Int /\ den \in Int \ {0} /\ (u * t) * Pow10[0] = num
    BY <2>1, <2>2, Constants
  <2>7. k \in Contract!StepCounts
    <3>1. num = Contract!Exact.num * Contract!Grid.den /\ den = Contract!Exact.den * Contract!Grid.num
      BY <2>4
    <3>2. IsRounded(k, num, den, md)
      BY <2>3, <2>6
    <3> HIDE DEF num, den
    <3> QED
      BY <2>3, <2>6, <3>1, <3>2, CountedStep
  <2>8. Contract!Answerable
    BY <1>4, <1>6 DEF Contract!Answerable
  <2>9. k * m = k * Contract!Grid.num /\ Contract!Grid.den = Pow10[b.scale] /\ Returned(Stored(k * m, b.scale))
    BY <2>4, <2>5 DEF t, answer
  <2> QED
    BY <2>7, <2>8, <2>9, AnsweredRounded
<1> QED
  BY <1>5, <1>6

\* An exact answer: the number of the contract, or a number it has to store on
\* the way does not fit.
LEMMA AnsweredExact ==
    ASSUME call \in Calls, call.op \in {"Neg", "Abs", "Add", "Sub", "Min", "Max"},
           NEW n, NEW sc,
           n = Contract!ExactResult.num, Pow10[sc] = Contract!ExactResult.den,
           NEW stored, \A u \in stored : u \notin Int64 => u \in Contract!ExactUnits,
           NEW answer,
           answer = IF \A u \in stored : u \in Int64 THEN Ok(Fixed(n, sc)) ELSE Fail("ErrOverflow"),
           Returned(answer)
    PROVE  Contract!Next
<1>1. AsRequest.op \in Contract!ExactOps
  BY RequestFields DEF Contract!ExactOps
<1>2. CASE \A u \in stored : u \in Int64
  <2>1. Contract!Succeed /\ acc' = Fixed(n, sc)
    BY <1>2, ReturnedIsSucceed DEF Ok
  <2>2. AsFraction(acc)' = [num |-> n, den |-> Pow10[sc]]
    BY <2>1 DEF AsFraction, Fixed
  <2>3. Contract!FracEq(AsFraction(acc)', Contract!ExactResult)
    BY <2>2 DEF Contract!FracEq
  <2>4. Contract!ReturnExact
    BY <1>1, <2>1, <2>3 DEF Contract!ReturnExact
  <2> QED
    BY <2>4 DEF Contract!Next, Contract!Answer
<1>3. CASE \E u \in stored : u \notin Int64
  <2>1. answer = Fail("ErrOverflow")
    BY <1>3
  <2>2. Contract!Refuse("ErrOverflow")
    BY <2>1, ReturnedIsSucceed DEF Fail
  <2>3. \E u \in Contract!ExactUnits : u \notin Int64
    BY <1>3
  <2>4. Contract!RefuseOverflow
    BY <1>1, <2>2, <2>3 DEF Contract!RefuseOverflow
  <2> QED
    BY <2>4 DEF Contract!Next, Contract!Answer
<1> QED
  BY <1>2, <1>3

LEMMA NegRefines ==
    ASSUME TypeOK, call \in Calls, call.op = "Neg", Returned(Neg(acc))
    PROVE  Contract!Next
<1> DEFINE n == -acc.units
<1>1. acc \in Fixed64s /\ AsRequest.op = "Neg"
  BY RequestFields DEF TypeOK
<1>2. Contract!ExactResult.num = n /\ Contract!ExactResult.den = Pow10[acc.scale]
  BY <1>1 DEF Contract!ExactResult, Contract!Frac, AsFraction
<1>3. Contract!ExactUnits = {n}
  BY <1>1, <1>2 DEF Contract!ExactUnits
<1>4. Neg(acc) = IF \A u \in {n} : u \in Int64 THEN Ok(Fixed(n, acc.scale)) ELSE Fail("ErrOverflow")
  BY <1>1, NegIsStored DEF Stored
<1> HIDE DEF n
<1> QED
  BY <1>2, <1>3, <1>4, AnsweredExact

LEMMA AbsRefines ==
    ASSUME TypeOK, call \in Calls, call.op = "Abs", Returned(Abs(acc))
    PROVE  Contract!Next
<1> DEFINE n == Magnitude(acc.units)
<1>1. acc \in Fixed64s /\ AsRequest.op = "Abs"
  BY RequestFields DEF TypeOK
<1>2. Contract!ExactResult.num = n /\ Contract!ExactResult.den = Pow10[acc.scale]
  BY <1>1, SameRounding DEF Contract!ExactResult, Contract!Frac, AsFraction
<1>3. Contract!ExactUnits = {n}
  BY <1>1, <1>2 DEF Contract!ExactUnits
<1>4. Abs(acc) = IF \A u \in {n} : u \in Int64 THEN Ok(Fixed(n, acc.scale)) ELSE Fail("ErrOverflow")
  BY <1>1, NegIsStored DEF Stored
<1> HIDE DEF n
<1> QED
  BY <1>2, <1>3, <1>4, AnsweredExact

\* Both operands of the contract at the larger scale
LEMMA OperandsAreShifted ==
    ASSUME TypeOK, call \in Calls
    PROVE  /\ acc \in Fixed64s /\ call.arg \in Fixed64s
           /\ Contract!Left = Shifted(acc, call.arg) /\ Contract!Right = Shifted(call.arg, acc)
           /\ Contract!CommonDen = Pow10[AlignedScale(acc, call.arg)]
           /\ Contract!Left \in Int /\ Contract!Right \in Int
<1>1. acc \in Fixed64s /\ call.arg \in Fixed64s /\ AsRequest.arg = AsFraction(call.arg)
  BY RequestFields DEF TypeOK
<1>2. Contract!Left = Shifted(acc, call.arg) /\ Contract!Right = Shifted(call.arg, acc)
  BY <1>1, ShiftedIsCommon DEF Contract!Left, Contract!Right
<1>3. Contract!CommonDen = IF Pow10[acc.scale] >= Pow10[call.arg.scale]
                             THEN Pow10[acc.scale] ELSE Pow10[call.arg.scale]
  BY <1>1 DEF Contract!CommonDen, AsFraction
<1> QED
  BY <1>1, <1>2, <1>3, ShiftedIsCommon, AlignedIsShifted

LEMMA AddRefines ==
    ASSUME TypeOK, call \in Calls, call.op = "Add", Returned(Add(acc, call.arg))
    PROVE  Contract!Next
<1> DEFINE x == Shifted(acc, call.arg)
           y == Shifted(call.arg, acc)
           sc == AlignedScale(acc, call.arg)
           stored == {x, y, x + y}
<1>1. /\ acc \in Fixed64s /\ call.arg \in Fixed64s /\ AsRequest.op = "Add"
      /\ Contract!Left = x /\ Contract!Right = y /\ Contract!CommonDen = Pow10[sc]
  BY RequestFields, OperandsAreShifted
<1>2. Contract!ExactResult.num = x + y /\ Contract!ExactResult.den = Pow10[sc]
  BY <1>1 DEF Contract!ExactResult, Contract!Frac
<1>3. Contract!ExactUnits = stored
  BY <1>1 DEF Contract!ExactUnits
<1>4. Add(acc, call.arg) = IF \A u \in stored : u \in Int64 THEN Ok(Fixed(x + y, sc)) ELSE Fail("ErrOverflow")
  BY <1>1, AddIsStored DEF Stored
<1> HIDE DEF x, y, sc, stored
<1>5. \A u \in stored : u \notin Int64 => u \in Contract!ExactUnits
  BY <1>3
<1> DEFINE n == x + y
<1>6. n = Contract!ExactResult.num
  BY <1>2
<1>7. Add(acc, call.arg) = IF \A u \in stored : u \in Int64 THEN Ok(Fixed(n, sc)) ELSE Fail("ErrOverflow")
  BY <1>4
<1> HIDE DEF n
<1> QED
  BY <1>2, <1>5, <1>6, <1>7, AnsweredExact

LEMMA SubRefines ==
    ASSUME TypeOK, call \in Calls, call.op = "Sub", Returned(Sub(acc, call.arg))
    PROVE  Contract!Next
<1> DEFINE x == Shifted(acc, call.arg)
           y == Shifted(call.arg, acc)
           sc == AlignedScale(acc, call.arg)
           stored == {-call.arg.units, x, -y, x - y}
<1>1. /\ acc \in Fixed64s /\ call.arg \in Fixed64s /\ AsRequest.op = "Sub"
      /\ AsRequest.arg = AsFraction(call.arg)
      /\ Contract!Left = x /\ Contract!Right = y /\ Contract!CommonDen = Pow10[sc]
  BY RequestFields, OperandsAreShifted
<1>2. Contract!ExactResult.num = x - y /\ Contract!ExactResult.den = Pow10[sc]
  BY <1>1 DEF Contract!ExactResult, Contract!Frac
<1>3. Contract!ExactUnits = stored
  BY <1>1 DEF Contract!ExactUnits, AsFraction
<1>4. Sub(acc, call.arg) = IF \A u \in stored : u \in Int64 THEN Ok(Fixed(x - y, sc)) ELSE Fail("ErrOverflow")
  BY <1>1, SubIsStored DEF Stored
<1> DEFINE n == x - y
<1> HIDE DEF x, y, sc, stored
<1>5. \A u \in stored : u \notin Int64 => u \in Contract!ExactUnits
  BY <1>3
<1>6. n = Contract!ExactResult.num
  BY <1>2
<1>7. Sub(acc, call.arg) = IF \A u \in stored : u \in Int64 THEN Ok(Fixed(n, sc)) ELSE Fail("ErrOverflow")
  BY <1>4
<1> HIDE DEF n
<1> QED
  BY <1>2, <1>5, <1>6, <1>7, AnsweredExact

\* Min and Max return one of the two values, whichever the fractions say.
LEMMA AnsweredOperand ==
    ASSUME TypeOK, call \in Calls, call.op \in {"Min", "Max"},
           NEW f \in Fixed64s, AsFraction(f) = Contract!ExactResult, Returned(Ok(f))
    PROVE  Contract!Next
<1>1. f = Fixed(f.units, f.scale)
  BY Fields
<1>2. f.units = Contract!ExactResult.num /\ Pow10[f.scale] = Contract!ExactResult.den
  BY DEF AsFraction
<1>3. Ok(f) = IF \A u \in {} : u \in Int64 THEN Ok(Fixed(f.units, f.scale)) ELSE Fail("ErrOverflow")
  BY <1>1
<1> QED
  BY <1>2, <1>3, AnsweredExact

LEMMA MinRefines ==
    ASSUME TypeOK, call \in Calls, call.op = "Min", Returned(Ok(MinFixed64(acc, call.arg)))
    PROVE  Contract!Next
<1> DEFINE b == call.arg
           x == Shifted(acc, b)
           y == Shifted(b, acc)
<1>1. /\ acc \in Fixed64s /\ b \in Fixed64s /\ AsRequest.op = "Min"
      /\ AsRequest.arg = AsFraction(b) /\ x \in Int /\ y \in Int
  BY RequestFields, AlignedIsShifted DEF TypeOK
<1>2. Contract!ExactResult = IF Contract!FracLeq(AsFraction(acc), AsFraction(b))
                               THEN AsFraction(acc) ELSE AsFraction(b)
  BY <1>1 DEF Contract!ExactResult
<1>3. x <= y <=> Contract!FracLeq(AsFraction(acc), AsFraction(b))
  BY <1>1, ShiftedIsCommon
<1>4. Cmp(b, acc) = Sign(y - x)
  BY <1>1, CmpIsDecimal
<1> HIDE DEF x, y
<1>5. Cmp(b, acc) < 0 <=> ~(x <= y)
  BY <1>1, <1>4 DEF Sign
<1>6. MinFixed64(acc, b) = IF x <= y THEN acc ELSE b
  BY <1>5 DEF MinFixed64
<1>7. AsFraction(MinFixed64(acc, b)) = Contract!ExactResult
  BY <1>2, <1>3, <1>6
<1>8. MinFixed64(acc, b) \in Fixed64s
  BY <1>1, <1>6
<1> QED
  BY <1>7, <1>8, AnsweredOperand

LEMMA MaxRefines ==
    ASSUME TypeOK, call \in Calls, call.op = "Max", Returned(Ok(MaxFixed64(acc, call.arg)))
    PROVE  Contract!Next
<1> DEFINE b == call.arg
           x == Shifted(acc, b)
           y == Shifted(b, acc)
<1>1. /\ acc \in Fixed64s /\ b \in Fixed64s /\ AsRequest.op = "Max"
      /\ AsRequest.arg = AsFraction(b) /\ x \in Int /\ y \in Int
  BY RequestFields, AlignedIsShifted DEF TypeOK
<1>2. Contract!ExactResult = IF Contract!FracLeq(AsFraction(b), AsFraction(acc))
                               THEN AsFraction(acc) ELSE AsFraction(b)
  BY <1>1 DEF Contract!ExactResult
<1>3. y <= x <=> Contract!FracLeq(AsFraction(b), AsFraction(acc))
  BY <1>1, ShiftedIsCommon
<1>4. Cmp(b, acc) = Sign(y - x)
  BY <1>1, CmpIsDecimal
<1> HIDE DEF x, y
<1>5. Cmp(b, acc) > 0 <=> ~(y <= x)
  BY <1>1, <1>4 DEF Sign
<1>6. MaxFixed64(acc, b) = IF y <= x THEN acc ELSE b
  BY <1>5 DEF MaxFixed64
<1>7. AsFraction(MaxFixed64(acc, b)) = Contract!ExactResult
  BY <1>2, <1>3, <1>6
<1>8. MaxFixed64(acc, b) \in Fixed64s
  BY <1>1, <1>6
<1> QED
  BY <1>7, <1>8, AnsweredOperand

\* Loading and asking are steps of the contract's caller.
LEMMA CallerRefines ==
    ASSUME TypeOK, Load \/ \E c \in Calls : Request(c)
    PROVE  Contract!Next
<1>1. call = NoCall /\ AsRequest = Contract!NoCall /\ err' = "nil"
  BY DEF Load, Request, AsRequest, NoCall, Contract!NoCall
<1>2. \A f \in Fixed64s : AsFraction(f) \in Contract!Fractions
  BY Fields DEF AsFraction, Contract!Fractions
<1>3. CASE Load
  <2>1. call' = NoCall /\ acc' \in Fixed64s
    BY <1>3, OperandsAssumption, <1>1 DEF Load
  <2>2. AsRequest' = Contract!NoCall
    BY <2>1 DEF AsRequest, NoCall, Contract!NoCall
  <2>3. AsFraction(acc)' \in Contract!Fractions
    <3>1. AsFraction(acc)' = AsFraction(acc')
      BY DEF AsFraction
    <3> QED
      BY <1>2, <2>1, <3>1
  <2>4. Contract!Load
    BY <1>1, <2>2, <2>3 DEF Contract!Load
  <2> QED
    BY <2>4 DEF Contract!Next
<1>4. CASE \E c \in Calls : Request(c)
  <2>1. PICK c \in Calls : Request(c)
    BY <1>4
  <2>2. call' = c /\ acc' = acc
    BY <2>1 DEF Request
  <2>3. c \in CallRecords /\ c.op \in CallOps /\ c.arg \in Fixed64s /\ c.scale \in Int
    BY <2>1, CallsAreRecords DEF CallRecords
  <2>4. c # NoCall
    BY <2>3 DEF NoCall, CallOps
  <2>5. AsRequest' = [c EXCEPT !.arg = AsFraction(@)]
    BY <2>2, <2>4 DEF AsRequest, NoCall, AsFraction
  <2>6. AsRequest'.op = c.op /\ AsRequest'.arg = AsFraction(c.arg) /\ AsRequest'.scale = c.scale
    BY <2>3, <2>5 DEF CallRecords
  <2>7. AsRequest'.op \in Contract!Ops
    BY <2>3, <2>6 DEF CallOps, Contract!Ops, Contract!ExactOps, Contract!RoundedOps
  <2>8. AsRequest'.arg \in Contract!Fractions /\ AsRequest'.scale \in Int
    BY <1>2, <2>3, <2>6
  <2>9. AsFraction(acc)' = AsFraction(acc)
    BY <2>2 DEF AsFraction
  <2>10. Contract!Request
    BY <1>1, <2>7, <2>8, <2>9 DEF Contract!Request
  <2> QED
    BY <2>10 DEF Contract!Next
<1> QED
  BY <1>3, <1>4

\* Whatever the width of the integers, the table, the operands and the modes:
\* every chain of Fixed64 calls returns exact or once rounded numbers, and fails
\* only for its arguments or for what does not fit.  (fixed64.go, each operation)
THEOREM Fixed64RefinesExactCalc == Spec => RefinesExactCalc
<1>1. Init => Contract!Init
  <2> SUFFICES ASSUME Init PROVE Contract!Init
    OBVIOUS
  <2>1. acc \in Fixed64s /\ AsRequest = Contract!NoCall /\ err = "nil"
    BY OperandsAssumption DEF Init, AsRequest, NoCall, Contract!NoCall
  <2>2. AsFraction(acc) \in Contract!Fractions
    BY <2>1, Fields DEF AsFraction, Contract!Fractions
  <2> QED
    BY <2>1, <2>2 DEF Contract!Init
<1>2. TypeOK /\ [Next]_vars => [Contract!Next]_(Contract!vars)
  <2>1. CASE UNCHANGED vars
    <3>1. acc' = acc /\ call' = call /\ err' = err
      BY <2>1 DEF vars
    <3>2. AsFraction(acc)' = AsFraction(acc) /\ AsRequest' = AsRequest
      BY <3>1 DEF AsFraction, AsRequest, NoCall
    <3> QED
      BY <3>1, <3>2 DEF Contract!vars
  <2>2. ASSUME TypeOK, Next PROVE Contract!Next
    <3>1. ASSUME NEW name \in CallOps, NEW answer, Return(name, answer)
          PROVE  call \in Calls /\ call.op = name /\ Returned(answer)
      <4>1. call.op = name /\ Returned(answer) /\ name # "none"
        BY <3>1 DEF Return, Returned, CallOps
      <4> QED
        BY <2>2, <4>1, PendingCall DEF TypeOK
    <3>2. CASE Load \/ \E c \in Calls : Request(c)
      BY <2>2, <3>2, CallerRefines
    <3>3. CASE DoNeg
      BY <2>2, <3>1, <3>3, NegRefines DEF DoNeg, CallOps
    <3>4. CASE DoAbs
      BY <2>2, <3>1, <3>4, AbsRefines DEF DoAbs, CallOps
    <3>5. CASE DoAdd
      BY <2>2, <3>1, <3>5, AddRefines DEF DoAdd, CallOps
    <3>6. CASE DoSub
      BY <2>2, <3>1, <3>6, SubRefines DEF DoSub, CallOps
    <3>7. CASE DoMin
      BY <2>2, <3>1, <3>7, MinRefines DEF DoMin, CallOps
    <3>8. CASE DoMax
      BY <2>2, <3>1, <3>8, MaxRefines DEF DoMax, CallOps
    <3>9. CASE DoMul
      BY <2>2, <3>1, <3>9, MulRefines DEF DoMul, CallOps
    <3>10. CASE DoDiv
      BY <2>2, <3>1, <3>10, DivRefines DEF DoDiv, CallOps
    <3>11. CASE DoRescale
      BY <2>2, <3>1, <3>11, RescaleRefines DEF DoRescale, CallOps
    <3>12. CASE DoQuantizeStep
      BY <2>2, <3>1, <3>12, QuantizeStepRefines DEF DoQuantizeStep, CallOps
    <3> QED
      BY <2>2, <3>2, <3>3, <3>4, <3>5, <3>6, <3>7, <3>8, <3>9, <3>10, <3>11, <3>12 DEF Next
  <2> QED
    BY <2>1, <2>2
<1> QED
  BY <1>1, <1>2, TypeCorrect, PTL DEF Spec, RefinesExactCalc, Contract!Spec

-----------------------------------------------------------------------------
(* Sums and averages *)

USE DEF input

CurrencyErrors == {"ErrInvalidCurrency", "ErrCurrencyMismatch"}

Slices == ValueLists \cup DecimalLists \cup MoneyLists

-----------------------------------------------------------------------------
(* Decimals know no currency. *)

LEMMA DecimalErrors ==
    ASSUME NEW a, NEW b, NEW s, NEW m
    PROVE  /\ D!Ok(a).err \notin CurrencyErrors
           /\ D!Div(a, b, s, m).err \notin CurrencyErrors
           /\ D!DivExact(a, b).err \notin CurrencyErrors
           /\ D!Rescale(a, s, m).err \notin CurrencyErrors
           /\ D!RescaleExact(a, s).err \notin CurrencyErrors
<1>1. /\ D!Ok(a).err = "nil"
      /\ \A e : D!Fail(e).err = e
  BY DEF D!Ok, D!Fail
<1>2. D!Div(a, b, s, m).err \in {"nil", "ErrDivisionByZero", "ErrInvalidScale", "ErrInvalidRoundingMode"}
  BY DEF D!Div, D!Ok, D!Fail
<1>3. D!DivExact(a, b).err \in {"nil", "ErrDivisionByZero", "ErrInexact"}
  BY DEF D!DivExact, D!Ok, D!Fail
<1>4. D!Rescale(a, s, m).err \in {"nil", "ErrInvalidScale", "ErrInvalidRoundingMode"}
  BY DEF D!Rescale, D!Ok, D!Fail
<1>5. D!RescaleExact(a, s).err \in {"nil", "ErrInvalidScale", "ErrInexact"}
  BY DEF D!RescaleExact, D!Ok, D!Fail
<1> QED
  BY <1>1, <1>2, <1>3, <1>4, <1>5 DEF CurrencyErrors

LEMMA AverageErrors == ExactAverage.err \notin CurrencyErrors
BY DecimalErrors DEF ExactAverage

-----------------------------------------------------------------------------
(* The invariant. *)

\* What is in the total so far is of the currency of the reference
OneCurrencySoFar ==
    /\ values # <<>> /\ Reference \in Currencies
    /\ HasPolicy => PolicyError = "nil"
    /\ \A k \in DOMAIN values : k < i => values[k].currency = Reference

CurrencyInv ==
    /\ values \in Slices
    /\ i \in Nat \ {0}
    /\ pc = "check" => i = 1
    /\ pc = "fast" => type = "Fixed64"
    /\ OfMoney /\ pc \in {"decimal", "divide"} => OneCurrencySoFar
    /\ pc = "divide" /\ OfMoney => i > Len(values)
    /\ CurrenciesNeverMix

LEMMA ListType ==
    ASSUME values \in Slices
    PROVE  /\ Len(values) \in Nat /\ DOMAIN values = 1 .. Len(values)
           /\ values # <<>> => Len(values) >= 1
<1> DEFINE S == Range(values)
<1>1. values \in Seq(S)
  BY InputAssumption DEF Slices
<1> HIDE DEF S
<1>2. Len(values) \in Nat /\ DOMAIN values = 1 .. Len(values)
  BY <1>1, LenProperties
<1>3. values # <<>> => Len(values) \in Nat \ {0}
  BY <1>1, EmptySeq
<1> QED
  BY <1>2, <1>3

LEMMA CurrencyInit == AggregateInit => CurrencyInv
<1> SUFFICES ASSUME AggregateInit PROVE CurrencyInv
  OBVIOUS
<1>1. values \in Slices
  BY DEF AggregateInit, Slices
<1>2. pc = "check" /\ i = 1
  BY DEF AggregateInit, Slices
<1> QED
  BY <1>1, <1>2 DEF CurrencyInv, CurrenciesNeverMix

-----------------------------------------------------------------------------
(* Returning. *)

\* A call that has added up all values, or added none for its policy or for want
\* of values, has no error of a currency to report.
LEMMA CleanReturn ==
    ASSUME OneCurrencySoFar, i > Len(values), values \in Slices, i \in Nat,
           NEW answer, answer.err \notin CurrencyErrors, Answer(answer)
    PROVE  CurrenciesNeverMix'
<1>1. \A k \in DOMAIN values : values[k].currency \in Currencies /\ values[k].currency = Reference
  BY ListType DEF OneCurrencySoFar
<1>2. error' \notin CurrencyErrors /\ UNCHANGED input
  BY DEF Answer
<1>3. (HasPolicy => PolicyError = "nil")'
  BY <1>2 DEF OneCurrencySoFar, HasPolicy, PolicyError
<1>4. (\A k \in DOMAIN values : values[k].currency \in Currencies /\ values[k].currency = Reference)'
  BY <1>1, <1>2 DEF Reference, First
<1> QED
  BY <1>2, <1>3, <1>4 DEF CurrenciesNeverMix, CurrencyErrors

\* The first value of another currency, or of none, is the error of the call.
LEMMA StrangerReturn ==
    ASSUME values \in Slices, i \in DOMAIN values, i \in Nat,
           HasPolicy => PolicyError = "nil",
           \A k \in DOMAIN values : k < i => values[k].currency \in Currencies /\ values[k].currency = Reference,
           values[i].currency \notin Currencies \/ values[i].currency # Reference,
           NEW e, e = IF values[i].currency \in Currencies THEN "ErrCurrencyMismatch" ELSE "ErrInvalidCurrency",
           Answer(D!Fail(e))
    PROVE  CurrenciesNeverMix'
<1> DEFINE stranger(k) == values[k].currency \notin Currencies \/ values[k].currency # Reference
           strangers   == {k \in DOMAIN values : stranger(k)}
           first       == CHOOSE k \in strangers : \A l \in strangers : k <= l
<1>1. error' = e /\ UNCHANGED input
  BY DEF Answer, D!Fail
<1>2. i \in strangers /\ \A l \in strangers : i <= l
  BY ListType
<1>3. first = i
  <2>1. first \in strangers /\ \A l \in strangers : first <= l
    BY <1>2
  <2> HIDE DEF first
  <2>2. first \in Nat
    BY <2>1, ListType
  <2> QED
    BY <1>2, <2>1, <2>2
<1>4. strangers' = strangers /\ first' = first
  BY <1>1 DEF Reference, First
<1>5. (HasPolicy => PolicyError = "nil")'
  BY <1>1 DEF HasPolicy, PolicyError
<1> QED
  BY <1>1, <1>2, <1>3, <1>4, <1>5 DEF CurrenciesNeverMix

-----------------------------------------------------------------------------
(* Steps. *)

\* A step that returns leaves nothing to add.
LEMMA ReturnStep ==
    ASSUME CurrencyInv, NEW answer, Answer(answer), CurrenciesNeverMix'
    PROVE  CurrencyInv'
BY DEF CurrencyInv, Answer, OfMoney

\* The loop starts with the first value in the total.
LEMMA StartStep ==
    ASSUME CurrencyInv, StartSum, OfMoney => type = "Money" /\ values # <<>> /\ First.currency \in Currencies
    PROVE  CurrencyInv'
<1>1. /\ UNCHANGED input /\ pc' = "decimal" /\ i' = 2
      /\ values \in Slices
  BY DEF StartSum, CurrencyInv
<1>2. OfMoney' => OneCurrencySoFar'
  <2> SUFFICES ASSUME OfMoney PROVE OneCurrencySoFar'
    BY <1>1 DEF OfMoney
  <2>1. type = "Money" /\ values # <<>> /\ First.currency \in Currencies
    OBVIOUS
  <2>2. \A k \in DOMAIN values : k < 2 => k = 1
    BY <1>1, ListType
  <2> QED
    BY <1>1, <2>1, <2>2 DEF OneCurrencySoFar, Reference, First, HasPolicy
<1> QED
  BY <1>1, <1>2 DEF CurrencyInv, CurrenciesNeverMix

\* Values that are not money have no currency to mix.
LEMMA OtherTypes ==
    ASSUME ~OfMoney, UNCHANGED type
    PROVE  CurrenciesNeverMix'
BY DEF OfMoney, CurrenciesNeverMix

LEMMA MoneyChecked ==
    ASSUME CurrencyInv, CheckMoney
    PROVE  CurrencyInv'
<1>1. /\ type = "Money" /\ OfMoney /\ ~HasPolicy /\ i = 1 /\ i \in Nat
      /\ values \in Slices
  BY DEF CheckMoney, CurrencyInv, OfMoney, HasPolicy
<1>2. CASE values = <<>> /\ Answer(D!Fail("ErrEmptyInput"))
  BY <1>2, ReturnStep DEF Answer, CurrenciesNeverMix
<1>3. CASE values # <<>> /\ First.currency \notin Currencies /\ Answer(D!Fail("ErrInvalidCurrency"))
  <2>1. 1 \in DOMAIN values
    BY <1>1, <1>3, ListType
  <2>2. CurrenciesNeverMix'
    BY <1>1, <1>3, <2>1, StrangerReturn DEF First
  <2> QED
    BY <1>3, <2>2, ReturnStep
<1>4. CASE values # <<>> /\ First.currency \in Currencies /\ StartSum
  BY <1>1, <1>4, StartStep
<1> QED
  BY <1>2, <1>3, <1>4 DEF CheckMoney

LEMMA MoneyContextChecked ==
    ASSUME CurrencyInv, CheckMoneyContext
    PROVE  CurrencyInv'
<1>1. /\ type = "MoneyContext" /\ OfMoney /\ HasPolicy /\ i = 1 /\ Reference = code
      /\ values \in Slices
  BY DEF CheckMoneyContext, CurrencyInv, OfMoney, HasPolicy, Reference
<1>2. CASE PolicyError # "nil" /\ Answer(D!Fail(PolicyError))
  <2>1. error' = PolicyError /\ UNCHANGED input
    BY <1>2 DEF Answer, D!Fail
  <2>2. CurrenciesNeverMix'
    <3>1. HasPolicy' /\ PolicyError' = PolicyError
      BY <1>1, <2>1 DEF HasPolicy, PolicyError
    <3> QED
      BY <1>2, <2>1, <3>1 DEF CurrenciesNeverMix
  <2> QED
    BY <1>2, <2>2, ReturnStep
<1>3. CASE PolicyError = "nil" /\ values = <<>> /\ Answer(D!Fail("ErrEmptyInput"))
  BY <1>3, ReturnStep DEF Answer, CurrenciesNeverMix
<1>4. CASE /\ PolicyError = "nil" /\ values # <<>>
           /\ pc' = "decimal" /\ UNCHANGED <<input, i, units, total, result, error>>
  <2>1. code \in Currencies
    BY <1>1, <1>4 DEF PolicyError
  <2>2. \A k \in DOMAIN values : ~(k < 1)
    BY <1>1, ListType
  <2>3. OneCurrencySoFar'
    BY <1>1, <1>4, <2>1, <2>2 DEF OneCurrencySoFar, Reference, First, HasPolicy, PolicyError
  <2> QED
    BY <1>4, <2>3 DEF CurrencyInv, CurrenciesNeverMix
<1> QED
  BY <1>2, <1>3, <1>4 DEF CheckMoneyContext

LEMMA Added ==
    ASSUME CurrencyInv, DecimalAdd
    PROVE  CurrencyInv'
<1>1. /\ pc = "decimal" /\ i \in Nat /\ i <= Len(values)
      /\ values \in Slices
      /\ OfMoney => OneCurrencySoFar
  BY DEF DecimalAdd, CurrencyInv
<1>2. CASE OfMoney /\ CurrencyError(values[i]) # "nil" /\ Answer(D!Fail(CurrencyError(values[i])))
  <2>1. i >= 1
    BY DEF CurrencyInv
  <2>2. i \in DOMAIN values
    BY <1>1, <2>1, ListType
  <2>3. CurrenciesNeverMix'
    <3>1. /\ HasPolicy => PolicyError = "nil"
          /\ Reference \in Currencies
          /\ \A k \in DOMAIN values : k < i => values[k].currency \in Currencies /\ values[k].currency = Reference
      BY <1>1, <1>2 DEF OneCurrencySoFar
    <3>2. /\ values[i].currency \notin Currencies \/ values[i].currency # Reference
          /\ CurrencyError(values[i])
               = IF values[i].currency \in Currencies THEN "ErrCurrencyMismatch" ELSE "ErrInvalidCurrency"
      BY <1>2, <3>1 DEF CurrencyError
    <3> QED
      BY <1>1, <1>2, <2>2, <3>1, <3>2, StrangerReturn
  <2> QED
    BY <1>2, <2>3, ReturnStep
<1>3. CASE (OfMoney => CurrencyError(values[i]) = "nil") /\ AddNext
  <2>1. UNCHANGED <<input, pc>> /\ i' = i + 1
    BY <1>3 DEF AddNext
  <2>2. OfMoney => OneCurrencySoFar'
    <3> SUFFICES ASSUME OfMoney PROVE OneCurrencySoFar'
      OBVIOUS
    <3>1. OneCurrencySoFar /\ CurrencyError(values[i]) = "nil"
      BY <1>1, <1>3
    <3>2. values[i].currency = Reference
      BY <3>1 DEF CurrencyError
    <3>3. \A k \in DOMAIN values : k < i + 1 => k < i \/ k = i
      BY <1>1, ListType
    <3> QED
      BY <2>1, <3>1, <3>2, <3>3 DEF OneCurrencySoFar, Reference, First, HasPolicy, PolicyError
  <2> QED
    BY <1>1, <2>1, <2>2 DEF CurrencyInv, OfMoney, CurrenciesNeverMix
<1> QED
  BY <1>2, <1>3 DEF DecimalAdd

LEMMA Divided ==
    ASSUME CurrencyInv, DivideDecimal \/ DividePolicy
    PROVE  CurrencyInv'
<1>1. PICK answer : Answer(answer) /\ answer.err \notin CurrencyErrors
  BY DecimalErrors, AverageErrors DEF DivideDecimal, DividePolicy
<1>2. pc = "divide" /\ i \in Nat /\ values \in Slices
  BY DEF DivideDecimal, DividePolicy, CurrencyInv
<1>3. CASE OfMoney
  <2>1. OneCurrencySoFar /\ i > Len(values)
    BY <1>2, <1>3 DEF CurrencyInv
  <2> QED
    BY <1>1, <1>2, <2>1, CleanReturn, ReturnStep
<1>4. CASE ~OfMoney
  BY <1>1, <1>4, OtherTypes, ReturnStep DEF Answer
<1> QED
  BY <1>3, <1>4

LEMMA CurrencyStep == CurrencyInv /\ [AggregateNext]_aggregateVars => CurrencyInv'
<1> SUFFICES ASSUME CurrencyInv, [AggregateNext]_aggregateVars PROVE CurrencyInv'
  OBVIOUS
<1>1. CASE CheckFixed64 \/ FastAdd \/ FastReturn \/ Divide
  <2>1. type = "Fixed64" /\ ~OfMoney
    BY <1>1 DEF CheckFixed64, FastAdd, FastReturn, Divide, CurrencyInv, OfMoney
  <2>2. UNCHANGED input /\ i' \in Nat \ {0} /\ pc' # "check"
    BY <1>1 DEF CheckFixed64, FastAdd, FastReturn, Divide, FallBack, StartSum, Answer, CurrencyInv
  <2> QED
    BY <2>1, <2>2, OtherTypes DEF CurrencyInv, OfMoney
<1>2. CASE CheckDecimal \/ CheckContext
  <2>1. ~OfMoney
    BY <1>2 DEF CheckDecimal, CheckContext, OfMoney
  <2>2. UNCHANGED input /\ i' \in Nat \ {0} /\ pc' \in {"decimal", "done"}
    BY <1>2 DEF CheckDecimal, CheckContext, StartSum, Answer, CurrencyInv
  <2> QED
    BY <2>1, <2>2, OtherTypes DEF CurrencyInv, OfMoney
<1>3. CASE CheckMoney
  BY <1>3, MoneyChecked
<1>4. CASE CheckMoneyContext
  BY <1>4, MoneyContextChecked
<1>5. CASE DecimalAdd
  BY <1>5, Added
<1>6. CASE DecimalDone
  BY <1>6 DEF DecimalDone, CurrencyInv, OfMoney, OneCurrencySoFar, CurrenciesNeverMix, Reference, First,
              HasPolicy, PolicyError
<1>7. CASE DivideDecimal \/ DividePolicy
  BY <1>7, Divided
<1>8. CASE UNCHANGED aggregateVars
  BY <1>8 DEF aggregateVars, CurrencyInv, OfMoney, OneCurrencySoFar, CurrenciesNeverMix, Reference, First,
              HasPolicy, PolicyError
<1> QED
  BY <1>1, <1>2, <1>3, <1>4, <1>5, <1>6, <1>7, <1>8 DEF AggregateNext

\* "summing across currencies is a category error": for lists of any length, a sum or
\* an average of money is taken over values of one valid currency, that of the policy
\* if there is one, and otherwise the first value that is not is the error of the call.
\* (aggregate.go, money_context.go)
THEOREM AmountsNeverMix == AggregateSpec => []CurrenciesNeverMix
<1>1. CurrencyInv => CurrenciesNeverMix
  BY DEF CurrencyInv
<1> QED
  BY <1>1, CurrencyInit, CurrencyStep, PTL DEF AggregateSpec

-----------------------------------------------------------------------------
(* Partial sums, as integers at a scale. *)

\* What the first n values add up to, at a scale that none of them exceeds
Terms(n, s) == [k \in 1 .. n |-> values[k].units * Pow10[s - values[k].scale]]
SumOf(n, s) == Total(Terms(n, s))
Bounds(n, s) == s \in 0 .. MaxScale /\ \A k \in 1 .. n : values[k].scale <= s

\* The widest scale of the first n values: that of a zero total if there is none
Widest(n, s) ==
    /\ Bounds(n, s)
    /\ IF n = 0 THEN s = 0 ELSE \E k \in 1 .. n : values[k].scale = s

LEMMA ValueFields ==
    ASSUME values \in Slices, NEW k \in 1 .. Len(values)
    PROVE  /\ values[k].units \in Int /\ values[k].scale \in 0 .. MaxScale
           /\ values[k].scale \in Nat /\ values[k].scale <= MaxScale
           /\ values \in ValueLists => values[k].units \in Int64 /\ ValidFixed64Scale(values[k].scale)
<1>1. k \in DOMAIN values
  BY ListType
<1>2. values[k].units \in Int /\ values[k].scale \in 0 .. MaxScale
  BY <1>1, InputAssumption DEF Slices
<1>3. values \in ValueLists => values[k].units \in Int64 /\ ValidFixed64Scale(values[k].scale)
  BY <1>1, InputAssumption
<1> DEFINE s == values[k].scale
<1>4. s \in 0 .. MaxScale /\ MaxScale \in Nat
  BY <1>2, Constants
<1> HIDE DEF s
<1>5. s \in Nat /\ s <= MaxScale
  BY <1>4
<1> QED
  BY <1>2, <1>3, <1>5 DEF s

\* One value at a scale that is not below its own.
LEMMA TermIsInt ==
    ASSUME values \in Slices, NEW k \in 1 .. Len(values), NEW s \in 0 .. MaxScale, values[k].scale <= s
    PROVE  /\ s - values[k].scale \in Nat /\ s - values[k].scale <= MaxScale
           /\ Pow10[s - values[k].scale] \in Nat \ {0}
           /\ values[k].units * Pow10[s - values[k].scale] \in Int
<1> DEFINE v == values[k].scale
           u == values[k].units
           e == s - v
<1>1. u \in Int /\ v \in Nat /\ v <= s /\ MaxScale \in Nat
  BY ValueFields, Constants
<1> HIDE DEF u, v
<1>2. e \in 0 .. MaxScale /\ e \in Nat /\ e <= MaxScale
  BY <1>1
<1> HIDE DEF e
<1>3. Pow10[e] \in Nat \ {0}
  BY <1>2, Constants
<1> DEFINE p == Pow10[e]
<1> HIDE DEF p
<1>4. p \in Nat \ {0} /\ u * p \in Int
  BY <1>1, <1>3 DEF p
<1> QED
  BY <1>2, <1>4 DEF p, e, u, v

LEMMA SumEmpty == \A s : SumOf(0, s) = 0
<1> SUFFICES ASSUME NEW s PROVE SumOf(0, s) = 0
  OBVIOUS
<1>1. Terms(0, s) = <<>>
  BY DEF Terms
<1> QED
  BY <1>1, TotalEmpty DEF SumOf

LEMMA TermsAreInts ==
    ASSUME values \in Slices, NEW n \in 0 .. Len(values), NEW s, Bounds(n, s)
    PROVE  Terms(n, s) \in Seq(Int) /\ SumOf(n, s) \in Int
<1>1. Len(values) \in Nat /\ n \in Nat
  BY ListType
<1>2. \A k \in 1 .. n : k \in 1 .. Len(values) /\ values[k].scale <= s /\ s \in 0 .. MaxScale
  BY <1>1 DEF Bounds
<1>3. \A k \in 1 .. n : values[k].units * Pow10[s - values[k].scale] \in Int
  BY <1>2, TermIsInt
<1>4. Terms(n, s) \in Seq(Int)
  BY <1>1, <1>3 DEF Terms
<1>5. \E f : RunningTotal(f, Terms(n, s))
  BY <1>4, RunningTotalExists
<1> QED
  BY <1>4, <1>5, TotalIsLast DEF SumOf

\* One value more.
LEMMA SumNext ==
    ASSUME values \in Slices, NEW n \in Nat, n + 1 <= Len(values), NEW s, Bounds(n + 1, s)
    PROVE  /\ SumOf(n + 1, s) = SumOf(n, s) + values[n + 1].units * Pow10[s - values[n + 1].scale]
           /\ SumOf(n, s) \in Int
           /\ values[n + 1].units * Pow10[s - values[n + 1].scale] \in Int
<1> DEFINE x == values[n + 1].units * Pow10[s - values[n + 1].scale]
           t == Terms(n, s)
<1>1. Len(values) \in Nat /\ n \in 0 .. Len(values) /\ n + 1 \in 1 .. Len(values) /\ n + 1 \in 1 .. n + 1
  BY ListType
<1>2. Bounds(n, s) /\ s \in 0 .. MaxScale /\ values[n + 1].scale <= s
  BY <1>1 DEF Bounds
<1>3. t \in Seq(Int) /\ SumOf(n, s) \in Int
  BY <1>1, <1>2, TermsAreInts
<1>4. x \in Int
  BY <1>1, <1>2, TermIsInt
<1>5. Len(t) = n /\ \A k \in 1 .. n : t[k] = values[k].units * Pow10[s - values[k].scale]
  BY DEF Terms
<1>6. Terms(n + 1, s) = Append(t, x)
  <2>1. /\ Terms(n + 1, s) \in [1 .. n + 1 -> Int]
    <3>1. n + 1 \in 0 .. Len(values)
      BY <1>1
    <3>2. Terms(n + 1, s) \in Seq(Int) /\ Len(Terms(n + 1, s)) = n + 1
      BY <3>1, TermsAreInts DEF Terms
    <3> QED
      BY <3>2, LenProperties
  <2> DEFINE a == Append(t, x)
  <2>2. a \in Seq(Int) /\ Len(a) = n + 1 /\ a[n + 1] = x /\ \A k \in 1 .. n : a[k] = t[k]
    BY <1>3, <1>4, <1>5, AppendProperties
  <2>3. a \in [1 .. n + 1 -> Int]
    BY <2>2, LenProperties
  <2> HIDE DEF a, t, x
  <2>4. \A k \in 1 .. n + 1 : Terms(n + 1, s)[k] = a[k]
    <3> TAKE k \in 1 .. n + 1
    <3>1. Terms(n + 1, s)[k] = values[k].units * Pow10[s - values[k].scale]
      BY DEF Terms
    <3>2. CASE k = n + 1
      BY <2>2, <3>1, <3>2 DEF x
    <3>3. CASE k \in 1 .. n
      BY <1>5, <2>2, <3>1, <3>3
    <3> QED
      BY <3>2, <3>3
  <2>5. Terms(n + 1, s) = a
    BY <2>1, <2>3, <2>4
  <2> QED
    BY <2>5 DEF a
<1> HIDE DEF x, t
<1>7. Total(Append(t, x)) = Total(t) + x
  BY <1>3, <1>4, TotalAppend
<1> QED
  BY <1>3, <1>4, <1>6, <1>7 DEF SumOf, t, x

\* A wider scale multiplies a partial sum by a power of ten.
LEMMA SumShift ==
    ASSUME values \in Slices, NEW s, NEW t \in 0 .. MaxScale,
           NEW m \in 0 .. Len(values), Bounds(m, s), s <= t
    PROVE  SumOf(m, t) = SumOf(m, s) * Pow10[t - s]
<1> DEFINE p == Pow10[t - s]
           S == {n \in Nat : n <= m => SumOf(n, t) = SumOf(n, s) * p}
<1>1. /\ s \in Nat /\ t \in Nat /\ s <= MaxScale /\ t <= MaxScale /\ MaxScale \in Nat
      /\ t - s \in 0 .. MaxScale /\ m \in Nat /\ m <= Len(values) /\ Len(values) \in Nat
  BY Constants, ListType DEF Bounds
<1>2. p \in Nat
  BY <1>1, Constants
<1>3. 0 \in S
  BY <1>2, SumEmpty
<1>4. ASSUME NEW n \in S PROVE n + 1 \in S
  <2> SUFFICES ASSUME n + 1 <= m PROVE SumOf(n + 1, t) = SumOf(n + 1, s) * p
    OBVIOUS
  <2> DEFINE u == values[n + 1].units
             v == values[n + 1].scale
             a == Pow10[s - v]
             b == Pow10[t - v]
             f == SumOf(n, s)
  <2>1. n \in Nat /\ n <= m /\ n + 1 <= Len(values) /\ n + 1 \in 1 .. Len(values) /\ n + 1 \in 1 .. m
    BY <1>1
  <2>2. Bounds(n + 1, s) /\ Bounds(n + 1, t) /\ v <= s
    <3>1. \A k \in 1 .. n + 1 : k \in 1 .. m /\ k \in 1 .. Len(values)
      BY <1>1, <2>1
    <3>2. \A k \in 1 .. n + 1 : values[k].scale <= s /\ values[k].scale \in Nat
      BY <3>1, ValueFields DEF Bounds
    <3>3. \A k \in 1 .. n + 1 : values[k].scale <= t
      BY <1>1, <3>2
    <3> QED
      BY <1>1, <2>1, <3>2, <3>3 DEF Bounds
  <2>3. /\ SumOf(n + 1, s) = f + u * a /\ f \in Int
        /\ SumOf(n + 1, t) = SumOf(n, t) + u * b
    BY <2>1, <2>2, SumNext
  <2>4. SumOf(n, t) = f * p
    BY <2>1
  <2>5. u \in Int /\ v \in Nat
    BY <2>1, ValueFields
  <2>6. a \in Nat /\ b = a * p
    <3> DEFINE x == s - v
               y == t - s
    <3>1. x \in Nat /\ y \in Nat /\ x + y = t - v /\ x + y <= 2 * MaxScale /\ 2 * MaxScale \in Nat
          /\ x \in 0 .. MaxScale
      <4> HIDE DEF v
      <4> QED
        BY <1>1, <2>2, <2>5
    <3> HIDE DEF x, y
    <3>2. Pow10[x + y] = Pow10[x] * Pow10[y]
      BY <3>1, Constants, PowersAdd
    <3>3. Pow10[x] \in Nat
      BY <3>1, Constants
    <3> QED
      BY <3>1, <3>2, <3>3 DEF x, y
  <2> HIDE DEF u, a, b, f, p
  <2>7. f * p + u * (a * p) = (f + u * a) * p
    BY <1>2, <2>3, <2>5, <2>6
  <2> QED
    BY <2>3, <2>4, <2>6, <2>7
<1>5. S = Nat
  <2> HIDE DEF S
  <2>1. S \subseteq Nat
    BY DEF S
  <2> QED
    BY <1>3, <1>4, <2>1, Induction
<1> QED
  BY <1>1, <1>5

\* The total of the Decimal loop after n values
SumTo(d, n) == Widest(n, d.scale) /\ d.coef = SumOf(n, d.scale) /\ d.coef \in Int

LEMMA DecimalOfValue ==
    ASSUME values \in Slices, NEW k \in 1 .. Len(values)
    PROVE  Decimal(values[k]) = D!Dec(values[k].units, values[k].scale)
<1>1. ~(values[k].scale < 0)
  BY ValueFields
<1> QED
  BY <1>1 DEF Decimal, D!New, D!Ok

\* The sum of the first value is its units.
LEMMA SumFirst ==
    ASSUME values \in Slices, values # <<>>
    PROVE  /\ SumTo(Decimal(First), 1)
           /\ SumOf(1, First.scale) = First.units /\ Widest(1, First.scale)
           /\ First.units \in Int
<1>1. Len(values) \in Nat /\ 1 <= Len(values) /\ 1 \in 1 .. Len(values) /\ First = values[1]
  BY ListType DEF First
<1> DEFINE u == First.units
           s == First.scale
<1>2. u \in Int /\ s \in 0 .. MaxScale /\ s \in Nat /\ s <= s
  BY <1>1, ValueFields
<1>3. Widest(1, s) /\ Bounds(1, s)
  BY <1>1, <1>2 DEF Widest, Bounds
<1>4. SumOf(1, s) = u
  <2>1. 0 \in Nat /\ 0 + 1 = 1
    OBVIOUS
  <2>2. SumOf(1, s) = SumOf(0, s) + u * Pow10[s - s]
    <3>1. SumOf(0 + 1, s) = SumOf(0, s) + values[0 + 1].units * Pow10[s - values[0 + 1].scale]
      BY <1>1, <1>3, <2>1, SumNext
    <3> QED
      BY <1>1, <2>1, <3>1
  <2>3. s - s = 0 /\ Pow10[0] = 1 /\ SumOf(0, s) = 0
    BY <1>2, SumEmpty, Constants
  <2> HIDE DEF u
  <2>4. 0 + u * 1 = u
    BY <1>2
  <2> QED
    BY <2>2, <2>3, <2>4
<1>5. Decimal(First) = D!Dec(u, s)
  BY <1>1, DecimalOfValue
<1>6. Decimal(First).coef = u /\ Decimal(First).scale = s
  BY <1>5 DEF D!Dec
<1> QED
  BY <1>2, <1>3, <1>4, <1>6 DEF SumTo

\* Aligning the total with the next value keeps it exact.
LEMMA SumAdd ==
    ASSUME values \in Slices, NEW d, NEW n \in Nat, n + 1 <= Len(values), SumTo(d, n)
    PROVE  SumTo(D!Add(d, Decimal(values[n + 1])), n + 1)
<1> DEFINE u == values[n + 1].units
           v == values[n + 1].scale
           s == d.scale
           c == d.coef
           t == IF s > v THEN s ELSE v
           sum == D!Add(d, Decimal(values[n + 1]))
<1>1. n + 1 \in 1 .. Len(values) /\ n \in 0 .. Len(values) /\ Len(values) \in Nat
  BY ListType
<1>2. u \in Int /\ v \in Nat /\ v <= MaxScale /\ MaxScale \in Nat
  BY <1>1, ValueFields, Constants
<1>3. Widest(n, s) /\ c = SumOf(n, s) /\ c \in Int /\ s \in 0 .. MaxScale
  BY DEF SumTo, Widest, Bounds
<1>4. /\ t \in 0 .. MaxScale /\ s <= t /\ v <= t /\ t \in {s, v} /\ s \in Nat
  BY <1>2, <1>3
<1>5. sum = D!Dec(c * Pow10[t - s] + u * Pow10[t - v], t)
  <2>1. Decimal(values[n + 1]) = D!Dec(u, v)
    BY <1>1, DecimalOfValue
  <2> HIDE DEF u, v
  <2>2. Decimal(values[n + 1]).coef = u /\ Decimal(values[n + 1]).scale = v
    BY <2>1 DEF D!Dec
  <2> QED
    BY <2>2 DEF D!Add, D!AlignTo, D!LargerScale
<1>6. sum.scale = t /\ sum.coef = c * Pow10[t - s] + u * Pow10[t - v]
  BY <1>5 DEF D!Dec
<1> HIDE DEF sum
<1>7. Widest(n + 1, t)
  <2>1. \A k \in 1 .. n + 1 : k \in 1 .. n \/ k = n + 1
    OBVIOUS
  <2>2. \A k \in 1 .. n : values[k].scale <= s /\ values[k].scale \in Nat
    <3>1. \A k \in 1 .. n : k \in 1 .. Len(values)
      BY <1>1
    <3> QED
      BY <1>3, <3>1, ValueFields DEF Widest, Bounds
  <2>3. \A k \in 1 .. n : values[k].scale <= t
    <3> HIDE DEF t, s
    <3> QED
      BY <1>4, <2>2
  <2>4. Bounds(n + 1, t)
    <3> HIDE DEF t
    <3> QED
      BY <1>4, <2>1, <2>3 DEF Bounds
  <2>5. \E k \in 1 .. n + 1 : values[k].scale = t
    <3>1. CASE t = v
      <4>1. n + 1 \in 1 .. n + 1
        OBVIOUS
      <4> QED
        BY <3>1, <4>1
    <3>2. CASE t = s /\ t # v
      <4>1. n # 0
        BY <1>2, <1>3, <3>2 DEF Widest
      <4>2. PICK k \in 1 .. n : values[k].scale = s
        BY <1>3, <4>1 DEF Widest
      <4>3. k \in 1 .. n + 1
        OBVIOUS
      <4> QED
        BY <3>2, <4>2, <4>3
    <3> QED
      BY <1>4, <3>1, <3>2
  <2> QED
    BY <2>4, <2>5 DEF Widest
<1>8. SumOf(n, t) = c * Pow10[t - s]
  <2>1. Bounds(n, s)
    BY <1>3 DEF Widest
  <2> HIDE DEF t
  <2> QED
    BY <1>1, <1>3, <1>4, <2>1, SumShift
<1>9. /\ SumOf(n + 1, t) = SumOf(n, t) + u * Pow10[t - v]
      /\ SumOf(n, t) \in Int /\ u * Pow10[t - v] \in Int
  <2>1. Bounds(n + 1, t)
    BY <1>7 DEF Widest
  <2> HIDE DEF t
  <2> QED
    BY <2>1, SumNext
<1> HIDE DEF t, u, v, c
<1> QED
  BY <1>6, <1>7, <1>8, <1>9 DEF SumTo, sum

\* The fast loop adds units of values of one scale.
LEMMA FastSumNext ==
    ASSUME values \in ValueLists, values # <<>>, NEW n \in Nat \ {0}, n + 1 <= Len(values),
           Widest(n, First.scale), values[n + 1].scale = First.scale
    PROVE  /\ Widest(n + 1, First.scale)
           /\ SumOf(n + 1, First.scale) = SumOf(n, First.scale) + values[n + 1].units
           /\ values[n + 1].units \in Int64
<1> DEFINE u == values[n + 1].units
           s == First.scale
<1>1. values \in Slices /\ n + 1 \in 1 .. Len(values) /\ n \in Nat
  BY ListType DEF Slices
<1>2. u \in Int64 /\ u \in Int
  BY <1>1, ValueFields
<1>3. s \in 0 .. MaxScale /\ s \in Nat /\ s <= s
  BY <1>1, ValueFields
<1>4. Widest(n + 1, s)
  <2>1. \A k \in 1 .. n + 1 : k \in 1 .. n \/ k = n + 1
    OBVIOUS
  <2>2. n + 1 \in 1 .. n + 1 /\ n + 1 # 0
    OBVIOUS
  <2> QED
    BY <1>3, <2>1, <2>2 DEF Widest, Bounds
<1>5. SumOf(n + 1, s) = SumOf(n, s) + u * Pow10[s - s]
  BY <1>1, <1>4, SumNext DEF Widest
<1>6. s - s = 0 /\ Pow10[0] = 1
  BY <1>3, Constants
<1> HIDE DEF u
<1>7. u * 1 = u
  BY <1>2
<1> QED
  BY <1>2, <1>4, <1>5, <1>6, <1>7 DEF u

\* What the loops leave, after the last value, is the exact sum.
LEMMA WholeSum ==
    ASSUME values \in Slices, values # <<>>, NEW s, Widest(Len(values), s)
    PROVE  /\ WidestScale = s /\ s \in 0 .. MaxScale
           /\ ExactUnits = SumOf(Len(values), s)
           /\ ExactUnits \in Int
           /\ values \in ValueLists => ValidFixed64Scale(s)
<1> DEFINE n == Len(values)
           S == {values[k].scale : k \in DOMAIN values}
<1>1. n \in Nat /\ n # 0 /\ DOMAIN values = 1 .. n
  BY ListType
<1>2. \A k \in 1 .. n : values[k].scale \in Nat /\ values[k].scale <= s
  BY ValueFields DEF Widest, Bounds
<1>3. PICK j \in 1 .. n : values[j].scale = s
  BY <1>1 DEF Widest
<1>4. s \in S /\ \A k \in DOMAIN values : values[k].scale <= s
  BY <1>1, <1>2, <1>3
<1>5. ASSUME NEW t \in S, \A k \in DOMAIN values : values[k].scale <= t
      PROVE  t = s
  <2>1. t <= s /\ s <= t /\ t \in Nat /\ s \in Nat
    BY <1>1, <1>2, <1>3, <1>5
  <2> QED
    BY <2>1
<1>6. WidestScale = s
  <2> HIDE DEF S
  <2>1. WidestScale = CHOOSE t \in S : \A k \in DOMAIN values : values[k].scale <= t
    BY DEF WidestScale, S
  <2> QED
    BY <1>4, <1>5, <2>1
<1>7. ExactUnits = SumOf(n, s)
  BY <1>1, <1>6 DEF ExactUnits, SumOf, Terms
<1>8. Bounds(n, s) /\ n \in 0 .. n
  BY <1>1 DEF Widest
<1>9. SumOf(n, s) \in Int
  BY <1>8, TermsAreInts
<1>10. values \in ValueLists => ValidFixed64Scale(s)
  BY <1>3, ValueFields
<1> QED
  BY <1>6, <1>7, <1>8, <1>9, <1>10 DEF Bounds

-----------------------------------------------------------------------------
(* Answers. *)

AmountOf(value) == IF type = "Fixed64" THEN value.units ELSE value.coef

\* What SumIsExact and AvgRoundsOnce ask of the answer that a call returns
SumAnswer(answer) ==
    answer.err \notin ArgumentErrors /\ op = "Sum" /\ ~HasPolicy =>
        IF Fits(ExactUnits)
          THEN answer.err = "nil" /\ AmountOf(answer.val) = ExactUnits /\ answer.val.scale = WidestScale
          ELSE answer.err = "ErrOverflow"

Num == ExactUnits * Pow10[scale]
Den == Divisor * Pow10[WidestScale]

AvgAnswer(answer) ==
    answer.err \notin ArgumentErrors /\ (op = "Avg" \/ (op = "Sum" /\ HasPolicy)) =>
        LET mean == RoundQuotient(Num, Den, mode)
        IN  IF Fits(mean)
              THEN /\ answer.err = "nil" /\ answer.val.scale = scale
                   /\ IsRounded(AmountOf(answer.val), Num, Den, mode)
              ELSE answer.err = "ErrOverflow"

LEMMA Refusal ==
    ASSUME NEW answer, answer.err \in ArgumentErrors
    PROVE  SumAnswer(answer) /\ AvgAnswer(answer)
  BY DEF SumAnswer, AvgAnswer

LEMMA SameInput ==
    ASSUME UNCHANGED input
    PROVE  /\ ExactUnits' = ExactUnits /\ WidestScale' = WidestScale
           /\ Num' = Num /\ Den' = Den /\ HasPolicy' = HasPolicy
           /\ \A n : Fits(n)' = Fits(n)
<1>1. WidestScale' = WidestScale
  BY DEF WidestScale
<1>2. ExactUnits' = ExactUnits
  BY <1>1 DEF ExactUnits
<1> QED
  BY <1>1, <1>2 DEF Num, Den, HasPolicy, Fits, Divisor

LEMMA ReturnAnswers ==
    ASSUME NEW answer, Answer(answer), values # <<>> => SumAnswer(answer) /\ AvgAnswer(answer)
    PROVE  SumIsExact' /\ AvgRoundsOnce'
<1>1. /\ pc' = "done" /\ error' = answer.err /\ UNCHANGED input
      /\ error' = "nil" => result' = answer.val
  BY DEF Answer
<1>2. /\ ExactUnits' = ExactUnits /\ WidestScale' = WidestScale
      /\ Num' = Num /\ Den' = Den /\ HasPolicy' = HasPolicy
      /\ \A n : Fits(n)' = Fits(n)
  BY <1>1, SameInput
<1>3. error' = "nil" => Amount' = AmountOf(answer.val) /\ result'.scale = answer.val.scale
  BY <1>1 DEF Amount, AmountOf
<1>4. SumIsExact'
  <2> SUFFICES ASSUME Answered("Sum")', ~HasPolicy'
               PROVE  IF Fits(ExactUnits)' THEN error' = "nil" /\ Amount' = ExactUnits' /\ result'.scale = WidestScale'
                      ELSE error' = "ErrOverflow"
    BY DEF SumIsExact
  <2>1. values # <<>> /\ op = "Sum" /\ answer.err \notin ArgumentErrors /\ ~HasPolicy
    BY <1>1, <1>2 DEF Answered
  <2>2. IF Fits(ExactUnits)
          THEN answer.err = "nil" /\ AmountOf(answer.val) = ExactUnits /\ answer.val.scale = WidestScale
          ELSE answer.err = "ErrOverflow"
    BY <2>1 DEF SumAnswer
  <2>3. Fits(ExactUnits)' <=> Fits(ExactUnits)
    BY <1>1, <1>2 DEF Fits
  <2> QED
    BY <1>1, <1>2, <1>3, <2>2, <2>3
<1>5. AvgRoundsOnce'
  <2> SUFFICES ASSUME Answered("Avg")' \/ (Answered("Sum")' /\ HasPolicy')
               PROVE  (LET mean == RoundQuotient(Num, Den, mode)
                       IN  IF Fits(mean) THEN error = "nil" /\ result.scale = scale /\ IsRounded(Amount, Num, Den, mode)
                           ELSE error = "ErrOverflow")'
    BY DEF AvgRoundsOnce, Num, Den
  <2>1. /\ values # <<>> /\ answer.err \notin ArgumentErrors
        /\ op = "Avg" \/ (op = "Sum" /\ HasPolicy)
    BY <1>1, <1>2 DEF Answered
  <2> DEFINE mean == RoundQuotient(Num, Den, mode)
  <2>2. IF Fits(mean)
          THEN /\ answer.err = "nil" /\ answer.val.scale = scale
               /\ IsRounded(AmountOf(answer.val), Num, Den, mode)
          ELSE answer.err = "ErrOverflow"
    BY <2>1 DEF AvgAnswer
  <2>3. mode' = mode /\ scale' = scale /\ type' = type
    BY <1>1
  <2>4. mean' = mean /\ (Fits(mean)' <=> Fits(mean))
    BY <1>2, <2>3 DEF Fits
  <2> HIDE DEF mean
  <2>5. IF Fits(mean)'
          THEN /\ error' = "nil" /\ result'.scale = scale'
               /\ IsRounded(Amount', Num', Den', mode')
          ELSE error' = "ErrOverflow"
    BY <1>1, <1>2, <1>3, <2>2, <2>3, <2>4
  <2> QED
    BY <2>5 DEF mean
<1> QED
  BY <1>4, <1>5

-----------------------------------------------------------------------------
(* Rounded once. *)

\* q is what an average, or a sum under a policy, has to be
Rounds(q) == q \in Int /\ IsRounded(q, Num, Den, mode)

LEMMA FractionTyped ==
    ASSUME values \in Slices, values # <<>>, NEW s, Widest(Len(values), s), scale \in 0 .. MaxScale
    PROVE  /\ Num = SumOf(Len(values), s) * Pow10[scale] /\ Num \in Int
           /\ Den = Divisor * Pow10[s] /\ Den \in Int \ {0}
           /\ Divisor \in Nat \ {0}
<1>1. /\ WidestScale = s /\ s \in 0 .. MaxScale
      /\ ExactUnits = SumOf(Len(values), s) /\ ExactUnits \in Int
  BY WholeSum
<1>2. Pow10[scale] \in Nat \ {0} /\ Pow10[s] \in Nat \ {0}
  BY <1>1, Constants
<1>3. Divisor \in Nat \ {0}
  <2>1. Len(values) \in Nat \ {0}
    BY ListType
  <2> QED
    BY <2>1 DEF Divisor
<1> DEFINE p == Pow10[scale]
           w == Pow10[s]
           x == ExactUnits
           d == Divisor
<1>4. Num = x * p /\ Den = d * w
  BY <1>1 DEF Num, Den
<1>5. p \in Nat \ {0} /\ w \in Nat \ {0} /\ x \in Int /\ d \in Nat \ {0}
  BY <1>1, <1>2, <1>3
<1> HIDE DEF p, w, x, d
<1>6. x * p \in Int /\ d * w \in Int /\ d * w # 0
  BY <1>5
<1>7. SumOf(Len(values), s) = x
  BY <1>1 DEF x
<1> QED
  BY <1>3, <1>4, <1>6, <1>7 DEF p, w, d

\* A value that rounds the mean, stored if it fits, is the answer.
LEMMA MeanAnswer ==
    ASSUME values \in Slices, values # <<>>, NEW s, Widest(Len(values), s), scale \in 0 .. MaxScale,
           mode \in RoundingModes, NEW q, Rounds(q)
    PROVE  /\ type = "Fixed64" => AvgAnswer(Stored(q, scale))
           /\ type # "Fixed64" => AvgAnswer(D!Ok(D!Dec(q, scale)))
<1>1. Num \in Int /\ Den \in Int \ {0}
  BY FractionTyped
<1>2. RoundQuotient(Num, Den, mode) = q
  <2>1. /\ RoundQuotient(Num, Den, mode) \in Int
        /\ IsRounded(RoundQuotient(Num, Den, mode), Num, Den, mode)
    BY <1>1, RoundQuotientIsRounded
  <2> QED
    BY <1>1, <2>1, RoundingIsUnique DEF Rounds
<1>3. CASE type = "Fixed64"
  <2>1. CASE q \in Int64
    <3>1. Stored(q, scale).err = "nil" /\ Stored(q, scale).val.units = q /\ Stored(q, scale).val.scale = scale
      BY <2>1 DEF Stored, Ok, Fixed
    <3> QED
      BY <1>2, <1>3, <2>1, <3>1 DEF AvgAnswer, Fits, AmountOf, Rounds
  <2>2. CASE q \notin Int64
    <3>1. Stored(q, scale).err = "ErrOverflow"
      BY <2>2 DEF Stored, Fail
    <3> QED
      BY <1>2, <1>3, <2>2, <3>1 DEF AvgAnswer, Fits
  <2> QED
    BY <1>3, <2>1, <2>2
<1>4. CASE type # "Fixed64"
  <2> DEFINE answer == D!Ok(D!Dec(q, scale))
  <2>1. answer.err = "nil" /\ answer.val.coef = q /\ answer.val.scale = scale
    BY DEF D!Ok, D!Dec
  <2> HIDE DEF answer
  <2>2. AvgAnswer(answer)
    BY <1>2, <1>4, <2>1 DEF AvgAnswer, Fits, AmountOf, Rounds
  <2> QED
    BY <1>4, <2>2 DEF answer
<1> QED
  BY <1>3, <1>4

\* Num over Den, whichever of the two the difference of the scales multiplies.
MeanOf(coef, from) ==
    LET e == scale - from
    IN  RoundQuotient(coef * (IF e >= 0 THEN Pow10[e] ELSE 1),
                      Len(values) * (IF e >= 0 THEN 1 ELSE Pow10[-e]), mode)

LEMMA MeanRounds ==
    ASSUME values \in Slices, values # <<>>, NEW s, Widest(Len(values), s), scale \in 0 .. MaxScale,
           mode \in RoundingModes, op = "Avg"
    PROVE  Rounds(MeanOf(SumOf(Len(values), s), s))
<1> DEFINE n == SumOf(Len(values), s)
           d == Len(values)
           w == 2 * MaxScale
<1>1. s \in 0 .. MaxScale /\ n \in Int
  BY WholeSum
<1>2. d \in Nat \ {0}
  BY ListType
<1>3. /\ MaxScale \in Nat /\ w \in Nat /\ PowersOfTen(Pow10, w)
      /\ s \in 0 .. w /\ scale \in Nat /\ 0 + scale <= w /\ 0 \in Nat
      /\ s \in Int /\ 0 + scale - s = scale - s /\ d \in Int \ {0}
  BY <1>1, <1>2, Constants
<1>4. Num = n * Pow10[scale] /\ Den = d * Pow10[s]
  BY FractionTyped DEF Divisor
<1> HIDE DEF n, d, w
<1>5. /\ MeanOf(n, s) \in Int
      /\ IsRounded(MeanOf(n, s), (n * Pow10[0]) * Pow10[scale], Pow10[s] * d, mode)
  <2> DEFINE e0 == 0 + scale - s
             q0 == RoundQuotient(n * (IF e0 >= 0 THEN Pow10[e0] ELSE 1),
                                 d * (IF e0 >= 0 THEN 1 ELSE Pow10[-e0]), mode)
  <2>1. q0 \in Int /\ IsRounded(q0, (n * Pow10[0]) * Pow10[scale], Pow10[s] * d, mode)
    BY <1>1, <1>3, ShiftedQuotientIsRounded
  <2>2. q0 = MeanOf(n, s)
    BY <1>3 DEF MeanOf, d
  <2> HIDE DEF q0
  <2> QED
    BY <2>1, <2>2
<1>6. n * Pow10[0] = n
  <2>1. Pow10[0] = 1 /\ n * 1 = n
    BY <1>1, Constants
  <2> QED
    BY <2>1
<1>7. Pow10[s] * d = d * Pow10[s]
  <2>1. Pow10[s] \in Nat
    BY <1>1, Constants
  <2> DEFINE x == Pow10[s]
  <2> HIDE DEF x
  <2>2. x * d = d * x
    BY <1>3, <2>1 DEF x
  <2> QED
    BY <2>2 DEF x
<1> QED
  BY <1>4, <1>5, <1>6, <1>7 DEF Rounds, n

LEMMA RescaledRounds ==
    ASSUME values \in Slices, values # <<>>, NEW s, Widest(Len(values), s), scale \in 0 .. MaxScale,
           mode \in RoundingModes, op = "Sum"
    PROVE  Rounds(Rescaled(SumOf(Len(values), s), s, scale, mode))
<1> DEFINE n == SumOf(Len(values), s)
           w == 2 * MaxScale
<1>1. s \in 0 .. MaxScale /\ n \in Int
  BY WholeSum
<1>2. /\ w \in Nat /\ PowersOfTen(Pow10, w) /\ s \in 0 .. w /\ scale \in 0 .. w
  BY <1>1, Constants
<1>3. Num = n * Pow10[scale] /\ Den = 1 * Pow10[s]
  BY FractionTyped DEF Divisor
<1> HIDE DEF n, w
<1>4. Rescaled(n, s, scale, mode) \in Int /\ IsRounded(Rescaled(n, s, scale, mode), n * Pow10[scale], Pow10[s], mode)
  BY <1>1, <1>2, ShiftIsRounded DEF Rescaled
<1>5. 1 * Pow10[s] = Pow10[s]
  <2>1. Pow10[s] \in Nat
    BY <1>1, Constants
  <2> QED
    BY <2>1
<1> QED
  BY <1>3, <1>4, <1>5 DEF Rounds, n

\* The division of a total by the number of values.
LEMMA DivIsMean ==
    ASSUME values \in Slices, values # <<>>, scale \in Int, NEW d, d.scale \in Int
    PROVE  D!Div(d, Count, scale, mode)
             = IF scale < 0 THEN D!Fail("ErrInvalidScale")
               ELSE IF mode \notin RoundingModes THEN D!Fail("ErrInvalidRoundingMode")
               ELSE D!Ok(D!Dec(MeanOf(d.coef, d.scale), scale))
<1> DEFINE e == scale - d.scale
<1>1. Len(values) \in Nat \ {0}
  BY ListType
<1>2. Count.coef = Len(values) /\ Count.scale = 0 /\ ~D!IsZero(Count)
  BY <1>1 DEF Count, D!Dec, D!IsZero
<1>3. Count.scale + scale - d.scale = e
  BY <1>2
<1>4. /\ D!Numerator(d, Count, scale) = d.coef * (IF e >= 0 THEN Pow10[e] ELSE 1)
      /\ D!Denominator(d, Count, scale) = Len(values) * (IF e >= 0 THEN 1 ELSE Pow10[-e])
  BY <1>2, <1>3 DEF D!Numerator, D!Denominator
<1>5. D!RoundQuotient(D!Numerator(d, Count, scale), D!Denominator(d, Count, scale), mode)
        = MeanOf(d.coef, d.scale)
  BY <1>4, SameArithmetic DEF MeanOf
<1> QED
  BY <1>2, <1>5, SameArithmetic DEF D!Div

-----------------------------------------------------------------------------
(* All digits of a mean. *)

\* The Decimal module's factors are this module's.
LEMMA SameFactors ==
    /\ \A a, b : D!Gcd(a, b) = Gcd(a, b)
    /\ \A v, f : D!Removed(v, f) = Removed(v, f)
    /\ \A b : D!Powers(b) = Powers(b)
<1>1. \A a, b : D!Gcd(a, b) = Gcd(a, b)
  BY DEF D!Gcd, Gcd
<1>2. \A v, f : D!Removed(v, f) = Removed(v, f)
  BY DEF D!Removed, Removed
<1>3. \A b : D!Powers(b) = Powers(b)
  BY DEF D!Powers, Powers
<1> QED
  BY <1>1, <1>2, <1>3

\* A count of factors that fits an int32 is the count of the factors.
LEMMA FactorsCounted ==
    ASSUME NEW v \in Nat \ {0}, NEW factor \in {2, 5}, Removed(v, factor).count <= MaxScale
    PROVE  D!RemoveFactor(v, factor) = Removed(v, factor)
<1> DEFINE r == Removed(v, factor)
<1>1. r \in [left : Nat, count : Nat]
  <2>1. v \in Nat /\ factor \in Nat /\ factor > 1
    OBVIOUS
  <2> QED
    BY <2>1, RemovedStep
<1>2. D!RemoveFactor(v, factor) = [r EXCEPT !.count = D!WrapScale(@)]
  BY SameFactors DEF D!RemoveFactor
<1>3. D!WrapScale(r.count) = r.count
  <2>1. r.count \in 0 .. MaxScale /\ MaxScale \in Nat
    BY <1>1, Constants
  <2> DEFINE n == r.count
  <2> HIDE DEF n
  <2>2. D!WrapScale(n) = n
    BY <2>1, NoWrap DEF D!WrapScale, n
  <2> QED
    BY <2>2 DEF n
<1> HIDE DEF r
<1> QED
  BY <1>1, <1>2, <1>3 DEF r

LEMMA LargerCount ==
    ASSUME NEW x \in Int, NEW y \in Int
    PROVE  D!Max({x, y}) = IF x >= y THEN x ELSE y
BY LargerOfTwo DEF D!Max

\* What DivExact counts fits, as the divisor of the mean has no more of a factor.
LEMMA MeanFits ==
    ASSUME AveragesFit, values \in Slices, values # <<>>, NEW s, Widest(Len(values), s),
           NEW factor \in {2, 5}
    PROVE  Removed(Len(values) * Pow10[s], factor).count <= MaxScale
<1>1. Len(values) \in Nat /\ Len(values) # 0 /\ DOMAIN values = 1 .. Len(values)
  BY ListType
<1>2. PICK k \in DOMAIN values : values[k].scale = s
  BY <1>1 DEF Widest
<1> QED
  BY <1>2 DEF AveragesFit, Slices

\* The quotient in lowest terms that DivExact works on.
LEMMA MeanTerms ==
    ASSUME values \in Slices, values # <<>>, NEW d, d.coef \in Int, d.scale \in 0 .. MaxScale
    PROVE  LET den == Len(values) * Pow10[d.scale]
               g   == Gcd(Magnitude(d.coef), den)
           IN  D!LowestTerms(d, Count) = [num |-> Quo(d.coef, g), den |-> den \div g]
<1> DEFINE n   == d.coef
           s   == d.scale
           l   == Len(values)
           den == l * Pow10[s]
           e   == Count.scale + 0 - s
<1>1. l \in Nat \ {0} /\ Count.coef = l /\ Count.scale = 0
  BY ListType DEF Count, D!Dec
<1>2. s \in Nat /\ Pow10[s] \in Nat \ {0} /\ Pow10[0] = 1
  BY Constants
<1>3. den \in Nat \ {0}
  <2> DEFINE p == Pow10[s]
  <2>1. p \in Nat \ {0}
    BY <1>2
  <2> HIDE DEF p, l
  <2>2. l * p \in Nat \ {0}
    BY <1>1, <2>1
  <2> QED
    BY <2>2 DEF p
<1>4. D!Numerator(d, Count, 0) = n
  <2>1. (IF e >= 0 THEN Pow10[e] ELSE 1) = 1
    BY <1>1, <1>2
  <2>2. n * 1 = n
    OBVIOUS
  <2> QED
    BY <2>1, <2>2 DEF D!Numerator
<1>5. D!Denominator(d, Count, 0) = den
  <2>1. (IF e >= 0 THEN 1 ELSE Pow10[-e]) = Pow10[s]
    BY <1>1, <1>2
  <2> QED
    BY <1>1, <2>1 DEF D!Denominator
<1>6. D!Sign(Count.coef) = 1 /\ n * 1 = n
  <2> HIDE DEF l
  <2> QED
    BY <1>1, SameArithmetic DEF Sign
<1>7. D!Magnitude(den) = den
  <2> HIDE DEF den
  <2> QED
    BY <1>3, SameArithmetic DEF Magnitude
<1> HIDE DEF n, den, e
<1> DEFINE g == Gcd(Magnitude(n), den)
<1>8. D!Gcd(D!Magnitude(n * 1), den) = g /\ D!Quo(n * 1, g) = Quo(n, g)
  BY <1>6, SameArithmetic, SameFactors
<1>9. D!LowestTerms(d, Count) = [num |-> Quo(n, g), den |-> den \div g]
  <2> HIDE DEF g
  <2> QED
    BY <1>4, <1>5, <1>6, <1>7, <1>8 DEF D!LowestTerms
<1> QED
  BY <1>9 DEF n, den

\* The mean of d, by the number of values, at the scale t
MeanIs(d, k, t) == k * (Len(values) * Pow10[d.scale]) = d.coef * Pow10[t]

\* DivExact by the number of values gives all digits of the mean, and refuses exactly
\* the means no scale is enough for.
LEMMA MeanDigits ==
    ASSUME AveragesFit, values \in Slices, values # <<>>, NEW d, SumTo(d, Len(values))
    PROVE  \/ /\ D!DivExact(d, Count) = D!Fail("ErrInexact")
              /\ \A t \in 0 .. MaxScale : \A k \in Int : ~MeanIs(d, k, t)
           \/ \E k \in Int, t \in 0 .. MaxScale :
                D!DivExact(d, Count) = D!Ok(D!Dec(k, t)) /\ MeanIs(d, k, t)
<1> DEFINE n     == d.coef
           s     == d.scale
           den   == Len(values) * Pow10[s]
           g     == Gcd(Magnitude(n), den)
           m     == Quo(n, g)
           v     == den \div g
           twos  == Removed(v, 2)
           l2    == twos.left
           fives == Removed(l2, 5)
           l5    == fives.left
           t     == twos.count
           f     == fives.count
           w     == 2 * MaxScale
<1>1. n \in Int /\ Widest(Len(values), s) /\ s \in 0 .. MaxScale
  BY DEF SumTo, Widest, Bounds
<1>2. den \in Nat \ {0}
  <2> DEFINE p == Pow10[s]
             l == Len(values)
  <2>1. p \in Nat \ {0} /\ l \in Nat \ {0}
    BY <1>1, ListType, Constants
  <2> HIDE DEF p, l
  <2>2. l * p \in Nat \ {0}
    BY <2>1
  <2> QED
    BY <2>2 DEF p, l
<1>3. D!LowestTerms(d, Count) = [num |-> m, den |-> v]
  BY <1>1, MeanTerms
<1>4. \A factor \in {2, 5} : Removed(den, factor).count <= MaxScale /\ Removed(den, factor).count \in Nat
  <2> TAKE factor \in {2, 5}
  <2>1. Removed(den, factor).count <= MaxScale
    BY <1>1, MeanFits
  <2>2. factor \in Nat /\ factor > 1
    OBVIOUS
  <2> HIDE DEF den
  <2> QED
    BY <1>2, <2>1, <2>2, RemovedFactors
<1> HIDE DEF den
<1>5. /\ w \in Nat /\ PowersOfTen(Pow10, w) /\ MaxScale \in Nat /\ 0 .. MaxScale \subseteq 0 .. w
      /\ \A x \in 0 .. MaxScale : Pow10[x] \in Int
  BY Constants
<1>6. /\ m \in Int /\ t \in Nat /\ f \in Nat
      /\ l5 # 1 => \A x \in 0 .. w : ~Divides(den, n * Pow10[x])
      /\ l5 = 1 => \A x \in 0 .. w :
           t <= x /\ f <= x => /\ m * Powers(2)[x - t] * Powers(5)[x - f] \in Int
                               /\ (m * Powers(2)[x - t] * Powers(5)[x - f]) * den = n * Pow10[x]
      /\ \A x \in 0 .. w : Divides(den, n * Pow10[x]) => t <= x /\ f <= x
      /\ Divides(den, n) => t = 0 /\ f = 0 /\ l5 = 1 /\ m * den = n
  <2> HIDE DEF n, w
  <2> QED
    BY <1>1, <1>2, <1>5, ExpansionIsExact
<1>7. /\ g \in Nat \ {0} /\ v \in Nat \ {0} /\ den = v * g
  BY <1>1, <1>2, LowestTermsShare
<1> HIDE DEF g, v
<1>8. /\ t \in Nat /\ l2 \in Nat \ {0} /\ v = Powers(2)[t] * l2 /\ Powers(2)[t] \in Nat \ {0}
      /\ f \in Nat
  <2>1. 2 \in Nat /\ 2 > 1 /\ 5 \in Nat /\ 5 > 1 /\ 2 \in Nat \ {0} /\ 0 \in Nat
    OBVIOUS
  <2>2. t \in Nat /\ l2 \in Nat \ {0} /\ v = Powers(2)[t] * l2
    BY <1>7, <2>1, RemovedFactors
  <2> HIDE DEF t, l2, twos
  <2>3. Powers(2)[t] \in Nat \ {0}
    BY <2>1, <2>2, PowersProduct
  <2>4. f \in Nat
    BY <2>1, <2>2, RemovedFactors
  <2> QED
    BY <2>2, <2>3, <2>4
<1>9. t <= MaxScale /\ f <= MaxScale
  <2> HIDE DEF l2
  <2>1. Divides(v, den)
    <3>1. den = g * v
      BY <1>7
    <3> QED
      BY <1>7, <3>1 DEF Divides
  <2>2. Divides(l2, den)
    <3> DEFINE x == Powers(2)[t]
    <3>1. x \in Nat /\ v = x * l2
      BY <1>8
    <3> HIDE DEF x
    <3>2. den = (g * x) * l2 /\ g * x \in Int
      BY <1>7, <1>8, <3>1
    <3> QED
      BY <3>2 DEF Divides
  <2>3. 2 \in Nat /\ 2 > 1 /\ 5 \in Nat /\ 5 > 1 /\ MaxScale \in Nat
    BY Constants
  <2> DEFINE c2 == Removed(den, 2).count
             c5 == Removed(den, 5).count
  <2>4. t <= c2
    BY <1>2, <1>7, <2>1, <2>3, DivisorHasFewer
  <2>5. f <= c5
    BY <1>2, <1>8, <2>2, <2>3, DivisorHasFewer
  <2>6. c2 \in Nat /\ c2 <= MaxScale /\ c5 \in Nat /\ c5 <= MaxScale
    BY <1>4
  <2> HIDE DEF t, f, c2, c5
  <2> QED
    BY <1>8, <2>3, <2>4, <2>5, <2>6
<1>10. D!RemoveFactor(v, 2) = twos /\ D!RemoveFactor(l2, 5) = fives
  <2>1. D!RemoveFactor(v, 2) = twos
    BY <1>7, <1>9, FactorsCounted
  <2> HIDE DEF l2
  <2>2. D!RemoveFactor(l2, 5) = fives
    BY <1>8, <1>9, FactorsCounted
  <2> QED
    BY <2>1, <2>2
<1> DEFINE most == D!Max({t, f})
           k    == m * Powers(2)[most - t] * Powers(5)[most - f]
<1>11. most = IF t >= f THEN t ELSE f
  <2> HIDE DEF t, f
  <2> QED
    BY <1>8, LargerCount
<1>12. ~D!IsZero(Count)
  BY ListType DEF Count, D!Dec, D!IsZero
<1> HIDE DEF n, m, w, twos, fives
<1>13. D!DivExact(d, Count) = IF l5 # 1 THEN D!Fail("ErrInexact") ELSE D!Ok(D!Dec(k, most))
  <2> DEFINE q == D!LowestTerms(d, Count)
  <2>1. q.num = m /\ q.den = v
    BY <1>3
  <2> HIDE DEF q
  <2>2. D!RemoveFactor(q.den, 2) = twos
    BY <1>10, <2>1
  <2>3. D!RemoveFactor(D!RemoveFactor(q.den, 2).left, 5) = fives
    BY <1>10, <2>2
  <2>4. D!DivExact(d, Count)
          = IF fives.left # 1 THEN D!Fail("ErrInexact")
            ELSE LET most2 == D!Max({twos.count, fives.count})
                 IN  D!Ok(D!Dec(q.num * D!Powers(2)[most2 - twos.count] * D!Powers(5)[most2 - fives.count], most2))
    BY <1>12, <2>2, <2>3 DEF D!DivExact, q
  <2> QED
    BY <2>1, <2>4, SameFactors
<1> HIDE DEF l5, t, f, l2, most, k
<1>14. \A x \in 0 .. MaxScale : \A y \in Int : MeanIs(d, y, x) => Divides(den, n * Pow10[x])
  BY DEF MeanIs, Divides, den, n
<1>15. CASE l5 # 1
  <2>1. D!DivExact(d, Count) = D!Fail("ErrInexact")
    BY <1>13, <1>15
  <2>2. \A x \in 0 .. MaxScale : \A y \in Int : ~MeanIs(d, y, x)
    BY <1>5, <1>6, <1>14, <1>15
  <2> QED
    BY <2>1, <2>2
<1>16. CASE l5 = 1
  <2>1. D!DivExact(d, Count) = D!Ok(D!Dec(k, most))
    BY <1>13, <1>16
  <2>2. most \in 0 .. MaxScale /\ t <= most /\ f <= most
    BY <1>8, <1>9, <1>5, <1>11
  <2>3. k \in Int /\ k * den = n * Pow10[most]
    BY <1>5, <1>6, <1>16, <2>2 DEF k
  <2>4. MeanIs(d, k, most)
    BY <2>3 DEF MeanIs, den, n
  <2> QED
    BY <2>1, <2>2, <2>3, <2>4
<1> QED
  BY <1>15, <1>16

LEMMA ScaleAsked ==
    ASSUME scale \in AskedScales
    PROVE  /\ scale \in Int /\ scale <= MaxScale
           /\ ~(scale < 0) => scale \in 0 .. MaxScale
           /\ ValidFixed64Scale(scale) => scale \in 0 .. MaxFixedScale /\ scale \in 0 .. MaxScale
<1>1. scale \in Int /\ scale <= MaxScale
  BY InputAssumption
<1> QED
  BY <1>1, Constants DEF ValidFixed64Scale

LEMMA DivAnswers ==
    ASSUME values \in Slices, values # <<>>, scale \in AskedScales, op = "Avg",
           NEW d, SumTo(d, Len(values))
    PROVE  /\ type # "Fixed64" => AvgAnswer(D!Div(d, Count, scale, mode))
           /\ type = "Fixed64" /\ ValidFixed64Scale(scale) /\ mode \in RoundingModes
                => AvgAnswer(Converted(D!Div(d, Count, scale, mode), scale))
<1> DEFINE q == MeanOf(d.coef, d.scale)
           s == d.scale
<1>1. /\ Widest(Len(values), s) /\ d.coef = SumOf(Len(values), s)
      /\ s \in 0 .. MaxScale /\ s \in Int /\ MaxScale \in Nat
  BY Constants DEF SumTo, Widest, Bounds
<1>2. scale \in Int /\ (~(scale < 0) => scale \in 0 .. MaxScale)
  BY ScaleAsked
<1>3. D!Div(d, Count, scale, mode)
        = IF scale < 0 THEN D!Fail("ErrInvalidScale")
          ELSE IF mode \notin RoundingModes THEN D!Fail("ErrInvalidRoundingMode")
          ELSE D!Ok(D!Dec(q, scale))
  BY <1>1, <1>2, DivIsMean
<1>4. ~(scale < 0) /\ mode \in RoundingModes => Rounds(q)
  BY <1>1, <1>2, MeanRounds
<1> HIDE DEF q, s
<1>5. ASSUME type # "Fixed64" PROVE AvgAnswer(D!Div(d, Count, scale, mode))
  <2>1. CASE scale < 0 \/ mode \notin RoundingModes
    <3>1. D!Div(d, Count, scale, mode).err \in ArgumentErrors
      BY <1>3, <2>1 DEF D!Fail, ArgumentErrors
    <3> QED
      BY <3>1, Refusal
  <2>2. CASE ~(scale < 0) /\ mode \in RoundingModes
    <3>1. AvgAnswer(D!Ok(D!Dec(q, scale)))
      BY <1>1, <1>2, <1>4, <1>5, <2>2, MeanAnswer
    <3> QED
      BY <1>3, <2>2, <3>1
  <2> QED
    BY <2>1, <2>2
<1>6. ASSUME type = "Fixed64", ValidFixed64Scale(scale), mode \in RoundingModes
      PROVE  AvgAnswer(Converted(D!Div(d, Count, scale, mode), scale))
  <2>1. ~(scale < 0) /\ scale \in 0 .. MaxScale
    BY <1>2, <1>6 DEF ValidFixed64Scale
  <2>2. D!Div(d, Count, scale, mode) = D!Ok(D!Dec(q, scale)) /\ Rounds(q)
    BY <1>3, <1>4, <1>6, <2>1
  <2>3. Converted(D!Div(d, Count, scale, mode), scale) = Fixed64FromDecimal(D!Dec(q, scale), scale, "TowardZero")
    BY <2>2 DEF Converted, D!Ok
  <2>4. D!Dec(q, scale).coef = q /\ D!Dec(q, scale).scale = scale /\ "TowardZero" \in RoundingModes
    BY DEF D!Dec, RoundingModes, DirectedModes
  <2>5. Fixed64FromDecimal(D!Dec(q, scale), scale, "TowardZero") = Stored(q, scale)
    <3>1. Rescaled(q, scale, scale, "TowardZero") = q
      BY <1>2, <2>2, RescaledInPlace DEF Rounds
    <3> QED
      BY <1>2, <1>6, <2>4, <3>1, FromDecimalIsStored
  <2>6. AvgAnswer(Stored(q, scale))
    BY <1>1, <1>6, <2>1, <2>2, MeanAnswer
  <2> QED
    BY <2>3, <2>5, <2>6
<1> QED
  BY <1>5, <1>6

\* The fast average, if no step of it overflows, is the rounded mean.
LEMMA FastAnswer ==
    ASSUME values \in ValueLists, values # <<>>, type = "Fixed64", op = "Avg",
           scale \in AskedScales, ValidFixed64Scale(scale), mode \in RoundingModes,
           Widest(Len(values), First.scale), units = SumOf(Len(values), First.scale), units \in Int64,
           AvgFast # {}
    PROVE  /\ AvgAnswer(OrOverflow(AvgFast, scale))
           /\ \E mean \in Int64 : OrOverflow(AvgFast, scale) = Stored(mean, scale)
<1> DEFINE s == First.scale
           q == MeanOf(units, s)
           delta == scale - s
           n == Len(values)
           numerators == IF delta > 0 THEN ScaleUnits64(units, delta) ELSE {units}
           divisors   == IF delta < 0 THEN ScaleUnits64(n, -delta) ELSE {n}
<1>1. values \in Slices /\ ValidFixed64Scale(s) /\ s \in 0 .. MaxScale
  <2>1. values \in Slices
    BY DEF Slices
  <2> QED
    BY <2>1, WholeSum
<1>2. /\ scale \in 0 .. MaxFixedScale /\ scale \in 0 .. MaxScale
      /\ scale \in Nat /\ s \in Nat /\ scale <= MaxFixedScale /\ s <= MaxFixedScale /\ MaxFixedScale \in Nat
  BY <1>1, ScaleAsked, Constants DEF ValidFixed64Scale
<1>3. n \in Int64 /\ n > 0 /\ n \in Int
  <2>1. n \in Nat \ {0} /\ n <= MaxInt64
    <3>1. Len(values) <= MaxInt64
      BY InputAssumption
    <3> QED
      BY <1>1, <3>1, ListType
  <2> QED
    BY <2>1, Constants DEF Int64, MinInt64
<1>4. Rounds(q)
  BY <1>1, <1>2, MeanRounds
<1>5. AvgFast = UNION {DivRound(x, y, mode) : x \in numerators, y \in divisors}
  BY DEF AvgFast
<1>6. /\ numerators \subseteq {units * (IF delta >= 0 THEN Pow10[delta] ELSE 1)} \cap Int64
      /\ divisors \subseteq {n * (IF delta >= 0 THEN 1 ELSE Pow10[-delta])} \cap Int
      /\ \A y \in divisors : y > 0
  <2> HIDE DEF n, s
  <2>1. CASE delta > 0
    <3>1. delta \in 0 .. MaxFixedScale
      BY <1>2, <2>1
    <3>2. numerators = {units * Pow10[delta]} \cap Int64 /\ divisors = {n} /\ n * 1 = n
      BY <1>3, <2>1, <3>1, ScaleUnits64IsShift
    <3> HIDE DEF numerators, divisors
    <3> QED
      BY <1>3, <2>1, <3>1, <3>2
  <2>2. CASE delta = 0
    <3>1. Pow10[delta] = 1 /\ units * 1 = units /\ n * 1 = n
      BY <1>3, <2>2, Constants
    <3>2. numerators = {units} /\ divisors = {n} /\ delta >= 0
      BY <2>2
    <3> HIDE DEF numerators, divisors
    <3> QED
      BY <1>3, <3>1, <3>2
  <2>3. CASE delta < 0
    <3>1. -delta \in 0 .. MaxFixedScale
      BY <1>2, <2>3
    <3>2. divisors = {n * Pow10[-delta]} \cap Int64 /\ numerators = {units} /\ units * 1 = units
      <4>1. ScaleUnits64(n, -delta) = {n * Pow10[-delta]} \cap Int64
        <5> HIDE DEF delta
        <5> QED
          BY <1>3, <3>1, ScaleUnits64IsShift
      <4>2. divisors = ScaleUnits64(n, -delta) /\ numerators = {units}
        BY <1>2, <2>3
      <4>3. units * 1 = units
        BY Constants
      <4> QED
        BY <4>1, <4>2, <4>3
    <3>3. Pow10[-delta] \in Int /\ Pow10[-delta] > 0
      BY <3>1, PowerIsPositive
    <3>4. n * Pow10[-delta] \in Int /\ n * Pow10[-delta] > 0
      <4> DEFINE p == Pow10[-delta]
      <4>1. p \in Int /\ p > 0
        BY <3>3
      <4> HIDE DEF p
      <4>2. n * p \in Int /\ n * p > 0
        BY <1>3, <4>1
      <4> QED
        BY <4>2 DEF p
    <3>5. ~(delta >= 0)
      BY <1>2, <2>3
    <3> HIDE DEF numerators, divisors, delta
    <3> QED
      BY <3>2, <3>4, <3>5
  <2> QED
    BY <1>2, <2>1, <2>2, <2>3
<1>7. \A x \in numerators : \A y \in divisors : DivRound(x, y, mode) \subseteq {q} \cap Int64
  <2> TAKE x \in numerators
  <2> TAKE y \in divisors
  <2>1. x \in Int64 /\ y \in Int /\ y > 0
    BY <1>6
  <2>2. RoundQuotient(x, y, mode) = q
    BY <1>6 DEF MeanOf
  <2> HIDE DEF numerators, divisors, q
  <2> QED
    BY <2>1, <2>2, DivRoundIsRounded
<1> HIDE DEF numerators, divisors, q
<1>8. AvgFast = {q} /\ q \in Int64
  BY <1>5, <1>7
<1>9. OrOverflow(AvgFast, scale) = Stored(q, scale)
  <2>1. {q} \cap Int64 = {q}
    BY <1>8
  <2> QED
    BY <1>8, <2>1, OrOverflowIsStored
<1>10. AvgAnswer(Stored(q, scale))
  BY <1>1, <1>2, <1>4, MeanAnswer
<1> QED
  BY <1>8, <1>9, <1>10

-----------------------------------------------------------------------------
(* The invariant of the sums. *)

\* The checks that a call has passed once its loops run
ArgumentsHold ==
    /\ values # <<>>
    /\ type = "Fixed64" /\ op # "Sum" => ValidFixed64Scale(scale)
    /\ type = "Fixed64" /\ op = "Avg" => mode \in RoundingModes

\* Both loops have added up exactly the values before i: in int64 units at the scale of
\* the first value, or in a Decimal at the widest scale so far.
ExactInv ==
    /\ values \in Slices /\ scale \in AskedScales
    /\ type = "Fixed64" => values \in ValueLists
    /\ i \in Nat /\ i >= 1 /\ i <= Len(values) + 1
    /\ pc = "check" => i = 1 /\ total = D!ZeroValue
    /\ pc \in {"fast", "decimal", "divide"} => ArgumentsHold
    /\ pc = "fast" =>
         /\ type = "Fixed64" /\ i >= 2
         /\ Widest(i - 1, First.scale)
         /\ units = SumOf(i - 1, First.scale) /\ units \in Int64
    /\ pc = "decimal" => SumTo(total, i - 1)
    /\ pc = "divide" => SumTo(total, Len(values))
    /\ SumIsExact /\ AvgRoundsOnce

LEMMA ExactInit == AggregateInit => ExactInv
<1> SUFFICES ASSUME AggregateInit PROVE ExactInv
  OBVIOUS
<1>1. values \in Slices /\ (type = "Fixed64" => values \in ValueLists) /\ scale \in AskedScales
  BY DEF AggregateInit, Slices, OfMoney
<1>2. pc = "check" /\ i = 1 /\ total = D!ZeroValue
  BY DEF AggregateInit
<1>3. Len(values) \in Nat
  BY <1>1, ListType
<1> QED
  BY <1>1, <1>2, <1>3 DEF ExactInv, SumIsExact, AvgRoundsOnce, Answered

\* A sum of the same values is the same after a step.
LEMMA SameSums ==
    ASSUME UNCHANGED input
    PROVE  \A n, s, d : /\ SumOf(n, s)' = SumOf(n, s)
                        /\ Widest(n, s)' <=> Widest(n, s)
                        /\ SumTo(d, n)' <=> SumTo(d, n)
<1> TAKE n, s, d
<1>1. values' = values
  OBVIOUS
<1>2. \A x : SumOf(n, x)' = SumOf(n, x)
  BY <1>1 DEF SumOf, Terms
<1>3. \A x : Widest(n, x)' <=> Widest(n, x)
  BY <1>1 DEF Widest, Bounds
<1> QED
  BY <1>1, <1>2, <1>3 DEF SumTo

\* What a step leaves alone.
LEMMA SameArguments ==
    ASSUME ExactInv, UNCHANGED input
    PROVE  /\ (values \in Slices /\ scale \in AskedScales /\ (type = "Fixed64" => values \in ValueLists))'
           /\ ArgumentsHold' <=> ArgumentsHold
           /\ Len(values)' = Len(values) /\ First' = First /\ type' = type
  BY DEF ExactInv, ArgumentsHold, First

LEMMA ReturnKeeps ==
    ASSUME ExactInv, NEW answer, Answer(answer), values # <<>> => SumAnswer(answer) /\ AvgAnswer(answer)
    PROVE  ExactInv'
<1>1. pc' = "done" /\ UNCHANGED input /\ i' = i
  BY DEF Answer
<1>2. SumIsExact' /\ AvgRoundsOnce'
  BY ReturnAnswers
<1>3. i' \in Nat /\ i' >= 1 /\ i' <= Len(values)' + 1
  BY <1>1 DEF ExactInv
<1> QED
  BY <1>1, <1>2, <1>3, SameArguments DEF ExactInv

\* A call that has not returned claims nothing.
LEMMA NotDone ==
    ASSUME pc' # "done"
    PROVE  SumIsExact' /\ AvgRoundsOnce'
  BY DEF SumIsExact, AvgRoundsOnce, Answered

LEMMA StartKeeps ==
    ASSUME ExactInv, ArgumentsHold, StartSum
    PROVE  ExactInv'
<1>1. pc' = "decimal" /\ i' = 2 /\ total' = Decimal(First) /\ UNCHANGED input
  BY DEF StartSum
<1>2. values \in Slices /\ values # <<>> /\ Len(values) \in Nat /\ Len(values) >= 1
  BY ListType DEF ExactInv, ArgumentsHold
<1>3. SumTo(Decimal(First), 1)
  BY <1>2, SumFirst
<1>4. SumTo(total, i - 1)'
  <2>1. PICK n, d : n = 1 /\ d = Decimal(First) /\ SumTo(d, n)
    BY <1>3
  <2>2. SumTo(d, n)'
    BY <1>1, <2>1, SameSums
  <2>3. n = i' - 1 /\ d = total'
    BY <1>1, <2>1
  <2> QED
    BY <2>2, <2>3
<1>5. SumIsExact' /\ AvgRoundsOnce'
  BY <1>1, NotDone
<1> QED
  BY <1>1, <1>2, <1>4, <1>5, SameArguments DEF ExactInv

LEMMA Fixed64Starts ==
    ASSUME ExactInv, CheckFixed64
    PROVE  ExactInv'
<1>1. CASE \E e \in {"ErrEmptyInput", "ErrInvalidScale", "ErrInvalidRoundingMode"} : Answer(Fail(e))
  <2>1. PICK e \in ArgumentErrors : Answer(Fail(e)) /\ Fail(e).err = e
    BY <1>1 DEF ArgumentErrors, Fail
  <2> QED
    BY <2>1, Refusal, ReturnKeeps
<1>2. CASE /\ values # <<>>
           /\ op # "Sum" => ValidFixed64Scale(scale)
           /\ op = "Avg" => mode \in RoundingModes
           /\ pc' = "fast" /\ i' = 2 /\ units' = First.units
           /\ UNCHANGED <<input, total, result, error>>
  <2>1. type = "Fixed64" /\ values \in ValueLists /\ values \in Slices
    BY DEF CheckFixed64, ExactInv
  <2>2. Len(values) \in Nat /\ Len(values) >= 1 /\ 1 \in 1 .. Len(values)
    BY <1>2, <2>1, ListType
  <2>3. SumOf(1, First.scale) = First.units /\ Widest(1, First.scale) /\ First.units \in Int64
    BY <1>2, <2>1, <2>2, SumFirst, ValueFields DEF First
  <2>4. /\ Widest(i - 1, First.scale)'
        /\ (units = SumOf(i - 1, First.scale))'
    <3>1. PICK n, s, u : n = 1 /\ s = First.scale /\ u = SumOf(n, s) /\ Widest(n, s) /\ u = First.units
      BY <2>3
    <3>2. Widest(n, s)' /\ SumOf(n, s)' = u
      BY <1>2, <3>1, SameSums
    <3>3. n = i' - 1 /\ s = First'.scale /\ u = units'
      BY <1>2, <3>1 DEF First
    <3> QED
      BY <3>2, <3>3
  <2>5. ArgumentsHold'
    BY <1>2 DEF ArgumentsHold, ValidFixed64Scale
  <2>6. SumIsExact' /\ AvgRoundsOnce'
    BY <1>2, NotDone
  <2> QED
    BY <1>2, <2>1, <2>2, <2>3, <2>4, <2>5, <2>6, SameArguments DEF ExactInv
<1> QED
  BY <1>1, <1>2 DEF CheckFixed64

LEMMA DecimalStarts ==
    ASSUME ExactInv, CheckDecimal \/ CheckMoney \/ CheckContext
    PROVE  ExactInv'
<1>1. type # "Fixed64"
  BY DEF CheckDecimal, CheckMoney, CheckContext
<1>2. CASE \E answer : values = <<>> /\ Answer(answer)
  BY <1>2, ReturnKeeps
<1>3. CASE \E e \in ArgumentErrors : Answer(D!Fail(e))
  <2>1. PICK e \in ArgumentErrors : Answer(D!Fail(e)) /\ D!Fail(e).err = e
    BY <1>3 DEF D!Fail
  <2> QED
    BY <2>1, Refusal, ReturnKeeps
<1>4. CASE values # <<>> /\ StartSum
  <2>1. ArgumentsHold
    BY <1>1, <1>4 DEF ArgumentsHold
  <2> QED
    BY <1>4, <2>1, StartKeeps
<1>5. PolicyError # "nil" => PolicyError \in ArgumentErrors
  BY DEF PolicyError, ArgumentErrors
<1> QED
  BY <1>2, <1>3, <1>4, <1>5 DEF CheckDecimal, CheckMoney, CheckContext, ArgumentErrors

LEMMA MoneyContextStarts ==
    ASSUME ExactInv, CheckMoneyContext
    PROVE  ExactInv'
<1>1. type # "Fixed64" /\ i = 1 /\ total = D!ZeroValue /\ values \in Slices
  BY DEF CheckMoneyContext, ExactInv
<1>2. CASE PolicyError # "nil" /\ Answer(D!Fail(PolicyError))
  <2>1. D!Fail(PolicyError).err \in ArgumentErrors
    BY <1>2 DEF PolicyError, ArgumentErrors, D!Fail
  <2> QED
    BY <1>2, <2>1, Refusal, ReturnKeeps
<1>3. CASE values = <<>> /\ Answer(D!Fail("ErrEmptyInput"))
  BY <1>3, ReturnKeeps
<1>4. CASE values # <<>> /\ pc' = "decimal" /\ UNCHANGED <<input, i, units, total, result, error>>
  <2>1. Len(values) \in Nat /\ ArgumentsHold
    BY <1>1, <1>4, ListType DEF ArgumentsHold
  <2>2. SumTo(D!ZeroValue, 0)
    <3>1. Widest(0, 0)
      BY Constants DEF Widest, Bounds
    <3>2. D!ZeroValue.coef = 0 /\ D!ZeroValue.scale = 0
      BY DEF D!ZeroValue, D!Dec
    <3> QED
      BY <3>1, <3>2, SumEmpty DEF SumTo
  <2>3. SumTo(total, i - 1)'
    <3>1. PICK n, d : n = 0 /\ d = D!ZeroValue /\ SumTo(d, n)
      BY <2>2
    <3>2. SumTo(d, n)' /\ n = i' - 1 /\ d = total'
      BY <1>1, <1>4, <3>1, SameSums
    <3> QED
      BY <3>2
  <2>4. SumIsExact' /\ AvgRoundsOnce'
    BY <1>4, NotDone
  <2> QED
    BY <1>1, <1>4, <2>1, <2>3, <2>4, SameArguments DEF ExactInv
<1> QED
  BY <1>2, <1>3, <1>4 DEF CheckMoneyContext

LEMMA FastAdds ==
    ASSUME ExactInv, FastAdd
    PROVE  ExactInv'
<1>1. /\ pc = "fast" /\ i <= Len(values) /\ type = "Fixed64" /\ i \in Nat /\ i >= 2
      /\ values \in ValueLists /\ values \in Slices /\ values # <<>> /\ ArgumentsHold
      /\ Widest(i - 1, First.scale) /\ units = SumOf(i - 1, First.scale) /\ units \in Int64
  BY DEF FastAdd, ExactInv, ArgumentsHold
<1> DEFINE sum == IF values[i].scale = First.scale THEN CheckedAdd64(units, values[i].units) ELSE {}
<1>2. CASE sum = {} /\ FallBack
  BY <1>1, <1>2, StartKeeps DEF FallBack
<1>3. CASE sum # {} /\ units' \in sum /\ i' = i + 1 /\ UNCHANGED <<input, pc, total, result, error>>
  <2>1. values[i].scale = First.scale /\ units' \in CheckedAdd64(units, values[i].units)
    BY <1>3
  <2>2. /\ Widest(i, First.scale)
        /\ SumOf(i, First.scale) = units + values[i].units
        /\ values[i].units \in Int64
    <3>1. PICK n : n = i - 1
      OBVIOUS
    <3>2. n \in Nat \ {0} /\ n + 1 = i
      BY <1>1, <3>1
    <3> QED
      BY <1>1, <2>1, <3>1, <3>2, FastSumNext
  <2>3. units' \in Int64 /\ units' = SumOf(i, First.scale)
    BY <1>1, <2>1, <2>2, CheckedAdd64IsSum
  <2>4. /\ Widest(i - 1, First.scale)'
        /\ (units = SumOf(i - 1, First.scale))'
    <3>1. PICK n, s, u : n = i /\ s = First.scale /\ u = SumOf(n, s) /\ Widest(n, s) /\ u = units'
      BY <2>2, <2>3
    <3>2. Widest(n, s)' /\ SumOf(n, s)' = u
      BY <1>3, <3>1, SameSums
    <3>3. n = i' - 1 /\ s = First'.scale
      BY <1>1, <1>3, <3>1 DEF First
    <3> QED
      BY <3>1, <3>2, <3>3
  <2>5. SumIsExact' /\ AvgRoundsOnce'
    BY <1>1, <1>3, NotDone
  <2>6. i' \in Nat /\ i' >= 2 /\ i' <= Len(values) + 1
    BY <1>1, <1>3, ListType
  <2> QED
    BY <1>1, <1>3, <2>3, <2>4, <2>5, <2>6, SameArguments DEF ExactInv
<1> QED
  BY <1>2, <1>3 DEF FastAdd

LEMMA FastReturns ==
    ASSUME ExactInv, FastReturn
    PROVE  ExactInv'
<1>1. /\ pc = "fast" /\ i > Len(values) /\ i <= Len(values) + 1 /\ type = "Fixed64" /\ i \in Nat
      /\ values \in ValueLists /\ values \in Slices /\ values # <<>> /\ ArgumentsHold /\ scale \in AskedScales
      /\ Widest(i - 1, First.scale) /\ units = SumOf(i - 1, First.scale) /\ units \in Int64
  BY DEF FastReturn, ExactInv, ArgumentsHold
<1>2. Len(values) \in Nat /\ i - 1 = Len(values)
  BY <1>1, ListType
<1>3. Widest(Len(values), First.scale) /\ units = SumOf(Len(values), First.scale)
  BY <1>1, <1>2
<1>4. CASE op = "Sum" /\ Answer(Ok(Fixed(units, First.scale)))
  <2> DEFINE answer == Ok(Fixed(units, First.scale))
  <2>1. answer.err = "nil" /\ answer.val.units = units /\ answer.val.scale = First.scale
    BY DEF Ok, Fixed
  <2>2. WidestScale = First.scale /\ ExactUnits = units
    BY <1>1, <1>3, WholeSum
  <2>3. SumAnswer(answer)
    <3> HIDE DEF answer
    <3> QED
      BY <1>1, <2>1, <2>2 DEF SumAnswer, Fits, AmountOf
  <2>4. AvgAnswer(answer)
    BY <1>1, <1>4 DEF AvgAnswer, HasPolicy
  <2> QED
    BY <1>4, <2>3, <2>4, ReturnKeeps
<1>5. CASE op = "Avg" /\ AvgFast # {} /\ Answer(OrOverflow(AvgFast, scale))
  <2>1. ValidFixed64Scale(scale) /\ mode \in RoundingModes
    BY <1>1, <1>5 DEF ArgumentsHold
  <2>2. AvgAnswer(OrOverflow(AvgFast, scale))
    BY <1>1, <1>3, <1>5, <2>1, FastAnswer
  <2>3. SumAnswer(OrOverflow(AvgFast, scale))
    BY <1>5 DEF SumAnswer
  <2> QED
    BY <1>5, <2>2, <2>3, ReturnKeeps
<1>6. CASE FallBack
  BY <1>1, <1>6, StartKeeps DEF FallBack
<1>7. CASE /\ pc' = "divide" /\ total' = Decimal(Fixed(units, First.scale))
           /\ UNCHANGED <<input, i, units, result, error>>
  <2>1. First.scale \in Nat
    BY <1>1, <1>2, ListType, ValueFields DEF First
  <2>2. Decimal(Fixed(units, First.scale)).coef = units /\ Decimal(Fixed(units, First.scale)).scale = First.scale
    <3> DEFINE s == First.scale
    <3>1. ~(s < 0)
      BY <2>1
    <3> HIDE DEF s
    <3>2. Decimal(Fixed(units, s)) = D!Dec(units, s)
      BY <3>1 DEF Decimal, Fixed, D!New, D!Ok
    <3> QED
      BY <3>2 DEF D!Dec, s
  <2>3. SumTo(total', Len(values))
    BY <1>1, <1>3, <1>7, <2>2, Constants DEF SumTo
  <2>4. SumTo(total, Len(values))'
    <3>1. PICK n, d : n = Len(values) /\ d = total' /\ SumTo(d, n)
      BY <2>3
    <3>2. SumTo(d, n)' /\ n = Len(values')
      BY <1>7, <3>1, SameSums
    <3> QED
      BY <3>1, <3>2
  <2>5. SumIsExact' /\ AvgRoundsOnce'
    BY <1>7, NotDone
  <2> QED
    BY <1>1, <1>7, <2>4, <2>5, SameArguments DEF ExactInv
<1> QED
  BY <1>4, <1>5, <1>6, <1>7 DEF FastReturn

LEMMA DecimalAdds ==
    ASSUME ExactInv, DecimalAdd
    PROVE  ExactInv'
<1>1. /\ pc = "decimal" /\ i <= Len(values) /\ i \in Nat /\ i >= 1
      /\ values \in Slices /\ ArgumentsHold /\ SumTo(total, i - 1)
  BY DEF DecimalAdd, ExactInv
<1>2. CASE OfMoney /\ CurrencyError(values[i]) # "nil" /\ Answer(D!Fail(CurrencyError(values[i])))
  <2>1. D!Fail(CurrencyError(values[i])).err \in ArgumentErrors
    BY <1>2 DEF CurrencyError, ArgumentErrors, D!Fail
  <2> QED
    BY <1>2, <2>1, Refusal, ReturnKeeps
<1>3. CASE AddNext
  <2>1. /\ total' = D!Add(total, Decimal(values[i])) /\ i' = i + 1
        /\ UNCHANGED <<input, pc, units, result, error>>
    BY <1>3 DEF AddNext
  <2>2. SumTo(D!Add(total, Decimal(values[i])), i)
    <3>1. PICK n : n = i - 1
      OBVIOUS
    <3>2. n \in Nat /\ n + 1 = i
      BY <1>1, <3>1
    <3> QED
      BY <1>1, <3>1, <3>2, SumAdd
  <2>3. SumTo(total, i - 1)'
    <3>1. PICK n, d : n = i /\ d = total' /\ SumTo(d, n)
      BY <2>1, <2>2
    <3>2. SumTo(d, n)' /\ n = i' - 1
      BY <1>1, <2>1, <3>1, SameSums
    <3> QED
      BY <3>1, <3>2
  <2>4. SumIsExact' /\ AvgRoundsOnce'
    BY <1>1, <2>1, NotDone
  <2>5. i' \in Nat /\ i' >= 1 /\ i' <= Len(values) + 1
    BY <1>1, <2>1, ListType
  <2> QED
    BY <1>1, <2>1, <2>3, <2>4, <2>5, SameArguments DEF ExactInv
<1> QED
  BY <1>2, <1>3 DEF DecimalAdd

LEMMA DecimalEnds ==
    ASSUME ExactInv, DecimalDone
    PROVE  ExactInv'
<1>1. /\ pc = "decimal" /\ i > Len(values) /\ i <= Len(values) + 1 /\ i \in Nat
      /\ values \in Slices /\ ArgumentsHold /\ SumTo(total, i - 1) /\ i >= 1
      /\ pc' = "divide" /\ UNCHANGED <<input, i, units, total, result, error>>
  BY DEF DecimalDone, ExactInv
<1>2. Len(values) \in Nat /\ i - 1 = Len(values)
  BY <1>1, ListType
<1>3. SumTo(total, Len(values))'
  <2>1. PICK n, d : n = Len(values) /\ d = total /\ SumTo(d, n)
    BY <1>1, <1>2
  <2>2. SumTo(d, n)' /\ n = Len(values') /\ d = total'
    BY <1>1, <2>1, SameSums
  <2> QED
    BY <2>2
<1>4. SumIsExact' /\ AvgRoundsOnce'
  BY <1>1, NotDone
<1> QED
  BY <1>1, <1>3, <1>4, SameArguments DEF ExactInv

\* A call that asks for neither a sum nor a rounded average claims nothing here.
LEMMA ExactForms ==
    ASSUME NEW answer, op \in {"AvgExact", "SumExact"}
    PROVE  SumAnswer(answer) /\ AvgAnswer(answer)
  BY DEF SumAnswer, AvgAnswer

LEMMA FixedDivides ==
    ASSUME ExactInv, Divide
    PROVE  ExactInv'
<1>1. /\ pc = "divide" /\ type = "Fixed64" /\ values \in ValueLists /\ values \in Slices /\ scale \in AskedScales
      /\ ArgumentsHold /\ values # <<>> /\ SumTo(total, Len(values))
  BY DEF Divide, ExactInv, ArgumentsHold
<1>2. CASE op = "Sum" /\ Answer(Converted(D!Ok(total), total.scale))
  <2> DEFINE s == total.scale
             n == total.coef
             answer == Converted(D!Ok(total), total.scale)
  <2>1. Widest(Len(values), s) /\ n = SumOf(Len(values), s) /\ n \in Int
    BY <1>1 DEF SumTo
  <2>2. WidestScale = s /\ ExactUnits = n /\ ValidFixed64Scale(s) /\ s \in 0 .. MaxScale /\ s \in Int
    BY <1>1, <2>1, WholeSum
  <2>3. answer = Fixed64FromDecimal(total, s, "TowardZero")
    BY DEF Converted, D!Ok
  <2>4. answer = Stored(n, s)
    <3>1. "TowardZero" \in RoundingModes
      BY DEF RoundingModes, DirectedModes
    <3>2. Rescaled(n, s, s, "TowardZero") = n
      BY <2>1, <2>2, RescaledInPlace
    <3> HIDE DEF answer
    <3> QED
      BY <2>2, <2>3, <3>1, <3>2, FromDecimalIsStored
  <2>5. SumAnswer(answer)
    <3> HIDE DEF answer, n, s
    <3>1. CASE n \in Int64
      <4>1. answer.err = "nil" /\ answer.val.units = n /\ answer.val.scale = s
        BY <2>4, <3>1 DEF Stored, Ok, Fixed
      <4> QED
        BY <1>1, <2>2, <3>1, <4>1 DEF SumAnswer, Fits, AmountOf
    <3>2. CASE n \notin Int64
      <4>1. answer.err = "ErrOverflow"
        BY <2>4, <3>2 DEF Stored, Fail
      <4> QED
        BY <1>1, <2>2, <3>2, <4>1 DEF SumAnswer, Fits
    <3> QED
      BY <3>1, <3>2
  <2>6. AvgAnswer(answer)
    BY <1>1, <1>2 DEF AvgAnswer, HasPolicy
  <2> QED
    BY <1>2, <2>5, <2>6, ReturnKeeps
<1>3. CASE op = "Avg" /\ Answer(Converted(D!Div(total, Count, scale, mode), scale))
  <2>1. ValidFixed64Scale(scale) /\ mode \in RoundingModes
    BY <1>1, <1>3 DEF ArgumentsHold
  <2>2. AvgAnswer(Converted(D!Div(total, Count, scale, mode), scale))
    BY <1>1, <1>3, <2>1, DivAnswers
  <2>3. SumAnswer(Converted(D!Div(total, Count, scale, mode), scale))
    BY <1>3 DEF SumAnswer
  <2> QED
    BY <1>3, <2>2, <2>3, ReturnKeeps
<1>4. CASE op = "AvgExact" /\ Answer(Converted(ExactAverage, scale))
  BY <1>4, ExactForms, ReturnKeeps
<1> QED
  BY <1>2, <1>3, <1>4 DEF Divide

LEMMA DecimalDivides ==
    ASSUME ExactInv, DivideDecimal
    PROVE  ExactInv'
<1>1. /\ pc = "divide" /\ type # "Fixed64" /\ ~HasPolicy /\ values \in Slices /\ scale \in AskedScales
      /\ values # <<>> /\ SumTo(total, Len(values))
  BY DEF DivideDecimal, ExactInv, ArgumentsHold, HasPolicy
<1>2. CASE op = "Sum" /\ Answer(D!Ok(total))
  <2>1. WidestScale = total.scale /\ ExactUnits = total.coef
    BY <1>1, WholeSum DEF SumTo
  <2>2. D!Ok(total).err = "nil" /\ D!Ok(total).val = total
    BY DEF D!Ok
  <2>3. SumAnswer(D!Ok(total)) /\ AvgAnswer(D!Ok(total))
    BY <1>1, <1>2, <2>1, <2>2 DEF SumAnswer, AvgAnswer, Fits, AmountOf
  <2> QED
    BY <1>2, <2>3, ReturnKeeps
<1>3. CASE op = "Avg" /\ Answer(D!Div(total, Count, scale, mode))
  <2>1. AvgAnswer(D!Div(total, Count, scale, mode))
    BY <1>1, <1>3, DivAnswers
  <2>2. SumAnswer(D!Div(total, Count, scale, mode))
    BY <1>3 DEF SumAnswer
  <2> QED
    BY <1>3, <2>1, <2>2, ReturnKeeps
<1>4. CASE op = "AvgExact" /\ Answer(D!DivExact(total, Count))
  BY <1>4, ExactForms, ReturnKeeps
<1> QED
  BY <1>2, <1>3, <1>4 DEF DivideDecimal

LEMMA PolicyDivides ==
    ASSUME ExactInv, DividePolicy
    PROVE  ExactInv'
<1>1. /\ pc = "divide" /\ type # "Fixed64" /\ HasPolicy /\ values \in Slices /\ scale \in AskedScales
      /\ values # <<>> /\ SumTo(total, Len(values))
  BY DEF DividePolicy, ExactInv, ArgumentsHold, HasPolicy
<1>2. CASE op = "Sum" /\ Answer(D!Rescale(total, scale, mode))
  <2> DEFINE s == total.scale
             q == Rescaled(total.coef, s, scale, mode)
             answer == D!Rescale(total, scale, mode)
  <2>1. Widest(Len(values), s) /\ total.coef = SumOf(Len(values), s)
    BY <1>1 DEF SumTo
  <2>2. AvgAnswer(answer)
    <3>1. CASE scale < 0 \/ mode \notin RoundingModes
      <4>1. answer.err \in ArgumentErrors
        BY <3>1, SameArithmetic DEF D!Rescale, D!Fail, ArgumentErrors
      <4> QED
        BY <4>1, Refusal
    <3>2. CASE ~(scale < 0) /\ mode \in RoundingModes
      <4>1. scale \in 0 .. MaxScale
        BY <1>1, <3>2, ScaleAsked
      <4>2. Rounds(q)
        BY <1>1, <1>2, <2>1, <3>2, <4>1, RescaledRounds
      <4>3. answer = D!Ok(D!Dec(q, scale))
        BY <3>2, SameArithmetic DEF D!Rescale, Rescaled
      <4> HIDE DEF q, s, answer
      <4> QED
        BY <1>1, <2>1, <3>2, <4>1, <4>2, <4>3, MeanAnswer
    <3> QED
      BY <3>1, <3>2
  <2>3. SumAnswer(answer)
    BY <1>1 DEF SumAnswer
  <2> QED
    BY <1>2, <2>2, <2>3, ReturnKeeps
<1>3. CASE op = "Avg" /\ Answer(D!Div(total, Count, scale, mode))
  <2>1. AvgAnswer(D!Div(total, Count, scale, mode))
    BY <1>1, <1>3, DivAnswers
  <2>2. SumAnswer(D!Div(total, Count, scale, mode))
    BY <1>3 DEF SumAnswer
  <2> QED
    BY <1>3, <2>1, <2>2, ReturnKeeps
<1>4. CASE \E answer : op \in {"AvgExact", "SumExact"} /\ Answer(answer)
  BY <1>4, ExactForms, ReturnKeeps
<1> QED
  BY <1>2, <1>3, <1>4 DEF DividePolicy

LEMMA ExactStep == ExactInv /\ [AggregateNext]_aggregateVars => ExactInv'
<1> SUFFICES ASSUME ExactInv, [AggregateNext]_aggregateVars PROVE ExactInv'
  OBVIOUS
<1>1. CASE CheckFixed64
  BY <1>1, Fixed64Starts
<1>2. CASE CheckDecimal \/ CheckMoney \/ CheckContext
  BY <1>2, DecimalStarts
<1>3. CASE CheckMoneyContext
  BY <1>3, MoneyContextStarts
<1>4. CASE FastAdd
  BY <1>4, FastAdds
<1>5. CASE FastReturn
  BY <1>5, FastReturns
<1>6. CASE DecimalAdd
  BY <1>6, DecimalAdds
<1>7. CASE DecimalDone
  BY <1>7, DecimalEnds
<1>8. CASE Divide
  BY <1>8, FixedDivides
<1>9. CASE DivideDecimal
  BY <1>9, DecimalDivides
<1>10. CASE DividePolicy
  BY <1>10, PolicyDivides
<1>11. CASE UNCHANGED aggregateVars
  <2>1. UNCHANGED input /\ UNCHANGED <<pc, i, units, total, result, error>>
    BY <1>11 DEF aggregateVars
  <2>2. SumIsExact' /\ AvgRoundsOnce'
    <3>1. SumIsExact /\ AvgRoundsOnce
      BY DEF ExactInv
    <3>2. /\ ExactUnits' = ExactUnits /\ WidestScale' = WidestScale
          /\ Num' = Num /\ Den' = Den /\ HasPolicy' = HasPolicy
          /\ \A n : Fits(n)' = Fits(n)
      BY <2>1, SameInput
    <3> QED
      BY <2>1, <3>1, <3>2 DEF SumIsExact, AvgRoundsOnce, Answered, Amount, Num, Den, Fits
  <2>3. /\ Widest(i - 1, First.scale)' <=> Widest(i - 1, First.scale)
        /\ SumOf(i - 1, First.scale)' = SumOf(i - 1, First.scale)
        /\ SumTo(total, i - 1)' <=> SumTo(total, i - 1)
        /\ SumTo(total, Len(values))' <=> SumTo(total, Len(values))
    BY <2>1 DEF First, SumTo, Widest, Bounds, SumOf, Terms
  <2> QED
    BY <2>1, <2>2, <2>3, SameArguments DEF ExactInv
<1> QED
  BY <1>1, <1>2, <1>3, <1>4, <1>5, <1>6, <1>7, <1>8, <1>9, <1>10, <1>11 DEF AggregateNext

LEMMA AlwaysExactInv == AggregateSpec => []ExactInv
BY ExactInit, ExactStep, PTL DEF AggregateSpec

\* A sum overflows only when the total itself does not fit, and is exact otherwise,
\* for every slice of values: partial sums that overflow, the order of the values and
\* their scales make no difference.  (fixed64.go SumFixed64; aggregate.go Sum, SumMoney)
THEOREM AlwaysSumsExactly == AggregateSpec => []SumIsExact
<1>1. ExactInv => SumIsExact
  BY DEF ExactInv
<1> QED
  BY <1>1, AlwaysExactInv, PTL

\* An average, and a sum under a policy, is the exact one rounded once, and overflows
\* only when the rounded result does not fit: what the int64 loop returns is what the
\* Decimal loop would have returned.  (fixed64.go AvgFixed64; aggregate.go Avg, AvgMoney;
\* Sum and Avg of Context and MoneyContext)
THEOREM AlwaysAveragesOnce == AggregateSpec => []AvgRoundsOnce
<1>1. ExactInv => AvgRoundsOnce
  BY DEF ExactInv
<1> QED
  BY <1>1, AlwaysExactInv, PTL
-----------------------------------------------------------------------------
(* The exact forms. *)

ExactOps == {"AvgExact", "SumExact"}

\* The scales an exact form may answer at, and those of them that hold the value
Allowed   == IF type \in {"Decimal", "Money"} THEN 0 .. MaxScale ELSE {scale}
Reachable == {s \in Allowed : (ExactUnits * Pow10[s]) % Den = 0}

\* What AvgExactIsExact asks of the answer that a call returns
ExactAnswer(answer) ==
    answer.err \notin ArgumentErrors /\ op \in ExactOps =>
        IF Reachable = {} THEN answer.err = "ErrInexact"
        ELSE IF \A s \in Reachable : Fits((ExactUnits * Pow10[s]) \div Den)
          THEN /\ answer.err = "nil" /\ answer.val.scale \in Reachable
               /\ AmountOf(answer.val) * Den = ExactUnits * Pow10[answer.val.scale]
          ELSE answer.err = "ErrOverflow"

LEMMA ExactReturned ==
    ASSUME NEW answer, Answer(answer), values # <<>> => ExactAnswer(answer)
    PROVE  AvgExactIsExact'
<1>1. /\ pc' = "done" /\ error' = answer.err /\ UNCHANGED input
      /\ error' = "nil" => result' = answer.val
  BY DEF Answer
<1>2. /\ ExactUnits' = ExactUnits /\ Den' = Den
      /\ \A n : Fits(n)' = Fits(n)
  BY <1>1, SameInput
<1>3. error' = "nil" => Amount' = AmountOf(answer.val) /\ result'.scale = answer.val.scale
  BY <1>1 DEF Amount, AmountOf
<1>4. Allowed' = Allowed /\ Reachable' = Reachable
  <2>1. Allowed' = Allowed
    BY <1>1 DEF Allowed
  <2> QED
    BY <1>2, <2>1 DEF Reachable
<1>5. AvgExactIsExact'
  <2> SUFFICES ASSUME Answered("AvgExact")' \/ Answered("SumExact")'
               PROVE  (IF Reachable = {} THEN error = "ErrInexact"
                       ELSE IF \A s \in Reachable : Fits((ExactUnits * Pow10[s]) \div Den)
                         THEN /\ error = "nil" /\ result.scale \in Reachable
                              /\ Amount * Den = ExactUnits * Pow10[result.scale]
                         ELSE error = "ErrOverflow")'
    BY DEF AvgExactIsExact, Reachable, Allowed, Den
  <2>1. values # <<>> /\ answer.err \notin ArgumentErrors /\ op \in ExactOps
    BY <1>1 DEF Answered, ExactOps
  <2>2. IF Reachable = {} THEN answer.err = "ErrInexact"
        ELSE IF \A s \in Reachable : Fits((ExactUnits * Pow10[s]) \div Den)
          THEN /\ answer.err = "nil" /\ answer.val.scale \in Reachable
               /\ AmountOf(answer.val) * Den = ExactUnits * Pow10[answer.val.scale]
          ELSE answer.err = "ErrOverflow"
    BY <2>1 DEF ExactAnswer
  <2>3. \A s : Fits((ExactUnits * Pow10[s]) \div Den)' <=> Fits((ExactUnits * Pow10[s]) \div Den)
    BY <1>1, <1>2 DEF Fits
  <2> QED
    BY <1>1, <1>2, <1>3, <1>4, <2>2, <2>3
<1> QED
  BY <1>5

\* The value, at the scale t
Reaches(k, t) == k \in Int /\ k * Den = ExactUnits * Pow10[t]

LEMMA ReachedScales ==
    ASSUME values \in Slices, values # <<>>, NEW s, Widest(Len(values), s), NEW t \in 0 .. MaxScale
    PROVE  /\ (ExactUnits * Pow10[t]) % Den = 0 <=> \E k : Reaches(k, t)
           /\ \A k : Reaches(k, t) => (ExactUnits * Pow10[t]) \div Den = k
           /\ ExactUnits \in Int /\ Den \in Nat \ {0} /\ Den = Divisor * Pow10[s]
<1>1. WidestScale = s /\ ExactUnits \in Int /\ s \in 0 .. MaxScale
  BY WholeSum
<1>2. Den \in Nat \ {0} /\ Den = Divisor * Pow10[s]
  <2> DEFINE p == Pow10[s]
             d == Divisor
  <2>1. Len(values) \in Nat \ {0}
    BY ListType
  <2>2. p \in Nat \ {0} /\ d \in Nat \ {0}
    BY <1>1, <2>1, Constants DEF Divisor
  <2>3. Den = d * p
    BY <1>1 DEF Den
  <2> HIDE DEF p, d
  <2>4. d * p \in Nat \ {0}
    BY <2>2
  <2> QED
    BY <2>3, <2>4 DEF d, p
<1> DEFINE a == ExactUnits * Pow10[t]
           d == Den
<1>3. a \in Int /\ d \in Int /\ d > 0
  <2> DEFINE p == Pow10[t]
             x == ExactUnits
  <2>1. p \in Int /\ x \in Int
    BY <1>1, Constants
  <2> HIDE DEF p, x
  <2>2. x * p \in Int
    BY <2>1
  <2> QED
    BY <1>2, <2>2 DEF p, x
<1> HIDE DEF a, d
<1>4. /\ \A k \in Int : k * d = a => a % d = 0 /\ a \div d = k
      /\ a % d = 0 => \E k \in Int : k * d = a
  BY <1>3, WholeMultiple
<1> QED
  BY <1>1, <1>2, <1>4 DEF Reaches, a, d

\* A refusal is honest if no scale allowed holds the value.
LEMMA RefusedHonestly ==
    ASSUME values \in Slices, values # <<>>, NEW s, Widest(Len(values), s), Allowed \subseteq 0 .. MaxScale,
           \A t \in Allowed : \A k : ~Reaches(k, t), NEW answer, answer.err = "ErrInexact"
    PROVE  ExactAnswer(answer)
<1>1. Reachable = {}
  BY ReachedScales DEF Reachable
<1> QED
  BY <1>1 DEF ExactAnswer

\* The value at a scale allowed, stored if it fits, is the answer.
LEMMA AnsweredExactly ==
    ASSUME values \in Slices, values # <<>>, NEW s, Widest(Len(values), s), Allowed \subseteq 0 .. MaxScale,
           NEW t \in Allowed, NEW k, Reaches(k, t)
    PROVE  /\ type = "Fixed64" => ExactAnswer(Stored(k, t))
           /\ type # "Fixed64" => ExactAnswer(D!Ok(D!Dec(k, t)))
<1>1. t \in Reachable /\ (ExactUnits * Pow10[t]) \div Den = k
  BY ReachedScales DEF Reachable
<1>2. CASE type = "Fixed64"
  <2>1. Reachable = {t}
    BY <1>1, <1>2 DEF Reachable, Allowed
  <2>2. CASE k \in Int64
    <3>1. Stored(k, t).err = "nil" /\ Stored(k, t).val.units = k /\ Stored(k, t).val.scale = t
      BY <2>2 DEF Stored, Ok, Fixed
    <3> QED
      BY <1>1, <1>2, <2>1, <2>2, <3>1 DEF ExactAnswer, Fits, AmountOf, Reaches
  <2>3. CASE k \notin Int64
    <3>1. Stored(k, t).err = "ErrOverflow"
      BY <2>3 DEF Stored, Fail
    <3> QED
      BY <1>1, <1>2, <2>1, <2>3, <3>1 DEF ExactAnswer, Fits
  <2> QED
    BY <1>2, <2>2, <2>3
<1>3. CASE type # "Fixed64"
  <2> DEFINE answer == D!Ok(D!Dec(k, t))
  <2>1. answer.err = "nil" /\ answer.val.coef = k /\ answer.val.scale = t
    BY DEF D!Ok, D!Dec
  <2> HIDE DEF answer
  <2>2. ExactAnswer(answer)
    BY <1>1, <1>3, <2>1 DEF ExactAnswer, Fits, AmountOf, Reaches
  <2> QED
    BY <1>3, <2>2 DEF answer
<1> QED
  BY <1>2, <1>3

\* Brought from one scale to another, the value is there, or the other scale
\* cannot hold it.
LEMMA RescaledExactly ==
    ASSUME values \in Slices, values # <<>>, NEW s, Widest(Len(values), s), scale \in 0 .. MaxScale,
           NEW a, a.scale \in 0 .. MaxScale, Reaches(a.coef, a.scale)
    PROVE  LET answer == D!RescaleExact(a, scale)
           IN  \/ answer = D!Fail("ErrInexact") /\ \A y : ~Reaches(y, scale)
               \/ \E y : answer = D!Ok(D!Dec(y, scale)) /\ Reaches(y, scale)
<1> DEFINE answer == D!RescaleExact(a, scale)
           k == a.coef
           t == a.scale
           x == ExactUnits
           d == Den
           p == Pow10[t]
           r == Pow10[scale]
<1>1. x \in Int /\ d \in Nat \ {0} /\ k \in Int /\ k * d = x * p
  BY ReachedScales DEF Reaches
<1>2. /\ p \in Nat \ {0} /\ r \in Nat \ {0} /\ MaxScale \in Nat
      /\ t \in Nat /\ t <= MaxScale /\ scale \in Nat /\ scale <= MaxScale
      /\ \A e \in 0 .. MaxScale : Pow10[e] \in Nat \ {0}
  BY Constants
<1>3. CASE scale >= t
  <2> DEFINE z == Pow10[scale - t]
             y == k * z
  <2>1. scale - t \in 0 .. MaxScale
    BY <1>2, <1>3
  <2>2. z \in Nat \ {0}
    BY <1>2, <2>1
  <2>3. r = p * z
    <3> DEFINE w == 2 * MaxScale
               e == scale - t
    <3> HIDE DEF t
    <3>1. w \in Nat /\ PowersOfTen(Pow10, w) /\ e \in Nat /\ t + e <= w /\ t + e = scale
      <4>1. e \in Nat /\ t + e = scale
        BY <1>2, <2>1
      <4>2. w \in Nat /\ scale <= w
        BY <1>2
      <4>3. PowersOfTen(Pow10, w)
        BY Constants
      <4> QED
        BY <4>1, <4>2, <4>3
    <3> HIDE DEF w, e
    <3>2. Pow10[t + e] = Pow10[t] * Pow10[e]
      BY <1>2, <3>1, PowersAdd
    <3> QED
      BY <3>1, <3>2 DEF e
  <2>4. answer = D!Ok(D!Dec(y, scale))
    BY <1>2, <1>3 DEF D!RescaleExact
  <2> HIDE DEF z, p, r, x, d, answer
  <2>5. y * d = x * r /\ y \in Int
    <3>1. (k * z) * d = (k * d) * z /\ (x * p) * z = x * (p * z) /\ k * z \in Int
      BY <1>1, <1>2, <2>2
    <3> QED
      BY <1>1, <2>3, <3>1
  <2> HIDE DEF y
  <2>6. Reaches(y, scale)
    BY <2>5 DEF Reaches, x, d, r
  <2> QED
    BY <2>4, <2>6 DEF answer
<1>4. CASE scale < t
  <2> DEFINE z == Pow10[t - scale]
             y == Quo(k, z)
  <2>1. t - scale \in 0 .. MaxScale
    BY <1>2, <1>4
  <2>2. z \in Nat \ {0} /\ z \in Int \ {0} /\ z \in Int /\ z > 0
    BY <1>2, <2>1
  <2>3. p = r * z
    <3> DEFINE w == 2 * MaxScale
               e == t - scale
    <3> HIDE DEF t
    <3>1. w \in Nat /\ PowersOfTen(Pow10, w) /\ e \in Nat /\ scale + e <= w /\ scale + e = t
      <4>1. e \in Nat /\ scale + e = t
        BY <1>2, <2>1
      <4>2. w \in Nat /\ t <= w
        BY <1>2
      <4>3. PowersOfTen(Pow10, w)
        BY Constants
      <4> QED
        BY <4>1, <4>2, <4>3
    <3> HIDE DEF w, e
    <3>2. Pow10[scale + e] = Pow10[scale] * Pow10[e]
      BY <1>2, <3>1, PowersAdd
    <3> QED
      BY <3>1, <3>2 DEF e
  <2>4. answer = IF Rem(k, z) # 0 THEN D!Fail("ErrInexact") ELSE D!Ok(D!Dec(y, scale))
    BY <1>2, <1>4, SameArithmetic DEF D!RescaleExact
  <2> HIDE DEF z, p, r, x, d, answer, y
  <2>5. /\ y \in Int /\ (Rem(k, z) = 0 => k = y * z)
        /\ Rem(k, z) = 0 <=> Divides(z, k)
    BY <1>1, <2>2, NoRemainder DEF y
  <2>6. ASSUME NEW q \in Int PROVE q * d = x * r <=> k = q * z
    <3>1. (q * d) * z = (q * z) * d /\ (x * r) * z = x * (r * z) /\ q * z \in Int /\ q * d \in Int /\ x * r \in Int
      BY <1>1, <1>2, <2>2
    <3>2. (q * d) * z = (x * r) * z <=> q * d = x * r
      <4> DEFINE u == q * d
                 v == x * r
      <4>1. u \in Int /\ v \in Int
        BY <3>1
      <4> HIDE DEF u, v
      <4>2. u * z = v * z <=> u = v
        BY <2>2, <4>1, ScaledOrder
      <4> QED
        BY <4>2 DEF u, v
    <3>3. (q * z) * d = k * d <=> q * z = k
      <4> DEFINE u == q * z
      <4>1. u \in Int /\ d \in Int /\ d > 0
        BY <1>1, <3>1
      <4> HIDE DEF u, k
      <4>2. u * d = k * d <=> u = k
        BY <1>1, <4>1, ScaledOrder
      <4> QED
        BY <4>2 DEF u
    <3> QED
      BY <1>1, <2>3, <3>1, <3>2, <3>3
  <2>7. CASE Rem(k, z) # 0
    <3>1. \A q : ~Reaches(q, scale)
      BY <2>5, <2>6, <2>7 DEF Reaches, Divides, x, d, r
    <3> QED
      BY <2>4, <2>7, <3>1 DEF answer
  <2>8. CASE Rem(k, z) = 0
    <3>1. Reaches(y, scale)
      BY <2>5, <2>6, <2>8 DEF Reaches, x, d, r
    <3> QED
      BY <2>4, <2>8, <3>1 DEF answer
  <2> QED
    BY <2>7, <2>8
<1> QED
  BY <1>2, <1>3, <1>4

\* The mean that DivExact returns is the value.
LEMMA MeanReached ==
    ASSUME values \in Slices, values # <<>>, op = "AvgExact", SumTo(total, Len(values))
    PROVE  /\ total.scale \in 0 .. MaxScale /\ Widest(Len(values), total.scale)
           /\ \A k \in Int : \A t : MeanIs(total, k, t) <=> Reaches(k, t)
<1>1. Widest(Len(values), total.scale) /\ total.coef = SumOf(Len(values), total.scale)
  BY DEF SumTo
<1>2. /\ WidestScale = total.scale /\ ExactUnits = total.coef /\ total.scale \in 0 .. MaxScale
  BY <1>1, WholeSum
<1>3. Den = Len(values) * Pow10[total.scale]
  BY <1>2 DEF Den, Divisor
<1> QED
  BY <1>1, <1>2, <1>3 DEF MeanIs, Reaches

\* An exact average at the scale asked for.
LEMMA AverageAtScale ==
    ASSUME AveragesFit, values \in Slices, values # <<>>, op = "AvgExact", SumTo(total, Len(values)),
           scale \in 0 .. MaxScale
    PROVE  \/ ExactAverage = D!Fail("ErrInexact") /\ \A y : ~Reaches(y, scale)
           \/ \E y : ExactAverage = D!Ok(D!Dec(y, scale)) /\ Reaches(y, scale)
<1> DEFINE avg == D!DivExact(total, Count)
<1>1. CASE /\ avg = D!Fail("ErrInexact")
           /\ \A t \in 0 .. MaxScale : \A k \in Int : ~MeanIs(total, k, t)
  <2>1. ExactAverage = D!Fail("ErrInexact")
    BY <1>1 DEF ExactAverage, D!Fail
  <2>2. \A y : ~Reaches(y, scale)
    BY <1>1, MeanReached DEF Reaches
  <2> QED
    BY <2>1, <2>2
<1>2. CASE \E k \in Int, t \in 0 .. MaxScale : avg = D!Ok(D!Dec(k, t)) /\ MeanIs(total, k, t)
  <2>1. PICK k \in Int, t \in 0 .. MaxScale : avg = D!Ok(D!Dec(k, t)) /\ MeanIs(total, k, t)
    BY <1>2
  <2> DEFINE a == D!Dec(k, t)
  <2>2. a.coef = k /\ a.scale = t
    BY DEF D!Dec
  <2>3. ExactAverage = D!RescaleExact(a, scale)
    BY <2>1 DEF ExactAverage, D!Ok
  <2> HIDE DEF a
  <2>4. a.scale \in 0 .. MaxScale /\ Reaches(a.coef, a.scale)
    BY <2>1, <2>2, MeanReached
  <2> QED
    BY <2>3, <2>4, MeanReached, RescaledExactly
<1> QED
  BY <1>1, <1>2, MeanDigits

\* What the three divisions return for an exact average.
LEMMA ExactAverages ==
    ASSUME AveragesFit, values \in Slices, values # <<>>, op = "AvgExact", SumTo(total, Len(values))
    PROVE  /\ type \in {"Decimal", "Money"} => ExactAnswer(D!DivExact(total, Count))
           /\ type \notin {"Decimal", "Money", "Fixed64"} /\ scale \in 0 .. MaxScale => ExactAnswer(ExactAverage)
           /\ type = "Fixed64" /\ scale \in AskedScales /\ ValidFixed64Scale(scale) => ExactAnswer(Converted(ExactAverage, scale))
<1>1. Widest(Len(values), total.scale) /\ total.scale \in 0 .. MaxScale
  BY MeanReached
<1>2. \A t : D!Fail(t).err = t /\ Fail(t).err = t
  BY DEF D!Fail, Fail
<1>3. ASSUME type \in {"Decimal", "Money"} PROVE ExactAnswer(D!DivExact(total, Count))
  <2> DEFINE avg == D!DivExact(total, Count)
  <2>1. Allowed = 0 .. MaxScale /\ type # "Fixed64"
    BY <1>3 DEF Allowed
  <2>2. CASE /\ avg = D!Fail("ErrInexact")
             /\ \A t \in 0 .. MaxScale : \A k \in Int : ~MeanIs(total, k, t)
    <3>1. \A t \in Allowed : \A k : ~Reaches(k, t)
      BY <2>1, <2>2, MeanReached DEF Reaches
    <3>2. avg.err = "ErrInexact"
      BY <1>2, <2>2
    <3> HIDE DEF avg
    <3>3. ExactAnswer(avg)
      BY <1>1, <2>1, <3>1, <3>2, RefusedHonestly
    <3> QED
      BY <3>3 DEF avg
  <2>3. CASE \E k \in Int, t \in 0 .. MaxScale : avg = D!Ok(D!Dec(k, t)) /\ MeanIs(total, k, t)
    <3>1. PICK k \in Int, t \in 0 .. MaxScale : avg = D!Ok(D!Dec(k, t)) /\ MeanIs(total, k, t)
      BY <2>3
    <3>2. Reaches(k, t) /\ t \in Allowed
      BY <2>1, <3>1, MeanReached
    <3>3. ExactAnswer(D!Ok(D!Dec(k, t)))
      BY <1>1, <2>1, <3>2, AnsweredExactly
    <3> QED
      BY <3>1, <3>3
  <2> QED
    BY <2>2, <2>3, MeanDigits
<1>4. ASSUME type \notin {"Decimal", "Money", "Fixed64"}, scale \in 0 .. MaxScale PROVE ExactAnswer(ExactAverage)
  <2>1. Allowed = {scale}
    BY <1>4 DEF Allowed
  <2>2. CASE ExactAverage = D!Fail("ErrInexact") /\ \A y : ~Reaches(y, scale)
    BY <1>1, <1>2, <1>4, <2>1, <2>2, RefusedHonestly
  <2>3. CASE \E y : ExactAverage = D!Ok(D!Dec(y, scale)) /\ Reaches(y, scale)
    <3>1. PICK y : ExactAverage = D!Ok(D!Dec(y, scale)) /\ Reaches(y, scale)
      BY <2>3
    <3>2. ExactAnswer(D!Ok(D!Dec(y, scale)))
      BY <1>1, <1>4, <2>1, <3>1, AnsweredExactly
    <3> QED
      BY <3>1, <3>2
  <2> QED
    BY <1>4, <2>2, <2>3, AverageAtScale
<1>5. ASSUME type = "Fixed64", scale \in AskedScales, ValidFixed64Scale(scale)
      PROVE  ExactAnswer(Converted(ExactAverage, scale))
  <2>1. Allowed = {scale} /\ scale \in 0 .. MaxScale /\ scale \in Int
    BY <1>5, ScaleAsked DEF Allowed
  <2>2. CASE ExactAverage = D!Fail("ErrInexact") /\ \A y : ~Reaches(y, scale)
    <3>1. Converted(ExactAverage, scale).err = "ErrInexact"
      BY <1>2, <2>2 DEF Converted
    <3> QED
      BY <1>1, <2>1, <2>2, <3>1, RefusedHonestly
  <2>3. CASE \E y : ExactAverage = D!Ok(D!Dec(y, scale)) /\ Reaches(y, scale)
    <3>1. PICK y : ExactAverage = D!Ok(D!Dec(y, scale)) /\ Reaches(y, scale)
      BY <2>3
    <3>2. Converted(ExactAverage, scale) = Stored(y, scale)
      <4>1. Converted(ExactAverage, scale) = Fixed64FromDecimal(D!Dec(y, scale), scale, "TowardZero")
        BY <3>1 DEF Converted, D!Ok
      <4>2. D!Dec(y, scale).coef = y /\ D!Dec(y, scale).scale = scale /\ "TowardZero" \in RoundingModes
        BY DEF D!Dec, RoundingModes, DirectedModes
      <4>3. Rescaled(y, scale, scale, "TowardZero") = y
        BY <2>1, <3>1, RescaledInPlace DEF Reaches
      <4> QED
        BY <1>5, <2>1, <4>1, <4>2, <4>3, FromDecimalIsStored
    <3>3. ExactAnswer(Stored(y, scale))
      BY <1>1, <1>5, <2>1, <3>1, AnsweredExactly
    <3> QED
      BY <3>2, <3>3
  <2> QED
    BY <2>1, <2>2, <2>3, AverageAtScale
<1> QED
  BY <1>3, <1>4, <1>5

\* An exact sum under a policy.
LEMMA WholeSumReached ==
    ASSUME values \in Slices, values # <<>>, op = "SumExact", NEW s \in 0 .. MaxScale,
           Widest(Len(values), s), ExactUnits \in Int
    PROVE  Reaches(ExactUnits, s)
<1>1. Den = 1 * Pow10[s]
  BY ReachedScales DEF Divisor
<1>2. Pow10[s] \in Nat
  BY Constants
<1>3. Den = Pow10[s]
  BY <1>1, <1>2
<1> QED
  BY <1>3 DEF Reaches

LEMMA ExactSums ==
    ASSUME values \in Slices, values # <<>>, op = "SumExact", SumTo(total, Len(values)), HasPolicy,
           scale \in 0 .. MaxScale
    PROVE  ExactAnswer(D!RescaleExact(total, scale))
<1> DEFINE answer == D!RescaleExact(total, scale)
           s == total.scale
<1>1. /\ Widest(Len(values), s) /\ s \in 0 .. MaxScale /\ ExactUnits = total.coef /\ total.coef \in Int
  BY WholeSum DEF SumTo
<1>2. Reaches(total.coef, s)
  BY <1>1, WholeSumReached
<1>3. Allowed = {scale} /\ type # "Fixed64"
  BY DEF Allowed, HasPolicy
<1>4. CASE answer = D!Fail("ErrInexact") /\ \A y : ~Reaches(y, scale)
  <2>1. answer.err = "ErrInexact"
    BY <1>4 DEF D!Fail
  <2> HIDE DEF answer, s
  <2>2. ExactAnswer(answer)
    BY <1>1, <1>3, <1>4, <2>1, RefusedHonestly
  <2> QED
    BY <2>2 DEF answer
<1>5. CASE \E y : answer = D!Ok(D!Dec(y, scale)) /\ Reaches(y, scale)
  <2>1. PICK y : answer = D!Ok(D!Dec(y, scale)) /\ Reaches(y, scale)
    BY <1>5
  <2>2. ExactAnswer(D!Ok(D!Dec(y, scale)))
    BY <1>1, <1>3, <2>1, AnsweredExactly
  <2> QED
    BY <2>1, <2>2
<1> QED
  BY <1>1, <1>2, <1>4, <1>5, RescaledExactly

\* The policy is a valid one once the loop of an exact form runs, and the answer is exact.
ExactFormsInv ==
    /\ pc \in {"decimal", "divide"} /\ HasPolicy /\ op # "Sum" => PolicyError = "nil"
    /\ AvgExactIsExact

LEMMA ExactReturn ==
    ASSUME NEW answer, Answer(answer), values # <<>> => ExactAnswer(answer)
    PROVE  ExactFormsInv'
<1>1. pc' = "done"
  BY DEF Answer
<1> QED
  BY <1>1, ExactReturned DEF ExactFormsInv

LEMMA OtherAnswers ==
    ASSUME NEW answer, answer.err \in ArgumentErrors \/ op \notin ExactOps
    PROVE  ExactAnswer(answer)
  BY DEF ExactAnswer

LEMMA ExactGoesOn ==
    ASSUME UNCHANGED input, pc' # "done",
           pc' \in {"decimal", "divide"} /\ HasPolicy /\ op # "Sum" => PolicyError = "nil"
    PROVE  ExactFormsInv'
<1>1. HasPolicy' = HasPolicy /\ PolicyError' = PolicyError /\ op' = op
  BY DEF HasPolicy, PolicyError
<1>2. AvgExactIsExact'
  BY DEF AvgExactIsExact, Answered
<1> QED
  BY <1>1, <1>2 DEF ExactFormsInv

LEMMA ExactFormsInit == AggregateInit => ExactFormsInv
  BY DEF AggregateInit, ExactFormsInv, AvgExactIsExact, Answered

LEMMA ExactFormsDivide ==
    ASSUME AveragesFit, ExactInv, ExactFormsInv, Divide \/ DivideDecimal \/ DividePolicy
    PROVE  ExactFormsInv'
<1>1. /\ pc = "divide" /\ values \in Slices /\ values # <<>> /\ scale \in AskedScales
      /\ SumTo(total, Len(values)) /\ ArgumentsHold
  BY DEF Divide, DivideDecimal, DividePolicy, ExactInv, ArgumentsHold
<1>2. CASE \E answer : op \notin ExactOps /\ Answer(answer)
  BY <1>2, ExactReturn, OtherAnswers
<1>3. CASE type = "Fixed64" /\ op = "AvgExact" /\ Answer(Converted(ExactAverage, scale))
  <2>1. ValidFixed64Scale(scale)
    BY <1>1, <1>3 DEF ArgumentsHold
  <2>2. ExactAnswer(Converted(ExactAverage, scale))
    BY <1>1, <1>3, <2>1, ExactAverages
  <2> QED
    BY <1>3, <2>2, ExactReturn
<1>4. CASE type \in {"Decimal", "Money"} /\ op = "AvgExact" /\ Answer(D!DivExact(total, Count))
  <2>1. ExactAnswer(D!DivExact(total, Count))
    BY <1>1, <1>4, ExactAverages
  <2> QED
    BY <1>4, <2>1, ExactReturn
<1>5. ASSUME HasPolicy, op \in ExactOps PROVE scale \in 0 .. MaxScale /\ type \notin {"Decimal", "Money", "Fixed64"}
  <2>1. PolicyError = "nil"
    BY <1>1, <1>5 DEF ExactFormsInv, ExactOps
  <2>2. ~(scale < 0)
    BY <2>1 DEF PolicyError
  <2> QED
    BY <1>1, <1>5, <2>2, ScaleAsked DEF HasPolicy
<1>6. CASE HasPolicy /\ op = "SumExact" /\ Answer(D!RescaleExact(total, scale))
  <2>1. ExactAnswer(D!RescaleExact(total, scale))
    BY <1>1, <1>5, <1>6, ExactSums DEF ExactOps
  <2> QED
    BY <1>6, <2>1, ExactReturn
<1>7. CASE HasPolicy /\ op = "AvgExact" /\ Answer(ExactAverage)
  <2>1. ExactAnswer(ExactAverage)
    BY <1>1, <1>5, <1>7, ExactAverages DEF ExactOps
  <2> QED
    BY <1>7, <2>1, ExactReturn
<1> QED
  BY <1>2, <1>3, <1>4, <1>6, <1>7 DEF Divide, DivideDecimal, DividePolicy, ExactOps

LEMMA ExactFormsStep ==
    ASSUME AveragesFit, ExactInv, ExactFormsInv, [AggregateNext]_aggregateVars
    PROVE  ExactFormsInv'
<1>1. \A e : D!Fail(e).err = e /\ Fail(e).err = e
  BY DEF D!Fail, Fail
<1>2. CASE \E answer : /\ answer.err \in ArgumentErrors \/ op \notin ExactOps \/ values = <<>>
                       /\ Answer(answer)
  BY <1>2, ExactReturn, OtherAnswers
<1>3. CASE ~HasPolicy /\ UNCHANGED input /\ pc' # "done"
  BY <1>3, ExactGoesOn
<1>4. CASE CheckFixed64 \/ CheckDecimal \/ CheckMoney
  <2>1. ~HasPolicy
    BY <1>4 DEF CheckFixed64, CheckDecimal, CheckMoney, HasPolicy
  <2> QED
    BY <1>1, <1>2, <1>3, <1>4, <2>1
       DEF CheckFixed64, CheckDecimal, CheckMoney, StartSum, ArgumentErrors
<1>5. CASE CheckContext
  <2>1. CASE (op = "Sum" \/ PolicyError = "nil") /\ StartSum
    BY <2>1, ExactGoesOn DEF StartSum
  <2>2. CASE op = "Sum" /\ \E answer : Answer(answer)
    BY <1>2, <2>2 DEF ExactOps
  <2>3. CASE PolicyError # "nil" /\ Answer(D!Fail(PolicyError))
    BY <1>1, <1>2, <2>3 DEF PolicyError, ArgumentErrors
  <2>4. CASE values = <<>> /\ Answer(D!Fail("ErrEmptyInput"))
    BY <1>2, <2>4
  <2> QED
    BY <1>5, <2>1, <2>2, <2>3, <2>4 DEF CheckContext
<1>6. CASE CheckMoneyContext
  <2>1. CASE PolicyError = "nil" /\ pc' = "decimal" /\ UNCHANGED <<input, i, units, total, result, error>>
    BY <2>1, ExactGoesOn
  <2>2. CASE PolicyError # "nil" /\ Answer(D!Fail(PolicyError))
    BY <1>1, <1>2, <2>2 DEF PolicyError, ArgumentErrors
  <2>3. CASE values = <<>> /\ Answer(D!Fail("ErrEmptyInput"))
    BY <1>2, <2>3
  <2> QED
    BY <1>6, <2>1, <2>2, <2>3 DEF CheckMoneyContext
<1>7. CASE FastAdd \/ FastReturn
  <2>1. ~HasPolicy
    BY <1>7 DEF FastAdd, FastReturn, ExactInv, HasPolicy
  <2>2. CASE FastAdd
    BY <1>3, <2>1, <2>2 DEF FastAdd, FallBack, StartSum
  <2>3. CASE FastReturn
    BY <1>2, <1>3, <2>1, <2>3 DEF FastReturn, FallBack, StartSum, ExactOps
  <2> QED
    BY <1>7, <2>2, <2>3
<1>8. CASE DecimalAdd
  <2>1. CASE OfMoney /\ CurrencyError(values[i]) # "nil" /\ Answer(D!Fail(CurrencyError(values[i])))
    BY <1>1, <1>2, <2>1 DEF CurrencyError, ArgumentErrors
  <2>2. CASE AddNext
    BY <1>8, <2>2, ExactGoesOn DEF AddNext, DecimalAdd, ExactFormsInv
  <2> QED
    BY <1>8, <2>1, <2>2 DEF DecimalAdd
<1>9. CASE DecimalDone
  BY <1>9, ExactGoesOn DEF DecimalDone, ExactFormsInv
<1>10. CASE Divide \/ DivideDecimal \/ DividePolicy
  BY <1>10, ExactFormsDivide
<1>11. CASE UNCHANGED aggregateVars
  <2>1. UNCHANGED input /\ UNCHANGED <<pc, i, units, total, result, error>>
    BY <1>11 DEF aggregateVars
  <2>2. /\ ExactUnits' = ExactUnits /\ WidestScale' = WidestScale /\ HasPolicy' = HasPolicy
        /\ Den' = Den /\ \A n : Fits(n)' = Fits(n)
    BY <2>1, SameInput
  <2>3. AvgExactIsExact'
    BY <2>1, <2>2 DEF ExactFormsInv, AvgExactIsExact, Answered, Amount, Den, Fits, Divisor
  <2> QED
    BY <2>1, <2>2, <2>3 DEF ExactFormsInv, PolicyError
<1> QED
  BY <1>4, <1>5, <1>6, <1>7, <1>8, <1>9, <1>10, <1>11 DEF AggregateNext

\* An exact form returns the mean or the sum itself, and ErrInexact exactly when no
\* scale it may answer at can hold it, if DivExact can count the factors of the divisor
\* in an int32: a quotient taken on the way at another scale makes no difference.
\* (fixed64.go AvgFixed64Exact; aggregate.go AvgExact, AvgMoneyExact; SumExact and
\* AvgExact of Context and MoneyContext)
THEOREM AlwaysExact == ASSUME AveragesFit PROVE AggregateSpec => []AvgExactIsExact
<1>1. AggregateInit => ExactFormsInv
  BY ExactFormsInit
<1>2. ExactInv /\ ExactFormsInv /\ [AggregateNext]_aggregateVars => ExactFormsInv'
  BY ExactFormsStep
<1>3. ExactFormsInv => AvgExactIsExact
  BY DEF ExactFormsInv
<1> QED
  BY <1>1, <1>2, <1>3, AlwaysExactInv, PTL DEF AggregateSpec

-----------------------------------------------------------------------------
(* The types of what is kept and returned. *)

HasType(v) ==
    IF type = "Fixed64" THEN v.units \in Int64 /\ ValidFixed64Scale(v.scale)
    ELSE v.coef \in Int /\ v.scale \in 0 .. MaxScale

Typed(answer) ==
    /\ answer.err \in ArgumentErrors \cup {"nil", "ErrOverflow", "ErrInexact"}
    /\ answer.err = "nil" => HasType(answer.val)

TypeInv ==
    /\ type \in Types /\ op \in {"Sum", "SumExact", "Avg", "AvgExact"}
    /\ values \in ValueLists \cup DecimalLists \cup MoneyLists
    /\ scale \in AskedScales /\ mode \in AskedModes /\ code \in Policies \cup {""}
    /\ pc \in {"check", "fast", "decimal", "divide", "done"}
    /\ units \in Int64
    /\ HasType(result)
    /\ error \in ArgumentErrors \cup {"nil", "ErrOverflow", "ErrInexact"}

LEMMA TypedAnswers ==
    /\ \A a : a.err \in ArgumentErrors \cup {"ErrOverflow", "ErrInexact"} => Typed(a)
    /\ type # "Fixed64" => \A k \in Int : \A s \in 0 .. MaxScale : Typed(D!Ok(D!Dec(k, s)))
    /\ type = "Fixed64" => \A n : \A s \in 0 .. MaxFixedScale : Typed(Stored(n, s))
<1>1. "nil" \notin ArgumentErrors \cup {"ErrOverflow", "ErrInexact"}
  BY DEF ArgumentErrors
<1>2. ASSUME type # "Fixed64", NEW k \in Int, NEW s \in 0 .. MaxScale PROVE Typed(D!Ok(D!Dec(k, s)))
  <2>1. D!Dec(k, s).coef = k /\ D!Dec(k, s).scale = s
    BY DEF D!Dec
  <2>2. D!Ok(D!Dec(k, s)).err = "nil" /\ D!Ok(D!Dec(k, s)).val = D!Dec(k, s)
    BY DEF D!Ok
  <2> QED
    BY <1>2, <2>1, <2>2 DEF Typed, HasType
<1>3. ASSUME type = "Fixed64", NEW n, NEW s \in 0 .. MaxFixedScale PROVE Typed(Stored(n, s))
  <2>1. ValidFixed64Scale(s)
    BY Constants DEF ValidFixed64Scale
  <2>2. CASE n \in Int64
    <3>1. Stored(n, s).err = "nil" /\ Stored(n, s).val.units = n /\ Stored(n, s).val.scale = s
      BY <2>2 DEF Stored, Ok, Fixed
    <3> QED
      BY <1>3, <2>1, <2>2, <3>1 DEF Typed, HasType
  <2>3. CASE n \notin Int64
    <3>1. Stored(n, s).err = "ErrOverflow"
      BY <2>3 DEF Stored, Fail
    <3> QED
      BY <3>1 DEF Typed
  <2> QED
    BY <2>2, <2>3
<1> QED
  BY <1>1, <1>2, <1>3 DEF Typed

LEMMA NoResultTyped ==
    ASSUME NEW v, v = NoResult(type)
    PROVE  HasType(v)
<1>1. CASE type = "Fixed64"
  <2>1. v.units = 0 /\ v.scale = 0
    BY <1>1 DEF NoResult, Fixed
  <2>2. 0 \in Int64 /\ ValidFixed64Scale(0)
    BY Constants DEF ValidFixed64Scale, Int64, MinInt64
  <2> QED
    BY <1>1, <2>1, <2>2 DEF HasType
<1>2. CASE type # "Fixed64"
  <2>1. v.coef = 0 /\ v.scale = 0
    BY <1>2 DEF NoResult, D!ZeroValue, D!Dec
  <2>2. 0 \in 0 .. MaxScale
    BY Constants
  <2> QED
    BY <1>2, <2>1, <2>2 DEF HasType
<1> QED
  BY <1>1, <1>2

LEMMA TypedReturn ==
    ASSUME TypeInv, NEW answer, Answer(answer), Typed(answer)
    PROVE  TypeInv'
<1>1. /\ pc' = "done" /\ error' = answer.err /\ UNCHANGED input /\ units' = units
      /\ result' = IF answer.err = "nil" THEN answer.val ELSE NoResult(type)
  BY DEF Answer
<1>2. HasType(result')
  BY <1>1, NoResultTyped DEF Typed
<1>3. HasType(result)'
  BY <1>1, <1>2 DEF HasType
<1> QED
  BY <1>1, <1>3 DEF TypeInv, Typed

LEMMA TypedGoesOn ==
    ASSUME TypeInv, ExactInv', UNCHANGED input, UNCHANGED <<result, error>>,
           pc' \in {"check", "fast", "decimal", "divide", "done"}, pc' = "fast" \/ units' = units
    PROVE  TypeInv'
<1>1. units' \in Int64
  BY DEF ExactInv, TypeInv
<1>2. HasType(result)'
  BY DEF TypeInv, HasType
<1> QED
  BY <1>1, <1>2 DEF TypeInv

LEMMA TypeInit == AggregateInit => TypeInv
<1> SUFFICES ASSUME AggregateInit PROVE TypeInv
  OBVIOUS
<1>1. HasType(result)
  BY NoResultTyped DEF AggregateInit
<1>2. units \in Int64
  BY Constants DEF AggregateInit, Int64, MinInt64
<1>3. values \in ValueLists \cup DecimalLists \cup MoneyLists /\ code \in Policies \cup {""}
  BY DEF AggregateInit, OfMoney
<1>4. op \in {"Sum", "SumExact", "Avg", "AvgExact"}
  BY DEF AggregateInit, HasPolicy
<1> QED
  BY <1>1, <1>2, <1>3, <1>4 DEF AggregateInit, TypeInv

\* A Decimal result at the scale of a Fixed64
LEMMA ConvertedTyped ==
    ASSUME type = "Fixed64", NEW d, NEW s \in 0 .. MaxFixedScale
    PROVE  Typed(Converted(D!Ok(d), s))
<1>1. Converted(D!Ok(d), s) = Fixed64FromDecimal(d, s, "TowardZero")
  BY DEF Converted, D!Ok
<1>2. "TowardZero" \in RoundingModes /\ s \in Int /\ ValidFixed64Scale(s)
  BY Constants DEF RoundingModes, DirectedModes, ValidFixed64Scale
<1>3. Fixed64FromDecimal(d, s, "TowardZero") = Stored(Rescaled(d.coef, d.scale, s, "TowardZero"), s)
  BY <1>2, FromDecimalIsStored
<1> QED
  BY <1>1, <1>3, TypedAnswers

\* What Div returns of the total, and RescaleExact of an exact quotient
LEMMA DivTyped ==
    ASSUME values \in Slices, values # <<>>, scale \in AskedScales, op = "Avg", SumTo(total, Len(values))
    PROVE  \/ \E e \in ArgumentErrors : D!Div(total, Count, scale, mode) = D!Fail(e)
           \/ \E k \in Int : /\ D!Div(total, Count, scale, mode) = D!Ok(D!Dec(k, scale))
                             /\ scale \in 0 .. MaxScale
<1>1. Widest(Len(values), total.scale) /\ total.coef = SumOf(Len(values), total.scale)
  BY DEF SumTo
<1>2. total.scale \in Int /\ scale \in Int /\ (~(scale < 0) => scale \in 0 .. MaxScale)
  BY <1>1, ScaleAsked DEF Widest, Bounds
<1>3. D!Div(total, Count, scale, mode)
        = IF scale < 0 THEN D!Fail("ErrInvalidScale")
          ELSE IF mode \notin RoundingModes THEN D!Fail("ErrInvalidRoundingMode")
          ELSE D!Ok(D!Dec(MeanOf(total.coef, total.scale), scale))
  BY <1>2, DivIsMean
<1>4. ~(scale < 0) /\ mode \in RoundingModes => MeanOf(total.coef, total.scale) \in Int
  BY <1>1, <1>2, MeanRounds DEF Rounds
<1> QED
  BY <1>2, <1>3, <1>4 DEF ArgumentErrors

LEMMA ExactTyped ==
    ASSUME AveragesFit, values \in Slices, values # <<>>, scale \in 0 .. MaxScale, op = "AvgExact",
           SumTo(total, Len(values))
    PROVE  \/ ExactAverage = D!Fail("ErrInexact")
           \/ \E k \in Int : ExactAverage = D!Ok(D!Dec(k, scale))
  BY AverageAtScale DEF Reaches

LEMMA FailTyped ==
    ASSUME NEW e \in ArgumentErrors \cup {"ErrOverflow", "ErrInexact"}
    PROVE  Typed(D!Fail(e)) /\ Typed(Fail(e))
<1>1. D!Fail(e).err = e /\ Fail(e).err = e
  BY DEF D!Fail, Fail
<1> QED
  BY <1>1, TypedAnswers

LEMMA RefusedConverted ==
    ASSUME NEW e \in ArgumentErrors \cup {"ErrOverflow", "ErrInexact"}, NEW s
    PROVE  Typed(Converted(D!Fail(e), s))
<1>1. D!Fail(e).err = e /\ e # "nil"
  BY DEF D!Fail, ArgumentErrors
<1>2. Converted(D!Fail(e), s) = Fail(e)
  BY <1>1 DEF Converted
<1> QED
  BY <1>2, FailTyped

LEMMA RescaleTyped ==
    ASSUME type # "Fixed64", scale \in AskedScales, NEW d, d.coef \in Int, d.scale \in 0 .. MaxScale
    PROVE  Typed(D!Rescale(d, scale, mode))
<1>1. scale \in Int /\ (~(scale < 0) => scale \in 0 .. MaxScale)
  BY ScaleAsked
<1>2. CASE scale < 0
  BY <1>2, FailTyped DEF D!Rescale, ArgumentErrors
<1>3. CASE ~(scale < 0) /\ mode \notin RoundingModes
  BY <1>3, FailTyped, SameArithmetic DEF D!Rescale, ArgumentErrors
<1>4. CASE ~(scale < 0) /\ mode \in RoundingModes
  <2> DEFINE q == Rescaled(d.coef, d.scale, scale, mode)
             w == 2 * MaxScale
  <2>1. /\ w \in Nat /\ PowersOfTen(Pow10, w) /\ d.scale \in 0 .. w /\ scale \in 0 .. w
    BY <1>1, <1>4, Constants
  <2>2. q \in Int
    BY <1>4, <2>1, ShiftIsRounded DEF Rescaled
  <2>3. D!Rescale(d, scale, mode) = D!Ok(D!Dec(q, scale))
    BY <1>4, SameArithmetic DEF D!Rescale, Rescaled
  <2> HIDE DEF q
  <2> QED
    BY <1>1, <1>4, <2>2, <2>3, TypedAnswers
<1> QED
  BY <1>2, <1>3, <1>4

LEMMA ExactSumTyped ==
    ASSUME type # "Fixed64", values \in Slices, values # <<>>, op = "SumExact", SumTo(total, Len(values)),
           scale \in 0 .. MaxScale
    PROVE  Typed(D!RescaleExact(total, scale))
<1>1. /\ Widest(Len(values), total.scale) /\ total.scale \in 0 .. MaxScale
      /\ ExactUnits = total.coef /\ total.coef \in Int
  BY WholeSum DEF SumTo
<1>2. Reaches(total.coef, total.scale)
  BY <1>1, WholeSumReached
<1>3. CASE D!RescaleExact(total, scale) = D!Fail("ErrInexact")
  BY <1>3, FailTyped
<1>4. CASE \E y \in Int : D!RescaleExact(total, scale) = D!Ok(D!Dec(y, scale))
  BY <1>4, TypedAnswers
<1> QED
  BY <1>1, <1>2, <1>3, <1>4, RescaledExactly DEF Reaches

\* What the int64 loop returns, if it does not start over.
LEMMA FastTyped ==
    ASSUME TypeInv, ExactInv, FastReturn
    PROVE  TypeInv' \/ StartSum
<1>1. /\ pc = "fast" /\ i > Len(values) /\ i <= Len(values) + 1 /\ type = "Fixed64" /\ i \in Nat
      /\ values \in ValueLists /\ values \in Slices /\ values # <<>> /\ ArgumentsHold /\ scale \in AskedScales
      /\ Widest(i - 1, First.scale) /\ units = SumOf(i - 1, First.scale) /\ units \in Int64
  BY DEF FastReturn, ExactInv, ArgumentsHold
<1>2. Len(values) \in Nat /\ i - 1 = Len(values)
  BY <1>1, ListType
<1>3. Widest(Len(values), First.scale) /\ units = SumOf(Len(values), First.scale)
  BY <1>1, <1>2
<1>4. CASE op = "Sum" /\ Answer(Ok(Fixed(units, First.scale)))
  <2> DEFINE answer == Ok(Fixed(units, First.scale))
  <2>1. answer.err = "nil" /\ answer.val.units = units /\ answer.val.scale = First.scale
    BY DEF Ok, Fixed
  <2>2. ValidFixed64Scale(First.scale)
    BY <1>1, <1>3, WholeSum
  <2> HIDE DEF answer
  <2>3. Typed(answer)
    BY <1>1, <2>1, <2>2 DEF Typed, HasType
  <2> QED
    BY <1>4, <2>3, TypedReturn DEF answer
<1>5. CASE op = "Avg" /\ AvgFast # {} /\ Answer(OrOverflow(AvgFast, scale))
  <2>1. ValidFixed64Scale(scale) /\ mode \in RoundingModes /\ scale \in 0 .. MaxFixedScale
    BY <1>1, <1>5, ScaleAsked DEF ArgumentsHold
  <2>2. \E mean \in Int64 : OrOverflow(AvgFast, scale) = Stored(mean, scale)
    BY <1>1, <1>3, <1>5, <2>1, FastAnswer
  <2>3. Typed(OrOverflow(AvgFast, scale))
    BY <1>1, <2>1, <2>2, TypedAnswers
  <2> QED
    BY <1>5, <2>3, TypedReturn
<1>6. CASE /\ pc' = "divide" /\ total' = Decimal(Fixed(units, First.scale))
           /\ UNCHANGED <<input, i, units, result, error>>
  <2>1. ExactInv'
    BY FastReturns
  <2> QED
    BY <1>6, <2>1, TypedGoesOn
<1> QED
  BY <1>4, <1>5, <1>6 DEF FastReturn, FallBack

\* What each step that divides returns.
LEMMA DividedTyped ==
    ASSUME AveragesFit, TypeInv, ExactInv, ExactFormsInv, Divide \/ DivideDecimal \/ DividePolicy
    PROVE  TypeInv'
<1>1. /\ pc = "divide" /\ values \in Slices /\ values # <<>> /\ scale \in AskedScales
      /\ SumTo(total, Len(values)) /\ ArgumentsHold
      /\ type = "Fixed64" => values \in ValueLists
  BY DEF Divide, DivideDecimal, DividePolicy, ExactInv, ArgumentsHold
<1>2. /\ Widest(Len(values), total.scale) /\ total.coef \in Int /\ total.scale \in 0 .. MaxScale
      /\ type = "Fixed64" => ValidFixed64Scale(total.scale)
  BY <1>1, WholeSum DEF SumTo
<1>3. \A s : ValidFixed64Scale(s) /\ s \in Int => s \in 0 .. MaxFixedScale
  BY Constants DEF ValidFixed64Scale
<1>4. type # "Fixed64" => Typed(D!Ok(total))
  <2>1. D!Ok(total).err = "nil" /\ D!Ok(total).val = total
    BY DEF D!Ok
  <2> QED
    BY <1>2, <2>1 DEF Typed, HasType
<1>5. ASSUME op = "Avg"
      PROVE  /\ type # "Fixed64" => Typed(D!Div(total, Count, scale, mode))
             /\ type = "Fixed64" => Typed(Converted(D!Div(total, Count, scale, mode), scale))
  <2>1. type = "Fixed64" => scale \in 0 .. MaxFixedScale
    BY <1>1, <1>5, ScaleAsked DEF ArgumentsHold
  <2>2. CASE \E e \in ArgumentErrors : D!Div(total, Count, scale, mode) = D!Fail(e)
    BY <2>2, FailTyped, RefusedConverted
  <2>3. CASE \E k \in Int : /\ D!Div(total, Count, scale, mode) = D!Ok(D!Dec(k, scale))
                            /\ scale \in 0 .. MaxScale
    BY <2>1, <2>3, TypedAnswers, ConvertedTyped
  <2> QED
    BY <1>1, <1>5, <2>2, <2>3, DivTyped
<1>6. ASSUME op = "AvgExact", scale \in 0 .. MaxScale
      PROVE  /\ type # "Fixed64" => Typed(ExactAverage)
             /\ type = "Fixed64" /\ scale \in 0 .. MaxFixedScale => Typed(Converted(ExactAverage, scale))
  <2>1. "ErrInexact" \in ArgumentErrors \cup {"ErrOverflow", "ErrInexact"}
    OBVIOUS
  <2>2. CASE ExactAverage = D!Fail("ErrInexact")
    BY <2>1, <2>2, FailTyped, RefusedConverted
  <2>3. CASE \E k \in Int : ExactAverage = D!Ok(D!Dec(k, scale))
    BY <1>6, <2>3, TypedAnswers, ConvertedTyped
  <2> QED
    BY <1>1, <1>6, <2>2, <2>3, ExactTyped
<1>7. CASE Divide
  <2>1. CASE op = "Sum" /\ Answer(Converted(D!Ok(total), total.scale))
    <3>1. total.scale \in 0 .. MaxFixedScale /\ type = "Fixed64"
      BY <1>2, <1>3, <1>7 DEF Divide
    <3>2. Typed(Converted(D!Ok(total), total.scale))
      BY <3>1, ConvertedTyped
    <3> QED
      BY <2>1, <3>2, TypedReturn
  <2>2. CASE op = "Avg" /\ Answer(Converted(D!Div(total, Count, scale, mode), scale))
    BY <1>5, <1>7, <2>2, TypedReturn DEF Divide
  <2>3. CASE op = "AvgExact" /\ Answer(Converted(ExactAverage, scale))
    <3>1. scale \in 0 .. MaxFixedScale /\ scale \in 0 .. MaxScale /\ type = "Fixed64"
      BY <1>1, <1>7, <2>3, ScaleAsked DEF Divide, ArgumentsHold
    <3>2. Typed(Converted(ExactAverage, scale))
      BY <1>6, <2>3, <3>1
    <3> QED
      BY <2>3, <3>2, TypedReturn
  <2> QED
    BY <1>7, <2>1, <2>2, <2>3 DEF Divide
<1>8. CASE DivideDecimal
  <2>1. type # "Fixed64"
    BY <1>8 DEF DivideDecimal
  <2>2. CASE op = "Sum" /\ Answer(D!Ok(total))
    BY <1>4, <2>1, <2>2, TypedReturn
  <2>3. CASE op = "Avg" /\ Answer(D!Div(total, Count, scale, mode))
    BY <1>5, <2>1, <2>3, TypedReturn
  <2>4. CASE op = "AvgExact" /\ Answer(D!DivExact(total, Count))
    <3>1. CASE D!DivExact(total, Count) = D!Fail("ErrInexact")
      <4>1. Typed(D!DivExact(total, Count))
        BY <3>1, FailTyped
      <4> QED
        BY <2>4, <4>1, TypedReturn
    <3>2. CASE \E k \in Int, t \in 0 .. MaxScale : D!DivExact(total, Count) = D!Ok(D!Dec(k, t))
      <4>1. Typed(D!DivExact(total, Count))
        BY <2>1, <3>2, TypedAnswers
      <4> QED
        BY <2>4, <4>1, TypedReturn
    <3> QED
      BY <1>1, <3>1, <3>2, MeanDigits
  <2> QED
    BY <1>8, <2>2, <2>3, <2>4 DEF DivideDecimal
<1>9. CASE DividePolicy
  <2>1. type # "Fixed64" /\ HasPolicy
    BY <1>9 DEF DividePolicy, HasPolicy
  <2>2. op # "Sum" => scale \in 0 .. MaxScale
    <3>1. op # "Sum" => PolicyError = "nil"
      BY <1>1, <2>1 DEF ExactFormsInv
    <3> QED
      BY <1>1, <3>1, ScaleAsked DEF PolicyError
  <2>3. CASE op = "Sum" /\ Answer(D!Rescale(total, scale, mode))
    BY <1>1, <1>2, <2>1, <2>3, RescaleTyped, TypedReturn
  <2>4. CASE op = "SumExact" /\ Answer(D!RescaleExact(total, scale))
    <3>1. Typed(D!RescaleExact(total, scale))
      BY <1>1, <1>2, <2>1, <2>2, <2>4, ExactSumTyped
    <3> QED
      BY <2>4, <3>1, TypedReturn
  <2>5. CASE op = "Avg" /\ Answer(D!Div(total, Count, scale, mode))
    BY <1>5, <2>1, <2>5, TypedReturn
  <2>6. CASE op = "AvgExact" /\ Answer(ExactAverage)
    BY <1>6, <2>1, <2>2, <2>6, TypedReturn
  <2> QED
    BY <1>9, <2>3, <2>4, <2>5, <2>6 DEF DividePolicy
<1> QED
  BY <1>7, <1>8, <1>9

LEMMA TypeStep ==
    ASSUME AveragesFit, TypeInv, ExactInv, ExactFormsInv, [AggregateNext]_aggregateVars
    PROVE  TypeInv'
<1>1. ExactInv'
  BY ExactStep
<1>2. ASSUME NEW answer, Answer(answer), answer.err \in ArgumentErrors PROVE TypeInv'
  BY <1>2, TypedAnswers, TypedReturn
<1>3. \A e : D!Fail(e).err = e /\ Fail(e).err = e
  BY DEF D!Fail, Fail
<1>4. CASE CheckFixed64
  <2>1. CASE pc' = "fast" /\ UNCHANGED <<input, total, result, error>>
    BY <1>1, <2>1, TypedGoesOn
  <2>2. CASE \E e \in ArgumentErrors : Answer(Fail(e))
    BY <1>2, <1>3, <2>2
  <2> QED
    BY <1>4, <2>1, <2>2 DEF CheckFixed64, ArgumentErrors
<1>5. CASE StartSum
  BY <1>1, <1>5, TypedGoesOn DEF StartSum
<1>6. D!ZeroValue.coef \in Int /\ D!ZeroValue.scale \in 0 .. MaxScale /\ D!ZeroValue = D!Dec(0, 0)
  BY Constants DEF D!ZeroValue, D!Dec
<1>7. CASE CheckDecimal \/ CheckMoney
  <2>1. type # "Fixed64"
    BY <1>7 DEF CheckDecimal, CheckMoney
  <2>2. CASE Answer(D!Ok(D!ZeroValue))
    <3>1. 0 \in 0 .. MaxScale
      BY Constants
    <3>2. Typed(D!Ok(D!ZeroValue))
      BY <1>6, <2>1, <3>1, TypedAnswers
    <3> QED
      BY <2>2, <3>2, TypedReturn
  <2>3. CASE \E e \in ArgumentErrors : Answer(D!Fail(e))
    BY <1>2, <1>3, <2>3
  <2> QED
    BY <1>5, <1>7, <2>2, <2>3 DEF CheckDecimal, CheckMoney, ArgumentErrors
<1>8. CASE CheckContext
  <2>1. type # "Fixed64" /\ scale \in AskedScales
    BY <1>8 DEF CheckContext, TypeInv
  <2>2. CASE Answer(D!Rescale(D!ZeroValue, scale, mode))
    BY <1>6, <2>1, <2>2, RescaleTyped, TypedReturn
  <2>3. CASE \E e \in ArgumentErrors : Answer(D!Fail(e))
    BY <1>2, <1>3, <2>3
  <2>4. PolicyError # "nil" => PolicyError \in ArgumentErrors
    BY DEF PolicyError, ArgumentErrors
  <2> QED
    BY <1>5, <1>8, <2>2, <2>3, <2>4 DEF CheckContext, ArgumentErrors
<1>9. CASE CheckMoneyContext
  <2>1. CASE \E e \in ArgumentErrors : Answer(D!Fail(e))
    BY <1>2, <1>3, <2>1
  <2>2. CASE pc' = "decimal" /\ UNCHANGED <<input, i, units, total, result, error>>
    BY <1>1, <2>2, TypedGoesOn
  <2>3. PolicyError # "nil" => PolicyError \in ArgumentErrors
    BY DEF PolicyError, ArgumentErrors
  <2> QED
    BY <1>9, <2>1, <2>2, <2>3 DEF CheckMoneyContext, ArgumentErrors
<1>10. CASE FastAdd
  <2>1. CASE pc' = "fast" /\ UNCHANGED <<input, total, result, error>>
    BY <1>1, <2>1, TypedGoesOn
  <2> QED
    BY <1>5, <1>10, <2>1 DEF FastAdd, FallBack
<1>11. CASE FastReturn
  BY <1>5, <1>11, FastTyped DEF FallBack
<1>12. CASE DecimalAdd
  <2>1. CASE OfMoney /\ CurrencyError(values[i]) # "nil" /\ Answer(D!Fail(CurrencyError(values[i])))
    BY <1>2, <1>3, <2>1 DEF CurrencyError, ArgumentErrors
  <2>2. CASE AddNext
    <3>1. pc' = pc /\ units' = units /\ UNCHANGED input /\ UNCHANGED <<result, error>>
      BY <2>2 DEF AddNext
    <3> QED
      BY <1>1, <3>1, TypedGoesOn DEF TypeInv
  <2> QED
    BY <1>12, <2>1, <2>2 DEF DecimalAdd
<1>13. CASE DecimalDone
  BY <1>1, <1>13, TypedGoesOn DEF DecimalDone
<1>14. CASE Divide \/ DivideDecimal \/ DividePolicy
  BY <1>14, DividedTyped
<1>15. CASE UNCHANGED aggregateVars
  <2>1. UNCHANGED input /\ UNCHANGED <<pc, units, result, error>>
    BY <1>15 DEF aggregateVars
  <2> QED
    BY <1>1, <2>1, TypedGoesOn DEF TypeInv
<1> QED
  BY <1>4, <1>7, <1>8, <1>9, <1>10, <1>11, <1>12, <1>13, <1>14, <1>15 DEF AggregateNext

\* The fast total is always an int64, whatever the partial sums would be, and what is
\* returned is a value of its type: no wrapped sum is ever kept, no scale leaves its
\* range.  (fixed64.go sumFixed64Fast, avgFixed64Fast; aggregate.go)
THEOREM AggregateTypeCorrect == ASSUME AveragesFit PROVE AggregateSpec => []AggregateTypeOK
<1>1. AggregateInit => ExactFormsInv /\ TypeInv
  BY ExactFormsInit, TypeInit
<1>2. ExactInv /\ ExactFormsInv /\ TypeInv /\ [AggregateNext]_aggregateVars => ExactFormsInv' /\ TypeInv'
  BY ExactFormsStep, TypeStep
<1>3. ExactInv /\ TypeInv => AggregateTypeOK
  <2> SUFFICES ASSUME ExactInv, TypeInv PROVE AggregateTypeOK
    OBVIOUS
  <2>1. Len(values) \in Nat
    BY ListType DEF ExactInv
  <2>2. i \in 1 .. Len(values) + 1
    BY <2>1 DEF ExactInv
  <2> QED
    BY <2>2 DEF TypeInv, AggregateTypeOK, HasType
<1> QED
  BY <1>1, <1>2, <1>3, AlwaysExactInv, PTL DEF AggregateSpec
=============================================================================
