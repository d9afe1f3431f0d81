---------------------------- MODULE PowerProofs ----------------------------
(***************************************************************************)
(* Power, for every base, every exponent and every width of the scale: no  *)
(* product of the loop wraps its scale, and a power is refused for its     *)
(* scale only when the exact power is too wide itself.                     *)
(***************************************************************************)
EXTENDS Power, RoundingProofs

USE DEF input

-----------------------------------------------------------------------------
(* Scales. *)

\* Scales whose sum is one are added without wrapping.
LEMMA AddScaleFits ==
    ASSUME NEW a \in Nat, NEW b \in Nat, a + b <= MaxScale
    PROVE  AddScale(a, b) = a + b
<1> DEFINE s == a + b + MaxScale + 1
           w == 2 * (MaxScale + 1)
<1>1. /\ MaxScale \in Nat
      /\ s \in Int /\ w \in Int /\ 0 <= s /\ s < w
  BY MaxScaleAssumption
<1>2. AddScale(a, b) = (s % w) - (MaxScale + 1)
  BY DEF AddScale, WrapScale
<1> HIDE DEF s, w
<1>3. s % w = s
  <2> DEFINE k == s \div w
             r == s % w
  <2>1. k \in Int /\ k >= 0 /\ s = k * w + r /\ r \in Int /\ 0 <= r /\ r < w
    BY <1>1, FloorDivision
  <2> HIDE DEF k, r
  <2>2. CASE k >= 1
    <3>1. k * w >= w /\ k * w \in Int
      BY <1>1, <2>1, <2>2
    <3> QED
      BY <1>1, <2>1, <3>1
  <2>3. CASE k = 0
    BY <1>1, <2>1, <2>3 DEF r
  <2> QED
    BY <2>1, <2>2, <2>3
<1> QED
  BY <1>1, <1>2, <1>3 DEF s

\* The scale of the product, when it is not wider than an int32.
LEMMA ProductScale ==
    ASSUME NEW a, NEW b, a.scale \in Nat, b.scale \in Nat, a.scale + b.scale <= MaxScale
    PROVE  Mul(a, b).scale = a.scale + b.scale
BY AddScaleFits DEF Mul, Dec

\* The exponent the loop starts with is a natural number.
LEMMA MagnifiedType ==
    ASSUME exp \in Exponents
    PROVE  Integral \in Int /\ Magnified \in Nat
<1>1. exp.coef \in Int /\ exp.scale \in 0 .. MaxScale /\ MaxScale \in Nat
  BY InputAssumption, MaxScaleAssumption
<1>2. Pow10[exp.scale] \in Int /\ Pow10[exp.scale] > 0
  BY <1>1, Pow10Assumption DEF PowersOfTen
<1>3. Integral \in Int
  BY <1>1, <1>2, TruncatedDivision DEF Integral
<1> QED
  BY <1>3 DEF Magnified, Magnitude

\* Rescale answers with the scale asked for, and refuses only a negative one.
LEMMA RescaleAnswer ==
    ASSUME NEW x, NEW s \in Scales, NEW m \in Modes
    PROVE  LET answer == Rescale(x, s, m)
           IN  /\ answer.val.scale \in 0 .. MaxScale
               /\ answer.err \in {"nil", "ErrInvalidScale", "ErrInvalidRoundingMode"}
               /\ answer.err = "ErrInvalidScale" => s < 0
<1>1. s \in Int /\ s <= MaxScale /\ MaxScale \in Nat
  BY InputAssumption, MaxScaleAssumption
<1>2. CASE s < 0 \/ m \notin RoundingModes
  BY <1>1, <1>2 DEF Rescale, Fail, ZeroValue, Dec
<1>3. CASE s >= 0 /\ m \in RoundingModes
  BY <1>1, <1>3 DEF Rescale, Ok, Dec
<1> QED
  BY <1>1, <1>2, <1>3

\* So does Div, but for a zero divisor.
LEMMA DivAnswer ==
    ASSUME NEW x, NEW y, NEW s \in Scales, NEW m \in Modes
    PROVE  LET answer == Div(x, y, s, m)
           IN  /\ answer.val.scale \in 0 .. MaxScale
               /\ answer.err \in {"nil", "ErrInvalidScale", "ErrInvalidRoundingMode", "ErrDivisionByZero"}
               /\ answer.err = "ErrInvalidScale" => s < 0
<1>1. s \in Int /\ s <= MaxScale /\ MaxScale \in Nat
  BY InputAssumption, MaxScaleAssumption
<1>2. CASE IsZero(y) \/ s < 0 \/ m \notin RoundingModes
  BY <1>1, <1>2 DEF Div, Fail, ZeroValue, Dec
<1>3. CASE ~IsZero(y) /\ s >= 0 /\ m \in RoundingModes
  BY <1>1, <1>3 DEF Div, Ok, Dec
<1> QED
  BY <1>1, <1>2, <1>3

\* What halving the exponent leaves of a product by it.
LEMMA HalvedProduct ==
    ASSUME NEW b \in Nat, NEW m \in Nat
    PROVE  /\ b * m \in Nat /\ b * (m \div 2) \in Nat /\ m \div 2 \in Nat
           /\ m % 2 = 1 => b * m = 2 * (b * (m \div 2)) + b
           /\ m % 2 # 1 => b * m = 2 * (b * (m \div 2))
<1> DEFINE h == m \div 2
<1>1. h \in Nat /\ m % 2 \in {0, 1} /\ m = 2 * h + (m % 2)
  OBVIOUS
<1> HIDE DEF h
<1>2. b * m \in Nat /\ b * h \in Nat
  BY <1>1
<1>3. b * (2 * h + 1) = 2 * (b * h) + b /\ b * (2 * h) = 2 * (b * h)
  BY <1>1
<1>4. m % 2 = 1 => b * m = 2 * (b * h) + b
  BY <1>1, <1>3
<1>5. m % 2 # 1 => b * m = 2 * (b * h)
  BY <1>1, <1>3
<1> QED
  BY <1>1, <1>2, <1>4, <1>5 DEF h

-----------------------------------------------------------------------------
(* The value of the power. *)

\* Squaring the base halves the exponent.
LEMMA PowersOfSquare ==
    ASSUME NEW b \in Int, NEW h \in Nat
    PROVE  /\ b * b \in Int
           /\ Powers(b * b)[h] = Powers(b)[2 * h]
           /\ b * Powers(b * b)[h] = Powers(b)[2 * h + 1]
<1> DEFINE c == b * b
           p == Powers(b)
           q == Powers(c)
           S == {k \in Nat : q[k] = p[2 * k]}
<1>1. c \in Int
  OBVIOUS
<1>2. /\ p \in [Nat -> Int] /\ p[0] = 1 /\ \A k \in Nat : p[k + 1] = b * p[k]
      /\ q \in [Nat -> Int] /\ q[0] = 1 /\ \A k \in Nat : q[k + 1] = c * q[k]
  BY <1>1, PowersStep
<1> HIDE DEF p, q
<1>3. ASSUME NEW k \in S PROVE k + 1 \in S
  <2>1. k \in Nat /\ 2 * k \in Nat /\ 2 * k + 1 \in Nat /\ (2 * k + 1) + 1 = 2 * (k + 1)
    OBVIOUS
  <2>2. p[2 * (k + 1)] = b * (b * p[2 * k])
    BY <1>2, <2>1
  <2>3. q[k + 1] = (b * b) * p[2 * k]
    BY <1>2, <2>1
  <2> DEFINE x == p[2 * k]
  <2>4. x \in Int
    BY <1>2, <2>1
  <2> HIDE DEF x
  <2>5. b * (b * x) = (b * b) * x
    BY <2>4
  <2> QED
    BY <2>1, <2>2, <2>3, <2>5 DEF x
<1>4. S = Nat
  <2>1. 0 \in S
    BY <1>2
  <2> HIDE DEF S
  <2>2. S \subseteq Nat
    BY DEF S
  <2> QED
    BY <1>3, <2>1, <2>2, Induction
<1>5. q[h] = p[2 * h] /\ 2 * h \in Nat
  BY <1>4
<1> QED
  BY <1>1, <1>2, <1>5 DEF p, q

-----------------------------------------------------------------------------
(* The invariant, action by action.                                        *)

IInv == TypeOK /\ ScaleInv /\ RefusedOnlyWhenTooWide

\* The inputs are decimals of the package.
LEMMA InputFacts ==
    ASSUME TypeOK
    PROVE  d.scale \in Nat /\ d.scale <= MaxScale /\ MaxScale \in Nat
BY InputAssumption, MaxScaleAssumption DEF TypeOK

\* An initial state satisfies the invariant.
LEMMA InvInit == Init => IInv
<1> SUFFICES ASSUME Init PROVE IInv
  OBVIOUS
<1>1. d.scale \in 0 .. MaxScale /\ MaxScale \in Nat
  BY InputAssumption, MaxScaleAssumption DEF Init
<1>2. TypeOK
  BY <1>1 DEF Init, TypeOK, One, Dec
<1> QED
  BY <1>2 DEF Init, IInv, ScaleInv, RefusedOnlyWhenTooWide

\* A call that returns keeps the invariant, if its answer has a scale that fits
\* and refuses the scale only for one of the two reasons.
LEMMA ReturnStep ==
    ASSUME IInv, NEW answer, Return(answer),
           answer.val.scale \in 0 .. MaxScale,
           answer.err \in {"nil", "ErrInvalidScale", "ErrInvalidRoundingMode", "ErrInexact",
                          "ErrOverflow", "ErrDivisionByZero"},
           answer.err = "ErrInvalidScale" => (~intOnly /\ scale < 0) \/ d.scale * exponent > MaxScale
    PROVE  IInv'
<1>1. TypeOK'
  BY DEF IInv, TypeOK, Return
<1>2. ScaleInv'
  BY DEF ScaleInv, Return
<1>3. RefusedOnlyWhenTooWide'
  BY DEF RefusedOnlyWhenTooWide, Return
<1> QED
  BY <1>1, <1>2, <1>3 DEF IInv

\* The loop starts with an empty product and all of the exponent before it.
LEMMA StartStep == IInv /\ pc = "check" /\ StartLoop => IInv'
<1> SUFFICES ASSUME IInv, pc = "check", StartLoop PROVE IInv'
  OBVIOUS
<1>1. Magnified \in Nat
  BY MagnifiedType DEF IInv, TypeOK
<1>2. d.scale \in Nat
  BY InputFacts DEF IInv
<1>3. TypeOK'
  BY <1>1 DEF IInv, TypeOK, StartLoop
<1>4. ScaleInv'
  BY <1>1, <1>2 DEF IInv, ScaleInv, StartLoop, One, Dec
<1>5. RefusedOnlyWhenTooWide'
  BY DEF RefusedOnlyWhenTooWide, StartLoop
<1> QED
  BY <1>3, <1>4, <1>5 DEF IInv

\* The arguments are checked: PowInt takes any, Pow only an integral exponent.
LEMMA CheckStep == IInv /\ (CheckInt \/ CheckArguments) => IInv'
<1> SUFFICES ASSUME IInv, CheckInt \/ CheckArguments PROVE IInv'
  OBVIOUS
<1>1. CASE CheckInt
  BY <1>1, StartStep DEF CheckInt
<1>2. CASE CheckArguments /\ StartLoop
  BY <1>2, StartStep DEF CheckArguments
<1>3. CASE CheckArguments /\ ~intOnly /\ scale < 0 /\ Return(Fail("ErrInvalidScale"))
  BY <1>3, InputFacts, ReturnStep DEF IInv, Fail, ZeroValue, Dec
<1>4. ASSUME NEW e \in {"ErrInexact", "ErrOverflow", "ErrInvalidRoundingMode"}, Return(Fail(e))
      PROVE  IInv'
  BY <1>4, InputFacts, ReturnStep DEF IInv, Fail, ZeroValue, Dec
<1>5. CASE CheckArguments /\ scale >= 0 /\ Return(Rescale(One, scale, mode))
  <2>1. scale \in Scales /\ mode \in Modes /\ scale \in Int
    BY InputAssumption DEF IInv, TypeOK
  <2> DEFINE answer == Rescale(One, scale, mode)
  <2>2. answer.val.scale \in 0 .. MaxScale /\ answer.err \in {"nil", "ErrInvalidScale", "ErrInvalidRoundingMode"}
        /\ answer.err # "ErrInvalidScale"
    BY <1>5, <2>1, RescaleAnswer
  <2> QED
    BY <1>5, <2>2, ReturnStep
<1> QED
  BY <1>1, <1>2, <1>3, <1>4, <1>5 DEF CheckArguments

\* One bit of the exponent: the refused product would be wider than the power.
LEMMA MultiplyStep == IInv /\ Multiply => IInv'
<1> SUFFICES ASSUME IInv, Multiply PROVE IInv'
  OBVIOUS
<1>1. /\ result.scale \in Nat /\ base.scale \in Nat
      /\ result.scale <= MaxScale /\ base.scale <= MaxScale /\ MaxScale \in Nat
      /\ n \in Nat /\ n > 0
      /\ result.scale + base.scale * n = d.scale * exponent
  BY MaxScaleAssumption DEF IInv, TypeOK, ScaleInv, Multiply
<1> DEFINE half == n \div 2
           rest == base.scale * half
<1>2. /\ base.scale * n \in Nat /\ rest \in Nat /\ half \in Nat
      /\ n % 2 = 1 => base.scale * n = 2 * rest + base.scale
      /\ n % 2 # 1 => base.scale * n = 2 * rest
  BY <1>1, HalvedProduct
<1>3. CASE n % 2 = 1 /\ result.scale + base.scale > MaxScale
  <2>1. Return(Fail("ErrInvalidScale"))
    BY <1>3 DEF Multiply
  <2>2. d.scale * exponent > MaxScale
    BY <1>1, <1>2, <1>3
  <2> QED
    BY <1>1, <2>1, <2>2, ReturnStep DEF Fail, ZeroValue, Dec
<1>4. CASE ~(n % 2 = 1 /\ result.scale + base.scale > MaxScale)
  <2>1. /\ result' = IF n % 2 = 1 THEN Mul(result, base) ELSE result
        /\ n' = half
        /\ pc' = IF half = 0 THEN "round" ELSE "square"
        /\ UNCHANGED <<input, base, err, exponent>>
    BY <1>4 DEF Multiply
  <2>2. result'.scale = IF n % 2 = 1 THEN result.scale + base.scale ELSE result.scale
    BY <1>1, <1>4, <2>1, ProductScale
  <2>3. result'.scale \in 0 .. MaxScale
    BY <1>1, <1>4, <2>2
  <2>4. result'.scale + 2 * rest = d.scale * exponent
    BY <1>1, <1>2, <2>2
  <2>5. half = 0 => rest = 0
    BY <1>1
  <2>6. TypeOK'
    BY <1>2, <2>1, <2>3 DEF IInv, TypeOK
  <2> HIDE DEF rest, half
  <2>7. ScaleInv'
    <3>1. CASE half = 0
      BY <1>2, <2>1, <2>2, <2>3, <2>4, <2>5, <3>1, <1>1 DEF ScaleInv
    <3>2. CASE half # 0
      BY <1>2, <2>1, <2>4, <3>2 DEF ScaleInv, rest
    <3> QED
      BY <3>1, <3>2
  <2>8. RefusedOnlyWhenTooWide'
    BY <2>1 DEF RefusedOnlyWhenTooWide
  <2> QED
    BY <2>6, <2>7, <2>8 DEF IInv
<1> QED
  BY <1>3, <1>4

\* The base is squared only when a bit of the exponent still needs the square.
LEMMA SquareStep == IInv /\ Square => IInv'
<1> SUFFICES ASSUME IInv, Square PROVE IInv'
  OBVIOUS
<1>1. /\ result.scale \in Nat /\ base.scale \in Nat
      /\ result.scale <= MaxScale /\ base.scale <= MaxScale /\ MaxScale \in Nat
      /\ n \in Nat /\ n > 0
      /\ result.scale + 2 * (base.scale * n) = d.scale * exponent
  BY MaxScaleAssumption DEF IInv, TypeOK, ScaleInv, Square
<1>2. /\ base.scale * n \in Nat /\ base.scale * n >= base.scale
      /\ (base.scale + base.scale) * n = 2 * (base.scale * n)
  BY <1>1
<1>3. CASE base.scale + base.scale > MaxScale
  <2>1. Return(Fail("ErrInvalidScale"))
    BY <1>3 DEF Square
  <2>2. d.scale * exponent > MaxScale
    BY <1>1, <1>2, <1>3
  <2> QED
    BY <1>1, <2>1, <2>2, ReturnStep DEF Fail, ZeroValue, Dec
<1>4. CASE ~(base.scale + base.scale > MaxScale)
  <2>1. base' = Mul(base, base) /\ pc' = "multiply" /\ UNCHANGED <<input, result, n, err, exponent>>
    BY <1>4 DEF Square
  <2>2. base'.scale = base.scale + base.scale
    BY <1>1, <1>4, <2>1, ProductScale
  <2>3. TypeOK'
    BY <1>1, <1>4, <2>1, <2>2 DEF IInv, TypeOK
  <2>4. ScaleInv'
    BY <1>1, <1>2, <2>1, <2>2 DEF ScaleInv
  <2>5. RefusedOnlyWhenTooWide'
    BY <2>1 DEF RefusedOnlyWhenTooWide
  <2> QED
    BY <2>3, <2>4, <2>5 DEF IInv
<1> QED
  BY <1>3, <1>4

\* The answer of Pow has the scale asked for; that of PowInt the scale of the power.
LEMMA RoundStep == IInv /\ Round => IInv'
<1> SUFFICES ASSUME IInv, Round PROVE IInv'
  OBVIOUS
<1>1. /\ scale \in Scales /\ mode \in Modes /\ result.scale \in 0 .. MaxScale
  BY DEF IInv, TypeOK
<1>2. CASE intOnly /\ Return(Ok(result))
  BY <1>1, <1>2, ReturnStep DEF Ok
<1>3. CASE ~intOnly /\ Return(Rescale(result, scale, mode))
  BY <1>1, <1>3, RescaleAnswer, ReturnStep
<1>4. CASE ~intOnly /\ Return(Div(One, result, scale, mode))
  BY <1>1, <1>4, DivAnswer, ReturnStep
<1> QED
  BY <1>2, <1>3, <1>4 DEF Round

\* Every step keeps the invariant.
LEMMA InvStep == IInv /\ [Next]_vars => IInv'
<1>1. IInv /\ UNCHANGED vars => IInv'
  BY DEF vars, IInv, TypeOK, ScaleInv, RefusedOnlyWhenTooWide
<1> QED
  BY <1>1, CheckStep, MultiplyStep, SquareStep, RoundStep DEF Next

-----------------------------------------------------------------------------
(* The value of the loop's products, action by action. *)

\* An initial state satisfies the invariant on values.
LEMMA ValueInit == Init => ValueInv
<1> SUFFICES ASSUME Init PROVE ValueInv
  OBVIOUS
<1>1. d.coef \in Int
  BY InputAssumption DEF Init
<1> QED
  BY <1>1 DEF Init, ValueInv, One, Dec

\* A call that returns says nothing more about the loop.
LEMMA ValueReturn ==
    ASSUME NEW answer, Return(answer)
    PROVE  ValueInv'
BY DEF ValueInv, Return

\* Before the loop the product is empty, and all of the power is in the base.
LEMMA ValueStart == IInv /\ ValueInv /\ pc = "check" /\ StartLoop => ValueInv'
<1> SUFFICES ASSUME IInv, ValueInv, pc = "check", StartLoop PROVE ValueInv'
  OBVIOUS
<1>1. /\ result = One /\ base = d /\ d.coef \in Int /\ Magnified \in Nat
      /\ d' = d /\ result' = result /\ base' = base /\ n' = Magnified /\ exponent' = Magnified
      /\ pc' = IF Magnified = 0 THEN "round" ELSE "multiply"
  BY InputAssumption, MagnifiedType DEF IInv, TypeOK, ScaleInv, StartLoop
<1> DEFINE p == Powers(d.coef)
<1>2. p \in [Nat -> Int] /\ p[0] = 1
  BY <1>1, PowersStep
<1>3. Raised' = p[Magnified]
  BY <1>1 DEF Raised
<1>4. One = Dec(One.coef, One.scale) /\ One.coef = 1
  BY DEF One, Dec
<1>5. Powers(base'.coef) = p
  BY <1>1
<1> HIDE DEF p
<1>6. 1 * p[Magnified] = p[Magnified]
  BY <1>1, <1>2
<1> QED
  BY <1>1, <1>2, <1>3, <1>4, <1>5, <1>6 DEF ValueInv

\* One bit of the exponent: its power of the base moves into the product.
LEMMA ValueMultiply == IInv /\ ValueInv /\ Multiply => ValueInv'
<1> SUFFICES ASSUME IInv, ValueInv, Multiply PROVE ValueInv'
  OBVIOUS
<1> DEFINE r  == result.coef
           b  == base.coef
           h  == n \div 2
           p  == Powers(b)
           sq == Powers(b * b)
<1>1. /\ r \in Int /\ b \in Int /\ n \in Nat /\ n > 0
      /\ result = Dec(r, result.scale)
      /\ r * p[n] = Raised
  BY DEF IInv, TypeOK, ScaleInv, ValueInv, Multiply
<1>2. h \in Nat /\ n % 2 \in {0, 1} /\ n = 2 * h + (n % 2)
  BY <1>1
<1>3. CASE Return(Fail("ErrInvalidScale"))
  BY <1>3, ValueReturn
<1>4. CASE ~Return(Fail("ErrInvalidScale"))
  <2>1. /\ result' = IF n % 2 = 1 THEN Mul(result, base) ELSE result
        /\ n' = h /\ base' = base /\ d' = d /\ exponent' = exponent
        /\ pc' = IF h = 0 THEN "round" ELSE "square"
    BY <1>4 DEF Multiply
  <2>2. /\ sq \in [Nat -> Int] /\ sq[0] = 1 /\ sq[h] \in Int /\ p[2 * h] \in Int
        /\ sq[h] = p[2 * h] /\ b * sq[h] = p[2 * h + 1]
    <3> HIDE DEF b, h
    <3>1. b * b \in Int /\ sq[h] = p[2 * h] /\ b * sq[h] = p[2 * h + 1]
      BY <1>1, <1>2, PowersOfSquare
    <3>2. p \in [Nat -> Int] /\ sq \in [Nat -> Int] /\ sq[0] = 1
      BY <1>1, <3>1, PowersStep
    <3> HIDE DEF p, sq
    <3> QED
      BY <1>2, <3>1, <3>2
  <2>3. Raised' = Raised
    BY <2>1 DEF Raised
  <2>4. /\ result' = Dec(result'.coef, result'.scale) /\ result'.coef \in Int
        /\ result'.coef = IF n % 2 = 1 THEN r * b ELSE r
    BY <1>1, <2>1 DEF Mul, Dec
  <2>5. result'.coef * sq[h] = Raised
    <3> DEFINE x == sq[h]
    <3>1. x \in Int
      BY <2>2
    <3>2. CASE n % 2 = 1
      <4>1. r * (b * x) = Raised
        BY <1>1, <1>2, <2>2, <3>2
      <4> HIDE DEF r, b, x
      <4>2. (r * b) * x = r * (b * x)
        BY <1>1, <3>1
      <4> QED
        BY <2>4, <3>2, <4>1, <4>2 DEF x
    <3>3. CASE n % 2 = 0
      BY <1>1, <1>2, <2>2, <2>4, <3>3
    <3> QED
      BY <1>2, <3>2, <3>3
  <2> HIDE DEF h, p
  <2>6. h = 0 => result'.coef = Raised
    BY <2>2, <2>4, <2>5
  <2>7. Powers(base'.coef * base'.coef)[n'] = sq[h]
    BY <2>1
  <2> QED
    BY <1>1, <2>1, <2>3, <2>4, <2>5, <2>6, <2>7 DEF ValueInv
<1> QED
  BY <1>3, <1>4

\* The base is squared once what is left of the exponent is halved.
LEMMA ValueSquare == IInv /\ ValueInv /\ Square => ValueInv'
<1> SUFFICES ASSUME IInv, ValueInv, Square PROVE ValueInv'
  OBVIOUS
<1>1. CASE Return(Fail("ErrInvalidScale"))
  BY <1>1, ValueReturn
<1>2. CASE ~Return(Fail("ErrInvalidScale"))
  <2>1. /\ pc = "square" /\ pc' = "multiply" /\ base' = Mul(base, base)
        /\ result' = result /\ n' = n /\ d' = d /\ exponent' = exponent
    BY <1>2 DEF Square
  <2>2. /\ base.coef \in Int /\ base'.coef = base.coef * base.coef
        /\ result = Dec(result.coef, result.scale) /\ result.coef \in Int
        /\ result.coef * Powers(base.coef * base.coef)[n] = Raised
    BY <2>1 DEF ValueInv, Mul, Dec
  <2>3. Raised' = Raised
    BY <2>1 DEF Raised
  <2>4. Powers(base'.coef)[n'] = Powers(base.coef * base.coef)[n] /\ base'.coef \in Int
    BY <2>1, <2>2
  <2> QED
    BY <2>1, <2>2, <2>3, <2>4 DEF ValueInv
<1> QED
  BY <1>1, <1>2

\* Every step keeps the invariant on values.
LEMMA ValueStep == IInv /\ ValueInv /\ [Next]_vars => ValueInv'
<1> SUFFICES ASSUME IInv, ValueInv, [Next]_vars PROVE ValueInv'
  OBVIOUS
<1>1. CASE UNCHANGED vars
  BY <1>1 DEF vars, ValueInv, Raised
<1>2. CASE CheckInt
  BY <1>2, ValueStart DEF CheckInt
<1>3. CASE CheckArguments
  BY <1>3, ValueStart, ValueReturn DEF CheckArguments
<1>4. CASE Round
  BY <1>4, ValueReturn DEF Round
<1> QED
  BY <1>1, <1>2, <1>3, <1>4, ValueMultiply, ValueSquare DEF Next

-----------------------------------------------------------------------------
(* The answer of Pow. *)

\* Rescale rounds the number to the scale asked for, once.
LEMMA RescaleRounds ==
    ASSUME NEW c \in Int, NEW from \in 0 .. MaxScale, NEW s \in Scales, NEW m \in Modes,
           Rescale(Dec(c, from), s, m).err = "nil"
    PROVE  LET answer == Rescale(Dec(c, from), s, m)
           IN  answer.val.scale = s /\ IsRounded(answer.val.coef, c * Pow10[s], Pow10[from], m)
<1>1. s \in Int /\ s <= MaxScale /\ MaxScale \in Nat
  BY InputAssumption, MaxScaleAssumption
<1>2. s >= 0 /\ m \in RoundingModes
  <2>1. CASE s < 0
    BY <2>1 DEF Rescale, Fail
  <2>2. CASE m \notin RoundingModes
    BY <2>2 DEF Rescale, Fail
  <2> QED
    BY <1>1, <2>1, <2>2
<1> DEFINE w == 2 * MaxScale
           k == IF s >= from THEN c * Pow10[s - from] ELSE RoundQuotient(c, Pow10[from - s], m)
<1>3. Rescale(Dec(c, from), s, m) = Ok(Dec(k, s))
  <2> DEFINE x == Dec(c, from)
  <2>1. x.coef = c /\ x.scale = from
    BY DEF Dec
  <2> SUFFICES Rescale(x, s, m) = Ok(Dec(k, s))
    OBVIOUS
  <2> HIDE DEF x
  <2>2. ~(s < 0)
    BY <1>1, <1>2
  <2>3. CASE s >= from
    BY <1>2, <2>1, <2>2, <2>3 DEF Rescale
  <2>4. CASE ~(s >= from)
    BY <1>2, <2>1, <2>2, <2>4 DEF Rescale
  <2> QED
    BY <2>3, <2>4
<1>4. w \in Nat /\ PowersOfTen(Pow10, w) /\ from \in 0 .. w /\ s \in 0 .. w
  BY <1>1, <1>2, Pow10Assumption
<1> HIDE DEF w
<1>5. IsRounded(k, c * Pow10[s], Pow10[from], m)
  BY <1>2, <1>4, ShiftIsRounded
<1> HIDE DEF k
<1> QED
  BY <1>3, <1>5 DEF Ok, Dec

\* One divided by a number is its inverse, rounded to the scale asked for, once.
LEMMA InverseRounds ==
    ASSUME NEW c \in Int, NEW by \in 0 .. MaxScale, NEW s \in Scales, NEW m \in Modes,
           Div(One, Dec(c, by), s, m).err = "nil"
    PROVE  LET answer == Div(One, Dec(c, by), s, m)
           IN  answer.val.scale = s /\ IsRounded(answer.val.coef, Pow10[by] * Pow10[s], c, m)
<1>1. s \in Int /\ s <= MaxScale /\ MaxScale \in Nat
  BY InputAssumption, MaxScaleAssumption
<1>2. s >= 0 /\ m \in RoundingModes /\ c # 0
  <2>1. CASE c = 0
    BY <2>1 DEF Div, Fail, IsZero, Dec
  <2>2. CASE s < 0
    BY <2>2 DEF Div, Fail
  <2>3. CASE m \notin RoundingModes
    BY <2>3 DEF Div, Fail
  <2> QED
    BY <1>1, <2>1, <2>2, <2>3
<1> DEFINE w == 2 * MaxScale
           e == by + s - 0
           num == 1 * (IF e >= 0 THEN Pow10[e] ELSE 1)
           den == c * (IF e >= 0 THEN 1 ELSE Pow10[-e])
           k == RoundQuotient(num, den, m)
<1>3. Div(One, Dec(c, by), s, m) = Ok(Dec(k, s))
  <2> DEFINE x == Dec(c, by)
  <2>1. x.coef = c /\ x.scale = by /\ One.coef = 1 /\ One.scale = 0
    BY DEF Dec, One
  <2> HIDE DEF x
  <2>2. ~(s < 0) /\ ~IsZero(x)
    BY <1>1, <1>2, <2>1 DEF IsZero
  <2>3. Numerator(One, x, s) = num /\ Denominator(One, x, s) = den
    BY <2>1 DEF Numerator, Denominator
  <2> HIDE DEF num, den
  <2>4. Div(One, x, s, m) = Ok(Dec(k, s))
    BY <1>2, <2>2, <2>3 DEF Div
  <2> QED
    BY <2>4 DEF x
<1>4. w \in Nat /\ PowersOfTen(Pow10, w) /\ 0 \in 0 .. w /\ by \in Nat /\ s \in Nat /\ by + s <= w
  BY <1>1, <1>2, Pow10Assumption
<1> HIDE DEF w
<1>5. IsRounded(k, (1 * Pow10[by]) * Pow10[s], Pow10[0] * c, m)
  <2>1. c \in Int \ {0} /\ 1 \in Int
    BY <1>2
  <2> QED
    BY <1>2, <1>4, <2>1, ShiftedQuotientIsRounded
<1>6. 1 * Pow10[by] = Pow10[by] /\ Pow10[0] * c = c
  BY <1>4 DEF PowersOfTen
<1> HIDE DEF k
<1> QED
  BY <1>3, <1>5, <1>6 DEF Ok, Dec

\* What RoundedOnce says of an answer of Pow
AnswersPower(answer) ==
    answer.err = "nil" =>
        /\ answer.val.scale = scale
        /\ IsRounded(answer.val.coef,
                     (IF Integral < 0 THEN Pow10[d.scale * exponent] ELSE Raised) * Pow10[scale],
                     IF Integral < 0 THEN Raised ELSE Pow10[d.scale * exponent], mode)

\* Returning such an answer, or any answer of PowInt, keeps RoundedOnce.
LEMMA RoundedReturn ==
    ASSUME NEW answer, Return(answer), intOnly \/ AnswersPower(answer)
    PROVE  RoundedOnce'
<1>1. /\ err' = answer.err /\ result' = answer.val
      /\ UNCHANGED <<d, exp, scale, mode, intOnly, exponent>>
  BY DEF Return
<1>2. Raised' = Raised /\ Integral' = Integral
  BY <1>1 DEF Raised, Integral
<1>3. CASE intOnly
  BY <1>1, <1>3 DEF RoundedOnce
<1>4. CASE AnswersPower(answer)
  BY <1>1, <1>2, <1>4 DEF RoundedOnce, AnswersPower
<1> QED
  BY <1>3, <1>4

\* A step that does not return leaves RoundedOnce to a later one.
LEMMA RoundedGoOn == pc' # "done" => RoundedOnce'
BY DEF RoundedOnce

\* Pow with a zero exponent rounds one, which is the power.
LEMMA RoundedCheck == IInv /\ ValueInv /\ CheckArguments => RoundedOnce'
<1> SUFFICES ASSUME IInv, ValueInv, CheckArguments PROVE RoundedOnce'
  OBVIOUS
<1>1. CASE StartLoop
  BY <1>1, RoundedGoOn DEF StartLoop
<1>2. ASSUME NEW e \in {"ErrInvalidScale", "ErrInexact", "ErrOverflow", "ErrInvalidRoundingMode"},
             Return(Fail(e))
      PROVE  RoundedOnce'
  BY <1>2, RoundedReturn DEF AnswersPower, Fail
<1>3. CASE Integral = 0 /\ Return(Rescale(One, scale, mode))
  <2>1. /\ scale \in Scales /\ mode \in Modes /\ exponent = 0 /\ MaxScale \in Nat
        /\ d.coef \in Int /\ d.scale \in Nat
    BY InputAssumption, MaxScaleAssumption DEF IInv, TypeOK, ValueInv, CheckArguments
  <2>2. Raised = 1 /\ d.scale * exponent = 0 /\ ~(Integral < 0)
    <3>1. Powers(d.coef)[0] = 1
      BY <2>1, PowersStep
    <3>2. Raised = Powers(d.coef)[0]
      BY <2>1 DEF Raised
    <3>3. ~(Integral < 0)
      <4> DEFINE k == Integral
      <4>1. k = 0
        BY <1>3
      <4> HIDE DEF k
      <4>2. ~(k < 0)
        BY <4>1
      <4> QED
        BY <4>2 DEF k
    <3> QED
      BY <2>1, <3>1, <3>2, <3>3
  <2>3. AnswersPower(Rescale(One, scale, mode))
    <3>1. 1 \in Int /\ 0 \in 0 .. MaxScale
      BY <2>1
    <3> QED
      BY <2>1, <2>2, <3>1, RescaleRounds DEF AnswersPower, One
  <2> QED
    BY <1>3, <2>3, RoundedReturn
<1> QED
  BY <1>1, <1>2, <1>3 DEF CheckArguments

\* The loop ended with the exact power, so what is rounded is the power, or its inverse.
LEMMA RoundedRound == IInv /\ ValueInv /\ Round => RoundedOnce'
<1> SUFFICES ASSUME IInv, ValueInv, Round PROVE RoundedOnce'
  OBVIOUS
<1>1. /\ scale \in Scales /\ mode \in Modes /\ result.coef \in Int /\ result.scale \in 0 .. MaxScale
      /\ result = Dec(result.coef, result.scale)
      /\ result.coef = Raised /\ result.scale = d.scale * exponent
  BY DEF IInv, TypeOK, ScaleInv, ValueInv, Round
<1>2. CASE intOnly /\ Return(Ok(result))
  BY <1>2, RoundedReturn
<1>3. CASE Integral > 0 /\ Return(Rescale(result, scale, mode))
  <2>1. ~(Integral < 0)
    BY <1>3, MagnifiedType DEF IInv, TypeOK
  <2>2. AnswersPower(Rescale(result, scale, mode))
    BY <1>1, <2>1, RescaleRounds DEF AnswersPower
  <2> QED
    BY <1>3, <2>2, RoundedReturn
<1>4. CASE Integral < 0 /\ Return(Div(One, result, scale, mode))
  <2>1. AnswersPower(Div(One, result, scale, mode))
    BY <1>1, <1>4, InverseRounds DEF AnswersPower
  <2> QED
    BY <1>4, <2>1, RoundedReturn
<1> QED
  BY <1>2, <1>3, <1>4 DEF Round

\* Every step keeps RoundedOnce.
LEMMA RoundedStep == IInv /\ ValueInv /\ RoundedOnce /\ [Next]_vars => RoundedOnce'
<1> SUFFICES ASSUME IInv, ValueInv, RoundedOnce, [Next]_vars PROVE RoundedOnce'
  OBVIOUS
<1>1. CASE UNCHANGED vars
  BY <1>1 DEF vars, RoundedOnce, Raised, Integral
<1>2. CASE CheckInt
  BY <1>2, RoundedGoOn DEF CheckInt, StartLoop
<1>3. ASSUME Return(Fail("ErrInvalidScale")) PROVE RoundedOnce'
  BY <1>3, RoundedReturn DEF AnswersPower, Fail
<1>4. CASE Multiply
  BY <1>3, <1>4, RoundedGoOn DEF Multiply
<1>5. CASE Square
  BY <1>3, <1>5, RoundedGoOn DEF Square
<1> QED
  BY <1>1, <1>2, <1>4, <1>5, RoundedCheck, RoundedRound DEF Next

-----------------------------------------------------------------------------
(* The theorems. *)

\* Spec => []TypeOK.  Whatever the base, the exponent and the width of a scale, no
\* product of PowInt's loop wraps its scale.
THEOREM TypeCorrect == Spec => []TypeOK
<1>1. IInv => TypeOK
  BY DEF IInv
<1> QED
  BY <1>1, InvInit, InvStep, PTL DEF Spec

\* Spec => []ScaleInv.  The scales of the two factors add up to that of the power
\* at every iteration.
THEOREM AlwaysScaleInv == Spec => []ScaleInv
<1>1. IInv => ScaleInv
  BY DEF IInv
<1> QED
  BY <1>1, InvInit, InvStep, PTL DEF Spec

\* Spec => []RefusedOnlyWhenTooWide.  PowInt and Pow refuse for the scale only a
\* power that no Decimal can hold, never one whose squares alone are too wide.
THEOREM RefusedOnlyWhenNecessary == Spec => []RefusedOnlyWhenTooWide
<1>1. IInv => RefusedOnlyWhenTooWide
  BY DEF IInv
<1> QED
  BY <1>1, InvInit, InvStep, PTL DEF Spec

\* Spec => []ValueInv.  What the loop has multiplied, and what the base will still
\* contribute, is the exact power at every iteration.
THEOREM AlwaysValueInv == Spec => []ValueInv
BY InvInit, InvStep, ValueInit, ValueStep, PTL DEF Spec

\* Spec => []PowerIsExact.  PowInt's repeated squaring ends with the exact power, in
\* the value and in the scale, for every base and exponent.
THEOREM AlwaysExact == Spec => []PowerIsExact
<1>1. ScaleInv /\ ValueInv => PowerIsExact
  BY DEF ScaleInv, ValueInv, PowerIsExact
<1> QED
  BY <1>1, AlwaysScaleInv, AlwaysValueInv, PTL

\* Spec => []RoundedOnce.  Pow rounds the exact power, or the exact inverse of it, and
\* nothing before it.
THEOREM AlwaysRoundedOnce == Spec => []RoundedOnce
<1>1. Init => RoundedOnce
  BY DEF Init, RoundedOnce
<1> QED
  BY <1>1, InvInit, InvStep, ValueInit, ValueStep, RoundedStep, PTL DEF Spec
=============================================================================
