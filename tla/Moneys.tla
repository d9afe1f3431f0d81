------------------------------- MODULE Moneys -------------------------------
(***************************************************************************)
(* Money (money.go), a Decimal with a currency, and the two policies that  *)
(* round for it: Context (context.go) over Decimal and MoneyContext        *)
(* (money_context.go) over Money.  Their methods are a guard, the Decimal  *)
(* computation behind it, and for money the currency of the result.        *)
(***************************************************************************)
EXTENDS Decimals, Sequences

CONSTANTS
    Currencies,   \* normalized currency codes
    NormalCode,   \* NormalizeCurrency: a code by input, NoCurrency for ErrInvalidCurrency
    NoCurrency,   \* the currency of the zero Money, the empty string
    MaxInt64      \* 2^63 - 1 in the code, small here

\* A normalized code is its own normal form
ASSUME MoneyAssumption ==
    /\ NoCurrency \notin Currencies /\ MaxInt64 \in Nat
    /\ \A c \in DOMAIN NormalCode : NormalCode[c] \in Currencies \cup {NoCurrency}
    /\ \A c \in Currencies : c \in DOMAIN NormalCode /\ NormalCode[c] = c

Money(amount, currency) == [amount |-> amount, currency |-> currency]
NoMoney == Money(ZeroValue, NoCurrency)

-----------------------------------------------------------------------------
(* Guards: the name of an error, "nil" to go on. *)

Check(ok, err) == IF ok THEN "nil" ELSE err
FirstError(e, f) == IF e # "nil" THEN e ELSE f
FirstOf(errs) == IF \A k \in DOMAIN errs : errs[k] = "nil" THEN "nil"
                 ELSE errs[Min({k \in DOMAIN errs : errs[k] # "nil"})]

ValidCurrency(m) == Check(m.currency \in Currencies, "ErrInvalidCurrency")

SameCurrency(m, other) ==
    FirstOf(<<ValidCurrency(m), ValidCurrency(other),
              Check(m.currency = other.currency, "ErrCurrencyMismatch")>>)

\* Context.validate, the numeric half of MoneyContext.validate
ContextError(c) == FirstError(Check(c.scale >= 0, "ErrInvalidScale"),
                              Check(c.rounding \in RoundingModes, "ErrInvalidRoundingMode"))
MoneyContextError(c) == FirstError(ValidCurrency(c), ContextError(c))

\* MoneyContext.sameCurrency
InContextError(c, m) ==
    FirstOf(<<MoneyContextError(c), ValidCurrency(m),
              Check(c.currency = m.currency, "ErrCurrencyMismatch")>>)

Guarded(e, answer) == IF e = "nil" THEN answer ELSE Fail(e)
Then(answer, F(_)) == IF answer.err = "nil" THEN F(answer.val) ELSE answer

\* The Decimal answer as an amount of money
Attach(answer, currency) ==
    [val |-> IF answer.err = "nil" THEN Money(answer.val, currency) ELSE NoMoney,
     err |-> answer.err]

-----------------------------------------------------------------------------
(* Context: the computation behind the guard, on Decimals *)

Quantize(c, d)      == Rescale(d, c.scale, c.rounding)
QuantizeExact(c, d) == RescaleExact(d, c.scale)

\* Mutant: the operands are rounded before they are added
CtxAddRounded(c, a, b) ==
    Then(Quantize(c, a), LAMBDA x : Then(Quantize(c, b), LAMBDA y : Ok(Add(x, y))))

CtxAdd(c, a, b)      == Quantize(c, Add(a, b))
CtxAddExact(c, a, b) == QuantizeExact(c, Add(a, b))
CtxSub(c, a, b)      == Quantize(c, Sub(a, b))
CtxSubExact(c, a, b) == QuantizeExact(c, Sub(a, b))
CtxMul(c, a, b)      == Quantize(c, Mul(a, b))
CtxMulExact(c, a, b) == QuantizeExact(c, Mul(a, b))
CtxDiv(c, a, b)      == Div(a, b, c.scale, c.rounding)
CtxDivExact(c, a, b) == Then(DivExact(a, b), LAMBDA q : QuantizeExact(c, q))
CtxQuantizeStep(c, d, step) ==
    Then(QuantizeStep(d, step, c.rounding), LAMBDA q : Quantize(c, q))
CtxQuantizeStepExact(c, d, step) ==
    Then(QuantizeStepExact(d, step), LAMBDA q : QuantizeExact(c, q))

-----------------------------------------------------------------------------
(* Money *)

NewMoney(amount, input) ==
    Attach(Guarded(Check(NormalCode[input] # NoCurrency, "ErrInvalidCurrency"), Ok(amount)),
           NormalCode[input])

MoneyNeg(m) == Money(Neg(m.amount), m.currency)
MoneyAbs(m) == Money(Abs(m.amount), m.currency)
MoneyEqual(m, other) == m.currency = other.currency /\ Cmp(m.amount, other.amount) = 0

\* A method with one money operand, and one with two
Unary(m, answer)         == Attach(Guarded(ValidCurrency(m), answer), m.currency)
Binary(m, other, answer) == Attach(Guarded(SameCurrency(m, other), answer), m.currency)

MoneyAdd(m, other) == Binary(m, other, Ok(Add(m.amount, other.amount)))
MoneySub(m, other) == Binary(m, other, Ok(Sub(m.amount, other.amount)))
MoneyMul(m, factor, scale, mode)  == Unary(m, Rescale(Mul(m.amount, factor), scale, mode))
MoneyDiv(m, divisor, scale, mode) == Unary(m, Div(m.amount, divisor, scale, mode))

\* Mutant: the currency of the receiver is not checked
MoneyRoundUnguarded(m, scale, mode) == Attach(Rescale(m.amount, scale, mode), m.currency)

MoneyRound(m, scale, mode)        == Unary(m, Rescale(m.amount, scale, mode))
MoneyRoundExact(m, scale)         == Unary(m, RescaleExact(m.amount, scale))
MoneyQuantizeStep(m, step, mode)  == Unary(m, QuantizeStep(m.amount, step, mode))
MoneyQuantizeStepExact(m, step)   == Unary(m, QuantizeStepExact(m.amount, step))

RangeError(m, a, b) == FirstError(SameCurrency(m, a), SameCurrency(m, b))
MoneyBetween(m, a, b, inclusive) ==
    LET e == RangeError(m, a, b)
    IN  [val |-> e = "nil" /\ Between(m.amount, a.amount, b.amount, inclusive), err |-> e]
MoneyClamp(m, a, b) ==
    Attach(Guarded(RangeError(m, a, b), Ok(Clamp(m.amount, a.amount, b.amount))), m.currency)

\* The first of the smallest (sign 1) or of the largest (sign -1) decimals
Extreme(ds, sign) ==
    ds[CHOOSE k \in DOMAIN ds :
         \A j \in DOMAIN ds : IF j < k THEN sign * Cmp(ds[j], ds[k]) > 0
                                       ELSE sign * Cmp(ds[j], ds[k]) >= 0]

ExtremeMoney(values, sign) ==
    IF values = <<>> THEN Attach(Fail("ErrEmptyInput"), NoCurrency)
    ELSE LET guards  == [k \in DOMAIN values |-> SameCurrency(values[1], values[k])]
             amounts == [k \in DOMAIN values |-> values[k].amount]
         IN  Attach(Guarded(FirstOf(guards), Ok(Extreme(amounts, sign))), values[1].currency)
MinMoney(values) == ExtremeMoney(values, 1)
MaxMoney(values) == ExtremeMoney(values, -1)

-----------------------------------------------------------------------------
(* Minor units *)

NewFromMinorUnits(units, scale) == New(units, scale)
NewMoneyFromMinorUnits(units, scale, input) ==
    LET amount == NewFromMinorUnits(units, scale)
    IN  IF amount.err = "nil" THEN NewMoney(amount.val, input) ELSE Attach(amount, NoCurrency)

\* Mutant: the units are cut to 64 bits
Int64UnitsWrapped(answer) ==
    Then(answer, LAMBDA d : Ok(Dec(((d.coef + MaxInt64 + 1) % (2 * (MaxInt64 + 1))) - MaxInt64 - 1, 0)))

\* The coefficient of a rescaled decimal, if it is an int64
Int64Units(answer) ==
    Then(answer, LAMBDA d : IF d.coef \in (-MaxInt64 - 1) .. MaxInt64 THEN Ok(Dec(d.coef, 0))
                            ELSE Fail("ErrOverflow"))
Int64MinorUnits(d, scale, mode)    == Int64Units(Rescale(d, scale, mode))
Int64MinorUnitsExact(d, scale)     == Int64Units(RescaleExact(d, scale))

MoneyInt64MinorUnits(m, scale, mode) == Guarded(ValidCurrency(m), Int64MinorUnits(m.amount, scale, mode))
MoneyInt64MinorUnitsExact(m, scale)  == Guarded(ValidCurrency(m), Int64MinorUnitsExact(m.amount, scale))

-----------------------------------------------------------------------------
(* MoneyContext *)

\* A method with one money operand, and one with two
InContext(c, m, answer) == Attach(Guarded(InContextError(c, m), answer), c.currency)
InContext2(c, m, other, answer) ==
    Attach(Guarded(FirstError(InContextError(c, m), InContextError(c, other)), answer), c.currency)

CtxMoney(c, d)      == Attach(Guarded(MoneyContextError(c), Quantize(c, d)), c.currency)
CtxMoneyExact(c, d) == Attach(Guarded(MoneyContextError(c), QuantizeExact(c, d)), c.currency)
CtxFromMinorUnits(c, units) ==
    Attach(Guarded(MoneyContextError(c), NewFromMinorUnits(units, c.scale)), c.currency)
CtxInt64MinorUnits(c, m) ==
    Guarded(InContextError(c, m), Int64MinorUnits(m.amount, c.scale, c.rounding))
CtxInt64MinorUnitsExact(c, m) ==
    Guarded(InContextError(c, m), Int64MinorUnitsExact(m.amount, c.scale))

CtxQuantize(c, m) == InContext(c, m, Quantize(c, m.amount))

\* Min, Max, Between and Clamp compare quantized values
AllQuantized(c, values) == [k \in DOMAIN values |-> CtxQuantize(c, values[k])]
AnyError(answers) == FirstOf([k \in DOMAIN answers |-> answers[k].err])
Amounts(answers)  == [k \in DOMAIN answers |-> answers[k].val.amount]

\* Mutant: the first value is not quantized
CtxExtremeFirstKept(c, values, sign) ==
    IF values = <<>> THEN Attach(Fail("ErrEmptyInput"), NoCurrency)
    ELSE LET qs == [AllQuantized(c, values) EXCEPT ![1].val.amount = values[1].amount]
         IN  Attach(Guarded(AnyError(qs), Ok(Extreme(Amounts(qs), sign))), c.currency)

CtxExtreme(c, values, sign) ==
    IF values = <<>> THEN Attach(Fail("ErrEmptyInput"), NoCurrency)
    ELSE LET qs == AllQuantized(c, values)
         IN  Attach(Guarded(AnyError(qs), Ok(Extreme(Amounts(qs), sign))), c.currency)
CtxMin(c, values) == CtxExtreme(c, values, 1)
CtxMax(c, values) == CtxExtreme(c, values, -1)

CtxClamp(c, m, a, b) ==
    LET qs == AllQuantized(c, <<m, a, b>>)
        ds == Amounts(qs)
    IN  Attach(Guarded(AnyError(qs), Ok(Clamp(ds[1], ds[2], ds[3]))), c.currency)

CtxBetween(c, m, a, b, inclusive) ==
    LET qs == AllQuantized(c, <<m, a, b>>)
        ds == Amounts(qs)
        e  == AnyError(qs)
    IN  [val |-> e = "nil" /\ Between(ds[1], ds[2], ds[3], inclusive), err |-> e]
=============================================================================
