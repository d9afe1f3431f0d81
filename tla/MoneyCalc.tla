----------------------------- MODULE MoneyCalc -----------------------------
(***************************************************************************)
(* A caller of Money, of Context and of MoneyContext: it holds a Decimal   *)
(* or a Money, prices a Decimal in a currency, takes the amount of a Money *)
(* back, and makes any sequence of calls on the value the last successful  *)
(* call returned, directly or through a policy that rounds the result.     *)
(***************************************************************************)
EXTENDS Moneys

CONSTANTS
    Numbers,   \* decimals the caller loads and passes as arguments
    Contexts,  \* policies: a currency, a scale and a mode, invalid ones included
    MaxAmount  \* bound: no further call on a value with a larger coefficient

\* What the caller holds carries a currency, none (the zero Money), or is a Decimal
Bare == "Decimal"

ASSUME NumbersAssumption ==
    /\ Bare \notin Currencies \cup {NoCurrency}
    /\ \A d \in Numbers : d.coef \in Int /\ d.scale \in 0 .. MaxScale
    /\ \A c \in Contexts : c.scale \in Int /\ c.scale <= MaxScale

VARIABLES
    held,      \* the value the caller holds
    pending,   \* the pending call, or Idle
    failure    \* error of the last call

callerVars == <<held, pending, failure>>

Decimals  == [amount : Numbers, currency : {Bare}]
Monies    == [amount : Numbers, currency : Currencies] \cup {NoMoney}
Nothing   == Money(ZeroValue, Bare)
AnyPolicy == [currency |-> NoCurrency, scale |-> 0, rounding |-> "TowardZero"]
Inputs    == [currency : DOMAIN NormalCode, scale : {0}, rounding : {"TowardZero"}]

Idle == [type |-> "none", op |-> "none"]
CallsOf(type, ops, args, contexts) == [type : {type}, op : ops, arg : args, ctx : contexts]

Quantizing == {"Quantize", "QuantizeExact"}
Sums       == {"Add", "AddExact", "Sub", "SubExact"}
Scalings   == {"Mul", "MulExact", "Div", "DivExact", "QuantizeStep", "QuantizeStepExact"}

DecimalCalls ==
         CallsOf("Context", Quantizing, {Nothing}, Contexts)
    \cup CallsOf("Context", Sums \cup Scalings, Decimals, Contexts)
    \cup CallsOf("Pricing", Quantizing, {Nothing}, Contexts)
    \cup CallsOf("Pricing", {"NewMoney"}, {Nothing}, Inputs)
MoneyCalls ==
         CallsOf("MoneyContext", Quantizing, {Nothing}, Contexts)
    \cup CallsOf("MoneyContext", Sums, Monies, Contexts)
    \cup CallsOf("MoneyContext", Scalings, Decimals, Contexts)
    \cup CallsOf("Money", {"Neg", "Abs", "Amount"}, {Nothing}, {AnyPolicy})
    \cup CallsOf("Money", {"Add", "Sub"}, Monies, {AnyPolicy})
    \cup CallsOf("Money", {"QuantizeStepExact"}, Decimals, {AnyPolicy})
    \cup CallsOf("Money", {"Mul", "Div", "QuantizeStep"}, Decimals, Contexts)
    \cup CallsOf("Money", {"Round", "RoundExact"}, {Nothing}, Contexts)
CallerCalls == DecimalCalls \cup MoneyCalls

-----------------------------------------------------------------------------
CallerInit == held \in Decimals \cup Monies /\ pending = Idle /\ failure = "nil"

Take == /\ pending = Idle
        /\ held' \in Decimals \cup Monies
        /\ failure' = "nil"
        /\ UNCHANGED pending

\* Bounds under which the arithmetic is exact, as in DecimalCalc
Computable(c) ==
    /\ c.op \in {"Mul", "MulExact"} => held.amount.scale + c.arg.amount.scale <= MaxScale
    /\ c.op \in {"DivExact", "QuantizeStepExact"} => QuotientFits(held.amount, c.arg.amount)

Ask(c) ==
    /\ pending = Idle
    /\ Magnitude(held.amount.coef) <= MaxAmount /\ Computable(c)
    /\ pending' = c
    /\ failure' = "nil"
    /\ UNCHANGED held

Conclude(type, op, answer) ==
    /\ pending.type = type /\ pending.op = op
    /\ held' = IF answer.err = "nil" THEN answer.val ELSE held
    /\ failure' = answer.err
    /\ pending' = Idle

ctx == pending.ctx
d   == held.amount
arg == pending.arg.amount

\* The three ways to the same computation: behind the validation of a Context, and
\* behind that of a MoneyContext for one and for two amounts of money
ByContext(op, answer) ==
    Conclude("Context", op, Attach(Guarded(ContextError(ctx), answer), Bare))
ByPolicy(op, answer)  == Conclude("MoneyContext", op, InContext(ctx, held, answer))
ByPolicy2(op, answer) == Conclude("MoneyContext", op, InContext2(ctx, held, pending.arg, answer))
ByMoney(op, answer)   == Conclude("Money", op, answer)
Either(op, answer)  == ByContext(op, answer) \/ ByPolicy(op, answer)
Either2(op, answer) == ByContext(op, answer) \/ ByPolicy2(op, answer)

CallNewMoney == Conclude("Pricing", "NewMoney", NewMoney(d, ctx.currency))
CallAmount   == ByMoney("Amount", Attach(Ok(d), Bare))
CallNeg      == ByMoney("Neg", Ok(MoneyNeg(held)))
CallAbs      == ByMoney("Abs", Ok(MoneyAbs(held)))
CallRound      == ByMoney("Round", MoneyRound(held, ctx.scale, ctx.rounding))
CallRoundExact == ByMoney("RoundExact", MoneyRoundExact(held, ctx.scale))

CallQuantize      == \/ Either("Quantize", Quantize(ctx, d))
                     \/ Conclude("Pricing", "Quantize", CtxMoney(ctx, d))
CallQuantizeExact == \/ Either("QuantizeExact", QuantizeExact(ctx, d))
                     \/ Conclude("Pricing", "QuantizeExact", CtxMoneyExact(ctx, d))
CallAdd == Either2("Add", CtxAdd(ctx, d, arg)) \/ ByMoney("Add", MoneyAdd(held, pending.arg))
CallSub == Either2("Sub", CtxSub(ctx, d, arg)) \/ ByMoney("Sub", MoneySub(held, pending.arg))
CallMul == \/ Either("Mul", CtxMul(ctx, d, arg))
           \/ ByMoney("Mul", MoneyMul(held, arg, ctx.scale, ctx.rounding))
CallDiv == \/ Either("Div", CtxDiv(ctx, d, arg))
           \/ ByMoney("Div", MoneyDiv(held, arg, ctx.scale, ctx.rounding))
CallAddExact == Either2("AddExact", CtxAddExact(ctx, d, arg))
CallSubExact == Either2("SubExact", CtxSubExact(ctx, d, arg))
CallMulExact == Either("MulExact", CtxMulExact(ctx, d, arg))
CallDivExact == Either("DivExact", CtxDivExact(ctx, d, arg))
CallQuantizeStep == \/ Either("QuantizeStep", CtxQuantizeStep(ctx, d, arg))
                    \/ ByMoney("QuantizeStep", MoneyQuantizeStep(held, arg, ctx.rounding))
CallQuantizeStepExact ==
    \/ Either("QuantizeStepExact", CtxQuantizeStepExact(ctx, d, arg))
    \/ ByMoney("QuantizeStepExact", MoneyQuantizeStepExact(held, arg))

CallReturns ==
    \/ CallNewMoney \/ CallAmount \/ CallNeg \/ CallAbs \/ CallRound \/ CallRoundExact
    \/ CallQuantize \/ CallQuantizeExact \/ CallAdd \/ CallAddExact \/ CallSub \/ CallSubExact
    \/ CallMul \/ CallMulExact \/ CallDiv \/ CallDivExact \/ CallQuantizeStep \/ CallQuantizeStepExact

CallsOn(m) == IF m.currency = Bare THEN DecimalCalls ELSE MoneyCalls
CallerNext == Take \/ (\E c \in CallsOn(held) : Ask(c)) \/ CallReturns
CallerSpec == CallerInit /\ [][CallerNext]_callerVars

-----------------------------------------------------------------------------
\* A value without a currency is the zero Money and nothing else: no sequence of
\* calls moves an amount out of its currency except Amount, which returns a
\* Decimal.  (money.go, the methods that build Money{amount, currency} themselves)
CallerTypeOK ==
    /\ held.amount.coef \in Int /\ held.amount.scale \in 0 .. MaxScale
    /\ held.currency \in Currencies \cup {Bare} \/ held = NoMoney
    /\ pending \in CallerCalls \cup {Idle}
    /\ failure \in {"nil", "ErrDivisionByZero", "ErrInexact", "ErrInvalidScale",
                    "ErrInvalidRoundingMode", "ErrInvalidCurrency", "ErrCurrencyMismatch"}

\* What a call promises in terms of ExactCalc
PolicyPromise ==
    [Quantize |-> "Rescale", QuantizeExact |-> "RescaleExact", NewMoney |-> "Normalize",
     Add |-> "AddTo", AddExact |-> "AddExact", Sub |-> "SubTo", SubExact |-> "SubExact",
     Mul |-> "MulTo", MulExact |-> "MulExact", Div |-> "Div", DivExact |-> "DivToExact",
     QuantizeStep |-> "StepTo", QuantizeStepExact |-> "StepToExact"]
MoneyPromise ==
    [Neg |-> "Neg", Abs |-> "Abs", Amount |-> "Normalize", Add |-> "Add", Sub |-> "Sub",
     Mul |-> "MulTo", Div |-> "Div", Round |-> "Rescale", RoundExact |-> "RescaleExact",
     QuantizeStep |-> "QuantizeStep", QuantizeStepExact |-> "QuantizeStepExact"]
Promise(c) == IF c.type = "Money" THEN MoneyPromise[c.op] ELSE PolicyPromise[c.op]

\* RoundExact and the exact step of Money have no mode to look at
PromisedMode(c) ==
    IF c.type = "Money" /\ c.op \in {"RoundExact", "QuantizeStepExact"} THEN "TowardZero"
    ELSE c.ctx.rounding

\* The currencies that have a part in a call, and the one its result is due in
Owner(m) == IF m.currency = Bare THEN {} ELSE {m.currency}
Parties(c) ==
    IF c.op = "NewMoney"            THEN {NormalCode[c.ctx.currency]}
    ELSE IF c.type = "Pricing"      THEN {c.ctx.currency}
    ELSE IF c.type = "MoneyContext" THEN {c.ctx.currency, held.currency} \cup Owner(c.arg)
    ELSE IF c.type = "Context" \/ c.op \in {"Neg", "Abs", "Amount"} THEN {}
    ELSE {held.currency} \cup Owner(c.arg)
Into(c) ==
    IF c.op = "NewMoney" THEN NormalCode[c.ctx.currency]
    ELSE IF c.type = "Context" \/ c.op = "Amount" THEN Bare
    ELSE IF c.type \in {"Pricing", "MoneyContext"} THEN c.ctx.currency
    ELSE held.currency

AsPromised ==
    IF pending = Idle THEN [op |-> "none"]
    ELSE [op |-> Promise(pending), arg |-> AsFraction(arg), scale |-> ctx.scale, mode |-> PromisedMode(pending)]
AsTerms ==
    IF pending = Idle THEN [parties |-> {}, into |-> "none"]
    ELSE [parties |-> Parties(pending), into |-> Into(pending)]

Promises == INSTANCE MoneyContract WITH
    val <- AsFraction(d),
    currency <- held.currency,
    call <- AsPromised,
    terms <- AsTerms,
    err <- failure,
    Codes <- Currencies,
    Others <- {NoCurrency, Bare} \cup ({c.currency : c \in Contexts} \ Currencies),
    Fits <- LAMBDA units : TRUE,
    WidestScale <- MaxScale

\* Through any chain of calls, currencies and policies: a value that has two
\* currencies in its history was returned by no call, a policy rounds the exact
\* result once, not its operands, and an exact form is refused exactly when a digit
\* would be lost.  (money.go, money_context.go, context.go)
RefinesMoneyContract == Promises!MoneySpec

ValidPolicy(c) == MoneyContextError(c) = "nil"
Same(m)  == {n \in Monies : n.currency = m.currency}

\* Quantizing first, as the range methods of MoneyContext do, and quantizing the
\* answer of the plain method give one value, for bounds in either order: no
\* policy ranks two amounts the other way round.  A value lies between two bounds
\* under a policy exactly when clamping leaves it where it is.  (money_context.go
\* Min, Max, Between, Clamp; money.go MinMoney, MaxMoney, Clamp)
RangesQuantizeFirst ==
    pending = Idle /\ held.currency \in Currencies =>
    \A c \in {c \in Contexts : ValidPolicy(c) /\ c.currency = held.currency} : \A a, b \in Same(held) :
        LET clamped == CtxClamp(c, held, a, b)
        IN  /\ CtxMin(c, <<held, a, b>>) = CtxQuantize(c, MinMoney(<<held, a, b>>).val)
            /\ CtxMax(c, <<held, a, b>>) = CtxQuantize(c, MaxMoney(<<held, a, b>>).val)
            /\ clamped = CtxQuantize(c, MoneyClamp(held, a, b).val)
            /\ CtxBetween(c, held, a, b, TRUE).val <=> (clamped = CtxQuantize(c, held))
            /\ MoneyBetween(held, a, b, TRUE).val <=> MoneyEqual(MoneyClamp(held, a, b).val, held)

\* Minor units read back as money are the quantized money, through a policy or not,
\* and are refused only when the quantized amount needs more than 64 bits: the
\* exact form returns the same units or none.  (minor.go; money_context.go
\* FromMinorUnits, Int64MinorUnits)
UnitsRoundTrip ==
    pending = Idle /\ held.currency \in Currencies =>
    \A c \in {c \in Contexts : ValidPolicy(c) /\ c.currency = held.currency} :
        LET q     == CtxQuantize(c, held)
            units == CtxInt64MinorUnits(c, held)
            exact == CtxInt64MinorUnitsExact(c, held)
        IN  /\ units.err = IF q.val.amount.coef \in -MaxInt64 - 1 .. MaxInt64 THEN "nil" ELSE "ErrOverflow"
            /\ units.err = "nil" =>
                 /\ CtxFromMinorUnits(c, units.val.coef) = q
                 /\ NewMoneyFromMinorUnits(units.val.coef, c.scale, held.currency) = q
            /\ units = MoneyInt64MinorUnits(held, c.scale, c.rounding)
            /\ exact = IF MoneyEqual(q.val, held) THEN units ELSE Fail("ErrInexact")
            /\ exact = MoneyInt64MinorUnitsExact(held, c.scale)
=============================================================================
