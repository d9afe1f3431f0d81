---------------------------- MODULE MoneyProofs ----------------------------
(***************************************************************************)
(* Programs with money in them.                                            *)
(*                                                                         *)
(* Chains of calls on Decimal, Money, Context and MoneyContext, whatever   *)
(* the numbers, the currencies and the policies.  First the currencies: a  *)
(* call succeeds only when all that have a part in it are of one valid     *)
(* currency, and its result is of the currency it is due in; arithmetic    *)
(* has no part in that.  Then the numbers: each call returns what exact    *)
(* fractions promise, so that the chain implements MoneyContract, minor    *)
(* units read back, and ranges of quantized amounts are quantized ranges.  *)
(*                                                                         *)
(* Receivers, for every set of values and of foreign data, and for every   *)
(* limit: what is decoded is a value of its type, a nullable value holds   *)
(* what the plain one would or nothing, and what is written reads back.    *)
(***************************************************************************)
EXTENDS MoneyCalc, Receivers, DecimalProofs, FiniteSetTheorems

-----------------------------------------------------------------------------
(* The guards *)

\* The first error of three
LEMMA FirstOfThree ==
    ASSUME NEW errs, DOMAIN errs = {1, 2, 3}
    PROVE  FirstOf(errs) = IF errs[1] # "nil" THEN errs[1] ELSE IF errs[2] # "nil" THEN errs[2] ELSE errs[3]
<1> DEFINE S == {k \in DOMAIN errs : errs[k] # "nil"}
<1>1. S \subseteq {1, 2, 3} /\ \A k \in {1, 2, 3} : k \in S <=> errs[k] # "nil"
  OBVIOUS
<1>2. CASE S = {}
  <2>1. \A k \in DOMAIN errs : errs[k] = "nil"
    BY <1>2
  <2>2. FirstOf(errs) = "nil"
    BY <2>1 DEF FirstOf
  <2> QED
    BY <2>1, <2>2
<1>3. CASE S # {}
  <2>1. FirstOf(errs) = errs[Min(S)]
    BY <1>3 DEF FirstOf
  <2> DEFINE k == IF 1 \in S THEN 1 ELSE IF 2 \in S THEN 2 ELSE 3
  <2> HIDE DEF S
  <2>2. \A i \in S : i \in {1, 2, 3}
    BY <1>1
  <2>3. k \in S /\ \A j \in S : k <= j
    <3>1. CASE 1 \in S
      BY <2>2, <3>1
    <3>2. CASE 1 \notin S /\ 2 \in S
      BY <2>2, <3>2
    <3>3. CASE 1 \notin S /\ 2 \notin S
      <4>1. PICK i \in S : TRUE
        BY <1>3
      <4>2. \A j \in S : j = 3
        BY <2>2, <3>3
      <4> QED
        BY <3>3, <4>1, <4>2
    <3> QED
      BY <3>1, <3>2, <3>3
  <2>4. Min(S) = k
    <3>1. \A i \in S : (\A j \in S : i <= j) => i = k
      BY <2>2, <2>3
    <3> QED
      BY <2>2, <3>1 DEF Min
  <2>5. FirstOf(errs) = errs[k]
    BY <2>1, <2>4
  <2> QED
    BY <1>1, <1>3, <2>5
<1> QED
  BY <1>2, <1>3

LEMMA FirstOfTuple ==
    ASSUME NEW e1, NEW e2, NEW e3
    PROVE  FirstOf(<<e1, e2, e3>>) = IF e1 # "nil" THEN e1 ELSE IF e2 # "nil" THEN e2 ELSE e3
<1> DEFINE errs == <<e1, e2, e3>>
<1>1. DOMAIN errs = {1, 2, 3} /\ errs[1] = e1 /\ errs[2] = e2 /\ errs[3] = e3
  OBVIOUS
<1> HIDE DEF errs
<1>2. FirstOf(errs) = IF errs[1] # "nil" THEN errs[1] ELSE IF errs[2] # "nil" THEN errs[2] ELSE errs[3]
  BY <1>1, FirstOfThree
<1> QED
  BY <1>1, <1>2 DEF errs

\* One amount is in a valid currency, two are in the same
LEMMA SameCurrencyIs ==
    ASSUME NEW m, NEW other
    PROVE  SameCurrency(m, other)
             = IF m.currency \notin Currencies \/ other.currency \notin Currencies THEN "ErrInvalidCurrency"
               ELSE IF m.currency # other.currency THEN "ErrCurrencyMismatch" ELSE "nil"
  BY FirstOfTuple DEF SameCurrency, ValidCurrency, Check

LEMMA ContextErrorIs ==
    ASSUME NEW c
    PROVE  ContextError(c) = IF ~(c.scale >= 0) THEN "ErrInvalidScale"
                             ELSE IF c.rounding \notin RoundingModes THEN "ErrInvalidRoundingMode" ELSE "nil"
  BY DEF ContextError, FirstError, Check

LEMMA MoneyContextErrorIs ==
    ASSUME NEW c
    PROVE  MoneyContextError(c) = IF c.currency \notin Currencies THEN "ErrInvalidCurrency" ELSE ContextError(c)
  BY DEF MoneyContextError, FirstError, ValidCurrency, Check

LEMMA InContextErrorIs ==
    ASSUME NEW c, NEW m
    PROVE  InContextError(c, m)
             = IF c.currency \notin Currencies THEN "ErrInvalidCurrency"
               ELSE IF ContextError(c) # "nil" THEN ContextError(c)
               ELSE IF m.currency \notin Currencies THEN "ErrInvalidCurrency"
               ELSE IF c.currency # m.currency THEN "ErrCurrencyMismatch" ELSE "nil"
  BY FirstOfTuple, MoneyContextErrorIs DEF InContextError, ValidCurrency, Check

-----------------------------------------------------------------------------
(* What a pending call is. *)

Promised == {"Rescale", "RescaleExact", "Normalize", "Neg", "Abs", "Add", "Sub", "AddTo", "AddExact",
             "SubTo", "SubExact", "MulTo", "MulExact", "Div", "DivToExact", "StepTo", "StepToExact",
             "QuantizeStep", "QuantizeStepExact"}

\* What is known of a call by its type
LEMMA CallFacts ==
    ASSUME NEW c \in CallerCalls
    PROVE  /\ c # Idle
           /\ c \in DecimalCalls => c.type \in {"Context", "Pricing"}
           /\ c \in MoneyCalls => c.type \in {"MoneyContext", "Money"}
           /\ c.type = "Context" => c.op \in Quantizing \cup Sums \cup Scalings
           /\ c.type = "Pricing" => c.op \in Quantizing \cup {"NewMoney"}
           /\ c.type = "MoneyContext" => c.op \in Quantizing \cup Sums \cup Scalings
           /\ c.type = "Money" => c.op \in {"Neg", "Abs", "Amount", "Add", "Sub", "QuantizeStepExact", "Mul", "Div",
                                            "QuantizeStep", "Round", "RoundExact"}
           /\ c.op = "NewMoney" => c.ctx.currency \in DOMAIN NormalCode
           /\ c.type \in {"MoneyContext", "Money"} /\ c.op \notin Sums => c.arg.currency = Bare
<1>1. Nothing.currency = Bare
  BY DEF Nothing, Money
<1>2. \A x \in Decimals : x.currency = Bare
  BY DEF Decimals
<1>3. CASE c \in DecimalCalls
  <2>1. c.type \in {"Context", "Pricing"}
    BY <1>3 DEF DecimalCalls, CallsOf
  <2>2. c.type = "Context" => c.op \in Quantizing \cup Sums \cup Scalings
    BY <1>3 DEF DecimalCalls, CallsOf
  <2>3. c.type = "Pricing" => c.op \in Quantizing \cup {"NewMoney"}
    BY <1>3 DEF DecimalCalls, CallsOf
  <2>4. c.op = "NewMoney" => c.ctx.currency \in DOMAIN NormalCode
    BY <1>3 DEF DecimalCalls, CallsOf, Quantizing, Sums, Scalings, Inputs
  <2>5. c \notin MoneyCalls
    BY <2>1 DEF MoneyCalls, CallsOf
  <2> QED
    BY <2>1, <2>2, <2>3, <2>4, <2>5 DEF Idle
<1>4. CASE c \in MoneyCalls
  <2>1. c.type \in {"MoneyContext", "Money"}
    BY <1>4 DEF MoneyCalls, CallsOf
  <2>2. c.op # "NewMoney"
    BY <1>4 DEF MoneyCalls, CallsOf, Quantizing, Sums, Scalings
  <2>3. c.type = "MoneyContext" => c.op \in Quantizing \cup Sums \cup Scalings
    BY <1>4 DEF MoneyCalls, CallsOf
  <2>4. c.type = "Money" => c.op \in {"Neg", "Abs", "Amount", "Add", "Sub", "QuantizeStepExact", "Mul", "Div",
                                      "QuantizeStep", "Round", "RoundExact"}
    BY <1>4 DEF MoneyCalls, CallsOf
  <2>5. c.op \notin Sums => c.arg.currency = Bare
    BY <1>1, <1>2, <1>4 DEF MoneyCalls, CallsOf, Sums
  <2>6. c \notin DecimalCalls
    BY <2>1 DEF DecimalCalls, CallsOf
  <2> QED
    BY <2>1, <2>2, <2>3, <2>4, <2>5, <2>6 DEF Idle
<1> QED
  BY <1>3, <1>4 DEF CallerCalls

LEMMA Loaded == \A m \in Decimals \cup Monies : Valid(m.amount) /\ (m.currency \in Currencies \cup {Bare} \/ m = NoMoney)
<1>1. Valid(ZeroValue)
  BY Table DEF Valid, ZeroValue, Dec
<1>2. \A x \in Numbers : Valid(x)
  BY NumbersAssumption DEF Valid
<1> QED
  BY <1>1, <1>2 DEF Decimals, Monies, NoMoney, Money

\* Its argument is a decimal, and its scale no wider than an int32.
LEMMA CallNumbers ==
    ASSUME NEW c \in CallerCalls
    PROVE  Valid(c.arg.amount) /\ c.ctx.scale \in Int /\ c.ctx.scale <= MaxScale
<1>1. c.arg \in Decimals \cup Monies \cup {Nothing} /\ c.ctx \in Contexts \cup Inputs \cup {AnyPolicy}
  <2>1. CASE c \in DecimalCalls
    BY <2>1 DEF DecimalCalls, CallsOf
  <2>2. CASE c \in MoneyCalls
    BY <2>2 DEF MoneyCalls, CallsOf
  <2> QED
    BY <2>1, <2>2 DEF CallerCalls
<1>2. Valid(c.arg.amount)
  <2>1. Valid(Nothing.amount)
    BY Table DEF Valid, Nothing, Money, ZeroValue, Dec
  <2> QED
    BY <1>1, <2>1, Loaded
<1>3. c.ctx.scale \in Int /\ c.ctx.scale <= MaxScale
  <2>1. \A x \in Inputs \cup {AnyPolicy} : x.scale = 0
    BY DEF Inputs, AnyPolicy
  <2> QED
    BY <1>1, <2>1, Table, NumbersAssumption
<1> QED
  BY <1>2, <1>3

\* The promise of each call
LEMMA PromiseTable ==
    /\ \A c : c.type # "Money" =>
         /\ c.op = "Quantize" => Promise(c) = "Rescale"
         /\ c.op = "QuantizeExact" => Promise(c) = "RescaleExact"
         /\ c.op = "NewMoney" => Promise(c) = "Normalize"
         /\ c.op = "Add" => Promise(c) = "AddTo"
         /\ c.op = "AddExact" => Promise(c) = "AddExact"
         /\ c.op = "Sub" => Promise(c) = "SubTo"
         /\ c.op = "SubExact" => Promise(c) = "SubExact"
         /\ c.op = "Mul" => Promise(c) = "MulTo"
         /\ c.op = "MulExact" => Promise(c) = "MulExact"
         /\ c.op = "Div" => Promise(c) = "Div"
         /\ c.op = "DivExact" => Promise(c) = "DivToExact"
         /\ c.op = "QuantizeStep" => Promise(c) = "StepTo"
         /\ c.op = "QuantizeStepExact" => Promise(c) = "StepToExact"
    /\ \A c : c.type = "Money" =>
         /\ c.op = "Neg" => Promise(c) = "Neg"
         /\ c.op = "Abs" => Promise(c) = "Abs"
         /\ c.op = "Amount" => Promise(c) = "Normalize"
         /\ c.op = "Add" => Promise(c) = "Add"
         /\ c.op = "Sub" => Promise(c) = "Sub"
         /\ c.op = "Mul" => Promise(c) = "MulTo"
         /\ c.op = "Div" => Promise(c) = "Div"
         /\ c.op = "Round" => Promise(c) = "Rescale"
         /\ c.op = "RoundExact" => Promise(c) = "RescaleExact"
         /\ c.op = "QuantizeStep" => Promise(c) = "QuantizeStep"
         /\ c.op = "QuantizeStepExact" => Promise(c) = "QuantizeStepExact"
<1>1. /\ PolicyPromise["Quantize"] = "Rescale" /\ PolicyPromise["QuantizeExact"] = "RescaleExact"
      /\ PolicyPromise["NewMoney"] = "Normalize"
      /\ PolicyPromise["Add"] = "AddTo" /\ PolicyPromise["AddExact"] = "AddExact"
      /\ PolicyPromise["Sub"] = "SubTo" /\ PolicyPromise["SubExact"] = "SubExact"
      /\ PolicyPromise["Mul"] = "MulTo" /\ PolicyPromise["MulExact"] = "MulExact"
      /\ PolicyPromise["Div"] = "Div" /\ PolicyPromise["DivExact"] = "DivToExact"
      /\ PolicyPromise["QuantizeStep"] = "StepTo" /\ PolicyPromise["QuantizeStepExact"] = "StepToExact"
  BY DEF PolicyPromise
<1>2. /\ MoneyPromise["Neg"] = "Neg" /\ MoneyPromise["Abs"] = "Abs" /\ MoneyPromise["Amount"] = "Normalize"
      /\ MoneyPromise["Add"] = "Add" /\ MoneyPromise["Sub"] = "Sub"
      /\ MoneyPromise["Mul"] = "MulTo" /\ MoneyPromise["Div"] = "Div"
      /\ MoneyPromise["Round"] = "Rescale" /\ MoneyPromise["RoundExact"] = "RescaleExact"
      /\ MoneyPromise["QuantizeStep"] = "QuantizeStep" /\ MoneyPromise["QuantizeStepExact"] = "QuantizeStepExact"
  BY DEF MoneyPromise
<1> QED
  BY <1>1, <1>2 DEF Promise

LEMMA PromiseIsOne ==
    ASSUME NEW c \in CallerCalls
    PROVE  Promise(c) \in Promised
<1>1. c.type \in {"Context", "Pricing", "MoneyContext", "Money"}
  BY CallFacts DEF CallerCalls
<1>2. CASE c.type # "Money"
  <2>1. c.op \in Quantizing \cup Sums \cup Scalings \cup {"NewMoney"}
    BY <1>1, <1>2, CallFacts
  <2> QED
    BY <1>2, <2>1, PromiseTable DEF Quantizing, Sums, Scalings, Promised
<1>3. CASE c.type = "Money"
  BY <1>3, CallFacts, PromiseTable DEF Promised
<1> QED
  BY <1>2, <1>3

-----------------------------------------------------------------------------
(* How a call returns: the guard of its type, then the computation promised. *)

CallGuard ==
    IF pending.type = "Context" THEN ContextError(ctx)
    ELSE IF pending.op = "NewMoney" THEN Check(NormalCode[ctx.currency] # NoCurrency, "ErrInvalidCurrency")
    ELSE IF pending.type = "Pricing" THEN MoneyContextError(ctx)
    ELSE IF pending.type = "MoneyContext" THEN
         IF pending.op \in Sums THEN FirstError(InContextError(ctx, held), InContextError(ctx, pending.arg))
         ELSE InContextError(ctx, held)
    ELSE IF pending.op \in {"Neg", "Abs", "Amount"} THEN "nil"
    ELSE IF pending.op \in {"Add", "Sub"} THEN SameCurrency(held, pending.arg)
    ELSE ValidCurrency(held)

Computed(promise) ==
    CASE promise = "Rescale"           -> Quantize(ctx, d)
      [] promise = "RescaleExact"      -> QuantizeExact(ctx, d)
      [] promise = "Normalize"         -> Ok(d)
      [] promise = "Neg"               -> Ok(Neg(d))
      [] promise = "Abs"               -> Ok(Abs(d))
      [] promise = "Add"               -> Ok(Add(d, arg))
      [] promise = "Sub"               -> Ok(Sub(d, arg))
      [] promise = "AddTo"             -> CtxAdd(ctx, d, arg)
      [] promise = "AddExact"          -> CtxAddExact(ctx, d, arg)
      [] promise = "SubTo"             -> CtxSub(ctx, d, arg)
      [] promise = "SubExact"          -> CtxSubExact(ctx, d, arg)
      [] promise = "MulTo"             -> CtxMul(ctx, d, arg)
      [] promise = "MulExact"          -> CtxMulExact(ctx, d, arg)
      [] promise = "Div"               -> CtxDiv(ctx, d, arg)
      [] promise = "DivToExact"        -> CtxDivExact(ctx, d, arg)
      [] promise = "StepTo"            -> CtxQuantizeStep(ctx, d, arg)
      [] promise = "StepToExact"       -> CtxQuantizeStepExact(ctx, d, arg)
      [] promise = "QuantizeStep"      -> QuantizeStep(d, arg, ctx.rounding)
      [] promise = "QuantizeStepExact" -> QuantizeStepExact(d, arg)

LEMMA ComputedTable ==
    /\ Computed("Rescale") = Quantize(ctx, d) /\ Computed("RescaleExact") = QuantizeExact(ctx, d)
    /\ Computed("Normalize") = Ok(d) /\ Computed("Neg") = Ok(Neg(d)) /\ Computed("Abs") = Ok(Abs(d))
    /\ Computed("Add") = Ok(Add(d, arg)) /\ Computed("Sub") = Ok(Sub(d, arg))
    /\ Computed("AddTo") = CtxAdd(ctx, d, arg) /\ Computed("AddExact") = CtxAddExact(ctx, d, arg)
    /\ Computed("SubTo") = CtxSub(ctx, d, arg) /\ Computed("SubExact") = CtxSubExact(ctx, d, arg)
    /\ Computed("MulTo") = CtxMul(ctx, d, arg) /\ Computed("MulExact") = CtxMulExact(ctx, d, arg)
    /\ Computed("Div") = CtxDiv(ctx, d, arg) /\ Computed("DivToExact") = CtxDivExact(ctx, d, arg)
    /\ Computed("StepTo") = CtxQuantizeStep(ctx, d, arg)
    /\ Computed("StepToExact") = CtxQuantizeStepExact(ctx, d, arg)
    /\ Computed("QuantizeStep") = QuantizeStep(d, arg, ctx.rounding)
    /\ Computed("QuantizeStepExact") = QuantizeStepExact(d, arg)
  BY DEF Computed

\* A call that ended behind guard e with an answer, in a currency
Concluded(e, answer, currency) ==
    /\ pending' = Idle
    /\ failure' = IF e = "nil" THEN answer.err ELSE e
    /\ held' = IF e = "nil" /\ answer.err = "nil" THEN Money(answer.val, currency) ELSE held

LEMMA GuardedConcludes ==
    ASSUME NEW t, NEW op, NEW e, NEW answer, NEW currency,
           Conclude(t, op, Attach(Guarded(e, answer), currency))
    PROVE  pending.type = t /\ pending.op = op /\ Concluded(e, answer, currency)
<1>1. CASE e = "nil"
  BY <1>1 DEF Conclude, Attach, Guarded, Concluded
<1>2. CASE e # "nil"
  BY <1>2 DEF Conclude, Attach, Guarded, Fail, Concluded
<1> QED
  BY <1>1, <1>2

\* The ways of a Context, of a policy with one and with two amounts, of a Money
LEMMA ContextConcludes ==
    ASSUME pending \in CallerCalls, NEW op, NEW answer, ByContext(op, answer)
    PROVE  pending.type = "Context" /\ pending.op = op /\ Concluded(CallGuard, answer, Into(pending))
<1>1. pending.type = "Context" /\ pending.op = op /\ Concluded(ContextError(ctx), answer, Bare)
  BY GuardedConcludes DEF ByContext
<1>2. pending.op # "NewMoney"
  BY <1>1, CallFacts DEF Quantizing, Sums, Scalings
<1>3. CallGuard = ContextError(ctx) /\ Into(pending) = Bare
  BY <1>1, <1>2 DEF CallGuard, Into
<1> QED
  BY <1>1, <1>3

LEMMA PolicyConcludes ==
    ASSUME pending \in CallerCalls, NEW op, NEW answer,
           \/ op \notin Sums /\ ByPolicy(op, answer)
           \/ op \in Sums /\ ByPolicy2(op, answer)
    PROVE  pending.type = "MoneyContext" /\ pending.op = op /\ Concluded(CallGuard, answer, Into(pending))
<1> DEFINE e1 == InContextError(ctx, held)
           e2 == FirstError(InContextError(ctx, held), InContextError(ctx, pending.arg))
<1>1. /\ pending.type = "MoneyContext" /\ pending.op = op
      /\ Concluded(IF op \in Sums THEN e2 ELSE e1, answer, ctx.currency)
  <2>1. CASE op \notin Sums /\ ByPolicy(op, answer)
    BY <2>1, GuardedConcludes DEF ByPolicy, InContext
  <2>2. CASE op \in Sums /\ ByPolicy2(op, answer)
    BY <2>2, GuardedConcludes DEF ByPolicy2, InContext2
  <2> QED
    BY <2>1, <2>2
<1> HIDE DEF e1, e2
<1>2. pending.op # "NewMoney" /\ pending.op # "Amount"
  BY <1>1, CallFacts DEF Quantizing, Sums, Scalings
<1>3. CallGuard = (IF op \in Sums THEN e2 ELSE e1) /\ Into(pending) = ctx.currency
  BY <1>1, <1>2 DEF CallGuard, Into, ctx, e1, e2
<1> QED
  BY <1>1, <1>3

LEMMA UnaryConcludes ==
    ASSUME pending \in CallerCalls, NEW op, NEW answer, ByMoney(op, Unary(held, answer)),
           op \notin {"NewMoney", "Neg", "Abs", "Amount", "Add", "Sub"}
    PROVE  pending.type = "Money" /\ pending.op = op /\ Concluded(CallGuard, answer, Into(pending))
<1>1. pending.type = "Money" /\ pending.op = op /\ Concluded(ValidCurrency(held), answer, held.currency)
  BY GuardedConcludes DEF ByMoney, Unary
<1>2. CallGuard = ValidCurrency(held) /\ Into(pending) = held.currency
  BY <1>1 DEF CallGuard, Into
<1> QED
  BY <1>1, <1>2

LEMMA BinaryConcludes ==
    ASSUME pending \in CallerCalls, NEW op \in {"Add", "Sub"}, NEW answer,
           ByMoney(op, Binary(held, pending.arg, answer))
    PROVE  pending.type = "Money" /\ pending.op = op /\ Concluded(CallGuard, answer, Into(pending))
<1>1. pending.type = "Money" /\ pending.op = op /\ Concluded(SameCurrency(held, pending.arg), answer, held.currency)
  BY GuardedConcludes DEF ByMoney, Binary
<1>2. CallGuard = SameCurrency(held, pending.arg) /\ Into(pending) = held.currency
  BY <1>1 DEF CallGuard, Into
<1> QED
  BY <1>1, <1>2

\* Neg, Abs and Amount have no guard.
LEMMA FreeConcludes ==
    ASSUME pending \in CallerCalls, CallNeg \/ CallAbs \/ CallAmount
    PROVE  Concluded(CallGuard, Computed(Promise(pending)), Into(pending))
<1>1. CASE CallNeg
  <2>1. pending.type = "Money" /\ pending.op = "Neg" /\ Concluded("nil", Ok(Neg(d)), held.currency)
    BY <1>1 DEF CallNeg, ByMoney, Conclude, Concluded, Ok, MoneyNeg, Money, d
  <2>2. CallGuard = "nil" /\ Into(pending) = held.currency
    BY <2>1 DEF CallGuard, Into
  <2> QED
    BY <2>1, <2>2, ComputedTable, PromiseTable
<1>2. CASE CallAbs
  <2>1. pending.type = "Money" /\ pending.op = "Abs" /\ Concluded("nil", Ok(Abs(d)), held.currency)
    BY <1>2 DEF CallAbs, ByMoney, Conclude, Concluded, Ok, MoneyAbs, Money, d
  <2>2. CallGuard = "nil" /\ Into(pending) = held.currency
    BY <2>1 DEF CallGuard, Into
  <2> QED
    BY <2>1, <2>2, ComputedTable, PromiseTable
<1>3. CASE CallAmount
  <2>1. pending.type = "Money" /\ pending.op = "Amount" /\ Concluded("nil", Ok(d), Bare)
    BY <1>3 DEF CallAmount, ByMoney, Conclude, Concluded, Attach, Ok
  <2>2. CallGuard = "nil" /\ Into(pending) = Bare
    BY <2>1 DEF CallGuard, Into
  <2> QED
    BY <2>1, <2>2, ComputedTable, PromiseTable
<1> QED
  BY <1>1, <1>2, <1>3

\* A Decimal gets a currency, by name or from a policy.
LEMMA PricingConcludes ==
    ASSUME pending \in CallerCalls,
           \/ CallNewMoney
           \/ Conclude("Pricing", "Quantize", CtxMoney(ctx, d))
           \/ Conclude("Pricing", "QuantizeExact", CtxMoneyExact(ctx, d))
    PROVE  Concluded(CallGuard, Computed(Promise(pending)), Into(pending))
<1>1. CASE CallNewMoney
  <2> DEFINE e == Check(NormalCode[ctx.currency] # NoCurrency, "ErrInvalidCurrency")
  <2>1. pending.type = "Pricing" /\ pending.op = "NewMoney" /\ Concluded(e, Ok(d), NormalCode[ctx.currency])
    BY <1>1, GuardedConcludes DEF CallNewMoney, NewMoney
  <2>2. CallGuard = e /\ Into(pending) = NormalCode[ctx.currency]
    BY <2>1 DEF CallGuard, Into, ctx
  <2> HIDE DEF e
  <2> QED
    BY <2>1, <2>2, ComputedTable, PromiseTable
<1>2. ASSUME NEW op \in {"Quantize", "QuantizeExact"}, NEW answer,
             Conclude("Pricing", op, Attach(Guarded(MoneyContextError(ctx), answer), ctx.currency))
      PROVE  pending.type = "Pricing" /\ pending.op = op /\ Concluded(CallGuard, answer, Into(pending))
  <2>1. pending.type = "Pricing" /\ pending.op = op /\ Concluded(MoneyContextError(ctx), answer, ctx.currency)
    BY <1>2, GuardedConcludes
  <2>2. CallGuard = MoneyContextError(ctx) /\ Into(pending) = ctx.currency
    BY <2>1 DEF CallGuard, Into, ctx
  <2> QED
    BY <2>1, <2>2
<1>3. CASE Conclude("Pricing", "Quantize", CtxMoney(ctx, d))
  <2>1. pending.type = "Pricing" /\ pending.op = "Quantize" /\ Concluded(CallGuard, Quantize(ctx, d), Into(pending))
    BY <1>2, <1>3 DEF CtxMoney
  <2> QED
    BY <2>1, ComputedTable, PromiseTable
<1>4. CASE Conclude("Pricing", "QuantizeExact", CtxMoneyExact(ctx, d))
  <2>1. pending.type = "Pricing" /\ pending.op = "QuantizeExact" /\ Concluded(CallGuard, QuantizeExact(ctx, d), Into(pending))
    BY <1>2, <1>4 DEF CtxMoneyExact
  <2> QED
    BY <2>1, ComputedTable, PromiseTable
<1> QED
  BY <1>1, <1>3, <1>4

\* Each operation returns in one of the ways above, with what it promised.
LEMMA ReturnsConclude ==
    ASSUME pending \in CallerCalls, CallReturns
    PROVE  Concluded(CallGuard, Computed(Promise(pending)), Into(pending))
<1>1. ASSUME NEW op \in Quantizing \cup Scalings, NEW answer, Either(op, answer)
      PROVE  pending.type # "Money" /\ pending.op = op /\ Concluded(CallGuard, answer, Into(pending))
  <2>1. op \notin Sums
    BY DEF Quantizing, Scalings, Sums
  <2> QED
    BY <1>1, <2>1, ContextConcludes, PolicyConcludes DEF Either
<1>2. ASSUME NEW op \in Sums, NEW answer, Either2(op, answer)
      PROVE  pending.type # "Money" /\ pending.op = op /\ Concluded(CallGuard, answer, Into(pending))
  BY <1>2, ContextConcludes, PolicyConcludes DEF Either2
<1>3. ASSUME NEW op, op \notin {"NewMoney", "Neg", "Abs", "Amount", "Add", "Sub"}, NEW answer,
             ByMoney(op, Unary(held, answer))
      PROVE  pending.type = "Money" /\ pending.op = op /\ Concluded(CallGuard, answer, Into(pending))
  BY <1>3, UnaryConcludes
<1>4. CASE CallNewMoney
  BY <1>4, PricingConcludes
<1>5. CASE CallAmount \/ CallNeg \/ CallAbs
  BY <1>5, FreeConcludes
<1>6. CASE CallRound
  <2>1. pending.type = "Money" /\ pending.op = "Round" /\ Concluded(CallGuard, Quantize(ctx, d), Into(pending))
    BY <1>3, <1>6 DEF CallRound, MoneyRound, Quantize, d
  <2> QED
    BY <2>1, ComputedTable, PromiseTable
<1>7. CASE CallRoundExact
  <2>1. pending.type = "Money" /\ pending.op = "RoundExact" /\ Concluded(CallGuard, QuantizeExact(ctx, d), Into(pending))
    BY <1>3, <1>7 DEF CallRoundExact, MoneyRoundExact, QuantizeExact, d
  <2> QED
    BY <2>1, ComputedTable, PromiseTable
<1>8. CASE CallQuantize
  <2>1. CASE Either("Quantize", Quantize(ctx, d))
    <3>1. pending.type # "Money" /\ pending.op = "Quantize" /\ Concluded(CallGuard, Quantize(ctx, d), Into(pending))
      BY <1>1, <2>1 DEF Quantizing
    <3> QED
      BY <3>1, ComputedTable, PromiseTable
  <2> QED
    BY <1>8, <2>1, PricingConcludes DEF CallQuantize
<1>9. CASE CallQuantizeExact
  <2>1. CASE Either("QuantizeExact", QuantizeExact(ctx, d))
    <3>1. pending.type # "Money" /\ pending.op = "QuantizeExact" /\ Concluded(CallGuard, QuantizeExact(ctx, d), Into(pending))
      BY <1>1, <2>1 DEF Quantizing
    <3> QED
      BY <3>1, ComputedTable, PromiseTable
  <2> QED
    BY <1>9, <2>1, PricingConcludes DEF CallQuantizeExact
<1>10. CASE CallAdd
  <2>1. CASE Either2("Add", CtxAdd(ctx, d, arg))
    <3>1. pending.type # "Money" /\ pending.op = "Add" /\ Concluded(CallGuard, CtxAdd(ctx, d, arg), Into(pending))
      BY <1>2, <2>1 DEF Sums
    <3> QED
      BY <3>1, ComputedTable, PromiseTable
  <2>2. CASE ByMoney("Add", MoneyAdd(held, pending.arg))
    <3>1. pending.type = "Money" /\ pending.op = "Add" /\ Concluded(CallGuard, Ok(Add(d, arg)), Into(pending))
      BY <2>2, BinaryConcludes DEF MoneyAdd, d, arg
    <3> QED
      BY <3>1, ComputedTable, PromiseTable
  <2> QED
    BY <1>10, <2>1, <2>2 DEF CallAdd
<1>11. CASE CallSub
  <2>1. CASE Either2("Sub", CtxSub(ctx, d, arg))
    <3>1. pending.type # "Money" /\ pending.op = "Sub" /\ Concluded(CallGuard, CtxSub(ctx, d, arg), Into(pending))
      BY <1>2, <2>1 DEF Sums
    <3> QED
      BY <3>1, ComputedTable, PromiseTable
  <2>2. CASE ByMoney("Sub", MoneySub(held, pending.arg))
    <3>1. pending.type = "Money" /\ pending.op = "Sub" /\ Concluded(CallGuard, Ok(Sub(d, arg)), Into(pending))
      BY <2>2, BinaryConcludes DEF MoneySub, d, arg
    <3> QED
      BY <3>1, ComputedTable, PromiseTable
  <2> QED
    BY <1>11, <2>1, <2>2 DEF CallSub
<1>12. CASE CallMul
  <2>1. CASE Either("Mul", CtxMul(ctx, d, arg))
    <3>1. pending.type # "Money" /\ pending.op = "Mul" /\ Concluded(CallGuard, CtxMul(ctx, d, arg), Into(pending))
      BY <1>1, <2>1 DEF Scalings
    <3> QED
      BY <3>1, ComputedTable, PromiseTable
  <2>2. CASE ByMoney("Mul", MoneyMul(held, arg, ctx.scale, ctx.rounding))
    <3>1. pending.type = "Money" /\ pending.op = "Mul" /\ Concluded(CallGuard, CtxMul(ctx, d, arg), Into(pending))
      BY <1>3, <2>2 DEF MoneyMul, CtxMul, Quantize, d
    <3> QED
      BY <3>1, ComputedTable, PromiseTable
  <2> QED
    BY <1>12, <2>1, <2>2 DEF CallMul
<1>13. CASE CallDiv
  <2>1. CASE Either("Div", CtxDiv(ctx, d, arg))
    <3>1. pending.type # "Money" /\ pending.op = "Div" /\ Concluded(CallGuard, CtxDiv(ctx, d, arg), Into(pending))
      BY <1>1, <2>1 DEF Scalings
    <3> QED
      BY <3>1, ComputedTable, PromiseTable
  <2>2. CASE ByMoney("Div", MoneyDiv(held, arg, ctx.scale, ctx.rounding))
    <3>1. pending.type = "Money" /\ pending.op = "Div" /\ Concluded(CallGuard, CtxDiv(ctx, d, arg), Into(pending))
      BY <1>3, <2>2 DEF MoneyDiv, CtxDiv, d
    <3> QED
      BY <3>1, ComputedTable, PromiseTable
  <2> QED
    BY <1>13, <2>1, <2>2 DEF CallDiv
<1>14. CASE CallAddExact
  <2>1. pending.type # "Money" /\ pending.op = "AddExact" /\ Concluded(CallGuard, CtxAddExact(ctx, d, arg), Into(pending))
    BY <1>2, <1>14 DEF CallAddExact, Sums
  <2> QED
    BY <2>1, ComputedTable, PromiseTable
<1>15. CASE CallSubExact
  <2>1. pending.type # "Money" /\ pending.op = "SubExact" /\ Concluded(CallGuard, CtxSubExact(ctx, d, arg), Into(pending))
    BY <1>2, <1>15 DEF CallSubExact, Sums
  <2> QED
    BY <2>1, ComputedTable, PromiseTable
<1>16. CASE CallMulExact
  <2>1. pending.type # "Money" /\ pending.op = "MulExact" /\ Concluded(CallGuard, CtxMulExact(ctx, d, arg), Into(pending))
    BY <1>1, <1>16 DEF CallMulExact, Scalings
  <2> QED
    BY <2>1, ComputedTable, PromiseTable
<1>17. CASE CallDivExact
  <2>1. pending.type # "Money" /\ pending.op = "DivExact" /\ Concluded(CallGuard, CtxDivExact(ctx, d, arg), Into(pending))
    BY <1>1, <1>17 DEF CallDivExact, Scalings
  <2> QED
    BY <2>1, ComputedTable, PromiseTable
<1>18. CASE CallQuantizeStep
  <2>1. CASE Either("QuantizeStep", CtxQuantizeStep(ctx, d, arg))
    <3>1. /\ pending.type # "Money" /\ pending.op = "QuantizeStep"
          /\ Concluded(CallGuard, CtxQuantizeStep(ctx, d, arg), Into(pending))
      BY <1>1, <2>1 DEF Scalings
    <3> QED
      BY <3>1, ComputedTable, PromiseTable
  <2>2. CASE ByMoney("QuantizeStep", MoneyQuantizeStep(held, arg, ctx.rounding))
    <3>1. /\ pending.type = "Money" /\ pending.op = "QuantizeStep"
          /\ Concluded(CallGuard, QuantizeStep(d, arg, ctx.rounding), Into(pending))
      BY <1>3, <2>2 DEF MoneyQuantizeStep, d
    <3> QED
      BY <3>1, ComputedTable, PromiseTable
  <2> QED
    BY <1>18, <2>1, <2>2 DEF CallQuantizeStep
<1>19. CASE CallQuantizeStepExact
  <2>1. CASE Either("QuantizeStepExact", CtxQuantizeStepExact(ctx, d, arg))
    <3>1. /\ pending.type # "Money" /\ pending.op = "QuantizeStepExact"
          /\ Concluded(CallGuard, CtxQuantizeStepExact(ctx, d, arg), Into(pending))
      BY <1>1, <2>1 DEF Scalings
    <3> QED
      BY <3>1, ComputedTable, PromiseTable
  <2>2. CASE ByMoney("QuantizeStepExact", MoneyQuantizeStepExact(held, arg))
    <3>1. /\ pending.type = "Money" /\ pending.op = "QuantizeStepExact"
          /\ Concluded(CallGuard, QuantizeStepExact(d, arg), Into(pending))
      BY <1>3, <2>2 DEF MoneyQuantizeStepExact, d
    <3> QED
      BY <3>1, ComputedTable, PromiseTable
  <2> QED
    BY <1>19, <2>1, <2>2 DEF CallQuantizeStepExact
<1> QED
  BY <1>4, <1>5, <1>6, <1>7, <1>8, <1>9, <1>10, <1>11, <1>12, <1>13, <1>14, <1>15, <1>16, <1>17, <1>18, <1>19
     DEF CallReturns

-----------------------------------------------------------------------------
(* What the guards let through, and why they refuse. *)

\* The argument of a sum with money is money.
LEMMA SumsAddMoney ==
    ASSUME pending \in CallerCalls, pending.type \in {"MoneyContext", "Money"}, pending.op \in Sums
    PROVE  pending.arg.currency # Bare /\ Owner(pending.arg) = {pending.arg.currency}
<1>1. pending \in MoneyCalls
  BY CallFacts DEF CallerCalls
<1>2. pending.arg \in Monies
  <2>1. pending.op \notin Quantizing \cup Scalings \cup {"Neg", "Abs", "Amount", "Round", "RoundExact"}
    BY DEF Sums, Quantizing, Scalings
  <2> QED
    BY <1>1, <2>1 DEF MoneyCalls, CallsOf, Scalings
<1>3. pending.arg.currency # Bare
  BY <1>2, NumbersAssumption DEF Monies, NoMoney, Money
<1> QED
  BY <1>3 DEF Owner

\* The parties of a call, by its type
LEMMA PartiesOf ==
    ASSUME pending \in CallerCalls
    PROVE  /\ pending.type = "Context" => Parties(pending) = {}
           /\ pending.op = "NewMoney" => Parties(pending) = {NormalCode[ctx.currency]}
           /\ pending.type = "Pricing" /\ pending.op # "NewMoney" => Parties(pending) = {ctx.currency}
           /\ pending.type = "MoneyContext" /\ pending.op \in Sums
                => Parties(pending) = {ctx.currency, held.currency, pending.arg.currency}
           /\ pending.type = "MoneyContext" /\ pending.op \notin Sums
                => Parties(pending) = {ctx.currency, held.currency}
           /\ pending.type = "Money" /\ pending.op \in {"Neg", "Abs", "Amount"} => Parties(pending) = {}
           /\ pending.type = "Money" /\ pending.op \in {"Add", "Sub"}
                => Parties(pending) = {held.currency, pending.arg.currency}
           /\ pending.type = "Money" /\ pending.op \notin {"Neg", "Abs", "Amount", "Add", "Sub"}
                => Parties(pending) = {held.currency}
<1>1. /\ pending.type = "Context" => pending.op # "NewMoney"
      /\ pending.type = "MoneyContext" => pending.op # "NewMoney"
      /\ pending.type = "Money" => pending.op # "NewMoney"
  BY CallFacts DEF Quantizing, Sums, Scalings
<1>2. pending.type \in {"MoneyContext", "Money"} /\ pending.op \in Sums => Owner(pending.arg) = {pending.arg.currency}
  BY SumsAddMoney
<1>3. pending.type \in {"MoneyContext", "Money"} /\ pending.op \notin Sums => Owner(pending.arg) = {}
  BY CallFacts DEF Owner
<1>4. CASE pending.type = "Context"
  BY <1>1, <1>4 DEF Parties
<1>5. CASE pending.op = "NewMoney"
  BY <1>1, <1>5 DEF Parties, ctx
<1>6. CASE pending.type = "Pricing" /\ pending.op # "NewMoney"
  BY <1>6 DEF Parties, ctx
<1>7. CASE pending.type = "MoneyContext"
  <2>1. Parties(pending) = {ctx.currency, held.currency} \cup Owner(pending.arg)
    BY <1>1, <1>7 DEF Parties, ctx
  <2> QED
    BY <1>1, <1>2, <1>3, <1>7, <2>1
<1>8. CASE pending.type = "Money" /\ pending.op \in {"Neg", "Abs", "Amount"}
  BY <1>8 DEF Parties
<1>9. CASE pending.type = "Money" /\ pending.op \notin {"Neg", "Abs", "Amount"}
  <2>1. Parties(pending) = {held.currency} \cup Owner(pending.arg)
    BY <1>1, <1>9 DEF Parties
  <2>2. pending.op \in Sums <=> pending.op \in {"Add", "Sub"}
    BY <1>9, CallFacts DEF Sums
  <2> QED
    BY <1>1, <1>2, <1>3, <1>9, <2>1, <2>2
<1> QED
  BY <1>1, <1>4, <1>5, <1>6, <1>7, <1>8, <1>9, CallFacts DEF CallerCalls

\* Refused for a currency that is none, for two currencies, or for a bad policy
Refusal(e) ==
    \/ e = "ErrInvalidCurrency" /\ \E p \in Parties(pending) : p \notin Currencies
    \/ e = "ErrCurrencyMismatch" /\ \E p, q \in Parties(pending) : p # q
    \/ /\ pending.type # "Money" /\ pending.op # "NewMoney"
       /\ \/ e = "ErrInvalidScale" /\ ctx.scale < 0
          \/ e = "ErrInvalidRoundingMode" /\ ctx.rounding \notin RoundingModes

\* Let through: one valid currency at most, and a good policy
LetThrough ==
    /\ Parties(pending) \subseteq Currencies /\ \A p, q \in Parties(pending) : p = q
    /\ pending.type # "Money" /\ pending.op # "NewMoney" => ctx.scale >= 0 /\ ctx.rounding \in RoundingModes

LEMMA GuardDecides ==
    ASSUME pending \in CallerCalls
    PROVE  IF CallGuard = "nil" THEN LetThrough ELSE Refusal(CallGuard)
<1>1. ctx.scale \in Int
  BY CallNumbers DEF ctx
<1>2. CASE pending.type = "Context"
  <2>1. CallGuard = ContextError(ctx) /\ Parties(pending) = {} /\ pending.op # "NewMoney"
    BY <1>2, PartiesOf, CallFacts DEF CallGuard, Quantizing, Sums, Scalings
  <2> QED
    BY <1>1, <1>2, <2>1, ContextErrorIs DEF Refusal, LetThrough
<1>3. CASE pending.op = "NewMoney"
  <2> DEFINE code == NormalCode[ctx.currency]
  <2>1. pending.type = "Pricing" /\ Parties(pending) = {code}
    BY <1>3, PartiesOf, CallFacts DEF CallerCalls, Quantizing, Sums, Scalings
  <2>2. code \in Currencies \cup {NoCurrency} /\ NoCurrency \notin Currencies
    BY <1>3, CallFacts, MoneyAssumption DEF ctx
  <2>3. CallGuard = IF code # NoCurrency THEN "nil" ELSE "ErrInvalidCurrency"
    BY <1>3, <2>1 DEF CallGuard, Check
  <2> HIDE DEF code
  <2> QED
    BY <1>3, <2>1, <2>2, <2>3 DEF Refusal, LetThrough
<1>4. CASE pending.type = "Pricing" /\ pending.op # "NewMoney"
  <2>1. CallGuard = MoneyContextError(ctx) /\ Parties(pending) = {ctx.currency}
    BY <1>4, PartiesOf DEF CallGuard
  <2> QED
    BY <1>1, <1>4, <2>1, MoneyContextErrorIs, ContextErrorIs DEF Refusal, LetThrough
<1>5. CASE pending.type = "MoneyContext"
  <2>1. pending.op # "NewMoney"
    BY <1>5, CallFacts DEF Quantizing, Sums, Scalings
  <2>2. CASE pending.op \in Sums
    <3>1. /\ CallGuard = FirstError(InContextError(ctx, held), InContextError(ctx, pending.arg))
          /\ Parties(pending) = {ctx.currency, held.currency, pending.arg.currency}
      BY <1>5, <2>1, <2>2, PartiesOf DEF CallGuard
    <3> QED
      BY <1>1, <1>5, <2>1, <3>1, InContextErrorIs, ContextErrorIs DEF FirstError, Refusal, LetThrough
  <2>3. CASE pending.op \notin Sums
    <3>1. CallGuard = InContextError(ctx, held) /\ Parties(pending) = {ctx.currency, held.currency}
      BY <1>5, <2>1, <2>3, PartiesOf DEF CallGuard
    <3> QED
      BY <1>1, <1>5, <2>1, <3>1, InContextErrorIs, ContextErrorIs DEF Refusal, LetThrough
  <2> QED
    BY <2>2, <2>3
<1>6. CASE pending.type = "Money"
  <2>1. pending.op # "NewMoney"
    BY <1>6, CallFacts
  <2>2. CASE pending.op \in {"Neg", "Abs", "Amount"}
    <3>1. CallGuard = "nil" /\ Parties(pending) = {}
      BY <1>6, <2>1, <2>2, PartiesOf DEF CallGuard
    <3> QED
      BY <1>6, <3>1 DEF LetThrough
  <2>3. CASE pending.op \in {"Add", "Sub"}
    <3>1. CallGuard = SameCurrency(held, pending.arg) /\ Parties(pending) = {held.currency, pending.arg.currency}
      BY <1>6, <2>1, <2>3, PartiesOf DEF CallGuard
    <3> QED
      BY <1>6, <3>1, SameCurrencyIs DEF Refusal, LetThrough
  <2>4. CASE pending.op \notin {"Neg", "Abs", "Amount", "Add", "Sub"}
    <3>1. CallGuard = ValidCurrency(held) /\ Parties(pending) = {held.currency}
      BY <1>6, <2>1, <2>4, PartiesOf DEF CallGuard
    <3> QED
      BY <1>6, <3>1 DEF ValidCurrency, Check, Refusal, LetThrough
  <2> QED
    BY <2>2, <2>3, <2>4
<1> QED
  BY <1>2, <1>3, <1>4, <1>5, <1>6, CallFacts DEF CallerCalls

\* What was let through is due in one of its parties, or asks for no currency.
LEMMA DueCurrency ==
    ASSUME pending \in CallerCalls
    PROVE  \/ Into(pending) \in Parties(pending) \cup {Bare}
           \/ pending.type = "Money" /\ pending.op \in {"Neg", "Abs"} /\ Into(pending) = held.currency
<1>1. pending.type \in {"Context", "Pricing", "MoneyContext", "Money"}
  BY CallFacts DEF CallerCalls
<1>2. /\ pending.op = "NewMoney" => Into(pending) = NormalCode[ctx.currency]
      /\ pending.op # "NewMoney" =>
           /\ pending.type = "Context" \/ pending.op = "Amount" => Into(pending) = Bare
           /\ pending.type \in {"Pricing", "MoneyContext"} => Into(pending) \in {Bare, ctx.currency}
           /\ pending.type = "Money" /\ pending.op # "Amount" => Into(pending) = held.currency
  BY DEF Into, ctx
<1> QED
  BY <1>1, <1>2, PartiesOf

-----------------------------------------------------------------------------
(* What is computed is a number the types can hold. *)

\* Of an answer that may be returned
LEMMA ThenReturnable ==
    ASSUME NEW answer, Returnable(answer), NEW scale \in Int, scale <= MaxScale, NEW mode
    PROVE  /\ Returnable(Then(answer, LAMBDA x : Rescale(x, scale, mode)))
           /\ Returnable(Then(answer, LAMBDA x : RescaleExact(x, scale)))
<1>1. CASE answer.err = "nil"
  <2>1. Valid(answer.val)
    BY <1>1 DEF Returnable
  <2>2. Returnable(Rescale(answer.val, scale, mode)) /\ Returnable(RescaleExact(answer.val, scale))
    BY <2>1, OperationsAreReturnable
  <2> QED
    BY <1>1, <2>2 DEF Then
<1>2. CASE answer.err # "nil"
  BY <1>2 DEF Then
<1> QED
  BY <1>1, <1>2

\* The products and the quotients that are promised are those of bounded calls.
LEMMA ComputablePromise ==
    ASSUME pending \in CallerCalls, Computable(pending)
    PROVE  /\ Promise(pending) \in {"MulTo", "MulExact"} => d.scale + arg.scale <= MaxScale
           /\ Promise(pending) \in {"DivToExact", "StepToExact", "QuantizeStepExact"} => QuotientFits(d, arg)
<1>1. pending.type # "Money" => pending.op \in Quantizing \cup Sums \cup Scalings \cup {"NewMoney"}
  BY CallFacts DEF CallerCalls
<1>2. pending.type = "Money" =>
        pending.op \in {"Neg", "Abs", "Amount", "Add", "Sub", "QuantizeStepExact", "Mul", "Div",
                        "QuantizeStep", "Round", "RoundExact"}
  BY CallFacts
<1>3. /\ Promise(pending) \in {"MulTo", "MulExact"} => pending.op \in {"Mul", "MulExact"}
      /\ Promise(pending) \in {"DivToExact", "StepToExact", "QuantizeStepExact"} =>
           pending.op \in {"DivExact", "QuantizeStepExact"}
  BY <1>1, <1>2, PromiseTable DEF Quantizing, Sums, Scalings
<1> QED
  BY <1>3 DEF Computable, d, arg

\* Every promised computation, on the numbers of a call that was made
LEMMA ComputedIsReturnable ==
    ASSUME Valid(d), pending \in CallerCalls, Computable(pending)
    PROVE  Returnable(Computed(Promise(pending)))
<1> DEFINE scale == ctx.scale
           mode == ctx.rounding
           promise == Promise(pending)
<1>1. Valid(arg) /\ scale \in Int /\ scale <= MaxScale /\ promise \in Promised
  BY CallNumbers, PromiseIsOne DEF arg, ctx
<1>2. promise \in {"MulTo", "MulExact"} => d.scale + arg.scale <= MaxScale
  BY ComputablePromise
<1>3. promise \in {"DivToExact", "StepToExact", "QuantizeStepExact"} => QuotientFits(d, arg)
  BY ComputablePromise
<1> HIDE DEF promise
<1>4. \A x : Valid(x) => Returnable(Rescale(x, scale, mode)) /\ Returnable(RescaleExact(x, scale))
  BY <1>1, OperationsAreReturnable
<1>5. \A x : Returnable(Ok(x)) => Valid(x)
  BY DEF Returnable, Ok
<1>6. CASE promise \in {"Rescale", "RescaleExact"}
  BY <1>4, <1>6, ComputedTable DEF promise, Quantize, QuantizeExact
<1>7. CASE promise \in {"Normalize", "Neg", "Abs", "Add", "Sub"}
  <2>1. Returnable(Ok(d))
    BY ResultsAreReturnable
  <2>2. Returnable(Ok(Neg(d))) /\ Returnable(Ok(Abs(d))) /\ Returnable(Ok(Add(d, arg))) /\ Returnable(Ok(Sub(d, arg)))
    BY <1>1, OperationsAreReturnable
  <2> QED
    BY <1>7, <2>1, <2>2, ComputedTable DEF promise
<1>8. CASE promise \in {"AddTo", "AddExact", "SubTo", "SubExact"}
  <2>1. Valid(Add(d, arg)) /\ Valid(Sub(d, arg))
    BY <1>1, <1>5, OperationsAreReturnable
  <2>2. /\ Returnable(CtxAdd(ctx, d, arg)) /\ Returnable(CtxAddExact(ctx, d, arg))
        /\ Returnable(CtxSub(ctx, d, arg)) /\ Returnable(CtxSubExact(ctx, d, arg))
    BY <1>4, <2>1 DEF CtxAdd, CtxAddExact, CtxSub, CtxSubExact, Quantize, QuantizeExact
  <2> QED
    BY <1>8, <2>2, ComputedTable DEF promise
<1>9. CASE promise \in {"MulTo", "MulExact"}
  <2>1. Valid(Mul(d, arg))
    BY <1>1, <1>2, <1>5, <1>9, OperationsAreReturnable
  <2>2. Returnable(CtxMul(ctx, d, arg)) /\ Returnable(CtxMulExact(ctx, d, arg))
    BY <1>4, <2>1 DEF CtxMul, CtxMulExact, Quantize, QuantizeExact
  <2> QED
    BY <1>9, <2>2, ComputedTable DEF promise
<1>10. CASE promise \in {"Div", "QuantizeStep"}
  <2>1. Returnable(CtxDiv(ctx, d, arg)) /\ Returnable(QuantizeStep(d, arg, mode))
    BY <1>1, OperationsAreReturnable DEF CtxDiv
  <2> QED
    BY <1>10, <2>1, ComputedTable DEF promise
<1>11. CASE promise = "StepTo"
  <2>1. Returnable(QuantizeStep(d, arg, mode))
    BY <1>1, OperationsAreReturnable
  <2>2. Returnable(CtxQuantizeStep(ctx, d, arg))
    BY <1>1, <2>1, ThenReturnable DEF CtxQuantizeStep, Quantize, Then
  <2> QED
    BY <1>11, <2>2, ComputedTable DEF promise
<1>12. CASE promise \in {"DivToExact", "StepToExact", "QuantizeStepExact"}
  <2>1. Returnable(DivExact(d, arg)) /\ Returnable(QuantizeStepExact(d, arg))
    BY <1>1, <1>3, <1>12, OperationsAreReturnable
  <2>2. Returnable(CtxDivExact(ctx, d, arg)) /\ Returnable(CtxQuantizeStepExact(ctx, d, arg))
    BY <1>1, <2>1, ThenReturnable DEF CtxDivExact, CtxQuantizeStepExact, QuantizeExact, Then
  <2> QED
    BY <1>12, <2>1, <2>2, ComputedTable DEF promise
<1> QED
  BY <1>1, <1>6, <1>7, <1>8, <1>9, <1>10, <1>11, <1>12 DEF Promised, promise

-----------------------------------------------------------------------------
(* The invariant: the pending call is one that the value has, and was made   *)
(* while what it computes fits.                                              *)

CallerInv ==
    /\ CallerTypeOK
    /\ pending # Idle => pending \in CallsOn(held) /\ Computable(pending)

\* A call that ended without error had one valid currency among its parties, if any,
\* and its result carries the currency the call was made out to.
Disciplined ==
    pending # Idle /\ pending' = Idle /\ failure' = "nil" =>
        /\ Parties(pending) \subseteq Currencies
        /\ \A p, q \in Parties(pending) : p = q
        /\ held'.currency = Into(pending)

LEMMA OnItsValue == \A m : CallsOn(m) \subseteq CallerCalls
  BY DEF CallsOn, CallerCalls

LEMMA CallerFacts ==
    ASSUME CallerInv
    PROVE  /\ Valid(d) /\ (held.currency \in Currencies \cup {Bare} \/ held = NoMoney)
           /\ pending # Idle => pending \in CallerCalls /\ Computable(pending)
           /\ pending \in CallerCalls => pending # Idle
  BY OnItsValue, CallFacts DEF CallerInv, CallerTypeOK, Valid, d

\* What a call returns is a value of the type, in the currency it is due in.
LEMMA ReturnsKeepInv ==
    ASSUME CallerInv, CallReturns
    PROVE  CallerInv' /\ Disciplined
<1> DEFINE answer == Computed(Promise(pending))
           currency == Into(pending)
<1>1. pending \in CallerCalls /\ Computable(pending)
  <2>1. pending # Idle
    BY DEF CallReturns, CallNewMoney, CallAmount, CallNeg, CallAbs, CallRound, CallRoundExact, CallQuantize, CallQuantizeExact,
           CallAdd, CallAddExact, CallSub, CallSubExact, CallMul, CallMulExact, CallDiv, CallDivExact, CallQuantizeStep,
           CallQuantizeStepExact, Either, Either2, ByContext, ByPolicy, ByPolicy2, ByMoney, Conclude, Idle
  <2> QED
    BY <2>1, CallerFacts
<1>2. Concluded(CallGuard, answer, currency)
  BY <1>1, ReturnsConclude
<1>3. Returnable(answer)
  BY <1>1, CallerFacts, ComputedIsReturnable
<1>4. IF CallGuard = "nil" THEN LetThrough ELSE Refusal(CallGuard)
  BY <1>1, GuardDecides
<1>5. \/ currency \in Parties(pending) \cup {Bare}
      \/ pending.type = "Money" /\ pending.op \in {"Neg", "Abs"} /\ currency = held.currency
  BY <1>1, DueCurrency
<1>6. pending.type = "Money" /\ pending.op \in {"Neg", "Abs"} /\ held = NoMoney => answer = Ok(ZeroValue)
  <2>1. ASSUME held = NoMoney PROVE Ok(Neg(d)) = Ok(ZeroValue) /\ Ok(Abs(d)) = Ok(ZeroValue)
    <3>1. d = Dec(0, 0)
      BY <2>1 DEF d, NoMoney, Money, ZeroValue
    <3>2. d.coef = 0 /\ d.scale = 0
      BY <3>1 DEF Dec
    <3> QED
      BY <3>2 DEF Neg, Abs, Magnitude, ZeroValue
  <2> QED
    BY <2>1, ComputedTable, PromiseTable
<1> HIDE DEF answer, currency
<1>7. CASE CallGuard = "nil" /\ answer.err = "nil"
  <2>1. pending' = Idle /\ failure' = "nil" /\ held' = Money(answer.val, currency)
    BY <1>2, <1>7 DEF Concluded
  <2>2. Valid(answer.val) /\ LetThrough
    BY <1>3, <1>4, <1>7 DEF Returnable
  <2>3. held'.amount = answer.val /\ held'.currency = currency
    BY <2>1 DEF Money
  <2>4. held'.currency \in Currencies \cup {Bare} \/ held' = NoMoney
    <3>1. CASE currency \in Parties(pending) \cup {Bare}
      BY <2>2, <2>3, <3>1 DEF LetThrough
    <3>2. CASE pending.type = "Money" /\ pending.op \in {"Neg", "Abs"} /\ currency = held.currency
      <4>1. CASE held = NoMoney
        <5>1. held.currency = NoCurrency /\ answer.val = ZeroValue
          BY <1>6, <3>2, <4>1 DEF NoMoney, Money, Ok
        <5> QED
          BY <2>1, <3>2, <5>1 DEF NoMoney
      <4>2. CASE held # NoMoney
        BY <2>3, <3>2, <4>2, CallerFacts
      <4> QED
        BY <4>1, <4>2
    <3> QED
      BY <1>5, <3>1, <3>2
  <2>5. CallerInv'
    BY <2>1, <2>2, <2>3, <2>4 DEF CallerInv, CallerTypeOK, Valid
  <2>6. Disciplined
    BY <2>2, <2>3 DEF Disciplined, LetThrough, currency
  <2> QED
    BY <2>5, <2>6
<1>8. CASE ~(CallGuard = "nil" /\ answer.err = "nil")
  <2>1. /\ pending' = Idle /\ held' = held
        /\ failure' = IF CallGuard = "nil" THEN answer.err ELSE CallGuard
    BY <1>2, <1>8 DEF Concluded
  <2>2. failure' \in {"ErrDivisionByZero", "ErrInexact", "ErrInvalidScale",
                      "ErrInvalidRoundingMode", "ErrInvalidCurrency", "ErrCurrencyMismatch"}
    BY <1>3, <1>4, <1>8, <2>1 DEF Returnable, Errors, Refusal
  <2>3. CallerInv'
    BY <2>1, <2>2 DEF CallerInv, CallerTypeOK
  <2> QED
    BY <2>2, <2>3 DEF Disciplined
<1> QED
  BY <1>7, <1>8

LEMMA NextKeepsInv == CallerInv /\ [CallerNext]_callerVars => CallerInv' /\ [Disciplined]_callerVars
<1> SUFFICES ASSUME CallerInv, [CallerNext]_callerVars PROVE CallerInv' /\ [Disciplined]_callerVars
  OBVIOUS
<1>1. CASE Take
  <2>1. /\ pending = Idle /\ pending' = Idle /\ failure' = "nil" /\ Valid(held'.amount)
        /\ held'.currency \in Currencies \cup {Bare} \/ held' = NoMoney
    BY <1>1, Loaded DEF Take
  <2> QED
    BY <2>1 DEF CallerInv, CallerTypeOK, Valid, Disciplined
<1>2. ASSUME NEW c \in CallsOn(held), Ask(c) PROVE CallerInv' /\ Disciplined
  <2>1. pending = Idle /\ pending' = c /\ held' = held /\ failure' = "nil" /\ Computable(c)
    BY <1>2 DEF Ask
  <2>2. Computable(pending)' /\ c \in CallsOn(held')
    BY <2>1 DEF Computable
  <2> QED
    BY <2>1, <2>2, OnItsValue DEF CallerInv, CallerTypeOK, Disciplined
<1>3. CASE CallReturns
  BY <1>3, ReturnsKeepInv
<1>4. CASE UNCHANGED callerVars
  BY <1>4 DEF callerVars, CallerInv, CallerTypeOK, CallsOn, Computable
<1> QED
  BY <1>1, <1>2, <1>3, <1>4 DEF CallerNext

LEMMA CallerInvHolds == CallerSpec => []CallerInv
<1>1. CallerInit => CallerInv
  BY Loaded DEF CallerInit, CallerInv, CallerTypeOK, Valid
<1> QED
  BY <1>1, NextKeepsInv, PTL DEF CallerSpec

\* What a caller holds is a Decimal, an amount in a valid currency, or the zero Money,
\* of an int32 scale, after any chain of calls whose products and quotients fit: an
\* amount leaves its currency only through Amount.  (money.go, money_context.go: the
\* methods that build Money{amount, currency})
THEOREM CallerTypeCorrect == CallerSpec => []CallerTypeOK
<1>1. CallerInv => CallerTypeOK
  BY DEF CallerInv
<1> QED
  BY <1>1, CallerInvHolds, PTL

\* A call of a method of Money or of a policy that reports no error had a single,
\* valid currency among its receiver, its argument and its policy, and returned its
\* result in that currency, whatever the numbers and the scales.  (money.go
\* sameCurrency, validCurrency; money_context.go validate, sameCurrency)
THEOREM CurrencyDiscipline == CallerSpec => [][Disciplined]_callerVars
  BY NextKeepsInv, CallerInvHolds, PTL DEF CallerSpec

-----------------------------------------------------------------------------
(* Refinement of MoneyContract: what a call that was let through returns. *)

Roundings == {"Rescale", "MulTo", "AddTo", "SubTo", "Div", "StepTo", "QuantizeStep"}
Unroundings == {"RescaleExact", "MulExact", "AddExact", "SubExact", "DivToExact", "StepToExact", "QuantizeStepExact"}

\* Its mode is the one it is called with, or one it does not look at.
LEMMA PromisedModeIs ==
    ASSUME pending \in CallerCalls
    PROVE  /\ pending.type # "Money" => PromisedMode(pending) = ctx.rounding
           /\ Promise(pending) \in Roundings => PromisedMode(pending) = ctx.rounding
           /\ Promise(pending) \in Unroundings /\ LetThrough => PromisedMode(pending) \in RoundingModes
           /\ Promise(pending) \in Unroundings \ {"RescaleExact", "QuantizeStepExact"} => pending.type # "Money"
           /\ Promise(pending) = "StepTo" => pending.type # "Money"
           /\ Promise(pending) = "Normalize" => pending.op \in {"NewMoney", "Amount"}
<1>1. "TowardZero" \in RoundingModes
  BY DEF RoundingModes, DirectedModes
<1>2. CASE pending.type # "Money"
  <2>1. PromisedMode(pending) = ctx.rounding
    BY <1>2 DEF PromisedMode, ctx
  <2>2. pending.op \in Quantizing \cup Sums \cup Scalings \cup {"NewMoney"}
    BY <1>2, CallFacts DEF CallerCalls
  <2>3. Promise(pending) \in Unroundings => pending.op # "NewMoney"
    BY <1>2, PromiseTable DEF Unroundings
  <2>4. Promise(pending) = "Normalize" => pending.op = "NewMoney"
    BY <1>2, <2>2, PromiseTable DEF Quantizing, Sums, Scalings
  <2> QED
    BY <1>2, <2>1, <2>3, <2>4 DEF LetThrough
<1>3. CASE pending.type = "Money"
  <2>1. pending.op \in {"Neg", "Abs", "Amount", "Add", "Sub", "QuantizeStepExact", "Mul", "Div",
                        "QuantizeStep", "Round", "RoundExact"}
    BY <1>3, CallFacts
  <2>2. /\ Promise(pending) \in Roundings => pending.op \in {"Mul", "Div", "Round", "QuantizeStep"}
        /\ Promise(pending) \in Unroundings => pending.op \in {"RoundExact", "QuantizeStepExact"}
        /\ pending.op = "RoundExact" => Promise(pending) = "RescaleExact"
        /\ pending.op = "QuantizeStepExact" => Promise(pending) = "QuantizeStepExact"
        /\ Promise(pending) # "StepTo"
        /\ Promise(pending) = "Normalize" => pending.op = "Amount"
    BY <1>3, <2>1, PromiseTable DEF Roundings, Unroundings
  <2>3. /\ pending.op \in {"RoundExact", "QuantizeStepExact"} => PromisedMode(pending) = "TowardZero"
        /\ pending.op \notin {"RoundExact", "QuantizeStepExact"} => PromisedMode(pending) = ctx.rounding
    BY <1>3 DEF PromisedMode, ctx
  <2> QED
    BY <1>1, <1>3, <2>2, <2>3 DEF Unroundings
<1> QED
  BY <1>2, <1>3

LEMMA PromiseFields ==
    ASSUME pending \in CallerCalls
    PROVE  /\ AsPromised # Promises!NoCall /\ pending # Idle
           /\ AsPromised.op = Promise(pending) /\ Promise(pending) \in Promised
           /\ AsPromised.arg = AsFraction(arg) /\ Valid(arg)
           /\ AsPromised.scale = ctx.scale /\ ctx.scale \in Int /\ ctx.scale <= MaxScale
           /\ AsPromised.mode = PromisedMode(pending)
           /\ AsTerms.parties = Parties(pending) /\ AsTerms.into = Into(pending)
<1>1. pending # Idle
  BY CallFacts
<1>2. /\ AsPromised = [op |-> Promise(pending), arg |-> AsFraction(arg), scale |-> ctx.scale,
                       mode |-> PromisedMode(pending)]
      /\ AsTerms = [parties |-> Parties(pending), into |-> Into(pending)]
  BY <1>1 DEF AsPromised, AsTerms
<1>3. Valid(arg) /\ ctx.scale \in Int /\ ctx.scale <= MaxScale
  BY CallNumbers DEF arg, ctx
<1>4. Promise(pending) \in Promised /\ "none" \notin Promised
  BY PromiseIsOne DEF Promised
<1>5. AsPromised.op = Promise(pending)
  BY <1>2
<1>6. AsPromised # Promises!NoCall
  BY <1>4, <1>5 DEF Promises!NoCall
<1> QED
  BY <1>1, <1>2, <1>3, <1>4, <1>5, <1>6

LEMMA PromisedRounding ==
    /\ Promises!RoundingModes = RoundingModes
    /\ \A n : Promises!Magnitude(n) = Magnitude(n)
    /\ \A n, den : Promises!Quo(n, den) = Quo(n, den)
    /\ \A q, n, den, mode : Promises!IsRounded(q, n, den, mode) <=> IsRounded(q, n, den, mode)
    /\ \A n \in Int, den \in Int \ {0} : Promises!Rem(n, den) = 0 <=> Divides(den, n)
<1>1. Promises!RoundingModes = RoundingModes /\ Promises!NearestModes = NearestModes
  BY DEF Promises!RoundingModes, RoundingModes, Promises!NearestModes, NearestModes,
         Promises!DirectedModes, DirectedModes
<1>2. \A n : Promises!Magnitude(n) = Magnitude(n)
  BY DEF Promises!Magnitude, Magnitude
<1>3. \A n, den : Promises!Quo(n, den) = Quo(n, den)
  BY <1>2 DEF Promises!Quo, Quo
<1>4. \A m, q, n, den, mode : Promises!IsRoundedTo(m, q, n, den, mode) <=> IsRoundedTo(m, q, n, den, mode)
  BY <1>1, <1>2 DEF Promises!IsRoundedTo, IsRoundedTo
<1>5. \A q, n, den, mode : Promises!IsRounded(q, n, den, mode) <=> IsRounded(q, n, den, mode)
  BY <1>4 DEF Promises!IsRounded, IsRounded
<1>6. \A n \in Int, den \in Int \ {0} : Promises!Rem(n, den) = 0 <=> Divides(den, n)
  <2>1. \A n, den : Promises!Rem(n, den) = Rem(n, den)
    BY <1>3 DEF Promises!Rem, Rem
  <2>2. \A n \in Int, den \in Int \ {0} : Rem(n, den) = 0 <=> Divides(den, n)
    BY NoRemainder
  <2> QED
    BY <2>1, <2>2
<1> QED
  BY <1>1, <1>2, <1>3, <1>5, <1>6

\* What the contract calls bad arguments
LEMMA PromisedArguments ==
    ASSUME pending \in CallerCalls
    PROVE  /\ Promises!ScaleIsBad <=>
                /\ Promise(pending) \notin {"Normalize", "Neg", "Abs", "Add", "Sub", "QuantizeStep", "QuantizeStepExact"}
                /\ ctx.scale < 0
           /\ Promises!ModeIsBad <=>
                /\ Promise(pending) \notin {"Normalize", "Neg", "Abs", "Add", "Sub"}
                /\ PromisedMode(pending) \notin RoundingModes
           /\ Promises!DivisorIsZero <=>
                /\ Promise(pending) \in {"Div", "DivToExact", "QuantizeStep", "QuantizeStepExact", "StepTo", "StepToExact"}
                /\ arg.coef = 0
<1>1. /\ AsPromised.op \in Promised /\ AsPromised.op = Promise(pending) /\ AsPromised.scale = ctx.scale
      /\ AsPromised.mode = PromisedMode(pending) /\ AsPromised.arg.num = arg.coef
      /\ ctx.scale \in Int /\ ctx.scale <= MaxScale
  BY PromiseFields DEF AsFraction
<1>2. ctx.scale \in 0 .. MaxScale <=> ~(ctx.scale < 0)
  BY <1>1, Table
<1>3. Promised \cap Promises!ExactOps = {"Normalize", "Neg", "Abs", "Add", "Sub"}
  BY DEF Promised, Promises!ExactOps
<1>4. AsPromised.op # "DivExact"
  BY <1>1 DEF Promised
<1>5. Promises!ScaleIsBad <=>
        /\ Promise(pending) \notin {"Normalize", "Neg", "Abs", "Add", "Sub", "QuantizeStep", "QuantizeStepExact"}
        /\ ctx.scale < 0
  BY <1>1, <1>2, <1>3, <1>4 DEF Promises!ScaleIsBad
<1>6. Promises!ModeIsBad <=>
        /\ Promise(pending) \notin {"Normalize", "Neg", "Abs", "Add", "Sub"}
        /\ PromisedMode(pending) \notin RoundingModes
  BY <1>1, <1>3, PromisedRounding DEF Promises!ModeIsBad
<1>7. Promises!DivisorIsZero <=>
        /\ Promise(pending) \in {"Div", "DivToExact", "QuantizeStep", "QuantizeStepExact", "StepTo", "StepToExact"}
        /\ arg.coef = 0
  BY <1>1, <1>4 DEF Promises!DivisorIsZero
<1> QED
  BY <1>5, <1>6, <1>7

\* The pending call returns, let through by its guard.
Returning(answer) == pending \in CallerCalls /\ Concluded("nil", answer, Into(pending))

LEMMA ReturningIs ==
    ASSUME NEW answer, Returning(answer)
    PROVE  /\ AsPromised' = Promises!NoCall /\ AsTerms' = Promises!NoTerms
           /\ failure' = answer.err
           /\ answer.err = "nil" => /\ Promises!Succeed
                                    /\ AsFraction(d)' = AsFraction(answer.val)
                                    /\ held'.currency = Into(pending)
           /\ answer.err # "nil" => Promises!Refuse(answer.err) /\ held' = held
<1>1. pending' = Idle /\ failure' = answer.err
  BY DEF Returning, Concluded
<1>2. AsPromised' = Promises!NoCall /\ AsTerms' = Promises!NoTerms
  BY <1>1 DEF AsPromised, AsTerms, Promises!NoCall, Promises!NoTerms
<1>3. ASSUME answer.err = "nil"
      PROVE  Promises!Succeed /\ AsFraction(d)' = AsFraction(answer.val) /\ held'.currency = Into(pending)
  <2>1. held' = Money(answer.val, Into(pending))
    BY <1>3 DEF Returning, Concluded
  <2>2. held'.amount = answer.val /\ held'.currency = Into(pending)
    BY <2>1 DEF Money
  <2>3. AsFraction(d)' = AsFraction(answer.val)
    BY <2>2 DEF AsFraction, d
  <2>4. Promises!Succeed
    BY <1>1, <1>2, <1>3 DEF Promises!Succeed
  <2> QED
    BY <2>2, <2>3, <2>4
<1>4. ASSUME answer.err # "nil" PROVE Promises!Refuse(answer.err) /\ held' = held
  <2>1. held' = held
    BY <1>4 DEF Returning, Concluded
  <2>2. AsFraction(d)' = AsFraction(d)
    BY <2>1 DEF AsFraction, d
  <2> QED
    BY <1>1, <1>2, <2>1, <2>2 DEF Promises!Refuse
<1> QED
  BY <1>1, <1>2, <1>3, <1>4

Honoured == Promises!Answer \/ Promises!RefuseArguments

\* Refused for its arguments
LEMMA HonouredBadArguments ==
    ASSUME NEW e, Returning(Fail(e)),
           \/ e = "ErrDivisionByZero" /\ Promises!DivisorIsZero
           \/ e = "ErrInvalidScale" /\ Promises!ScaleIsBad
           \/ e = "ErrInvalidRoundingMode" /\ Promises!ModeIsBad
    PROVE  Honoured
<1>1. Promises!Refuse(e)
  BY ReturningIs DEF Fail
<1>2. AsPromised # Promises!NoCall
  BY PromiseFields DEF Returning
<1> QED
  BY <1>1, <1>2 DEF Honoured, Promises!RefuseArguments

\* Answered with the number itself, whatever the scale it is written with
LEMMA HonouredExact ==
    ASSUME NEW x, Returning(Ok(x)), Promise(pending) \in {"Normalize", "Neg", "Abs", "Add", "Sub"},
           Promises!FracEq(AsFraction(x), Promises!ExactResult)
    PROVE  Honoured
<1>1. AsPromised.op \in Promises!ExactOps
  BY PromiseFields DEF Returning, Promises!ExactOps
<1>2. Promises!Succeed /\ AsFraction(d)' = AsFraction(x)
  BY ReturningIs DEF Ok
<1>3. Promises!ReturnExact
  BY <1>1, <1>2 DEF Promises!ReturnExact
<1> QED
  BY <1>3 DEF Honoured, Promises!Answer

\* A rounding of a number is one of the counts of the contract.
LEMMA CountedPromise ==
    ASSUME pending \in CallerCalls, NEW k \in Int, NEW num \in Int, NEW den \in Int \ {0}, NEW x, NEW g,
           num = x.num * g.den, den = x.den * g.num,
           IsRounded(k, num, den, PromisedMode(pending))
    PROVE  k \in Promises!Counts(x, g)
<1>1. k \in {Quo(num, den) - 1, Quo(num, den), Quo(num, den) + 1}
  BY RoundedNearby
<1>2. AsPromised.mode = PromisedMode(pending)
  BY PromiseFields
<1>3. Promises!Counts(x, g) = {j \in {Quo(num, den) - 1, Quo(num, den), Quo(num, den) + 1} :
                                 IsRounded(j, num, den, PromisedMode(pending))}
  BY <1>2, PromisedRounding DEF Promises!Counts
<1> QED
  BY <1>1, <1>3

\* Answered with a rounded number of steps of the grid
LEMMA HonouredRounded ==
    ASSUME NEW n, NEW scale, Returning(Ok(Dec(n, scale))),
           Promise(pending) \in Roundings \ {"StepTo"}, Promises!Answerable,
           NEW k \in Promises!StepCounts, n = k * Promises!Grid.num, Promises!Grid.den = Pow10[scale]
    PROVE  Honoured
<1>1. AsPromised.op \in Promises!RoundedOps
  BY PromiseFields DEF Returning, Promises!RoundedOps, Roundings
<1>2. Promises!Succeed /\ AsFraction(d)' = [num |-> n, den |-> Pow10[scale]]
  BY ReturningIs DEF Ok, AsFraction, Dec
<1>3. Promises!FracEq(AsFraction(d)', Promises!Frac(k * Promises!Grid.num, Promises!Grid.den))
  BY <1>2 DEF Promises!FracEq, Promises!Frac
<1>4. Promises!ReturnRounded
  BY <1>1, <1>2, <1>3 DEF Promises!ReturnRounded
<1> QED
  BY <1>4 DEF Honoured, Promises!Answer

\* Answered with all digits, because there are only so many
LEMMA HonouredUnrounded ==
    ASSUME NEW n, NEW scale, Returning(Ok(Dec(n, scale))),
           Promise(pending) \in Unroundings, Promises!Answerable, Promises!NothingToRound,
           n * Promises!Exact.den = Promises!Exact.num * Pow10[scale]
    PROVE  Honoured
<1>1. AsPromised.op \in Promises!ExactOnlyOps
  BY PromiseFields DEF Returning, Promises!ExactOnlyOps, Unroundings
<1>2. Promises!Succeed /\ AsFraction(d)' = [num |-> n, den |-> Pow10[scale]]
  BY ReturningIs DEF Ok, AsFraction, Dec
<1>3. Promises!ReturnExactOnly
  BY <1>1, <1>2 DEF Promises!ReturnExactOnly
<1> QED
  BY <1>3 DEF Honoured, Promises!Answer

\* Refused because something would have to be rounded
LEMMA HonouredInexact ==
    ASSUME Returning(Fail("ErrInexact")), Promise(pending) \in Unroundings, Promises!Answerable, ~Promises!NothingToRound
    PROVE  Honoured
<1>1. AsPromised.op \in Promises!ExactOnlyOps
  BY PromiseFields DEF Returning, Promises!ExactOnlyOps, Unroundings
<1>2. Promises!Refuse("ErrInexact")
  BY ReturningIs DEF Fail
<1> QED
  BY <1>1, <1>2 DEF Honoured, Promises!Answer, Promises!RefuseInexact

-----------------------------------------------------------------------------
(* Each promise is honoured. *)

\* Equal products have equal cofactors.
LEMMA Cancelled ==
    ASSUME NEW x \in Int, NEW y \in Int, NEW c \in Int \ {0}, x * c = y * c
    PROVE  x = y
<1>1. CASE c > 0
  BY <1>1, ScaledOrder
<1>2. CASE c < 0
  <2> DEFINE m == -c
  <2>1. m \in Int /\ m > 0 /\ x * m = y * m
    BY <1>2
  <2> HIDE DEF m
  <2> QED
    BY <2>1, ScaledOrder
<1> QED
  BY <1>1, <1>2

\* Two fractions that are equal go onto the same grids.
LEMMA SameOnGrid ==
    ASSUME NEW k \in Int, NEW p \in Int \ {0}, NEW n \in Int, NEW q \in Int \ {0}, NEW g \in Int, k * q = n * p
    PROVE  /\ \A j \in Int : j * p = k * g <=> j * q = n * g
           /\ Divides(p, k * g) <=> Divides(q, n * g)
<1>1. ASSUME NEW j \in Int PROVE j * p = k * g <=> j * q = n * g
  <2> DEFINE jp == j * p
             kg == k * g
             jq == j * q
             ng == n * g
  <2>1. jp \in Int /\ kg \in Int /\ jq \in Int /\ ng \in Int
    OBVIOUS
  <2>2. jp * q = jq * p
    OBVIOUS
  <2>3. kg * q = (k * q) * g
    OBVIOUS
  <2>4. ng * p = (n * p) * g
    OBVIOUS
  <2>5. kg * q = ng * p
    BY <2>3, <2>4
  <2> HIDE DEF jp, kg, jq, ng
  <2>6. jp = kg => jq * p = ng * p
    BY <2>2, <2>5
  <2>7. jq = ng => jp * q = kg * q
    BY <2>2, <2>5
  <2>8. jp = kg <=> jq = ng
    BY <2>1, <2>6, <2>7, Cancelled
  <2> QED
    BY <2>8 DEF jp, kg, jq, ng
<1> QED
  BY <1>1 DEF Divides

\* The exact number, and the grids
LEMMA PromisedNumbers ==
    ASSUME pending \in CallerCalls
    PROVE  /\ Promise(pending) \in {"Rescale", "RescaleExact", "StepTo", "StepToExact", "QuantizeStep", "QuantizeStepExact"}
                => Promises!Exact.num = d.coef /\ Promises!Exact.den = Pow10[d.scale]
           /\ Promise(pending) \in {"Div", "DivToExact"}
                => /\ Promises!Exact.num = d.coef * Pow10[arg.scale]
                   /\ Promises!Exact.den = Pow10[d.scale] * arg.coef
           /\ Promises!ScaleGrid.num = 1 /\ Promises!ScaleGrid.den = Pow10[ctx.scale]
           /\ Promises!StepGrid.num = Magnitude(arg.coef) /\ Promises!StepGrid.den = Pow10[arg.scale]
           /\ Promises!Grid = IF Promise(pending) \in {"QuantizeStep", "QuantizeStepExact"} THEN Promises!StepGrid
                              ELSE Promises!ScaleGrid
           /\ Promise(pending) # "StepToExact" => (Promises!NothingToRound <=> Promises!OnGrid(Promises!Grid))
           /\ Promise(pending) = "StepToExact" =>
                (Promises!NothingToRound <=> Promises!OnGrid(Promises!StepGrid) /\ Promises!OnGrid(Promises!ScaleGrid))
           /\ Promises!Answerable <=> ~Promises!DivisorIsZero /\ ~Promises!ScaleIsBad /\ ~Promises!ModeIsBad
<1> DEFINE promise == Promise(pending)
<1>1. /\ AsPromised.op = promise /\ promise \in Promised /\ AsPromised.scale = ctx.scale
      /\ AsPromised.arg = AsFraction(arg)
  BY PromiseFields
<1>2. promise # "DivExact"
  BY <1>1 DEF Promised
<1> HIDE DEF promise
<1>3. promise \in {"Rescale", "RescaleExact", "StepTo", "StepToExact", "QuantizeStep", "QuantizeStepExact"}
        => Promises!Exact.num = d.coef /\ Promises!Exact.den = Pow10[d.scale]
  BY <1>1 DEF Promises!Exact, AsFraction
<1>4. promise \in {"Div", "DivToExact"}
        => /\ Promises!Exact.num = d.coef * Pow10[arg.scale]
           /\ Promises!Exact.den = Pow10[d.scale] * arg.coef
  BY <1>1 DEF Promises!Exact, AsFraction
<1>5. Promises!ScaleGrid.num = 1 /\ Promises!ScaleGrid.den = Pow10[ctx.scale]
  BY <1>1 DEF Promises!ScaleGrid, Promises!Frac
<1>6. Promises!StepGrid.num = Magnitude(arg.coef) /\ Promises!StepGrid.den = Pow10[arg.scale]
  BY <1>1, PromisedRounding DEF Promises!StepGrid, Promises!Frac, AsFraction
<1>7. /\ promise # "StepToExact" => (Promises!NothingToRound <=> Promises!OnGrid(Promises!Grid))
      /\ promise = "StepToExact" =>
           (Promises!NothingToRound <=> Promises!OnGrid(Promises!StepGrid) /\ Promises!OnGrid(Promises!ScaleGrid))
  BY <1>1, <1>2 DEF Promises!NothingToRound
<1> QED
  BY <1>1, <1>3, <1>4, <1>5, <1>6, <1>7 DEF Promises!Grid, Promises!Answerable, promise

\* A number rounded to the scale of the call, or left unless it must be rounded
LEMMA HonouredRescale ==
    ASSUME Promise(pending) \in {"Rescale", "MulTo", "AddTo", "SubTo"}, NEW x, Valid(x),
           Promises!Exact.num = x.coef, Promises!Exact.den = Pow10[x.scale],
           Returning(Rescale(x, ctx.scale, ctx.rounding))
    PROVE  Honoured
<1> DEFINE scale == ctx.scale
           mode == ctx.rounding
           c == x.coef
           k == Shifted(c, x.scale, scale, mode)
           g == Pow10[scale]
           f == Pow10[x.scale]
           result == Rescale(x, scale, mode)
<1>1. pending \in CallerCalls /\ scale \in Int /\ scale <= MaxScale /\ PromisedMode(pending) = mode
  BY PromiseFields, PromisedModeIs DEF Returning, Roundings
<1>2. /\ result = IF scale < 0 THEN Fail("ErrInvalidScale")
                  ELSE IF mode \notin RoundingModes THEN Fail("ErrInvalidRoundingMode")
                  ELSE Ok(Dec(k, scale))
      /\ scale >= 0 /\ mode \in RoundingModes => k \in Int /\ IsRounded(k, c * g, f, mode)
  BY <1>1, RescaleIsRounded
<1>3. /\ Promises!ScaleIsBad <=> scale < 0
      /\ Promises!ModeIsBad <=> mode \notin RoundingModes
      /\ ~Promises!DivisorIsZero
  BY <1>1, PromisedArguments
<1>4. CASE scale < 0 \/ mode \notin RoundingModes
  <2> HIDE DEF k, g, f, c
  <2> QED
    BY <1>2, <1>3, <1>4, HonouredBadArguments
<1>5. CASE scale >= 0 /\ mode \in RoundingModes
  <2>1. scale \in 0 .. MaxScale /\ ~(scale < 0)
    BY <1>1, <1>5
  <2>2. c \in Int /\ g \in Nat \ {0} /\ f \in Nat \ {0}
    BY <2>1, ValidFields, Table
  <2>3. k \in Int /\ IsRounded(k, c * g, f, mode) /\ result = Ok(Dec(k, scale))
    BY <1>2, <1>5, <2>1
  <2>4. /\ Promises!Grid.num = 1 /\ Promises!Grid.den = g /\ Promises!Answerable
    BY <1>1, <1>3, <1>5, <2>1, PromisedNumbers
  <2> HIDE DEF k, f, g, c, result
  <2>5. c * g \in Int /\ f \in Int \ {0} /\ f = f * 1 /\ k = k * 1
    BY <2>2, <2>3
  <2>6. k \in Promises!StepCounts
    <3>1. c * g = Promises!Exact.num * Promises!Grid.den /\ f = Promises!Exact.den * Promises!Grid.num
      BY <2>4, <2>5 DEF c, f
    <3>2. k \in Promises!Counts(Promises!Exact, Promises!Grid)
      BY <1>1, <2>3, <2>5, <3>1, CountedPromise
    <3> QED
      BY <3>2 DEF Promises!StepCounts
  <2>7. k = k * Promises!Grid.num /\ Promises!Grid.den = Pow10[scale] /\ Returning(Ok(Dec(k, scale)))
    BY <2>3, <2>4, <2>5 DEF g, result
  <2> QED
    BY <2>4, <2>6, <2>7, HonouredRounded DEF Roundings
<1> QED
  BY <1>1, <1>4, <1>5

LEMMA HonouredRescaleExact ==
    ASSUME Promise(pending) \in {"RescaleExact", "MulExact", "AddExact", "SubExact"}, LetThrough, NEW x, Valid(x),
           Promises!Exact.num = x.coef, Promises!Exact.den = Pow10[x.scale],
           Returning(RescaleExact(x, ctx.scale))
    PROVE  Honoured
<1> DEFINE scale == ctx.scale
           c == x.coef
           g == Pow10[scale]
           f == Pow10[x.scale]
           result == RescaleExact(x, scale)
<1>1. pending \in CallerCalls /\ scale \in Int /\ scale <= MaxScale /\ PromisedMode(pending) \in RoundingModes
  BY PromiseFields, PromisedModeIs DEF Returning, Unroundings
<1>2. /\ Promises!ScaleIsBad <=> scale < 0
      /\ ~Promises!ModeIsBad /\ ~Promises!DivisorIsZero
  BY <1>1, PromisedArguments
<1>3. CASE scale < 0
  <2>1. result = Fail("ErrInvalidScale")
    BY <1>1, <1>3, RescaleExactIsExact
  <2> QED
    BY <1>2, <1>3, <2>1, HonouredBadArguments
<1>4. CASE scale >= 0
  <2>1. scale \in 0 .. MaxScale /\ ~(scale < 0)
    BY <1>1, <1>4
  <2>2. \/ result = Fail("ErrInexact") /\ ~Divides(f, c * g)
        \/ \E k \in Int : result = Ok(Dec(k, scale)) /\ k * f = c * g
    BY <1>1, <1>4, RescaleExactIsExact
  <2>3. c \in Int /\ g \in Nat \ {0} /\ f \in Nat \ {0}
    BY <2>1, ValidFields, Table
  <2>4. /\ Promises!Grid.num = 1 /\ Promises!Grid.den = g /\ Promises!Answerable
        /\ Promises!NothingToRound <=> Promises!OnGrid(Promises!Grid)
    BY <1>1, <1>2, <2>1, PromisedNumbers
  <2>5. Promises!Exact.num = c /\ Promises!Exact.den = f
    OBVIOUS
  <2> HIDE DEF c, f, g, result
  <2>6. c * g \in Int /\ f \in Int \ {0} /\ f * 1 = f
    BY <2>3
  <2>7. Promises!NothingToRound <=> Divides(f, c * g)
    BY <2>4, <2>5, <2>6, PromisedRounding DEF Promises!OnGrid
  <2>8. CASE result = Fail("ErrInexact") /\ ~Divides(f, c * g)
    <3>1. Returning(Fail("ErrInexact"))
      BY <2>8 DEF result
    <3> QED
      BY <2>4, <2>7, <2>8, <3>1, HonouredInexact DEF Unroundings
  <2>9. ASSUME NEW k \in Int, result = Ok(Dec(k, scale)), k * f = c * g PROVE Honoured
    <3>1. k * Promises!Exact.den = Promises!Exact.num * Pow10[scale]
      BY <2>5, <2>9 DEF g
    <3>2. Promises!NothingToRound
      BY <2>7, <2>9 DEF Divides
    <3>3. Returning(Ok(Dec(k, scale)))
      BY <2>9 DEF result
    <3> QED
      BY <2>4, <3>1, <3>2, <3>3, HonouredUnrounded DEF Unroundings
  <2> QED
    BY <2>2, <2>8, <2>9
<1> QED
  BY <1>1, <1>3, <1>4

LEMMA HonouredQuotient ==
    ASSUME Promise(pending) = "Div", Valid(d), Returning(CtxDiv(ctx, d, arg))
    PROVE  Honoured
<1> DEFINE scale == ctx.scale
           mode == ctx.rounding
           k == Quotient(d.coef, d.scale, arg.coef, arg.scale, scale, mode)
           g == Pow10[scale]
           f == Pow10[d.scale]
           t == Pow10[arg.scale]
           u == d.coef
           v == arg.coef
           num == (u * t) * g
           den == f * v
           result == Div(d, arg, scale, mode)
<1>1. /\ pending \in CallerCalls /\ scale \in Int /\ scale <= MaxScale /\ PromisedMode(pending) = mode /\ Valid(arg)
      /\ Returning(result)
  BY PromiseFields, PromisedModeIs DEF Returning, Roundings, CtxDiv
<1>2. /\ result = IF v = 0 THEN Fail("ErrDivisionByZero")
                  ELSE IF scale < 0 THEN Fail("ErrInvalidScale")
                  ELSE IF mode \notin RoundingModes THEN Fail("ErrInvalidRoundingMode")
                  ELSE Ok(Dec(k, scale))
      /\ v # 0 /\ scale >= 0 /\ mode \in RoundingModes => k \in Int /\ IsRounded(k, num, den, mode)
  BY <1>1, DivIsRounded
<1>3. /\ Promises!ScaleIsBad <=> scale < 0
      /\ Promises!ModeIsBad <=> mode \notin RoundingModes
      /\ Promises!DivisorIsZero <=> v = 0
  BY <1>1, PromisedArguments
<1>4. CASE v = 0 \/ scale < 0 \/ mode \notin RoundingModes
  <2> HIDE DEF k, u, v, t, f, g
  <2> QED
    BY <1>1, <1>2, <1>3, <1>4, HonouredBadArguments
<1>5. CASE v # 0 /\ scale >= 0 /\ mode \in RoundingModes
  <2>1. scale \in 0 .. MaxScale /\ ~(scale < 0)
    BY <1>1, <1>5
  <2>2. g \in Nat \ {0} /\ f \in Nat \ {0} /\ t \in Nat \ {0} /\ u \in Int /\ v \in Int \ {0}
    BY <1>1, <1>5, <2>1, ValidFields, Table
  <2>3. k \in Int /\ IsRounded(k, num, den, mode) /\ result = Ok(Dec(k, scale))
    BY <1>2, <1>5, <2>1
  <2>4. /\ Promises!Exact.num = u * t /\ Promises!Exact.den = den
        /\ Promises!Grid.num = 1 /\ Promises!Grid.den = g /\ Promises!Answerable
    BY <1>1, <1>3, <1>5, <2>1, PromisedNumbers
  <2> HIDE DEF k, f, g, t, u, v, result
  <2>5. u * t \in Int /\ num \in Int /\ den \in Int \ {0} /\ den = den * 1 /\ k = k * 1
    BY <2>2, <2>3
  <2>6. k \in Promises!StepCounts
    <3>1. num = Promises!Exact.num * Promises!Grid.den /\ den = Promises!Exact.den * Promises!Grid.num
      BY <2>4, <2>5
    <3> HIDE DEF num, den
    <3>2. k \in Promises!Counts(Promises!Exact, Promises!Grid)
      BY <1>1, <2>3, <2>5, <3>1, CountedPromise
    <3> QED
      BY <3>2 DEF Promises!StepCounts
  <2>7. k = k * Promises!Grid.num /\ Promises!Grid.den = Pow10[scale] /\ Returning(Ok(Dec(k, scale)))
    BY <1>1, <2>3, <2>4, <2>5 DEF g
  <2> QED
    BY <2>4, <2>6, <2>7, HonouredRounded DEF Roundings
<1> QED
  BY <1>1, <1>4, <1>5

LEMMA HonouredStep ==
    ASSUME Promise(pending) = "QuantizeStep", Valid(d), Returning(QuantizeStep(d, arg, ctx.rounding))
    PROVE  Honoured
<1> DEFINE mode == ctx.rounding
           m == Magnitude(arg.coef)
           k == Quotient(d.coef, d.scale, m, arg.scale, 0, mode)
           f == Pow10[d.scale]
           t == Pow10[arg.scale]
           u == d.coef
           num == u * t
           den == f * m
           result == QuantizeStep(d, arg, mode)
<1>1. pending \in CallerCalls /\ Valid(arg) /\ PromisedMode(pending) = mode
  BY PromiseFields, PromisedModeIs DEF Returning, Roundings
<1>2. /\ result = IF arg.coef = 0 THEN Fail("ErrDivisionByZero")
                  ELSE IF mode \notin RoundingModes THEN Fail("ErrInvalidRoundingMode")
                  ELSE Ok(Dec(k * m, arg.scale))
      /\ arg.coef # 0 /\ mode \in RoundingModes => k \in Int /\ m \in Int \ {0} /\ IsRounded(k, num, den, mode)
  BY <1>1, QuantizeStepIsRounded
<1>3. /\ ~Promises!ScaleIsBad
      /\ Promises!ModeIsBad <=> mode \notin RoundingModes
      /\ Promises!DivisorIsZero <=> arg.coef = 0
  BY <1>1, PromisedArguments
<1>4. CASE arg.coef = 0 \/ mode \notin RoundingModes
  <2> HIDE DEF k, m
  <2> QED
    BY <1>2, <1>3, <1>4, HonouredBadArguments
<1>5. CASE arg.coef # 0 /\ mode \in RoundingModes
  <2>1. f \in Nat \ {0} /\ t \in Nat \ {0} /\ u \in Int
    BY <1>1, ValidFields
  <2>2. k \in Int /\ m \in Int \ {0} /\ IsRounded(k, num, den, mode) /\ result = Ok(Dec(k * m, arg.scale))
    BY <1>2, <1>5
  <2>3. /\ Promises!Exact.num = u /\ Promises!Exact.den = f
        /\ Promises!Grid.num = m /\ Promises!Grid.den = t /\ Promises!Answerable
    BY <1>1, <1>3, <1>5, PromisedNumbers
  <2> HIDE DEF k, f, t, u, m, result
  <2>4. num \in Int /\ den \in Int \ {0}
    BY <2>1, <2>2
  <2>5. k \in Promises!StepCounts
    <3>1. num = Promises!Exact.num * Promises!Grid.den /\ den = Promises!Exact.den * Promises!Grid.num
      BY <2>3
    <3> HIDE DEF num, den
    <3>2. k \in Promises!Counts(Promises!Exact, Promises!Grid)
      BY <1>1, <2>2, <2>4, <3>1, CountedPromise
    <3> QED
      BY <3>2 DEF Promises!StepCounts
  <2>6. k * m = k * Promises!Grid.num /\ Promises!Grid.den = Pow10[arg.scale] /\ Returning(Ok(Dec(k * m, arg.scale)))
    BY <2>2, <2>3 DEF t, result
  <2> QED
    BY <2>3, <2>5, <2>6, HonouredRounded DEF Roundings
<1> QED
  BY <1>4, <1>5

LEMMA HonouredStepExact ==
    ASSUME Promise(pending) = "QuantizeStepExact", LetThrough, Valid(d), QuotientFits(d, arg),
           Returning(QuantizeStepExact(d, arg))
    PROVE  Honoured
<1> DEFINE m == Magnitude(arg.coef)
           u == d.coef
           p == Pow10[d.scale]
           q == Pow10[arg.scale]
           result == QuantizeStepExact(d, arg)
<1>1. pending \in CallerCalls /\ Valid(arg) /\ PromisedMode(pending) \in RoundingModes
  BY PromiseFields, PromisedModeIs DEF Returning, Unroundings
<1>2. ~Promises!ScaleIsBad /\ ~Promises!ModeIsBad /\ (Promises!DivisorIsZero <=> arg.coef = 0)
  BY <1>1, PromisedArguments
<1>3. CASE arg.coef = 0
  <2>1. result = Fail("ErrDivisionByZero")
    BY <1>3 DEF QuantizeStepExact, IsZero
  <2> QED
    BY <1>2, <1>3, <2>1, HonouredBadArguments
<1>4. CASE arg.coef # 0
  <2>1. \/ result = Fail("ErrInexact") /\ ~Divides(p * m, u * q)
        \/ \E k \in Int : result = Ok(Dec(k * m, arg.scale)) /\ k * (p * m) = u * q
    BY <1>1, <1>4, QuantizeStepExactIsExact
  <2>2. /\ u \in Int /\ m \in Int \ {0} /\ p \in Nat \ {0} /\ q \in Nat \ {0}
    BY <1>1, <1>4, ValidFields DEF Magnitude
  <2>3. /\ Promises!Exact.num = u /\ Promises!Exact.den = p
        /\ Promises!Grid.num = m /\ Promises!Grid.den = q
        /\ Promises!NothingToRound <=> Promises!OnGrid(Promises!Grid)
        /\ Promises!Answerable
    BY <1>1, <1>2, <1>4, PromisedNumbers
  <2> HIDE DEF u, m, p, q, result
  <2>4. u * q \in Int /\ p * m \in Int \ {0}
    BY <2>2
  <2>5. Promises!NothingToRound <=> Divides(p * m, u * q)
    BY <2>3, <2>4, PromisedRounding DEF Promises!OnGrid
  <2>6. CASE result = Fail("ErrInexact") /\ ~Divides(p * m, u * q)
    <3>1. Returning(Fail("ErrInexact"))
      BY <2>6 DEF result
    <3> QED
      BY <2>3, <2>5, <2>6, <3>1, HonouredInexact DEF Unroundings
  <2>7. ASSUME NEW k \in Int, result = Ok(Dec(k * m, arg.scale)), k * (p * m) = u * q
        PROVE  Honoured
    <3>1. Promises!NothingToRound
      BY <2>5, <2>7 DEF Divides
    <3>2. Returning(Ok(Dec(k * m, arg.scale)))
      BY <2>7 DEF result
    <3>3. (k * m) * p = u * q
      BY <2>2, <2>7
    <3>4. (k * m) * Promises!Exact.den = Promises!Exact.num * Pow10[arg.scale]
      BY <2>3, <3>3 DEF q
    <3> QED
      BY <2>3, <3>1, <3>2, <3>4, HonouredUnrounded DEF Unroundings
  <2> QED
    BY <2>1, <2>6, <2>7
<1> QED
  BY <1>3, <1>4

\* Rounded to a multiple of the argument, and the multiple to the scale
LEMMA HonouredStepTo ==
    ASSUME Promise(pending) = "StepTo", LetThrough, Valid(d), Returning(CtxQuantizeStep(ctx, d, arg))
    PROVE  Honoured
<1> DEFINE scale == ctx.scale
           mode == ctx.rounding
           m == Magnitude(arg.coef)
           k == Quotient(d.coef, d.scale, m, arg.scale, 0, mode)
           f == Pow10[d.scale]
           t == Pow10[arg.scale]
           g == Pow10[scale]
           u == d.coef
           num == u * t
           den == f * m
           first == QuantizeStep(d, arg, mode)
           result == CtxQuantizeStep(ctx, d, arg)
<1>1. /\ pending \in CallerCalls /\ Valid(arg) /\ PromisedMode(pending) = mode
      /\ scale \in Int /\ scale <= MaxScale /\ pending.type # "Money" /\ pending.op # "NewMoney"
  <2>1. pending \in CallerCalls
    BY DEF Returning
  <2>2. pending.type # "Money" => pending.op # "NewMoney"
    BY PromiseTable
  <2> QED
    BY <2>1, <2>2, PromiseFields, PromisedModeIs DEF Roundings
<1>2. scale \in 0 .. MaxScale /\ ~(scale < 0) /\ mode \in RoundingModes
  BY <1>1 DEF LetThrough
<1>3. /\ first = IF arg.coef = 0 THEN Fail("ErrDivisionByZero") ELSE Ok(Dec(k * m, arg.scale))
      /\ arg.coef # 0 => k \in Int /\ m \in Int \ {0} /\ IsRounded(k, num, den, mode)
  BY <1>1, <1>2, QuantizeStepIsRounded
<1>4. ~Promises!ScaleIsBad /\ ~Promises!ModeIsBad /\ (Promises!DivisorIsZero <=> arg.coef = 0)
  BY <1>1, <1>2, PromisedArguments
<1>5. result = IF first.err = "nil" THEN Rescale(first.val, scale, mode) ELSE first
  BY DEF CtxQuantizeStep, Quantize, Then
<1>6. CASE arg.coef = 0
  <2>1. first = Fail("ErrDivisionByZero")
    BY <1>3, <1>6
  <2> HIDE DEF first
  <2>2. result = Fail("ErrDivisionByZero")
    BY <1>5, <2>1 DEF Fail
  <2> QED
    BY <1>4, <1>6, <2>2, HonouredBadArguments
<1>7. CASE arg.coef # 0
  <2> DEFINE x == Dec(k * m, arg.scale)
             n == Shifted(k * m, arg.scale, scale, mode)
  <2>1. /\ f \in Nat \ {0} /\ t \in Nat \ {0} /\ g \in Nat \ {0} /\ u \in Int
        /\ k \in Int /\ m \in Int \ {0} /\ IsRounded(k, num, den, mode)
    BY <1>1, <1>2, <1>3, <1>7, ValidFields, Table
  <2>2. first = Ok(x)
    BY <1>3, <1>7
  <2>3. /\ Promises!StepGrid.num = m /\ Promises!StepGrid.den = t
        /\ Promises!ScaleGrid.num = 1 /\ Promises!ScaleGrid.den = g
        /\ Promises!Answerable
    BY <1>1, <1>4, <1>7, PromisedNumbers
  <2> HIDE DEF k, m, u, f, t, g, first, result
  <2>4. num \in Int /\ den \in Int \ {0} /\ k * m \in Int
    BY <2>1
  <2>5. Valid(x) /\ x.coef = k * m /\ x.scale = arg.scale
    BY <1>1, <2>4, ValidFields DEF Valid, Dec
  <2>6. result = Ok(Dec(n, scale)) /\ n \in Int /\ IsRounded(n, (k * m) * g, t, mode)
    <3>1. result = Rescale(x, scale, mode)
      BY <1>5, <2>2 DEF Ok
    <3> HIDE DEF x
    <3> QED
      BY <1>1, <1>2, <2>5, <3>1, RescaleIsRounded DEF g, t
  <2>7. k \in Promises!Counts(AsFraction(d), Promises!StepGrid)
    <3>1. num = AsFraction(d).num * Promises!StepGrid.den /\ den = AsFraction(d).den * Promises!StepGrid.num
      BY <2>3 DEF AsFraction, u, f
    <3> HIDE DEF num, den
    <3> QED
      BY <1>1, <2>1, <2>4, <3>1, CountedPromise
  <2>8. n \in Promises!Counts(Promises!Frac(k * Promises!StepGrid.num, Promises!StepGrid.den), Promises!ScaleGrid)
    <3> DEFINE y == Promises!Frac(k * Promises!StepGrid.num, Promises!StepGrid.den)
               ng == (k * m) * g
    <3>1. y.num = k * m /\ y.den = t
      BY <2>3 DEF Promises!Frac
    <3>2. ng \in Int /\ t \in Int \ {0} /\ ng = y.num * Promises!ScaleGrid.den /\ t = y.den * Promises!ScaleGrid.num
      BY <2>1, <2>3, <2>4, <3>1
    <3>3. IsRounded(n, ng, t, PromisedMode(pending)) /\ n \in Int
      BY <1>1, <2>6
    <3> HIDE DEF y, ng, n
    <3>4. n \in Promises!Counts(y, Promises!ScaleGrid)
      BY <1>1, <3>2, <3>3, CountedPromise
    <3> QED
      BY <3>4 DEF y
  <2> HIDE DEF n, x
  <2>9. Promises!Succeed /\ AsFraction(d)' = [num |-> n, den |-> g]
    <3>1. Returning(Ok(Dec(n, scale)))
      BY <2>6 DEF result
    <3> QED
      BY <3>1, ReturningIs DEF Ok, AsFraction, Dec, g
  <2>10. Promises!FracEq(AsFraction(d)', Promises!Frac(n, Promises!ScaleGrid.den))
    BY <2>3, <2>9 DEF Promises!FracEq, Promises!Frac
  <2>11. AsPromised.op \in Promises!SteppedOps
    BY <1>1, PromiseFields DEF Promises!SteppedOps
  <2>12. Promises!ReturnStepped
    BY <2>3, <2>7, <2>8, <2>9, <2>10, <2>11 DEF Promises!ReturnStepped
  <2> QED
    BY <2>12 DEF Honoured, Promises!Answer
<1> QED
  BY <1>6, <1>7

\* The exact quotient, at the scale of the policy unless a digit would be lost
LEMMA HonouredDivToExact ==
    ASSUME Promise(pending) = "DivToExact", LetThrough, Valid(d), QuotientFits(d, arg),
           Returning(CtxDivExact(ctx, d, arg))
    PROVE  Honoured
<1> DEFINE scale == ctx.scale
           g == Pow10[scale]
           n == d.coef * Pow10[arg.scale]
           q == Pow10[d.scale] * arg.coef
           first == DivExact(d, arg)
           result == CtxDivExact(ctx, d, arg)
<1>1. /\ pending \in CallerCalls /\ Valid(arg) /\ PromisedMode(pending) \in RoundingModes
      /\ scale \in Int /\ scale <= MaxScale /\ pending.type # "Money" /\ pending.op # "NewMoney"
  <2>1. pending \in CallerCalls
    BY DEF Returning
  <2>2. pending.type # "Money" => pending.op # "NewMoney"
    BY PromiseTable
  <2> QED
    BY <2>1, <2>2, PromiseFields, PromisedModeIs DEF Unroundings
<1>2. scale \in 0 .. MaxScale /\ ~(scale < 0)
  BY <1>1 DEF LetThrough
<1>3. ~Promises!ScaleIsBad /\ ~Promises!ModeIsBad /\ (Promises!DivisorIsZero <=> arg.coef = 0)
  BY <1>1, <1>2, PromisedArguments
<1>4. result = IF first.err = "nil" THEN RescaleExact(first.val, scale) ELSE first
  BY DEF CtxDivExact, QuantizeExact, Then
<1>5. CASE arg.coef = 0
  <2>1. first = Fail("ErrDivisionByZero")
    BY <1>5 DEF DivExact, IsZero
  <2> HIDE DEF first
  <2>2. result = Fail("ErrDivisionByZero")
    BY <1>4, <2>1 DEF Fail
  <2> QED
    BY <1>3, <1>5, <2>2, HonouredBadArguments
<1>6. CASE arg.coef # 0
  <2>1. \/ first = Fail("ErrInexact") /\ ~Divides(q, n * g)
        \/ \E k \in Int, s \in 0 .. MaxScale : first = Ok(Dec(k, s)) /\ k * q = n * Pow10[s]
    BY <1>1, <1>2, <1>6, DivExactIsExact
  <2>2. n \in Int /\ q \in Int \ {0} /\ g \in Nat \ {0}
    <3> DEFINE u == d.coef
               v == arg.coef
               f == Pow10[d.scale]
               t == Pow10[arg.scale]
    <3>1. u \in Int /\ v \in Int \ {0} /\ f \in Nat \ {0} /\ t \in Nat \ {0} /\ g \in Nat \ {0}
      BY <1>1, <1>2, <1>6, ValidFields, Table
    <3> HIDE DEF u, v, f, t, g
    <3>2. u * t \in Int /\ f * v \in Int \ {0}
      BY <3>1
    <3> QED
      BY <3>1, <3>2 DEF u, v, f, t
  <2>3. /\ Promises!Exact.num = n /\ Promises!Exact.den = q
        /\ Promises!Grid.num = 1 /\ Promises!Grid.den = g /\ Promises!Answerable
        /\ Promises!NothingToRound <=> Promises!OnGrid(Promises!Grid)
    BY <1>1, <1>3, <1>6, PromisedNumbers
  <2> HIDE DEF n, q, g, first, result
  <2>4. n * g \in Int /\ q * 1 = q
    BY <2>2
  <2>5. Promises!NothingToRound <=> Divides(q, n * g)
    BY <2>2, <2>3, <2>4, PromisedRounding DEF Promises!OnGrid
  <2>6. CASE result = Fail("ErrInexact") /\ ~Divides(q, n * g)
    <3>1. Returning(Fail("ErrInexact"))
      BY <2>6 DEF result
    <3> QED
      BY <2>3, <2>5, <2>6, <3>1, HonouredInexact DEF Unroundings
  <2>7. ASSUME NEW j \in Int, result = Ok(Dec(j, scale)), j * q = n * g PROVE Honoured
    <3>1. j * Promises!Exact.den = Promises!Exact.num * Pow10[scale]
      BY <2>3, <2>7 DEF g
    <3>2. Promises!NothingToRound
      BY <2>5, <2>7 DEF Divides
    <3>3. Returning(Ok(Dec(j, scale)))
      BY <2>7 DEF result
    <3> QED
      BY <2>3, <3>1, <3>2, <3>3, HonouredUnrounded DEF Unroundings
  <2>8. CASE first = Fail("ErrInexact") /\ ~Divides(q, n * g)
    <3>1. result = Fail("ErrInexact")
      BY <1>4, <2>8 DEF Fail
    <3> QED
      BY <2>6, <2>8, <3>1
  <2>9. ASSUME NEW k \in Int, NEW s \in 0 .. MaxScale, first = Ok(Dec(k, s)), k * q = n * Pow10[s]
        PROVE  Honoured
    <3> DEFINE x == Dec(k, s)
               p == Pow10[s]
    <3>1. Valid(x) /\ x.coef = k /\ x.scale = s
      BY ResultsAreReturnable DEF Dec
    <3>2. result = RescaleExact(x, scale)
      BY <1>4, <2>9 DEF Ok
    <3>3. p \in Int \ {0} /\ g \in Int
      BY <2>2, Table
    <3>4. \/ result = Fail("ErrInexact") /\ ~Divides(p, k * g)
          \/ \E j \in Int : result = Ok(Dec(j, scale)) /\ j * p = k * g
      <4> HIDE DEF x
      <4> QED
        BY <1>1, <1>2, <3>1, <3>2, RescaleExactIsExact DEF g
    <3>5. k * q = n * p
      BY <2>9
    <3> HIDE DEF p, x
    <3>6. /\ \A j \in Int : j * p = k * g <=> j * q = n * g
          /\ Divides(p, k * g) <=> Divides(q, n * g)
      BY <2>2, <3>3, <3>5, SameOnGrid
    <3> QED
      BY <2>6, <2>7, <3>4, <3>6
  <2> QED
    BY <2>1, <2>8, <2>9
<1> QED
  BY <1>5, <1>6

\* The number itself, when it is a multiple of the argument and no digit is lost
LEMMA HonouredStepToExact ==
    ASSUME Promise(pending) = "StepToExact", LetThrough, Valid(d), QuotientFits(d, arg),
           Returning(CtxQuantizeStepExact(ctx, d, arg))
    PROVE  Honoured
<1> DEFINE scale == ctx.scale
           m == Magnitude(arg.coef)
           u == d.coef
           p == Pow10[d.scale]
           q == Pow10[arg.scale]
           g == Pow10[scale]
           first == QuantizeStepExact(d, arg)
           result == CtxQuantizeStepExact(ctx, d, arg)
<1>1. /\ pending \in CallerCalls /\ Valid(arg) /\ PromisedMode(pending) \in RoundingModes
      /\ scale \in Int /\ scale <= MaxScale /\ pending.type # "Money" /\ pending.op # "NewMoney"
  <2>1. pending \in CallerCalls
    BY DEF Returning
  <2>2. pending.type # "Money" => pending.op # "NewMoney"
    BY PromiseTable
  <2> QED
    BY <2>1, <2>2, PromiseFields, PromisedModeIs DEF Unroundings
<1>2. scale \in 0 .. MaxScale /\ ~(scale < 0)
  BY <1>1 DEF LetThrough
<1>3. ~Promises!ScaleIsBad /\ ~Promises!ModeIsBad /\ (Promises!DivisorIsZero <=> arg.coef = 0)
  BY <1>1, <1>2, PromisedArguments
<1>4. result = IF first.err = "nil" THEN RescaleExact(first.val, scale) ELSE first
  BY DEF CtxQuantizeStepExact, QuantizeExact, Then
<1>5. CASE arg.coef = 0
  <2>1. first = Fail("ErrDivisionByZero")
    BY <1>5 DEF QuantizeStepExact, IsZero
  <2> HIDE DEF first
  <2>2. result = Fail("ErrDivisionByZero")
    BY <1>4, <2>1 DEF Fail
  <2> QED
    BY <1>3, <1>5, <2>2, HonouredBadArguments
<1>6. CASE arg.coef # 0
  <2>1. \/ first = Fail("ErrInexact") /\ ~Divides(p * m, u * q)
        \/ \E k \in Int : first = Ok(Dec(k * m, arg.scale)) /\ k * (p * m) = u * q
    BY <1>1, <1>6, QuantizeStepExactIsExact
  <2>2. u \in Int /\ m \in Int \ {0} /\ p \in Nat \ {0} /\ q \in Nat \ {0} /\ g \in Nat \ {0}
    BY <1>1, <1>2, <1>6, ValidFields, Table DEF Magnitude
  <2>3. /\ Promises!Exact.num = u /\ Promises!Exact.den = p
        /\ Promises!StepGrid.num = m /\ Promises!StepGrid.den = q
        /\ Promises!ScaleGrid.num = 1 /\ Promises!ScaleGrid.den = g /\ Promises!Answerable
        /\ Promises!NothingToRound <=> Promises!OnGrid(Promises!StepGrid) /\ Promises!OnGrid(Promises!ScaleGrid)
    BY <1>1, <1>3, <1>6, PromisedNumbers
  <2> HIDE DEF u, m, p, q, g, first, result
  <2>4. u * q \in Int /\ p * m \in Int \ {0} /\ u * g \in Int /\ p \in Int \ {0} /\ p * 1 = p
    BY <2>2
  <2>5. Promises!NothingToRound <=> Divides(p * m, u * q) /\ Divides(p, u * g)
    BY <2>3, <2>4, PromisedRounding DEF Promises!OnGrid
  <2>6. CASE result = Fail("ErrInexact") /\ ~(Divides(p * m, u * q) /\ Divides(p, u * g))
    <3>1. Returning(Fail("ErrInexact"))
      BY <2>6 DEF result
    <3> QED
      BY <2>3, <2>5, <2>6, <3>1, HonouredInexact DEF Unroundings
  <2>7. CASE first = Fail("ErrInexact") /\ ~Divides(p * m, u * q)
    <3>1. result = Fail("ErrInexact")
      BY <1>4, <2>7 DEF Fail
    <3> QED
      BY <2>6, <2>7, <3>1
  <2>8. ASSUME NEW k \in Int, first = Ok(Dec(k * m, arg.scale)), k * (p * m) = u * q
        PROVE  Honoured
    <3> DEFINE km == k * m
               x == Dec(km, arg.scale)
    <3>1. km \in Int /\ km * p = u * q
      BY <2>2, <2>8
    <3>2. result = RescaleExact(x, scale)
      BY <1>4, <2>8 DEF Ok
    <3> HIDE DEF km
    <3>3. Valid(x) /\ x.coef = km /\ x.scale = arg.scale
      BY <1>1, <3>1, ValidFields, ResultsAreReturnable DEF Dec
    <3>4. \/ result = Fail("ErrInexact") /\ ~Divides(q, km * g)
          \/ \E j \in Int : result = Ok(Dec(j, scale)) /\ j * q = km * g
      <4> HIDE DEF x
      <4> QED
        BY <1>1, <1>2, <3>2, <3>3, RescaleExactIsExact DEF g, q
    <3>5. /\ \A j \in Int : j * q = km * g <=> j * p = u * g
          /\ Divides(q, km * g) <=> Divides(p, u * g)
      <4>1. p \in Int \ {0} /\ q \in Int \ {0} /\ g \in Int
        BY <2>2
      <4> QED
        BY <2>2, <3>1, <4>1, SameOnGrid
    <3>6. CASE result = Fail("ErrInexact") /\ ~Divides(q, km * g)
      BY <2>6, <3>5, <3>6
    <3>7. ASSUME NEW j \in Int, result = Ok(Dec(j, scale)), j * q = km * g PROVE Honoured
      <4>1. j * p = u * g
        BY <3>5, <3>7
      <4>2. Promises!NothingToRound
        BY <2>5, <2>8, <4>1 DEF Divides
      <4>3. j * Promises!Exact.den = Promises!Exact.num * Pow10[scale]
        BY <2>3, <4>1 DEF g
      <4>4. Returning(Ok(Dec(j, scale)))
        BY <3>7 DEF result
      <4> QED
        BY <2>3, <4>2, <4>3, <4>4, HonouredUnrounded DEF Unroundings
    <3> QED
      BY <3>4, <3>6, <3>7
  <2> QED
    BY <2>1, <2>7, <2>8
<1> QED
  BY <1>5, <1>6

\* Sums and products of the numbers are those of the contract.
LEMMA PromisedSums ==
    ASSUME pending \in CallerCalls, Valid(d)
    PROVE  /\ Promises!Frac(Promises!Left + Promises!Right, Promises!CommonDen) = AsFraction(Add(d, arg))
           /\ Promises!Frac(Promises!Left - Promises!Right, Promises!CommonDen) = AsFraction(Sub(d, arg))
           /\ Valid(Add(d, arg)) /\ Valid(Sub(d, arg))
<1> DEFINE s == LargerScale(d, arg)
           x == AlignTo(d, s)
           y == AlignTo(arg, s)
<1>1. Valid(arg) /\ AsPromised.arg = AsFraction(arg)
  BY PromiseFields
<1>2. /\ s \in 0 .. MaxScale /\ x \in Int /\ y \in Int
      /\ x = Contract!Common(AsFraction(d), AsFraction(arg))
      /\ y = Contract!Common(AsFraction(arg), AsFraction(d))
      /\ Pow10[s] = IF Pow10[d.scale] >= Pow10[arg.scale] THEN Pow10[d.scale] ELSE Pow10[arg.scale]
  BY <1>1, AlignedIsCommon
<1>3. Add(d, arg) = Dec(x + y, s) /\ Sub(d, arg) = Dec(x - y, s)
  BY DEF Add, Sub
<1>4. Promises!CommonDen = IF Pow10[d.scale] >= Pow10[arg.scale] THEN Pow10[d.scale] ELSE Pow10[arg.scale]
  BY <1>1 DEF Promises!CommonDen, AsFraction
<1> HIDE DEF s, x, y
<1>5. Promises!Left = x /\ Promises!Right = y /\ Promises!CommonDen = Pow10[s]
  BY <1>1, <1>2, <1>4 DEF Promises!Left, Promises!Right, Promises!Common, Contract!Common
<1>6. x + y \in Int /\ x - y \in Int
  BY <1>2
<1> QED
  BY <1>2, <1>3, <1>5, <1>6 DEF Promises!Frac, AsFraction, Dec, Valid

LEMMA PromisedProduct ==
    ASSUME pending \in CallerCalls, Valid(d), d.scale + arg.scale <= MaxScale
    PROVE  /\ Promises!Frac(AsFraction(d).num * AsPromised.arg.num, AsFraction(d).den * AsPromised.arg.den)
                = AsFraction(Mul(d, arg))
           /\ Valid(Mul(d, arg))
<1> DEFINE n == d.coef * arg.coef
           s == d.scale
           t == arg.scale
<1>1. Valid(arg) /\ AsPromised.arg = AsFraction(arg)
  BY PromiseFields
<1>2. Mul(d, arg) = Dec(n, s + t) /\ n \in Int /\ s + t \in 0 .. MaxScale
  BY <1>1, MulIsProduct
<1>3. s \in Nat /\ t \in Nat
  BY <1>1, ValidFields
<1>4. Pow10[s] * Pow10[t] = Pow10[s + t]
  <2> DEFINE w == 2 * MaxScale
  <2>1. w \in Nat /\ PowersOfTen(Pow10, w) /\ s + t <= w
    BY <1>1, <1>2, Table
  <2> HIDE DEF w, s, t
  <2> QED
    BY <1>3, <2>1, PowersAdd
<1>5. Promises!Frac(AsFraction(d).num * AsPromised.arg.num, AsFraction(d).den * AsPromised.arg.den)
        = [num |-> n, den |-> Pow10[s] * Pow10[t]]
  BY <1>1 DEF Promises!Frac, AsFraction
<1> HIDE DEF n, s, t
<1> QED
  BY <1>2, <1>4, <1>5 DEF AsFraction, Dec, Valid

\* A call that its guard lets through keeps the promise of exact arithmetic.
LEMMA LetThroughIsHonoured ==
    ASSUME pending \in CallerCalls, Valid(d), Computable(pending), LetThrough,
           Returning(Computed(Promise(pending)))
    PROVE  Honoured
<1> DEFINE promise == Promise(pending)
<1>1. promise \in Promised /\ AsPromised.op = promise
  BY PromiseFields
<1>2. /\ promise \in {"MulTo", "MulExact"} => d.scale + arg.scale <= MaxScale
      /\ promise \in {"DivToExact", "StepToExact", "QuantizeStepExact"} => QuotientFits(d, arg)
  BY ComputablePromise
<1>3. /\ Promises!Frac(Promises!Left + Promises!Right, Promises!CommonDen) = AsFraction(Add(d, arg))
      /\ Promises!Frac(Promises!Left - Promises!Right, Promises!CommonDen) = AsFraction(Sub(d, arg))
      /\ Valid(Add(d, arg)) /\ Valid(Sub(d, arg))
  BY PromisedSums
<1>4. \A x : Promises!FracEq(x, x)
  BY DEF Promises!FracEq
<1>5. \A x : AsFraction(x).num = x.coef /\ AsFraction(x).den = Pow10[x.scale]
  BY DEF AsFraction
<1> HIDE DEF promise
<1>6. ASSUME promise \in {"Normalize", "Neg", "Abs", "Add", "Sub"} PROVE Honoured
  <2>1. \E x : Computed(promise) = Ok(x) /\ Promises!ExactResult = AsFraction(x)
    <3>1. CASE promise = "Normalize"
      <4>1. Promises!ExactResult = AsFraction(d)
        BY <1>1, <3>1 DEF Promises!ExactResult
      <4> QED
        BY <3>1, <4>1, ComputedTable
    <3>2. CASE promise = "Neg"
      <4>1. Promises!ExactResult = [num |-> -d.coef, den |-> Pow10[d.scale]]
        BY <1>1, <1>5, <3>2 DEF Promises!ExactResult, Promises!Frac
      <4>2. Promises!ExactResult = AsFraction(Neg(d))
        BY <4>1 DEF AsFraction, Neg, Dec
      <4> QED
        BY <3>2, <4>2, ComputedTable
    <3>3. CASE promise = "Abs"
      <4>1. Promises!ExactResult = [num |-> Magnitude(d.coef), den |-> Pow10[d.scale]]
        BY <1>1, <1>5, <3>3, PromisedRounding DEF Promises!ExactResult, Promises!Frac
      <4>2. Promises!ExactResult = AsFraction(Abs(d))
        BY <4>1 DEF AsFraction, Abs, Dec
      <4> QED
        BY <3>3, <4>2, ComputedTable
    <3>4. CASE promise = "Add"
      <4>1. Promises!ExactResult = AsFraction(Add(d, arg))
        BY <1>1, <1>3, <3>4 DEF Promises!ExactResult
      <4> QED
        BY <3>4, <4>1, ComputedTable
    <3>5. CASE promise = "Sub"
      <4>1. Promises!ExactResult = AsFraction(Sub(d, arg))
        BY <1>1, <1>3, <3>5 DEF Promises!ExactResult
      <4> QED
        BY <3>5, <4>1, ComputedTable
    <3> QED
      BY <1>6, <3>1, <3>2, <3>3, <3>4, <3>5
  <2>2. PICK x : Computed(promise) = Ok(x) /\ Promises!ExactResult = AsFraction(x)
    BY <2>1
  <2>3. Returning(Ok(x)) /\ Promises!FracEq(AsFraction(x), Promises!ExactResult)
    BY <1>4, <2>2 DEF promise
  <2> QED
    BY <1>6, <2>3, HonouredExact DEF promise
<1>7. ASSUME promise \in {"Rescale", "MulTo", "AddTo", "SubTo"} PROVE Honoured
  <2>1. \E x : Valid(x) /\ Computed(promise) = Rescale(x, ctx.scale, ctx.rounding) /\ Promises!Exact = AsFraction(x)
    <3>1. CASE promise = "Rescale"
      <4>1. Promises!Exact = AsFraction(d)
        BY <1>1, <3>1 DEF Promises!Exact
      <4> QED
        BY <3>1, <4>1, ComputedTable DEF Quantize
    <3>2. CASE promise = "MulTo"
      <4>1. Promises!Exact = AsFraction(Mul(d, arg)) /\ Valid(Mul(d, arg))
        BY <1>1, <1>2, <3>2, PromisedProduct DEF Promises!Exact
      <4> QED
        BY <3>2, <4>1, ComputedTable DEF CtxMul, Quantize
    <3>3. CASE promise = "AddTo"
      <4>1. Promises!Exact = AsFraction(Add(d, arg))
        BY <1>1, <1>3, <3>3 DEF Promises!Exact
      <4> QED
        BY <1>3, <3>3, <4>1, ComputedTable DEF CtxAdd, Quantize
    <3>4. CASE promise = "SubTo"
      <4>1. Promises!Exact = AsFraction(Sub(d, arg))
        BY <1>1, <1>3, <3>4 DEF Promises!Exact
      <4> QED
        BY <1>3, <3>4, <4>1, ComputedTable DEF CtxSub, Quantize
    <3> QED
      BY <1>7, <3>1, <3>2, <3>3, <3>4
  <2>2. PICK x : Valid(x) /\ Computed(promise) = Rescale(x, ctx.scale, ctx.rounding) /\ Promises!Exact = AsFraction(x)
    BY <2>1
  <2>3. /\ Returning(Rescale(x, ctx.scale, ctx.rounding))
        /\ Promises!Exact.num = x.coef /\ Promises!Exact.den = Pow10[x.scale]
    BY <1>5, <2>2 DEF promise
  <2> QED
    BY <1>7, <2>2, <2>3, HonouredRescale DEF promise
<1>8. ASSUME promise \in {"RescaleExact", "MulExact", "AddExact", "SubExact"} PROVE Honoured
  <2>1. \E x : Valid(x) /\ Computed(promise) = RescaleExact(x, ctx.scale) /\ Promises!Exact = AsFraction(x)
    <3>1. CASE promise = "RescaleExact"
      <4>1. Promises!Exact = AsFraction(d)
        BY <1>1, <3>1 DEF Promises!Exact
      <4> QED
        BY <3>1, <4>1, ComputedTable DEF QuantizeExact
    <3>2. CASE promise = "MulExact"
      <4>1. Promises!Exact = AsFraction(Mul(d, arg)) /\ Valid(Mul(d, arg))
        BY <1>1, <1>2, <3>2, PromisedProduct DEF Promises!Exact
      <4> QED
        BY <3>2, <4>1, ComputedTable DEF CtxMulExact, QuantizeExact
    <3>3. CASE promise = "AddExact"
      <4>1. Promises!Exact = AsFraction(Add(d, arg))
        BY <1>1, <1>3, <3>3 DEF Promises!Exact
      <4> QED
        BY <1>3, <3>3, <4>1, ComputedTable DEF CtxAddExact, QuantizeExact
    <3>4. CASE promise = "SubExact"
      <4>1. Promises!Exact = AsFraction(Sub(d, arg))
        BY <1>1, <1>3, <3>4 DEF Promises!Exact
      <4> QED
        BY <1>3, <3>4, <4>1, ComputedTable DEF CtxSubExact, QuantizeExact
    <3> QED
      BY <1>8, <3>1, <3>2, <3>3, <3>4
  <2>2. PICK x : Valid(x) /\ Computed(promise) = RescaleExact(x, ctx.scale) /\ Promises!Exact = AsFraction(x)
    BY <2>1
  <2>3. /\ Returning(RescaleExact(x, ctx.scale))
        /\ Promises!Exact.num = x.coef /\ Promises!Exact.den = Pow10[x.scale]
    BY <1>5, <2>2 DEF promise
  <2> QED
    BY <1>8, <2>2, <2>3, HonouredRescaleExact DEF promise
<1>9. CASE promise = "Div"
  <2>1. Returning(CtxDiv(ctx, d, arg))
    BY <1>9, ComputedTable DEF promise
  <2> QED
    BY <1>9, <2>1, HonouredQuotient DEF promise
<1>10. CASE promise = "DivToExact"
  <2>1. Returning(CtxDivExact(ctx, d, arg))
    BY <1>10, ComputedTable DEF promise
  <2> QED
    BY <1>2, <1>10, <2>1, HonouredDivToExact DEF promise
<1>11. CASE promise = "StepTo"
  <2>1. Returning(CtxQuantizeStep(ctx, d, arg))
    BY <1>11, ComputedTable DEF promise
  <2> QED
    BY <1>11, <2>1, HonouredStepTo DEF promise
<1>12. CASE promise = "StepToExact"
  <2>1. Returning(CtxQuantizeStepExact(ctx, d, arg))
    BY <1>12, ComputedTable DEF promise
  <2> QED
    BY <1>2, <1>12, <2>1, HonouredStepToExact DEF promise
<1>13. CASE promise = "QuantizeStep"
  <2>1. Returning(QuantizeStep(d, arg, ctx.rounding))
    BY <1>13, ComputedTable DEF promise
  <2> QED
    BY <1>13, <2>1, HonouredStep DEF promise
<1>14. CASE promise = "QuantizeStepExact"
  <2>1. Returning(QuantizeStepExact(d, arg))
    BY <1>14, ComputedTable DEF promise
  <2> QED
    BY <1>2, <1>14, <2>1, HonouredStepExact DEF promise
<1> QED
  BY <1>1, <1>6, <1>7, <1>8, <1>9, <1>10, <1>11, <1>12, <1>13, <1>14 DEF Promised

\* The parties of a call are finitely many.
LEMMA FewParties ==
    ASSUME pending \in CallerCalls
    PROVE  /\ IsFiniteSet(Parties(pending))
           /\ Cardinality(Parties(pending)) <= 1 <=> \A p, q \in Parties(pending) : p = q
<1> DEFINE P == Parties(pending)
<1>1. \E x, y, z : P \subseteq {x, y, z}
  <2>1. pending.type \in {"Context", "Pricing", "MoneyContext", "Money"}
    BY CallFacts DEF CallerCalls
  <2>2. P \in {{}, {NormalCode[ctx.currency]}, {ctx.currency}, {ctx.currency, held.currency, pending.arg.currency},
               {ctx.currency, held.currency}, {held.currency, pending.arg.currency}, {held.currency}}
    BY <2>1, PartiesOf
  <2> QED
    BY <2>2
<1>2. IsFiniteSet(P)
  <2>1. PICK x, y, z : P \subseteq {x, y, z}
    BY <1>1
  <2>2. IsFiniteSet({x, y, z})
    <3>1. IsFiniteSet({x})
      BY FS_Singleton
    <3>2. IsFiniteSet({x} \cup {y}) /\ IsFiniteSet({z})
      BY <3>1, FS_AddElement, FS_Singleton
    <3>3. IsFiniteSet(({x} \cup {y}) \cup {z})
      BY <3>2, FS_Union
    <3>4. ({x} \cup {y}) \cup {z} = {x, y, z}
      OBVIOUS
    <3> QED
      BY <3>3, <3>4
  <2> QED
    BY <2>1, <2>2, FS_Subset
<1> HIDE DEF P
<1>3. Cardinality(P) \in Nat
  BY <1>2, FS_CardinalityType
<1>4. ASSUME Cardinality(P) <= 1 PROVE \A p, q \in P : p = q
  <2> SUFFICES ASSUME NEW p \in P, NEW q \in P, p # q PROVE FALSE
    OBVIOUS
  <2>1. IsFiniteSet(P \ {p}) /\ Cardinality(P \ {p}) = Cardinality(P) - 1
    BY <1>2, FS_RemoveElement
  <2>2. q \in P \ {p}
    OBVIOUS
  <2>3. Cardinality(P \ {p}) # 0
    BY <2>1, <2>2, FS_EmptySet
  <2>4. Cardinality(P \ {p}) \in Nat
    BY <2>1, FS_CardinalityType
  <2> QED
    BY <1>3, <1>4, <2>1, <2>3, <2>4
<1>5. ASSUME \A p, q \in P : p = q PROVE Cardinality(P) <= 1
  <2>1. CASE P = {}
    BY <2>1, FS_EmptySet
  <2>2. CASE P # {}
    <3>1. PICK p \in P : TRUE
      BY <2>2
    <3>2. P = {p}
      BY <1>5, <3>1
    <3>3. Cardinality(P) = 1
      BY <3>2, FS_Singleton
    <3> QED
      BY <3>3
  <2> QED
    BY <2>1, <2>2
<1> QED
  BY <1>2, <1>4, <1>5 DEF P

\* The contract counts alike.
LEMMA SameCount == \A S : Promises!Cardinality(S) = Cardinality(S)
  BY DEF Promises!Cardinality, Cardinality

\* A call that returns is a step of the contract.
LEMMA ReturnsRefine ==
    ASSUME CallerInv, CallReturns
    PROVE  Promises!MoneyNext
<1> DEFINE answer == Computed(Promise(pending))
<1>1. pending \in CallerCalls /\ Computable(pending) /\ Valid(d)
  <2>1. pending # Idle
    BY DEF CallReturns, CallNewMoney, CallAmount, CallNeg, CallAbs, CallRound, CallRoundExact, CallQuantize, CallQuantizeExact,
           CallAdd, CallAddExact, CallSub, CallSubExact, CallMul, CallMulExact, CallDiv, CallDivExact, CallQuantizeStep,
           CallQuantizeStepExact, Either, Either2, ByContext, ByPolicy, ByPolicy2, ByMoney, Conclude, Idle
  <2> QED
    BY <2>1, CallerFacts
<1>2. Concluded(CallGuard, answer, Into(pending))
  BY <1>1, ReturnsConclude
<1>3. /\ AsPromised # Promises!NoCall /\ AsTerms.parties = Parties(pending) /\ AsTerms.into = Into(pending)
      /\ AsPromised.op = Promise(pending) /\ AsPromised.mode = PromisedMode(pending)
  BY <1>1, PromiseFields
<1>4. Promises!Strangers = Parties(pending) \ Currencies
  BY <1>3 DEF Promises!Strangers
<1> HIDE DEF answer
<1>5. CASE CallGuard = "nil"
  <2>1. LetThrough /\ Returning(answer)
    BY <1>1, <1>2, <1>5, GuardDecides DEF Returning
  <2>2. Honoured
    BY <1>1, <2>1, LetThroughIsHonoured DEF answer
  <2>3. Promises!OneCurrency
    BY <1>1, <1>3, <1>4, <2>1, FewParties, SameCount DEF LetThrough, Promises!OneCurrency
  <2>4. /\ AsTerms' = Promises!NoTerms
        /\ failure' = answer.err
        /\ answer.err = "nil" => held'.currency = Into(pending)
        /\ answer.err # "nil" => held' = held
    BY <2>1, ReturningIs
  <2>5. CASE Promises!Answer
    <3>1. held'.currency = IF failure' = "nil" THEN AsTerms.into ELSE held.currency
      BY <1>3, <2>4
    <3>2. Promises!MoneyAnswer
      BY <2>3, <2>4, <2>5, <3>1 DEF Promises!MoneyAnswer
    <3> QED
      BY <3>2 DEF Promises!MoneyNext
  <2>6. CASE Promises!RefuseArguments
    <3>1. failure' # "nil"
      BY <2>6 DEF Promises!RefuseArguments, Promises!Refuse
    <3>2. held'.currency = held.currency
      BY <2>4, <3>1
    <3>3. Promises!MoneyRefuse
      BY <2>4, <2>6, <3>2 DEF Promises!MoneyRefuse
    <3> QED
      BY <3>3 DEF Promises!MoneyNext
  <2> QED
    BY <2>2, <2>5, <2>6 DEF Honoured
<1>6. CASE CallGuard # "nil"
  <2>1. pending' = Idle /\ failure' = CallGuard /\ held' = held
    BY <1>2, <1>6 DEF Concluded
  <2>2. AsPromised' = Promises!NoCall /\ AsTerms' = Promises!NoTerms /\ AsFraction(d)' = AsFraction(d)
        /\ held'.currency = held.currency
    BY <2>1 DEF AsPromised, AsTerms, AsFraction, d, Promises!NoCall, Promises!NoTerms
  <2>3. Promises!Refuse(CallGuard)
    BY <2>1, <2>2 DEF Promises!Refuse
  <2>4. Refusal(CallGuard)
    BY <1>1, <1>6, GuardDecides
  <2>5. Promises!RefuseArguments \/ Promises!RefuseCurrency
    <3>1. CASE CallGuard = "ErrInvalidCurrency" /\ \E p \in Parties(pending) : p \notin Currencies
      <4>1. Promises!Strangers # {}
        BY <1>4, <3>1
      <4>2. Promises!Refuse("ErrInvalidCurrency")
        BY <2>3, <3>1
      <4> QED
        BY <1>3, <4>1, <4>2 DEF Promises!RefuseCurrency
    <3>2. CASE CallGuard = "ErrCurrencyMismatch" /\ \E p, q \in Parties(pending) : p # q
      <4>1. Promises!Cardinality(AsTerms.parties) > 1
        <5>1. Cardinality(Parties(pending)) \in Nat
          BY <1>1, FewParties, FS_CardinalityType
        <5>2. ~(Cardinality(Parties(pending)) <= 1)
          BY <1>1, <3>2, FewParties
        <5> QED
          BY <1>3, <5>1, <5>2, SameCount
      <4>2. Promises!Refuse("ErrCurrencyMismatch")
        BY <2>3, <3>2
      <4> QED
        BY <1>3, <4>1, <4>2 DEF Promises!RefuseCurrency
    <3>3. ASSUME pending.type # "Money", pending.op # "NewMoney",
                 \/ CallGuard = "ErrInvalidScale" /\ ctx.scale < 0
                 \/ CallGuard = "ErrInvalidRoundingMode" /\ ctx.rounding \notin RoundingModes
          PROVE  Promises!RefuseArguments
      <4>1. Promise(pending) \notin {"Normalize", "Neg", "Abs", "Add", "Sub", "QuantizeStep", "QuantizeStepExact"}
        <5>1. pending.op \in Quantizing \cup Sums \cup Scalings
          BY <1>1, <3>3, CallFacts DEF CallerCalls
        <5> QED
          BY <3>3, <5>1, PromiseTable DEF Quantizing, Sums, Scalings
      <4>2. PromisedMode(pending) = ctx.rounding
        BY <1>1, <3>3, PromisedModeIs
      <4>3. \/ CallGuard = "ErrInvalidScale" /\ Promises!ScaleIsBad
            \/ CallGuard = "ErrInvalidRoundingMode" /\ Promises!ModeIsBad
        BY <1>1, <3>3, <4>1, <4>2, PromisedArguments
      <4> QED
        BY <1>3, <2>3, <4>3 DEF Promises!RefuseArguments
    <3> QED
      BY <2>4, <3>1, <3>2, <3>3 DEF Refusal
  <2>6. Promises!MoneyRefuse
    BY <2>2, <2>5 DEF Promises!MoneyRefuse
  <2> QED
    BY <2>6 DEF Promises!MoneyNext
<1> QED
  BY <1>5, <1>6

\* Whatever currency a value, a policy or an input can be in
Known == Currencies \cup ({NoCurrency, Bare} \cup ({c.currency : c \in Contexts} \ Currencies))

LEMMA PartiesAreKnown ==
    ASSUME pending \in CallerCalls, held.currency \in Known
    PROVE  Parties(pending) \subseteq Known /\ Into(pending) \in Known
<1>1. pending.op = "NewMoney" => NormalCode[ctx.currency] \in Known
  BY CallFacts, MoneyAssumption DEF ctx, Known
<1>2. /\ pending.type = "Pricing" => pending \in DecimalCalls
      /\ pending.type \in {"MoneyContext", "Money"} => pending \in MoneyCalls
  BY CallFacts DEF CallerCalls
<1>3. pending.type = "Pricing" /\ pending.op # "NewMoney" => ctx \in Contexts
  BY <1>2 DEF DecimalCalls, CallsOf, ctx
<1>4. pending.type = "MoneyContext" => ctx \in Contexts
  BY <1>2 DEF MoneyCalls, CallsOf, ctx
<1>5. ctx \in Contexts => ctx.currency \in Known
  BY DEF Known
<1>6. pending.type \in {"MoneyContext", "Money"} /\ pending.op \in Sums => pending.arg.currency \in Known
  <2>1. pending.type \in {"MoneyContext", "Money"} /\ pending.op \in Sums => pending.arg \in Monies
    BY <1>2 DEF MoneyCalls, CallsOf, Quantizing, Sums, Scalings
  <2> QED
    BY <2>1 DEF Monies, NoMoney, Money, Known
<1>7. Bare \in Known
  BY DEF Known
<1> HIDE DEF Known
<1>8. Parties(pending) \subseteq Known
  <2>1. pending.type \in {"Context", "Pricing", "MoneyContext", "Money"}
    BY CallFacts DEF CallerCalls
  <2>2. "Add" \in Sums /\ "Sub" \in Sums
    BY DEF Sums
  <2> QED
    BY <1>1, <1>3, <1>4, <1>5, <1>6, <2>1, <2>2, PartiesOf
<1> QED
  BY <1>7, <1>8, DueCurrency

\* What the caller holds and asks for is what a caller of the contract may.
LEMMA ValueIsKnown == CallerInv => AsFraction(d) \in Promises!Fractions /\ held.currency \in Known
<1> SUFFICES ASSUME CallerInv PROVE AsFraction(d) \in Promises!Fractions /\ held.currency \in Known
  OBVIOUS
<1>1. Valid(d) /\ (held.currency \in Currencies \cup {Bare} \/ held = NoMoney)
  BY CallerFacts
<1>2. held.currency \in Known
  BY <1>1 DEF NoMoney, Money, Known
<1> QED
  BY <1>1, <1>2, ValidFields DEF AsFraction, Promises!Fractions

LEMMA CallIsKnown ==
    CallerInv /\ pending # Idle =>
        /\ AsPromised.op \in Promises!Ops /\ AsPromised.arg \in Promises!Fractions /\ AsPromised.scale \in Int
        /\ AsTerms \in Promises!Terms
<1> SUFFICES ASSUME CallerInv, pending # Idle
             PROVE  /\ AsPromised.op \in Promises!Ops /\ AsPromised.arg \in Promises!Fractions
                    /\ AsPromised.scale \in Int /\ AsTerms \in Promises!Terms
  OBVIOUS
<1>1. pending \in CallerCalls
  BY CallerFacts
<1>2. /\ AsPromised.op \in Promised /\ AsPromised.arg = AsFraction(arg) /\ Valid(arg) /\ AsPromised.scale \in Int
      /\ AsTerms.parties = Parties(pending) /\ AsTerms.into = Into(pending)
  BY <1>1, PromiseFields
<1>3. AsPromised.op \in Promises!Ops
  BY <1>2 DEF Promised, Promises!Ops, Promises!ExactOps, Promises!RoundedOps, Promises!SteppedOps, Promises!ExactOnlyOps
<1>4. AsPromised.arg \in Promises!Fractions
  BY <1>2, ValidFields DEF AsFraction, Promises!Fractions
<1>5. Parties(pending) \subseteq Known /\ Into(pending) \in Known
  BY <1>1, PartiesAreKnown, ValueIsKnown
<1>6. AsTerms = [parties |-> Parties(pending), into |-> Into(pending)]
  BY DEF AsTerms
<1>7. AsTerms \in Promises!Terms
  BY <1>5, <1>6 DEF Promises!Terms, Known
<1> QED
  BY <1>2, <1>3, <1>4, <1>7

\* Every step of the caller is a step of the contract.
LEMMA NextRefines == CallerInv /\ CallerInv' /\ [CallerNext]_callerVars => [Promises!MoneyNext]_(Promises!mvars)
<1> SUFFICES ASSUME CallerInv, CallerInv', [CallerNext]_callerVars PROVE [Promises!MoneyNext]_(Promises!mvars)
  OBVIOUS
<1>1. pending = Idle => AsPromised = Promises!NoCall /\ AsTerms = Promises!NoTerms
  BY DEF AsPromised, AsTerms, Promises!NoCall, Promises!NoTerms
<1>2. pending' = Idle => AsPromised' = Promises!NoCall /\ AsTerms' = Promises!NoTerms
  BY DEF AsPromised, AsTerms, Promises!NoCall, Promises!NoTerms
<1>3. AsFraction(d)' \in Promises!Fractions /\ held'.currency \in Known
  <2>1. (AsFraction(d) \in Promises!Fractions /\ held.currency \in Known)'
    BY ValueIsKnown, PTL
  <2>2. Known' = Known /\ Promises!Fractions' = Promises!Fractions
    BY DEF Known, Promises!Fractions
  <2> QED
    BY <2>1, <2>2
<1>4. held' = held => AsFraction(d)' = AsFraction(d)
  BY DEF AsFraction, d
<1>5. CASE Take
  <2>1. pending = Idle /\ pending' = Idle /\ failure' = "nil"
    BY <1>5 DEF Take
  <2>2. Promises!Load
    BY <1>1, <1>2, <1>3, <2>1 DEF Promises!Load
  <2>3. Promises!MoneyLoad
    BY <1>1, <1>2, <1>3, <2>1, <2>2 DEF Promises!MoneyLoad, Known
  <2> QED
    BY <2>3 DEF Promises!MoneyNext
<1>6. CASE \E c \in CallsOn(held) : Ask(c)
  <2>1. PICK c \in CallsOn(held) : Ask(c)
    BY <1>6
  <2>2. pending = Idle /\ pending' = c /\ held' = held /\ failure' = "nil" /\ c # Idle
    BY <2>1, OnItsValue, CallFacts DEF Ask
  <2>3. (/\ AsPromised.op \in Promises!Ops /\ AsPromised.arg \in Promises!Fractions /\ AsPromised.scale \in Int
         /\ AsTerms \in Promises!Terms)'
    <3>1. (CallerInv /\ pending # Idle)'
      BY <2>2 DEF Idle
    <3> QED
      BY <3>1, CallIsKnown, PTL
  <2>4. Promises!Request
    BY <1>1, <1>4, <2>2, <2>3 DEF Promises!Request, Promises!Fractions
  <2>5. Promises!MoneyRequest
    BY <2>2, <2>3, <2>4 DEF Promises!MoneyRequest, Promises!Terms
  <2> QED
    BY <2>5 DEF Promises!MoneyNext
<1>7. CASE CallReturns
  BY <1>7, ReturnsRefine
<1>8. CASE UNCHANGED callerVars
  <2>1. held' = held /\ pending' = pending /\ failure' = failure
    BY <1>8 DEF callerVars
  <2>2. AsPromised' = AsPromised /\ AsTerms' = AsTerms
    BY <2>1 DEF AsPromised, AsTerms, arg, ctx, Parties, Into
  <2> QED
    BY <1>4, <2>1, <2>2 DEF Promises!mvars, Promises!vars
<1> QED
  BY <1>5, <1>6, <1>7, <1>8 DEF CallerNext

\* Whatever the numbers, the currencies, the policies and the order of the calls, a
\* caller of Decimal, Money, Context and MoneyContext is answered only when those
\* that have a part in its call are of one valid currency, gets the exact result or
\* the exact result rounded once, in the currency it is due in, and is refused an
\* exact form only when a digit would be lost.  (money.go, money_context.go,
\* context.go)
THEOREM MoneyRefinesMoneyContract == CallerSpec => RefinesMoneyContract
<1>1. CallerInit => Promises!MoneyInit
  <2> SUFFICES ASSUME CallerInit PROVE Promises!MoneyInit
    OBVIOUS
  <2>1. pending = Idle /\ failure = "nil" /\ Valid(d) /\ (held.currency \in Currencies \cup {Bare} \/ held = NoMoney)
    BY Loaded DEF CallerInit, d
  <2>2. AsFraction(d) \in Promises!Fractions
    BY <2>1, ValidFields DEF AsFraction, Promises!Fractions
  <2>3. AsPromised = Promises!NoCall /\ AsTerms = Promises!NoTerms
    BY <2>1 DEF AsPromised, AsTerms, Promises!NoCall, Promises!NoTerms
  <2>4. held.currency \in Known
    BY <2>1 DEF NoMoney, Money, Known
  <2> QED
    BY <2>1, <2>2, <2>3, <2>4 DEF Promises!MoneyInit, Promises!Init, Known
<1> QED
  BY <1>1, NextRefines, CallerInvHolds, PTL DEF CallerSpec, RefinesMoneyContract, Promises!MoneySpec

-----------------------------------------------------------------------------
(* A valid policy, and amounts in its currency *)

\* What an amount is quantized to
Quantum(c, x) == Shifted(x.coef, x.scale, c.scale, c.rounding)

LEMMA ValidPolicyIs ==
    ASSUME NEW c \in Contexts, ValidPolicy(c)
    PROVE  /\ c.currency \in Currencies /\ ContextError(c) = "nil" /\ MoneyContextError(c) = "nil"
           /\ c.scale \in 0 .. MaxScale /\ c.scale \in Int /\ c.scale <= MaxScale /\ c.scale >= 0 /\ ~(c.scale < 0)
           /\ c.rounding \in RoundingModes
           /\ \A m : m.currency = c.currency => InContextError(c, m) = "nil" /\ ValidCurrency(m) = "nil"
<1>1. c.currency \in Currencies /\ ContextError(c) = "nil" /\ MoneyContextError(c) = "nil"
  BY MoneyContextErrorIs DEF ValidPolicy
<1>2. c.scale >= 0 /\ c.rounding \in RoundingModes
  BY <1>1, ContextErrorIs
<1>3. c.scale \in Int /\ c.scale <= MaxScale
  BY NumbersAssumption
<1>4. c.scale \in 0 .. MaxScale /\ ~(c.scale < 0)
  BY <1>2, <1>3, Table
<1>5. \A m : m.currency = c.currency => InContextError(c, m) = "nil" /\ ValidCurrency(m) = "nil"
  BY <1>1, InContextErrorIs DEF ValidCurrency, Check
<1> QED
  BY <1>1, <1>2, <1>3, <1>4, <1>5

\* Quantizing an amount in its currency succeeds.
LEMMA QuantizedIs ==
    ASSUME NEW c \in Contexts, ValidPolicy(c), NEW x, Valid(x)
    PROVE  /\ Quantum(c, x) \in Int /\ IsRounded(Quantum(c, x), x.coef * Pow10[c.scale], Pow10[x.scale], c.rounding)
           /\ Rescale(x, c.scale, c.rounding) = Ok(Dec(Quantum(c, x), c.scale))
           /\ \A m : m.currency = c.currency /\ m.amount = x =>
                CtxQuantize(c, m) = Ok(Money(Dec(Quantum(c, x), c.scale), c.currency))
           /\ Valid(Dec(Quantum(c, x), c.scale))
<1>1. /\ c.scale \in 0 .. MaxScale /\ c.scale \in Int /\ c.scale <= MaxScale /\ c.scale >= 0 /\ ~(c.scale < 0)
      /\ c.rounding \in RoundingModes
  BY ValidPolicyIs
<1>2. /\ Quantum(c, x) \in Int /\ IsRounded(Quantum(c, x), x.coef * Pow10[c.scale], Pow10[x.scale], c.rounding)
      /\ Rescale(x, c.scale, c.rounding) = Ok(Dec(Quantum(c, x), c.scale))
  BY <1>1, RescaleIsRounded DEF Quantum
<1>3. ASSUME NEW m, m.currency = c.currency, m.amount = x
      PROVE  CtxQuantize(c, m) = Ok(Money(Dec(Quantum(c, x), c.scale), c.currency))
  <2>1. InContextError(c, m) = "nil"
    BY <1>3, ValidPolicyIs
  <2> QED
    BY <1>2, <1>3, <2>1 DEF CtxQuantize, Quantize, InContext, Attach, Guarded, Ok
<1>4. Valid(Dec(Quantum(c, x), c.scale))
  BY <1>1, <1>2, ResultsAreReturnable
<1> QED
  BY <1>2, <1>3, <1>4

-----------------------------------------------------------------------------
(* Minor units *)

Stored == -MaxInt64 - 1 .. MaxInt64

LEMMA UnitsOf ==
    /\ \A k, s : Int64Units(Ok(Dec(k, s))) = IF k \in Stored THEN Ok(Dec(k, 0)) ELSE Fail("ErrOverflow")
    /\ Int64Units(Fail("ErrInexact")) = Fail("ErrInexact")
  BY DEF Int64Units, Then, Ok, Fail, Dec, Stored

\* The exact form returns the units of the quantized amount, or none.
LEMMA ExactUnitsAre ==
    ASSUME NEW c \in Contexts, ValidPolicy(c), NEW x, Valid(x)
    PROVE  RescaleExact(x, c.scale) = IF Cmp(Dec(Quantum(c, x), c.scale), x) = 0
                                        THEN Ok(Dec(Quantum(c, x), c.scale)) ELSE Fail("ErrInexact")
<1> DEFINE k == Quantum(c, x)
           g == Pow10[c.scale]
           f == Pow10[x.scale]
           n == x.coef
           q == Dec(k, c.scale)
<1>1. /\ c.scale \in 0 .. MaxScale /\ c.scale \in Int /\ c.scale <= MaxScale /\ c.scale >= 0
      /\ c.rounding \in RoundingModes
  BY ValidPolicyIs
<1>2. k \in Int /\ IsRounded(k, n * g, f, c.rounding) /\ Valid(q)
  BY QuantizedIs
<1>3. Cmp(q, x) = 0 <=> k * f = n * g
  <2>1. q.coef = k /\ q.scale = c.scale
    BY DEF Dec
  <2> HIDE DEF q, k
  <2> QED
    BY <1>2, <2>1, CmpIsOrder DEF SameNumber
<1>4. n \in Int /\ g \in Nat \ {0} /\ f \in Nat \ {0}
  BY <1>1, ValidFields, Table
<1>5. \/ RescaleExact(x, c.scale) = Fail("ErrInexact") /\ ~Divides(f, n * g)
      \/ \E j \in Int : RescaleExact(x, c.scale) = Ok(Dec(j, c.scale)) /\ j * f = n * g
  BY <1>1, RescaleExactIsExact
<1> HIDE DEF k, g, f, n
<1>6. CASE RescaleExact(x, c.scale) = Fail("ErrInexact") /\ ~Divides(f, n * g)
  <2>1. k * f # n * g
    BY <1>2, <1>6 DEF Divides
  <2> QED
    BY <1>3, <1>6, <2>1 DEF k
<1>7. ASSUME NEW j \in Int, RescaleExact(x, c.scale) = Ok(Dec(j, c.scale)), j * f = n * g
      PROVE  RescaleExact(x, c.scale) = Ok(q) /\ Cmp(q, x) = 0
  <2>1. n * g \in Int /\ f \in Int \ {0}
    BY <1>4
  <2>2. IsRounded(j, j * f, f, c.rounding)
    BY <2>1, ExactQuotient
  <2>3. IsRounded(j, n * g, f, c.rounding)
    BY <1>7, <2>2
  <2>4. j = k
    BY <1>1, <1>2, <2>1, <2>3, RoundingIsUnique
  <2> QED
    BY <1>3, <1>7, <2>4
<1> QED
  BY <1>5, <1>6, <1>7 DEF k

LEMMA UnitsReadBack == CallerInv => UnitsRoundTrip
<1> SUFFICES ASSUME CallerInv, held.currency \in Currencies,
                    NEW c \in Contexts, ValidPolicy(c), c.currency = held.currency
             PROVE  LET q     == CtxQuantize(c, held)
                        units == CtxInt64MinorUnits(c, held)
                        exact == CtxInt64MinorUnitsExact(c, held)
                    IN  /\ units.err = IF q.val.amount.coef \in -MaxInt64 - 1 .. MaxInt64 THEN "nil" ELSE "ErrOverflow"
                        /\ units.err = "nil" =>
                             /\ CtxFromMinorUnits(c, units.val.coef) = q
                             /\ NewMoneyFromMinorUnits(units.val.coef, c.scale, held.currency) = q
                        /\ units = MoneyInt64MinorUnits(held, c.scale, c.rounding)
                        /\ exact = IF MoneyEqual(q.val, held) THEN units ELSE Fail("ErrInexact")
                        /\ exact = MoneyInt64MinorUnitsExact(held, c.scale)
  BY DEF UnitsRoundTrip
<1> DEFINE q     == CtxQuantize(c, held)
           units == CtxInt64MinorUnits(c, held)
           exact == CtxInt64MinorUnitsExact(c, held)
           x     == held.amount
           k     == Quantum(c, x)
           r     == Dec(k, c.scale)
<1>1. Valid(x)
  BY CallerFacts DEF d
<1>2. /\ ~(c.scale < 0) /\ MoneyContextError(c) = "nil"
      /\ InContextError(c, held) = "nil" /\ ValidCurrency(held) = "nil"
  BY ValidPolicyIs
<1>3. /\ Rescale(x, c.scale, c.rounding) = Ok(r) /\ q = Ok(Money(r, c.currency))
      /\ RescaleExact(x, c.scale) = IF Cmp(r, x) = 0 THEN Ok(r) ELSE Fail("ErrInexact")
  BY <1>1, QuantizedIs, ExactUnitsAre
<1>4. /\ q.val.amount = r /\ q.val.currency = c.currency /\ r.coef = k
  <2>1. q.val = Money(r, c.currency)
    BY <1>3 DEF Ok
  <2> QED
    BY <2>1 DEF Money, Dec
<1>5. units = (IF k \in Stored THEN Ok(Dec(k, 0)) ELSE Fail("ErrOverflow")) /\ units = Int64Units(Ok(r))
  <2>1. units = Int64Units(Ok(r))
    BY <1>2, <1>3 DEF CtxInt64MinorUnits, Guarded, Int64MinorUnits
  <2> QED
    BY <2>1, UnitsOf
<1>6. exact = IF Cmp(r, x) = 0 THEN units ELSE Fail("ErrInexact")
  <2>1. exact = Int64Units(RescaleExact(x, c.scale))
    BY <1>2 DEF CtxInt64MinorUnitsExact, Guarded, Int64MinorUnitsExact
  <2> HIDE DEF exact, units, r
  <2> QED
    BY <1>3, <1>5, <2>1, UnitsOf
<1>7. units = MoneyInt64MinorUnits(held, c.scale, c.rounding) /\ exact = MoneyInt64MinorUnitsExact(held, c.scale)
  BY <1>2 DEF CtxInt64MinorUnits, CtxInt64MinorUnitsExact, MoneyInt64MinorUnits, MoneyInt64MinorUnitsExact, Guarded
<1>8. CtxFromMinorUnits(c, k) = q /\ NewMoneyFromMinorUnits(k, c.scale, held.currency) = q
  <2>1. NewFromMinorUnits(k, c.scale) = Ok(r)
    BY <1>2 DEF NewFromMinorUnits, New
  <2>2. NormalCode[held.currency] = held.currency /\ held.currency # NoCurrency
    BY MoneyAssumption
  <2>3. Ok(r).err = "nil" /\ Ok(r).val = r
    BY DEF Ok
  <2> HIDE DEF r, k
  <2>4. CtxFromMinorUnits(c, k) = Attach(Ok(r), c.currency)
    BY <1>2, <2>1 DEF CtxFromMinorUnits, Guarded
  <2>5. NewMoneyFromMinorUnits(k, c.scale, held.currency) = Attach(Ok(r), c.currency)
    BY <2>1, <2>2, <2>3 DEF NewMoneyFromMinorUnits, NewMoney, Guarded, Check
  <2>6. Attach(Ok(r), c.currency) = Ok(Money(r, c.currency))
    BY DEF Attach, Ok
  <2> QED
    BY <1>3, <2>4, <2>5, <2>6
<1>9. MoneyEqual(q.val, held) <=> Cmp(r, x) = 0
  BY <1>4 DEF MoneyEqual
<1>10. /\ units.err = IF k \in Stored THEN "nil" ELSE "ErrOverflow"
       /\ units.err = "nil" => units.val.coef = k
  BY <1>5 DEF Ok, Fail, Dec
<1> HIDE DEF q, units, exact, k, r
<1> QED
  BY <1>4, <1>6, <1>7, <1>8, <1>9, <1>10 DEF q, units, exact, Stored

\* Minor units read back as money are the quantized money, whatever the amount and
\* the policy, for every width of the integer: they are refused only when they do
\* not fit, and the exact form returns the same units or none.  (minor.go;
\* money_context.go FromMinorUnits, Int64MinorUnits)
THEOREM MinorUnitsRoundTrip == CallerSpec => []UnitsRoundTrip
  BY UnitsReadBack, CallerInvHolds, PTL

-----------------------------------------------------------------------------
(* Ranges: quantizing keeps the order of amounts. *)

\* Every decimal on the finest scale
Rank(x) == x.coef * Pow10[MaxScale - x.scale]

Quantized(c, x) == Dec(Quantum(c, x), c.scale)

LEMMA RankOrders ==
    ASSUME NEW x, Valid(x), NEW y, Valid(y)
    PROVE  /\ Rank(x) \in Int /\ Cmp(x, y) \in Int
           /\ Rank(x) <= Rank(y) <=> x.coef * Pow10[y.scale] <= y.coef * Pow10[x.scale]
           /\ Cmp(x, y) > 0 <=> Rank(x) > Rank(y)
           /\ Cmp(x, y) < 0 <=> Rank(x) < Rank(y)
<1> DEFINE m == x.coef
           n == y.coef
           p == Pow10[x.scale]
           q == Pow10[y.scale]
           r == Pow10[MaxScale - x.scale]
           s == Pow10[MaxScale - y.scale]
           t == Pow10[MaxScale]
<1>1. /\ m \in Int /\ n \in Int /\ p \in Nat \ {0} /\ q \in Nat \ {0} /\ r \in Nat \ {0} /\ s \in Nat \ {0}
      /\ t \in Nat \ {0} /\ t = p * r /\ t = q * s
  <2>1. /\ x.scale \in Nat /\ x.scale <= MaxScale /\ y.scale \in Nat /\ y.scale <= MaxScale
        /\ MaxScale \in Nat /\ 2 * MaxScale \in Nat /\ MaxScale <= 2 * MaxScale /\ PowersOfTen(Pow10, 2 * MaxScale)
    BY ValidFields, Table
  <2> DEFINE w == 2 * MaxScale
  <2> HIDE DEF w
  <2>2. w \in Nat /\ MaxScale <= w /\ PowersOfTen(Pow10, w)
    BY <2>1 DEF w
  <2>3. /\ Pow10[x.scale] \in Nat \ {0} /\ Pow10[MaxScale] \in Nat \ {0} /\ Pow10[MaxScale - x.scale] \in Nat \ {0}
        /\ Pow10[MaxScale] = Pow10[x.scale] * Pow10[MaxScale - x.scale]
    BY <2>1, <2>2, PowersGrow
  <2>4. /\ Pow10[y.scale] \in Nat \ {0} /\ Pow10[MaxScale - y.scale] \in Nat \ {0}
        /\ Pow10[MaxScale] = Pow10[y.scale] * Pow10[MaxScale - y.scale]
    BY <2>1, <2>2, PowersGrow
  <2> QED
    BY <2>3, <2>4, ValidFields
<1>2. Rank(x) = m * r /\ Rank(y) = n * s
  BY DEF Rank
<1>3. Cmp(x, y) \in Int
  BY DEF Cmp, Sign
<1>4. /\ Cmp(x, y) > 0 <=> ~(m * q <= n * p)
      /\ Cmp(x, y) < 0 <=> ~(n * p <= m * q)
  BY CmpIsOrder
<1> HIDE DEF m, n, p, q, r, s, t
<1>5. (m * q) * (r * s) = (m * r) * t
  <2>1. (m * q) * (r * s) = (m * r) * (q * s)
    BY <1>1
  <2> QED
    BY <1>1, <2>1
<1>6. (n * p) * (r * s) = (n * s) * t
  <2>1. (n * p) * (r * s) = (n * s) * (p * r)
    BY <1>1
  <2> QED
    BY <1>1, <2>1
<1> DEFINE l == m * q
           h == n * p
           c == r * s
           i == m * r
           j == n * s
<1>7. l \in Int /\ h \in Int /\ c \in Int /\ c > 0 /\ i \in Int /\ j \in Int /\ t \in Int /\ t > 0
  BY <1>1
<1>8. l * c = i * t /\ h * c = j * t
  BY <1>5, <1>6
<1> HIDE DEF l, h, c, i, j
<1>9. (l <= h <=> i <= j) /\ (h <= l <=> j <= i)
  BY <1>7, <1>8, ScaledOrder
<1>10. /\ Rank(x) = i /\ Rank(y) = j
       /\ Cmp(x, y) > 0 <=> ~(l <= h)
       /\ Cmp(x, y) < 0 <=> ~(h <= l)
  BY <1>2, <1>4 DEF l, h, i, j
<1>11. Rank(x) <= Rank(y) <=> x.coef * Pow10[y.scale] <= y.coef * Pow10[x.scale]
  BY <1>9, <1>10 DEF l, h, m, n, p, q
<1> QED
  BY <1>3, <1>7, <1>9, <1>10, <1>11

\* No policy ranks two amounts the other way round, and amounts it ranks alike are one.
LEMMA QuantizingKeepsOrder ==
    ASSUME NEW c \in Contexts, ValidPolicy(c), NEW x, Valid(x), NEW y, Valid(y)
    PROVE  /\ Valid(Quantized(c, x)) /\ Valid(Quantized(c, y))
           /\ Rank(x) <= Rank(y) => Rank(Quantized(c, x)) <= Rank(Quantized(c, y))
           /\ Rank(Quantized(c, x)) = Rank(Quantized(c, y)) => Quantized(c, x) = Quantized(c, y)
<1> DEFINE k == Quantum(c, x)
           l == Quantum(c, y)
           g == Pow10[c.scale]
           p == Pow10[x.scale]
           q == Pow10[y.scale]
           m == x.coef
           n == y.coef
           u == Pow10[MaxScale - c.scale]
<1>1. /\ Valid(Dec(k, c.scale)) /\ k \in Int /\ IsRounded(k, m * g, p, c.rounding)
      /\ Valid(Dec(l, c.scale)) /\ l \in Int /\ IsRounded(l, n * g, q, c.rounding)
  BY QuantizedIs
<1>2. c.scale \in 0 .. MaxScale /\ c.scale \in Int /\ c.rounding \in RoundingModes
  BY ValidPolicyIs
<1>3. /\ g \in Nat \ {0} /\ p \in Nat \ {0} /\ q \in Nat \ {0} /\ m \in Int /\ n \in Int /\ u \in Nat \ {0}
  <2>1. MaxScale - c.scale \in 0 .. 2 * MaxScale /\ c.scale \in 0 .. 2 * MaxScale
    BY <1>2, Table
  <2> QED
    BY <2>1, ValidFields, Table
<1>4. Rank(x) <= Rank(y) <=> m * q <= n * p
  BY RankOrders
<1>5. Rank(Quantized(c, x)) = k * u /\ Rank(Quantized(c, y)) = l * u
  BY DEF Rank, Quantized, Dec
<1>6. Valid(Quantized(c, x)) /\ Valid(Quantized(c, y))
  BY <1>1 DEF Quantized
<1>7. k = l => Quantized(c, x) = Quantized(c, y)
  BY DEF Quantized
<1> HIDE DEF k, l, g, p, q, m, n, u
<1>8. (k * u <= l * u <=> k <= l) /\ (k * u = l * u <=> k = l)
  BY <1>1, <1>3, ScaledOrder
<1>9. ASSUME m * q <= n * p PROVE k <= l
  <2> DEFINE mg == m * g
             ng == n * g
  <2>1. mg \in Int /\ ng \in Int /\ p \in Int /\ q \in Int /\ p > 0 /\ q > 0
    BY <1>3
  <2>2. mg * q = (m * q) * g /\ ng * p = (n * p) * g
    BY <1>3
  <2>3. (m * q) * g <= (n * p) * g
    <3>1. m * q \in Int /\ n * p \in Int /\ g \in Int /\ g > 0
      BY <1>3
    <3> QED
      BY <1>9, <3>1, ScaledOrder
  <2>4. mg * q <= ng * p
    BY <2>2, <2>3
  <2>5. IsRounded(k, mg, p, c.rounding) /\ IsRounded(l, ng, q, c.rounding)
    BY <1>1
  <2> HIDE DEF mg, ng
  <2> QED
    BY <1>1, <1>2, <2>1, <2>4, <2>5, RoundingIsMonotonic
<1> QED
  BY <1>4, <1>5, <1>6, <1>7, <1>8, <1>9

\* The extreme of three is one of them that no other goes beyond.
LEMMA ExtremeIs ==
    ASSUME NEW ds, DOMAIN ds = {1, 2, 3}, \A k \in {1, 2, 3} : Valid(ds[k]), NEW sign \in {1, -1}
    PROVE  \E k \in {1, 2, 3} : /\ Extreme(ds, sign) = ds[k]
                                /\ \A j \in {1, 2, 3} : sign * Rank(ds[k]) <= sign * Rank(ds[j])
<1> DEFINE First(k) == \A j \in DOMAIN ds : IF j < k THEN sign * Cmp(ds[j], ds[k]) > 0
                                                    ELSE sign * Cmp(ds[j], ds[k]) >= 0
           r(k) == sign * Rank(ds[k])
<1>1. \A k \in {1, 2, 3} : r(k) \in Int
  BY RankOrders
<1>2. \A j, k \in {1, 2, 3} : /\ sign * Cmp(ds[j], ds[k]) > 0 <=> r(j) > r(k)
                              /\ sign * Cmp(ds[j], ds[k]) >= 0 <=> r(j) >= r(k)
  <2> SUFFICES ASSUME NEW j \in {1, 2, 3}, NEW k \in {1, 2, 3}
               PROVE  /\ sign * Cmp(ds[j], ds[k]) > 0 <=> r(j) > r(k)
                      /\ sign * Cmp(ds[j], ds[k]) >= 0 <=> r(j) >= r(k)
    OBVIOUS
  <2> DEFINE x == ds[j]
             y == ds[k]
  <2>1. /\ Rank(x) \in Int /\ Rank(y) \in Int /\ Cmp(x, y) \in Int
        /\ Cmp(x, y) > 0 <=> Rank(x) > Rank(y)
        /\ Cmp(x, y) < 0 <=> Rank(x) < Rank(y)
    BY RankOrders
  <2>2. CASE sign = 1
    BY <2>1, <2>2
  <2>3. CASE sign = -1
    BY <2>1, <2>3
  <2> QED
    BY <2>2, <2>3
<1> HIDE DEF r
<1>3. \A k \in {1, 2, 3} : First(k) <=> \A j \in {1, 2, 3} : IF j < k THEN r(j) > r(k) ELSE r(j) >= r(k)
  BY <1>2
<1> HIDE DEF First
<1>4. \E k \in {1, 2, 3} : First(k)
  <2>1. r(1) \in Int /\ r(2) \in Int /\ r(3) \in Int
    BY <1>1
  <2>2. CASE r(1) <= r(2) /\ r(1) <= r(3)
    <3>1. First(1)
      BY <1>3, <2>1, <2>2
    <3> QED
      BY <3>1
  <2>3. CASE r(2) < r(1) /\ r(2) <= r(3)
    <3>1. First(2)
      BY <1>3, <2>1, <2>3
    <3> QED
      BY <3>1
  <2>4. CASE r(3) < r(1) /\ r(3) < r(2)
    <3>1. First(3)
      BY <1>3, <2>1, <2>4
    <3> QED
      BY <3>1
  <2> QED
    BY <2>1, <2>2, <2>3, <2>4
<1>5. Extreme(ds, sign) = ds[CHOOSE k \in DOMAIN ds : First(k)]
  BY DEF Extreme, First
<1> DEFINE first == CHOOSE k \in DOMAIN ds : First(k)
<1>6. first \in {1, 2, 3} /\ First(first)
  BY <1>4
<1> HIDE DEF first
<1>7. \A j \in {1, 2, 3} : r(first) <= r(j)
  <2> SUFFICES ASSUME NEW j \in {1, 2, 3} PROVE r(first) <= r(j)
    OBVIOUS
  <2>1. IF j < first THEN r(j) > r(first) ELSE r(j) >= r(first)
    BY <1>3, <1>6
  <2>2. r(j) \in Int /\ r(first) \in Int
    BY <1>1, <1>6
  <2> QED
    BY <2>1, <2>2
<1> QED
  BY <1>5, <1>6, <1>7 DEF first, r

\* The extreme of quantized amounts is the quantized extreme.
LEMMA ExtremeQuantized ==
    ASSUME NEW c \in Contexts, ValidPolicy(c), NEW sign \in {1, -1},
           NEW ds, DOMAIN ds = {1, 2, 3}, \A k \in {1, 2, 3} : Valid(ds[k]),
           NEW es, DOMAIN es = {1, 2, 3}, \A k \in {1, 2, 3} : es[k] = Quantized(c, ds[k])
    PROVE  Extreme(es, sign) = Quantized(c, Extreme(ds, sign)) /\ Valid(Extreme(ds, sign))
<1>1. PICK i \in {1, 2, 3} : /\ Extreme(ds, sign) = ds[i]
                             /\ \A j \in {1, 2, 3} : sign * Rank(ds[i]) <= sign * Rank(ds[j])
  BY ExtremeIs
<1>2. \A k \in {1, 2, 3} : Valid(es[k])
  BY QuantizingKeepsOrder
<1>3. PICK k \in {1, 2, 3} : /\ Extreme(es, sign) = es[k]
                             /\ \A j \in {1, 2, 3} : sign * Rank(es[k]) <= sign * Rank(es[j])
  BY <1>2, ExtremeIs
<1>4. /\ Rank(ds[i]) \in Int /\ Rank(ds[k]) \in Int /\ Rank(es[i]) \in Int /\ Rank(es[k]) \in Int
  BY <1>2, RankOrders
<1>5. /\ Rank(ds[i]) <= Rank(ds[k]) => Rank(es[i]) <= Rank(es[k])
      /\ Rank(ds[k]) <= Rank(ds[i]) => Rank(es[k]) <= Rank(es[i])
      /\ Rank(es[i]) = Rank(es[k]) => es[i] = es[k]
  BY QuantizingKeepsOrder
<1>6. sign * Rank(ds[i]) <= sign * Rank(ds[k]) /\ sign * Rank(es[k]) <= sign * Rank(es[i])
  BY <1>1, <1>3
<1>7. Rank(es[i]) = Rank(es[k])
  <2>1. CASE sign = 1
    BY <1>4, <1>5, <1>6, <2>1
  <2>2. CASE sign = -1
    BY <1>4, <1>5, <1>6, <2>2
  <2> QED
    BY <2>1, <2>2
<1> QED
  BY <1>1, <1>3, <1>5, <1>7

\* Clamping and lying between, by rank
LEMMA ClampIs ==
    ASSUME NEW x, Valid(x), NEW a, Valid(a), NEW b, Valid(b)
    PROVE  /\ Clamp(x, a, b) = IF Rank(a) > Rank(b)
                                 THEN IF Rank(x) < Rank(b) THEN b ELSE IF Rank(x) > Rank(a) THEN a ELSE x
                                 ELSE IF Rank(x) < Rank(a) THEN a ELSE IF Rank(x) > Rank(b) THEN b ELSE x
           /\ Between(x, a, b, TRUE) <=> \/ Rank(a) <= Rank(x) /\ Rank(x) <= Rank(b)
                                         \/ Rank(b) <= Rank(x) /\ Rank(x) <= Rank(a)
<1>1. /\ Rank(x) \in Int /\ Rank(a) \in Int /\ Rank(b) \in Int /\ Cmp(x, a) \in Int /\ Cmp(x, b) \in Int
      /\ Cmp(x, a) < 0 <=> Rank(x) < Rank(a)
      /\ Cmp(x, a) > 0 <=> Rank(x) > Rank(a)
      /\ Cmp(x, b) < 0 <=> Rank(x) < Rank(b)
      /\ Cmp(x, b) > 0 <=> Rank(x) > Rank(b)
      /\ Cmp(a, b) > 0 <=> Rank(a) > Rank(b)
      /\ Cmp(b, a) < 0 <=> Rank(b) < Rank(a)
      /\ Cmp(b, a) > 0 <=> Rank(b) > Rank(a)
  BY RankOrders
<1>2. Clamp(x, a, b) = IF Rank(a) > Rank(b)
                         THEN IF Rank(x) < Rank(b) THEN b ELSE IF Rank(x) > Rank(a) THEN a ELSE x
                         ELSE IF Rank(x) < Rank(a) THEN a ELSE IF Rank(x) > Rank(b) THEN b ELSE x
  BY <1>1 DEF Clamp
<1>3. Between(x, a, b, TRUE) <=> Cmp(x, MinOf(a, b)) >= 0 /\ Cmp(x, MaxOf(a, b)) <= 0
  BY DEF Between
<1>4. /\ MinOf(a, b) = IF Rank(b) < Rank(a) THEN b ELSE a
      /\ MaxOf(a, b) = IF Rank(b) > Rank(a) THEN b ELSE a
  BY <1>1 DEF MinOf, MaxOf
<1>5. Between(x, a, b, TRUE) <=> \/ Rank(a) <= Rank(x) /\ Rank(x) <= Rank(b)
                                 \/ Rank(b) <= Rank(x) /\ Rank(x) <= Rank(a)
  <2>1. CASE Rank(b) < Rank(a)
    <3>1. MinOf(a, b) = b /\ MaxOf(a, b) = a
      BY <1>1, <1>4, <2>1
    <3>2. Between(x, a, b, TRUE) <=> Cmp(x, b) >= 0 /\ Cmp(x, a) <= 0
      BY <1>3, <3>1
    <3>3. Cmp(x, b) >= 0 /\ Cmp(x, a) <= 0 <=> \/ Rank(a) <= Rank(x) /\ Rank(x) <= Rank(b)
                                               \/ Rank(b) <= Rank(x) /\ Rank(x) <= Rank(a)
      BY <1>1, <2>1
    <3> QED
      BY <3>2, <3>3
  <2>2. CASE Rank(b) > Rank(a)
    <3>1. MinOf(a, b) = a /\ MaxOf(a, b) = b
      BY <1>1, <1>4, <2>2
    <3>2. Between(x, a, b, TRUE) <=> Cmp(x, a) >= 0 /\ Cmp(x, b) <= 0
      BY <1>3, <3>1
    <3>3. Cmp(x, a) >= 0 /\ Cmp(x, b) <= 0 <=> \/ Rank(a) <= Rank(x) /\ Rank(x) <= Rank(b)
                                               \/ Rank(b) <= Rank(x) /\ Rank(x) <= Rank(a)
      BY <1>1, <2>2
    <3> QED
      BY <3>2, <3>3
  <2>3. CASE Rank(b) = Rank(a)
    <3>1. MinOf(a, b) = a /\ MaxOf(a, b) = a
      BY <1>1, <1>4, <2>3
    <3>2. Between(x, a, b, TRUE) <=> Cmp(x, a) >= 0 /\ Cmp(x, a) <= 0
      BY <1>3, <3>1
    <3>3. Cmp(x, a) >= 0 /\ Cmp(x, a) <= 0 <=> \/ Rank(a) <= Rank(x) /\ Rank(x) <= Rank(b)
                                               \/ Rank(b) <= Rank(x) /\ Rank(x) <= Rank(a)
      BY <1>1, <2>3
    <3> QED
      BY <3>2, <3>3
  <2>4. Rank(b) < Rank(a) \/ Rank(b) > Rank(a) \/ Rank(b) = Rank(a)
    BY <1>1
  <2> QED
    BY <2>1, <2>2, <2>3, <2>4
<1> QED
  BY <1>2, <1>5

\* Clamping quantized amounts quantizes the clamped amount, and lying between the
\* bounds is staying where one is.
ClampKept(c, x, a, b) ==
    LET p == Quantized(c, x)
        q == Quantized(c, a)
        r == Quantized(c, b)
    IN  /\ Clamp(p, q, r) = Quantized(c, Clamp(x, a, b)) /\ Valid(Clamp(x, a, b))
        /\ Between(p, q, r, TRUE) <=> Clamp(p, q, r) = p
        /\ Between(x, a, b, TRUE) <=> Cmp(Clamp(x, a, b), x) = 0

LEMMA ClampQuantized ==
    ASSUME NEW c \in Contexts, ValidPolicy(c), NEW x, Valid(x), NEW a, Valid(a), NEW b, Valid(b)
    PROVE  ClampKept(c, x, a, b)
<1> DEFINE p == Quantized(c, x)
           q == Quantized(c, a)
           r == Quantized(c, b)
<1>1. /\ Valid(p) /\ Valid(q) /\ Valid(r)
      /\ Rank(x) <= Rank(a) => Rank(p) <= Rank(q)
      /\ Rank(a) <= Rank(x) => Rank(q) <= Rank(p)
      /\ Rank(x) <= Rank(b) => Rank(p) <= Rank(r)
      /\ Rank(b) <= Rank(x) => Rank(r) <= Rank(p)
      /\ Rank(a) <= Rank(b) => Rank(q) <= Rank(r)
      /\ Rank(b) <= Rank(a) => Rank(r) <= Rank(q)
      /\ Rank(p) = Rank(q) => p = q
      /\ Rank(p) = Rank(r) => p = r
      /\ Rank(q) = Rank(r) => q = r
  BY QuantizingKeepsOrder
<1>0. Quantized(c, x) = p /\ Quantized(c, a) = q /\ Quantized(c, b) = r
  OBVIOUS
<1> HIDE DEF p, q, r
<1>2. Rank(x) \in Int /\ Rank(a) \in Int /\ Rank(b) \in Int /\ Rank(p) \in Int /\ Rank(q) \in Int /\ Rank(r) \in Int
  BY <1>1, RankOrders
<1>3. Clamp(x, a, b) = IF Rank(a) > Rank(b)
                         THEN IF Rank(x) < Rank(b) THEN b ELSE IF Rank(x) > Rank(a) THEN a ELSE x
                         ELSE IF Rank(x) < Rank(a) THEN a ELSE IF Rank(x) > Rank(b) THEN b ELSE x
  BY ClampIs
<1>4. Clamp(p, q, r) = IF Rank(q) > Rank(r)
                         THEN IF Rank(p) < Rank(r) THEN r ELSE IF Rank(p) > Rank(q) THEN q ELSE p
                         ELSE IF Rank(p) < Rank(q) THEN q ELSE IF Rank(p) > Rank(r) THEN r ELSE p
  BY <1>1, ClampIs
<1>5. /\ Between(x, a, b, TRUE) <=> \/ Rank(a) <= Rank(x) /\ Rank(x) <= Rank(b)
                                    \/ Rank(b) <= Rank(x) /\ Rank(x) <= Rank(a)
      /\ Between(p, q, r, TRUE) <=> \/ Rank(q) <= Rank(p) /\ Rank(p) <= Rank(r)
                                    \/ Rank(r) <= Rank(p) /\ Rank(p) <= Rank(q)
  BY <1>1, ClampIs
<1>6. Clamp(x, a, b) = x \/ Clamp(x, a, b) = a \/ Clamp(x, a, b) = b
  BY <1>3
<1>7. Clamp(p, q, r) = Quantized(c, Clamp(x, a, b))
  <2>1. CASE Rank(a) > Rank(b)
    BY <1>0, <1>1, <1>2, <1>3, <1>4, <2>1
  <2>2. CASE ~(Rank(a) > Rank(b))
    BY <1>0, <1>1, <1>2, <1>3, <1>4, <2>2
  <2> QED
    BY <2>1, <2>2
<1>8. Between(p, q, r, TRUE) <=> Clamp(p, q, r) = p
  <2> DEFINE i == Rank(p)
             j == Rank(q)
             k == Rank(r)
             v == Clamp(p, q, r)
  <2>1. /\ i \in Int /\ j \in Int /\ k \in Int /\ i = Rank(p) /\ j = Rank(q) /\ k = Rank(r)
        /\ i = j => p = q
        /\ i = k => p = r
        /\ p = q => i = j
        /\ p = r => i = k
    BY <1>1, <1>2
  <2>2. v = IF j > k THEN IF i < k THEN r ELSE IF i > j THEN q ELSE p
                     ELSE IF i < j THEN q ELSE IF i > k THEN r ELSE p
    BY <1>4
  <2>3. Between(p, q, r, TRUE) <=> (j <= i /\ i <= k) \/ (k <= i /\ i <= j)
    BY <1>5
  <2> HIDE DEF i, j, k, v
  <2>4. v = p <=> (j <= i /\ i <= k) \/ (k <= i /\ i <= j)
    <3>1. CASE j > k
      BY <2>1, <2>2, <3>1
    <3>2. CASE ~(j > k)
      BY <2>1, <2>2, <3>2
    <3> QED
      BY <3>1, <3>2
  <2> QED
    BY <2>3, <2>4 DEF v
<1>9. /\ Cmp(x, x) = 0
      /\ Cmp(a, x) = 0 <=> Rank(a) = Rank(x)
      /\ Cmp(b, x) = 0 <=> Rank(b) = Rank(x)
  <2>1. \A y : Valid(y) => (Cmp(y, x) = 0 <=> Rank(y) = Rank(x))
    <3> SUFFICES ASSUME NEW y, Valid(y) PROVE Cmp(y, x) = 0 <=> Rank(y) = Rank(x)
      OBVIOUS
    <3>1. /\ Rank(y) \in Int /\ Cmp(y, x) \in Int
          /\ Cmp(y, x) > 0 <=> Rank(y) > Rank(x)
          /\ Cmp(y, x) < 0 <=> Rank(y) < Rank(x)
      BY RankOrders
    <3> QED
      BY <1>2, <3>1
  <2> QED
    BY <2>1
<1>10. Between(x, a, b, TRUE) <=> Cmp(Clamp(x, a, b), x) = 0
  <2> DEFINE i == Rank(x)
             j == Rank(a)
             k == Rank(b)
             v == Clamp(x, a, b)
  <2>1. /\ i \in Int /\ j \in Int /\ k \in Int
        /\ Cmp(x, x) = 0
        /\ Cmp(a, x) = 0 <=> j = i
        /\ Cmp(b, x) = 0 <=> k = i
    BY <1>2, <1>9
  <2>2. v = IF j > k THEN IF i < k THEN b ELSE IF i > j THEN a ELSE x
                     ELSE IF i < j THEN a ELSE IF i > k THEN b ELSE x
    BY <1>3
  <2>3. Between(x, a, b, TRUE) <=> (j <= i /\ i <= k) \/ (k <= i /\ i <= j)
    BY <1>5
  <2> HIDE DEF i, j, k, v
  <2>4. CASE v = x
    <3>1. (j <= i /\ i <= k) \/ (k <= i /\ i <= j)
      <4>1. CASE j > k
        BY <2>1, <2>2, <2>4, <4>1
      <4>2. CASE ~(j > k)
        BY <2>1, <2>2, <2>4, <4>2
      <4> QED
        BY <4>1, <4>2
    <3> QED
      BY <2>1, <2>3, <2>4, <3>1 DEF v
  <2>5. CASE v # x
    <3>1. /\ (v = a /\ Cmp(v, x) = 0 <=> v = a /\ j = i)
          /\ (v = b /\ Cmp(v, x) = 0 <=> v = b /\ k = i)
      BY <2>1
    <3>2. CASE j > k
      <4>1. (i < k /\ v = b) \/ (i > j /\ v = a)
        BY <2>1, <2>2, <2>5, <3>2
      <4>2. Cmp(v, x) # 0
        BY <2>1, <3>1, <3>2, <4>1
      <4>3. ~(j <= i /\ i <= k) /\ ~(k <= i /\ i <= j)
        BY <2>1, <3>2, <4>1
      <4> QED
        BY <2>3, <4>2, <4>3 DEF v
    <3>3. CASE ~(j > k)
      <4>1. (i < j /\ v = a) \/ (i > k /\ v = b)
        BY <2>1, <2>2, <2>5, <3>3
      <4>2. Cmp(v, x) # 0
        BY <2>1, <3>1, <3>3, <4>1
      <4>3. ~(j <= i /\ i <= k) /\ ~(k <= i /\ i <= j)
        BY <2>1, <3>3, <4>1
      <4> QED
        BY <2>3, <4>2, <4>3 DEF v
    <3> QED
      BY <3>2, <3>3
  <2> QED
    BY <2>4, <2>5
<1>11. Valid(Clamp(x, a, b))
  BY <1>6
<1> QED
  BY <1>7, <1>8, <1>10, <1>11 DEF ClampKept, p, q, r
LEMMA TripleIs ==
    ASSUME NEW x, NEW y, NEW z
    PROVE  /\ <<x, y, z>> # <<>> /\ DOMAIN <<x, y, z>> = {1, 2, 3}
           /\ <<x, y, z>>[1] = x /\ <<x, y, z>>[2] = y /\ <<x, y, z>>[3] = z
<1>1. DOMAIN <<x, y, z>> = 1 .. 3 /\ DOMAIN << >> = 1 .. 0
  OBVIOUS
<1>2. 1 .. 3 = {1, 2, 3} /\ 1 .. 0 = {}
  OBVIOUS
<1>3. <<x, y, z>> # <<>>
  BY <1>1, <1>2
<1> QED
  BY <1>1, <1>2, <1>3

\* Amounts of one currency, quantized by a policy for it
LEMMA TripleQuantized ==
    ASSUME NEW c \in Contexts, ValidPolicy(c), NEW values, DOMAIN values = {1, 2, 3},
           \A k \in {1, 2, 3} : values[k].currency = c.currency /\ Valid(values[k].amount)
    PROVE  LET qs == AllQuantized(c, values)
           IN  /\ AnyError(qs) = "nil" /\ DOMAIN Amounts(qs) = {1, 2, 3}
               /\ \A k \in {1, 2, 3} : Amounts(qs)[k] = Quantized(c, values[k].amount)
<1> DEFINE qs == AllQuantized(c, values)
           errs == [k \in DOMAIN qs |-> qs[k].err]
<1>1. DOMAIN qs = {1, 2, 3} /\ \A k \in {1, 2, 3} : qs[k] = CtxQuantize(c, values[k])
  BY DEF AllQuantized
<1>2. \A k \in {1, 2, 3} : qs[k] = Ok(Money(Quantized(c, values[k].amount), c.currency))
  <2> SUFFICES ASSUME NEW k \in {1, 2, 3}
               PROVE  qs[k] = Ok(Money(Quantized(c, values[k].amount), c.currency))
    OBVIOUS
  <2>1. CtxQuantize(c, values[k]) = Ok(Money(Quantized(c, values[k].amount), c.currency))
    BY QuantizedIs DEF Quantized
  <2> QED
    BY <1>1, <2>1
<1>3. \A k \in {1, 2, 3} : qs[k].err = "nil" /\ qs[k].val.amount = Quantized(c, values[k].amount)
  BY <1>2 DEF Ok, Money
<1> HIDE DEF qs
<1>4. DOMAIN errs = {1, 2, 3} /\ \A k \in {1, 2, 3} : errs[k] = "nil"
  BY <1>1, <1>3
<1>5. FirstOf(errs) = "nil"
  BY <1>4 DEF FirstOf
<1>6. AnyError(qs) = "nil"
  BY <1>5 DEF AnyError
<1>7. DOMAIN Amounts(qs) = {1, 2, 3} /\ \A k \in {1, 2, 3} : Amounts(qs)[k] = Quantized(c, values[k].amount)
  BY <1>1, <1>3 DEF Amounts
<1> QED
  BY <1>6, <1>7 DEF qs

\* The smallest and the largest: the policy answers with what the plain method
\* would have answered, quantized.
LEMMA ExtremeQuantizesFirst ==
    ASSUME NEW c \in Contexts, ValidPolicy(c), NEW sign \in {1, -1},
           NEW values, values # <<>>, DOMAIN values = {1, 2, 3},
           \A k \in {1, 2, 3} : values[k].currency = c.currency /\ Valid(values[k].amount)
    PROVE  CtxExtreme(c, values, sign) = CtxQuantize(c, ExtremeMoney(values, sign).val)
<1> DEFINE qs == AllQuantized(c, values)
           guards == [k \in DOMAIN values |-> SameCurrency(values[1], values[k])]
           amounts == [k \in DOMAIN values |-> values[k].amount]
           x == Extreme(amounts, sign)
           y == Extreme(Amounts(qs), sign)
<1>1. /\ AnyError(qs) = "nil" /\ DOMAIN Amounts(qs) = {1, 2, 3}
      /\ \A k \in {1, 2, 3} : Amounts(qs)[k] = Quantized(c, values[k].amount)
  BY TripleQuantized
<1>2. DOMAIN amounts = {1, 2, 3} /\ \A k \in {1, 2, 3} : amounts[k] = values[k].amount /\ Valid(amounts[k])
  OBVIOUS
<1>3. DOMAIN guards = {1, 2, 3} /\ \A k \in {1, 2, 3} : guards[k] = "nil"
  <2>1. c.currency \in Currencies
    BY ValidPolicyIs
  <2>2. \A k \in {1, 2, 3} : SameCurrency(values[1], values[k]) = "nil"
    BY <2>1, SameCurrencyIs
  <2> QED
    BY <2>2
<1>4. FirstOf(guards) = "nil"
  BY <1>3 DEF FirstOf
<1>5. CtxExtreme(c, values, sign) = Attach(Ok(y), c.currency)
  BY <1>1 DEF CtxExtreme, Guarded
<1>6. ExtremeMoney(values, sign) = Attach(Ok(x), values[1].currency)
  BY <1>4 DEF ExtremeMoney, Guarded
<1>7. y = Quantized(c, x) /\ Valid(x)
  <2>1. \A k \in {1, 2, 3} : Amounts(qs)[k] = Quantized(c, amounts[k])
    BY <1>1, <1>2
  <2> HIDE DEF amounts, qs
  <2> QED
    BY <1>1, <1>2, <2>1, ExtremeQuantized
<1> HIDE DEF qs, guards, amounts, x, y
<1>8. values[1].currency = c.currency
  OBVIOUS
<1>9. ExtremeMoney(values, sign).val = Money(x, c.currency)
  BY <1>6, <1>8 DEF Attach, Ok
<1>10. CtxQuantize(c, Money(x, c.currency)) = Ok(Money(Quantized(c, x), c.currency))
  <2>1. Money(x, c.currency).currency = c.currency /\ Money(x, c.currency).amount = x
    BY DEF Money
  <2> QED
    BY <1>7, <2>1, QuantizedIs DEF Quantized
<1>11. Attach(Ok(y), c.currency) = Ok(Money(y, c.currency))
  BY DEF Attach, Ok
<1> QED
  BY <1>5, <1>7, <1>9, <1>10, <1>11

\* Clamping and lying between bounds, through a policy and without one
LEMMA ClampQuantizesFirst ==
    ASSUME NEW c \in Contexts, ValidPolicy(c), NEW m, NEW a, NEW b,
           m.currency = c.currency, a.currency = c.currency, b.currency = c.currency,
           Valid(m.amount), Valid(a.amount), Valid(b.amount)
    PROVE  /\ CtxClamp(c, m, a, b) = CtxQuantize(c, MoneyClamp(m, a, b).val)
           /\ CtxBetween(c, m, a, b, TRUE).val <=> (CtxClamp(c, m, a, b) = CtxQuantize(c, m))
           /\ MoneyBetween(m, a, b, TRUE).val <=> MoneyEqual(MoneyClamp(m, a, b).val, m)
<1> DEFINE values == <<m, a, b>>
           qs == AllQuantized(c, values)
           ds == Amounts(qs)
           p == Quantized(c, m.amount)
           q == Quantized(c, a.amount)
           r == Quantized(c, b.amount)
           x == Clamp(m.amount, a.amount, b.amount)
           y == Clamp(p, q, r)
<1>1. /\ DOMAIN values = {1, 2, 3} /\ values[1] = m /\ values[2] = a /\ values[3] = b
  BY TripleIs
<1>2. \A k \in {1, 2, 3} : values[k].currency = c.currency /\ Valid(values[k].amount)
  BY <1>1
<1>3. /\ AnyError(qs) = "nil" /\ ds[1] = p /\ ds[2] = q /\ ds[3] = r
  <2> HIDE DEF values
  <2>1. /\ AnyError(qs) = "nil"
        /\ \A k \in {1, 2, 3} : ds[k] = Quantized(c, values[k].amount)
    BY <1>1, <1>2, TripleQuantized
  <2> QED
    BY <1>1, <2>1
<1>4. RangeError(m, a, b) = "nil"
  <2>1. c.currency \in Currencies
    BY ValidPolicyIs
  <2>2. SameCurrency(m, a) = "nil" /\ SameCurrency(m, b) = "nil"
    BY <2>1, SameCurrencyIs
  <2> QED
    BY <2>2 DEF RangeError, FirstError
<1>5. CtxClamp(c, m, a, b) = Attach(Ok(y), c.currency)
  <2>1. CtxClamp(c, m, a, b) = Attach(Guarded(AnyError(qs), Ok(Clamp(ds[1], ds[2], ds[3]))), c.currency)
    BY DEF CtxClamp
  <2> HIDE DEF qs, ds, p, q, r
  <2> QED
    BY <1>3, <2>1 DEF Guarded
<1>6. CtxBetween(c, m, a, b, TRUE).val <=> Between(p, q, r, TRUE)
  <2>1. CtxBetween(c, m, a, b, TRUE).val = (AnyError(qs) = "nil" /\ Between(ds[1], ds[2], ds[3], TRUE))
    BY DEF CtxBetween
  <2> HIDE DEF qs, ds, p, q, r
  <2> QED
    BY <1>3, <2>1
<1>7. MoneyClamp(m, a, b) = Attach(Ok(x), c.currency)
  BY <1>4 DEF MoneyClamp, Guarded
<1>8. MoneyBetween(m, a, b, TRUE).val <=> Between(m.amount, a.amount, b.amount, TRUE)
  <2>1. MoneyBetween(m, a, b, TRUE).val
          = (RangeError(m, a, b) = "nil" /\ Between(m.amount, a.amount, b.amount, TRUE))
    BY DEF MoneyBetween
  <2> QED
    BY <1>4, <2>1
<1>9. /\ y = Quantized(c, x) /\ Valid(x)
      /\ Between(p, q, r, TRUE) <=> y = p
      /\ Between(m.amount, a.amount, b.amount, TRUE) <=> Cmp(x, m.amount) = 0
  <2>1. ClampKept(c, m.amount, a.amount, b.amount)
    BY ClampQuantized
  <2> QED
    BY <2>1 DEF ClampKept
<1> HIDE DEF values, qs, ds, p, q, r, x, y
<1>10. Attach(Ok(y), c.currency) = Ok(Money(y, c.currency)) /\ MoneyClamp(m, a, b).val = Money(x, c.currency)
  BY <1>7 DEF Attach, Ok
<1>11. Money(x, c.currency).currency = c.currency /\ Money(x, c.currency).amount = x
  BY DEF Money
<1>12. /\ CtxQuantize(c, Money(x, c.currency)) = Ok(Money(Quantized(c, x), c.currency))
       /\ CtxQuantize(c, m) = Ok(Money(p, c.currency))
  BY <1>9, <1>11, QuantizedIs DEF Quantized, p
<1>13. CtxClamp(c, m, a, b) = CtxQuantize(c, MoneyClamp(m, a, b).val)
  BY <1>5, <1>9, <1>10, <1>12
<1>14. CtxClamp(c, m, a, b) = CtxQuantize(c, m) <=> y = p
  <2>1. CtxClamp(c, m, a, b) = Ok(Money(y, c.currency))
    BY <1>5, <1>10
  <2>2. /\ Ok(Money(y, c.currency)).val.amount = y
        /\ Ok(Money(p, c.currency)).val.amount = p
    BY DEF Ok, Money
  <2> QED
    BY <1>12, <2>1, <2>2
<1>15. MoneyEqual(MoneyClamp(m, a, b).val, m) <=> Cmp(x, m.amount) = 0
  BY <1>10, <1>11 DEF MoneyEqual
<1> QED
  BY <1>6, <1>8, <1>9, <1>13, <1>14, <1>15

LEMMA RangesQuantize == CallerInv => RangesQuantizeFirst
<1> SUFFICES ASSUME CallerInv, held.currency \in Currencies,
                    NEW c \in Contexts, ValidPolicy(c), c.currency = held.currency,
                    NEW a \in Same(held), NEW b \in Same(held)
             PROVE  LET clamped == CtxClamp(c, held, a, b)
                    IN  /\ CtxMin(c, <<held, a, b>>) = CtxQuantize(c, MinMoney(<<held, a, b>>).val)
                        /\ CtxMax(c, <<held, a, b>>) = CtxQuantize(c, MaxMoney(<<held, a, b>>).val)
                        /\ clamped = CtxQuantize(c, MoneyClamp(held, a, b).val)
                        /\ CtxBetween(c, held, a, b, TRUE).val <=> (clamped = CtxQuantize(c, held))
                        /\ MoneyBetween(held, a, b, TRUE).val <=> MoneyEqual(MoneyClamp(held, a, b).val, held)
  BY DEF RangesQuantizeFirst
<1> DEFINE values == <<held, a, b>>
<1>1. /\ Valid(held.amount) /\ Valid(a.amount) /\ Valid(b.amount)
      /\ a.currency = c.currency /\ b.currency = c.currency
  BY CallerFacts, Loaded DEF d, Same
<1>2. /\ values # <<>> /\ DOMAIN values = {1, 2, 3}
      /\ values[1] = held /\ values[2] = a /\ values[3] = b
  BY TripleIs
<1>3. \A k \in {1, 2, 3} : values[k].currency = c.currency /\ Valid(values[k].amount)
  BY <1>1, <1>2
<1>4. /\ CtxClamp(c, held, a, b) = CtxQuantize(c, MoneyClamp(held, a, b).val)
      /\ CtxBetween(c, held, a, b, TRUE).val <=> (CtxClamp(c, held, a, b) = CtxQuantize(c, held))
      /\ MoneyBetween(held, a, b, TRUE).val <=> MoneyEqual(MoneyClamp(held, a, b).val, held)
  BY <1>1, ClampQuantizesFirst
<1> HIDE DEF values
<1>5. \A sign \in {1, -1} : CtxExtreme(c, values, sign) = CtxQuantize(c, ExtremeMoney(values, sign).val)
  BY <1>2, <1>3, ExtremeQuantizesFirst
<1>6. /\ CtxMin(c, values) = CtxQuantize(c, MinMoney(values).val)
      /\ CtxMax(c, values) = CtxQuantize(c, MaxMoney(values).val)
  BY <1>5 DEF CtxMin, CtxMax, MinMoney, MaxMoney
<1> QED
  BY <1>4, <1>6 DEF values

\* The range methods of a policy quantize first and compare afterwards, and answer
\* what the plain methods would have answered, quantized: no policy ranks two
\* amounts the other way round, whatever the bounds and their order, and a value
\* lies between two bounds exactly when clamping leaves it where it is.
\* (money_context.go Min, Max, Between, Clamp; money.go MinMoney, MaxMoney, Clamp)
THEOREM RangesCompareQuantized == CallerSpec => []RangesQuantizeFirst
  BY RangesQuantize, CallerInvHolds, PTL

-----------------------------------------------------------------------------
(* Receivers: magnitudes in bytes and in digits. *)

\* r reads s, byte after byte
ReadsBytes(r, s) ==
    r \in [0 .. Len(s) -> Nat] /\ r[0] = 0 /\ \A k \in 1 .. Len(s) : r[k] = r[k - 1] * ByteSize + s[k]

\* Every sequence of bytes can be read.
LEMMA ReadingExists ==
    ASSUME NEW s \in Seq(Nat)
    PROVE  \E r : ReadsBytes(r, s)
<1> DEFINE n == Len(s)
           step == [k \in Nat |-> [x \in Nat |-> IF k \in 1 .. n THEN x * ByteSize + s[k] ELSE x]]
<1>1. n \in Nat /\ \A k \in 1 .. n : s[k] \in Nat
  OBVIOUS
<1>2. ByteSize \in Nat
  BY CodecAssumption
<1>3. 0 \in Nat /\ step \in [Nat -> [Nat -> Nat]]
  <2>1. \A k \in 1 .. n : \A x \in Nat : x * ByteSize + s[k] \in Nat
    BY <1>1, <1>2
  <2> QED
    BY <2>1
<1>4. \A k \in 1 .. n : \A x \in Nat : step[k][x] = x * ByteSize + s[k]
  BY <1>1
<1> HIDE DEF step, n
<1>5. PICK f : Recursive(f, Nat, 0, step)
  BY <1>3, Recursion
<1>6. f \in [Nat -> Nat] /\ f[0] = 0 /\ \A k \in Nat : f[k + 1] = step[k + 1][f[k]]
  BY <1>5 DEF Recursive
<1> DEFINE r == [k \in 0 .. n |-> f[k]]
<1>7. ASSUME NEW k \in 1 .. n PROVE r[k] = r[k - 1] * ByteSize + s[k]
  <2>1. k - 1 \in Nat /\ (k - 1) + 1 = k /\ k \in 0 .. n /\ k - 1 \in 0 .. n
    BY <1>1
  <2>2. f[k] = step[k][f[k - 1]] /\ f[k - 1] \in Nat
    BY <1>6, <2>1
  <2>3. f[k] = f[k - 1] * ByteSize + s[k]
    BY <1>4, <2>2
  <2> QED
    BY <2>1, <2>3
<1>8. r \in [0 .. n -> Nat] /\ r[0] = 0
  <2>1. \A k \in 0 .. n : f[k] \in Nat
    <3>1. f \in [Nat -> Nat]
      BY <1>6
    <3>2. \A k \in 0 .. n : k \in Nat
      BY <1>1
    <3> QED
      BY <3>1, <3>2, Zenon
  <2>2. 0 \in 0 .. n
    BY <1>1
  <2> QED
    BY <1>6, <2>1, <2>2
<1> QED
  BY <1>7, <1>8 DEF ReadsBytes, n

\* SetBytes is where such a reading ends.
LEMMA SetBytesIsLast ==
    ASSUME NEW s \in Seq(Nat), NEW r, ReadsBytes(r, s)
    PROVE  SetBytes(s) = r[Len(s)] /\ SetBytes(s) \in Nat
<1> DEFINE n == Len(s)
           read == CHOOSE f : f = [k \in 0 .. n |-> IF k = 0 THEN 0 ELSE f[k - 1] * ByteSize + s[k]]
<1>1. n \in Nat /\ r \in [0 .. n -> Nat] /\ r[0] = 0 /\ \A k \in 1 .. n : r[k] = r[k - 1] * ByteSize + s[k]
  BY DEF ReadsBytes
<1>2. r = [k \in 0 .. n |-> IF k = 0 THEN 0 ELSE r[k - 1] * ByteSize + s[k]]
  <2>1. \A k \in 0 .. n : k # 0 => k \in 1 .. n
    BY <1>1
  <2> QED
    BY <1>1, <2>1
<1> HIDE DEF n
<1>3. read = [k \in 0 .. n |-> IF k = 0 THEN 0 ELSE read[k - 1] * ByteSize + s[k]]
  BY <1>2
<1>4. SetBytes(s) = read[n]
  BY DEF SetBytes, n
<1> HIDE DEF read
<1> DEFINE S == {k \in Nat : k <= n => read[k] = r[k]}
<1>5. 0 \in S
  BY <1>1, <1>3
<1>6. ASSUME NEW k \in S PROVE k + 1 \in S
  <2>1. k \in Nat /\ k + 1 \in Nat
    OBVIOUS
  <2>2. ASSUME k + 1 <= n PROVE read[k + 1] = r[k + 1]
    <3>1. k + 1 \in 1 .. n /\ k + 1 \in 0 .. n /\ (k + 1) - 1 = k /\ k <= n /\ k + 1 # 0
      BY <1>1, <2>1, <2>2
    <3>2. read[k] = r[k]
      BY <3>1
    <3>3. read[k + 1] = read[(k + 1) - 1] * ByteSize + s[k + 1]
      BY <1>3, <3>1
    <3>4. r[k + 1] = r[(k + 1) - 1] * ByteSize + s[k + 1]
      BY <1>1, <3>1
    <3> QED
      BY <3>1, <3>2, <3>3, <3>4
  <2> QED
    BY <2>1, <2>2
<1>7. S = Nat
  <2> HIDE DEF S
  <2>1. S \subseteq Nat
    BY DEF S
  <2> QED
    BY <1>5, <1>6, <2>1, Induction
<1>8. read[n] = r[n]
  <2>1. n \in S
    <3> HIDE DEF S
    <3> QED
      BY <1>1, <1>7
  <2> QED
    BY <1>1, <2>1
<1> QED
  BY <1>1, <1>4, <1>8 DEF n

LEMMA SetBytesIsNatural ==
    ASSUME NEW s \in Seq(Nat)
    PROVE  SetBytes(s) \in Nat
<1>1. PICK r : ReadsBytes(r, s)
  BY ReadingExists
<1> QED
  BY <1>1, SetBytesIsLast

LEMMA SetBytesEmpty == SetBytes(<<>>) = 0
<1> DEFINE r == [k \in 0 .. 0 |-> 0]
<1>1. <<>> \in Seq(Nat) /\ Len(<<>>) = 0
  OBVIOUS
<1>2. ReadsBytes(r, <<>>)
  BY <1>1 DEF ReadsBytes
<1>3. r[0] = 0
  OBVIOUS
<1> HIDE DEF r
<1> QED
  BY <1>1, <1>2, <1>3, SetBytesIsLast

\* One byte more is one digit more in the base of bytes.
LEMMA SetBytesAppend ==
    ASSUME NEW s \in Seq(Nat), NEW x \in Nat
    PROVE  SetBytes(s \o <<x>>) = SetBytes(s) * ByteSize + x
<1> DEFINE n == Len(s)
           t == s \o <<x>>
<1>1. n \in Nat /\ t \in Seq(Nat) /\ Len(t) = n + 1 /\ t[n + 1] = x /\ \A k \in 1 .. n : t[k] = s[k]
  OBVIOUS
<1>2. PICK r : ReadsBytes(r, s)
  BY ReadingExists
<1>3. r \in [0 .. n -> Nat] /\ r[0] = 0 /\ \A k \in 1 .. n : r[k] = r[k - 1] * ByteSize + s[k]
  BY <1>2 DEF ReadsBytes
<1>4. ByteSize \in Nat
  BY CodecAssumption
<1> HIDE DEF t, n
<1> DEFINE last == r[n] * ByteSize + x
           q == [k \in 0 .. (n + 1) |-> IF k = n + 1 THEN last ELSE r[k]]
<1>5. last \in Nat
  <2>1. r[n] \in Nat
    BY <1>1, <1>3
  <2>2. \A a, b, c \in Nat : a * b + c \in Nat
    OBVIOUS
  <2> QED
    BY <1>4, <2>1, <2>2
<1> HIDE DEF last
<1>6. q \in [0 .. (n + 1) -> Nat] /\ q[0] = 0 /\ q[n + 1] = last
  BY <1>1, <1>3, <1>5
<1>7. \A k \in 0 .. n : q[k] = r[k]
  BY <1>1
<1> HIDE DEF q
<1>8. ASSUME NEW k \in 1 .. (n + 1) PROVE q[k] = q[k - 1] * ByteSize + t[k]
  <2>1. CASE k = n + 1
    <3>1. k - 1 = n /\ n \in 0 .. n
      BY <1>1, <2>1
    <3> QED
      BY <1>1, <1>6, <1>7, <2>1, <3>1 DEF last
  <2>2. CASE k # n + 1
    <3>1. k \in 1 .. n /\ k \in 0 .. n /\ k - 1 \in 0 .. n
      BY <1>1, <2>2
    <3> QED
      BY <1>1, <1>3, <1>7, <3>1
  <2> QED
    BY <2>1, <2>2
<1>9. ReadsBytes(q, t)
  BY <1>1, <1>6, <1>8 DEF ReadsBytes
<1>10. SetBytes(t) = q[n + 1] /\ SetBytes(s) = r[n]
  BY <1>1, <1>2, <1>9, SetBytesIsLast DEF n
<1> QED
  BY <1>6, <1>10 DEF t, last

\* The bytes of a number are those of its quotient and the remainder.
LEMMA BytesStep ==
    /\ Bytes \in [Nat -> Seq(0 .. ByteSize - 1)]
    /\ Bytes[0] = <<>>
    /\ \A n \in Nat \ {0} : Bytes[n] = Bytes[n \div ByteSize] \o <<n % ByteSize>>
<1> DEFINE S == Seq(0 .. ByteSize - 1)
           Stop  == {0}
           alone == [n \in Nat |-> <<>>]
           after == [n \in Nat |-> [s \in S |-> s \o <<n % ByteSize>>]]
<1>1. ByteSize \in Nat /\ ByteSize > 1
  BY CodecAssumption
<1>2. \A n \in Nat : n % ByteSize \in 0 .. ByteSize - 1
  BY <1>1, FloorDivision
<1>3. <<>> \in S
  OBVIOUS
<1>4. ASSUME NEW s \in S, NEW n \in Nat PROVE s \o <<n % ByteSize>> \in S
  <2>1. n % ByteSize \in 0 .. ByteSize - 1
    BY <1>2
  <2> DEFINE b == n % ByteSize
             T == 0 .. ByteSize - 1
  <2>2. b \in T /\ s \in Seq(T)
    BY <2>1
  <2> HIDE DEF b, T
  <2>3. s \o <<b>> \in Seq(T)
    BY <2>2, LongerByOne
  <2> QED
    BY <2>3 DEF b, T
<1> HIDE DEF S
<1>5. alone \in [Nat -> S] /\ after \in [Nat -> [S -> S]]
  BY <1>3, <1>4
<1>6. \A n \in Nat, s \in S : alone[n] = <<>> /\ after[n][s] = s \o <<n % ByteSize>>
  OBVIOUS
<1> HIDE DEF alone, after
<1>7. PICK f \in [Nat -> S] : WritesDigits(f, ByteSize, Stop, alone, after)
  <2>1. 0 \in Stop
    OBVIOUS
  <2> HIDE DEF Stop
  <2> QED
    BY <1>1, <1>3, <1>5, <2>1, Digitwise
<1>8. ASSUME NEW n \in Nat PROVE f[n] = IF n = 0 THEN <<>> ELSE f[n \div ByteSize] \o <<n % ByteSize>>
  <2>1. f[n] = IF n \in Stop THEN alone[n] ELSE after[n][f[n \div ByteSize]]
    BY <1>7 DEF WritesDigits
  <2>2. CASE n = 0
    BY <1>6, <2>1, <2>2
  <2>3. CASE n # 0
    <3>1. n \div ByteSize \in Nat
      BY <1>1, <2>3, QuotientIsSmaller
    <3>2. f[n \div ByteSize] \in S
      BY <1>7, <3>1
    <3> QED
      BY <1>6, <2>1, <2>3, <3>2
  <2> QED
    BY <2>2, <2>3
<1>9. f = [n \in Nat |-> IF n = 0 THEN <<>> ELSE f[n \div ByteSize] \o <<n % ByteSize>>]
  BY <1>7, <1>8
<1> DEFINE bytes == CHOOSE g : g = [n \in Nat |-> IF n = 0 THEN <<>> ELSE g[n \div ByteSize] \o <<n % ByteSize>>]
<1>10. bytes = [n \in Nat |-> IF n = 0 THEN <<>> ELSE bytes[n \div ByteSize] \o <<n % ByteSize>>]
  BY <1>9
<1>11. Bytes = bytes
  BY DEF Bytes
<1> HIDE DEF bytes
<1>12. /\ Bytes = [n \in Nat |-> Bytes[n]]
       /\ \A n \in Nat : Bytes[n] = IF n = 0 THEN <<>> ELSE Bytes[n \div ByteSize] \o <<n % ByteSize>>
  BY <1>10, <1>11, Zenon
<1> DEFINE Typed == {n \in Nat : \A k \in Nat : k <= n => Bytes[k] \in S}
<1>13. 0 \in Typed
  <2>1. \A k \in Nat : k <= 0 => k = 0
    OBVIOUS
  <2> QED
    BY <1>3, <1>12, <2>1
<1>14. ASSUME NEW n \in Typed PROVE n + 1 \in Typed
  <2>1. n \in Nat /\ n + 1 \in Nat /\ n + 1 # 0 /\ \A k \in Nat : k <= n => Bytes[k] \in S
    OBVIOUS
  <2>2. Bytes[n + 1] \in S
    <3>1. (n + 1) \div ByteSize \in Nat /\ (n + 1) \div ByteSize < n + 1
      BY <1>1, <2>1, QuotientIsSmaller
    <3> DEFINE q == (n + 1) \div ByteSize
    <3>2. q \in Nat /\ q <= n
      <4>1. q \in Nat /\ q < n + 1
        BY <3>1
      <4> HIDE DEF q
      <4> QED
        BY <2>1, <4>1
    <3>3. Bytes[q] \in S
      <4> HIDE DEF q
      <4> QED
        BY <2>1, <3>2
    <3>4. Bytes[n + 1] = Bytes[q] \o <<(n + 1) % ByteSize>>
      BY <1>12, <2>1, Zenon
    <3> QED
      BY <1>4, <2>1, <3>3, <3>4, Zenon
  <2>3. \A k \in Nat : k <= n + 1 => k <= n \/ k = n + 1
    BY <2>1
  <2> QED
    BY <2>1, <2>2, <2>3
<1>15. Typed = Nat
  <2> HIDE DEF Typed
  <2>1. Typed \in SUBSET Nat
    BY DEF Typed
  <2> QED
    BY <1>13, <1>14, <2>1, Induction
<1>16. \A n \in Nat : Bytes[n] \in S
  <2> TAKE n \in Nat
  <2>1. n \in Typed
    <3> HIDE DEF Typed
    <3> QED
      BY <1>15
  <2> QED
    BY <2>1
<1>17. Bytes \in [Nat -> S]
  BY <1>12, <1>16
<1>18. Bytes[0] = <<>>
  BY <1>12
<1>19. ASSUME NEW n \in Nat \ {0} PROVE Bytes[n] = Bytes[n \div ByteSize] \o <<n % ByteSize>>
  BY <1>12, Zenon
<1> QED
  BY <1>17, <1>18, <1>19 DEF S

LEMMA BytesLength == \A n, k \in Nat : Len(Bytes[n]) > k <=> n >= Powers(ByteSize)[k]
<1> DEFINE count == [n \in Nat |-> Len(Bytes[n])]
           b == ByteSize
<1>1. b \in Nat /\ b > 1
  BY CodecAssumption
<1>2. Powers(b)[0] = 1
  BY <1>1, PowersAreNatural
<1>3. ASSUME NEW n \in Nat
      PROVE  /\ count[n] \in Nat
             /\ n < Powers(b)[0] => count[n] = 0
             /\ n >= Powers(b)[0] => count[n] = count[n \div b] + 1
  <2>1. Bytes[n] \in Seq(0 .. ByteSize - 1) /\ Bytes[0] = <<>>
    BY BytesStep
  <2>2. count[n] = Len(Bytes[n]) /\ Len(Bytes[n]) \in Nat
    BY <2>1
  <2>3. n < 1 => count[n] = 0
    <3>1. n < 1 => n = 0
      OBVIOUS
    <3> HIDE DEF count
    <3> QED
      BY <2>1, <2>2, <3>1
  <2>4. ASSUME n >= 1 PROVE count[n] = count[n \div b] + 1
    <3>1. n \in Nat \ {0} /\ n # 0
      BY <2>4
    <3>2. n \div b \in Nat
      BY <1>1, <3>1, QuotientIsSmaller
    <3> DEFINE q == n \div b
               r == n % b
    <3>3. Bytes[n] = Bytes[q] \o <<r>> /\ Bytes[q] \in Seq(0 .. ByteSize - 1)
      BY <3>1, <3>2, BytesStep
    <3>4. r \in 0 .. ByteSize - 1
      BY <1>1, FloorDivision
    <3>5. count[q] = Len(Bytes[q])
      BY <3>2
    <3> HIDE DEF q, r, count
    <3>6. Len(Bytes[q] \o <<r>>) = Len(Bytes[q]) + 1
      BY <3>3, <3>4, LongerByOne
    <3> QED
      BY <2>2, <3>3, <3>5, <3>6 DEF q
  <2> QED
    BY <1>2, <2>2, <2>3, <2>4
<1>4. \A n \in Nat : count[n] = Len(Bytes[n])
  OBVIOUS
<1>5. 0 \in {0, 1}
  OBVIOUS
<1> HIDE DEF count, b
<1>6. \A n, k \in Nat : count[n] > k <=> k < 0 \/ n >= Powers(b)[k]
  BY <1>1, <1>3, <1>5, DigitCount
<1> QED
  BY <1>4, <1>6 DEF b

\* The bytes of a magnitude are read back as it.
LEMMA BytesReadBack == \A n \in Nat : SetBytes(Bytes[n]) = n
<1> DEFINE Reads(n) == SetBytes(Bytes[n]) = n
           S == {n \in Nat : \A k \in Nat : k <= n => Reads(k)}
<1>1. ByteSize \in Nat /\ ByteSize > 1
  BY CodecAssumption
<1>2. \A n \in Nat : Bytes[n] \in Seq(Nat)
  <2> TAKE n \in Nat
  <2>1. Bytes[n] \in Seq(0 .. ByteSize - 1)
    BY BytesStep
  <2> QED
    BY <1>1, <2>1
<1>3. Reads(0)
  BY BytesStep, SetBytesEmpty
<1>4. 0 \in S
  <2>1. \A k \in Nat : k <= 0 => k = 0
    OBVIOUS
  <2> HIDE DEF Reads
  <2> QED
    BY <1>3, <2>1
<1>5. ASSUME NEW n \in S PROVE n + 1 \in S
  <2>1. n \in Nat /\ n + 1 \in Nat /\ \A k \in Nat : k <= n => Reads(k)
    OBVIOUS
  <2> DEFINE m == n + 1
             q == m \div ByteSize
             r == m % ByteSize
  <2>2. m \in Nat \ {0} /\ m # 0 /\ \A k \in Nat : k < m => k <= n
    BY <2>1
  <2>3. \A k \in Nat : k <= m => k <= n \/ k = m
    BY <2>1
  <2> HIDE DEF m, S, Reads
  <2>4. q \in Nat /\ q < m
    BY <1>1, <2>2, QuotientIsSmaller
  <2>5. r \in Nat /\ m = q * ByteSize + r
    BY <1>1, <2>2, FloorDivision
  <2>6. Bytes[m] = Bytes[q] \o <<r>>
    BY <2>2, BytesStep
  <2> HIDE DEF q, r
  <2>7. SetBytes(Bytes[q]) = q
    BY <2>1, <2>2, <2>4 DEF Reads
  <2>8. Bytes[q] \in Seq(Nat)
    BY <1>2, <2>4
  <2>9. SetBytes(Bytes[q] \o <<r>>) = SetBytes(Bytes[q]) * ByteSize + r
    BY <2>5, <2>8, SetBytesAppend
  <2>10. Reads(m)
    BY <2>5, <2>6, <2>7, <2>9 DEF Reads
  <2>11. \A k \in Nat : k <= m => Reads(k)
    BY <2>1, <2>3, <2>10
  <2> QED
    BY <2>1, <2>11 DEF S, m
<1>6. S = Nat
  <2> HIDE DEF S
  <2>1. S \in SUBSET Nat
    BY DEF S
  <2> QED
    BY <1>4, <1>5, <2>1, Induction
<1>7. ASSUME NEW n \in Nat PROVE Reads(n)
  <2>1. n \in S
    <3> HIDE DEF S
    <3> QED
      BY <1>6
  <2> HIDE DEF Reads
  <2> QED
    BY <2>1
<1> QED
  BY <1>7

-----------------------------------------------------------------------------
(* The limits of the decoders, as bounds on the value. *)

\* A text is refused for its size exactly when the value is beyond the limits.
TooLong(amount) ==
    Magnitude(amount.coef) >= Powers(10)[MaxDigits] \/ amount.scale >= MaxDigits \/ amount.scale > MaxParseScale

LEMMA ParseTextIs ==
    ASSUME NEW amount, amount.coef \in Int, amount.scale \in Nat
    PROVE  /\ TooLong(amount) => ParseText(amount) = Fail("ErrLimitExceeded")
           /\ ~TooLong(amount) => ParseText(amount) = Ok(amount)
           /\ Digits(amount) \in Nat
           /\ Digits(amount) > MaxDigits => TooLong(amount)
<1> DEFINE n == Magnitude(amount.coef)
           len == Len(DigitsOf[n])
           s == amount.scale
<1>1. n \in Nat /\ MaxDigits \in Nat /\ MaxDigits # 0
  BY CodecAssumption DEF Magnitude
<1>2. len \in Nat /\ (len > MaxDigits <=> n >= Powers(10)[MaxDigits])
  BY <1>1, DigitsStep, DigitsLength
<1>3. Digits(amount) = IF len > s THEN len ELSE s + 1
  BY DEF Digits
<1> DEFINE digits == Digits(amount)
<1> HIDE DEF n, len, digits
<1>4. digits \in Nat /\ (digits > MaxDigits <=> len > MaxDigits \/ s >= MaxDigits)
  BY <1>1, <1>2, <1>3 DEF digits
<1>5. (digits > MaxDigits \/ s > MaxParseScale) <=> TooLong(amount)
  BY <1>2, <1>4 DEF TooLong, n
<1> QED
  BY <1>4, <1>5 DEF ParseText, digits

\* A Fixed64 is within them.
LEMMA FixedIsShort ==
    ASSUME NEW amount, amount.coef \in F!Int64, amount.scale \in Nat, amount.scale <= MaxFixedScale
    PROVE  ~TooLong(amount)
<1>1. Magnitude(amount.coef) <= MaxInt64 + 1
  BY MoneyAssumption DEF Magnitude, F!Int64, F!MinInt64
<1>2. Magnitude(amount.coef) \in Int /\ Powers(10)[MaxDigits] \in Int
  BY CodecAssumption, PowersAreNatural, MoneyAssumption DEF Magnitude, F!Int64, F!MinInt64
<1> QED
  BY <1>1, <1>2, CodecAssumption, MoneyAssumption, MaxScaleAssumption DEF TooLong

-----------------------------------------------------------------------------
(* What the decoders return is a value of the type. *)

IsDecimal(v) == v = Dec(v.coef, v.scale) /\ v.coef \in Int /\ v.scale \in 0 .. MaxScale

\* An answer is an error or a Decimal.
Sound(answer) == answer.err = "nil" => IsDecimal(answer.val)

LEMMA FailIsSound == \A e : e # "nil" => Sound(Fail(e))
  BY DEF Sound, Fail

LEMMA ParsedIsSound ==
    ASSUME NEW amount, amount = Dec(amount.coef, amount.scale), amount.coef \in Int, amount.scale \in Nat
    PROVE  Sound(ParseText(amount))
<1>1. CASE TooLong(amount)
  BY <1>1, ParseTextIs, FailIsSound
<1>2. CASE ~TooLong(amount)
  <2>1. ParseText(amount) = Ok(amount)
    BY <1>2, ParseTextIs
  <2>2. amount.scale \in 0 .. MaxScale
    <3>1. ~(amount.scale > MaxParseScale)
      BY <1>2 DEF TooLong
    <3> QED
      BY <3>1, CodecAssumption, MaxScaleAssumption
  <2> QED
    BY <2>1, <2>2 DEF Sound, Ok, IsDecimal
<1> QED
  BY <1>1, <1>2

\* The fields of data that are not binary, and of those that are.
LEMMA AmountOf ==
    ASSUME NEW x, IsData(x), x.form # "binary"
    PROVE  x.amount = Dec(x.amount.coef, x.amount.scale) /\ x.amount.coef \in Int /\ x.amount.scale \in Nat
  BY DEF IsData

LEMMA BinaryIsSound ==
    ASSUME NEW x, IsData(x), x.form = "binary", x.kind # "Fixed64", NEW limits
    PROVE  Sound(DecimalFromBinary(x.amount, limits))
<1> DEFINE b == x.amount
           out == DecimalFromBinary(b, limits)
           n == IF b.sign = 1 THEN -SetBytes(b.bytes) ELSE SetBytes(b.bytes)
<1>1. b.scale \in Nat /\ b.bytes \in Seq(0 .. ByteSize - 1)
  BY DEF IsData
<1>2. b.bytes \in Seq(Nat)
  BY <1>1, CodecAssumption
<1>3. n \in Int
  BY <1>2, SetBytesIsNatural
<1>4. \/ \E e : e # "nil" /\ out = Fail(e)
      \/ out = Ok(Dec(n, b.scale)) /\ ~(b.scale > MaxScale)
  BY Zenon DEF DecimalFromBinary
<1>5. b.scale \in Nat /\ ~(b.scale > MaxScale) => b.scale \in 0 .. MaxScale
  BY MaxScaleAssumption
<1> HIDE DEF b, n, out
<1>6. ASSUME out = Ok(Dec(n, b.scale)) /\ ~(b.scale > MaxScale) PROVE Sound(out)
  BY <1>1, <1>3, <1>5, <1>6 DEF Sound, Ok, IsDecimal, Dec
<1>7. Sound(out)
  BY <1>4, <1>6, FailIsSound
<1> QED
  BY <1>7 DEF b, out

\* A Decimal becomes a Fixed64 at its own scale, with the number it is, or not at all.
LEMMA ToFixedIs ==
    ASSUME NEW answer, Sound(answer)
    PROVE  /\ ToFixed(answer).err = "nil" =>
                /\ answer.err = "nil" /\ ToFixed(answer).val = answer.val
                /\ answer.val.coef \in F!Int64 /\ answer.val.scale <= MaxFixedScale
           /\ answer.err = "nil" /\ answer.val.coef \in F!Int64 /\ answer.val.scale <= MaxFixedScale =>
                ToFixed(answer).err = "nil"
<1> DEFINE d0 == answer.val
           f0 == F!Fixed64FromDecimal(d0, d0.scale, "TowardZero")
           out == ToFixed(answer)
<1>1. CASE answer.err # "nil"
  BY <1>1 DEF ToFixed, Then
<1>2. CASE answer.err = "nil"
  <2>1. IsDecimal(d0)
    BY <1>2 DEF Sound
  <2>2. out = [val |-> F!Decimal(f0.val), err |-> f0.err]
    BY <1>2 DEF ToFixed, Then
  <2>3. d0.coef \in Int /\ d0.scale \in Nat /\ d0 = Dec(d0.coef, d0.scale)
    BY <2>1, MaxScaleAssumption DEF IsDecimal
  <2>4. F!D!Rescale(d0, d0.scale, "TowardZero") = F!D!Ok(F!D!Dec(d0.coef, d0.scale))
    <3>1. Pow10[0] = 1
      BY Pow10Assumption DEF PowersOfTen
    <3>2. d0.scale - d0.scale = 0 /\ d0.coef * 1 = d0.coef /\ d0.scale >= d0.scale /\ ~(d0.scale < 0)
      BY <2>3
    <3>3. "TowardZero" \in F!D!RoundingModes
      BY DEF F!D!RoundingModes, F!D!DirectedModes
    <3> HIDE DEF d0
    <3> QED
      BY <3>1, <3>2, <3>3 DEF F!D!Rescale
  <2> HIDE DEF d0
  <2>5. ~F!ValidFixed64Scale(d0.scale) => f0 = F!Fail("ErrInvalidScale")
    BY DEF F!Fixed64FromDecimal
  <2>6. F!ValidFixed64Scale(d0.scale) => f0 = F!OrOverflow({d0.coef} \cap F!Int64, d0.scale)
    BY <2>4 DEF F!Fixed64FromDecimal, F!D!Ok, F!D!Dec
  <2>7. F!ValidFixed64Scale(d0.scale) <=> d0.scale <= MaxFixedScale
    BY <2>3 DEF F!ValidFixed64Scale
  <2> HIDE DEF f0
  <2>8. CASE ~F!ValidFixed64Scale(d0.scale)
    BY <2>2, <2>5, <2>7, <2>8 DEF F!Fail, d0
  <2>9. CASE F!ValidFixed64Scale(d0.scale) /\ d0.coef \notin F!Int64
    <3>1. {d0.coef} \cap F!Int64 = {}
      BY <2>9
    <3>2. f0.err = "ErrOverflow"
      BY <2>6, <2>9, <3>1 DEF F!OrOverflow, F!Fail
    <3> QED
      BY <2>2, <2>9, <3>2 DEF d0
  <2>10. CASE F!ValidFixed64Scale(d0.scale) /\ d0.coef \in F!Int64
    <3>1. {d0.coef} \cap F!Int64 = {d0.coef}
      BY <2>10
    <3>2. f0 = F!Ok(F!Fixed(d0.coef, d0.scale))
      <4>1. (CHOOSE u \in {d0.coef} : TRUE) = d0.coef
        OBVIOUS
      <4> QED
        BY <2>6, <2>10, <3>1, <4>1 DEF F!OrOverflow
    <3>3. F!Decimal(f0.val) = d0 /\ f0.err = "nil"
      BY <2>3, <3>2 DEF F!Ok, F!Fixed, F!Decimal, F!D!New, F!D!Ok, F!D!Dec, Dec
    <3> QED
      BY <1>2, <2>2, <2>7, <2>10, <3>3 DEF d0
  <2> QED
    BY <2>8, <2>9, <2>10
<1> QED
  BY <1>1, <1>2

\* What each source of Decimals returns.
LEMMA TextIsSound ==
    ASSUME NEW x, IsData(x)
    PROVE  Sound(DecimalUnmarshalText(x))
<1>1. CASE IsText(x, "number")
  <2>1. x.form # "binary"
    BY <1>1 DEF IsText
  <2> QED
    BY <1>1, <2>1, AmountOf, ParsedIsSound DEF DecimalUnmarshalText
<1>2. CASE ~IsText(x, "number")
  BY <1>2, FailIsSound DEF DecimalUnmarshalText
<1> QED
  BY <1>1, <1>2

LEMMA JSONIsSound ==
    ASSUME NEW x, IsData(x)
    PROVE  Sound(DecimalUnmarshalJSON(x))
<1>1. x.form = "json" => Sound(ParseText(x.amount))
  BY AmountOf, ParsedIsSound
<1>2. Sound(Fail("ErrNilValue"))
  BY FailIsSound
<1> QED
  BY <1>1, <1>2, TextIsSound DEF DecimalUnmarshalJSON

LEMMA ScanIsSound ==
    ASSUME NEW x, IsData(x)
    PROVE  Sound(ScanSource(x))
<1>1. CASE x.form \in {"native", "int"}
  <2>1. IsDecimal(x.amount)
    BY <1>1, MaxScaleAssumption DEF IsData, IsDecimal
  <2>2. Sound(Ok(x.amount)) /\ Sound(Fail("ErrInvalidSource"))
    BY <2>1, FailIsSound DEF Sound, Ok
  <2> QED
    BY <1>1, <2>2 DEF ScanSource
<1>2. CASE x.form \notin {"native", "int"}
  <2>1. Sound(Fail("ErrNilValue")) /\ Sound(Fail("ErrInvalidSource"))
    BY FailIsSound
  <2>2. \/ ScanSource(x) = Fail("ErrNilValue")
        \/ ScanSource(x) = Fail("ErrInvalidSource")
        \/ ScanSource(x) = DecimalUnmarshalText(x)
    BY <1>2 DEF ScanSource
  <2> QED
    BY <2>1, <2>2, TextIsSound
<1> QED
  BY <1>1, <1>2

LEMMA DecodedDecimal ==
    ASSUME NEW x, IsData(x), NEW m \in Methods["Decimal"]
    PROVE  Sound(DecodeDecimal(m, x))
<1>1. \A e : e # "nil" => Sound(Fail(e))
  BY FailIsSound
<1>2. CASE m = "UnmarshalText"
  BY <1>2, TextIsSound DEF DecodeDecimal
<1>3. CASE m = "UnmarshalJSON"
  BY <1>3, JSONIsSound DEF DecodeDecimal
<1>4. CASE m = "Scan"
  BY <1>4, ScanIsSound DEF DecodeDecimal
<1>5. \A limits : Sound(DecimalBinary(x, limits))
  BY <1>1, BinaryIsSound DEF DecimalBinary
<1>6. CASE m \in {"UnmarshalBinary", "UnmarshalBinaryWithOptions"}
  BY <1>5, <1>6 DEF DecodeDecimal
<1>7. x.form # "binary" => Sound(ParseText(x.amount))
  BY AmountOf, ParsedIsSound
<1>8. CASE m = "BSONStringValue"
  BY <1>1, <1>7, <1>8 DEF DecodeDecimal, UnmarshalBSONStringValue
<1>9. CASE m = "BSONDocument"
  <2> DEFINE y == [x EXCEPT !.form = "bson"]
  <2>1. y.form = "bson" /\ y.amount = x.amount
    <3>1. x = Datum(x.form, x.kind, x)
      BY DEF IsData
    <3>2. DOMAIN x = {"form", "kind", "amount", "currency"}
      BY <3>1 DEF Datum
    <3> QED
      BY <3>2
  <2> HIDE DEF y
  <2>2. x.form # "binary" => Sound(UnmarshalBSONStringValue(y))
    BY <1>1, <1>7, <2>1 DEF UnmarshalBSONStringValue
  <2>3. Sound(UnmarshalBSONDocument(x))
    BY <1>1, <2>2 DEF UnmarshalBSONDocument, y
  <2> QED
    BY <1>9, <2>3 DEF DecodeDecimal
<1>10. CASE m = "ExtendedJSON"
  BY <1>1, <1>7, <1>10 DEF DecodeDecimal, UnmarshalExtendedJSON
<1>11. m \in {"UnmarshalText", "UnmarshalJSON", "Scan", "UnmarshalBinary", "UnmarshalBinaryWithOptions",
              "BSONStringValue", "BSONDocument", "ExtendedJSON"}
  BY DEF Methods, NullableMethods, Types
<1> QED
  BY <1>2, <1>3, <1>4, <1>6, <1>8, <1>9, <1>10, <1>11

\* A word is read as the int64 of its bits.
LEMMA WordIsInt64 ==
    ASSUME NEW word \in Nat
    PROVE  F!Wrap64(word) \in F!Int64
<1> DEFINE size == 2 * (MaxInt64 + 1)
           at == word - F!MinInt64
<1>1. size \in Int /\ size > 0 /\ at \in Int /\ MaxInt64 \in Nat
  BY MoneyAssumption DEF F!MinInt64
<1> HIDE DEF at
<1>2. at % size \in Int /\ 0 <= at % size /\ at % size < size
  <2> HIDE DEF size
  <2> QED
    BY <1>1, FloorDivision
<1>3. F!Wrap64(word) = (at % size) + F!MinInt64
  BY DEF F!Wrap64, at
<1> QED
  BY <1>1, <1>2, <1>3 DEF F!Int64, F!MinInt64

LEMMA DecodedFixed64 ==
    ASSUME NEW x, IsData(x), NEW m \in Methods["Fixed64"], DecodeFixed64(m, x).err = "nil"
    PROVE  /\ IsDecimal(DecodeFixed64(m, x).val)
           /\ DecodeFixed64(m, x).val.coef \in F!Int64 /\ F!ValidFixed64Scale(DecodeFixed64(m, x).val.scale)
<1> DEFINE out == DecodeFixed64(m, x)
<1>1. ASSUME NEW answer, Sound(answer), out = ToFixed(answer)
      PROVE  IsDecimal(out.val) /\ out.val.coef \in F!Int64 /\ F!ValidFixed64Scale(out.val.scale)
  <2>1. /\ answer.err = "nil" /\ out.val = answer.val
        /\ answer.val.coef \in F!Int64 /\ answer.val.scale <= MaxFixedScale
    BY <1>1, ToFixedIs
  <2>2. IsDecimal(answer.val)
    BY <1>1, <2>1 DEF Sound
  <2>3. answer.val.scale >= 0
    BY <2>2, MaxScaleAssumption DEF IsDecimal
  <2> QED
    BY <2>1, <2>2, <2>3, CodecAssumption DEF F!ValidFixed64Scale
<1>2. CASE m = "UnmarshalText"
  BY <1>1, <1>2, TextIsSound DEF DecodeFixed64, FixedUnmarshalText
<1>3. CASE m = "UnmarshalJSON"
  BY <1>1, <1>3, JSONIsSound DEF DecodeFixed64, FixedUnmarshalJSON
<1>4. CASE m = "Scan"
  BY <1>1, <1>4, ScanIsSound DEF DecodeFixed64, FixedScan
<1>5. CASE m = "UnmarshalBinary"
  <2>1. out = FixedBinary(x)
    BY <1>5 DEF DecodeFixed64
  <2>2. /\ x.form = "binary" /\ x.kind = "Fixed64" /\ F!ValidFixed64Scale(x.amount.scale)
        /\ out.val = Dec(F!Wrap64(x.amount.word), x.amount.scale)
    BY <2>1 DEF FixedBinary, Fail, Ok
  <2>3. x.amount.scale \in Nat /\ x.amount.word \in Nat
    BY <2>2, MoneyAssumption DEF IsData
  <2>4. F!Wrap64(x.amount.word) \in F!Int64 /\ F!Int64 \subseteq Int
    BY <2>3, WordIsInt64, MoneyAssumption DEF F!Int64, F!MinInt64
  <2>5. x.amount.scale <= MaxScale
    BY <2>2, <2>3, CodecAssumption, MaxScaleAssumption DEF F!ValidFixed64Scale
  <2>6. x.amount.scale \in 0 .. MaxScale
    BY <2>3, <2>5, MaxScaleAssumption
  <2> HIDE DEF out
  <2>7. out.val.coef = F!Wrap64(x.amount.word) /\ out.val.scale = x.amount.scale
    BY <2>2 DEF Dec
  <2>8. IsDecimal(out.val)
    BY <2>2, <2>4, <2>6, <2>7 DEF IsDecimal
  <2>9. out.val.coef \in F!Int64 /\ F!ValidFixed64Scale(out.val.scale)
    BY <2>2, <2>4, <2>7
  <2> QED
    BY <2>8, <2>9 DEF out
<1>6. m \in {"UnmarshalText", "UnmarshalJSON", "Scan", "UnmarshalBinary"}
  BY DEF Methods, NullableMethods, Types
<1> QED
  BY <1>2, <1>3, <1>4, <1>5, <1>6

\* A price is a Decimal in a currency, whose code is normalized.
Priceable(answer) ==
    answer.err = "nil" => \E amount, code : /\ answer.val = Money(amount, code)
                                            /\ IsDecimal(amount) /\ code \in Currencies

LEMMA RefusedIsPriceable == \A e : e # "nil" => Priceable(Refused(e))
  BY DEF Priceable, Refused, Fail, Attach

LEMMA PricedIsPriceable ==
    ASSUME NEW answer, Sound(answer), NEW input \in DOMAIN NormalCode
    PROVE  Priceable(Priced(answer, input))
<1>1. NormalCode[input] \in Currencies \cup {NoCurrency}
  BY MoneyAssumption
<1>2. CASE answer.err # "nil"
  BY <1>2 DEF Priced, Attach, Priceable
<1>3. CASE answer.err = "nil" /\ NormalCode[input] = NoCurrency
  BY <1>3 DEF Priced, NewMoney, Guarded, Check, Fail, Attach, Priceable
<1>4. CASE answer.err = "nil" /\ NormalCode[input] # NoCurrency
  <2>1. Priced(answer, input) = Attach(Ok(answer.val), NormalCode[input])
    BY <1>4 DEF Priced, NewMoney, Guarded, Check
  <2> QED
    BY <1>1, <1>4, <2>1 DEF Attach, Ok, Money, Priceable, Sound
<1> QED
  BY <1>2, <1>3, <1>4

LEMMA DecodedMoney ==
    ASSUME NEW x, IsData(x), NEW m \in Methods["Money"]
    PROVE  Priceable(DecodeMoney(m, x))
<1>1. \A e : e # "nil" => Priceable(Refused(e))
  BY RefusedIsPriceable
<1>2. IsText(x, "money") => Priceable(Priced(ParseText(x.amount), x.currency))
  <2> SUFFICES ASSUME IsText(x, "money") PROVE Priceable(Priced(ParseText(x.amount), x.currency))
    OBVIOUS
  <2>1. x.form # "binary" /\ x.currency \in DOMAIN NormalCode
    BY DEF IsText, IsData
  <2>2. Sound(ParseText(x.amount))
    BY <2>1, AmountOf, ParsedIsSound
  <2> QED
    BY <2>1, <2>2, PricedIsPriceable
<1>3. Priceable(ParseMoneyText(x))
  BY <1>1, <1>2 DEF ParseMoneyText
<1>4. CASE m = "UnmarshalText"
  BY <1>3, <1>4 DEF DecodeMoney
<1>5. CASE m = "UnmarshalJSON"
  <2>1. ASSUME x.form \in {"json", "partial"}, ~(x.kind = "number" /\ x.form # "extended")
        PROVE  Priceable(Priced(ParseText(x.amount), x.currency)) /\ Priceable(Priced(Ok(ZeroValue), x.currency))
    <3>1. x.currency \in DOMAIN NormalCode /\ x.form # "binary"
      BY <2>1 DEF IsData
    <3>2. Sound(ParseText(x.amount))
      BY <3>1, AmountOf, ParsedIsSound
    <3>3. Sound(Ok(ZeroValue))
      BY MaxScaleAssumption DEF Sound, Ok, ZeroValue, Dec, IsDecimal
    <3> QED
      BY <3>1, <3>2, <3>3, PricedIsPriceable
  <2>2. Priceable(MoneyUnmarshalJSON(x))
    BY <1>1, <2>1 DEF MoneyUnmarshalJSON
  <2> QED
    BY <1>5, <2>2 DEF DecodeMoney
<1>6. CASE m = "Scan"
  <2>1. x.form = "native" => Priceable(Unary(Money(x.amount, x.currency), Ok(x.amount)))
    <3> SUFFICES ASSUME x.form = "native" PROVE Priceable(Unary(Money(x.amount, x.currency), Ok(x.amount)))
      OBVIOUS
    <3>1. IsDecimal(x.amount)
      BY MaxScaleAssumption DEF IsData, IsDecimal
    <3>2. CASE x.currency \in Currencies
      <4>1. Unary(Money(x.amount, x.currency), Ok(x.amount)) = Attach(Ok(x.amount), x.currency)
        BY <3>2 DEF Unary, ValidCurrency, Check, Guarded, Money
      <4> QED
        BY <3>1, <3>2, <4>1 DEF Attach, Ok, Money, Priceable
    <3>3. CASE x.currency \notin Currencies
      BY <3>3 DEF Unary, ValidCurrency, Check, Guarded, Money, Fail, Attach, Priceable
    <3> QED
      BY <3>2, <3>3
  <2>2. Priceable(ScanMoneySource(x))
    BY <1>1, <1>3, <2>1 DEF ScanMoneySource
  <2> QED
    BY <1>6, <2>2 DEF DecodeMoney
<1>7. ASSUME NEW limits PROVE Priceable(MoneyBinary(x, limits))
  <2>1. CASE x.form = "binary" /\ x.kind = "Money" /\ x.currency \in Currencies
    <3>1. Sound(DecimalFromBinary(x.amount, limits))
      BY <2>1, BinaryIsSound
    <3>2. MoneyBinary(x, limits) = Attach(DecimalFromBinary(x.amount, limits), x.currency)
      BY <2>1 DEF MoneyBinary
    <3> QED
      BY <2>1, <3>1, <3>2 DEF Attach, Money, Priceable, Sound
  <2>2. CASE ~(x.form = "binary" /\ x.kind = "Money" /\ x.currency \in Currencies)
    <3>1. MoneyBinary(x, limits).err # "nil"
      BY <2>2 DEF MoneyBinary, Attach, Fail
    <3> QED
      BY <3>1 DEF Priceable
  <2> QED
    BY <2>1, <2>2
<1>8. CASE m \in {"UnmarshalBinary", "UnmarshalBinaryWithOptions"}
  BY <1>7, <1>8 DEF DecodeMoney
<1>9. m \in {"UnmarshalText", "UnmarshalJSON", "Scan", "UnmarshalBinary", "UnmarshalBinaryWithOptions"}
  BY DEF Methods, NullableMethods, Types
<1> QED
  BY <1>4, <1>5, <1>6, <1>8, <1>9

\* Of each type: what is decoded is a value of it, and never the zero Money.
LEMMA DecodedIsValue ==
    ASSUME type \in Types, NEW x, IsData(x), NEW m \in Methods[type], Decode(m, x).err = "nil"
    PROVE  IsValue(type, Decode(m, x).val) /\ EncodeError(Decode(m, x).val) = "nil"
<1> DEFINE v == Decode(m, x).val
<1>1. \A a, c : IsDecimal(a) => Money(a, c) = Money(Dec(a.coef, a.scale), c)
  BY DEF IsDecimal
<1>2. CASE type = "Decimal"
  <2>1. Decode(m, x) = Attach(DecodeDecimal(m, x), NoCurrency)
    BY <1>2 DEF Decode
  <2>2. v = Money(DecodeDecimal(m, x).val, NoCurrency) /\ DecodeDecimal(m, x).err = "nil"
    BY <2>1 DEF Attach
  <2>3. IsDecimal(DecodeDecimal(m, x).val)
    BY <1>2, <2>2, DecodedDecimal DEF Sound
  <2> HIDE DEF v
  <2> QED
    BY <1>1, <1>2, <2>2, <2>3 DEF IsDecimal, IsValue, EncodeError, Money, v
<1>3. CASE type = "Fixed64"
  <2>1. Decode(m, x) = Attach(DecodeFixed64(m, x), NoCurrency)
    BY <1>3 DEF Decode
  <2>2. v = Money(DecodeFixed64(m, x).val, NoCurrency) /\ DecodeFixed64(m, x).err = "nil"
    BY <2>1 DEF Attach
  <2>3. /\ IsDecimal(DecodeFixed64(m, x).val)
        /\ DecodeFixed64(m, x).val.coef \in F!Int64 /\ F!ValidFixed64Scale(DecodeFixed64(m, x).val.scale)
    BY <1>3, <2>2, DecodedFixed64
  <2> HIDE DEF v
  <2> QED
    BY <1>1, <1>3, <2>2, <2>3 DEF IsDecimal, IsValue, EncodeError, Money, v
<1>4. CASE type = "Money"
  <2>1. Decode(m, x) = DecodeMoney(m, x) /\ Priceable(DecodeMoney(m, x))
    BY <1>4, DecodedMoney DEF Decode
  <2>2. PICK amount, code : v = Money(amount, code) /\ IsDecimal(amount) /\ code \in Currencies
    BY <2>1 DEF Priceable
  <2> HIDE DEF v
  <2> QED
    BY <1>1, <1>4, <2>2 DEF IsDecimal, IsValue, EncodeError, Money, ValidCurrency, Check, v
<1> QED
  BY <1>2, <1>3, <1>4 DEF Types

-----------------------------------------------------------------------------
(* The two values, and the data, always have their types. *)

\* What is written has the types of encoded data.
LEMMA EncodedIsData ==
    ASSUME type \in Types, NEW v, IsValue(type, v), EncodeError(v) = "nil",
           NEW form \in {"text", "json", "binary", "extended", "bson", "document"}
    PROVE  IsData(Encode(form, v))
<1> DEFINE a == v.amount
<1>1. /\ v = [amount |-> v.amount, currency |-> v.currency]
      /\ a = Dec(a.coef, a.scale) /\ a.coef \in Int /\ a.scale \in 0 .. MaxScale
  BY DEF IsValue, Money, Dec
<1>2. type = "Money" => v.currency \in DOMAIN NormalCode
  BY MoneyAssumption DEF EncodeError, ValidCurrency, Check
<1>3. a.scale \in Nat /\ a.scale <= MaxScale
  BY <1>1, MaxScaleAssumption
<1>4. CASE form # "binary"
  <2>1. Encode(form, v) = Datum(form, Kind(type), v)
    BY <1>4 DEF Encode
  <2>2. Kind(type) \in {"number", "money"} /\ (Kind(type) = "money" => type = "Money")
    BY DEF Kind
  <2> HIDE DEF a
  <2> QED
    BY <1>1, <1>2, <1>3, <1>4, <2>1, <2>2 DEF Datum, IsData, a
<1>5. CASE form = "binary"
  <2> DEFINE b == IF type = "Fixed64" THEN AppendFixedBinary(a) ELSE AppendBinary(a)
             e == Encode(form, v)
  <2>1. e = [form |-> "binary", kind |-> type, amount |-> b, currency |-> v.currency]
    <3>1. [v EXCEPT !.amount = b].amount = b /\ [v EXCEPT !.amount = b].currency = v.currency
      <4> HIDE DEF b
      <4> QED
        BY <1>1
    <3>2. Encode(form, v) = Datum("binary", type, [v EXCEPT !.amount = b])
      BY <1>5 DEF Encode, BinaryOf
    <3> HIDE DEF b
    <3> QED
      BY <3>1, <3>2 DEF Datum
  <2>2. b.scale \in Nat
    BY <1>3 DEF AppendFixedBinary, AppendBinary
  <2>3. ASSUME type = "Fixed64" PROVE b.word \in 0 .. 2 * MaxInt64 + 1
    <3> DEFINE size == 2 * (MaxInt64 + 1)
    <3>1. size \in Int /\ size > 0 /\ size = (2 * MaxInt64 + 1) + 1
      BY MoneyAssumption
    <3>2. b.word = a.coef % size
      BY <2>3 DEF AppendFixedBinary
    <3>3. a.coef \in Int
      BY <1>1
    <3> HIDE DEF size, a, b
    <3>4. a.coef % size \in Int /\ 0 <= a.coef % size /\ a.coef % size < size
      BY <3>1, <3>3, FloorDivision
    <3> QED
      BY <3>1, <3>2, <3>4, MoneyAssumption
  <2>4. ASSUME type # "Fixed64" PROVE b.bytes \in Seq(0 .. ByteSize - 1)
    <3>1. b.bytes = Bytes[Magnitude(a.coef)] /\ Magnitude(a.coef) \in Nat
      BY <1>1, <2>4 DEF AppendBinary, Magnitude
    <3> QED
      BY <3>1, BytesStep
  <2> HIDE DEF b, e
  <2>5. e = Datum(e.form, e.kind, e) /\ e.form = "binary" /\ e.kind = type /\ e.amount = b
    BY <2>1 DEF Datum
  <2>6. IsData(e)
    BY <2>2, <2>3, <2>4, <2>5 DEF IsData, Types
  <2> QED
    BY <2>6 DEF e
<1> QED
  BY <1>4, <1>5

LEMMA ZeroIsValue == \A t \in Types : IsValue(t, NoMoney)
  BY MaxScaleAssumption, MoneyAssumption, CodecAssumption
     DEF IsValue, NoMoney, Money, ZeroValue, Dec, F!Int64, F!MinInt64, F!ValidFixed64Scale, Types

LEMMA NothingIsData == \A form \in {"nil", "null"} : IsData(Datum(form, "none", NoMoney))
  BY MaxScaleAssumption DEF IsData, Datum, NoMoney, Money, ZeroValue, Dec

\* A nullable value is null, or of a value that can be written.
Sensible(box) ==
    /\ IsValue(type, box.value)
    /\ IF box.valid THEN EncodeError(box.value) = "nil" ELSE box.value = NoMoney

LEMMA StoredIsSensible ==
    ASSUME type \in Types, IsData(data), NEW m \in NullableMethods
    PROVE  Sensible(IsNull) /\ Sensible(Store(NullableAnswer(m)))
<1>1. Sensible(IsNull)
  BY ZeroIsValue DEF Sensible, IsNull
<1>2. m \in Methods[type]
  BY DEF Methods
<1>3. CASE NullableAnswer(m).err = "nil"
  <2>1. NullableAnswer(m) = Decode(m, data) /\ Decode(m, data).err = "nil"
    BY <1>3 DEF NullableAnswer, Refused, Fail, Attach
  <2>2. IsValue(type, Decode(m, data).val) /\ EncodeError(Decode(m, data).val) = "nil"
    BY <1>2, <2>1, DecodedIsValue
  <2> QED
    BY <1>1, <1>3, <2>1, <2>2 DEF Sensible, Store
<1>4. CASE NullableAnswer(m).err # "nil"
  BY <1>1, <1>4 DEF Store
<1> QED
  BY <1>1, <1>3, <1>4

LEMMA ReceiverStep ==
    ASSUME ReceiverTypeOK, [ReceiverNext]_receiverVars
    PROVE  ReceiverTypeOK'
<1>1. type \in Types /\ IsValue(type, plain) /\ Sensible(nullable) /\ IsData(data)
  BY DEF ReceiverTypeOK, Sensible
<1> SUFFICES /\ type' = type /\ IsValue(type, plain')
             /\ Sensible(nullable') /\ IsData(data')
  BY <1>1 DEF ReceiverTypeOK, Sensible, EncodeError
<1>2. ASSUME NEW v, IsValue(type, v), NEW form \in {"text", "json", "binary", "extended", "bson", "document"},
             Write(form, v)
      PROVE  type' = type /\ plain' = plain /\ nullable' = nullable /\ IsData(data')
  <2>1. /\ type' = type /\ plain' = plain /\ nullable' = nullable
        /\ data' = IF EncodeError(v) = "nil" THEN Encode(form, v) ELSE data
    BY <1>2 DEF Write
  <2> QED
    BY <1>1, <1>2, <2>1, EncodedIsData
<1>3. CASE Assign
  <2>1. type' = type /\ data' = data /\ plain' \in Values[type]
        /\ nullable' \in {nullable, [value |-> plain', valid |-> TRUE]}
    BY <1>3 DEF Assign
  <2>2. IsValue(type, plain') /\ (type = "Money" => plain'.currency \in Currencies)
    BY <1>1, <2>1, ReceiversAssumption
  <2>3. Sensible([value |-> plain', valid |-> TRUE])
    BY <2>2 DEF Sensible, EncodeError, ValidCurrency, Check
  <2> QED
    BY <1>1, <2>1, <2>2, <2>3
<1>4. CASE Receive
  BY <1>1, <1>4, ReceiversAssumption DEF Receive
<1>5. ASSUME NEW form \in {"text", "json", "binary", "extended", "bson", "document"}, WritePlain(form)
      PROVE  type' = type /\ IsValue(type, plain') /\ Sensible(nullable') /\ IsData(data')
  BY <1>1, <1>2, <1>5 DEF WritePlain
<1>6. ASSUME NEW form \in {"nil", "null"}, WriteNull(form)
      PROVE  type' = type /\ IsValue(type, plain') /\ Sensible(nullable') /\ IsData(data')
  BY <1>1, <1>6, NothingIsData DEF WriteNull
<1>7. ASSUME NEW form \in {"text", "json"}, WriteNullable(form)
      PROVE  type' = type /\ IsValue(type, plain') /\ Sensible(nullable') /\ IsData(data')
  <2>1. Write(form, nullable.value) /\ IsValue(type, nullable.value)
    BY <1>1, <1>7 DEF WriteNullable, Sensible
  <2> QED
    BY <1>1, <1>2, <2>1
<1>8. ASSUME NEW m, ReadPlain(m)
      PROVE  type' = type /\ IsValue(type, plain') /\ Sensible(nullable') /\ IsData(data')
  <2>1. /\ type' = type /\ nullable' = nullable /\ data' = data /\ m \in Methods[type]
        /\ plain' = IF Decode(m, data).err = "nil" THEN Decode(m, data).val ELSE plain
    BY <1>8 DEF ReadPlain
  <2> QED
    BY <1>1, <2>1, DecodedIsValue
<1>9. ASSUME NEW m \in NullableMethods, ReadNullable(m)
      PROVE  type' = type /\ IsValue(type, plain') /\ Sensible(nullable') /\ IsData(data')
  <2>1. /\ type' = type /\ plain' = plain /\ data' = data
        /\ nullable' \in {IsNull, Store(NullableAnswer(m))}
    BY <1>9 DEF ReadNullable
  <2> QED
    BY <1>1, <2>1, StoredIsSensible
<1>10. CASE UNCHANGED receiverVars
  BY <1>1, <1>10 DEF receiverVars
<1> QED
  BY <1>3, <1>4, <1>5, <1>6, <1>7, <1>8, <1>9, <1>10
     DEF ReceiverNext, ReadNullDecimal, ReadNullFixed64, ReadNullMoney

\* Whatever is decoded into it, a value is one the operations of its type could have
\* made: Fixed64 in its range, the currency of Money normalized, a null value zero.
\* (Unmarshal and Scan of all types)
THEOREM ReceiverTypeCorrect == ReceiverSpec => []ReceiverTypeOK
<1>1. ReceiverInit => ReceiverTypeOK
  BY ZeroIsValue, NothingIsData DEF ReceiverInit, ReceiverTypeOK, IsNull, None
<1> QED
  BY <1>1, ReceiverStep, PTL DEF ReceiverSpec

-----------------------------------------------------------------------------
(* What is written reads back. *)

\* Only one remainder is smaller than the divisor.
LEMMA RemainderIs ==
    ASSUME NEW m \in Int, NEW w \in Int, w > 0, NEW k \in Int, NEW r \in Int,
           m = k * w + r, 0 <= r, r < w
    PROVE  m % w = r
<1> DEFINE q == m \div w
           s == m % w
<1>1. q \in Int /\ s \in Int /\ m = q * w + s /\ 0 <= s /\ s < w
  BY FloorDivision
<1> HIDE DEF q, s
<1>2. (k - q) * w = s - r
  BY <1>1
<1>3. ~(k - q >= 1)
  <2> SUFFICES ASSUME k - q >= 1 PROVE FALSE
    OBVIOUS
  <2>1. (k - q) * w = w + (k - q - 1) * w
    BY <1>1
  <2>2. \A a, b \in Nat : a * b \in Nat
    OBVIOUS
  <2>3. (k - q - 1) * w \in Nat
    BY <1>1, <2>2
  <2> QED
    BY <1>1, <1>2, <2>1, <2>3
<1>4. ~(k - q <= -1)
  <2> SUFFICES ASSUME k - q <= -1 PROVE FALSE
    OBVIOUS
  <2>1. (k - q) * w = - w - (q - k - 1) * w
    BY <1>1
  <2>2. \A a, b \in Nat : a * b \in Nat
    OBVIOUS
  <2>3. (q - k - 1) * w \in Nat
    BY <1>1, <2>2
  <2> QED
    BY <1>1, <1>2, <2>1, <2>3
<1>5. (k - q) * w = 0
  <2>1. k - q = 0
    BY <1>1, <1>3, <1>4
  <2> QED
    BY <2>1
<1>6. s = r
  BY <1>1, <1>2, <1>5
<1> QED
  BY <1>6 DEF s

\* An int64 is the one its bits stand for.
LEMMA WordReadsBack ==
    ASSUME NEW n \in F!Int64
    PROVE  F!Wrap64(n % (2 * (MaxInt64 + 1))) = n
<1> DEFINE size == 2 * (MaxInt64 + 1)
           word == n % size
<1>1. MaxInt64 \in Int /\ MaxInt64 >= 0 /\ n \in Int /\ - MaxInt64 - 1 <= n /\ n <= MaxInt64
  BY MoneyAssumption DEF F!Int64, F!MinInt64
<1>2. size \in Int /\ size = MaxInt64 + MaxInt64 + 2
  BY <1>1
<1> HIDE DEF size
<1>3. \E k \in {0, 1} : word = n + k * size
  <2>1. CASE n >= 0
    <3>1. n = 0 * size + n /\ n < size
      BY <1>1, <1>2, <2>1
    <3>2. word = n
      BY <1>1, <1>2, <2>1, <3>1, RemainderIs
    <3> QED
      BY <1>1, <1>2, <3>2
  <2>2. CASE n < 0
    <3>1. n = (-1) * size + (n + size) /\ 0 <= n + size /\ n + size < size /\ n + size \in Int
      BY <1>1, <1>2, <2>2
    <3>2. word = n + size
      BY <1>1, <1>2, <3>1, RemainderIs
    <3> QED
      BY <1>1, <1>2, <3>2
  <2> QED
    BY <1>1, <2>1, <2>2
<1> DEFINE at == word - F!MinInt64
<1>4. PICK k \in {0, 1} : word = n + k * size
  BY <1>3
<1> HIDE DEF word
<1>5. at = k * size + (n + MaxInt64 + 1) /\ k \in Int /\ word \in Int
  BY <1>1, <1>2, <1>4 DEF F!MinInt64
<1> HIDE DEF at
<1>6. at % size = n + MaxInt64 + 1
  <2>1. n + MaxInt64 + 1 \in Int /\ 0 <= n + MaxInt64 + 1 /\ n + MaxInt64 + 1 < size
    BY <1>1, <1>2
  <2>2. at \in Int /\ size > 0
    BY <1>1, <1>2, <1>5
  <2> QED
    BY <1>2, <1>5, <2>1, <2>2, RemainderIs
<1>7. F!Wrap64(word) = n
  BY <1>1, <1>6 DEF F!Wrap64, F!MinInt64, size, at
<1> QED
  BY <1>7 DEF size, word

\* The binary form of a Decimal, without limits and with the default ones.
TooLarge(amount) ==
    Magnitude(amount.coef) >= Powers(ByteSize)[MaxCoefBytes] \/ amount.scale > MaxParseScale

LEMMA BinaryReadsBack ==
    ASSUME NEW amount, IsDecimal(amount)
    PROVE  /\ DecimalFromBinary(AppendBinary(amount), Unlimited) = Ok(amount)
           /\ TooLarge(amount) => DecimalFromBinary(AppendBinary(amount), DefaultLimits) = Fail("ErrLimitExceeded")
           /\ ~TooLarge(amount) => DecimalFromBinary(AppendBinary(amount), DefaultLimits) = Ok(amount)
<1> DEFINE c == amount.coef
           s == amount.scale
           b == AppendBinary(amount)
           n == Magnitude(c)
<1>1. amount = Dec(c, s) /\ c \in Int /\ s \in Nat /\ ~(s > MaxScale)
  BY MaxScaleAssumption DEF IsDecimal
<1>2. b.scale = s /\ b.bytes = Bytes[n] /\ b.sign = (IF c < 0 THEN 1 ELSE 0)
  BY DEF AppendBinary
<1>3. n \in Nat /\ (c < 0 => -n = c) /\ (~(c < 0) => n = c)
  BY <1>1 DEF Magnitude
<1>4. SetBytes(b.bytes) = n
  <2> HIDE DEF n, b
  <2> QED
    BY <1>2, <1>3, BytesReadBack
<1>5. Len(b.bytes) > MaxCoefBytes <=> n >= Powers(ByteSize)[MaxCoefBytes]
  <2> HIDE DEF n, b
  <2> QED
    BY <1>2, <1>3, BytesLength, CodecAssumption
<1> HIDE DEF n, b, c, s
<1>6. ~(b.sign > 1) /\ (IF b.sign = 1 THEN -SetBytes(b.bytes) ELSE SetBytes(b.bytes)) = c
  BY <1>2, <1>3, <1>4
<1>7. Ok(Dec(IF b.sign = 1 THEN -SetBytes(b.bytes) ELSE SetBytes(b.bytes), b.scale)) = Ok(amount)
  BY <1>1, <1>2, <1>6
<1>8. DecimalFromBinary(b, Unlimited) = Ok(amount)
  <2>1. ~(Unlimited.bytes > 0) /\ ~(Unlimited.scale > 0)
    BY DEF Unlimited
  <2> QED
    BY <1>1, <1>2, <1>6, <1>7, <2>1, Zenon DEF DecimalFromBinary
<1>9. /\ DefaultLimits.bytes = MaxCoefBytes /\ MaxCoefBytes > 0
      /\ DefaultLimits.scale = MaxParseScale /\ MaxParseScale > 0
  BY CodecAssumption, MaxScaleAssumption DEF DefaultLimits
<1>10. TooLarge(amount) <=> (Len(b.bytes) > MaxCoefBytes \/ b.scale > MaxParseScale)
  BY <1>2, <1>5 DEF TooLarge, n, c, s
<1>11. ASSUME TooLarge(amount) PROVE DecimalFromBinary(b, DefaultLimits) = Fail("ErrLimitExceeded")
  BY <1>6, <1>9, <1>10, <1>11, Zenon DEF DecimalFromBinary
<1>12. ASSUME ~TooLarge(amount) PROVE DecimalFromBinary(b, DefaultLimits) = Ok(amount)
  BY <1>1, <1>2, <1>6, <1>7, <1>9, <1>10, <1>12, Zenon DEF DecimalFromBinary
<1> QED
  BY <1>8, <1>11, <1>12 DEF b

\* What a method is due to answer for the value the program holds
ReadBack(m, answer) ==
    IF BeyondLimits(m, plain.amount)
      THEN answer.err = "ErrLimitExceeded"
      ELSE answer.err = "nil" /\ answer.val = plain

\* A text, whoever reads it, and with it the currency that stands for itself.
LEMMA TextReadsBack ==
    ASSUME IsDecimal(plain.amount), plain = Money(plain.amount, plain.currency),
           NEW m, m \notin {"UnmarshalBinary", "UnmarshalBinaryWithOptions"}
    PROVE  ReadBack(m, Attach(ParseText(plain.amount), plain.currency))
<1> DEFINE a == plain.amount
<1>1. a.coef \in Int /\ a.scale \in Nat
  BY MaxScaleAssumption DEF IsDecimal
<1>2. BeyondLimits(m, a) <=> TooLong(a)
  BY DEF BeyondLimits, TooLong
<1>3. TooLong(a) => ParseText(a) = Fail("ErrLimitExceeded")
  BY <1>1, ParseTextIs
<1>4. ~TooLong(a) => ParseText(a) = Ok(a)
  BY <1>1, ParseTextIs
<1> HIDE DEF a
<1>5. CASE TooLong(a)
  BY <1>2, <1>3, <1>5 DEF ReadBack, Attach, Fail, a
<1>6. CASE ~TooLong(a)
  BY <1>2, <1>4, <1>6 DEF ReadBack, Attach, Ok, a
<1> QED
  BY <1>5, <1>6

LEMMA PayloadReadsBack ==
    ASSUME IsDecimal(plain.amount), plain = Money(plain.amount, plain.currency), type # "Fixed64"
    PROVE  LET read(limits) == Attach(DecimalFromBinary(AppendBinary(plain.amount), limits), plain.currency)
           IN  /\ ReadBack("UnmarshalBinary", read(DefaultLimits))
               /\ ReadBack("UnmarshalBinaryWithOptions", read(Unlimited))
<1> DEFINE a == plain.amount
           read(limits) == Attach(DecimalFromBinary(AppendBinary(a), limits), plain.currency)
<1>1. BeyondLimits("UnmarshalBinary", a) <=> TooLarge(a)
  BY DEF BeyondLimits, TooLarge
<1>2. ~BeyondLimits("UnmarshalBinaryWithOptions", a)
  BY DEF BeyondLimits
<1>3. /\ DecimalFromBinary(AppendBinary(a), Unlimited) = Ok(a)
      /\ TooLarge(a) => DecimalFromBinary(AppendBinary(a), DefaultLimits) = Fail("ErrLimitExceeded")
      /\ ~TooLarge(a) => DecimalFromBinary(AppendBinary(a), DefaultLimits) = Ok(a)
  BY BinaryReadsBack
<1> HIDE DEF a
<1>4. ReadBack("UnmarshalBinaryWithOptions", read(Unlimited))
  BY <1>2, <1>3 DEF ReadBack, Attach, Ok, a
<1>5. CASE TooLarge(a)
  BY <1>1, <1>3, <1>4, <1>5 DEF ReadBack, Attach, Fail, a
<1>6. CASE ~TooLarge(a)
  BY <1>1, <1>3, <1>4, <1>6 DEF ReadBack, Attach, Ok, a
<1> QED
  BY <1>5, <1>6

LEMMA DecimalReadsBack ==
    ASSUME type = "Decimal", IsValue(type, plain), NEW form \in Forms[type], NEW m \in ReadersOf[form]
    PROVE  ReadBack(m, Decode(m, Encode(form, plain)))
<1> DEFINE x == Encode(form, plain)
           a == plain.amount
<1>1. IsDecimal(a) /\ plain = Money(a, plain.currency) /\ plain.currency = NoCurrency
  BY DEF IsValue, IsDecimal, Money, Dec
<1>2. a.coef \in Int /\ a.scale \in Nat
  BY <1>1, MaxScaleAssumption DEF IsDecimal
<1>3. Decode(m, x) = Attach(DecodeDecimal(m, x), plain.currency)
  BY <1>1 DEF Decode
<1>4. m \notin {"UnmarshalBinary", "UnmarshalBinaryWithOptions"} =>
        ReadBack(m, Attach(ParseText(a), plain.currency))
  BY <1>1, TextReadsBack
<1>5. form # "binary" => x = [form |-> form, kind |-> "number", amount |-> a, currency |-> plain.currency]
  BY DEF Encode, Kind, Datum
<1>6. form \in {"text", "json", "binary", "extended", "bson", "document"}
  BY DEF Forms, Types
<1> HIDE DEF x, a
<1>7. CASE form = "text"
  <2>1. m \in {"UnmarshalText", "Scan", "UnmarshalJSON"}
    BY <1>7 DEF ReadersOf
  <2>2. DecodeDecimal(m, x) = ParseText(a)
    BY <1>5, <1>7, <2>1
       DEF DecodeDecimal, DecimalUnmarshalText, DecimalUnmarshalJSON, ScanSource, IsText
  <2> QED
    BY <1>3, <1>4, <2>1, <2>2 DEF x
<1>8. CASE form = "json"
  <2>1. m = "UnmarshalJSON"
    BY <1>8 DEF ReadersOf
  <2>2. DecodeDecimal(m, x) = ParseText(a)
    BY <1>5, <1>8, <2>1 DEF DecodeDecimal, DecimalUnmarshalJSON
  <2> QED
    BY <1>3, <1>4, <2>1, <2>2 DEF x
<1>9. CASE form = "extended"
  <2>1. m = "ExtendedJSON"
    BY <1>9 DEF ReadersOf
  <2>2. DecodeDecimal(m, x) = ParseText(a)
    BY <1>5, <1>9, <2>1 DEF DecodeDecimal, UnmarshalExtendedJSON
  <2> QED
    BY <1>3, <1>4, <2>1, <2>2 DEF x
<1>10. CASE form \in {"bson", "document"}
  <2> DEFINE y == IF form = "document" THEN [x EXCEPT !.form = "bson"] ELSE x
  <2>1. m = (IF form = "bson" THEN "BSONStringValue" ELSE "BSONDocument")
    BY <1>10 DEF ReadersOf
  <2>2. y.form = "bson" /\ y.amount = a
    BY <1>5, <1>10
  <2>3. DecodeDecimal(m, x) = UnmarshalBSONStringValue(y)
    <3> HIDE DEF y
    <3>1. CASE form = "bson"
      BY <2>1, <3>1 DEF DecodeDecimal, y
    <3>2. CASE form = "document"
      BY <1>5, <2>1, <3>2 DEF DecodeDecimal, UnmarshalBSONDocument, y
    <3> QED
      BY <1>10, <3>1, <3>2
  <2> HIDE DEF y
  \* The limit on the length of the text is no narrower than that on its digits
  <2>4. TextLength(a) > MaxBSONText => TooLong(a)
    <3>1. /\ Digits(a) \in Nat /\ MaxDigits \in Nat /\ MaxBSONText \in Nat /\ MaxBSONText >= MaxDigits + 2
          /\ Digits(a) > MaxDigits => TooLong(a)
      BY <1>2, ParseTextIs, CodecAssumption
    <3>2. Len(Minus(a.coef)) \in {0, 1}
      BY DEF Minus
    <3> DEFINE sign   == Len(Minus(a.coef))
               digits == Digits(a)
               point  == IF a.scale > 0 THEN 1 ELSE 0
    <3>3. TextLength(a) = sign + digits + point
      BY DEF TextLength
    <3>4. point \in {0, 1} /\ sign \in {0, 1} /\ digits \in Nat
      BY <3>1, <3>2
    <3> HIDE DEF sign, digits, point
    <3>5. sign + digits + point > MaxBSONText => digits > MaxDigits
      BY <3>1, <3>4
    <3> QED
      BY <3>1, <3>3, <3>5 DEF digits
  <2>5. UnmarshalBSONStringValue(y) = ParseText(a)
    BY <1>2, <2>2, <2>4, ParseTextIs DEF UnmarshalBSONStringValue
  <2> QED
    BY <1>3, <1>4, <1>10, <2>1, <2>3, <2>5 DEF x
<1>11. CASE form = "binary"
  <2>1. m \in {"UnmarshalBinary", "UnmarshalBinaryWithOptions"}
    BY <1>11 DEF ReadersOf
  <2>2. x.form = "binary" /\ x.kind = "Decimal" /\ x.amount = AppendBinary(a)
    BY <1>1, <1>11 DEF Encode, BinaryOf, Datum, Money, x, a
  <2>3. DecodeDecimal(m, x) = DecimalFromBinary(AppendBinary(a),
                                IF m = "UnmarshalBinary" THEN DefaultLimits ELSE Unlimited)
    BY <2>1, <2>2 DEF DecodeDecimal, DecimalBinary
  <2> QED
    BY <1>1, <1>3, <2>1, <2>3, PayloadReadsBack DEF x, a
<1> QED
  BY <1>6, <1>7, <1>8, <1>9, <1>10, <1>11

LEMMA FixedReadsBack ==
    ASSUME type = "Fixed64", IsValue(type, plain), NEW form \in Forms[type], NEW m \in ReadersOf[form]
    PROVE  ReadBack(m, Decode(m, Encode(form, plain)))
<1> DEFINE x == Encode(form, plain)
           a == plain.amount
<1>1. IsDecimal(a) /\ plain = Money(a, plain.currency) /\ plain.currency = NoCurrency
  BY DEF IsValue, IsDecimal, Money, Dec
<1>2. a.coef \in F!Int64 /\ F!ValidFixed64Scale(a.scale) /\ a.scale \in Nat /\ a.scale <= MaxFixedScale
  BY <1>1, MaxScaleAssumption DEF IsValue, F!ValidFixed64Scale, IsDecimal
<1>3. ~TooLong(a) /\ ParseText(a) = Ok(a)
  <2>1. ~TooLong(a)
    BY <1>2, FixedIsShort
  <2>2. a.coef \in Int
    BY <1>1 DEF IsDecimal
  <2> QED
    BY <1>2, <2>1, <2>2, ParseTextIs
<1>4. form # "binary" => x = [form |-> form, kind |-> "number", amount |-> a, currency |-> plain.currency]
  BY DEF Encode, Kind, Datum
<1>5. form \in {"text", "json", "binary"}
  BY DEF Forms, Types
<1>6. m \in {"UnmarshalText", "Scan", "UnmarshalJSON", "UnmarshalBinary"}
  BY <1>5 DEF ReadersOf, Methods, NullableMethods, Types
<1>7. ~BeyondLimits(m, a)
  BY <1>3, <1>6 DEF BeyondLimits, TooLong
<1>8. Decode(m, x) = Attach(DecodeFixed64(m, x), plain.currency)
  BY <1>1 DEF Decode
<1> HIDE DEF x, a
<1>9. CASE form # "binary"
  <2>1. m \in (IF form = "text" THEN {"UnmarshalText", "Scan", "UnmarshalJSON"} ELSE {"UnmarshalJSON"})
    BY <1>5, <1>9 DEF ReadersOf
  <2>2. DecodeFixed64(m, x) = ToFixed(Ok(a))
    BY <1>3, <1>4, <1>5, <1>9, <2>1
       DEF DecodeFixed64, FixedUnmarshalText, FixedUnmarshalJSON, FixedScan,
           DecimalUnmarshalText, DecimalUnmarshalJSON, ScanSource, IsText
  <2>3. Sound(Ok(a)) /\ Ok(a).err = "nil" /\ Ok(a).val = a
    BY <1>1 DEF Sound, Ok
  <2>4. ToFixed(Ok(a)).err = "nil"
    BY <1>2, <2>3, ToFixedIs
  <2>5. ToFixed(Ok(a)).val = a
    BY <2>3, <2>4, ToFixedIs
  <2> QED
    BY <1>1, <1>7, <1>8, <2>2, <2>4, <2>5 DEF Attach, ReadBack, a, x
<1>10. CASE form = "binary"
  <2>1. m = "UnmarshalBinary"
    BY <1>10 DEF ReadersOf, Methods, NullableMethods, Types
  <2>2. x.form = "binary" /\ x.kind = "Fixed64" /\ x.amount = AppendFixedBinary(a)
    BY <1>1, <1>10 DEF Encode, BinaryOf, Datum, Money, x, a
  <2>3. x.amount.scale = a.scale /\ x.amount.word = a.coef % (2 * (MaxInt64 + 1))
    BY <2>2 DEF AppendFixedBinary
  <2>4. F!Wrap64(x.amount.word) = a.coef
    BY <1>2, <2>3, WordReadsBack
  <2>5. DecodeFixed64(m, x) = Ok(Dec(a.coef, a.scale))
    BY <1>2, <2>1, <2>2, <2>3, <2>4 DEF DecodeFixed64, FixedBinary
  <2>6. Dec(a.coef, a.scale) = a
    BY <1>1 DEF IsDecimal
  <2> QED
    BY <1>1, <1>7, <1>8, <2>5, <2>6 DEF Attach, Ok, ReadBack, a, x
<1> QED
  BY <1>9, <1>10

LEMMA MoneyReadsBack ==
    ASSUME type = "Money", IsValue(type, plain), plain # NoMoney,
           NEW form \in Forms[type], NEW m \in ReadersOf[form]
    PROVE  ReadBack(m, Decode(m, Encode(form, plain)))
<1> DEFINE x == Encode(form, plain)
           a == plain.amount
           c == plain.currency
<1>1. IsDecimal(a) /\ plain = Money(a, c) /\ c \in Currencies
  BY DEF IsValue, IsDecimal, Money, Dec
<1>2. NormalCode[c] = c /\ c # NoCurrency
  BY <1>1, MoneyAssumption
<1>3. form # "binary" => x = [form |-> form, kind |-> "money", amount |-> a, currency |-> c]
  BY DEF Encode, Kind, Datum
<1>4. form \in {"text", "json", "binary"}
  BY DEF Forms, Types
<1>5. Decode(m, x) = DecodeMoney(m, x)
  BY DEF Decode
<1> HIDE DEF x, a, c
<1>6. CASE form # "binary"
  <2>1. /\ m \notin {"UnmarshalBinary", "UnmarshalBinaryWithOptions"}
        /\ m \in (IF form = "text" THEN {"UnmarshalText", "Scan"} ELSE {"UnmarshalJSON"})
    BY <1>4, <1>6 DEF ReadersOf
  <2>2. DecodeMoney(m, x) = Priced(ParseText(a), c)
    BY <1>3, <1>4, <1>6, <2>1
       DEF DecodeMoney, ParseMoneyText, MoneyUnmarshalJSON, ScanMoneySource, IsText, IsJSON
  <2>3. Priced(ParseText(a), c) = Attach(ParseText(a), c)
    <3>1. CASE ParseText(a).err = "nil"
      <4>1. ParseText(a) = Ok(ParseText(a).val)
        BY <3>1 DEF ParseText, Ok, Fail
      <4>2. Priced(ParseText(a), c) = Attach(Ok(ParseText(a).val), c)
        BY <1>2, <3>1 DEF Priced, NewMoney, Guarded, Check
      <4> QED
        BY <4>1, <4>2
    <3>2. CASE ParseText(a).err # "nil"
      BY <3>2 DEF Priced, Attach
    <3> QED
      BY <3>1, <3>2
  <2> QED
    BY <1>1, <1>5, <2>1, <2>2, <2>3, TextReadsBack DEF a, c, x
<1>7. CASE form = "binary"
  <2>1. m \in {"UnmarshalBinary", "UnmarshalBinaryWithOptions"}
    BY <1>7 DEF ReadersOf, Methods, NullableMethods, Types
  <2>2. x.form = "binary" /\ x.kind = "Money" /\ x.amount = AppendBinary(a) /\ x.currency = c
    BY <1>1, <1>7 DEF Encode, BinaryOf, Datum, Money, x, a, c
  <2>3. DecodeMoney(m, x) = Attach(DecimalFromBinary(AppendBinary(a),
                                     IF m = "UnmarshalBinary" THEN DefaultLimits ELSE Unlimited), c)
    BY <1>1, <2>1, <2>2 DEF DecodeMoney, MoneyBinary
  <2> QED
    BY <1>1, <1>5, <2>1, <2>3, PayloadReadsBack DEF x, a, c
<1> QED
  BY <1>6, <1>7

\* Whatever the program holds, decoded from foreign data included, it can write in
\* every form, and each method either reads it back unchanged, its scale included, or
\* reports that it is beyond the limits of that method, and only when it is.
\* (binary.go, bson.go, json.go, extendedjson.go)
THEOREM WrittenAlwaysReadsBack == ReceiverSpec => []WrittenReadsBack
<1>1. ReceiverTypeOK => WrittenReadsBack
  <2> SUFFICES ASSUME ReceiverTypeOK, ~(type = "Money" /\ plain = NoMoney) PROVE WrittenReadsBack
    BY DEF WrittenReadsBack
  <2>1. type \in Types /\ IsValue(type, plain)
    BY DEF ReceiverTypeOK
  <2>2. EncodeError(plain) = "nil"
    BY <2>1 DEF IsValue, EncodeError, ValidCurrency, Check
  <2>3. ASSUME NEW form \in Forms[type], NEW m \in ReadersOf[form]
        PROVE  ReadBack(m, Decode(m, Encode(form, plain)))
    BY <2>1, DecimalReadsBack, FixedReadsBack, MoneyReadsBack DEF Types
  <2> QED
    BY <2>2, <2>3 DEF WrittenReadsBack, ReadBack
<1> QED
  BY <1>1, ReceiverTypeCorrect, PTL
-----------------------------------------------------------------------------
(* Receivers: what the plain types read. *)

\* Null is a value of none of the types: every plain receiver refuses it.
LEMMA NullIsRefused ==
    ASSUME NEW m \in NullableMethods, type \in Types, MeansNull(m)
    PROVE  Decode(m, data).err # "nil"
<1>1. CASE m = "Scan"
  <2>1. data.form = "nil"
    BY <1>1 DEF MeansNull
  <2>2. CASE type = "Decimal"
    BY <1>1, <2>1, <2>2 DEF Decode, DecodeDecimal, ScanSource, Fail, Attach
  <2>3. CASE type = "Fixed64"
    BY <1>1, <2>1, <2>3 DEF Decode, DecodeFixed64, FixedScan, ToFixed, Then, ScanSource, Fail, Attach
  <2>4. CASE type = "Money"
    BY <1>1, <2>1, <2>4 DEF Decode, DecodeMoney, ScanMoneySource, Refused, Fail, Attach
  <2> QED
    BY <2>2, <2>3, <2>4 DEF Types
<1>2. CASE m = "UnmarshalText"
  <2>1. data.form = "null"
    BY <1>2 DEF MeansNull
  <2>2. CASE type = "Decimal"
    BY <1>2, <2>1, <2>2 DEF Decode, DecodeDecimal, DecimalUnmarshalText, IsText, Fail, Attach
  <2>3. CASE type = "Fixed64"
    BY <1>2, <2>1, <2>3
       DEF Decode, DecodeFixed64, FixedUnmarshalText, ToFixed, Then, DecimalUnmarshalText, IsText, Fail, Attach
  <2>4. CASE type = "Money"
    BY <1>2, <2>1, <2>4 DEF Decode, DecodeMoney, ParseMoneyText, IsText, Refused, Fail, Attach
  <2> QED
    BY <2>2, <2>3, <2>4 DEF Types
<1>3. CASE m = "UnmarshalJSON"
  <2>1. data.form = "null"
    BY <1>3 DEF MeansNull
  <2>2. CASE type = "Decimal"
    BY <1>3, <2>1, <2>2 DEF Decode, DecodeDecimal, DecimalUnmarshalJSON, Fail, Attach
  <2>3. CASE type = "Fixed64"
    BY <1>3, <2>1, <2>3 DEF Decode, DecodeFixed64, FixedUnmarshalJSON, ToFixed, Then, DecimalUnmarshalJSON, Fail, Attach
  <2>4. CASE type = "Money"
    BY <1>3, <2>1, <2>4 DEF Decode, DecodeMoney, MoneyUnmarshalJSON, IsJSON, Refused, Fail, Attach
  <2> QED
    BY <2>2, <2>3, <2>4 DEF Types
<1> QED
  BY <1>1, <1>2, <1>3 DEF NullableMethods

\* Of what is no JSON, the UnmarshalJSON of a plain value reads lenient text only.
LEMMA LenientText ==
    ASSUME type \in Types, ~IsJSON(data), Decode("UnmarshalJSON", data).err = "nil"
    PROVE  data.form = "loose"
<1>1. DecimalUnmarshalJSON(data).err = "nil" => data.form = "loose"
  BY DEF DecimalUnmarshalJSON, DecimalUnmarshalText, IsText, IsJSON, Fail
<1>2. CASE type = "Decimal"
  BY <1>1, <1>2 DEF Decode, DecodeDecimal, Attach
<1>3. CASE type = "Fixed64"
  <2>1. FixedUnmarshalJSON(data).err = "nil"
    BY <1>3 DEF Decode, DecodeFixed64, Attach
  <2> QED
    BY <1>1, <2>1 DEF FixedUnmarshalJSON, ToFixed, Then
<1>4. CASE type = "Money"
  BY <1>4 DEF Decode, DecodeMoney, MoneyUnmarshalJSON, Refused, Fail, Attach
<1> QED
  BY <1>2, <1>3, <1>4 DEF Types

-----------------------------------------------------------------------------
(* What the nullable types hold. *)

\* Every decoding into a nullable value, from any state it could be in.
LEMMA NullableStep ==
    ASSUME NEW m \in NullableMethods, type \in Types, ReadNullable(m)
    PROVE  SameAsPlain(m)
<1>1. CASE MeansNull(m)
  <2>1. nullable'.valid = FALSE /\ nullable'.value = NoMoney /\ status' = "nil"
    BY <1>1 DEF ReadNullable, IsNull
  <2>2. Decode(m, data).err # "nil"
    BY <1>1, NullIsRefused
  <2>3. data.form \in {"null", "nil"}
    BY <1>1 DEF MeansNull
  <2> QED
    BY <2>1, <2>2, <2>3 DEF SameAsPlain
<1>2. CASE ~MeansNull(m)
  <2>1. nullable' = Store(NullableAnswer(m)) /\ status' = NullableAnswer(m).err
    BY <1>2 DEF ReadNullable
  <2>2. CASE m = "UnmarshalJSON" /\ ~IsJSON(data)
    <3>1. NullableAnswer(m).err = "SyntaxError"
      BY <2>2 DEF NullableAnswer, Refused, Fail, Attach
    <3>2. nullable'.valid = FALSE /\ nullable'.value = NoMoney /\ status' = "SyntaxError"
      BY <2>1, <3>1 DEF Store, IsNull
    <3>3. Decode(m, data).err = "nil" => data.form = "loose"
      BY <2>2, LenientText
    <3> QED
      BY <3>2, <3>3 DEF SameAsPlain
  <2>3. CASE ~(m = "UnmarshalJSON" /\ ~IsJSON(data))
    <3>1. NullableAnswer(m) = Decode(m, data)
      BY <2>3 DEF NullableAnswer
    <3>2. CASE Decode(m, data).err = "nil"
      BY <2>1, <3>1, <3>2 DEF Store, SameAsPlain
    <3>3. CASE Decode(m, data).err # "nil"
      BY <2>1, <3>1, <3>3 DEF Store, IsNull, SameAsPlain
    <3> QED
      BY <3>2, <3>3
  <2> QED
    BY <2>2, <2>3
<1> QED
  BY <1>1, <1>2

\* The type of the two values is chosen once.
LEMMA TypeIsFixed == ReceiverSpec => [](type \in Types)
<1>1. ReceiverInit => type \in Types
  BY DEF ReceiverInit
<1>2. type \in Types /\ [ReceiverNext]_receiverVars => (type \in Types)'
  <2> SUFFICES ASSUME [ReceiverNext]_receiverVars PROVE type' = type
    OBVIOUS
  <2> QED
    BY DEF ReceiverNext, receiverVars, Assign, Receive, WritePlain, WriteNull, WriteNullable, Write, ReadPlain,
           ReadNullDecimal, ReadNullFixed64, ReadNullMoney, ReadNullable
<1> QED
  BY <1>1, <1>2, PTL DEF ReceiverSpec

\* The same data into a nullable value and into a plain one: the nullable value is
\* valid exactly when there is a value the plain one would hold, and then holds it;
\* a failed decoding leaves no value behind.  (null.go; Unmarshal and Scan of all types)
THEOREM NullableAlwaysMirrors == ReceiverSpec => NullableMirrorsPlain
<1>1. type \in Types /\ [ReceiverNext]_receiverVars
      => [\A m \in NullableMethods : ReadNullable(m) => SameAsPlain(m)]_receiverVars
  BY NullableStep
<1> QED
  BY <1>1, TypeIsFixed, PTL DEF ReceiverSpec, NullableMirrorsPlain
=============================================================================
