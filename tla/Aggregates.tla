----------------------------- MODULE Aggregates -----------------------------
(***************************************************************************)
(* The sums and averages of a slice of values: of Fixed64 (fixed64.go), of *)
(* Decimal and of Money (aggregate.go), and of Decimal and Money under a   *)
(* policy, Context (aggregate.go) and MoneyContext (money_context.go).     *)
(* SumFixed64 and its averages run a loop in checked int64 units, given up *)
(* at the first overflow or change of scale for a second loop over the     *)
(* same values in Decimal, which is the only loop of the other types.      *)
(*                                                                         *)
(* The model runs the loops one iteration at a time.                       *)
(***************************************************************************)
EXTENDS Fixed64, Sequences, Functions

CONSTANTS
    ValueLists,    \* slices of Fixed64 values, the empty one included
    DecimalLists,  \* slices of Decimals
    MoneyLists,    \* slices of Money values
    Currencies,  \* valid currency codes; any other is that of a zero Money
    Policies,    \* currencies of a MoneyContext, an invalid one included
    AskedScales,      \* scales asked for, invalid ones included
    AskedModes        \* rounding modes asked for, an invalid one included

\* The length of a slice is an int64, a scale of a Decimal an int32
ASSUME InputAssumption ==
    /\ \A vs \in ValueLists \cup DecimalLists \cup MoneyLists :
         /\ vs \in Seq(Range(vs)) /\ Len(vs) <= MaxInt64
         /\ \A k \in DOMAIN vs : vs[k].units \in Int /\ vs[k].scale \in 0 .. MaxScale
    /\ \A vs \in ValueLists : \A k \in DOMAIN vs :
         vs[k].units \in Int64 /\ ValidFixed64Scale(vs[k].scale)
    /\ \A s \in AskedScales : s \in Int /\ s <= MaxScale

VARIABLES
    type,                     \* of the values, or of the policy they are summed under
    op, values, scale, mode,  \* the function called and its arguments
    code,                     \* currency of a MoneyContext
    pc,     \* "check", "fast", "decimal" (the loops), "divide" or "done"
    i,      \* index of the next value of the loop, from 1
    units,  \* total of the fast loop
    total,  \* total of the Decimal loop
    result, \* the value returned: a Fixed64, or the Decimal or the amount
    error     \* error returned, "nil" for none

input == <<type, op, values, scale, mode, code>>
aggregateVars  == <<input, pc, i, units, total, result, error>>

NoResult(t) == IF t = "Fixed64" THEN Fixed(0, 0) ELSE D!ZeroValue

Types     == {"Fixed64", "Decimal", "Money", "Context", "MoneyContext"}
OfMoney   == type \in {"Money", "MoneyContext"}
HasPolicy == type \in {"Context", "MoneyContext"}

AggregateInit ==
    /\ type \in Types
    /\ op \in {"Sum", "Avg", "AvgExact"} \cup IF HasPolicy THEN {"SumExact"} ELSE {}
    /\ values \in IF OfMoney THEN MoneyLists ELSE IF type = "Fixed64" THEN ValueLists ELSE DecimalLists
    /\ code \in IF type = "MoneyContext" THEN Policies ELSE {""}
    /\ scale \in AskedScales
    /\ mode \in AskedModes
    /\ pc = "check" /\ i = 1 /\ units = 0 /\ total = D!ZeroValue
    /\ result = NoResult(type) /\ error = "nil"

Answer(answer) ==
    /\ pc' = "done" /\ error' = answer.err
    /\ result' = IF answer.err = "nil" THEN answer.val ELSE NoResult(type)
    /\ UNCHANGED <<input, i, units, total>>

First == values[1]

\* Sum of Decimals, and sumFixed64Decimal: the total starts with the first value
StartSum ==
    /\ pc' = "decimal" /\ i' = 2 /\ total' = Decimal(First)
    /\ UNCHANGED <<input, units, result, error>>

CheckFixed64 ==
    /\ pc = "check" /\ type = "Fixed64"
    /\ \/ values = <<>> /\ Answer(Fail("ErrEmptyInput"))
       \/ /\ values # <<>> /\ op # "Sum" /\ ~ValidFixed64Scale(scale)
          /\ Answer(Fail("ErrInvalidScale"))
       \/ /\ values # <<>> /\ op = "Avg" /\ ValidFixed64Scale(scale) /\ mode \notin RoundingModes
          /\ Answer(Fail("ErrInvalidRoundingMode"))
       \/ /\ values # <<>>
          /\ op # "Sum" => ValidFixed64Scale(scale)
          /\ op = "Avg" => mode \in RoundingModes
          /\ pc' = "fast" /\ i' = 2 /\ units' = First.units
          /\ UNCHANGED <<input, total, result, error>>

\* The sum of no decimals is zero; an average needs a value
CheckDecimal ==
    /\ pc = "check" /\ type = "Decimal"
    /\ \/ values = <<>> /\ op = "Sum" /\ Answer(D!Ok(D!ZeroValue))
       \/ values = <<>> /\ op # "Sum" /\ Answer(D!Fail("ErrEmptyInput"))
       \/ values # <<>> /\ StartSum

\* sameCurrency of v and of the first value, or of the policy
Reference == IF type = "MoneyContext" THEN code ELSE First.currency
CurrencyError(v) ==
    IF {Reference, v.currency} \subseteq Currencies
      THEN IF Reference = v.currency THEN "nil" ELSE "ErrCurrencyMismatch"
      ELSE "ErrInvalidCurrency"

CheckMoney ==
    /\ pc = "check" /\ type = "Money"
    /\ \/ values = <<>> /\ Answer(D!Fail("ErrEmptyInput"))
       \/ values # <<>> /\ First.currency \notin Currencies /\ Answer(D!Fail("ErrInvalidCurrency"))
       \/ values # <<>> /\ First.currency \in Currencies /\ StartSum

PolicyError ==
    IF type = "MoneyContext" /\ code \notin Currencies THEN "ErrInvalidCurrency"
    ELSE IF scale < 0 THEN "ErrInvalidScale"
    ELSE IF mode \notin RoundingModes THEN "ErrInvalidRoundingMode"
    ELSE "nil"

\* Sum of a Context sums before it looks at its policy, and accepts no values
CheckContext ==
    /\ pc = "check" /\ type = "Context"
    /\ \/ op = "Sum" /\ values = <<>> /\ Answer(D!Rescale(D!ZeroValue, scale, mode))
       \/ op # "Sum" /\ PolicyError # "nil" /\ Answer(D!Fail(PolicyError))
       \/ op # "Sum" /\ PolicyError = "nil" /\ values = <<>> /\ Answer(D!Fail("ErrEmptyInput"))
       \/ (op = "Sum" \/ PolicyError = "nil") /\ values # <<>> /\ StartSum

\* The total of a MoneyContext starts at zero: the loop checks the first value too
CheckMoneyContext ==
    /\ pc = "check" /\ type = "MoneyContext"
    /\ IF PolicyError # "nil" THEN Answer(D!Fail(PolicyError))
       ELSE IF values = <<>> THEN Answer(D!Fail("ErrEmptyInput"))
       ELSE pc' = "decimal" /\ UNCHANGED <<input, i, units, total, result, error>>

\* Mutant: the Decimal loop starts over from the total of the fast one
FallBackKept ==
    /\ pc' = "decimal" /\ i' = 2 /\ total' = Decimal(Fixed(units, First.scale))
    /\ UNCHANGED <<input, units, result, error>>

\* sumFixed64Decimal starts over with the first value
FallBack == StartSum

\* Mutant: the sum is not checked for overflow
FastAddUnchecked ==
    /\ pc = "fast" /\ i <= Len(values)
    /\ IF values[i].scale # First.scale THEN FallBack
       ELSE /\ units' = units + values[i].units /\ i' = i + 1
            /\ UNCHANGED <<input, pc, total, result, error>>

FastAdd ==
    /\ pc = "fast" /\ i <= Len(values)
    /\ LET sum == IF values[i].scale = First.scale THEN CheckedAdd64(units, values[i].units) ELSE {}
       IN  IF sum = {} THEN FallBack
           ELSE /\ units' \in sum /\ i' = i + 1
                /\ UNCHANGED <<input, pc, total, result, error>>

\* avgFixed64Fast: empty when a step overflows
AvgFast ==
    LET delta      == scale - First.scale
        numerators == IF delta > 0 THEN ScaleUnits64(units, delta) ELSE {units}
        divisors   == IF delta < 0 THEN ScaleUnits64(Len(values), -delta) ELSE {Len(values)}
    IN  UNION {DivRound(n, d, mode) : n \in numerators, d \in divisors}

\* Mutant: an overflow of the fast division is the answer
FastReturnOverflow ==
    /\ pc = "fast" /\ i > Len(values)
    /\ \/ op = "Sum" /\ Answer(Ok(Fixed(units, First.scale)))
       \/ op = "Avg" /\ Answer(OrOverflow(AvgFast, scale))
       \/ /\ op = "AvgExact"
          /\ pc' = "divide" /\ total' = Decimal(Fixed(units, First.scale))
          /\ UNCHANGED <<input, i, units, result, error>>

FastReturn ==
    /\ pc = "fast" /\ i > Len(values)
    /\ \/ op = "Sum" /\ Answer(Ok(Fixed(units, First.scale)))
       \/ op = "Avg" /\ AvgFast # {} /\ Answer(OrOverflow(AvgFast, scale))
       \/ op = "Avg" /\ AvgFast = {} /\ FallBack
       \/ /\ op = "AvgExact"
          /\ pc' = "divide" /\ total' = Decimal(Fixed(units, First.scale))
          /\ UNCHANGED <<input, i, units, result, error>>

AddNext ==
    /\ total' = D!Add(total, Decimal(values[i]))
    /\ i' = i + 1
    /\ UNCHANGED <<input, pc, units, result, error>>

\* Mutant: a value only needs a currency, not the currency of the total
DecimalAddMixed ==
    /\ pc = "decimal" /\ i <= Len(values)
    /\ IF OfMoney /\ values[i].currency \notin Currencies
         THEN Answer(D!Fail("ErrInvalidCurrency"))
         ELSE AddNext

DecimalAdd ==
    /\ pc = "decimal" /\ i <= Len(values)
    /\ IF OfMoney /\ CurrencyError(values[i]) # "nil"
         THEN Answer(D!Fail(CurrencyError(values[i])))
         ELSE AddNext

DecimalDone ==
    /\ pc = "decimal" /\ i > Len(values)
    /\ pc' = "divide"
    /\ UNCHANGED <<input, i, units, total, result, error>>

\* The last conversion to Fixed64 of a Decimal result, whose error is passed on
Converted(answer, s) ==
    IF answer.err # "nil" THEN Fail(answer.err)
    ELSE Fixed64FromDecimal(answer.val, s, "TowardZero")

Count == D!Dec(Len(values), 0)

\* Bound under which DivExact can count the factors of the divisor of an average in
\* an int32, which it does not check
AveragesFit ==
    \A vs \in ValueLists \cup DecimalLists \cup MoneyLists : \A k \in DOMAIN vs : \A factor \in {2, 5} :
        Removed(Len(vs) * Pow10[vs[k].scale], factor).count <= MaxScale

\* RescaleExact of the exact quotient
ExactAverage ==
    LET avg == D!DivExact(total, Count)
    IN  IF avg.err # "nil" THEN avg ELSE D!RescaleExact(avg.val, scale)

\* Mutant: the exact average is rounded to the scale
ExactAverageRounded ==
    LET avg == D!DivExact(total, Count)
    IN  IF avg.err # "nil" THEN avg ELSE D!Rescale(avg.val, scale, "ToNearestEven")

\* Mutant: the exact average is rounded, not refused
DivideRounded ==
    /\ pc = "divide" /\ type = "Fixed64"
    /\ \/ op = "Sum" /\ Answer(Converted(D!Ok(total), total.scale))
       \/ op = "Avg" /\ Answer(Converted(D!Div(total, Count, scale, mode), scale))
       \/ op = "AvgExact" /\ Answer(Converted(ExactAverageRounded, scale))

Divide ==
    /\ pc = "divide" /\ type = "Fixed64"
    /\ \/ op = "Sum" /\ Answer(Converted(D!Ok(total), total.scale))
       \/ op = "Avg" /\ Answer(Converted(D!Div(total, Count, scale, mode), scale))
       \/ op = "AvgExact" /\ Answer(Converted(ExactAverage, scale))

DivideDecimal ==
    /\ pc = "divide" /\ type \in {"Decimal", "Money"}
    /\ \/ op = "Sum" /\ Answer(D!Ok(total))
       \/ op = "Avg" /\ Answer(D!Div(total, Count, scale, mode))
       \/ op = "AvgExact" /\ Answer(D!DivExact(total, Count))

\* The result is brought to the scale of the policy
DividePolicy ==
    /\ pc = "divide" /\ HasPolicy
    /\ \/ op = "Sum" /\ Answer(D!Rescale(total, scale, mode))
       \/ op = "SumExact" /\ Answer(D!RescaleExact(total, scale))
       \/ op = "Avg" /\ Answer(D!Div(total, Count, scale, mode))
       \/ op = "AvgExact" /\ Answer(ExactAverage)

AggregateNext == \/ CheckFixed64 \/ CheckDecimal \/ CheckMoney \/ CheckContext \/ CheckMoneyContext
        \/ FastAdd \/ FastReturn \/ DecimalAdd \/ DecimalDone
        \/ Divide \/ DivideDecimal \/ DividePolicy
AggregateSpec == AggregateInit /\ [][AggregateNext]_aggregateVars

-----------------------------------------------------------------------------
ArgumentErrors == {"ErrEmptyInput", "ErrInvalidScale", "ErrInvalidRoundingMode",
                   "ErrInvalidCurrency", "ErrCurrencyMismatch"}

\* The fast total is always an int64, whatever the partial sums would be; a value
\* returned is one its type can hold.  (fixed64.go sumFixed64Fast)
AggregateTypeOK ==
    /\ type \in Types /\ op \in {"Sum", "SumExact", "Avg", "AvgExact"}
    /\ values \in ValueLists \cup DecimalLists \cup MoneyLists
    /\ scale \in AskedScales /\ mode \in AskedModes /\ code \in Policies \cup {""}
    /\ pc \in {"check", "fast", "decimal", "divide", "done"}
    /\ i \in 1 .. Len(values) + 1
    /\ units \in Int64
    /\ IF type = "Fixed64" THEN result.units \in Int64 /\ ValidFixed64Scale(result.scale)
       ELSE result.coef \in Int /\ result.scale \in 0 .. MaxScale
    /\ error \in ArgumentErrors \cup {"nil", "ErrOverflow", "ErrInexact"}

\* The exact sum, as an integer at the widest scale of the values
WidestScale == CHOOSE s \in {values[k].scale : k \in DOMAIN values} :
                 \A k \in DOMAIN values : values[k].scale <= s
ExactUnits == Total([k \in DOMAIN values |-> values[k].units * Pow10[WidestScale - values[k].scale]])

Answered(function) ==
    pc = "done" /\ op = function /\ values # <<>> /\ error \notin ArgumentErrors
Divisor == IF op \in {"Avg", "AvgExact"} THEN Len(values) ELSE 1

Amount  == IF type = "Fixed64" THEN result.units ELSE result.coef
Fits(n) == type = "Fixed64" => n \in Int64

\* A sum overflows only when the total itself does not fit, and is exact otherwise:
\* partial sums that overflow, the order of the values and their scales make no
\* difference.  (SumFixed64, "still return ErrOverflow if the final exact result
\* cannot fit in Fixed64"; Sum and SumMoney, "the exact sum")
SumIsExact ==
    Answered("Sum") /\ ~HasPolicy =>
        IF Fits(ExactUnits) THEN error = "nil" /\ Amount = ExactUnits /\ result.scale = WidestScale
        ELSE error = "ErrOverflow"

\* An average, and a sum under a policy, is the exact one rounded once, and
\* overflows only when the rounded result does not fit, however large the sum is.
\* (AvgFixed64, Avg, AvgMoney, and Sum and Avg of Context and MoneyContext)
AvgRoundsOnce ==
    Answered("Avg") \/ (Answered("Sum") /\ HasPolicy) =>
        LET num  == ExactUnits * Pow10[scale]
            den  == Divisor * Pow10[WidestScale]
            mean == RoundQuotient(num, den, mode)
        IN  IF Fits(mean)
              THEN error = "nil" /\ result.scale = scale /\ IsRounded(Amount, num, den, mode)
              ELSE error = "ErrOverflow"

\* An exact form returns the mean or the sum itself, and ErrInexact exactly when the
\* scale asked for, or for Decimal and Money any scale, cannot hold it: a quotient
\* taken on the way at another scale makes no difference.  (AvgFixed64Exact,
\* AvgExact, AvgMoneyExact, and SumExact and AvgExact of the policies)
AvgExactIsExact ==
    Answered("AvgExact") \/ Answered("SumExact") =>
        LET den       == Divisor * Pow10[WidestScale]
            allowed   == IF type \in {"Decimal", "Money"} THEN 0 .. MaxScale ELSE {scale}
            reachable == {s \in allowed : (ExactUnits * Pow10[s]) % den = 0}
        IN  IF reachable = {} THEN error = "ErrInexact"
            ELSE IF \A s \in reachable : Fits((ExactUnits * Pow10[s]) \div den)
              THEN /\ error = "nil" /\ result.scale \in reachable
                   /\ Amount * den = ExactUnits * Pow10[result.scale]
              ELSE error = "ErrOverflow"

\* "summing across currencies is a category error": amounts are added only when
\* all of them, not just two neighbours, are of one valid currency, that of the
\* policy if there is one; the first value that is not stops the sum, before the
\* scale or the mode of an average is looked at.  (aggregate.go SumMoney, AvgMoney,
\* AvgMoneyExact; money_context.go Sum, SumExact, Avg, AvgExact)
CurrenciesNeverMix ==
    OfMoney /\ pc = "done" /\ values # <<>> =>
        LET stranger(k) == values[k].currency \notin Currencies \/ values[k].currency # Reference
            strangers   == {k \in DOMAIN values : stranger(k)}
            first       == CHOOSE k \in strangers : \A l \in strangers : k <= l
        IN  IF HasPolicy /\ PolicyError # "nil" THEN error = PolicyError
            ELSE IF strangers = {} THEN error \notin {"ErrInvalidCurrency", "ErrCurrencyMismatch"}
            ELSE error = IF values[first].currency \in Currencies THEN "ErrCurrencyMismatch"
                       ELSE "ErrInvalidCurrency"
=============================================================================
