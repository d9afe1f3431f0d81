---------------------------- MODULE DecimalCalc ----------------------------
(***************************************************************************)
(* A caller of the Decimal type: it loads a value and makes any sequence   *)
(* of calls, each on the value the last successful call returned.  A call  *)
(* is requested, then returns by the action of its operation.  The type    *)
(* is immutable, so a failed call leaves the caller's value as it was.     *)
(***************************************************************************)
EXTENDS Decimals

CONSTANTS
    Operands,  \* decimals the caller loads and passes as arguments
    Scales,    \* scales it asks for, a negative one included
    Modes,     \* rounding modes it asks for, an invalid one included
    MaxCoef    \* bound: no further call on a value with a larger coefficient

ASSUME OperandsAssumption ==
    /\ \A d \in Operands : d.coef \in Int /\ d.scale \in 0 .. MaxScale
    /\ \A s \in Scales : s \in Int /\ s <= MaxScale

VARIABLES
    acc,    \* the Decimal the caller holds
    call,   \* the pending call, or NoCall
    err     \* error of the last call

vars == <<acc, call, err>>

NoCall == [op |-> "none"]

Call(ops, args, scales, modes) == [op : ops, arg : args, scale : scales, mode : modes]

Calls == Call({"Neg", "Abs", "Normalize"}, {ZeroValue}, {0}, {"TowardZero"})
    \cup Call({"Add", "Sub", "Mul", "Min", "Max", "DivExact", "QuantizeStepExact"},
              Operands, {0}, {"TowardZero"})
    \cup Call({"Rescale"}, {ZeroValue}, Scales, Modes)
    \cup Call({"RescaleExact"}, {ZeroValue}, Scales, {"TowardZero"})
    \cup Call({"Div"}, Operands, Scales, Modes)
    \cup Call({"QuantizeStep"}, Operands, {0}, Modes)

\* While no product is wider than an int32 scale, no other call makes one: every
\* value keeps a scale the representation allows.  (decimal.go)
TypeOK ==
    /\ acc.coef \in Int /\ acc.scale \in 0 .. MaxScale
    /\ call \in Calls \cup {NoCall}
    /\ err \in {"nil", "ErrDivisionByZero", "ErrInexact", "ErrInvalidScale", "ErrInvalidRoundingMode"}

-----------------------------------------------------------------------------
Init == acc \in Operands /\ call = NoCall /\ err = "nil"

Load == /\ call = NoCall
        /\ acc' \in Operands
        /\ err' = "nil"
        /\ UNCHANGED call

Request(c) ==
    /\ call = NoCall
    /\ acc.scale >= 0 /\ Magnitude(acc.coef) <= MaxCoef
    /\ call' = c
    /\ err' = "nil"
    /\ UNCHANGED acc

\* A product whose scale still is an int32; Mul has no such guard
ProductFits(c) == c.op = "Mul" => acc.scale + c.arg.scale <= MaxScale
CallFits(c) == c.op \in {"DivExact", "QuantizeStepExact"} => QuotientFits(acc, c.arg)

Return(op, result) ==
    /\ call.op = op
    /\ acc' = IF result.err = "nil" THEN result.val ELSE acc
    /\ err' = result.err
    /\ call' = NoCall

DoAdd == Return("Add", Ok(Add(acc, call.arg)))
DoSub == Return("Sub", Ok(Sub(acc, call.arg)))
DoMul == Return("Mul", Ok(Mul(acc, call.arg)))
DoNeg == Return("Neg", Ok(Neg(acc)))
DoAbs == Return("Abs", Ok(Abs(acc)))
DoMin == Return("Min", Ok(MinOf(acc, call.arg)))
DoMax == Return("Max", Ok(MaxOf(acc, call.arg)))
DoNormalize == Return("Normalize", Ok(Normalize(acc)))
DoDiv == Return("Div", Div(acc, call.arg, call.scale, call.mode))
DoDivExact == Return("DivExact", DivExact(acc, call.arg))
DoRescale == Return("Rescale", Rescale(acc, call.scale, call.mode))
DoRescaleExact == Return("RescaleExact", RescaleExact(acc, call.scale))
DoQuantizeStep == Return("QuantizeStep", QuantizeStep(acc, call.arg, call.mode))
DoQuantizeStepExact == Return("QuantizeStepExact", QuantizeStepExact(acc, call.arg))

Returns ==
    \/ DoAdd \/ DoSub \/ DoMul \/ DoNeg \/ DoAbs \/ DoMin \/ DoMax \/ DoNormalize
    \/ DoDiv \/ DoDivExact \/ DoRescale \/ DoRescaleExact
    \/ DoQuantizeStep \/ DoQuantizeStepExact

Next == \/ Load
        \/ \E c \in Calls : ProductFits(c) /\ CallFits(c) /\ Request(c)
        \/ Returns
Spec == Init /\ [][Next]_vars

\* The same caller without the bound on the scale of a product
NextAnyScale == Load \/ (\E c \in Calls : CallFits(c) /\ Request(c)) \/ Returns
SpecAnyScale == Init /\ [][NextAnyScale]_vars

-----------------------------------------------------------------------------
\* Every sequence of calls gives the exact number, or the exact number rounded
\* once, or an error the numbers justify: align, the truncated quotient, the
\* reversed step multiplication and the factor removal of DivExact never lose or
\* add a digit.  (decimal.go)
AsRequest == IF call = NoCall THEN NoCall ELSE [call EXCEPT !.arg = AsFraction(@)]
Contract == INSTANCE ExactCalc WITH
    val  <- AsFraction(acc),
    call <- AsRequest,
    Fits <- LAMBDA units : TRUE,
    WidestScale <- MaxScale
RefinesExactCalc == Contract!Spec

\* Key is the text of Normalize: two decimals have the same key exactly when Cmp
\* calls them equal, whatever scales the calls left them with.  (decimal.go Key,
\* Cmp; the map-key promise of the docs)
KeyAgreesWithCmp ==
    call = NoCall =>
    \A d \in Operands : (Normalize(acc) = Normalize(d)) <=> (Cmp(acc, d) = 0)

\* An exact quotient has no digit it does not need, whatever digits and scales the
\* calls before left in its operands: at any smaller scale the caller would be told
\* that it is inexact.  (decimal.go DivExact: the common factor, the factors two and
\* five of the denominator, and the larger count as the scale)
QuotientIsNarrowest ==
    [][call.op = "DivExact" /\ err' = "nil" =>
         \A s \in 0 .. acc'.scale - 1 : RescaleExact(acc', s).err = "ErrInexact"]_vars

\* "the scale is a non-negative int32" (DESIGN.md): false once the scales of a
\* product add up past the largest int32, which Mul does not check.
ScaleNonNegative == acc.scale >= 0
=============================================================================
