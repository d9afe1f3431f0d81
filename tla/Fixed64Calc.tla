---------------------------- MODULE Fixed64Calc ----------------------------
(***************************************************************************)
(* A caller of the Fixed64 type, making any sequence of calls on the value *)
(* it holds: loaded from minor units at a valid scale, then replaced by    *)
(* the result of each successful call.                                     *)
(***************************************************************************)
EXTENDS Fixed64

CONSTANTS
    Operands,  \* Fixed64 values the caller loads and passes as arguments
    Scales,    \* scales it asks for, invalid ones included
    Modes      \* rounding modes it asks for, an invalid one included

ASSUME OperandsAssumption ==
    /\ Operands \subseteq Fixed64s
    /\ \A s \in Scales : s \in Int /\ s <= MaxScale

VARIABLES
    acc,    \* the Fixed64 the caller holds
    call,   \* the pending call, or NoCall
    err     \* error of the last call

vars == <<acc, call, err>>

NoCall == [op |-> "none"]

Call(ops, args, scales, modes) == [op : ops, arg : args, scale : scales, mode : modes]

Calls == Call({"Neg", "Abs"}, {Fixed(0, 0)}, {0}, {"TowardZero"})
    \cup Call({"Add", "Sub", "Min", "Max"}, Operands, {0}, {"TowardZero"})
    \cup Call({"Rescale"}, {Fixed(0, 0)}, Scales, Modes)
    \cup Call({"MulTo", "Div"}, Operands, Scales, Modes)
    \cup Call({"QuantizeStep"}, Operands, {0}, Modes)

\* A Fixed64 always holds an int64 at a scale its table covers, although the
\* arithmetic passes through products and shifts that do not fit.
TypeOK ==
    /\ acc \in Fixed64s
    /\ call \in Calls \cup {NoCall}
    /\ err \in {"nil", "ErrDivisionByZero", "ErrOverflow", "ErrInvalidScale", "ErrInvalidRoundingMode"}

-----------------------------------------------------------------------------
Init == acc \in Operands /\ call = NoCall /\ err = "nil"

Load == /\ call = NoCall
        /\ acc' \in Operands
        /\ err' = "nil"
        /\ UNCHANGED call

Request(c) == /\ call = NoCall
              /\ call' = c
              /\ err' = "nil"
              /\ UNCHANGED acc

Return(op, result) ==
    /\ call.op = op
    /\ acc' = IF result.err = "nil" THEN result.val ELSE acc
    /\ err' = result.err
    /\ call' = NoCall

DoNeg == Return("Neg", Neg(acc))
DoAbs == Return("Abs", Abs(acc))
DoAdd == Return("Add", Add(acc, call.arg))
DoSub == Return("Sub", Sub(acc, call.arg))
DoMin == Return("Min", Ok(MinFixed64(acc, call.arg)))
DoMax == Return("Max", Ok(MaxFixed64(acc, call.arg)))
DoMul == Return("MulTo", Mul(acc, call.arg, call.scale, call.mode))
DoDiv == Return("Div", Div(acc, call.arg, call.scale, call.mode))
DoRescale == Return("Rescale", Rescale(acc, call.scale, call.mode))
DoQuantizeStep == Return("QuantizeStep", QuantizeStep(acc, call.arg, call.mode))

Next == \/ Load
        \/ \E c \in Calls : Request(c)
        \/ DoNeg \/ DoAbs \/ DoAdd \/ DoSub \/ DoMin \/ DoMax
        \/ DoMul \/ DoDiv \/ DoRescale \/ DoQuantizeStep
Spec == Init /\ [][Next]_vars

-----------------------------------------------------------------------------
\* Every sequence of int64 calls gives the exact number, or the exact number
\* rounded once, never a wrapped or twice rounded one; ErrOverflow comes from a
\* rounded operation only when the rounded result itself does not fit, however
\* large the intermediate product or shift was, and from Add and Sub only when
\* an aligned operand, the negated operand or the result does not fit.
\* (fixed64.go, both the fast paths and the Decimal fallbacks)
AsFraction(f) == [num |-> f.units, den |-> Pow10[f.scale]]
AsRequest  == IF call = NoCall THEN NoCall ELSE [call EXCEPT !.arg = AsFraction(@)]
Contract == INSTANCE ExactCalc WITH
    val  <- AsFraction(acc),
    call <- AsRequest,
    Fits <- LAMBDA units : units \in Int64,
    WidestScale <- MaxFixedScale
RefinesExactCalc == Contract!Spec

\* A call with a fast path returns, value, scale and error, what the Decimal
\* computation converted back would have returned: a caller cannot tell which
\* of the two paths was taken.  (fixed64.go Mul, QuantizeStep, Rescale)
DecimalAnswer ==
    CASE call.op = "MulTo"   -> Fixed64FromDecimal(D!Mul(Decimal(acc), Decimal(call.arg)), call.scale, call.mode)
      [] call.op = "Rescale" -> Fixed64FromDecimal(Decimal(acc), call.scale, call.mode)
      [] call.op = "QuantizeStep" /\ call.arg.units # 0 -> QuantizeStepDecimal(acc, call.arg, call.mode)
      [] OTHER -> Fail("ErrDivisionByZero")
PathsAgree ==
    [][call.op \in {"MulTo", "Rescale", "QuantizeStep"} =>
         /\ err' = DecimalAnswer.err
         /\ err' = "nil" => acc' = DecimalAnswer.val]_vars

\* Cmp orders values of different scales as their numbers do, including when
\* bringing one to the other's scale overflows.  (fixed64.go Cmp, Min, Max)
CmpIsNumeric ==
    call = NoCall =>
    \A f \in Operands : Cmp(acc, f) = D!Cmp(Decimal(acc), Decimal(f))
=============================================================================
