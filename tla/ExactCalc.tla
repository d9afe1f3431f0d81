----------------------------- MODULE ExactCalc -----------------------------
(***************************************************************************)
(* What the arithmetic of the library promises, with no word about how:    *)
(* a caller holds a number, asks for one operation at a time and receives  *)
(* either the exact result, the exact result rounded once to the grid of   *)
(* the call in the mode of the call, or an error that the numbers justify. *)
(* A failed call leaves the caller's number alone.  Numbers are fractions  *)
(* with a positive denominator, equal when they cross-multiply.            *)
(***************************************************************************)
EXTENDS Rounding

CONSTANTS
    Pow10,         \* powers of ten
    Fits(_),       \* whether the type can store an integer number of units
    WidestScale    \* largest scale of a result

VARIABLES
    val,    \* the caller's number
    call,   \* the pending call, or NoCall
    err     \* error of the last call, "nil" for none

vars == <<val, call, err>>

ExactOps     == {"Add", "Sub", "Mul", "Neg", "Abs", "Normalize", "Min", "Max"}
\* Rounded to call.scale, or to a multiple of the argument; "StepTo" does both
RoundedOps   == {"Rescale", "Div", "MulTo", "AddTo", "SubTo", "QuantizeStep"}
SteppedOps   == {"StepTo"}
\* Only when there is nothing to round
ExactOnlyOps == {"RescaleExact", "DivExact", "QuantizeStepExact", "AddExact", "SubExact",
                 "MulExact", "DivToExact", "StepToExact"}
Ops == ExactOps \cup RoundedOps \cup SteppedOps \cup ExactOnlyOps

NoCall == [op |-> "none"]

Frac(n, d) == [num |-> n, den |-> d]
Fractions  == [num : Int, den : Nat \ {0}]
FracEq(a, b)  == a.num * b.den = b.num * a.den
FracLeq(a, b) == a.num * b.den <= b.num * a.den

\* val and the argument brought to the larger of their denominators, one of
\* which divides the other
Common(d, other) == IF d.den >= other.den THEN d.num ELSE d.num * (other.den \div d.den)
Left  == Common(val, call.arg)
Right == Common(call.arg, val)
CommonDen == IF val.den >= call.arg.den THEN val.den ELSE call.arg.den

ExactResult ==
    LET a == call.arg
    IN  CASE call.op = "Add" -> Frac(Left + Right, CommonDen)
          [] call.op = "Sub" -> Frac(Left - Right, CommonDen)
          [] call.op = "Mul" -> Frac(val.num * a.num, val.den * a.den)
          [] call.op = "Neg" -> Frac(-val.num, val.den)
          [] call.op = "Abs" -> Frac(Magnitude(val.num), val.den)
          [] call.op = "Min" -> IF FracLeq(val, a) THEN val ELSE a
          [] call.op = "Max" -> IF FracLeq(a, val) THEN val ELSE a
          [] OTHER           -> val

\* The units an exact operation has to store on its way: aligned operands, the
\* result, and for a subtraction the negated operand
ExactUnits ==
    CASE call.op = "Add" -> {Left, Right, Left + Right}
      [] call.op = "Sub" -> {-call.arg.num, Left, -Right, Left - Right}
      [] call.op \in {"Neg", "Abs"} -> {ExactResult.num}
      [] OTHER           -> {}

\* The real number to be rounded, and the grids it may be rounded to
Exact ==
    LET a == call.arg
    IN  CASE call.op \in {"Div", "DivExact", "DivToExact"} ->
               [num |-> val.num * a.den, den |-> val.den * a.num]
          [] call.op \in {"MulTo", "MulExact"} -> Frac(val.num * a.num, val.den * a.den)
          [] call.op \in {"AddTo", "AddExact"} -> Frac(Left + Right, CommonDen)
          [] call.op \in {"SubTo", "SubExact"} -> Frac(Left - Right, CommonDen)
          [] OTHER -> val

StepGrid  == Frac(Magnitude(call.arg.num), call.arg.den)
ScaleGrid == Frac(1, Pow10[call.scale])
Grid == IF call.op \in {"QuantizeStep", "QuantizeStepExact"} THEN StepGrid ELSE ScaleGrid

\* How many steps of grid g are x, rounded
Counts(x, g) ==
    LET num == x.num * g.den
        den == x.den * g.num
        q   == Quo(num, den)
    IN  {k \in {q - 1, q, q + 1} : IsRounded(k, num, den, call.mode)}
StepCounts == Counts(Exact, Grid)
OnGrid(g) == Rem(Exact.num * g.den, Exact.den * g.num) = 0

Finite == \E s \in 0 .. WidestScale : OnGrid(Frac(1, Pow10[s]))
NothingToRound ==
    CASE call.op = "DivExact"    -> Finite
      [] call.op = "StepToExact" -> OnGrid(StepGrid) /\ OnGrid(ScaleGrid)
      [] OTHER                   -> OnGrid(Grid)

DivisorIsZero ==
    /\ call.op \in {"Div", "DivExact", "DivToExact", "QuantizeStep", "QuantizeStepExact",
                    "StepTo", "StepToExact"}
    /\ call.arg.num = 0

\* Arguments no result can be given for
ScaleIsBad ==
    /\ call.op \notin ExactOps \cup {"DivExact", "QuantizeStep", "QuantizeStepExact"}
    /\ call.scale \notin 0 .. WidestScale
ModeIsBad  == call.op \notin ExactOps /\ call.mode \notin RoundingModes
Answerable == ~DivisorIsZero /\ ~ScaleIsBad /\ ~ModeIsBad

-----------------------------------------------------------------------------
Init == /\ val \in Fractions
        /\ call = NoCall
        /\ err = "nil"

Load == /\ call = NoCall
        /\ val' \in Fractions
        /\ err' = "nil"
        /\ UNCHANGED call

\* In any mode, a wrong one included
Request == /\ call = NoCall
           /\ call'.op \in Ops /\ call'.arg \in Fractions /\ call'.scale \in Int
           /\ err' = "nil"
           /\ UNCHANGED val

Succeed == err' = "nil" /\ call' = NoCall
Refuse(e) == err' = e /\ call' = NoCall /\ UNCHANGED val

ReturnExact ==
    /\ call.op \in ExactOps
    /\ Succeed
    /\ FracEq(val', ExactResult)

ReturnRounded ==
    /\ call.op \in RoundedOps
    /\ Answerable
    /\ Succeed
    /\ \E k \in StepCounts : /\ FracEq(val', Frac(k * Grid.num, Grid.den))
                             /\ Fits(k * Grid.num)

\* Rounded to a multiple of the argument, then to the scale
ReturnStepped ==
    /\ call.op \in SteppedOps
    /\ Answerable
    /\ Succeed
    /\ \E k \in Counts(val, StepGrid) :
         \E n \in Counts(Frac(k * StepGrid.num, StepGrid.den), ScaleGrid) :
           FracEq(val', Frac(n, ScaleGrid.den))

ReturnExactOnly ==
    /\ call.op \in ExactOnlyOps
    /\ Answerable
    /\ NothingToRound
    /\ Succeed
    /\ val'.num * Exact.den = Exact.num * val'.den

\* With several bad arguments any of the errors will do
RefuseArguments ==
    /\ call # NoCall
    /\ \/ DivisorIsZero /\ Refuse("ErrDivisionByZero")
       \/ ScaleIsBad    /\ Refuse("ErrInvalidScale")
       \/ ModeIsBad     /\ Refuse("ErrInvalidRoundingMode")

RefuseInexact ==
    /\ call.op \in ExactOnlyOps
    /\ Answerable
    /\ ~NothingToRound
    /\ Refuse("ErrInexact")

RefuseOverflow ==
    /\ \/ call.op \in ExactOps /\ \E u \in ExactUnits : ~Fits(u)
       \/ /\ call.op \in RoundedOps
          /\ Answerable
          /\ \E k \in StepCounts : ~Fits(k * Grid.num)
    /\ Refuse("ErrOverflow")

Answer == \/ ReturnExact \/ ReturnRounded \/ ReturnStepped \/ ReturnExactOnly
          \/ RefuseInexact \/ RefuseOverflow
Next == Load \/ Request \/ Answer \/ RefuseArguments

Spec == Init /\ [][Next]_vars
=============================================================================
