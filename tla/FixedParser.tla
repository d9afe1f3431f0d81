---------------------------- MODULE FixedParser ----------------------------
(***************************************************************************)
(* ParseFixed64 (fixed64.go): a loop that keeps the int64 magnitude and    *)
(* what its rounding needs of the digits beyond the scale, and falls back  *)
(* to Parse and Fixed64FromDecimal for any other syntax or an overflow.    *)
(*                                                                         *)
(* The steps of Parse are those of module Parser, whose four functions a   *)
(* caller may also call directly.                                          *)
(***************************************************************************)
EXTENDS Parser, Formatting

CONSTANTS
    MaxInt64,       \* 2^63 - 1 in the code, small here
    MaxFixedScale,  \* widest scale of a Fixed64, 18 in the code
    FixedTexts,     \* inputs of ParseFixed64
    FixedScales,    \* scales asked for, invalid ones included
    Modes           \* modes asked for, an invalid one included

F == INSTANCE Fixed64

ASSUME FixedParserAssumption ==
    /\ MaxInt64 \in Nat /\ MaxInt64 >= 9
    /\ MaxFixedScale \in Nat /\ 2 * MaxFixedScale <= MaxScale
    /\ FixedTexts \subseteq Texts /\ FixedScales \subseteq Int

VARIABLES
    scale, mode,  \* the other arguments of ParseFixed64
    stage,        \* "arguments", "loop", "pad", "round", "parse" or "returned", and
                  \* "direct" when a function of Parser is called instead
    loop,         \* the locals of parseFixed64Fast
    fixed, fixedErr

arguments == <<scale, mode>>
fixedVars == <<arguments, stage, loop, fixed, fixedErr>>
allVars   == <<vars, fixedVars>>

Limit == IF loop.negative THEN MaxInt64 + 1 ELSE MaxInt64

FixedInit ==
    /\ Init
    /\ \/ /\ stage = "arguments" /\ fn = "Parse" /\ text \in FixedTexts
          /\ scale \in FixedScales /\ mode \in Modes
       \/ stage = "direct" /\ scale = 0 /\ mode = "TowardZero"
    /\ loop = [pos |-> 1, negative |-> FALSE, magnitude |-> 0, sawDigit |-> FALSE,
               decimalSeen |-> FALSE, fracDigits |-> 0, firstDiscard |-> 0,
               discardSeen |-> FALSE, anyMoreDiscard |-> FALSE, anyDiscardNonzero |-> FALSE]
    /\ fixed = F!Fixed(0, 0) /\ fixedErr = "nil"

FixedReturn(answer) ==
    /\ stage' = "returned" /\ fixed' = answer.val /\ fixedErr' = answer.err
    /\ UNCHANGED <<arguments, loop>>
FixedReject == FixedReturn(F!Fail("ErrInvalidSyntax"))

Continue(s, locals) ==
    /\ stage' = s /\ loop' = locals
    /\ UNCHANGED <<arguments, fixed, fixedErr>>

FallBack == Continue("parse", loop)

NextChar  == text[loop.pos]
InLoop == stage = "loop" /\ loop.pos <= Len(text) /\ UNCHANGED vars

FixedArguments ==
    /\ stage = "arguments" /\ UNCHANGED vars
    /\ IF ~F!ValidFixed64Scale(scale) THEN FixedReturn(F!Fail("ErrInvalidScale"))
       ELSE IF mode \notin RoundingModes THEN FixedReturn(F!Fail("ErrInvalidRoundingMode"))
       ELSE IF text = <<>> \/ text \in {<<"-">>, <<"+">>} THEN FixedReject
       ELSE Continue("loop", [loop EXCEPT !.negative = (text[1] = "-"),
                                          !.pos = IF text[1] \in {"-", "+"} THEN 2 ELSE 1])

FixedPoint ==
    /\ InLoop /\ NextChar = "."
    /\ IF loop.decimalSeen THEN FixedReject
       ELSE Continue("loop", [loop EXCEPT !.pos = @ + 1, !.decimalSeen = TRUE])

FixedOther == InLoop /\ NextChar # "." /\ ~IsDigit(NextChar) /\ FallBack

\* Mutant: the digit itself is left out of the check
AppendDigitUnchecked(magnitude, digit) ==
    IF magnitude > Limit \div 10 THEN {} ELSE {10 * magnitude + digit}

\* appendFixed64Digit: the new magnitude, none on overflow
AppendDigit(magnitude, digit) ==
    IF magnitude > (Limit - digit) \div 10 THEN {} ELSE {10 * magnitude + digit}

\* A digit of the units
FixedDigit ==
    /\ InLoop /\ IsDigit(NextChar)
    /\ loop.decimalSeen => loop.fracDigits < scale
    /\ LET magnitudes == AppendDigit(loop.magnitude, DigitValue[NextChar])
       IN  IF magnitudes = {} THEN FallBack
           ELSE \E m \in magnitudes :
                  Continue("loop", [loop EXCEPT !.pos = @ + 1, !.sawDigit = TRUE, !.magnitude = m,
                                                !.fracDigits = IF loop.decimalSeen THEN @ + 1 ELSE @])

\* A digit beyond the scale
FixedDiscard ==
    /\ InLoop /\ IsDigit(NextChar)
    /\ loop.decimalSeen /\ loop.fracDigits >= scale
    /\ LET digit == DigitValue[NextChar]
       IN  Continue("loop",
             [loop EXCEPT !.pos = @ + 1, !.sawDigit = TRUE, !.fracDigits = @ + 1,
                          !.firstDiscard = IF loop.discardSeen THEN @ ELSE digit,
                          !.discardSeen = TRUE,
                          !.anyMoreDiscard = @ \/ (loop.discardSeen /\ digit # 0),
                          !.anyDiscardNonzero = @ \/ digit # 0])

FixedLoopEnd ==
    /\ stage = "loop" /\ loop.pos > Len(text) /\ UNCHANGED vars
    /\ IF ~loop.sawDigit \/ (loop.decimalSeen /\ loop.fracDigits = 0) THEN FixedReject
       ELSE Continue("pad", loop)

FixedPad ==
    /\ stage = "pad" /\ UNCHANGED vars
    /\ IF loop.fracDigits >= scale THEN Continue("round", loop)
       ELSE LET magnitudes == AppendDigit(loop.magnitude, 0)
            IN  IF magnitudes = {} THEN FallBack
                ELSE \E m \in magnitudes :
                       Continue("pad", [loop EXCEPT !.magnitude = m, !.fracDigits = @ + 1])

\* Mutant: a tie is told by the first digit alone
ShouldIncrementFirstDigit ==
    /\ loop.discardSeen
    /\ \/ mode = "AwayFromZero" /\ loop.anyDiscardNonzero
       \/ mode = "TowardPositive" /\ ~loop.negative /\ loop.anyDiscardNonzero
       \/ mode = "TowardNegative" /\ loop.negative /\ loop.anyDiscardNonzero
       \/ mode \in NearestModes /\ loop.firstDiscard > 5
       \/ /\ loop.firstDiscard = 5
          /\ \/ mode = "ToNearestAway"
             \/ mode = "ToNearestEven" /\ loop.magnitude % 2 = 1

\* shouldIncrementFixed64
ShouldIncrement ==
    /\ loop.discardSeen
    /\ \/ mode = "AwayFromZero" /\ loop.anyDiscardNonzero
       \/ mode = "TowardPositive" /\ ~loop.negative /\ loop.anyDiscardNonzero
       \/ mode = "TowardNegative" /\ loop.negative /\ loop.anyDiscardNonzero
       \/ mode \in NearestModes /\ loop.firstDiscard > 5
       \/ /\ loop.firstDiscard = 5
          /\ \/ mode = "ToNearestAway"
             \/ mode = "ToNearestTowardZero" /\ loop.anyMoreDiscard
             \/ mode = "ToNearestEven" /\ (loop.anyMoreDiscard \/ loop.magnitude % 2 = 1)

\* signedFixed64Units; a magnitude is never above the limit of its sign here
SignedUnits(magnitude) == IF loop.negative THEN -magnitude ELSE magnitude

FixedRound ==
    /\ stage = "round" /\ UNCHANGED vars
    /\ IF ShouldIncrement /\ loop.magnitude = Limit THEN FixedReturn(F!Fail("ErrOverflow"))
       ELSE LET m == IF ShouldIncrement THEN loop.magnitude + 1 ELSE loop.magnitude
            IN  FixedReturn(F!Ok(F!Fixed(SignedUnits(m), scale)))

\* Parse runs
Parsing == stage \in {"parse", "direct"} /\ Next /\ UNCHANGED fixedVars

ConvertParsed ==
    /\ stage = "parse" /\ pc = "done" /\ UNCHANGED vars
    /\ FixedReturn(IF err = "nil" THEN F!Fixed64FromDecimal(result, scale, mode) ELSE F!Fail(err))

FixedNext ==
    \/ FixedArguments \/ FixedPoint \/ FixedOther \/ FixedDigit \/ FixedDiscard
    \/ FixedLoopEnd \/ FixedPad \/ FixedRound \/ Parsing \/ ConvertParsed
FixedSpec == FixedInit /\ [][FixedNext]_allVars

-----------------------------------------------------------------------------
\* The types of Parser, and the magnitude of the loop: it never passes the largest of its sign, so a value
\* returned is an int64: -2^63 included.  (fixed64.go parseFixed64Fast)
FixedTypeOK ==
    /\ TypeOK
    /\ stage \in {"direct", "arguments", "loop", "pad", "round", "parse", "returned"}
    /\ loop.pos \in 1 .. Len(text) + 1
    /\ loop.magnitude \in 0 .. Limit
    /\ fixed.units \in F!Int64 /\ F!ValidFixed64Scale(fixed.scale)

ValidCall == F!ValidFixed64Scale(scale) /\ mode \in RoundingModes
Numerals  == {Reading(text, r) : r \in Readings(text)}

\* n rounded to the scale, as the Decimal computation rounds it
RoundedUnits(n) == Rescale(Decoded(n), scale, mode).val.coef

\* ParseFixed64 reads the number the text writes and rounds it once, to the scale
\* asked for, although the fast path never holds all its digits; it refuses a
\* numeral within Parse's limits only when the rounded number does not fit.
FixedIsMeaning ==
    stage = "returned" /\ ValidCall =>
        IF fixedErr = "nil"
          THEN \E n \in Numerals :
                 /\ fixed.scale = scale
                 /\ IsRounded(fixed.units, Decoded(n).coef * Powers(10)[scale], Powers(10)[Decoded(n).scale], mode)
          ELSE \A n \in Numerals : WithinLimits(n) /\ FitsScale(n) =>
                 fixedErr = "ErrOverflow" /\ RoundedUnits(n) \notin F!Int64

\* The canonical text of a value, read by Parse, is the value again with its scale,
\* leading and trailing zeros and the smallest int64 included; a Fixed64 is written
\* like the same Decimal.  (Decimal.appendText, Fixed64.appendText)
ReadsAs(t, d) == \E r \in Readings(t) : Decoded(Reading(t, r)) = d
TextReadsBack ==
    /\ stage = "direct" /\ fn # "ParseWithOptions" /\ pc = "done" =>
         ReadsAs(DecimalText(result), result)
    /\ stage = "returned" =>
         /\ FixedText(fixed) = DecimalText(F!Decimal(fixed))
         /\ ReadsAs(FixedText(fixed), F!Decimal(fixed))

\* "canonical string did not parse" (fuzz_test.go FuzzParse): what Parse accepts, it
\* accepts again as String writes it.
CanonicalTextParses ==
    stage = "direct" /\ fn = "Parse" /\ pc = "done" /\ err = "nil" =>
        LET t == DecimalText(result) IN \E r \in Readings(t) : WithinLimits(Reading(t, r))
=============================================================================
