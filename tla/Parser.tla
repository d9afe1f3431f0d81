------------------------------- MODULE Parser -------------------------------
(***************************************************************************)
(* Parse, ParseBytes, ParseFlexible and ParseWithOptions (parse.go): the   *)
(* fast path for short ASCII decimals, and the full parser it gives way    *)
(* to, one character at a time.                                            *)
(*                                                                         *)
(* A text is a sequence of characters; "minus" is the Unicode minus sign,  *)
(* and "nan" and "inf" stand for the letters of those words.  The digits a *)
(* strings.Builder collects are kept as their value and their number.      *)
(***************************************************************************)
EXTENDS Decimals, Sequences

CONSTANTS
    Texts,          \* inputs
    OptionSets,     \* options of ParseWithOptions
    DefaultOptions, \* DefaultParseOptions
    FastDigits      \* digits the fast path takes, 18 in the code

DigitValue == [c \in {"0", "1", "2", "3", "4", "5", "6", "7", "8", "9"} |->
    CASE c = "0" -> 0 [] c = "1" -> 1 [] c = "2" -> 2 [] c = "3" -> 3 [] c = "4" -> 4
      [] c = "5" -> 5 [] c = "6" -> 6 [] c = "7" -> 7 [] c = "8" -> 8 [] c = "9" -> 9]
IsDigit(c) == c \in DOMAIN DigitValue

\* A limit of 0 is none; a separator "none" is the rune 0
OptionsType ==
    [trimSpace : BOOLEAN, unicodeMinus : BOOLEAN, plus : BOOLEAN, thousands : BOOLEAN,
     decimalSeparator : STRING, thousandsSeparator : STRING,
     maxDigits : Nat, maxScale : Nat, maxExponentDigits : Nat]

\* Options of ParseFlexible
FlexibleOptions ==
    [DefaultOptions EXCEPT !.trimSpace = TRUE, !.thousands = TRUE, !.thousandsSeparator = ","]

\* Characters that have a meaning of their own; a parser at its end sees "end"
Reserved == DOMAIN DigitValue \cup {"-", "+", "minus", "e", "E", "end"}

\* The separators a caller chooses are none of these.  The defaults are those the fast
\* path has built in, and what it takes is within the default limits
ASSUME ParserAssumption ==
    /\ Texts \subseteq Seq(STRING)
    /\ OptionSets \cup {DefaultOptions, FlexibleOptions} \subseteq OptionsType
    /\ \A o \in OptionSets : {o.decimalSeparator, o.thousandsSeparator} \cap Reserved = {}
    /\ DefaultOptions.decimalSeparator = "." /\ DefaultOptions.thousandsSeparator = "none"
    /\ DefaultOptions.plus /\ DefaultOptions.unicodeMinus
    /\ ~DefaultOptions.thousands /\ ~DefaultOptions.trimSpace
    /\ FastDigits \in Nat
    /\ FastDigits <= DefaultOptions.maxDigits /\ FastDigits <= DefaultOptions.maxScale
    /\ FastDigits <= MaxScale

VARIABLES
    fn, opts,   \* the function called and its options
    text,       \* its argument, trimmed once TrimSpace has been
    pc,         \* "bytes", "bytesLoop", "simple", "simpleLoop", "options", "sign",
                \* "integer", "fraction", "exponent", "expDigits", "finish" or "done"
    pos,        \* index of the next character, from 1
    negative, coef,
    digitCount, \* digits so far
    fracDigits, \* those of them after the separator
    seenPoint,  \* of the fast path
    groupLen, groups,
    expNegative, exp, expDigits,
    result, err

input   == <<fn, opts>>
number  == <<negative, coef, digitCount, fracDigits, seenPoint>>
grouped == <<groupLen, groups>>
expo    == <<expNegative, exp, expDigits>>
vars    == <<input, text, pc, pos, number, grouped, expo, result, err>>

Init ==
    /\ text \in Texts
    /\ \/ fn = "Parse" /\ opts = DefaultOptions /\ pc = "simple"
       \/ fn = "ParseBytes" /\ opts = DefaultOptions /\ pc = "bytes"
       \/ fn = "ParseFlexible" /\ opts = FlexibleOptions /\ pc = "options"
       \/ fn = "ParseWithOptions" /\ opts \in OptionSets /\ pc = "options"
    /\ pos = 1 /\ negative = FALSE /\ coef = 0
    /\ digitCount = 0 /\ fracDigits = 0 /\ seenPoint = FALSE
    /\ groupLen = 0 /\ groups = <<>>
    /\ expNegative = FALSE /\ exp = 0 /\ expDigits = 0
    /\ result = ZeroValue /\ err = "nil"

Return(answer) ==
    /\ pc' = "done" /\ result' = answer.val /\ err' = answer.err
    /\ UNCHANGED <<input, text, pos, number, grouped, expo>>
Reject == Return(Fail("ErrInvalidSyntax"))

AtEnd == pos > Len(text)
Peek  == IF AtEnd THEN "end" ELSE text[pos]

Signed(n) == IF negative THEN -n ELSE n

\* The next digit of the coefficient
TakeDigit ==
    /\ pos' = pos + 1
    /\ coef' = 10 * coef + DigitValue[Peek]
    /\ digitCount' = digitCount + 1

-----------------------------------------------------------------------------
(* parseSimpleASCIIBytes and parseSimpleASCIIString *)

InSimpleLoop == pc \in {"bytesLoop", "simpleLoop"}

SimpleStart ==
    /\ pc \in {"bytes", "simple"}
    /\ LET sign == Peek \in {"-", "+"}
       IN  IF text = <<>> \/ (sign /\ Len(text) = 1) THEN Reject
           ELSE /\ pc' = IF pc = "bytes" THEN "bytesLoop" ELSE "simpleLoop"
                /\ negative' = (Peek = "-")
                /\ pos' = IF sign THEN 2 ELSE 1
                /\ UNCHANGED <<input, text, coef, digitCount, fracDigits, seenPoint, grouped,
                               expo, result, err>>

\* ParseBytes starts over with Parse, and Parse with the full parser
GiveUp ==
    /\ pc' = IF pc = "bytesLoop" THEN "simple" ELSE "options"
    /\ pos' = 1 /\ negative' = FALSE /\ coef' = 0
    /\ digitCount' = 0 /\ fracDigits' = 0 /\ seenPoint' = FALSE
    /\ UNCHANGED <<input, text, grouped, expo, result, err>>

SimpleDigit ==
    /\ InSimpleLoop /\ IsDigit(Peek)
    /\ IF digitCount + 1 > FastDigits THEN GiveUp
       ELSE /\ TakeDigit
            /\ fracDigits' = IF seenPoint THEN fracDigits + 1 ELSE fracDigits
            /\ UNCHANGED <<input, text, pc, negative, seenPoint, grouped, expo, result, err>>

SimplePoint ==
    /\ InSimpleLoop /\ Peek = "."
    /\ IF seenPoint THEN Reject
       ELSE /\ seenPoint' = TRUE /\ pos' = pos + 1
            /\ UNCHANGED <<input, text, pc, negative, coef, digitCount, fracDigits, grouped,
                           expo, result, err>>

\* Mutant: what the fast path does not know is a syntax error
SimpleOtherRejected ==
    InSimpleLoop /\ ~AtEnd /\ ~IsDigit(Peek) /\ Peek # "." /\ Reject

SimpleOther ==
    InSimpleLoop /\ ~AtEnd /\ ~IsDigit(Peek) /\ Peek # "." /\ GiveUp

SimpleEnd ==
    /\ InSimpleLoop /\ AtEnd
    /\ IF digitCount = 0 \/ (seenPoint /\ fracDigits = 0) THEN Reject
       ELSE Return(Ok(Dec(Signed(coef), fracDigits)))

-----------------------------------------------------------------------------
(* ParseWithOptions *)

DecimalSeparator == IF opts.decimalSeparator = "none" THEN "." ELSE opts.decimalSeparator

\* strings.TrimSpace
Trimmed(t) ==
    LET inner == {k \in DOMAIN t : t[k] # " "}
    IN  IF inner = {} THEN <<>> ELSE SubSeq(t, Min(inner), Max(inner))

NonFinite == {<<"nan">>, <<"inf">>, <<"+", "inf">>, <<"-", "inf">>}

CheckOptions ==
    /\ pc = "options"
    /\ LET s == IF opts.trimSpace THEN Trimmed(text) ELSE text
       IN  IF opts.thousandsSeparator = DecimalSeparator \/ s = <<>> THEN Reject
           ELSE IF s \in NonFinite THEN Return(Fail("ErrNonFiniteFloat"))
           ELSE /\ text' = s /\ pc' = "sign"
                /\ UNCHANGED <<input, pos, number, grouped, expo, result, err>>

ParseSign ==
    /\ pc = "sign"
    /\ LET minus == Peek = "-" \/ (opts.unicodeMinus /\ Peek = "minus")
       IN  IF Peek = "+" /\ ~opts.plus THEN Reject
           ELSE /\ pc' = "integer"
                /\ negative' = minus
                /\ pos' = IF minus \/ Peek = "+" THEN 2 ELSE 1
                /\ UNCHANGED <<input, text, coef, digitCount, fracDigits, seenPoint, grouped,
                               expo, result, err>>

\* writeDigit
TooManyDigits == opts.maxDigits > 0 /\ digitCount + 1 > opts.maxDigits

IsSeparator(c) ==
    opts.thousands /\ opts.thousandsSeparator # "none" /\ c = opts.thousandsSeparator

IntegerDigit ==
    /\ pc = "integer" /\ IsDigit(Peek)
    /\ IF TooManyDigits THEN Return(Fail("ErrLimitExceeded"))
       ELSE /\ TakeDigit
            /\ groupLen' = groupLen + 1
            /\ UNCHANGED <<input, text, pc, negative, fracDigits, seenPoint, groups, expo, result, err>>

IntegerSeparator ==
    /\ pc = "integer" /\ IsSeparator(Peek)
    /\ IF groupLen = 0 THEN Reject
       ELSE /\ groups' = Append(groups, groupLen) /\ groupLen' = 0 /\ pos' = pos + 1
            /\ UNCHANGED <<input, text, pc, number, expo, result, err>>

\* The integer part ends, with its last group, and the separator may follow
IntegerEnd ==
    /\ pc = "integer" /\ ~IsDigit(Peek) /\ ~IsSeparator(Peek)
    /\ IF groups # <<>> /\ groupLen = 0 THEN Reject
       ELSE /\ groups' = IF groups = <<>> THEN groups ELSE Append(groups, groupLen)
            /\ IF Peek = DecimalSeparator
                 THEN pc' = "fraction" /\ pos' = pos + 1
                 ELSE pc' = "exponent" /\ UNCHANGED pos
            /\ UNCHANGED <<input, text, number, groupLen, expo, result, err>>

FractionDigit ==
    /\ pc = "fraction" /\ IsDigit(Peek)
    /\ IF TooManyDigits THEN Return(Fail("ErrLimitExceeded"))
       ELSE /\ TakeDigit
            /\ fracDigits' = fracDigits + 1
            /\ UNCHANGED <<input, text, pc, negative, seenPoint, grouped, expo, result, err>>

FractionEnd ==
    /\ pc = "fraction" /\ ~IsDigit(Peek)
    /\ IF fracDigits = 0 THEN Reject
       ELSE pc' = "exponent" /\ UNCHANGED <<input, text, pos, number, grouped, expo, result, err>>

\* Mutant: the first group may be longer than three
ValidThousandsGroupsTail(gs) ==
    Len(gs) >= 2 /\ \A k \in 2 .. Len(gs) : gs[k] = 3

ValidThousandsGroups(gs) ==
    /\ Len(gs) >= 2
    /\ gs[1] \in 1 .. 3
    /\ \A k \in 2 .. Len(gs) : gs[k] = 3

\* The checks of what has been read, then the exponent and its sign if there is one
ParseExponent ==
    /\ pc = "exponent"
    /\ IF digitCount = 0 \/ (groups # <<>> /\ ~ValidThousandsGroups(groups)) THEN Reject
       ELSE IF Peek \notin {"e", "E"}
         THEN pc' = "finish" /\ UNCHANGED <<input, text, pos, number, grouped, expo, result, err>>
         ELSE LET sign == IF pos < Len(text) THEN text[pos + 1] ELSE "end"
              IN  /\ pc' = "expDigits"
                  /\ expNegative' = (sign = "-")
                  /\ pos' = IF sign \in {"-", "+"} THEN pos + 2 ELSE pos + 1
                  /\ UNCHANGED <<input, text, number, grouped, exp, expDigits, result, err>>

ExponentDigit ==
    /\ pc = "expDigits" /\ IsDigit(Peek)
    /\ IF opts.maxExponentDigits > 0 /\ expDigits + 1 > opts.maxExponentDigits
         THEN Return(Fail("ErrLimitExceeded"))
         ELSE /\ pos' = pos + 1
              /\ exp' = 10 * exp + DigitValue[Peek]
              /\ expDigits' = expDigits + 1
              /\ UNCHANGED <<input, text, pc, number, grouped, expNegative, result, err>>

ExponentEnd ==
    /\ pc = "expDigits" /\ ~IsDigit(Peek)
    /\ IF expDigits = 0 THEN Reject
       ELSE IF exp > MaxScale THEN Return(Fail("ErrInvalidScale"))
       ELSE pc' = "finish" /\ UNCHANGED <<input, text, pos, number, grouped, expo, result, err>>

Finish ==
    /\ pc = "finish"
    /\ LET scale    == fracDigits - (IF expNegative THEN -exp ELSE exp)
           expanded == digitCount + (IF scale < 0 THEN -scale ELSE 0)
       IN  IF ~AtEnd THEN Reject
           ELSE IF \/ opts.maxDigits > 0 /\ expanded > opts.maxDigits
                   \/ opts.maxScale > 0 /\ scale > opts.maxScale THEN Return(Fail("ErrLimitExceeded"))
           ELSE IF scale > MaxScale THEN Return(Fail("ErrInvalidScale"))
           ELSE IF scale < 0 THEN Return(Ok(Dec(Signed(coef) * Pow10[-scale], 0)))
           ELSE Return(Ok(Dec(Signed(coef), scale)))

Next ==
    \/ SimpleStart \/ SimpleDigit \/ SimplePoint \/ SimpleOther \/ SimpleEnd
    \/ CheckOptions \/ ParseSign \/ IntegerDigit \/ IntegerSeparator \/ IntegerEnd
    \/ FractionDigit \/ FractionEnd \/ ParseExponent \/ ExponentDigit \/ ExponentEnd \/ Finish
Spec == Init /\ [][Next]_vars

-----------------------------------------------------------------------------
\* A parsed decimal never has a scale the representation does not allow, whatever
\* the exponent.  (parse.go)
TypeOK ==
    /\ text \in Seq(STRING) /\ opts \in OptionsType
    /\ pos \in 1 .. Len(text) + 1
    /\ digitCount \in Nat /\ fracDigits \in 0 .. digitCount
    /\ coef \in 0 .. Powers(10)[digitCount] - 1
    /\ result.scale \in 0 .. MaxScale

-----------------------------------------------------------------------------
(* The reference: what a numeral is, and which number it writes.  a, b and c *)
(* are the ends of the sign, of the integer part and of the fraction of t.   *)

Digits(t, from, to) == {k \in from .. to : IsDigit(t[k])}

\* The separators of the integer part are where groups of three end, or nowhere
WellGrouped(t, from, to) ==
    \/ Digits(t, from, to) = from .. to
    \/ /\ to - from >= 4 /\ IsDigit(t[from])
       /\ \A k \in from .. to : IF (to - k) % 4 = 3 THEN IsSeparator(t[k]) ELSE IsDigit(t[k])

IsNumeral(t, a, b, c) ==
    /\ \/ a = 0
       \/ a = 1 /\ (t[1] = "-" \/ (opts.plus /\ t[1] = "+") \/ (opts.unicodeMinus /\ t[1] = "minus"))
    /\ WellGrouped(t, a + 1, b)
    /\ c = b \/ (c >= b + 2 /\ t[b + 1] = DecimalSeparator /\ Digits(t, b + 2, c) = b + 2 .. c)
    /\ c > a

HasExponent(t, c, e) ==
    \/ c = Len(t) /\ e = c
    \/ /\ e \in {c + 1, c + 2} /\ e < Len(t) /\ t[c + 1] \in {"e", "E"}
       /\ e = c + 2 => t[c + 2] \in {"-", "+"}
       /\ Digits(t, e + 1, Len(t)) = e + 1 .. Len(t)

\* The number the digits from .. to write, separators left out
Number(t, from, to) ==
    LET upto[k \in Nat] ==
          IF k < from THEN 0
          ELSE IF IsDigit(t[k]) THEN 10 * upto[k - 1] + DigitValue[t[k]] ELSE upto[k - 1]
    IN  upto[to]

Readings(t) ==
    {r \in [a : 0 .. 1, b : 0 .. Len(t), c : 0 .. Len(t), e : 0 .. Len(t)] :
       /\ r.a <= r.b /\ r.b <= r.c /\ r.c <= r.e
       /\ IsNumeral(t, r.a, r.b, r.c) /\ HasExponent(t, r.c, r.e)}

Reading(t, r) ==
    LET magnitude == Number(t, r.a + 1, r.c)
        power     == Number(t, r.e + 1, Len(t))
        frac      == IF r.c = r.b THEN 0 ELSE r.c - r.b - 1
    IN  [coef      |-> IF r.a = 1 /\ t[1] # "+" THEN -magnitude ELSE magnitude,
         digits    |-> Cardinality(Digits(t, r.a + 1, r.c)),
         power     |-> power,
         expDigits |-> Len(t) - r.e,
         scale     |-> frac - (IF r.e > r.c /\ t[r.e] = "-" THEN -power ELSE power)]

WithinLimits(n) ==
    /\ opts.maxDigits > 0 => n.digits <= opts.maxDigits /\ n.digits - n.scale <= opts.maxDigits
    /\ opts.maxScale > 0 => n.scale <= opts.maxScale
    /\ opts.maxExponentDigits > 0 => n.expDigits <= opts.maxExponentDigits

FitsScale(n) == n.power <= MaxScale /\ n.scale <= MaxScale

Decoded(n) == IF n.scale < 0 THEN Dec(n.coef * Pow10[-n.scale], 0) ELSE Dec(n.coef, n.scale)

SeparatorsDiffer == opts.thousandsSeparator # DecimalSeparator

\* The numbers the text writes
Written == IF SeparatorsDiffer THEN {Reading(text, r) : r \in Readings(text)} ELSE {}

\* A text is accepted exactly when it is a numeral within the limits, and stands for
\* the number and the scale the numeral writes, whichever parser read it: the fast
\* path of Parse takes nothing the full parser would refuse.  (parse.go, DESIGN.md)
ParseIsMeaning ==
    pc = "done" =>
        IF err = "nil"
          THEN \E n \in Written : WithinLimits(n) /\ FitsScale(n) /\ result = Decoded(n)
          ELSE ~\E n \in Written : WithinLimits(n) /\ FitsScale(n)

\* An error says what is wrong: a numeral is never reported as a syntax error, and
\* a numeral within the limits is never reported as beyond them.
ErrorsAreHonest ==
    pc = "done" =>
        /\ err = "ErrInvalidSyntax" => Written = {}
        /\ err = "ErrLimitExceeded" => ~\E n \in Written : WithinLimits(n)
        /\ err = "ErrInvalidScale"  => ~\E n \in Written : FitsScale(n)
=============================================================================
