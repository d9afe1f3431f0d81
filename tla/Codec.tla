------------------------------- MODULE Codec -------------------------------
(***************************************************************************)
(* The encodings of Decimal, Fixed64 and Money: text and SQL values, JSON  *)
(* (json.go, extendedjson.go), the binary formats (binary.go) and BSON     *)
(* (bson.go), with the limits of their decoders.                           *)
(*                                                                         *)
(* A value is a Money, a Decimal and a Fixed64 being amounts without a     *)
(* currency.  A text is told by its form and by the amount and the code    *)
(* written in it: what Parse makes of its characters is modules Parser and *)
(* FixedParser, whose TextReadsBack shows that it is that amount.          *)
(***************************************************************************)
EXTENDS Moneys, Formatting

CONSTANTS
    MaxFixedScale,  \* widest scale of a Fixed64, 18 in the code
    MaxDigits,      \* DefaultMaxParseDigits, 4096 in the code
    MaxParseScale,  \* DefaultMaxParseScale, 4096 in the code
    MaxBSONText,    \* DefaultMaxBSONDecimalTextBytes
    MaxCoefBytes,   \* DefaultMaxBinaryCoefficientBytes, 4096 in the code
    ByteSize        \* the values of a byte, 256 in the code

F == INSTANCE Fixed64

\* No limit is in the way of a Fixed64 or of a text that Parse takes: a sign and a point
\* come on top of the digits
ASSUME CodecAssumption ==
    /\ MaxFixedScale \in Nat /\ MaxDigits \in Nat /\ MaxCoefBytes \in Nat \ {0} /\ ByteSize \in Nat \ {0, 1}
    /\ MaxParseScale \in 1 .. MaxScale /\ MaxBSONText \in Nat /\ MaxBSONText >= MaxDigits + 2
    /\ Powers(10)[MaxDigits] > MaxInt64 + 1 /\ MaxDigits > MaxFixedScale /\ MaxParseScale >= MaxFixedScale

-----------------------------------------------------------------------------
(* Encoded data.  A numeral is of kind "number", a code and an amount of   *)
(* kind "money"; a Go value and a binary payload name the Go type.         *)
(*   text, loose          canonical text, text that Parse takes but not JSON *)
(*   json, partial        a JSON string or object, an object without amount  *)
(*   extended             {"$numberDecimal": "..."}                          *)
(*   binary               the versioned binary format of the type            *)
(*   bson, document       a BSON string, a document with the field asked for *)
(*   null, nil            the text null, SQL NULL                            *)
(*   native, int, float   Go values a driver hands over                      *)
(*   garbage              any other bytes                                    *)

Datum(form, kind, m) == [form |-> form, kind |-> kind, amount |-> m.amount, currency |-> m.currency]
Kind(type) == IF type = "Money" THEN "money" ELSE "number"

IsText(x, kind) == x.form \in {"text", "loose"} /\ x.kind = kind
IsJSON(x) == x.form \in {"json", "partial", "extended", "null"} \/ (x.form = "text" /\ x.kind = "number")

\* What Parse returns for the text of a decimal
Digits(d) == LET n == Len(DigitsOf[Magnitude(d.coef)]) IN IF n > d.scale THEN n ELSE d.scale + 1
ParseText(d) == IF Digits(d) > MaxDigits \/ d.scale > MaxParseScale THEN Fail("ErrLimitExceeded") ELSE Ok(d)

-----------------------------------------------------------------------------
(* Binary formats: a sign byte, the magnitude in bytes, most significant   *)
(* first, and the scale; for Fixed64 the units as an unsigned word.        *)

Bytes[n \in Nat] == IF n = 0 THEN <<>> ELSE Bytes[n \div ByteSize] \o <<n % ByteSize>>
SetBytes(bytes) ==
    LET read[k \in 0 .. Len(bytes)] == IF k = 0 THEN 0 ELSE read[k - 1] * ByteSize + bytes[k]
    IN  read[Len(bytes)]

\* Mutant: the sign is not written
AppendBinaryUnsigned(d) == [sign |-> 0, bytes |-> Bytes[Magnitude(d.coef)], scale |-> d.scale]

AppendBinary(d) ==
    [sign |-> IF d.coef < 0 THEN 1 ELSE 0, bytes |-> Bytes[Magnitude(d.coef)], scale |-> d.scale]
AppendFixedBinary(d) == [word |-> d.coef % (2 * (MaxInt64 + 1)), scale |-> d.scale]

Unlimited     == [bytes |-> 0, scale |-> 0]
DefaultLimits == [bytes |-> MaxCoefBytes, scale |-> MaxParseScale]

DecimalFromBinary(b, limits) ==
    IF b.sign > 1 THEN Fail("ErrInvalidSyntax")
    ELSE IF limits.bytes > 0 /\ Len(b.bytes) > limits.bytes THEN Fail("ErrLimitExceeded")
    ELSE IF limits.scale > 0 /\ b.scale > limits.scale THEN Fail("ErrLimitExceeded")
    ELSE IF b.scale > MaxScale THEN Fail("ErrInvalidScale")
    ELSE Ok(Dec(IF b.sign = 1 THEN -SetBytes(b.bytes) ELSE SetBytes(b.bytes), b.scale))

DecimalBinary(x, limits) ==
    IF x.form = "binary" /\ x.kind = "Decimal" THEN DecimalFromBinary(x.amount, limits)
    ELSE Fail("ErrInvalidSyntax")

FixedBinary(x) ==
    IF ~(x.form = "binary" /\ x.kind = "Fixed64") THEN Fail("ErrInvalidSyntax")
    ELSE IF ~F!ValidFixed64Scale(x.amount.scale) THEN Fail("ErrInvalidScale")
    ELSE Ok(Dec(F!Wrap64(x.amount.word), x.amount.scale))

\* Mutant: the code in the payload is taken as it is
MoneyBinaryUnchecked(x, limits) ==
    IF x.form = "binary" /\ x.kind = "Money" THEN Attach(DecimalFromBinary(x.amount, limits), x.currency)
    ELSE Attach(Fail("ErrInvalidSyntax"), NoCurrency)

MoneyBinary(x, limits) ==
    IF ~(x.form = "binary" /\ x.kind = "Money") THEN Attach(Fail("ErrInvalidSyntax"), NoCurrency)
    ELSE IF x.currency \notin Currencies THEN Attach(Fail("ErrInvalidCurrency"), NoCurrency)
    ELSE Attach(DecimalFromBinary(x.amount, limits), x.currency)

-----------------------------------------------------------------------------
(* Decimal *)

DecimalUnmarshalText(x) == IF IsText(x, "number") THEN ParseText(x.amount) ELSE Fail("ErrInvalidSyntax")
DecimalUnmarshalJSON(x) ==
    IF x.form = "null" THEN Fail("ErrNilValue")
    ELSE IF x.form = "json" /\ x.kind = "number" THEN ParseText(x.amount)
    ELSE DecimalUnmarshalText(x)

ScanSource(x) ==
    CASE x.form = "nil"    -> Fail("ErrNilValue")
      [] x.form = "native" -> IF x.kind = "Decimal" THEN Ok(x.amount) ELSE Fail("ErrInvalidSource")
      [] x.form = "int"    -> Ok(x.amount)
      [] x.form = "float"  -> Fail("ErrInvalidSource")
      [] OTHER             -> DecimalUnmarshalText(x)

\* The length of the text, for a limit checked before it is parsed
TextLength(d) == Len(Minus(d.coef)) + Digits(d) + (IF d.scale > 0 THEN 1 ELSE 0)
UnmarshalBSONStringValue(x) ==
    IF x.form # "bson" THEN Fail("ErrInvalidSyntax")
    ELSE IF TextLength(x.amount) > MaxBSONText THEN Fail("ErrLimitExceeded")
    ELSE ParseText(x.amount)
UnmarshalBSONDocument(x) ==
    IF x.form = "document" THEN UnmarshalBSONStringValue([x EXCEPT !.form = "bson"])
    ELSE Fail("ErrInvalidSyntax")

UnmarshalExtendedJSON(x) ==
    IF x.form = "extended" THEN ParseText(x.amount) ELSE Fail("ErrInvalidSyntax")

-----------------------------------------------------------------------------
(* Fixed64: what Decimal reads, at its own scale *)

ToFixed(answer) ==
    Then(answer, LAMBDA d : LET f == F!Fixed64FromDecimal(d, d.scale, "TowardZero")
                            IN  [val |-> F!Decimal(f.val), err |-> f.err])
FixedUnmarshalText(x) == ToFixed(DecimalUnmarshalText(x))
FixedUnmarshalJSON(x) == ToFixed(DecimalUnmarshalJSON(x))
FixedScan(x)          == ToFixed(ScanSource(x))

-----------------------------------------------------------------------------
(* Money: a Decimal, then NewMoney *)

Priced(answer, input) ==
    IF answer.err = "nil" THEN NewMoney(answer.val, input) ELSE Attach(answer, NoCurrency)
Refused(err) == Attach(Fail(err), NoCurrency)

ParseMoneyText(x) ==
    IF IsText(x, "money") THEN Priced(ParseText(x.amount), x.currency) ELSE Refused("ErrInvalidSyntax")

\* null and an object with other fields leave the payload empty
MoneyUnmarshalJSON(x) ==
    IF ~IsJSON(x) THEN Refused("SyntaxError")
    ELSE IF x.kind = "number" /\ x.form # "extended" THEN Refused("UnmarshalTypeError")
    ELSE IF x.form = "json" THEN Priced(ParseText(x.amount), x.currency)
    ELSE IF x.form = "partial" THEN Priced(Ok(ZeroValue), x.currency)
    ELSE Refused("ErrInvalidCurrency")

ScanMoneySource(x) ==
    IF x.form = "nil" THEN Refused("ErrNilValue")
    ELSE IF x.form = "native" /\ x.kind = "Money" THEN Unary(Money(x.amount, x.currency), Ok(x.amount))
    ELSE IF x.form \in {"native", "int", "float"} THEN Refused("ErrInvalidSource")
    ELSE ParseMoneyText(x)
=============================================================================
