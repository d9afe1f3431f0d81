----------------------------- MODULE Receivers -----------------------------
(***************************************************************************)
(* A program that keeps one value of a type and one nullable value of it   *)
(* (null.go), writes them in any encoding, and decodes into them what it   *)
(* has written or what somebody else has, well formed or not.              *)
(***************************************************************************)
EXTENDS Codec

CONSTANTS
    Values,   \* values the program assigns, by type
    Foreign   \* data written by others

Types == {"Decimal", "Fixed64", "Money"}

\* A value the operations of a type make: Fixed64 in its range, and the currency of
\* Money normalized, unless it is the zero Money
IsValue(t, v) ==
    /\ v.amount.coef \in Int /\ v.amount.scale \in 0 .. MaxScale
    /\ v = Money(Dec(v.amount.coef, v.amount.scale), v.currency)
    /\ t = "Fixed64" => v.amount.coef \in F!Int64 /\ F!ValidFixed64Scale(v.amount.scale)
    /\ IF t = "Money" THEN v = NoMoney \/ v.currency \in Currencies ELSE v.currency = NoCurrency

\* Data have the types of their fields, whoever wrote them; a driver hands over Decimals
IsData(x) ==
    /\ x = Datum(x.form, x.kind, x)
    /\ x.form \in {"json", "partial"} => x.kind \in {"number", "money"}
    /\ x.kind = "money" => x.currency \in DOMAIN NormalCode
    /\ IF x.form # "binary"
         THEN /\ x.amount = Dec(x.amount.coef, x.amount.scale)
              /\ x.amount.coef \in Int /\ x.amount.scale \in Nat
              /\ x.form \in {"native", "int"} => x.amount.scale <= MaxScale
         ELSE /\ x.amount.scale \in Nat
              /\ IF x.kind = "Fixed64" THEN x.amount.word \in 0 .. 2 * MaxInt64 + 1
                 ELSE x.amount.bytes \in Seq(0 .. ByteSize - 1)

ASSUME ReceiversAssumption ==
    /\ \A t \in Types : \A v \in Values[t] : IsValue(t, v) /\ (t = "Money" => v.currency \in Currencies)
    /\ \A x \in Foreign : IsData(x)

VARIABLES
    type,      \* the type of the two values
    plain,     \* a Decimal, a Fixed64 or a Money
    nullable,  \* a NullDecimal, a NullFixed64 or a NullMoney
    data,      \* encoded data at hand
    status     \* error of the last call, "nil" for none

receiverVars == <<type, plain, nullable, data, status>>

None   == Datum("nil", "none", NoMoney)
IsNull == [value |-> NoMoney, valid |-> FALSE]

ReceiverInit ==
    /\ type \in Types
    /\ plain = NoMoney /\ nullable = IsNull
    /\ data = None /\ status = "nil"

\* A value the program computes; NewNullDecimal, NewNullFixed64 and NewNullMoney
Assign == /\ plain' \in Values[type]
          /\ nullable' \in {nullable, [value |-> plain', valid |-> TRUE]}
          /\ status' = "nil"
          /\ UNCHANGED <<type, data>>

Receive == /\ data' \in Foreign
           /\ status' = "nil"
           /\ UNCHANGED <<type, plain, nullable>>

-----------------------------------------------------------------------------
(* Writing *)

Forms == [t \in Types |-> {"text", "json", "binary"} \cup
                          (IF t = "Decimal" THEN {"extended", "bson", "document"} ELSE {})]

BinaryOf(v) == Datum("binary", type,
                     [v EXCEPT !.amount = IF type = "Fixed64" THEN AppendFixedBinary(@) ELSE AppendBinary(@)])
Encode(form, v) == IF form = "binary" THEN BinaryOf(v) ELSE Datum(form, Kind(type), v)
EncodeError(v)  == IF type = "Money" THEN ValidCurrency(v) ELSE "nil"

Write(form, v) ==
    /\ status' = EncodeError(v)
    /\ data' = IF status' = "nil" THEN Encode(form, v) ELSE data
    /\ UNCHANGED <<type, plain, nullable>>

WritePlain(form) == form \in Forms[type] /\ Write(form, plain)

\* MarshalText, MarshalJSON and Value of a null value
WriteNull(form) ==
    /\ ~nullable.valid
    /\ data' = Datum(form, "none", NoMoney) /\ status' = "nil"
    /\ UNCHANGED <<type, plain, nullable>>
WriteNullable(form) == nullable.valid /\ Write(form, nullable.value)

-----------------------------------------------------------------------------
(* Reading *)

NullableMethods == {"UnmarshalText", "UnmarshalJSON", "Scan"}
Methods == [t \in Types |->
              NullableMethods \cup {"UnmarshalBinary"}
              \cup (IF t = "Fixed64" THEN {} ELSE {"UnmarshalBinaryWithOptions"})
              \cup (IF t = "Decimal" THEN {"BSONStringValue", "BSONDocument", "ExtendedJSON"} ELSE {})]

DecodeDecimal(m, x) ==
    CASE m = "UnmarshalText"    -> DecimalUnmarshalText(x)
      [] m = "UnmarshalJSON"    -> DecimalUnmarshalJSON(x)
      [] m = "Scan"             -> ScanSource(x)
      [] m = "UnmarshalBinary"  -> DecimalBinary(x, DefaultLimits)
      [] m = "UnmarshalBinaryWithOptions" -> DecimalBinary(x, Unlimited)
      [] m = "BSONStringValue"  -> UnmarshalBSONStringValue(x)
      [] m = "BSONDocument"     -> UnmarshalBSONDocument(x)
      [] m = "ExtendedJSON"     -> UnmarshalExtendedJSON(x)
DecodeFixed64(m, x) ==
    CASE m = "UnmarshalText"    -> FixedUnmarshalText(x)
      [] m = "UnmarshalJSON"    -> FixedUnmarshalJSON(x)
      [] m = "Scan"             -> FixedScan(x)
      [] m = "UnmarshalBinary"  -> FixedBinary(x)
DecodeMoney(m, x) ==
    CASE m = "UnmarshalText"    -> ParseMoneyText(x)
      [] m = "UnmarshalJSON"    -> MoneyUnmarshalJSON(x)
      [] m = "Scan"             -> ScanMoneySource(x)
      [] m = "UnmarshalBinary"  -> MoneyBinary(x, DefaultLimits)
      [] m = "UnmarshalBinaryWithOptions" -> MoneyBinary(x, Unlimited)

Decode(m, x) ==
    CASE type = "Decimal" -> Attach(DecodeDecimal(m, x), NoCurrency)
      [] type = "Fixed64" -> Attach(DecodeFixed64(m, x), NoCurrency)
      [] type = "Money"   -> DecodeMoney(m, x)

\* Only a driver hands over a Go value
Readable(m) == m = "Scan" \/ data.form \notin {"native", "int", "float"}

ReadPlain(m) ==
    /\ m \in Methods[type] /\ Readable(m)
    /\ LET answer == Decode(m, data)
       IN  /\ plain' = IF answer.err = "nil" THEN answer.val ELSE plain
           /\ status' = answer.err
    /\ UNCHANGED <<type, nullable, data>>

\* Nullable values look for null first, and UnmarshalJSON goes through json.Unmarshal,
\* which refuses what is not JSON before it calls the UnmarshalJSON of the value
MeansNull(m) == data.form = IF m = "Scan" THEN "nil" ELSE "null"
NullableAnswer(m) ==
    IF m = "UnmarshalJSON" /\ ~IsJSON(data) THEN Refused("SyntaxError") ELSE Decode(m, data)

\* Mutant: a failure leaves the value that was there
StoreKept(answer) == IF answer.err = "nil" THEN [value |-> answer.val, valid |-> TRUE] ELSE nullable

Store(answer) == IF answer.err = "nil" THEN [value |-> answer.val, valid |-> TRUE] ELSE IsNull

ReadNullable(m) ==
    /\ Readable(m)
    /\ IF MeansNull(m) THEN nullable' = IsNull /\ status' = "nil"
       ELSE nullable' = Store(NullableAnswer(m)) /\ status' = NullableAnswer(m).err
    /\ UNCHANGED <<type, plain, data>>

ReadNullDecimal(m) == type = "Decimal" /\ ReadNullable(m)
ReadNullFixed64(m) == type = "Fixed64" /\ ReadNullable(m)
ReadNullMoney(m)   == type = "Money" /\ ReadNullable(m)

ReceiverNext ==
    \/ Assign \/ Receive
    \/ \E form \in {"text", "json", "binary", "extended", "bson", "document"} : WritePlain(form)
    \/ \E form \in {"nil", "null"} : WriteNull(form)
    \/ \E form \in {"text", "json"} : WriteNullable(form)
    \/ \E m \in UNION {Methods[t] : t \in Types} : ReadPlain(m)
    \/ \E m \in NullableMethods : ReadNullDecimal(m) \/ ReadNullFixed64(m) \/ ReadNullMoney(m)
ReceiverSpec == ReceiverInit /\ [][ReceiverNext]_receiverVars

-----------------------------------------------------------------------------
\* A value of a type is one the type's own operations could have made, whatever was
\* decoded into it: Fixed64 in its range, the currency of Money normalized, and a
\* null value zero.  (Unmarshal and Scan of all types)
ReceiverTypeOK ==
    /\ type \in Types /\ IsValue(type, plain) /\ IsValue(type, nullable.value) /\ IsData(data)
    /\ IF nullable.valid THEN EncodeError(nullable.value) = "nil" ELSE nullable.value = NoMoney

\* The same data into both: the nullable value is valid exactly when there is a value
\* the plain one would hold, and then holds it; data of no value leave nothing behind,
\* where the plain one keeps what it had.  Only text that is no JSON, to which a plain
\* Decimal is lenient, is read differently.  (null.go; Unmarshal and Scan of all types)
SameAsPlain(m) ==
    LET answer == Decode(m, data)
    IN  IF nullable'.valid
          THEN answer.err = "nil" /\ nullable'.value = answer.val
          ELSE /\ nullable'.value = NoMoney
               /\ answer.err = "nil" => status' = "SyntaxError" /\ data.form = "loose"
               /\ status' = "nil" => data.form \in {"null", "nil"}
NullableMirrorsPlain ==
    [][\A m \in NullableMethods : ReadNullable(m) => SameAsPlain(m)]_receiverVars

\* Beyond the limits of a method: a number of digits, of bytes, or a scale
BeyondLimits(m, d) ==
    IF m = "UnmarshalBinary"
      THEN type # "Fixed64" /\ (Magnitude(d.coef) >= Powers(ByteSize)[MaxCoefBytes] \/ d.scale > MaxParseScale)
      ELSE /\ m # "UnmarshalBinaryWithOptions"
           /\ Magnitude(d.coef) >= Powers(10)[MaxDigits] \/ d.scale >= MaxDigits \/ d.scale > MaxParseScale

ReadersOf ==
    [text     |-> {"UnmarshalText", "Scan"} \cup (IF type = "Money" THEN {} ELSE {"UnmarshalJSON"}),
     json     |-> {"UnmarshalJSON"},
     binary   |-> Methods[type] \cap {"UnmarshalBinary", "UnmarshalBinaryWithOptions"},
     extended |-> {"ExtendedJSON"}, bson |-> {"BSONStringValue"}, document |-> {"BSONDocument"}]

\* Whatever the program holds, decoded from foreign data included, it can write in
\* every form and read back unchanged, its scale included.  What it cannot read for
\* its size is reported as such, and the binary forms read it without limits.
\* (binary.go, bson.go, json.go, extendedjson.go)
WrittenReadsBack ==
    (type = "Money" /\ plain = NoMoney) \/
    /\ EncodeError(plain) = "nil"
    /\ \A form \in Forms[type] : \A m \in ReadersOf[form] :
         LET answer == Decode(m, Encode(form, plain))
         IN  IF BeyondLimits(m, plain.amount)
               THEN answer.err = "ErrLimitExceeded"
               ELSE answer.err = "nil" /\ answer.val = plain
=============================================================================
