---------------------------- MODULE ParserProofs ----------------------------
(***************************************************************************)
(* The parsers, for every text, all options a caller may choose, and every *)
(* width of the scale and of the integers: a text is accepted exactly when *)
(* it is a numeral within the limits, whichever parser reads it, and       *)
(* stands for the number it writes; ParseFixed64 rounds that number once;  *)
(* and canonical texts are read back.                                      *)
(*                                                                         *)
(* ParserInv says, for each place of the parsers, what they have read of   *)
(* the text and what they know of it; FixedInv says the same of the loop   *)
(* of ParseFixed64, which keeps only the digits of its units.              *)
(***************************************************************************)
EXTENDS FixedParser, RoundingProofs, FiniteSetTheorems, SequenceTheorems

-----------------------------------------------------------------------------
(* Digits, and the number that some of the characters of a text write *)

\* A digit stands for a number below ten.
LEMMA DigitValues == \A c : IsDigit(c) => DigitValue[c] \in 0 .. 9
BY DEF IsDigit, DigitValue

\* Digits are not reserved for anything else.
LEMMA DigitsAreReserved ==
    /\ \A c : IsDigit(c) => c \in Reserved
    /\ \A c \in {"-", "+", "minus", "e", "E", "end"} : ~IsDigit(c) /\ c \in Reserved
    /\ ~IsDigit(".") /\ "." \notin Reserved /\ ~IsDigit("none") /\ "none" \notin Reserved
    /\ ~IsDigit(",") /\ "," \notin Reserved /\ ~IsDigit("nan") /\ ~IsDigit("inf") /\ ~IsDigit(" ")
BY DEF IsDigit, DigitValue, Reserved

\* A number is read from the left.
LEMMA NumberStep ==
    ASSUME NEW t, NEW from \in Nat, from > 0
    PROVE  /\ \A k \in Nat : Number(t, from, k) \in Nat
           /\ \A k \in Nat : k < from => Number(t, from, k) = 0
           /\ \A k \in Nat : k + 1 >= from =>
                Number(t, from, k + 1) = IF IsDigit(t[k + 1]) THEN 10 * Number(t, from, k) + DigitValue[t[k + 1]]
                                         ELSE Number(t, from, k)
<1> DEFINE step == [k \in Nat |-> [n \in Nat |-> IF k < from THEN 0
                                                  ELSE IF IsDigit(t[k]) THEN 10 * n + DigitValue[t[k]] ELSE n]]
           upto == CHOOSE f : f = [k \in Nat |-> IF k < from THEN 0
                                                 ELSE IF IsDigit(t[k]) THEN 10 * f[k - 1] + DigitValue[t[k]]
                                                 ELSE f[k - 1]]
<1>1. step \in [Nat -> [Nat -> Nat]]
  BY DigitValues
<1>2. \A k, n \in Nat : step[k][n] = IF k < from THEN 0 ELSE IF IsDigit(t[k]) THEN 10 * n + DigitValue[t[k]] ELSE n
  OBVIOUS
<1> HIDE DEF step
<1>3. PICK f : Recursive(f, Nat, 0, step)
  BY <1>1, Recursion
<1>4. f \in [Nat -> Nat] /\ f[0] = 0 /\ \A k \in Nat : f[k + 1] = step[k + 1][f[k]]
  BY <1>3 DEF Recursive
<1>5. ASSUME NEW k \in Nat
      PROVE  f[k] = IF k < from THEN 0 ELSE IF IsDigit(t[k]) THEN 10 * f[k - 1] + DigitValue[t[k]] ELSE f[k - 1]
  <2>1. CASE k = 0
    BY <1>4, <2>1
  <2>2. CASE k # 0
    <3>1. k - 1 \in Nat /\ (k - 1) + 1 = k
      BY <2>2
    <3>2. f[k] = step[k][f[k - 1]] /\ f[k - 1] \in Nat
      BY <1>4, <3>1
    <3> QED
      BY <1>2, <3>2
  <2> QED
    BY <2>1, <2>2
<1>6. f = [k \in Nat |-> IF k < from THEN 0
                         ELSE IF IsDigit(t[k]) THEN 10 * f[k - 1] + DigitValue[t[k]] ELSE f[k - 1]]
  BY <1>4, <1>5
<1>7. upto = [k \in Nat |-> IF k < from THEN 0
                            ELSE IF IsDigit(t[k]) THEN 10 * upto[k - 1] + DigitValue[t[k]] ELSE upto[k - 1]]
  BY <1>6
<1>8. \A k : Number(t, from, k) = upto[k]
  BY DEF Number
<1> HIDE DEF upto
<1>9. \A k \in Nat : upto[k] = IF k < from THEN 0
                               ELSE IF IsDigit(t[k]) THEN 10 * upto[k - 1] + DigitValue[t[k]] ELSE upto[k - 1]
  BY <1>7
<1>10. \A k \in Nat : upto[k] \in Nat
  <2> DEFINE S == {k \in Nat : upto[k] \in Nat}
  <2>1. 0 \in S
    BY <1>9
  <2>2. ASSUME NEW k \in S PROVE k + 1 \in S
    <3>1. k + 1 \in Nat /\ (k + 1) - 1 = k /\ upto[k] \in Nat
      OBVIOUS
    <3>2. upto[k + 1] = IF k + 1 < from THEN 0
                        ELSE IF IsDigit(t[k + 1]) THEN 10 * upto[k] + DigitValue[t[k + 1]] ELSE upto[k]
      BY <1>9, <3>1
    <3> QED
      BY <3>1, <3>2, DigitValues
  <2>3. S = Nat
    <3> HIDE DEF S
    <3>1. S \in SUBSET Nat
      BY DEF S
    <3> QED
      BY <2>1, <2>2, <3>1, Induction
  <2> QED
    BY <2>3
<1>11. ASSUME NEW k \in Nat, k + 1 >= from
       PROVE  upto[k + 1] = IF IsDigit(t[k + 1]) THEN 10 * upto[k] + DigitValue[t[k + 1]] ELSE upto[k]
  <2>1. k + 1 \in Nat /\ (k + 1) - 1 = k /\ ~(k + 1 < from)
    BY <1>11
  <2> QED
    BY <1>9, <2>1
<1> QED
  BY <1>8, <1>9, <1>10, <1>11

\* The digits of a stretch of text are counted one by one.
LEMMA CountStep ==
    ASSUME NEW t, NEW from \in Nat, NEW to \in Nat
    PROVE  /\ Cardinality(Digits(t, from, to)) \in Nat
           /\ to < from => Cardinality(Digits(t, from, to)) = 0
           /\ to + 1 >= from => Cardinality(Digits(t, from, to + 1)) =
                IF IsDigit(t[to + 1]) THEN Cardinality(Digits(t, from, to)) + 1 ELSE Cardinality(Digits(t, from, to))
           /\ \A more \in Nat : to <= more =>
                Cardinality(Digits(t, from, to)) <= Cardinality(Digits(t, from, more))
<1>1. \A m \in Nat : IsFiniteSet(Digits(t, from, m))
  <2> TAKE m \in Nat
  <2>1. IsFiniteSet(from .. m) /\ Digits(t, from, m) \subseteq from .. m
    BY FS_Interval DEF Digits
  <2> QED
    BY <2>1, FS_Subset
<1>2. Cardinality(Digits(t, from, to)) \in Nat
  BY <1>1, FS_CardinalityType
<1>3. ASSUME to < from PROVE Cardinality(Digits(t, from, to)) = 0
  <2>1. Digits(t, from, to) = {}
    BY <1>3 DEF Digits
  <2> QED
    BY <2>1, FS_EmptySet
<1>4. ASSUME to + 1 >= from
      PROVE  Cardinality(Digits(t, from, to + 1)) =
               IF IsDigit(t[to + 1]) THEN Cardinality(Digits(t, from, to)) + 1 ELSE Cardinality(Digits(t, from, to))
  <2> DEFINE T == Digits(t, from, to)
  <2>1. \A k : k \in from .. to + 1 <=> k \in from .. to \/ k = to + 1
    BY <1>4
  <2>2. CASE IsDigit(t[to + 1])
    <3>1. Digits(t, from, to + 1) = T \cup {to + 1} /\ to + 1 \notin T
      BY <2>1, <2>2 DEF Digits
    <3> HIDE DEF T
    <3>2. Cardinality(T \cup {to + 1}) = Cardinality(T) + 1
      BY <1>1, <3>1, FS_AddElement DEF T
    <3> QED
      BY <2>2, <3>1, <3>2 DEF T
  <2>3. CASE ~IsDigit(t[to + 1])
    <3>1. Digits(t, from, to + 1) = T
      BY <2>1, <2>3 DEF Digits
    <3> QED
      BY <2>3, <3>1
  <2> QED
    BY <2>2, <2>3
<1>5. ASSUME NEW more \in Nat, to <= more
      PROVE  Cardinality(Digits(t, from, to)) <= Cardinality(Digits(t, from, more))
  <2>1. Digits(t, from, to) \subseteq Digits(t, from, more)
    BY <1>5 DEF Digits
  <2> QED
    BY <1>1, <2>1, FS_Subset
<1> QED
  BY <1>2, <1>3, <1>4, <1>5

-----------------------------------------------------------------------------
(* The readings of a text *)

\* The characters a numeral may begin with before its digits
Signs == {"-", "+"} \cup (IF opts.unicodeMinus THEN {"minus"} ELSE {})

\* The length of the sign of a text
SignLength(t) == IF t # <<>> /\ t[1] \in Signs THEN 1 ELSE 0

IntegerChar(c) == IsDigit(c) \/ IsSeparator(c)

\* The options with which a text is read at all
Readable ==
    /\ opts \in OptionsType
    /\ DecimalSeparator \notin Reserved /\ opts.thousandsSeparator \notin Reserved
    /\ SeparatorsDiffer

\* The characters of a text, one after the other, as a reading takes them
Shape(t, r) ==
    /\ r.a = SignLength(t) /\ r.a < r.c
    /\ r.b \in r.a .. Len(t) /\ r.c \in r.b .. Len(t) /\ r.e \in r.c .. Len(t)
    /\ r.a = 1 => (t[1] = "+" => opts.plus)
    /\ \A k \in r.a + 1 .. r.b : IntegerChar(t[k])
    /\ r.b < Len(t) => ~IntegerChar(t[r.b + 1])
    /\ \/ r.c = r.b /\ (r.b < Len(t) => t[r.b + 1] # DecimalSeparator)
       \/ r.c >= r.b + 2 /\ t[r.b + 1] = DecimalSeparator /\ \A k \in r.b + 2 .. r.c : IsDigit(t[k])
    /\ r.c < Len(t) => t[r.c + 1] \in {"e", "E"}
    /\ WellGrouped(t, r.a + 1, r.b)
    /\ HasExponent(t, r.c, r.e)

\* A separator is neither a digit nor an exponent letter.
LEMMA SeparatorsAreClear ==
    ASSUME Readable
    PROVE  /\ ~IntegerChar(DecimalSeparator)
           /\ \A c \in {"-", "+", "minus", "e", "E", "end"} : ~IntegerChar(c) /\ c # DecimalSeparator
           /\ \A c : IsSeparator(c) => ~IsDigit(c) /\ c # DecimalSeparator
           /\ Signs \subseteq {"-", "+", "minus"}
<1>1. ~IsDigit(DecimalSeparator) /\ \A c : IsSeparator(c) => ~IsDigit(c)
  BY DigitsAreReserved DEF Readable, IsSeparator
<1>2. \A c : IsSeparator(c) => c # DecimalSeparator /\ c \notin Reserved
  BY DEF Readable, IsSeparator, SeparatorsDiffer
<1>3. \A c \in {"-", "+", "minus", "e", "E", "end"} : ~IsDigit(c) /\ c \in Reserved
  BY DigitsAreReserved
<1> QED
  BY <1>1, <1>2, <1>3 DEF Readable, IntegerChar, Signs

\* What a reading of a grouped integer part consists of.
LEMMA GroupedChars ==
    ASSUME NEW t, NEW from \in Nat, NEW to \in Nat, WellGrouped(t, from, to)
    PROVE  /\ \A k \in from .. to : IntegerChar(t[k])
           /\ from <= to => IsDigit(t[from]) /\ IsDigit(t[to])
<1>1. CASE Digits(t, from, to) = from .. to
  BY <1>1 DEF Digits, IntegerChar
<1>2. CASE /\ to - from >= 4 /\ IsDigit(t[from])
           /\ \A k \in from .. to : IF (to - k) % 4 = 3 THEN IsSeparator(t[k]) ELSE IsDigit(t[k])
  <2>1. to \in from .. to /\ (to - to) % 4 # 3
    BY <1>2
  <2>2. \A k \in from .. to : IntegerChar(t[k])
    BY <1>2 DEF IntegerChar
  <2> QED
    BY <1>2, <2>1, <2>2
<1> QED
  BY <1>1, <1>2 DEF WellGrouped

\* A reading begins after the sign, and each of its parts ends where the characters of
\* its kind do.
LEMMA ReadingShape ==
    ASSUME Readable, NEW t \in Seq(STRING), NEW r \in Readings(t)
    PROVE  Shape(t, r)
<1>1. /\ r.a \in 0 .. 1 /\ r.b \in 0 .. Len(t) /\ r.c \in 0 .. Len(t) /\ r.e \in 0 .. Len(t)
      /\ r.a <= r.b /\ r.b <= r.c /\ r.c <= r.e
      /\ IsNumeral(t, r.a, r.b, r.c) /\ HasExponent(t, r.c, r.e)
  BY DEF Readings
<1>2. Len(t) \in Nat
  OBVIOUS
<1> DEFINE a == r.a
           b == r.b
           c == r.c
           e == r.e
<1> HIDE DEF a, b, c, e
<1>3. /\ a \in 0 .. 1 /\ b \in 0 .. Len(t) /\ c \in 0 .. Len(t) /\ e \in 0 .. Len(t)
      /\ a <= b /\ b <= c /\ c <= e
      /\ IsNumeral(t, a, b, c) /\ HasExponent(t, c, e)
  BY <1>1 DEF a, b, c, e
<1>4. /\ \/ a = 0
         \/ a = 1 /\ (t[1] = "-" \/ (opts.plus /\ t[1] = "+") \/ (opts.unicodeMinus /\ t[1] = "minus"))
      /\ WellGrouped(t, a + 1, b)
      /\ c = b \/ (c >= b + 2 /\ t[b + 1] = DecimalSeparator /\ Digits(t, b + 2, c) = b + 2 .. c)
      /\ c > a
  BY <1>3 DEF IsNumeral
<1>5. /\ \A k \in a + 1 .. b : IntegerChar(t[k])
      /\ a + 1 <= b => IsDigit(t[a + 1]) /\ IsDigit(t[b])
  <2>1. a + 1 \in Nat /\ b \in Nat
    BY <1>3
  <2> QED
    BY <1>4, <2>1, GroupedChars
<1>6. \/ c = Len(t) /\ e = c
      \/ c < Len(t) /\ t[c + 1] \in {"e", "E"}
  BY <1>2, <1>3 DEF HasExponent
<1>7. c < Len(t) => t[c + 1] \in {"e", "E"}
  BY <1>2, <1>3, <1>6
<1>8. \/ c = b
      \/ c >= b + 2 /\ t[b + 1] = DecimalSeparator /\ \A k \in b + 2 .. c : IsDigit(t[k])
  BY <1>4 DEF Digits
<1>9. b < Len(t) => ~IntegerChar(t[b + 1])
  BY <1>7, <1>8, SeparatorsAreClear
<1>10. c = b => (b < Len(t) => t[b + 1] # DecimalSeparator)
  BY <1>7, SeparatorsAreClear
<1>11. t # <<>>
  BY <1>2, <1>3, <1>4
<1>12. a = SignLength(t)
  <2>1. CASE a = 1
    <3>1. t[1] \in Signs
      BY <1>4, <2>1 DEF Signs
    <3> QED
      BY <1>11, <2>1, <3>1 DEF SignLength
  <2>2. CASE a = 0
    <3>1. ASSUME t[1] \in Signs PROVE FALSE
      <4>1. t[1] \in {"-", "+", "minus"}
        BY <3>1, SeparatorsAreClear
      <4>2. ~IntegerChar(t[1]) /\ t[1] # DecimalSeparator
        BY <4>1, SeparatorsAreClear
      <4>3. b = 0
        BY <1>3, <1>5, <2>2, <4>2
      <4> QED
        BY <1>4, <2>2, <4>2, <4>3
    <3> QED
      BY <2>2, <3>1 DEF SignLength
  <2> QED
    BY <1>3, <2>1, <2>2
<1>13. a = 1 => (t[1] = "+" => opts.plus)
  BY <1>4
<1> QED
  BY <1>2, <1>3, <1>4, <1>5, <1>7, <1>8, <1>9, <1>10, <1>12, <1>13 DEF Shape, a, b, c, e

-----------------------------------------------------------------------------
(* Groups of digits *)

\* The groups read after position a of a text end before the positions p
GroupEnds(p, t, a, gs) ==
    /\ gs \in Seq(Nat) /\ p \in [0 .. Len(gs) -> Nat] /\ p[0] = a
    /\ \A i \in 1 .. Len(gs) : /\ p[i] = p[i - 1] + gs[i] + 1
                               /\ \A k \in p[i - 1] + 1 .. p[i] - 1 : IsDigit(t[k])

\* There are two of them or more, they end with b, and separators are between them
Split(p, t, a, b, gs) ==
    /\ GroupEnds(p, t, a, gs) /\ Len(gs) >= 2 /\ p[Len(gs)] = b + 1
    /\ \A i \in 1 .. Len(gs) - 1 : IsSeparator(t[p[i]])

\* Steps of four keep the remainder of a division by four.
LEMMA StepsOfFour ==
    /\ \A x, j \in Int : (x + 4 * j) % 4 = x % 4
    /\ \A x \in Int : x % 4 = 3 => \E j \in Int : x = 4 * j + 3
    /\ \A j \in Int : (4 * j + 3) % 4 = 3 /\ (4 * j) % 4 = 0 /\ (4 * j + 1) % 4 = 1 /\ (4 * j + 2) % 4 = 2
OBVIOUS

\* Ends grow.
LEMMA EndsGrow ==
    ASSUME NEW t, NEW a \in Nat, NEW gs, NEW p, GroupEnds(p, t, a, gs)
    PROVE  \A i, j \in 0 .. Len(gs) : i < j => p[i] < p[j]
<1> DEFINE n == Len(gs)
           S == {j \in Nat : j <= n => \A i \in 0 .. n : i < j => p[i] < p[j]}
<1>1. n \in Nat /\ p \in [0 .. n -> Nat] /\ \A i \in 1 .. n : p[i] = p[i - 1] + gs[i] + 1 /\ gs[i] \in Nat
  BY DEF GroupEnds
<1>2. 0 \in S
  OBVIOUS
<1>3. ASSUME NEW j \in S PROVE j + 1 \in S
  <2>1. SUFFICES ASSUME j + 1 <= n, NEW i \in 0 .. n, i < j + 1 PROVE p[i] < p[j + 1]
    BY <1>1
  <2>0. j \in Nat /\ i \in Nat /\ \A m \in 0 .. n : m < j => p[m] < p[j]
    BY <1>1, <2>1
  <2> HIDE DEF S
  <2>2. j + 1 \in 1 .. n /\ (j + 1) - 1 = j /\ j \in 0 .. n
    BY <1>1, <2>0, <2>1
  <2>3. p[j + 1] = p[j] + gs[j + 1] + 1 /\ gs[j + 1] \in Nat /\ p[j] \in Nat
    BY <1>1, <2>2
  <2>4. p[i] <= p[j]
    <3>1. CASE i = j
      BY <2>3, <3>1
    <3>2. CASE i < j
      <4>1. p[i] \in Nat
        BY <1>1
      <4>2. p[i] < p[j]
        BY <2>0, <2>1, <3>2
      <4> QED
        BY <2>3, <4>1, <4>2
    <3> QED
      BY <2>0, <2>1, <3>1, <3>2
  <2> QED
    <3>1. p[i] \in Nat
      BY <1>1
    <3> QED
      BY <2>3, <2>4, <3>1
<1>4. S = Nat
  <2> HIDE DEF S
  <2>1. S \in SUBSET Nat
    BY DEF S
  <2> QED
    BY <1>2, <1>3, <2>1, Induction
<1> QED
  <2> TAKE i, j \in 0 .. n
  <2> HAVE i < j
  <2>1. j \in S /\ j <= n
    <3> HIDE DEF S
    <3> QED
      BY <1>1, <1>4
  <2> QED
    BY <2>1

\* Every position is inside a group, or the end of one.
LEMMA EndsCover ==
    ASSUME NEW t, NEW a \in Nat, NEW gs, NEW p, GroupEnds(p, t, a, gs),
           NEW k \in Nat, a < k, k <= p[Len(gs)]
    PROVE  \E i \in 1 .. Len(gs) : p[i - 1] < k /\ k <= p[i]
<1> DEFINE n == Len(gs)
           S == {i \in Nat : i <= n /\ k <= p[i]}
<1>1. n \in Nat /\ p \in [0 .. n -> Nat] /\ p[0] = a
  BY DEF GroupEnds
<1>2. n \in S
  BY <1>1
<1>3. PICK i \in S : \A m \in S : i <= m
  <2>1. S \in SUBSET Nat /\ S # {}
    BY <1>2
  <2> QED
    BY <2>1, LeastNumber
<1>4. i \in 0 .. n /\ k <= p[i] /\ i # 0
  BY <1>1
<1>5. i - 1 \in Nat /\ i - 1 <= n /\ i - 1 \notin S
  BY <1>3, <1>4
<1> QED
  BY <1>1, <1>4, <1>5

\* Groups are valid exactly when the separators stand where groups of three end.
LEMMA GroupsMean ==
    ASSUME Readable, NEW t, NEW a \in Nat, NEW b \in Nat, NEW gs, NEW p, Split(p, t, a, b, gs)
    PROVE  ValidThousandsGroups(gs) <=> WellGrouped(t, a + 1, b)
<1> DEFINE n == Len(gs)
<1>1. n \in Nat /\ n >= 2 /\ \A i \in 1 .. n : gs[i] \in Nat
  BY DEF Split, GroupEnds
<1>2. /\ p \in [0 .. n -> Nat] /\ p[0] = a /\ p[n] = b + 1
      /\ \A i \in 1 .. n : /\ p[i] = p[i - 1] + gs[i] + 1
                           /\ \A k \in p[i - 1] + 1 .. p[i] - 1 : IsDigit(t[k])
  BY DEF Split, GroupEnds
<1>3. \A i, j \in 0 .. n : i < j => p[i] < p[j]
  BY EndsGrow DEF Split
<1>4. \A k \in Nat : a < k /\ k <= b + 1 => \E i \in 1 .. n : p[i - 1] < k /\ k <= p[i]
  <2> TAKE k \in Nat
  <2> HAVE a < k /\ k <= b + 1
  <2>1. k <= p[Len(gs)]
    BY <1>2
  <2> QED
    BY <2>1, EndsCover DEF Split
<1>5. \A i \in 1 .. n - 1 : IsSeparator(t[p[i]]) /\ ~IsDigit(t[p[i]]) /\ p[i] \in a + 1 .. b
  <2> TAKE i \in 1 .. n - 1
  <2>1. i \in 0 .. n /\ 0 \in 0 .. n /\ n \in 0 .. n /\ 0 < i /\ i < n
    BY <1>1
  <2>2. p[0] < p[i] /\ p[i] < p[n]
    BY <1>3, <2>1
  <2>3. p[i] \in Nat
    BY <1>2, <2>1
  <2> QED
    BY <1>2, <2>2, <2>3, SeparatorsAreClear DEF Split
<1> HIDE DEF n
<1>6. ASSUME ValidThousandsGroups(gs) PROVE WellGrouped(t, a + 1, b)
  <2>1. gs[1] \in 1 .. 3 /\ \A i \in 2 .. n : gs[i] = 3
    BY <1>6 DEF ValidThousandsGroups, n
  <2> DEFINE S == {j \in Nat : j < n => p[n - j] = b + 1 - 4 * j}
  <2>2. 0 \in S
    BY <1>1, <1>2
  <2>3. ASSUME NEW j \in S PROVE j + 1 \in S
    <3>1. SUFFICES ASSUME j + 1 < n PROVE p[n - (j + 1)] = b + 1 - 4 * (j + 1)
      OBVIOUS
    <3>2. n - j \in 2 .. n /\ n - j \in 1 .. n /\ (n - j) - 1 = n - (j + 1) /\ n - (j + 1) \in 0 .. n
      BY <1>1, <3>1
    <3>3. p[n - j] = p[n - (j + 1)] + gs[n - j] + 1 /\ gs[n - j] = 3
      BY <1>2, <2>1, <3>2
    <3>4. p[n - j] = b + 1 - 4 * j /\ p[n - (j + 1)] \in Nat
      BY <1>1, <1>2, <3>1, <3>2
    <3> QED
      BY <3>3, <3>4
  <2>4. S = Nat
    <3> HIDE DEF S
    <3>1. S \in SUBSET Nat
      BY DEF S
    <3> QED
      BY <2>2, <2>3, <3>1, Induction
  <2>5. \A i \in 1 .. n : p[i] = b + 1 - 4 * (n - i)
    <3> TAKE i \in 1 .. n
    <3>1. n - i \in S /\ n - i < n /\ n - (n - i) = i
      <4> HIDE DEF S
      <4> QED
        BY <1>1, <2>4
    <3> QED
      BY <3>1
  <2> HIDE DEF S
  <2>6. \A k \in a + 1 .. b : IF (b - k) % 4 = 3 THEN IsSeparator(t[k]) ELSE IsDigit(t[k])
    <3> TAKE k \in a + 1 .. b
    <3>1. PICK i \in 1 .. n : p[i - 1] < k /\ k <= p[i]
      BY <1>4
    <3> DEFINE j == n - i
    <3>2. j \in Nat /\ p[i] = b + 1 - 4 * j /\ p[i] \in Nat /\ p[i - 1] \in Nat
      BY <1>1, <1>2, <2>5
    <3>3. p[i] = p[i - 1] + gs[i] + 1 /\ gs[i] \in Nat /\ gs[i] <= 3
      <4>1. p[i] = p[i - 1] + gs[i] + 1
        BY <1>2
      <4>2. gs[i] \in Nat
        BY <1>1
      <4>3. i = 1 \/ i \in 2 .. n
        BY <1>1
      <4>4. gs[i] <= 3
        BY <2>1, <4>3
      <4> QED
        BY <4>1, <4>2, <4>4
    <3>4. CASE k = p[i]
      <4>1. j >= 1 /\ i \in 1 .. n - 1
        <5>1. j # 0
          BY <3>2, <3>4
        <5>2. i \in 1 .. n /\ i # n
          BY <1>1, <5>1
        <5>3. i \in 1 .. n - 1
          BY <1>1, <5>2
        <5> QED
          BY <3>2, <5>1, <5>3
      <4>2. b - k = 4 * (j - 1) + 3
        BY <3>2, <3>4
      <4>3. (b - k) % 4 = 3
        BY <3>2, <4>2, StepsOfFour
      <4> QED
        BY <1>5, <3>4, <4>1, <4>3
    <3>5. CASE k < p[i]
      <4>1. IsDigit(t[k])
        BY <1>2, <3>1, <3>2, <3>5
      <4>2. b - k \in {4 * j, 4 * j + 1, 4 * j + 2}
        BY <3>1, <3>2, <3>3, <3>5
      <4> HIDE DEF j
      <4>3. (b - k) % 4 # 3
        BY <3>2, <4>2, StepsOfFour
      <4> QED
        BY <4>1, <4>3
    <3> QED
      BY <3>1, <3>2, <3>4, <3>5
  <2>7. p[1] = b + 1 - 4 * (n - 1) /\ p[1] = a + gs[1] + 1
    BY <1>1, <1>2, <2>5
  <2>8. b - (a + 1) >= 4
    BY <1>1, <2>1, <2>7
  <2>9. IsDigit(t[a + 1])
    <3>1. a + 1 \in p[0] + 1 .. p[1] - 1 /\ 1 - 1 = 0 /\ 1 \in 1 .. n
      BY <1>1, <1>2, <2>1, <2>7
    <3> QED
      BY <1>2, <3>1
  <2> QED
    BY <2>6, <2>8, <2>9 DEF WellGrouped
<1>7. ASSUME WellGrouped(t, a + 1, b) PROVE ValidThousandsGroups(gs)
  <2>1. 1 \in 1 .. n - 1 /\ 1 \in 1 .. n /\ 1 - 1 = 0
    BY <1>1
  <2>2. p[1] \in a + 1 .. b /\ ~IsDigit(t[p[1]])
    BY <1>5, <2>1
  <2>3. Digits(t, a + 1, b) # a + 1 .. b
    BY <2>2 DEF Digits
  <2>4. /\ IsDigit(t[a + 1])
        /\ \A k \in a + 1 .. b : IF (b - k) % 4 = 3 THEN IsSeparator(t[k]) ELSE IsDigit(t[k])
    BY <1>7, <2>3 DEF WellGrouped
  <2>5. \A i \in 1 .. n : (b - p[i]) % 4 = 3 /\ p[i] \in Nat
    <3> TAKE i \in 1 .. n
    <3>1. CASE i = n
      <4>1. b - p[i] = 4 * (-1) + 3
        BY <1>2, <3>1
      <4> QED
        BY <1>2, <4>1, StepsOfFour
    <3>2. CASE i # n
      <4>1. i \in 1 .. n - 1
        BY <1>1, <3>2
      <4>2. ~IsDigit(t[p[i]]) /\ p[i] \in a + 1 .. b
        BY <1>5, <4>1
      <4> QED
        BY <2>4, <4>2
    <3> QED
      BY <3>1, <3>2
  \* No position of a group is four before the end of a group
  <2>6. ASSUME NEW i \in 1 .. n, NEW k \in p[i - 1] + 1 .. p[i] - 1, k > a, k <= b, NEW j \in 1 .. n, NEW m \in Int,
               p[j] = k + 4 * m
        PROVE  FALSE
    <3>1. p[j] \in Nat /\ (b - p[j]) % 4 = 3 /\ k \in Int
      <4>1. i - 1 \in 0 .. n /\ i \in 0 .. n
        BY <1>1
      <4>2. p[i - 1] \in Nat /\ p[i] \in Nat
        BY <1>2, <4>1
      <4> QED
        BY <2>5, <4>2
    <3>2. b - k = (b - p[j]) + 4 * m
      BY <2>6, <3>1
    <3>3. (b - k) % 4 = 3
      BY <3>1, <3>2, StepsOfFour
    <3>4. IsSeparator(t[k]) /\ IsDigit(t[k])
      BY <1>2, <2>4, <2>6, <3>1, <3>3
    <3> QED
      BY <3>4, SeparatorsAreClear
  <2>7. gs[1] \in 1 .. 3
    <3>1. p[1] = a + gs[1] + 1 /\ gs[1] \in Nat /\ p[0] = a /\ p[1] \in Nat
      BY <1>1, <1>2, <2>1
    <3>2. gs[1] # 0
      BY <2>2, <2>4, <3>1
    <3>3. ASSUME gs[1] >= 4 PROVE FALSE
      <4> DEFINE k == p[1] - 4
      <4>1. k \in p[1 - 1] + 1 .. p[1] - 1 /\ k > a /\ k <= b /\ p[1] = k + 4 * 1
        BY <2>1, <2>2, <3>1, <3>3
      <4> HIDE DEF k
      <4>2. 1 \in 1 .. n /\ 1 \in Int
        BY <2>1
      <4> QED
        BY <2>6, <4>1, <4>2
    <3> QED
      BY <3>1, <3>2, <3>3
  <2>8. ASSUME NEW i \in 2 .. n PROVE gs[i] = 3
    <3> DEFINE q == p[i - 1]
               g == gs[i]
    <3>1. i \in 1 .. n /\ i - 1 \in 1 .. n - 1 /\ i - 1 \in 1 .. n
      BY <1>1
    <3>2. p[i] = q + g + 1 /\ g \in Nat /\ p[i] \in Nat /\ q \in Nat
      BY <1>1, <1>2, <2>5, <3>1
    <3>3. (b - p[i]) % 4 = 3 /\ (b - q) % 4 = 3
      BY <2>5, <3>1
    <3>4. p[i] \in p[i] .. b + 1
      <4>1. CASE i = n
        BY <1>1, <1>2, <4>1
      <4>2. CASE i # n
        <5>1. i \in 1 .. n - 1
          BY <1>1, <3>1, <4>2
        <5>2. p[i] \in a + 1 .. b
          BY <1>5, <5>1
        <5> QED
          BY <5>2
      <4> QED
        BY <4>1, <4>2
    <3>5. q \in a + 1 .. b
      BY <1>5, <3>1
    <3>6. \A k \in q + 1 .. p[i] - 1 : k > a /\ k <= b => \A m \in Int : q # k + 4 * m
      BY <2>6, <3>1
    <3> DEFINE r == p[i]
    <3> HIDE DEF q, g, r
    <3>7. r = q + g + 1 /\ g \in Nat /\ r \in Nat /\ q \in Nat /\ r <= b + 1 /\ q \in a + 1 .. b
      BY <3>2, <3>4, <3>5 DEF r
    <3>13. (b - r) % 4 = 3 /\ (b - q) % 4 = 3 /\ b - r \in Int /\ b - q \in Int
      BY <3>3, <3>7 DEF r
    <3>8. PICK u \in Int : b - r = 4 * u + 3
      BY <3>13, StepsOfFour
    <3>9. PICK v \in Int : b - q = 4 * v + 3
      BY <3>13, StepsOfFour
    <3>10. g + 1 = 4 * (v - u)
      BY <3>7, <3>8, <3>9
    <3>11. ASSUME g > 3 PROVE FALSE
      <4> DEFINE k == q + 4
      <4>1. k \in q + 1 .. r - 1 /\ k > a /\ k <= b
        BY <3>7, <3>10, <3>11
      <4>2. q = k + 4 * (-1)
        BY <3>7
      <4> HIDE DEF k
      <4> QED
        BY <3>6, <4>1, <4>2 DEF r
    <3>12. g = 3
      BY <3>7, <3>10, <3>11
    <3> QED
      BY <3>12 DEF g
  <2> QED
    BY <1>1, <2>7, <2>8 DEF ValidThousandsGroups, n
<1> QED
  BY <1>6, <1>7

-----------------------------------------------------------------------------
(* What has been read of a text, and what that says of its readings *)

SignEnd == SignLength(text)

\* A part of the integer part
IntegerRead(to) == to \in SignEnd .. Len(text) /\ \A k \in SignEnd + 1 .. to : IntegerChar(text[k])

\* All of it, and the groups tell whether its separators are where they should be
IntegerDone(b) ==
    /\ IntegerRead(b)
    /\ b < Len(text) => ~IntegerChar(text[b + 1])
    /\ (groups # <<>> => ValidThousandsGroups(groups)) <=> WellGrouped(text, SignEnd + 1, b)

\* The separator after the integer part, and digits
FractionRead(b, to) ==
    /\ b < Len(text) /\ text[b + 1] = DecimalSeparator
    /\ to \in b + 1 .. Len(text) /\ \A k \in b + 2 .. to : IsDigit(text[k])
    /\ fracDigits = to - b - 1

\* The fraction, or none
FractionDone(b, c) ==
    \/ c = b /\ fracDigits = 0 /\ (b < Len(text) => text[b + 1] # DecimalSeparator)
    \/ FractionRead(b, c) /\ fracDigits > 0 /\ (c < Len(text) => ~IsDigit(text[c + 1]))

\* The letter and the sign of the exponent, and digits
ExponentRead(c, e, to) ==
    /\ c < Len(text) /\ text[c + 1] \in {"e", "E"}
    /\ e = IF c + 2 <= Len(text) /\ text[c + 2] \in {"-", "+"} THEN c + 2 ELSE c + 1
    /\ to \in e .. Len(text) /\ \A k \in e + 1 .. to : IsDigit(text[k])

\* A sign is one character of the text, or none.
LEMMA SignEnds == SignEnd \in {0, 1} /\ (text \in Seq(STRING) => SignEnd <= Len(text))
<1>1. text # <<>> /\ text \in Seq(STRING) => Len(text) >= 1
  OBVIOUS
<1>2. text \in Seq(STRING) => Len(text) \in Nat
  OBVIOUS
<1> QED
  BY <1>1, <1>2 DEF SignEnd, SignLength

\* The integer part of a reading goes as far as its characters.
LEMMA IntegerEnds ==
    ASSUME Readable, text \in Seq(STRING), NEW r \in Readings(text)
    PROVE  /\ r.a = SignEnd
           /\ \A to \in Nat : IntegerRead(to) => to <= r.b
           /\ \A b \in Nat : IntegerDone(b) => r.b = b
<1>1. Shape(text, r) /\ Len(text) \in Nat
  BY ReadingShape
<1>2. /\ r.a = SignEnd /\ r.a \in Nat /\ r.b \in r.a .. Len(text)
      /\ \A k \in r.a + 1 .. r.b : IntegerChar(text[k])
      /\ r.b < Len(text) => ~IntegerChar(text[r.b + 1])
  BY <1>1, SignEnds DEF Shape, SignEnd
<1>3. ASSUME NEW to \in Nat, IntegerRead(to) PROVE to <= r.b
  <2>1. SUFFICES ASSUME r.b < to PROVE FALSE
    BY <1>1, <1>2
  <2>2. r.b + 1 \in SignEnd + 1 .. to /\ r.b < Len(text)
    BY <1>1, <1>2, <1>3, <2>1 DEF IntegerRead
  <2> QED
    BY <1>2, <1>3, <2>2 DEF IntegerRead
<1>4. ASSUME NEW b \in Nat, IntegerDone(b) PROVE r.b = b
  <2>1. b <= r.b /\ b \in SignEnd .. Len(text)
    BY <1>3, <1>4 DEF IntegerDone, IntegerRead
  <2>2. ASSUME b < r.b PROVE FALSE
    <3>1. b + 1 \in r.a + 1 .. r.b /\ b < Len(text)
      BY <1>1, <1>2, <2>1, <2>2
    <3> QED
      BY <1>2, <1>4, <3>1 DEF IntegerDone
  <2> QED
    BY <1>1, <1>2, <2>1, <2>2
<1> QED
  BY <1>2, <1>3, <1>4

\* Its fraction goes as far as the digits.
LEMMA FractionEnds ==
    ASSUME Readable, text \in Seq(STRING), NEW r \in Readings(text), NEW b \in Nat, IntegerDone(b)
    PROVE  /\ \A to \in Nat : FractionRead(b, to) => to <= r.c /\ r.c >= b + 2 /\ IsDigit(text[b + 2])
           /\ \A c \in Nat : FractionDone(b, c) => r.c = c
<1>1. Shape(text, r) /\ Len(text) \in Nat /\ r.b = b
  BY ReadingShape, IntegerEnds
<1>2. /\ r.c \in b .. Len(text)
      /\ \/ r.c = b /\ (b < Len(text) => text[b + 1] # DecimalSeparator)
         \/ r.c >= b + 2 /\ text[b + 1] = DecimalSeparator /\ \A k \in b + 2 .. r.c : IsDigit(text[k])
      /\ r.c < Len(text) => text[r.c + 1] \in {"e", "E"}
  BY <1>1 DEF Shape
<1>3. \A x : x \in {"e", "E"} => ~IsDigit(x)
  BY DigitsAreReserved
<1>4. ASSUME NEW to \in Nat, FractionRead(b, to) PROVE to <= r.c /\ r.c >= b + 2 /\ IsDigit(text[b + 2])
  <2>1. r.c >= b + 2 /\ IsDigit(text[b + 2])
    BY <1>1, <1>2, <1>4 DEF FractionRead
  <2>2. ASSUME r.c < to PROVE FALSE
    <3>1. r.c + 1 \in b + 2 .. to /\ r.c < Len(text)
      BY <1>1, <1>2, <1>4, <2>1, <2>2 DEF FractionRead
    <3> QED
      BY <1>2, <1>3, <1>4, <3>1 DEF FractionRead
  <2> QED
    BY <1>1, <1>2, <2>1, <2>2
<1>5. ASSUME NEW c \in Nat, FractionDone(b, c) PROVE r.c = c
  <2>1. CASE c = b /\ fracDigits = 0 /\ (b < Len(text) => text[b + 1] # DecimalSeparator)
    BY <1>1, <1>2, <2>1
  <2>2. CASE FractionRead(b, c) /\ (c < Len(text) => ~IsDigit(text[c + 1]))
    <3>1. c <= r.c /\ r.c >= b + 2
      BY <1>4, <2>2
    <3>2. ASSUME c < r.c PROVE FALSE
      <4>1. c + 1 \in b + 2 .. r.c /\ c < Len(text)
        BY <1>1, <1>2, <2>2, <3>2 DEF FractionRead
      <4> QED
        BY <1>2, <2>2, <3>1, <4>1
    <3> QED
      BY <1>2, <3>1, <3>2
  <2> QED
    BY <1>5, <2>1, <2>2 DEF FractionDone
<1> QED
  BY <1>4, <1>5

\* Its exponent goes to the end, or there is none.
LEMMA ExponentEnds ==
    ASSUME Readable, text \in Seq(STRING), NEW r \in Readings(text), NEW b \in Nat, IntegerDone(b),
           NEW c \in Nat, FractionDone(b, c)
    PROVE  /\ c < Len(text) => text[c + 1] \in {"e", "E"}
           /\ c = Len(text) => r.e = c
           /\ \A e, to \in Nat : ExponentRead(c, e, to) =>
                /\ r.e = e /\ e < Len(text)
                /\ \A k \in e + 1 .. Len(text) : IsDigit(text[k])
<1>1. Shape(text, r) /\ Len(text) \in Nat /\ r.c = c
  BY ReadingShape, FractionEnds
<1>2. HasExponent(text, c, r.e) /\ r.e \in c .. Len(text) /\ (c < Len(text) => text[c + 1] \in {"e", "E"})
  BY <1>1 DEF Shape
<1>3. c = Len(text) => r.e = c
  BY <1>1, <1>2 DEF HasExponent
<1>4. ASSUME NEW e \in Nat, NEW to \in Nat, ExponentRead(c, e, to)
      PROVE  r.e = e /\ e < Len(text) /\ \A k \in e + 1 .. Len(text) : IsDigit(text[k])
  <2>1. c < Len(text)
    BY <1>4 DEF ExponentRead
  <2>2. /\ r.e \in {c + 1, c + 2} /\ r.e < Len(text)
        /\ r.e = c + 2 => text[c + 2] \in {"-", "+"}
        /\ \A k \in r.e + 1 .. Len(text) : IsDigit(text[k])
    BY <1>1, <1>2, <2>1 DEF HasExponent, Digits
  <2>3. \A x : x \in {"-", "+"} => ~IsDigit(x)
    BY DigitsAreReserved
  <2>4. e = IF c + 2 <= Len(text) /\ text[c + 2] \in {"-", "+"} THEN c + 2 ELSE c + 1
    BY <1>4 DEF ExponentRead
  <2>5. CASE r.e = c + 1
    <3>1. c + 2 \in r.e + 1 .. Len(text) /\ c + 2 <= Len(text)
      BY <1>1, <2>2, <2>5
    <3>2. IsDigit(text[c + 2])
      BY <2>2, <3>1
    <3> QED
      BY <2>2, <2>3, <2>4, <2>5, <3>2
  <2>6. CASE r.e = c + 2
    BY <1>1, <2>2, <2>4, <2>6
  <2> QED
    BY <2>2, <2>5, <2>6
<1> QED
  BY <1>2, <1>3, <1>4

\* Every reading has a digit.
LEMMA ReadingHasDigit ==
    ASSUME NEW t \in Seq(STRING), NEW r \in Readings(t)
    PROVE  \E k \in r.a + 1 .. r.c : k \in 1 .. Len(t) /\ IsDigit(t[k])
<1>1. /\ r.a \in 0 .. 1 /\ r.b \in 0 .. Len(t) /\ r.c \in 0 .. Len(t)
      /\ r.a <= r.b /\ r.b <= r.c
      /\ IsNumeral(t, r.a, r.b, r.c) /\ Len(t) \in Nat
  BY DEF Readings
<1>2. WellGrouped(t, r.a + 1, r.b) /\ r.c > r.a
  BY <1>1 DEF IsNumeral
<1>3. CASE r.b > r.a
  <2>1. r.a + 1 \in Nat /\ r.b \in Nat /\ r.a + 1 <= r.b
    BY <1>1, <1>3
  <2>2. IsDigit(t[r.a + 1])
    BY <1>2, <2>1, GroupedChars
  <2>3. r.a + 1 \in r.a + 1 .. r.c /\ r.a + 1 \in 1 .. Len(t)
    BY <1>1, <2>1
  <2> QED
    BY <2>2, <2>3
<1>4. CASE r.b = r.a
  <2>1. r.c >= r.b + 2 /\ Digits(t, r.b + 2, r.c) = r.b + 2 .. r.c
    BY <1>1, <1>2, <1>4 DEF IsNumeral
  <2>2. r.b + 2 \in r.b + 2 .. r.c /\ r.b + 2 \in r.a + 1 .. r.c /\ r.b + 2 \in 1 .. Len(t)
    BY <1>1, <1>4, <2>1
  <2> QED
    BY <2>1, <2>2 DEF Digits
<1> QED
  BY <1>1, <1>3, <1>4

\* A stretch of digits is well grouped without a separator.
LEMMA DigitsAreGrouped ==
    ASSUME NEW t, NEW from \in Nat, NEW to \in Nat, \A k \in from .. to : IsDigit(t[k])
    PROVE  Digits(t, from, to) = from .. to /\ WellGrouped(t, from, to)
BY DEF Digits, WellGrouped

\* The group that is being read ends before x.
LEMMA GroupClosed ==
    ASSUME NEW t, NEW a \in Nat, NEW gs, NEW p, GroupEnds(p, t, a, gs), NEW g \in Nat, NEW x \in Nat,
           x = p[Len(gs)] + g + 1, \A k \in p[Len(gs)] + 1 .. x - 1 : IsDigit(t[k])
    PROVE  \E q : /\ GroupEnds(q, t, a, Append(gs, g)) /\ q[Len(gs) + 1] = x
                  /\ \A i \in 0 .. Len(gs) : q[i] = p[i]
<1> DEFINE n == Len(gs)
           hs == Append(gs, g)
           q == [i \in 0 .. n + 1 |-> IF i = n + 1 THEN x ELSE p[i]]
<1>1. gs \in Seq(Nat) /\ n \in Nat /\ p \in [0 .. n -> Nat] /\ p[0] = a
  BY DEF GroupEnds
<1>2. \A i \in 1 .. n : p[i] = p[i - 1] + gs[i] + 1 /\ \A k \in p[i - 1] + 1 .. p[i] - 1 : IsDigit(t[k])
  BY DEF GroupEnds
<1>3. hs \in Seq(Nat) /\ Len(hs) = n + 1 /\ hs[n + 1] = g /\ \A i \in 1 .. n : hs[i] = gs[i]
  BY <1>1
<1>4. \A i \in 0 .. n : q[i] = p[i] /\ p[i] \in Nat
  <2> TAKE i \in 0 .. n
  <2>1. i \in 0 .. n + 1 /\ i # n + 1
    BY <1>1
  <2>2. q[i] = p[i]
    BY <2>1
  <2> QED
    BY <1>1, <2>2
<1>5. q[n + 1] = x /\ q \in [0 .. n + 1 -> Nat] /\ q[0] = a
  <2>1. q[n + 1] = x /\ n + 1 \in 0 .. n + 1
    BY <1>1
  <2>2. \A i \in 0 .. n + 1 : q[i] \in Nat
    <3> TAKE i \in 0 .. n + 1
    <3>1. i = n + 1 \/ i \in 0 .. n
      BY <1>1
    <3> HIDE DEF q
    <3> QED
      BY <1>4, <2>1, <3>1
  <2>3. 0 \in 0 .. n
    BY <1>1
  <2> QED
    BY <1>1, <1>4, <2>1, <2>2, <2>3
<1> HIDE DEF hs, q, n
<1>6. ASSUME NEW i \in 1 .. n + 1
      PROVE  q[i] = q[i - 1] + hs[i] + 1 /\ \A k \in q[i - 1] + 1 .. q[i] - 1 : IsDigit(t[k])
  <2>1. CASE i = n + 1
    <3>1. i - 1 = n /\ n \in 0 .. n /\ q[i - 1] = p[n] /\ q[i] = x /\ hs[i] = g
      BY <1>1, <1>3, <1>4, <1>5, <2>1
    <3> QED
      BY <3>1 DEF n
  <2>2. CASE i # n + 1
    <3>1. i \in 1 .. n /\ i \in 0 .. n /\ i - 1 \in 0 .. n
      BY <1>1, <2>2
    <3> QED
      BY <1>2, <1>3, <1>4, <3>1
  <2> QED
    BY <2>1, <2>2
<1>7. GroupEnds(q, t, a, hs)
  BY <1>3, <1>5, <1>6 DEF GroupEnds
<1> QED
  BY <1>4, <1>5, <1>7 DEF hs, n

\* The sign has been read
SignRead ==
    /\ negative <=> SignEnd = 1 /\ text[1] # "+"
    /\ SignEnd = 1 /\ text[1] = "+" => opts.plus

\* The digits up to a position have been counted, and read as a number
Counted(to) ==
    /\ digitCount = Cardinality(Digits(text, SignEnd + 1, to))
    /\ coef = Number(text, SignEnd + 1, to)

\* The coefficient has been read, and checked
Mantissa(b, c) ==
    /\ IntegerDone(b) /\ FractionDone(b, c) /\ Counted(c)
    /\ digitCount > 0 /\ WellGrouped(text, SignEnd + 1, b)

\* The only reading of a text, in its parts
Parts(b, c, e) == [a |-> SignEnd, b |-> b, c |-> c, e |-> e]

\* And the number it writes
Outcome(c, e) ==
    LET power == Number(text, e + 1, Len(text))
    IN  [coef      |-> Signed(coef),
         digits    |-> digitCount,
         power     |-> power,
         expDigits |-> Len(text) - e,
         scale     |-> fracDigits - (IF e > c /\ text[e] = "-" THEN -power ELSE power)]

\* The exponent has been read to the end, or there is none
WholeExponent(c, e) ==
    \/ e = c /\ c = Len(text)
    \/ ExponentRead(c, e, Len(text)) /\ e < Len(text)

\* The parts the parser has read are a reading of the text, and it writes what the parser
\* has counted.
LEMMA ReadingIs ==
    ASSUME Readable, text \in Seq(STRING), SignRead, NEW b \in Nat, NEW c \in Nat, NEW e \in Nat,
           Mantissa(b, c), WholeExponent(c, e)
    PROVE  Readings(text) = {Parts(b, c, e)} /\ Reading(text, Parts(b, c, e)) = Outcome(c, e)
<1>1. Len(text) \in Nat /\ SignEnd \in {0, 1} /\ SignEnd <= Len(text)
  BY SignEnds
<1>2. IntegerDone(b) /\ FractionDone(b, c) /\ Counted(c) /\ digitCount > 0 /\ WellGrouped(text, SignEnd + 1, b)
  BY DEF Mantissa
<1>3. b \in SignEnd .. Len(text)
  BY <1>2 DEF IntegerDone, IntegerRead
<1>4. /\ c \in b .. Len(text)
      /\ c = b \/ (c >= b + 2 /\ text[b + 1] = DecimalSeparator /\ Digits(text, b + 2, c) = b + 2 .. c)
      /\ fracDigits = IF c = b THEN 0 ELSE c - b - 1
  <2>1. CASE c = b /\ fracDigits = 0
    BY <1>3, <2>1
  <2>2. CASE FractionRead(b, c) /\ fracDigits > 0
    <3>1. /\ text[b + 1] = DecimalSeparator /\ c \in b + 1 .. Len(text) /\ fracDigits = c - b - 1
          /\ \A k \in b + 2 .. c : IsDigit(text[k])
      BY <2>2 DEF FractionRead
    <3>2. c >= b + 2
      BY <1>1, <1>3, <2>2, <3>1
    <3>3. Digits(text, b + 2, c) = b + 2 .. c
      BY <3>1, DigitsAreGrouped
    <3> QED
      BY <1>1, <3>1, <3>2, <3>3
  <2> QED
    BY <1>2, <2>1, <2>2 DEF FractionDone
<1>5. c > SignEnd
  <2>1. c < SignEnd + 1 => Cardinality(Digits(text, SignEnd + 1, c)) = 0
    BY <1>1, CountStep
  <2> QED
    BY <1>1, <1>2, <2>1 DEF Counted
<1>6. HasExponent(text, c, e) /\ e \in c .. Len(text)
  <2>1. CASE e = c /\ c = Len(text)
    BY <1>1, <2>1 DEF HasExponent
  <2>2. CASE ExponentRead(c, e, Len(text)) /\ e < Len(text)
    <3>1. /\ c < Len(text) /\ text[c + 1] \in {"e", "E"} /\ e \in {c + 1, c + 2}
          /\ e = c + 2 => text[c + 2] \in {"-", "+"}
          /\ \A k \in e + 1 .. Len(text) : IsDigit(text[k])
      BY <1>1, <2>2 DEF ExponentRead
    <3>2. Digits(text, e + 1, Len(text)) = e + 1 .. Len(text)
      BY <1>1, <3>1, DigitsAreGrouped
    <3> QED
      BY <1>1, <2>2, <3>1, <3>2 DEF HasExponent
  <2> QED
    BY <2>1, <2>2 DEF WholeExponent
<1>7. SignEnd = 1 => /\ text[1] \in {"-", "+", "minus"} /\ (text[1] = "minus" => opts.unicodeMinus)
                     /\ text[1] = "+" => opts.plus
  BY DEF SignEnd, SignLength, Signs, SignRead
<1>8. IsNumeral(text, SignEnd, b, c)
  <2>1. \/ SignEnd = 0
        \/ SignEnd = 1 /\ (text[1] = "-" \/ (opts.plus /\ text[1] = "+") \/ (opts.unicodeMinus /\ text[1] = "minus"))
    BY <1>1, <1>7
  <2> QED
    BY <1>2, <1>4, <1>5, <2>1 DEF IsNumeral
<1> DEFINE r == Parts(b, c, e)
<1>9. r.a = SignEnd /\ r.b = b /\ r.c = c /\ r.e = e
  BY DEF Parts
<1>10. r \in [a : 0 .. 1, b : 0 .. Len(text), c : 0 .. Len(text), e : 0 .. Len(text)]
  <2>1. SignEnd \in 0 .. 1 /\ b \in 0 .. Len(text) /\ c \in 0 .. Len(text) /\ e \in 0 .. Len(text)
    BY <1>1, <1>3, <1>4, <1>6
  <2> QED
    BY <2>1 DEF Parts
<1>11. r \in Readings(text)
  <2>1. r.a <= r.b /\ r.b <= r.c /\ r.c <= r.e
    BY <1>1, <1>3, <1>4, <1>6, <1>9
  <2>2. IsNumeral(text, r.a, r.b, r.c) /\ HasExponent(text, r.c, r.e)
    BY <1>6, <1>8, <1>9
  <2> HIDE DEF r
  <2> QED
    BY <1>10, <2>1, <2>2 DEF Readings
<1>12. ASSUME NEW s \in Readings(text) PROVE s = r
  <2>1. s.a = SignEnd /\ s.b = b /\ s.c = c
    BY <1>2, IntegerEnds, FractionEnds
  <2>2. s.e = e
    <3>1. CASE e = c /\ c = Len(text)
      BY <1>2, <3>1, ExponentEnds
    <3>2. CASE ExponentRead(c, e, Len(text))
      BY <1>1, <1>2, <3>2, ExponentEnds
    <3> QED
      BY <3>1, <3>2 DEF WholeExponent
  <2>3. s \in [a : 0 .. 1, b : 0 .. Len(text), c : 0 .. Len(text), e : 0 .. Len(text)]
    BY DEF Readings
  <2>4. s = [a |-> s.a, b |-> s.b, c |-> s.c, e |-> s.e]
    BY <2>3
  <2> QED
    BY <2>1, <2>2, <2>4 DEF Parts
<1>13. Readings(text) = {r}
  BY <1>11, <1>12
<1>14. Reading(text, r) = Outcome(c, e)
  <2> HIDE DEF r
  <2>1. (IF r.a = 1 /\ text[1] # "+" THEN -Number(text, r.a + 1, r.c) ELSE Number(text, r.a + 1, r.c)) = Signed(coef)
    BY <1>1, <1>2, <1>9 DEF Counted, Signed, SignRead
  <2>2. Cardinality(Digits(text, r.a + 1, r.c)) = digitCount
    BY <1>2, <1>9 DEF Counted
  <2>3. (IF r.c = r.b THEN 0 ELSE r.c - r.b - 1) = fracDigits
    BY <1>4, <1>9
  <2> QED
    BY <1>9, <2>1, <2>2, <2>3 DEF Reading, Outcome
<1> QED
  BY <1>13, <1>14

-----------------------------------------------------------------------------
(* What may be returned *)

\* An answer the properties allow
Right(answer) ==
    /\ answer.val.scale \in 0 .. MaxScale
    /\ IF answer.err = "nil"
         THEN \E n \in Written : WithinLimits(n) /\ FitsScale(n) /\ answer.val = Decoded(n)
         ELSE ~\E n \in Written : WithinLimits(n) /\ FitsScale(n)
    /\ answer.err = "ErrInvalidSyntax" => Written = {}
    /\ answer.err = "ErrLimitExceeded" => ~\E n \in Written : WithinLimits(n)
    /\ answer.err = "ErrInvalidScale"  => ~\E n \in Written : FitsScale(n)

ParsedRight == ParseIsMeaning /\ ErrorsAreHonest /\ result.scale \in 0 .. MaxScale

\* The text and the options decide what a text writes.
LEMMA SameWritten ==
    ASSUME UNCHANGED <<text, opts>>
    PROVE  Written' = Written /\ \A n : WithinLimits(n)' <=> WithinLimits(n)
BY DEF Written, SeparatorsDiffer, DecimalSeparator, Readings, IsNumeral, WellGrouped, IsSeparator, WithinLimits

\* An answer that is right makes what is returned right.
LEMMA ReturnRight ==
    ASSUME NEW answer, Return(answer), Right(answer)
    PROVE  ParsedRight'
<1>1. UNCHANGED <<text, opts>> /\ pc' = "done" /\ result' = answer.val /\ err' = answer.err
  BY DEF Return, input
<1>2. Written' = Written /\ \A n : WithinLimits(n)' <=> WithinLimits(n)
  BY <1>1, SameWritten
<1>3. ParseIsMeaning'
  BY <1>1, <1>2 DEF ParseIsMeaning, Right
<1>4. ErrorsAreHonest'
  BY <1>1, <1>2 DEF ErrorsAreHonest, Right
<1> QED
  BY <1>1, <1>3, <1>4 DEF ParsedRight, Right

\* A parser that runs on has nothing to answer for.
LEMMA RunsOnRight ==
    ASSUME pc' # "done", result' = result, ParsedRight
    PROVE  ParsedRight'
BY DEF ParsedRight, ParseIsMeaning, ErrorsAreHonest

\* The refusals
LEMMA RefusedRight ==
    /\ Written = {} => Right(Fail("ErrInvalidSyntax")) /\ Right(Fail("ErrNonFiniteFloat"))
    /\ (\A n \in Written : ~WithinLimits(n)) => Right(Fail("ErrLimitExceeded"))
    /\ (\A n \in Written : ~FitsScale(n)) => Right(Fail("ErrInvalidScale"))
<1>1. \A e : Fail(e).err = e /\ Fail(e).val.scale = 0
  BY DEF Fail, ZeroValue, Dec
<1>2. 0 \in 0 .. MaxScale
  BY MaxScaleAssumption
<1> QED
  BY <1>1, <1>2 DEF Right

\* What has no reading writes nothing.
LEMMA NothingWritten == (SeparatorsDiffer => \A r \in Readings(text) : FALSE) => Written = {}
BY DEF Written

-----------------------------------------------------------------------------
(* The invariant: in each place of the parsers, what has been read so far *)

Unread    == pos = 1 /\ negative = FALSE /\ coef = 0 /\ digitCount = 0 /\ fracDigits = 0 /\ seenPoint = FALSE
Ungrouped == groupLen = 0 /\ groups = <<>>
Unscaled  == expNegative = FALSE /\ exp = 0 /\ expDigits = 0

\* Where the options come from, and when they have been checked
OptionsInv ==
    /\ opts \in OptionSets \cup {DefaultOptions, FlexibleOptions}
    /\ pc \in {"bytes", "simple", "bytesLoop", "simpleLoop"} => opts = DefaultOptions
    /\ pc \notin {"options", "done"} => SeparatorsDiffer

StartInv == pc \in {"bytes", "simple", "options", "sign"} => Unread /\ Ungrouped /\ Unscaled

\* A Unicode minus sign is no character of the fast path, which gives up at once.
FastRead ==
    \/ text # <<>> /\ text[1] = "minus" /\ pos = 1
    \/ /\ SignRead /\ Counted(pos - 1) /\ digitCount <= FastDigits
       /\ IF seenPoint THEN \E b \in Nat : IntegerDone(b) /\ FractionRead(b, pos - 1)
          ELSE /\ fracDigits = 0 /\ pos - 1 \in SignEnd .. Len(text)
               /\ \A k \in SignEnd + 1 .. pos - 1 : IsDigit(text[k])
FastInv == InSimpleLoop => Ungrouped /\ Unscaled /\ FastRead

\* Groups end before the positions p, and the digits of another one before the next character
OpenGroup(p) ==
    /\ groupLen \in Nat /\ GroupEnds(p, text, SignEnd, groups)
    /\ \A i \in 1 .. Len(groups) : IsSeparator(text[p[i]])
    /\ pos = p[Len(groups)] + groupLen + 1
    /\ \A k \in p[Len(groups)] + 1 .. pos - 1 : IsDigit(text[k])

IntegerInv ==
    pc = "integer" =>
        /\ SignRead /\ Unscaled /\ fracDigits = 0
        /\ Counted(pos - 1) /\ IntegerRead(pos - 1)
        /\ \E p : OpenGroup(p)

FractionInv ==
    pc = "fraction" =>
        /\ SignRead /\ Unscaled /\ Counted(pos - 1)
        /\ \E b \in Nat : IntegerDone(b) /\ FractionRead(b, pos - 1)

ExponentInv ==
    pc = "exponent" =>
        /\ SignRead /\ Unscaled /\ Counted(pos - 1)
        /\ \E b \in Nat : IntegerDone(b) /\ FractionDone(b, pos - 1)

\* The digits of the exponent up to the next character
PowerRead(c, e) ==
    /\ ExponentRead(c, e, pos - 1)
    /\ expNegative <=> text[e] = "-"
    /\ exp = Number(text, e + 1, pos - 1) /\ expDigits = pos - 1 - e
    /\ opts.maxExponentDigits > 0 => expDigits <= opts.maxExponentDigits

ExpDigitsInv ==
    pc = "expDigits" => SignRead /\ \E b, c, e \in Nat : Mantissa(b, c) /\ PowerRead(c, e)

\* The exponent, or none
PowerDone(c, e) ==
    \/ Unscaled /\ e = c /\ pos = c + 1 /\ (pos <= Len(text) => text[pos] \notin {"e", "E"})
    \/ /\ PowerRead(c, e) /\ expDigits > 0 /\ exp <= MaxScale
       /\ pos <= Len(text) => ~IsDigit(text[pos])

FinishInv ==
    pc = "finish" => SignRead /\ \E b, c, e \in Nat : Mantissa(b, c) /\ PowerDone(c, e)

ParserInv ==
    /\ TypeOK /\ OptionsInv /\ StartInv /\ FastInv /\ IntegerInv /\ FractionInv /\ ExponentInv
    /\ ExpDigitsInv /\ FinishInv /\ ParsedRight

-----------------------------------------------------------------------------
(* What a step leaves as it was *)

\* The same text and options have the same sign and the same separators.
LEMMA SameText ==
    ASSUME UNCHANGED <<text, opts>>
    PROVE  /\ SignEnd' = SignEnd /\ DecimalSeparator' = DecimalSeparator
           /\ SeparatorsDiffer' <=> SeparatorsDiffer
           /\ \A c : IntegerChar(c)' <=> IntegerChar(c)
           /\ \A c : IsSeparator(c)' <=> IsSeparator(c)
           /\ \A to : IntegerRead(to)' <=> IntegerRead(to)
           /\ \A from, to : WellGrouped(text, from, to)' <=> WellGrouped(text, from, to)
           /\ \A c, e, to : ExponentRead(c, e, to)' <=> ExponentRead(c, e, to)
<1>1. DecimalSeparator' = DecimalSeparator /\ (SeparatorsDiffer' <=> SeparatorsDiffer)
  BY DEF DecimalSeparator, SeparatorsDiffer
<1>2. SignEnd' = SignEnd
  BY DEF SignEnd, SignLength, Signs
<1>3. \A c : IsSeparator(c)' <=> IsSeparator(c)
  BY DEF IsSeparator
<1>4. \A c : IntegerChar(c)' <=> IntegerChar(c)
  BY <1>3 DEF IntegerChar
<1>5. \A to : IntegerRead(to)' <=> IntegerRead(to)
  BY <1>2, <1>4 DEF IntegerRead
<1>6. \A from, to : WellGrouped(text, from, to)' <=> WellGrouped(text, from, to)
  BY <1>3 DEF WellGrouped
<1>7. \A c, e, to : ExponentRead(c, e, to)' <=> ExponentRead(c, e, to)
  BY DEF ExponentRead
<1> QED
  BY <1>1, <1>2, <1>3, <1>4, <1>5, <1>6, <1>7

\* The integer part is read as before.
LEMMA SameInteger ==
    ASSUME UNCHANGED <<text, opts, groups>>
    PROVE  \A b : IntegerDone(b)' <=> IntegerDone(b)
BY SameText DEF IntegerDone

\* The fraction is read as before.
LEMMA SameFraction ==
    ASSUME UNCHANGED <<text, opts, fracDigits>>
    PROVE  /\ \A b, to : FractionRead(b, to)' <=> FractionRead(b, to)
           /\ \A b, c : FractionDone(b, c)' <=> FractionDone(b, c)
<1>1. \A b, to : FractionRead(b, to)' <=> FractionRead(b, to)
  BY SameText DEF FractionRead
<1> QED
  BY <1>1, SameText DEF FractionDone

\* The digits counted are those counted before.
LEMMA SameCount ==
    ASSUME UNCHANGED <<text, opts, coef, digitCount>>
    PROVE  \A to : Counted(to)' <=> Counted(to)
BY SameText DEF Counted

\* The sign is read as before.
LEMMA SameSign ==
    ASSUME UNCHANGED <<text, opts, negative>>
    PROVE  SignRead' <=> SignRead
BY SameText DEF SignRead

\* The sign, the integer part and the fraction are read as before.
LEMMA SameMantissa ==
    ASSUME UNCHANGED <<text, opts, coef, digitCount, fracDigits, groups>>
    PROVE  \A b, c : Mantissa(b, c)' <=> Mantissa(b, c)
BY SameText, SameInteger, SameFraction, SameCount DEF Mantissa

\* What the next character is
LEMMA PeekIs ==
    ASSUME TypeOK
    PROVE  /\ AtEnd <=> pos = Len(text) + 1
           /\ AtEnd => Peek = "end"
           /\ ~AtEnd => pos \in 1 .. Len(text) /\ Peek = text[pos]
           /\ IsDigit(Peek) => ~AtEnd
<1>1. pos \in 1 .. Len(text) + 1 /\ Len(text) \in Nat
  BY DEF TypeOK
<1>2. ~IsDigit("end")
  BY DigitsAreReserved
<1> QED
  BY <1>1, <1>2 DEF Peek, AtEnd

\* A digit more
LEMMA DigitTaken ==
    ASSUME TypeOK, IsDigit(Peek), TakeDigit, UNCHANGED <<text, opts>>, Counted(pos - 1), SignEnd <= pos - 1
    PROVE  /\ pos' = pos + 1 /\ pos \in 1 .. Len(text) /\ IsDigit(text[pos])
           /\ Counted(pos - 1)' /\ digitCount' = digitCount + 1
           /\ digitCount' \in Nat /\ coef' \in 0 .. Powers(10)[digitCount'] - 1
           /\ pos' \in 1 .. Len(text) + 1
           /\ Cardinality(Digits(text, SignEnd + 1, pos)) = digitCount + 1
<1>1. pos \in 1 .. Len(text) + 1 /\ Len(text) \in Nat /\ digitCount \in Nat /\ coef \in 0 .. Powers(10)[digitCount] - 1
  BY DEF TypeOK
<1>2. pos' = pos + 1 /\ digitCount' = digitCount + 1 /\ coef' = 10 * coef + DigitValue[Peek]
  BY DEF TakeDigit
<1>3. pos <= Len(text) /\ Peek = text[pos]
  BY PeekIs
<1>4. DigitValue[Peek] \in 0 .. 9 /\ IsDigit(text[pos])
  BY <1>3, DigitValues
<1>5. SignEnd \in Nat /\ SignEnd + 1 \in Nat /\ SignEnd + 1 > 0 /\ pos - 1 \in Nat /\ (pos - 1) + 1 = pos
  BY <1>1, SignEnds
<1>6. /\ Cardinality(Digits(text, SignEnd + 1, pos)) = digitCount + 1
      /\ Number(text, SignEnd + 1, pos) = 10 * coef + DigitValue[Peek]
  <2> DEFINE from == SignEnd + 1
             to == pos - 1
  <2>1. from \in Nat /\ from > 0 /\ to \in Nat /\ to + 1 >= from /\ to + 1 = pos /\ IsDigit(text[to + 1])
    BY <1>4, <1>5
  <2>2. digitCount = Cardinality(Digits(text, from, to)) /\ coef = Number(text, from, to)
    BY DEF Counted
  <2> HIDE DEF from, to
  <2>3. Cardinality(Digits(text, from, to + 1)) = Cardinality(Digits(text, from, to)) + 1
    BY <2>1, CountStep
  <2>4. Number(text, from, to + 1) = 10 * Number(text, from, to) + DigitValue[text[to + 1]]
    BY <2>1, NumberStep
  <2>5. Number(text, from, pos) = 10 * coef + DigitValue[Peek]
    BY <1>3, <2>1, <2>2, <2>4
  <2> QED
    BY <2>1, <2>2, <2>3, <2>5 DEF from
<1>7. Counted(pos - 1)'
  <2>1. SignEnd' = SignEnd /\ pos' - 1 = pos
    BY <1>1, <1>2, SameText
  <2> QED
    BY <1>2, <1>6, <2>1 DEF Counted
<1>8. coef' \in 0 .. Powers(10)[digitCount'] - 1
  <2>1. Powers(10)[digitCount + 1] = 10 * Powers(10)[digitCount] /\ Powers(10)[digitCount] \in Nat
    <3>1. 10 \in Int /\ 10 \in Nat /\ 10 > 1
      OBVIOUS
    <3>2. Powers(10)[digitCount + 1] = 10 * Powers(10)[digitCount]
      BY <1>1, <3>1, PowersStep
    <3>3. Powers(10)[digitCount] \in Nat
      BY <1>1, <3>1, PowersAreNatural
    <3> QED
      BY <3>2, <3>3
  <2> DEFINE P == Powers(10)[digitCount]
             Q == Powers(10)[digitCount + 1]
             d == DigitValue[Peek]
  <2> HIDE DEF P, Q, d
  <2>2. Q = 10 * P /\ P \in Nat /\ coef \in 0 .. P - 1 /\ d \in 0 .. 9
    BY <1>1, <1>4, <2>1 DEF P, Q, d
  <2>3. 10 * coef + d \in 0 .. Q - 1
    BY <2>2
  <2> QED
    BY <1>2, <2>3 DEF Q, d
<1> QED
  BY <1>1, <1>2, <1>3, <1>4, <1>6, <1>7, <1>8

\* The options of a call allow its text to be read.
LEMMA OptionsAre ==
    /\ OptionsInv => opts \in OptionsType
    /\ OptionsInv /\ SeparatorsDiffer => Readable
    /\ opts = DefaultOptions => /\ SeparatorsDiffer /\ DecimalSeparator = "." /\ opts.plus /\ opts.unicodeMinus
                                /\ ~opts.trimSpace /\ \A c : ~IsSeparator(c)
<1>1. DefaultOptions \in OptionsType /\ OptionSets \subseteq OptionsType /\ FlexibleOptions \in OptionsType
  BY ParserAssumption
<1>2. FlexibleOptions.decimalSeparator = "." /\ FlexibleOptions.thousandsSeparator = ","
  <2>1. DefaultOptions.decimalSeparator = "."
    BY ParserAssumption
  <2> QED
    BY <1>1, <2>1 DEF FlexibleOptions, OptionsType
<1>3. OptionsInv => opts \in OptionsType
  BY <1>1 DEF OptionsInv
<1>4. ASSUME OptionsInv
      PROVE  opts.decimalSeparator \notin Reserved /\ opts.thousandsSeparator \notin Reserved
  <2>1. CASE opts \in OptionSets
    BY <2>1, ParserAssumption
  <2>2. CASE opts = DefaultOptions
    BY <2>2, ParserAssumption, DigitsAreReserved
  <2>3. CASE opts = FlexibleOptions
    BY <1>2, <2>3, DigitsAreReserved
  <2> QED
    BY <1>4, <2>1, <2>2, <2>3 DEF OptionsInv
<1>5. ASSUME OptionsInv, SeparatorsDiffer PROVE Readable
  <2>1. DecimalSeparator \notin Reserved
    BY <1>4, <1>5, DigitsAreReserved DEF DecimalSeparator
  <2> QED
    BY <1>3, <1>4, <1>5, <2>1 DEF Readable
<1>6. ASSUME opts = DefaultOptions
      PROVE  /\ SeparatorsDiffer /\ DecimalSeparator = "." /\ opts.plus /\ opts.unicodeMinus
             /\ ~opts.trimSpace /\ \A c : ~IsSeparator(c)
  BY <1>6, ParserAssumption DEF SeparatorsDiffer, DecimalSeparator, IsSeparator
<1> QED
  BY <1>3, <1>5, <1>6

-----------------------------------------------------------------------------
(* Steps that return or start over *)

\* A parser returns a right answer.
LEMMA ReturnKeeps ==
    ASSUME ParserInv, NEW answer, Return(answer), Right(answer)
    PROVE  ParserInv'
<1>1. /\ UNCHANGED <<text, opts, pos, digitCount, fracDigits, coef>>
      /\ pc' = "done" /\ result' = answer.val
  BY DEF Return, input, number
<1>2. TypeOK'
  BY <1>1 DEF ParserInv, TypeOK, Right
<1>3. ParsedRight'
  BY ReturnRight
<1>4. OptionsInv'
  BY <1>1 DEF ParserInv, OptionsInv
<1>5. /\ StartInv' /\ FastInv' /\ IntegerInv' /\ FractionInv' /\ ExponentInv' /\ ExpDigitsInv' /\ FinishInv'
  BY <1>1 DEF StartInv, FastInv, InSimpleLoop, IntegerInv, FractionInv, ExponentInv, ExpDigitsInv, FinishInv
<1> QED
  BY <1>2, <1>3, <1>4, <1>5 DEF ParserInv

\* A text without readings is a syntax error.
LEMMA RejectKeeps ==
    ASSUME ParserInv, Reject, SeparatorsDiffer => \A r \in Readings(text) : FALSE
    PROVE  ParserInv'
<1>1. Right(Fail("ErrInvalidSyntax"))
  BY NothingWritten, RefusedRight
<1> QED
  BY <1>1, ReturnKeeps DEF Reject

\* A step that does not return, and what it has to show
LEMMA GoesOn ==
    ASSUME ParserInv, UNCHANGED <<opts, result>>, pc' # "done", TypeOK',
           pc' \in {"bytes", "simple", "bytesLoop", "simpleLoop"} => opts = DefaultOptions,
           pc' # "options" => SeparatorsDiffer'
    PROVE  TypeOK' /\ OptionsInv' /\ ParsedRight'
<1>1. ParsedRight'
  BY RunsOnRight DEF ParserInv
<1>2. OptionsInv'
  BY DEF ParserInv, OptionsInv
<1> QED
  BY <1>1, <1>2

\* The first digits
LEMMA NothingCounted ==
    ASSUME coef = 0, digitCount = 0
    PROVE  Counted(SignEnd)
<1>1. SignEnd \in Nat /\ SignEnd + 1 \in Nat /\ SignEnd + 1 > 0 /\ SignEnd < SignEnd + 1
  BY SignEnds
<1>2. Cardinality(Digits(text, SignEnd + 1, SignEnd)) = 0
  BY <1>1, CountStep
<1>3. Number(text, SignEnd + 1, SignEnd) = 0
  BY <1>1, NumberStep
<1> QED
  BY <1>2, <1>3 DEF Counted

\* A digit that has been read has been counted.
LEMMA DigitIsCounted ==
    ASSUME NEW to \in Nat, Counted(to), NEW k \in SignEnd + 1 .. to, IsDigit(text[k])
    PROVE  digitCount > 0
<1>1. SignEnd \in Nat /\ SignEnd + 1 \in Nat
  BY SignEnds
<1>2. k \in Digits(text, SignEnd + 1, to) /\ IsFiniteSet(Digits(text, SignEnd + 1, to))
  <2>1. IsFiniteSet(SignEnd + 1 .. to) /\ Digits(text, SignEnd + 1, to) \subseteq SignEnd + 1 .. to
    BY <1>1, FS_Interval DEF Digits
  <2> QED
    BY <2>1, FS_Subset DEF Digits
<1>3. Cardinality(Digits(text, SignEnd + 1, to)) # 0 /\ Cardinality(Digits(text, SignEnd + 1, to)) \in Nat
  BY <1>2, FS_EmptySet, FS_CardinalityType
<1> QED
  BY <1>3 DEF Counted

\* Without digits there is no reading.
LEMMA NoDigits ==
    ASSUME NEW t \in Seq(STRING), \A k \in 1 .. Len(t) : ~IsDigit(t[k])
    PROVE  \A r \in Readings(t) : FALSE
BY ReadingHasDigit

\* The fast path starts after the sign, or refuses a text that has nothing else.
LEMMA StartKeeps ==
    ASSUME ParserInv, SimpleStart
    PROVE  ParserInv'
<1>1. pc \in {"bytes", "simple"} /\ Unread /\ Ungrouped /\ Unscaled /\ opts = DefaultOptions /\ SeparatorsDiffer
  BY DEF SimpleStart, ParserInv, StartInv, OptionsInv
<1>2. TypeOK /\ text \in Seq(STRING) /\ Len(text) \in Nat
  BY DEF ParserInv, TypeOK
<1>3. \A c \in {"-", "+", "minus", "."} : ~IsDigit(c)
  BY DigitsAreReserved
<1> DEFINE sign == Peek \in {"-", "+"}
<1>4. CASE text = <<>> \/ (sign /\ Len(text) = 1)
  <2>1. Reject
    BY <1>4 DEF SimpleStart
  <2>2. \A k \in 1 .. Len(text) : ~IsDigit(text[k])
    <3>1. CASE text = <<>>
      BY <3>1
    <3>2. CASE sign /\ Len(text) = 1
      <4>1. pos = 1 /\ Peek = text[1]
        BY <1>1, <1>2, <3>2, PeekIs DEF Unread
      <4> QED
        BY <1>3, <3>2, <4>1
    <3> QED
      BY <1>4, <3>1, <3>2
  <2>3. \A r \in Readings(text) : FALSE
    BY <1>2, <2>2, NoDigits
  <2> QED
    BY <2>1, <2>3, RejectKeeps
<1>5. CASE ~(text = <<>> \/ (sign /\ Len(text) = 1))
  <2>1. /\ pc' \in {"bytesLoop", "simpleLoop"} /\ negative' = (Peek = "-") /\ pos' = IF sign THEN 2 ELSE 1
        /\ UNCHANGED <<text, opts, coef, digitCount, fracDigits, seenPoint, groupLen, groups, expNegative, exp,
                       expDigits, result>>
    BY <1>5 DEF SimpleStart, input, grouped, expo
  <2>2. Len(text) >= 1 /\ Peek = text[1]
    <3>1. Len(text) >= 1
      BY <1>2, <1>5
    <3> QED
      BY <1>1, <1>2, <3>1, PeekIs DEF Unread
  <2>3. TypeOK'
    <3>1. pos' \in 1 .. Len(text) + 1
      BY <1>2, <1>5, <2>1, <2>2
    <3> QED
      BY <1>2, <2>1, <3>1 DEF TypeOK
  <2>4. SeparatorsDiffer'
    BY <1>1, <2>1, SameText
  <2>5. TypeOK' /\ OptionsInv' /\ ParsedRight'
    BY <1>1, <2>1, <2>3, <2>4, GoesOn
  <2>6. FastInv'
    <3>1. Ungrouped' /\ Unscaled'
      BY <1>1, <2>1 DEF Ungrouped, Unscaled
    <3>2. CASE text[1] = "minus"
      <4>1. FastRead'
        BY <1>5, <2>1, <2>2, <3>2 DEF FastRead
      <4> QED
        BY <3>1, <4>1 DEF FastInv
    <3>3. CASE text[1] # "minus"
      <4>1. Signs = {"-", "+", "minus"} /\ opts.plus
        BY <1>1, OptionsAre DEF Signs
      <4>2. SignEnd = (IF sign THEN 1 ELSE 0) /\ SignEnd' = SignEnd /\ SignEnd \in 0 .. Len(text)
        BY <1>5, <2>1, <2>2, <3>3, <4>1, SameText DEF SignEnd, SignLength
      <4>3. pos' - 1 = SignEnd
        BY <2>1, <4>2
      <4>4. SignRead'
        <5>1. negative' <=> text[1] = "-"
          BY <2>1, <2>2
        <5>2. SignEnd' = 1 <=> text[1] \in {"-", "+"}
          BY <2>2, <4>2
        <5>3. text' = text /\ opts'.plus
          BY <2>1, <4>1
        <5> QED
          BY <5>1, <5>2, <5>3 DEF SignRead
      <4>5. Counted(pos - 1)' /\ digitCount' = 0 /\ fracDigits' = 0 /\ seenPoint' = FALSE
        <5>1. Counted(SignEnd)
          BY <1>1, NothingCounted DEF Unread
        <5> QED
          BY <1>1, <2>1, <4>2, <4>3, <5>1 DEF Counted, Unread
      <4>6. FastDigits \in Nat
        BY ParserAssumption
      <4>7. FastRead'
        BY <2>1, <4>2, <4>3, <4>4, <4>5, <4>6 DEF FastRead
      <4> QED
        BY <3>1, <4>7 DEF FastInv
    <3> QED
      BY <3>2, <3>3
  <2> QED
    BY <2>1, <2>5, <2>6 DEF ParserInv, StartInv, IntegerInv, FractionInv, ExponentInv, ExpDigitsInv, FinishInv
<1> QED
  BY <1>4, <1>5

\* A parser that gives up leaves nothing of what it read to the next.
LEMMA GiveUpKeeps ==
    ASSUME ParserInv, InSimpleLoop, GiveUp
    PROVE  ParserInv'
<1>1. Ungrouped /\ Unscaled /\ opts = DefaultOptions /\ SeparatorsDiffer
  BY DEF ParserInv, FastInv, OptionsInv, InSimpleLoop
<1>2. /\ pc' \in {"simple", "options"}
      /\ pos' = 1 /\ negative' = FALSE /\ coef' = 0 /\ digitCount' = 0 /\ fracDigits' = 0 /\ seenPoint' = FALSE
      /\ UNCHANGED <<text, opts, groupLen, groups, expNegative, exp, expDigits, result>>
  BY DEF GiveUp, input, grouped, expo
<1>3. StartInv'
  BY <1>1, <1>2 DEF StartInv, Unread, Ungrouped, Unscaled
<1>4. TypeOK'
  <2>1. Len(text) \in Nat /\ text \in Seq(STRING) /\ opts \in OptionsType /\ result.scale \in 0 .. MaxScale
    BY DEF ParserInv, TypeOK
  <2>2. Powers(10)[0] = 1
    BY PowersStep
  <2>3. coef' \in 0 .. Powers(10)[digitCount'] - 1
    BY <1>2, <2>2
  <2> QED
    BY <1>2, <2>1, <2>3 DEF TypeOK
<1>5. SeparatorsDiffer'
  BY <1>1, <1>2, SameText
<1>6. TypeOK' /\ OptionsInv' /\ ParsedRight'
  BY <1>1, <1>2, <1>4, <1>5, GoesOn
<1> QED
  BY <1>2, <1>3, <1>6
     DEF ParserInv, FastInv, InSimpleLoop, IntegerInv, FractionInv, ExponentInv, ExpDigitsInv, FinishInv

\* What the fast path reads unless a Unicode minus sign makes it give up
LEMMA FastReads ==
    ASSUME ParserInv, InSimpleLoop, AtEnd \/ Peek # "minus"
    PROVE  /\ SignRead /\ Counted(pos - 1) /\ digitCount <= FastDigits
           /\ seenPoint => \E b \in Nat : IntegerDone(b) /\ FractionRead(b, pos - 1)
           /\ ~seenPoint => /\ fracDigits = 0 /\ IntegerRead(pos - 1)
                            /\ \A k \in SignEnd + 1 .. pos - 1 : IsDigit(text[k])
           /\ Ungrouped /\ Unscaled /\ opts = DefaultOptions /\ Readable /\ SignEnd <= pos - 1
<1>1. Ungrouped /\ Unscaled /\ FastRead /\ opts = DefaultOptions /\ SeparatorsDiffer /\ TypeOK
  BY DEF ParserInv, FastInv, OptionsInv, InSimpleLoop
<1>2. text \in Seq(STRING) /\ Len(text) \in Nat
  BY <1>1 DEF TypeOK
<1>3. ~(text # <<>> /\ text[1] = "minus" /\ pos = 1)
  <2>1. SUFFICES ASSUME text # <<>>, text[1] = "minus", pos = 1 PROVE FALSE
    OBVIOUS
  <2>2. Len(text) >= 1
    BY <1>2, <2>1
  <2> QED
    BY <1>1, <2>1, <2>2, PeekIs
<1>4. /\ SignRead /\ Counted(pos - 1) /\ digitCount <= FastDigits
      /\ IF seenPoint THEN \E b \in Nat : IntegerDone(b) /\ FractionRead(b, pos - 1)
         ELSE /\ fracDigits = 0 /\ pos - 1 \in SignEnd .. Len(text)
              /\ \A k \in SignEnd + 1 .. pos - 1 : IsDigit(text[k])
  BY <1>1, <1>3 DEF FastRead
<1>5. Readable
  BY <1>1, OptionsAre DEF ParserInv
<1>6. SignEnd <= pos - 1
  <2>1. CASE seenPoint
    <3>1. PICK b \in Nat : IntegerDone(b) /\ FractionRead(b, pos - 1)
      BY <1>4, <2>1
    <3>2. b \in SignEnd .. Len(text) /\ pos - 1 \in b + 1 .. Len(text)
      BY <3>1 DEF IntegerDone, IntegerRead, FractionRead
    <3> QED
      BY <1>2, <3>2, SignEnds
  <2>2. CASE ~seenPoint
    BY <1>2, <1>4, <2>2, SignEnds
  <2> QED
    BY <2>1, <2>2
<1>7. ~seenPoint => IntegerRead(pos - 1)
  BY <1>4 DEF IntegerRead, IntegerChar
<1> QED
  BY <1>1, <1>4, <1>5, <1>6, <1>7

\* Digits alone are a whole integer part.
LEMMA IntegerOfDigits ==
    ASSUME NEW b \in Nat, Ungrouped, IntegerRead(b), \A k \in SignEnd + 1 .. b : IsDigit(text[k]),
           b < Len(text) => ~IntegerChar(text[b + 1])
    PROVE  IntegerDone(b) /\ WellGrouped(text, SignEnd + 1, b)
<1>1. SignEnd + 1 \in Nat
  BY SignEnds
<1>2. WellGrouped(text, SignEnd + 1, b)
  BY <1>1, DigitsAreGrouped
<1> QED
  BY <1>2 DEF IntegerDone, Ungrouped

\* A fraction grows by a digit.
LEMMA FractionGrows ==
    ASSUME NEW b \in Nat, FractionRead(b, pos - 1), pos \in 1 .. Len(text), IsDigit(text[pos]), Len(text) \in Nat,
           pos' = pos + 1, fracDigits' = fracDigits + 1, UNCHANGED <<text, opts>>
    PROVE  FractionRead(b, pos - 1)'
<1>1. /\ b < Len(text) /\ text[b + 1] = DecimalSeparator
      /\ pos - 1 \in b + 1 .. Len(text) /\ \A k \in b + 2 .. pos - 1 : IsDigit(text[k])
      /\ fracDigits = (pos - 1) - b - 1
  BY DEF FractionRead
<1>2. pos' - 1 = pos /\ DecimalSeparator' = DecimalSeparator
  BY SameText
<1>3. pos \in b + 1 .. Len(text) /\ \A k \in b + 2 .. pos : IsDigit(text[k])
  <2> SUFFICES ASSUME NEW k \in b + 2 .. pos PROVE IsDigit(text[k])
    BY <1>1
  <2>1. k = pos \/ k \in b + 2 .. pos - 1
    OBVIOUS
  <2> QED
    BY <1>1, <2>1
<1>4. fracDigits' = pos - b - 1
  BY <1>1
<1> QED
  BY <1>1, <1>2, <1>3, <1>4 DEF FractionRead

\* A character that is no digit is not counted.
LEMMA CharSkipped ==
    ASSUME Counted(pos - 1), pos \in Nat, SignEnd <= pos - 1, ~IsDigit(text[pos]), pos' = pos + 1,
           UNCHANGED <<text, opts, coef, digitCount>>
    PROVE  Counted(pos - 1)'
<1> DEFINE from == SignEnd + 1
           to == pos - 1
<1>1. from \in Nat /\ from > 0 /\ to \in Nat /\ to + 1 >= from /\ to + 1 = pos /\ pos' - 1 = to + 1
  BY SignEnds
<1>2. ~IsDigit(text[to + 1]) /\ SignEnd' = SignEnd
  BY <1>1, SameText
<1>3. digitCount = Cardinality(Digits(text, from, to)) /\ coef = Number(text, from, to)
  BY DEF Counted
<1> HIDE DEF from, to
<1>4. Number(text, from, to + 1) = Number(text, from, to)
  BY <1>1, <1>2, NumberStep
<1>5. Cardinality(Digits(text, from, to + 1)) = Cardinality(Digits(text, from, to))
  BY <1>1, <1>2, CountStep
<1>6. digitCount' = Cardinality(Digits(text, SignEnd + 1, to + 1)) /\ coef' = Number(text, SignEnd + 1, to + 1)
  BY <1>3, <1>4, <1>5 DEF from
<1> QED
  BY <1>1, <1>2, <1>6 DEF Counted

\* The fast path takes a digit, or gives up when it has too many.
LEMMA SimpleDigitKeeps ==
    ASSUME ParserInv, SimpleDigit
    PROVE  ParserInv'
<1>1. InSimpleLoop /\ IsDigit(Peek) /\ TypeOK
  BY DEF SimpleDigit, ParserInv
<1>2. CASE digitCount + 1 > FastDigits
  BY <1>1, <1>2, GiveUpKeeps DEF SimpleDigit
<1>3. CASE ~(digitCount + 1 > FastDigits)
  <2>1. /\ TakeDigit /\ fracDigits' = IF seenPoint THEN fracDigits + 1 ELSE fracDigits
        /\ UNCHANGED <<text, opts, pc, negative, seenPoint, groupLen, groups, expNegative, exp, expDigits, result>>
    BY <1>3 DEF SimpleDigit, input, grouped, expo
  <2>2. AtEnd \/ Peek # "minus"
    BY <1>1, DigitsAreReserved
  <2>3. /\ SignRead /\ Counted(pos - 1) /\ digitCount <= FastDigits
        /\ seenPoint => \E b \in Nat : IntegerDone(b) /\ FractionRead(b, pos - 1)
        /\ ~seenPoint => /\ fracDigits = 0 /\ IntegerRead(pos - 1)
                         /\ \A k \in SignEnd + 1 .. pos - 1 : IsDigit(text[k])
        /\ Ungrouped /\ Unscaled /\ opts = DefaultOptions /\ Readable /\ SignEnd <= pos - 1
    BY <1>1, <2>2, FastReads
  <2>4. /\ pos' = pos + 1 /\ pos \in 1 .. Len(text) /\ IsDigit(text[pos])
        /\ Counted(pos - 1)' /\ digitCount' = digitCount + 1
        /\ digitCount' \in Nat /\ coef' \in 0 .. Powers(10)[digitCount'] - 1
        /\ pos' \in 1 .. Len(text) + 1
    BY <1>1, <2>1, <2>3, DigitTaken
  <2>5. Len(text) \in Nat /\ digitCount \in Nat /\ fracDigits \in 0 .. digitCount /\ FastDigits \in Nat
    BY <1>1, ParserAssumption DEF TypeOK
  <2>6. TypeOK'
    <3>1. fracDigits' \in 0 .. digitCount'
      BY <2>1, <2>4, <2>5
    <3> QED
      BY <1>1, <2>1, <2>4, <3>1 DEF TypeOK
  <2>7. SeparatorsDiffer'
    BY <2>1, <2>3, SameText DEF Readable
  <2>8. TypeOK' /\ OptionsInv' /\ ParsedRight'
    BY <1>1, <2>1, <2>3, <2>6, <2>7, GoesOn DEF InSimpleLoop
  <2>9. FastRead'
    <3>1. SignRead' /\ digitCount' <= FastDigits /\ SignEnd' = SignEnd
      BY <1>3, <2>1, <2>3, <2>4, <2>5, SameSign, SameText
    <3>2. CASE seenPoint
      <4>1. PICK b \in Nat : IntegerDone(b) /\ FractionRead(b, pos - 1)
        BY <2>3, <3>2
      <4>2. FractionRead(b, pos - 1)'
        BY <2>1, <2>4, <2>5, <3>2, <4>1, FractionGrows
      <4>3. IntegerDone(b)'
        BY <2>1, <4>1, SameInteger
      <4>4. seenPoint'
        BY <2>1, <3>2
      <4> QED
        BY <2>4, <3>1, <4>2, <4>3, <4>4 DEF FastRead
    <3>3. CASE ~seenPoint
      <4>1. \A k \in SignEnd + 1 .. pos : IsDigit(text[k])
        <5> TAKE k \in SignEnd + 1 .. pos
        <5>1. k = pos \/ k \in SignEnd + 1 .. pos - 1
          BY <2>4, SignEnds
        <5> QED
          BY <2>3, <2>4, <3>3, <5>1
      <4>2. pos' - 1 = pos /\ pos \in SignEnd .. Len(text)
        BY <2>3, <2>4, <2>5, SignEnds
      <4>3. fracDigits' = 0 /\ ~seenPoint' /\ text' = text
        BY <2>1, <2>3, <3>3
      <4> QED
        BY <2>4, <3>1, <4>1, <4>2, <4>3 DEF FastRead
    <3> QED
      BY <3>2, <3>3
  <2>10. FastInv'
    BY <2>1, <2>3, <2>9 DEF FastInv, Ungrouped, Unscaled
  <2> QED
    BY <1>1, <2>1, <2>8, <2>10
       DEF ParserInv, InSimpleLoop, StartInv, IntegerInv, FractionInv, ExponentInv, ExpDigitsInv, FinishInv
<1> QED
  BY <1>2, <1>3

\* The fast path takes one point; a text with two is no numeral.
LEMMA SimplePointKeeps ==
    ASSUME ParserInv, SimplePoint
    PROVE  ParserInv'
<1>1. InSimpleLoop /\ Peek = "." /\ TypeOK
  BY DEF SimplePoint, ParserInv
<1>2. /\ SignRead /\ Counted(pos - 1) /\ digitCount <= FastDigits
      /\ seenPoint => \E b \in Nat : IntegerDone(b) /\ FractionRead(b, pos - 1)
      /\ ~seenPoint => /\ fracDigits = 0 /\ IntegerRead(pos - 1)
                       /\ \A k \in SignEnd + 1 .. pos - 1 : IsDigit(text[k])
      /\ Ungrouped /\ Unscaled /\ opts = DefaultOptions /\ Readable /\ SignEnd <= pos - 1
  BY <1>1, FastReads
<1>3. pos \in 1 .. Len(text) /\ Len(text) \in Nat /\ text \in Seq(STRING) /\ text[pos] = "."
  BY <1>1, PeekIs DEF TypeOK
<1>4. ~IsDigit(".") /\ "." \notin {"e", "E"} /\ DecimalSeparator = "." /\ ~IntegerChar(".") /\ SignEnd \in Nat
  <2>1. ~IsDigit(".") /\ "." \notin {"e", "E"}
    BY DigitsAreReserved
  <2>2. DecimalSeparator = "." /\ ~IsSeparator(".")
    BY <1>2, OptionsAre
  <2> QED
    BY <2>1, <2>2, SignEnds DEF IntegerChar
<1>5. CASE seenPoint
  <2>1. PICK b \in Nat : IntegerDone(b) /\ FractionRead(b, pos - 1)
    BY <1>2, <1>5
  <2>2. pos - 1 \in b + 1 .. Len(text) /\ fracDigits = (pos - 1) - b - 1
    BY <2>1 DEF FractionRead
  <2>3. ASSUME NEW r \in Readings(text) PROVE FALSE
    <3>1. r.c >= b + 2 /\ IsDigit(text[b + 2])
      BY <1>2, <1>3, <2>1, FractionEnds
    <3>2. pos # b + 2
      BY <1>3, <1>4, <3>1
    <3>3. fracDigits > 0 /\ pos - 1 \in Nat /\ (pos - 1) + 1 = pos
      BY <1>3, <2>2, <3>2
    <3>4. FractionDone(b, pos - 1)
      BY <1>3, <1>4, <2>1, <3>3 DEF FractionDone
    <3>5. text[pos] \in {"e", "E"}
      <4>1. pos - 1 < Len(text)
        BY <1>3
      <4> QED
        BY <1>2, <1>3, <2>1, <3>3, <3>4, <4>1, ExponentEnds
    <3> QED
      BY <1>3, <1>4, <3>5
  <2> QED
    BY <1>5, <2>3, RejectKeeps DEF SimplePoint
<1>6. CASE ~seenPoint
  <2>1. /\ seenPoint' = TRUE /\ pos' = pos + 1
        /\ UNCHANGED <<text, opts, pc, negative, coef, digitCount, fracDigits, groupLen, groups, expNegative, exp,
                       expDigits, result>>
    BY <1>6 DEF SimplePoint, input, grouped, expo
  <2>2. TypeOK'
    <3>1. pos' \in 1 .. Len(text) + 1
      BY <1>3, <2>1
    <3> QED
      BY <1>1, <2>1, <3>1 DEF TypeOK
  <2>3. SeparatorsDiffer'
    BY <1>2, <2>1, SameText DEF Readable
  <2>4. TypeOK' /\ OptionsInv' /\ ParsedRight'
    BY <1>1, <1>2, <2>1, <2>2, <2>3, GoesOn DEF InSimpleLoop
  <2>5. PICK b \in Nat : b = pos - 1 /\ b + 1 = pos /\ b < Len(text)
    BY <1>3
  <2>6. IntegerDone(b)
    BY <1>2, <1>3, <1>4, <1>6, <2>5, IntegerOfDigits
  <2>7. IntegerDone(b)'
    BY <2>1, <2>6, SameInteger
  <2>8. FractionRead(b, pos - 1)'
    <3>1. pos' - 1 = b + 1 /\ DecimalSeparator' = DecimalSeparator
      BY <2>1, <2>5, SameText
    <3>2. text'[b + 1] = DecimalSeparator /\ fracDigits' = 0 /\ b < Len(text')
      BY <1>2, <1>3, <1>4, <1>6, <2>1, <2>5
    <3>3. b + 1 \in b + 1 .. Len(text) /\ \A k \in b + 2 .. b + 1 : IsDigit(text[k])
      BY <1>3, <2>5
    <3> QED
      BY <2>1, <3>1, <3>2, <3>3 DEF FractionRead
  <2>9. seenPoint' /\ b \in Nat
    BY <2>1
  <2>10. Counted(pos - 1)'
    BY <1>2, <1>3, <1>4, <2>1, CharSkipped
  <2>11. FastRead'
    <3>1. SignRead' /\ digitCount' <= FastDigits
      BY <1>2, <2>1, SameSign
    <3> QED
      BY <2>7, <2>8, <2>9, <2>10, <3>1 DEF FastRead
  <2>12. FastInv'
    BY <1>2, <2>1, <2>11 DEF FastInv, Ungrouped, Unscaled
  <2> QED
    BY <1>1, <2>1, <2>4, <2>12
       DEF ParserInv, InSimpleLoop, StartInv, IntegerInv, FractionInv, ExponentInv, ExpDigitsInv, FinishInv
<1> QED
  BY <1>5, <1>6

\* The fast path leaves any other character to the full parser.
LEMMA SimpleOtherKeeps ==
    ASSUME ParserInv, SimpleOther
    PROVE  ParserInv'
BY GiveUpKeeps DEF SimpleOther

\* What the fast path has read to the end is a numeral, and within the limits.
LEMMA SimpleEndKeeps ==
    ASSUME ParserInv, SimpleEnd
    PROVE  ParserInv'
<1>1. InSimpleLoop /\ AtEnd /\ TypeOK
  BY DEF SimpleEnd, ParserInv
<1>2. /\ SignRead /\ Counted(pos - 1) /\ digitCount <= FastDigits
      /\ seenPoint => \E b \in Nat : IntegerDone(b) /\ FractionRead(b, pos - 1)
      /\ ~seenPoint => /\ fracDigits = 0 /\ IntegerRead(pos - 1)
                       /\ \A k \in SignEnd + 1 .. pos - 1 : IsDigit(text[k])
      /\ Ungrouped /\ Unscaled /\ opts = DefaultOptions /\ Readable /\ SignEnd <= pos - 1
  BY <1>1, FastReads
<1>3. Len(text) \in Nat /\ text \in Seq(STRING) /\ pos - 1 = Len(text) /\ digitCount \in Nat /\ fracDigits \in 0 .. digitCount
  BY <1>1, PeekIs DEF TypeOK
<1>4. CASE digitCount = 0
  <2>1. ASSUME NEW r \in Readings(text) PROVE FALSE
    <3>1. PICK k \in r.a + 1 .. r.c : k \in 1 .. Len(text) /\ IsDigit(text[k])
      BY <1>3, ReadingHasDigit
    <3>2. r.a = SignEnd /\ SignEnd \in Nat
      BY <1>2, <1>3, IntegerEnds, SignEnds
    <3>3. k \in SignEnd + 1 .. Len(text)
      BY <1>3, <3>1, <3>2
    <3>4. digitCount > 0
      BY <1>2, <1>3, <3>1, <3>3, DigitIsCounted
    <3> QED
      BY <1>4, <3>4
  <2> QED
    BY <1>4, <2>1, RejectKeeps DEF SimpleEnd
<1>5. CASE seenPoint /\ fracDigits = 0
  <2>1. PICK b \in Nat : IntegerDone(b) /\ FractionRead(b, pos - 1)
    BY <1>2, <1>5
  <2>2. b + 1 = Len(text)
    BY <1>3, <1>5, <2>1 DEF FractionRead
  <2>3. ASSUME NEW r \in Readings(text) PROVE FALSE
    <3>1. r.c >= b + 2
      BY <1>2, <1>3, <2>1, FractionEnds
    <3>2. r.c \in 0 .. Len(text)
      BY DEF Readings
    <3> QED
      BY <1>3, <2>2, <3>1, <3>2
  <2> QED
    BY <1>5, <2>3, RejectKeeps DEF SimpleEnd
<1>6. CASE digitCount # 0 /\ ~(seenPoint /\ fracDigits = 0)
  <2> DEFINE answer == Ok(Dec(Signed(coef), fracDigits))
  <2>1. Return(answer)
    BY <1>6 DEF SimpleEnd
  <2>2. PICK b \in Nat : IntegerDone(b) /\ FractionDone(b, Len(text)) /\ WellGrouped(text, SignEnd + 1, b)
    <3>1. CASE seenPoint
      <4>1. PICK b \in Nat : IntegerDone(b) /\ FractionRead(b, pos - 1)
        BY <1>2, <3>1
      <4>2. fracDigits > 0
        BY <1>3, <1>6, <3>1
      <4>3. FractionDone(b, Len(text))
        BY <1>3, <4>1, <4>2 DEF FractionDone
      <4>4. WellGrouped(text, SignEnd + 1, b)
        BY <1>2, <4>1 DEF IntegerDone, Ungrouped
      <4> QED
        BY <4>1, <4>3, <4>4
    <3>2. CASE ~seenPoint
      <4>1. IntegerDone(Len(text)) /\ WellGrouped(text, SignEnd + 1, Len(text))
        BY <1>2, <1>3, <3>2, IntegerOfDigits
      <4>2. FractionDone(Len(text), Len(text))
        BY <1>2, <1>3, <3>2 DEF FractionDone
      <4> QED
        BY <1>3, <4>1, <4>2
    <3> QED
      BY <3>1, <3>2
  <2> DEFINE w == Len(text)
  <2>3. Mantissa(b, w) /\ WholeExponent(w, w)
    BY <1>2, <1>3, <1>6, <2>2 DEF Mantissa, WholeExponent
  <2>4. Readings(text) = {Parts(b, w, w)} /\ Reading(text, Parts(b, w, w)) = Outcome(w, w)
    BY <1>2, <1>3, <2>3, ReadingIs
  <2>5. Outcome(w, w) = [coef |-> Signed(coef), digits |-> digitCount, power |-> 0, expDigits |-> 0, scale |-> fracDigits]
    <3>1. Number(text, w + 1, w) = 0
      <4>1. w + 1 \in Nat /\ w + 1 > 0 /\ w < w + 1
        BY <1>3
      <4> QED
        BY <1>3, <4>1, NumberStep
    <3> QED
      BY <1>3, <3>1 DEF Outcome
  <2> DEFINE n == Outcome(w, w)
  <2>6. Written = {n}
    BY <1>2, <2>4 DEF Written, Readable
  <2>7. n.coef = Signed(coef) /\ n.digits = digitCount /\ n.power = 0 /\ n.expDigits = 0 /\ n.scale = fracDigits
    BY <2>5
  <2> HIDE DEF n
  <2>8. /\ FastDigits <= opts.maxDigits /\ FastDigits <= opts.maxScale /\ FastDigits <= MaxScale /\ FastDigits \in Nat
        /\ opts.maxDigits \in Nat /\ opts.maxScale \in Nat /\ opts.maxExponentDigits \in Nat /\ MaxScale \in Nat
    <3>1. opts \in OptionsType
      BY <1>1 DEF TypeOK
    <3> QED
      BY <1>2, <3>1, ParserAssumption, MaxScaleAssumption DEF OptionsType
  <2>9. WithinLimits(n) /\ FitsScale(n)
    BY <1>2, <1>3, <2>7, <2>8 DEF WithinLimits, FitsScale
  <2>10. Decoded(n) = Dec(Signed(coef), fracDigits)
    BY <1>3, <2>7 DEF Decoded
  <2>11. Right(answer)
    <3>1. answer.val = Dec(Signed(coef), fracDigits) /\ answer.err = "nil" /\ answer.val.scale = fracDigits
      BY DEF Ok, Dec
    <3>2. fracDigits \in 0 .. MaxScale
      BY <1>2, <1>3, <2>8
    <3> HIDE DEF answer
    <3> QED
      BY <2>6, <2>9, <2>10, <3>1, <3>2 DEF Right
  <2> HIDE DEF answer
  <2> QED
    BY <2>1, <2>11, ReturnKeeps
<1> QED
  BY <1>4, <1>5, <1>6

-----------------------------------------------------------------------------
(* Steps of the full parser *)

\* No digit is lost with the spaces.
LEMMA TrimmedKeepsDigits ==
    ASSUME NEW t \in Seq(STRING)
    PROVE  /\ Trimmed(t) \in Seq(STRING)
           /\ \A k \in 1 .. Len(t) : IsDigit(t[k]) => \E j \in 1 .. Len(Trimmed(t)) : IsDigit(Trimmed(t)[j])
<1> DEFINE space == " "
           inner == {k \in DOMAIN t : t[k] # space}
<1>5. ~IsDigit(space)
  BY DigitsAreReserved
<1>6. /\ inner = {} => Trimmed(t) = <<>>
      /\ inner # {} => Trimmed(t) = SubSeq(t, Min(inner), Max(inner))
  BY Zenon DEF Trimmed
<1> HIDE DEF space
<1>1. Len(t) \in Nat /\ DOMAIN t = 1 .. Len(t) /\ inner \subseteq 1 .. Len(t)
  OBVIOUS
<1>2. \A k \in 1 .. Len(t) : IsDigit(t[k]) => k \in inner
  BY <1>1, <1>5
<1>3. CASE inner = {}
  <2>1. Trimmed(t) = <<>>
    BY <1>3, <1>6
  <2> QED
    BY <1>2, <1>3, <2>1
<1>4. CASE inner # {}
  <2>1. Trimmed(t) = SubSeq(t, Min(inner), Max(inner))
    BY <1>4, <1>6
  <2> HIDE DEF inner
  <2>2. Min(inner) \in inner /\ \A k \in inner : Min(inner) <= k
    <3>1. \E m \in inner : \A k \in inner : m <= k
      <4>1. inner \in SUBSET Nat
        BY <1>1
      <4> QED
        BY <1>4, <4>1, LeastNumber
    <3> QED
      BY <3>1 DEF Min
  <2>3. Max(inner) \in inner /\ \A k \in inner : Max(inner) >= k
    <3>1. \E m \in inner : \A k \in inner : m >= k
      <4> DEFINE back == {Len(t) - k : k \in inner}
      <4>1. back \in SUBSET Nat /\ back # {}
        BY <1>1, <1>4
      <4> HIDE DEF back
      <4>2. PICK n \in back : \A m \in back : n <= m
        BY <4>1, LeastNumber
      <4>3. PICK m \in inner : n = Len(t) - m
        BY DEF back
      <4>4. \A k \in inner : n <= Len(t) - k
        BY <4>2 DEF back
      <4>5. \A k \in inner : k \in Nat
        BY <1>1
      <4> QED
        BY <1>1, <4>3, <4>4, <4>5
    <3> QED
      BY <3>1 DEF Max
  <2> DEFINE m == Min(inner)
             n == Max(inner)
  <2>4. m \in 1 .. Len(t) /\ n \in 1 .. Len(t) /\ m <= n
    BY <1>1, <2>2, <2>3
  <2>5. \A k \in inner : k \in m .. n
    BY <1>1, <2>2, <2>3, <2>4
  <2> HIDE DEF m, n
  <2>6. /\ SubSeq(t, m, n) \in Seq(STRING) /\ Len(SubSeq(t, m, n)) = n - m + 1
        /\ \A i \in 1 .. n - m + 1 : SubSeq(t, m, n)[i] = t[m + i - 1]
    <3>1. \A i \in m .. n : t[i] \in STRING
      BY <2>4
    <3> QED
      BY <2>4, <3>1, SubSeqProperties
  <2>7. Trimmed(t) = SubSeq(t, m, n)
    BY <2>1 DEF m, n
  <2>8. ASSUME NEW k \in 1 .. Len(t), IsDigit(t[k])
        PROVE  \E j \in 1 .. Len(Trimmed(t)) : IsDigit(Trimmed(t)[j])
    <3> DEFINE j == k - m + 1
    <3>1. k \in m .. n
      BY <1>2, <2>5, <2>8
    <3>2. j \in 1 .. n - m + 1 /\ m + j - 1 = k
      BY <2>4, <3>1
    <3> HIDE DEF j
    <3>3. SubSeq(t, m, n)[j] = t[k]
      BY <2>6, <3>2
    <3> QED
      BY <2>6, <2>7, <2>8, <3>2, <3>3
  <2> QED
    BY <2>6, <2>7, <2>8
<1> QED
  BY <1>3, <1>4

\* Options that cannot tell the separators apart, and texts of no numeral, are refused.
LEMMA CheckOptionsKeeps ==
    ASSUME ParserInv, CheckOptions
    PROVE  ParserInv'
<1> DEFINE s == IF opts.trimSpace THEN Trimmed(text) ELSE text
<1>1. pc = "options" /\ Unread /\ Ungrouped /\ Unscaled /\ TypeOK /\ text \in Seq(STRING)
  BY DEF CheckOptions, ParserInv, StartInv, TypeOK
<1>2. /\ s \in Seq(STRING) /\ Len(s) \in Nat
      /\ \A k \in 1 .. Len(text) : IsDigit(text[k]) => \E j \in 1 .. Len(s) : IsDigit(s[j])
  BY <1>1, TrimmedKeepsDigits
<1> HIDE DEF s
<1>3. (\A j \in 1 .. Len(s) : ~IsDigit(s[j])) => \A r \in Readings(text) : FALSE
  BY <1>1, <1>2, NoDigits
<1>4. CASE opts.thousandsSeparator = DecimalSeparator \/ s = <<>>
  <2>1. Reject
    BY <1>4 DEF CheckOptions, s
  <2>2. SeparatorsDiffer => \A r \in Readings(text) : FALSE
    BY <1>3, <1>4 DEF SeparatorsDiffer
  <2> QED
    BY <2>1, <2>2, RejectKeeps
<1>5. CASE ~(opts.thousandsSeparator = DecimalSeparator \/ s = <<>>) /\ s \in NonFinite
  <2>1. Return(Fail("ErrNonFiniteFloat"))
    BY <1>5 DEF CheckOptions, s
  <2>2. \A j \in 1 .. Len(s) : ~IsDigit(s[j])
    <3>1. \A c \in {"nan", "inf", "+", "-"} : ~IsDigit(c)
      BY DigitsAreReserved
    <3> QED
      BY <1>5, <3>1 DEF NonFinite
  <2>3. Written = {}
    BY <1>3, <2>2, NothingWritten
  <2> QED
    BY <2>1, <2>3, RefusedRight, ReturnKeeps
<1>6. CASE ~(opts.thousandsSeparator = DecimalSeparator \/ s = <<>>) /\ s \notin NonFinite
  <2>1. /\ text' = s /\ pc' = "sign"
        /\ UNCHANGED <<opts, pos, negative, coef, digitCount, fracDigits, seenPoint, groupLen, groups, expNegative,
                       exp, expDigits, result>>
    BY <1>6 DEF CheckOptions, s, input, number, grouped, expo
  <2>2. TypeOK'
    <3>1. pos' \in 1 .. Len(s) + 1
      BY <1>1, <1>2, <2>1 DEF Unread
    <3> QED
      BY <1>1, <1>2, <2>1, <3>1 DEF TypeOK
  <2>3. SeparatorsDiffer'
    BY <1>6, <2>1 DEF SeparatorsDiffer, DecimalSeparator
  <2>4. TypeOK' /\ OptionsInv' /\ ParsedRight'
    BY <2>1, <2>2, <2>3, GoesOn
  <2>5. StartInv'
    BY <1>1, <2>1 DEF StartInv, Unread, Ungrouped, Unscaled
  <2> QED
    BY <2>1, <2>4, <2>5
       DEF ParserInv, FastInv, InSimpleLoop, IntegerInv, FractionInv, ExponentInv, ExpDigitsInv, FinishInv
<1> QED
  BY <1>4, <1>5, <1>6

\* Beyond its start, a parser has checked its options.
LEMMA Reads ==
    ASSUME ParserInv, pc \notin {"options", "done"}
    PROVE  /\ Readable /\ SeparatorsDiffer /\ TypeOK /\ text \in Seq(STRING) /\ Len(text) \in Nat
           /\ pos \in 1 .. Len(text) + 1 /\ opts \in OptionsType
BY OptionsAre DEF ParserInv, OptionsInv, TypeOK

\* The full parser takes a sign its options allow.
LEMMA ParseSignKeeps ==
    ASSUME ParserInv, ParseSign
    PROVE  ParserInv'
<1> DEFINE minus == Peek = "-" \/ (opts.unicodeMinus /\ Peek = "minus")
<1>1. pc = "sign" /\ Unread /\ Ungrouped /\ Unscaled
  BY DEF ParseSign, ParserInv, StartInv
<1>2. Readable /\ SeparatorsDiffer /\ TypeOK /\ text \in Seq(STRING) /\ Len(text) \in Nat
  BY <1>1, Reads
<1>3. SignEnd = (IF minus \/ Peek = "+" THEN 1 ELSE 0) /\ SignEnd <= Len(text) /\ SignEnd \in {0, 1}
  <2>1. Peek \in Signs <=> minus \/ Peek = "+"
    BY DEF Signs
  <2>2. CASE text = <<>>
    <3>1. Peek = "end"
      BY <1>1, <1>2, <2>2, PeekIs DEF Unread
    <3> QED
      BY <2>2, <3>1, SignEnds DEF SignEnd, SignLength
  <2>3. CASE text # <<>>
    <3>1. Len(text) >= 1
      BY <1>2, <2>3
    <3>2. Peek = text[1]
      BY <1>1, <1>2, <3>1, PeekIs DEF Unread
    <3> QED
      BY <1>2, <2>1, <2>3, <3>1, <3>2 DEF SignEnd, SignLength
  <2> QED
    BY <2>2, <2>3
<1>4. SignEnd = 1 => Peek = text[1]
  <2>1. SignEnd = 1 => ~AtEnd
    BY <1>1, <1>2, <1>3, PeekIs DEF Unread
  <2> QED
    BY <1>1, <1>2, <2>1, PeekIs DEF Unread
<1>5. CASE Peek = "+" /\ ~opts.plus
  <2>1. ASSUME NEW r \in Readings(text) PROVE FALSE
    <3>1. Shape(text, r) /\ r.a = SignEnd
      BY <1>2, ReadingShape, IntegerEnds
    <3> QED
      BY <1>3, <1>4, <1>5, <3>1 DEF Shape
  <2> QED
    BY <1>5, <2>1, RejectKeeps DEF ParseSign
<1>6. CASE ~(Peek = "+" /\ ~opts.plus)
  <2>1. /\ pc' = "integer" /\ negative' = minus /\ pos' = (IF minus \/ Peek = "+" THEN 2 ELSE 1)
        /\ UNCHANGED <<text, opts, coef, digitCount, fracDigits, seenPoint, groupLen, groups, expNegative,
                       exp, expDigits, result>>
    BY <1>6 DEF ParseSign, input, grouped, expo
  <2>2. pos' = SignEnd + 1 /\ SignEnd' = SignEnd
    BY <1>3, <2>1, SameText
  <2>3. TypeOK'
    <3>1. pos' \in 1 .. Len(text) + 1
      BY <1>2, <1>3, <2>2
    <3> QED
      BY <1>2, <2>1, <3>1 DEF TypeOK
  <2>4. SeparatorsDiffer'
    BY <1>2, <2>1, SameText
  <2>5. TypeOK' /\ OptionsInv' /\ ParsedRight'
    BY <2>1, <2>3, <2>4, GoesOn
  <2>6. SignRead'
    <3>1. negative' <=> SignEnd = 1 /\ text[1] # "+"
      <4>1. minus => Peek # "+" /\ SignEnd = 1
        BY <1>3
      <4>2. SignEnd = 1 => minus \/ Peek = "+"
        BY <1>3
      <4>3. negative' <=> minus
        BY <2>1
      <4> HIDE DEF minus
      <4> QED
        BY <1>4, <4>1, <4>2, <4>3
    <3>2. SignEnd = 1 /\ text[1] = "+" => opts.plus
      BY <1>4, <1>6
    <3> QED
      BY <2>1, <2>2, <3>1, <3>2 DEF SignRead
  <2>7. Counted(pos - 1)'
    <3>1. Counted(SignEnd) /\ pos' - 1 = SignEnd
      BY <1>1, <1>3, <2>2, NothingCounted DEF Unread
    <3> QED
      BY <2>1, <2>2, <3>1 DEF Counted
  <2>8. IntegerRead(pos - 1)'
    <3>1. SignEnd \in SignEnd .. Len(text) /\ pos' - 1 = SignEnd
      BY <1>2, <1>3, <2>2
    <3> QED
      BY <1>3, <2>1, <2>2, <3>1 DEF IntegerRead
  <2>9. \E p : OpenGroup(p)'
    <3> DEFINE p == [i \in 0 .. 0 |-> SignEnd]
    <3>1. p[0] = SignEnd /\ p \in [0 .. 0 -> Nat] /\ Len(<<>>) = 0
      BY <1>3
    <3> HIDE DEF p
    <3>2. PICK q : q = p
      OBVIOUS
    <3>3. GroupEnds(q, text, SignEnd, <<>>)
      BY <3>1, <3>2 DEF GroupEnds
    <3>4. groups' = <<>> /\ groupLen' = 0
      BY <1>1, <2>1 DEF Ungrouped
    <3>5. OpenGroup(q)'
      BY <1>3, <2>1, <2>2, <3>1, <3>2, <3>3, <3>4 DEF OpenGroup
    <3> QED
      BY <3>5
  <2>10. IntegerInv'
    BY <1>1, <2>1, <2>6, <2>7, <2>8, <2>9 DEF IntegerInv, Unscaled, Unread
  <2> QED
    BY <2>1, <2>5, <2>10
       DEF ParserInv, StartInv, FastInv, InSimpleLoop, FractionInv, ExponentInv, ExpDigitsInv, FinishInv
<1> QED
  BY <1>5, <1>6

\* A digit more than the limit allows is in every reading.
LEMMA DigitAhead ==
    ASSUME TypeOK, IsDigit(Peek), Counted(pos - 1), SignEnd <= pos - 1
    PROVE  /\ pos \in 1 .. Len(text) /\ IsDigit(text[pos])
           /\ Cardinality(Digits(text, SignEnd + 1, pos)) = digitCount + 1
<1>1. pos \in 1 .. Len(text) /\ Peek = text[pos] /\ Len(text) \in Nat
  BY PeekIs DEF TypeOK
<1> DEFINE from == SignEnd + 1
           to == pos - 1
<1>2. from \in Nat /\ to \in Nat /\ to + 1 >= from /\ to + 1 = pos
  BY <1>1, SignEnds
<1>3. digitCount = Cardinality(Digits(text, from, to))
  BY DEF Counted
<1> HIDE DEF from, to
<1>4. Cardinality(Digits(text, from, to + 1)) = digitCount + 1
  BY <1>1, <1>2, <1>3, CountStep
<1> QED
  BY <1>1, <1>2, <1>4 DEF from

\* A numeral with one digit too many is beyond the limits.
LEMMA TooManyKeeps ==
    ASSUME ParserInv, IsDigit(Peek), Counted(pos - 1), SignEnd <= pos - 1, TooManyDigits,
           \A r \in Readings(text) : r.a = SignEnd /\ pos <= r.c, Return(Fail("ErrLimitExceeded"))
    PROVE  ParserInv'
<1>1. TypeOK /\ text \in Seq(STRING) /\ digitCount \in Nat /\ opts \in OptionsType
  BY DEF ParserInv, TypeOK
<1>2. /\ pos \in 1 .. Len(text) /\ Len(text) \in Nat
      /\ Cardinality(Digits(text, SignEnd + 1, pos)) = digitCount + 1
  BY <1>1, DigitAhead
<1>3. opts.maxDigits > 0 /\ digitCount + 1 > opts.maxDigits /\ opts.maxDigits \in Nat
  BY <1>1 DEF TooManyDigits, OptionsType
<1>4. ASSUME NEW n \in Written PROVE ~WithinLimits(n)
  <2>1. PICK r \in Readings(text) : n = Reading(text, r)
    BY DEF Written
  <2>2. n.digits = Cardinality(Digits(text, SignEnd + 1, r.c))
    BY <2>1 DEF Reading
  <2>3. r.c \in Nat /\ pos <= r.c /\ SignEnd + 1 \in Nat /\ pos \in Nat
    BY <1>2, SignEnds DEF Readings
  <2>4. /\ Cardinality(Digits(text, SignEnd + 1, pos)) <= Cardinality(Digits(text, SignEnd + 1, r.c))
        /\ Cardinality(Digits(text, SignEnd + 1, r.c)) \in Nat
    BY <2>3, CountStep
  <2>5. ~(n.digits <= opts.maxDigits)
    BY <1>1, <1>2, <1>3, <2>2, <2>4
  <2> QED
    BY <1>3, <2>5 DEF WithinLimits
<1> QED
  BY <1>4, RefusedRight, ReturnKeeps

\* What the invariant says where the integer part is read
LEMMA IntegerSoFar ==
    ASSUME ParserInv, pc = "integer"
    PROVE  /\ Readable /\ SeparatorsDiffer /\ TypeOK /\ text \in Seq(STRING) /\ Len(text) \in Nat
           /\ pos \in 1 .. Len(text) + 1 /\ SignRead /\ Unscaled /\ fracDigits = 0 /\ Counted(pos - 1)
           /\ IntegerRead(pos - 1) /\ pos - 1 \in Nat /\ SignEnd \in Nat /\ SignEnd <= pos - 1
           /\ \A r \in Readings(text) : r.a = SignEnd /\ pos - 1 <= r.b
<1>1. /\ Readable /\ SeparatorsDiffer /\ TypeOK /\ text \in Seq(STRING) /\ Len(text) \in Nat
      /\ pos \in 1 .. Len(text) + 1
  BY Reads
<1>2. SignRead /\ Unscaled /\ fracDigits = 0 /\ Counted(pos - 1) /\ IntegerRead(pos - 1)
  BY DEF ParserInv, IntegerInv
<1>3. pos - 1 \in Nat /\ SignEnd \in Nat /\ SignEnd <= pos - 1
  BY <1>1, <1>2, SignEnds DEF IntegerRead
<1>4. \A r \in Readings(text) : r.a = SignEnd /\ pos - 1 <= r.b
  BY <1>1, <1>2, <1>3, IntegerEnds
<1> QED
  BY <1>1, <1>2, <1>3, <1>4

\* An integer part goes on with the characters of one.
LEMMA IntegerGrows ==
    ASSUME IntegerRead(pos - 1), pos \in 1 .. Len(text), Len(text) \in Nat, IntegerChar(text[pos])
    PROVE  IntegerRead(pos)
<1>1. SignEnd \in Nat /\ SignEnd <= pos - 1
  BY SignEnds DEF IntegerRead
<1>2. \A k \in SignEnd + 1 .. pos : k = pos \/ k \in SignEnd + 1 .. pos - 1
  BY <1>1
<1> QED
  BY <1>1, <1>2 DEF IntegerRead

\* A digit of the integer part is one of the group that is being read.
LEMMA IntegerDigitKeeps ==
    ASSUME ParserInv, IntegerDigit
    PROVE  ParserInv'
<1>1. pc = "integer" /\ IsDigit(Peek)
  BY DEF IntegerDigit
<1>2. /\ Readable /\ SeparatorsDiffer /\ TypeOK /\ text \in Seq(STRING) /\ Len(text) \in Nat
      /\ pos \in 1 .. Len(text) + 1 /\ SignRead /\ Unscaled /\ fracDigits = 0 /\ Counted(pos - 1)
      /\ IntegerRead(pos - 1) /\ pos - 1 \in Nat /\ SignEnd \in Nat /\ SignEnd <= pos - 1
      /\ \A r \in Readings(text) : r.a = SignEnd /\ pos - 1 <= r.b
  BY <1>1, IntegerSoFar
<1>3. pos \in 1 .. Len(text) /\ IsDigit(text[pos])
  BY <1>1, <1>2, DigitAhead
<1>4. IntegerRead(pos)
  BY <1>2, <1>3, IntegerGrows DEF IntegerChar
<1>5. CASE TooManyDigits
  <2>1. Return(Fail("ErrLimitExceeded"))
    BY <1>5 DEF IntegerDigit
  <2>2. \A r \in Readings(text) : r.a = SignEnd /\ pos <= r.c
    <3>1. \A r \in Readings(text) : r.b \in Nat /\ r.c \in Nat /\ r.b <= r.c
      BY <1>2 DEF Readings
    <3>2. \A r \in Readings(text) : pos <= r.b
      BY <1>2, <1>3, <1>4, IntegerEnds
    <3> QED
      BY <1>2, <1>3, <3>1, <3>2
  <2> QED
    BY <1>1, <1>2, <1>5, <2>1, <2>2, TooManyKeeps
<1>6. CASE ~TooManyDigits
  <2>1. /\ TakeDigit /\ groupLen' = groupLen + 1
        /\ UNCHANGED <<text, opts, pc, negative, fracDigits, seenPoint, groups, expNegative, exp, expDigits, result>>
    BY <1>6 DEF IntegerDigit, input, expo
  <2>2. /\ pos' = pos + 1 /\ Counted(pos - 1)' /\ digitCount' = digitCount + 1
        /\ digitCount' \in Nat /\ coef' \in 0 .. Powers(10)[digitCount'] - 1
        /\ pos' \in 1 .. Len(text) + 1
    BY <1>1, <1>2, <2>1, DigitTaken
  <2>3. TypeOK'
    <3>1. fracDigits' \in 0 .. digitCount'
      BY <1>2, <2>1, <2>2
    <3> QED
      BY <1>2, <2>1, <2>2, <3>1 DEF TypeOK
  <2>4. SeparatorsDiffer'
    BY <1>2, <2>1, SameText
  <2>5. TypeOK' /\ OptionsInv' /\ ParsedRight'
    BY <1>1, <2>1, <2>3, <2>4, GoesOn
  <2>6. SignRead'
    BY <1>2, <2>1, SameSign
  <2>7. IntegerRead(pos - 1)' /\ SignEnd' = SignEnd
    <3>1. pos' - 1 = pos
      BY <1>3, <2>2
    <3>2. SignEnd' = SignEnd /\ \A c : IntegerChar(c)' <=> IntegerChar(c)
      BY <2>1, SameText
    <3> QED
      BY <1>4, <2>1, <3>1, <3>2 DEF IntegerRead
  <2>8. \E p : OpenGroup(p)'
    <3>1. PICK p : OpenGroup(p)
      BY <1>1 DEF ParserInv, IntegerInv
    <3>2. /\ groupLen \in Nat /\ GroupEnds(p, text, SignEnd, groups)
          /\ \A i \in 1 .. Len(groups) : IsSeparator(text[p[i]])
          /\ pos = p[Len(groups)] + groupLen + 1
          /\ \A k \in p[Len(groups)] + 1 .. pos - 1 : IsDigit(text[k])
      BY <3>1 DEF OpenGroup
    <3>3. p[Len(groups)] \in Nat
      BY <3>2 DEF GroupEnds
    <3> DEFINE q == p[Len(groups)]
    <3> HIDE DEF q
    <3>4. \A k \in q + 1 .. pos : IsDigit(text[k])
      <4>1. \A k \in q + 1 .. pos : k = pos \/ k \in q + 1 .. pos - 1
        BY <1>3, <3>3 DEF q
      <4> QED
        BY <1>3, <3>2, <4>1 DEF q
    <3>5. pos' = q + groupLen' + 1 /\ groupLen' \in Nat /\ pos' - 1 = pos
      BY <1>3, <2>1, <2>2, <3>2, <3>3 DEF q
    <3>6. \A c : IsSeparator(c)' <=> IsSeparator(c)
      BY <2>1, SameText
    <3>7. OpenGroup(p)'
      BY <2>1, <2>7, <3>2, <3>4, <3>5, <3>6 DEF OpenGroup, q
    <3> QED
      BY <3>7
  <2>9. IntegerInv'
    BY <1>2, <2>1, <2>2, <2>6, <2>7, <2>8 DEF IntegerInv, Unscaled
  <2> QED
    BY <1>1, <2>1, <2>5, <2>9
       DEF ParserInv, StartInv, FastInv, InSimpleLoop, FractionInv, ExponentInv, ExpDigitsInv, FinishInv
<1> QED
  BY <1>5, <1>6

\* A separator that follows nothing, or another one, is in no reading.
LEMMA IntegerSeparatorKeeps ==
    ASSUME ParserInv, IntegerSeparator
    PROVE  ParserInv'
<1>1. pc = "integer" /\ IsSeparator(Peek)
  BY DEF IntegerSeparator
<1>2. /\ Readable /\ SeparatorsDiffer /\ TypeOK /\ text \in Seq(STRING) /\ Len(text) \in Nat
      /\ pos \in 1 .. Len(text) + 1 /\ SignRead /\ Unscaled /\ fracDigits = 0 /\ Counted(pos - 1)
      /\ IntegerRead(pos - 1) /\ pos - 1 \in Nat /\ SignEnd \in Nat /\ SignEnd <= pos - 1
      /\ \A r \in Readings(text) : r.a = SignEnd /\ pos - 1 <= r.b
  BY <1>1, IntegerSoFar
<1>3. pos \in 1 .. Len(text) /\ IsSeparator(text[pos]) /\ ~IsDigit(text[pos])
  <2>1. Peek # "end"
    BY <1>1, <1>2, SeparatorsAreClear DEF IntegerChar
  <2>2. pos \in 1 .. Len(text) /\ Peek = text[pos]
    BY <1>2, <2>1, PeekIs
  <2> QED
    BY <1>1, <1>2, <2>2, SeparatorsAreClear
<1>4. IntegerRead(pos)
  BY <1>2, <1>3, IntegerGrows DEF IntegerChar
<1>5. PICK p : OpenGroup(p)
  BY <1>1 DEF ParserInv, IntegerInv
<1>6. /\ groupLen \in Nat /\ GroupEnds(p, text, SignEnd, groups)
      /\ \A i \in 1 .. Len(groups) : IsSeparator(text[p[i]])
      /\ pos = p[Len(groups)] + groupLen + 1
      /\ \A k \in p[Len(groups)] + 1 .. pos - 1 : IsDigit(text[k])
  BY <1>5 DEF OpenGroup
<1>7. /\ Len(groups) \in Nat /\ p[Len(groups)] \in Nat /\ groups \in Seq(Nat) /\ p[0] = SignEnd
      /\ Len(groups) > 0 => p[Len(groups)] > SignEnd
  <2>1. groups \in Seq(Nat) /\ p \in [0 .. Len(groups) -> Nat] /\ p[0] = SignEnd
    BY <1>6 DEF GroupEnds
  <2>2. Len(groups) \in Nat /\ 0 \in 0 .. Len(groups) /\ Len(groups) \in 0 .. Len(groups)
    BY <2>1
  <2>3. Len(groups) > 0 => p[0] < p[Len(groups)]
    BY <1>2, <1>6, <2>2, EndsGrow
  <2> QED
    BY <1>2, <2>1, <2>2, <2>3
<1>8. CASE groupLen = 0
  <2>1. Reject
    BY <1>8 DEF IntegerSeparator
  <2>2. ASSUME NEW r \in Readings(text) PROVE FALSE
    <3>1. Shape(text, r) /\ r.a = SignEnd /\ r.b \in Nat /\ pos <= r.b
      <4>1. r.b \in Nat
        BY <1>2 DEF Readings
      <4>2. Shape(text, r)
        BY <1>2, ReadingShape
      <4> QED
        BY <1>2, <1>3, <1>4, <4>1, <4>2, IntegerEnds
    <3> DEFINE a == SignEnd
               b == r.b
    <3> HIDE DEF a, b
    <3>2. WellGrouped(text, a + 1, b) /\ a \in Nat /\ b \in Nat /\ pos <= b /\ a <= pos - 1
      BY <1>2, <3>1 DEF Shape, a, b
    <3>3. pos \in a + 1 .. b
      BY <1>3, <3>2
    <3>4. Digits(text, a + 1, b) # a + 1 .. b
      BY <1>3, <3>3 DEF Digits
    <3>5. /\ IsDigit(text[a + 1])
          /\ \A k \in a + 1 .. b : IF (b - k) % 4 = 3 THEN IsSeparator(text[k]) ELSE IsDigit(text[k])
      BY <3>2, <3>4 DEF WellGrouped
    <3>6. CASE Len(groups) = 0
      <4>1. pos = a + 1
        BY <1>2, <1>6, <1>7, <1>8, <3>6 DEF a
      <4> QED
        BY <1>3, <3>5, <4>1
    <3>7. CASE Len(groups) > 0
      <4>1. IsSeparator(text[p[Len(groups)]]) /\ p[Len(groups)] = pos - 1
        BY <1>6, <1>7, <1>8, <3>7
      <4>2. IsSeparator(text[pos - 1]) /\ pos - 1 \in a + 1 .. b
        BY <1>3, <1>7, <3>2, <3>7, <4>1 DEF a
      <4>3. ~IsDigit(text[pos - 1])
        BY <1>2, <4>2, SeparatorsAreClear
      <4>4. (b - pos) % 4 = 3 /\ (b - (pos - 1)) % 4 = 3
        BY <1>3, <3>3, <3>5, <4>2, <4>3
      <4> QED
        BY <1>3, <3>2, <4>4
    <3> QED
      BY <1>7, <3>6, <3>7
  <2> QED
    BY <2>1, <2>2, RejectKeeps
<1>9. CASE groupLen # 0
  <2>1. /\ groups' = Append(groups, groupLen) /\ groupLen' = 0 /\ pos' = pos + 1
        /\ UNCHANGED <<text, opts, pc, negative, coef, digitCount, fracDigits, seenPoint, expNegative, exp,
                       expDigits, result>>
    BY <1>9 DEF IntegerSeparator, input, number, expo
  <2>2. TypeOK'
    <3>1. pos' \in 1 .. Len(text) + 1
      BY <1>3, <2>1
    <3> QED
      BY <1>2, <2>1, <3>1 DEF TypeOK
  <2>3. SeparatorsDiffer'
    BY <1>2, <2>1, SameText
  <2>4. TypeOK' /\ OptionsInv' /\ ParsedRight'
    BY <1>1, <2>1, <2>2, <2>3, GoesOn
  <2>5. SignRead'
    BY <1>2, <2>1, SameSign
  <2>6. Counted(pos - 1)'
    BY <1>2, <1>3, <2>1, CharSkipped
  <2>7. IntegerRead(pos - 1)' /\ SignEnd' = SignEnd
    <3>1. pos' - 1 = pos
      BY <1>3, <2>1
    <3>2. SignEnd' = SignEnd /\ \A c : IntegerChar(c)' <=> IntegerChar(c)
      BY <2>1, SameText
    <3> QED
      BY <1>4, <2>1, <3>1, <3>2 DEF IntegerRead
  <2>8. \E q : OpenGroup(q)'
    <3>0. pos \in Nat
      BY <1>3
    <3>1. PICK q : /\ GroupEnds(q, text, SignEnd, Append(groups, groupLen)) /\ q[Len(groups) + 1] = pos
                   /\ \A i \in 0 .. Len(groups) : q[i] = p[i]
      <4>1. SignEnd \in Nat
        BY <1>2
      <4> QED
        BY <1>6, <3>0, <4>1, GroupClosed
    <3>2. Len(groups') = Len(groups) + 1
      BY <1>6, <1>7, <2>1
    <3>3. \A i \in 1 .. Len(groups) + 1 : IsSeparator(text[q[i]])
      <4> TAKE i \in 1 .. Len(groups) + 1
      <4>1. CASE i = Len(groups) + 1
        BY <1>3, <3>1, <4>1
      <4>2. CASE i # Len(groups) + 1
        <5>1. i \in 0 .. Len(groups) /\ i \in 1 .. Len(groups)
          BY <1>7, <4>2
        <5> QED
          BY <1>6, <3>1, <5>1
      <4> QED
        BY <4>1, <4>2
    <3>4. \A c : IsSeparator(c)' <=> IsSeparator(c)
      BY <2>1, SameText
    <3>5. groupLen' \in Nat /\ pos' = q[Len(groups')] + groupLen' + 1
      BY <1>3, <2>1, <3>1, <3>2
    <3>6. \A k \in q[Len(groups')] + 1 .. pos' - 1 : IsDigit(text'[k])
      <4>1. q[Len(groups')] + 1 .. pos' - 1 = {}
        BY <1>3, <2>1, <3>1, <3>2
      <4> QED
        BY <4>1
    <3>7. \A i \in 1 .. Len(groups') : IsSeparator(text[q[i]])'
      <4> TAKE i \in 1 .. Len(groups')
      <4>1. IsSeparator(text[q[i]])
        BY <3>2, <3>3
      <4> QED
        BY <2>1, <3>4, <4>1
    <3>8. GroupEnds(q, text', SignEnd', groups')
      <4>1. text' = text /\ SignEnd' = SignEnd /\ groups' = Append(groups, groupLen)
        BY <2>1, <2>7
      <4> QED
        BY <3>1, <4>1
    <3>9. OpenGroup(q)'
      BY <3>5, <3>6, <3>7, <3>8 DEF OpenGroup
    <3> QED
      BY <3>9
  <2>9. IntegerInv'
    BY <1>2, <2>1, <2>5, <2>6, <2>7, <2>8 DEF IntegerInv, Unscaled
  <2> QED
    BY <1>1, <2>1, <2>4, <2>9
       DEF ParserInv, StartInv, FastInv, InSimpleLoop, FractionInv, ExponentInv, ExpDigitsInv, FinishInv
<1> QED
  BY <1>8, <1>9

\* Where the integer part ends
LEMMA IntegerStops ==
    ASSUME ParserInv, pc = "integer", ~IsDigit(Peek), ~IsSeparator(Peek)
    PROVE  /\ pos <= Len(text) => ~IntegerChar(text[pos])
           /\ \A r \in Readings(text) : r.b = pos - 1
<1>1. /\ Readable /\ SeparatorsDiffer /\ TypeOK /\ text \in Seq(STRING) /\ Len(text) \in Nat
      /\ pos \in 1 .. Len(text) + 1 /\ SignRead /\ Unscaled /\ fracDigits = 0 /\ Counted(pos - 1)
      /\ IntegerRead(pos - 1) /\ pos - 1 \in Nat /\ SignEnd \in Nat /\ SignEnd <= pos - 1
      /\ \A r \in Readings(text) : r.a = SignEnd /\ pos - 1 <= r.b
  BY IntegerSoFar
<1>2. pos <= Len(text) => ~IntegerChar(text[pos])
  BY <1>1, PeekIs DEF IntegerChar
<1>3. ASSUME NEW r \in Readings(text) PROVE r.b = pos - 1
  <2>1. Shape(text, r)
    BY <1>1, ReadingShape
  <2>2. r.b \in r.a .. Len(text) /\ \A k \in r.a + 1 .. r.b : IntegerChar(text[k])
    BY <2>1 DEF Shape
  <2>3. r.a = SignEnd /\ pos - 1 <= r.b
    BY <1>1
  <2>4. ASSUME pos <= r.b PROVE FALSE
    <3>1. pos \in r.a + 1 .. r.b /\ pos <= Len(text)
      BY <1>1, <2>2, <2>3, <2>4
    <3> QED
      BY <1>2, <2>2, <3>1
  <2> QED
    BY <1>1, <2>2, <2>3, <2>4
<1> QED
  BY <1>2, <1>3

\* The integer part ends, and its last group with it.
LEMMA IntegerEndKeeps ==
    ASSUME ParserInv, IntegerEnd
    PROVE  ParserInv'
<1>1. pc = "integer" /\ ~IsDigit(Peek) /\ ~IsSeparator(Peek)
  BY DEF IntegerEnd
<1>2. /\ Readable /\ SeparatorsDiffer /\ TypeOK /\ text \in Seq(STRING) /\ Len(text) \in Nat
      /\ pos \in 1 .. Len(text) + 1 /\ SignRead /\ Unscaled /\ fracDigits = 0 /\ Counted(pos - 1)
      /\ IntegerRead(pos - 1) /\ pos - 1 \in Nat /\ SignEnd \in Nat /\ SignEnd <= pos - 1
      /\ \A r \in Readings(text) : r.a = SignEnd /\ pos - 1 <= r.b
  BY <1>1, IntegerSoFar
<1>3. (pos <= Len(text) => ~IntegerChar(text[pos])) /\ \A r \in Readings(text) : r.b = pos - 1
  BY <1>1, IntegerStops
<1>4. PICK p : OpenGroup(p)
  BY <1>1 DEF ParserInv, IntegerInv
<1>5. /\ groupLen \in Nat /\ GroupEnds(p, text, SignEnd, groups)
      /\ \A i \in 1 .. Len(groups) : IsSeparator(text[p[i]])
      /\ pos = p[Len(groups)] + groupLen + 1
      /\ \A k \in p[Len(groups)] + 1 .. pos - 1 : IsDigit(text[k])
  BY <1>4 DEF OpenGroup
<1>6. groups \in Seq(Nat) /\ p \in [0 .. Len(groups) -> Nat] /\ p[0] = SignEnd /\ Len(groups) \in Nat
  BY <1>5 DEF GroupEnds
<1>7. CASE groups # <<>> /\ groupLen = 0
  <2>1. Reject
    BY <1>7 DEF IntegerEnd
  <2>2. ASSUME NEW r \in Readings(text) PROVE FALSE
    <3>1. Len(groups) > 0 /\ Len(groups) \in 0 .. Len(groups) /\ 0 \in 0 .. Len(groups)
      BY <1>6, <1>7
    <3>2. p[0] < p[Len(groups)]
      BY <1>2, <1>5, <3>1, EndsGrow
    <3>3. p[Len(groups)] = pos - 1 /\ SignEnd < pos - 1
      BY <1>2, <1>5, <1>6, <1>7, <3>1, <3>2
    <3>4. IsSeparator(text[pos - 1])
      <4>1. Len(groups) \in 1 .. Len(groups)
        BY <1>6, <3>1
      <4> QED
        BY <1>5, <3>3, <4>1
    <3>5. WellGrouped(text, SignEnd + 1, pos - 1)
      BY <1>2, <1>3, ReadingShape DEF Shape
    <3>6. IsDigit(text[pos - 1])
      BY <1>2, <3>3, <3>5, GroupedChars
    <3> QED
      BY <1>2, <3>4, <3>6, SeparatorsAreClear
  <2> QED
    BY <2>1, <2>2, RejectKeeps
<1>8. CASE ~(groups # <<>> /\ groupLen = 0)
  <2> DEFINE hs == IF groups = <<>> THEN groups ELSE Append(groups, groupLen)
  <2>1. /\ groups' = hs
        /\ IF Peek = DecimalSeparator THEN pc' = "fraction" /\ pos' = pos + 1
           ELSE pc' = "exponent" /\ UNCHANGED pos
        /\ UNCHANGED <<text, opts, negative, coef, digitCount, fracDigits, seenPoint, groupLen, expNegative, exp,
                       expDigits, result>>
    BY <1>8 DEF IntegerEnd, input, number, expo
  <2>2. (hs # <<>> => ValidThousandsGroups(hs)) <=> WellGrouped(text, SignEnd + 1, pos - 1)
    <3>1. CASE groups = <<>>
      <4>1. Len(groups) = 0
        BY <3>1
      <4>2. \A k \in SignEnd + 1 .. pos - 1 : IsDigit(text[k])
        BY <1>5, <1>6, <4>1
      <4>3. WellGrouped(text, SignEnd + 1, pos - 1)
        BY <1>2, <4>2, DigitsAreGrouped
      <4> QED
        BY <3>1, <4>3
    <3>2. CASE groups # <<>>
      <4> DEFINE ks == Append(groups, groupLen)
      <4>1. hs = ks /\ ks # <<>> /\ Len(ks) = Len(groups) + 1 /\ Len(groups) >= 1
        BY <1>5, <1>6, <3>2
      <4>2. PICK q : /\ GroupEnds(q, text, SignEnd, ks) /\ q[Len(groups) + 1] = pos
                     /\ \A i \in 0 .. Len(groups) : q[i] = p[i]
        <5>1. SignEnd \in Nat /\ pos \in Nat
          BY <1>2
        <5> QED
          BY <1>5, <5>1, GroupClosed
      <4> HIDE DEF ks, hs
      <4>3. \A i \in 1 .. Len(ks) - 1 : IsSeparator(text[q[i]])
        <5> TAKE i \in 1 .. Len(ks) - 1
        <5>1. i \in 0 .. Len(groups) /\ i \in 1 .. Len(groups)
          BY <1>6, <4>1
        <5> QED
          BY <1>5, <4>2, <5>1
      <4>4. q[Len(ks)] = (pos - 1) + 1 /\ Len(ks) >= 2
        BY <1>2, <1>6, <4>1, <4>2
      <4>5. Split(q, text, SignEnd, pos - 1, ks)
        BY <4>2, <4>3, <4>4 DEF Split
      <4>6. ValidThousandsGroups(ks) <=> WellGrouped(text, SignEnd + 1, pos - 1)
        BY <1>2, <4>5, GroupsMean
      <4> QED
        BY <4>1, <4>6
    <3> QED
      BY <3>1, <3>2
  <2> HIDE DEF hs
  <2>3. PICK b \in Nat : b = pos - 1
    BY <1>2
  <2>4. b + 1 = pos
    BY <1>2, <2>3
  <2>5. IntegerDone(b)' /\ SignEnd' = SignEnd /\ DecimalSeparator' = DecimalSeparator
    <3>1. /\ SignEnd' = SignEnd /\ DecimalSeparator' = DecimalSeparator
          /\ \A c : IntegerChar(c)' <=> IntegerChar(c)
          /\ \A to : IntegerRead(to)' <=> IntegerRead(to)
          /\ \A from, to : WellGrouped(text, from, to)' <=> WellGrouped(text, from, to)
      BY <2>1, SameText
    <3>2. IntegerRead(b)'
      BY <1>2, <2>3, <3>1
    <3>3. b < Len(text) => ~IntegerChar(text[b + 1])
      BY <1>2, <1>3, <2>3, <2>4
    <3>4. (hs # <<>> => ValidThousandsGroups(hs)) <=> WellGrouped(text, SignEnd + 1, b)
      BY <2>2, <2>3
    <3>5. ((groups # <<>> => ValidThousandsGroups(groups)) <=> WellGrouped(text, SignEnd + 1, b))'
      BY <2>1, <3>1, <3>4
    <3>6. (b < Len(text) => ~IntegerChar(text[b + 1]))'
      BY <2>1, <3>1, <3>3
    <3> QED
      BY <3>1, <3>2, <3>5, <3>6 DEF IntegerDone
  <2>6. TypeOK'
    <3>1. pos' \in 1 .. Len(text) + 1
      <4>1. Peek = DecimalSeparator => Peek # "end"
        BY <1>2, SeparatorsAreClear
      <4>2. Peek = DecimalSeparator => pos \in 1 .. Len(text)
        BY <1>2, <4>1, PeekIs
      <4> QED
        BY <1>2, <2>1, <4>2
    <3> QED
      BY <1>2, <2>1, <3>1 DEF TypeOK
  <2>7. SeparatorsDiffer'
    BY <1>2, <2>1, SameText
  <2>8. TypeOK' /\ OptionsInv' /\ ParsedRight'
    BY <2>1, <2>6, <2>7, GoesOn
  <2>9. SignRead' /\ Unscaled'
    BY <1>2, <2>1, SameSign DEF Unscaled
  <2>10. CASE Peek = DecimalSeparator
    <3>1. pc' = "fraction" /\ pos' = pos + 1
      BY <2>1, <2>10
    <3>2. pos \in 1 .. Len(text) /\ text[pos] = DecimalSeparator /\ ~IsDigit(text[pos])
      <4>1. Peek # "end"
        BY <1>2, <2>10, SeparatorsAreClear
      <4>2. pos \in 1 .. Len(text) /\ Peek = text[pos]
        BY <1>2, <4>1, PeekIs
      <4> QED
        BY <1>1, <2>10, <4>2
    <3>3. Counted(pos - 1)'
      BY <1>2, <2>1, <3>1, <3>2, CharSkipped
    <3>4. FractionRead(b, pos - 1)'
      <4>1. pos' - 1 = b + 1 /\ b < Len(text) /\ text[b + 1] = DecimalSeparator /\ Len(text) \in Nat
        BY <1>2, <2>4, <3>1, <3>2
      <4>2. b + 1 \in b + 1 .. Len(text) /\ (b + 1) - b - 1 = 0 /\ b + 2 .. b + 1 = {}
        BY <4>1
      <4> QED
        BY <1>2, <2>1, <2>5, <4>1, <4>2 DEF FractionRead
    <3>5. FractionInv'
      BY <2>5, <2>9, <3>3, <3>4 DEF FractionInv
    <3> QED
      BY <2>8, <3>1, <3>5
         DEF ParserInv, StartInv, FastInv, InSimpleLoop, IntegerInv, ExponentInv, ExpDigitsInv, FinishInv
  <2>11. CASE Peek # DecimalSeparator
    <3>1. pc' = "exponent" /\ pos' = pos
      BY <2>1, <2>11
    <3>2. pos <= Len(text) => text[pos] # DecimalSeparator
      BY <1>2, <2>11, PeekIs
    <3>3. Counted(pos - 1)'
      <4>1. Counted(b)'
        BY <1>2, <2>1, <2>3, SameCount
      <4> QED
        BY <2>3, <3>1, <4>1
    <3>4. FractionDone(b, pos - 1)'
      <4>1. pos' - 1 = b /\ (b < Len(text) => text[b + 1] # DecimalSeparator)
        BY <1>2, <2>3, <2>4, <3>1, <3>2
      <4> QED
        BY <1>2, <2>1, <2>5, <4>1 DEF FractionDone
    <3>5. ExponentInv'
      BY <2>5, <2>9, <3>3, <3>4 DEF ExponentInv
    <3> QED
      BY <2>8, <3>1, <3>5
         DEF ParserInv, StartInv, FastInv, InSimpleLoop, IntegerInv, FractionInv, ExpDigitsInv, FinishInv
  <2> QED
    BY <2>10, <2>11
<1> QED
  BY <1>7, <1>8

-----------------------------------------------------------------------------
(* The fraction *)

\* What is known in the fraction.
LEMMA FractionSoFar ==
    ASSUME ParserInv, NEW b \in Nat, IntegerDone(b), FractionRead(b, pos - 1), pc = "fraction"
    PROVE  /\ Readable /\ SeparatorsDiffer /\ TypeOK /\ text \in Seq(STRING) /\ Len(text) \in Nat
           /\ pos \in 1 .. Len(text) + 1 /\ SignRead /\ Unscaled /\ Counted(pos - 1)
           /\ pos - 1 \in Nat /\ SignEnd \in Nat /\ SignEnd <= pos - 1 /\ b + 1 <= pos - 1
           /\ fracDigits = (pos - 1) - b - 1
           /\ \A r \in Readings(text) : r.a = SignEnd /\ pos - 1 <= r.c /\ b + 2 <= r.c /\ IsDigit(text[b + 2])
<1>1. /\ Readable /\ SeparatorsDiffer /\ TypeOK /\ text \in Seq(STRING) /\ Len(text) \in Nat
      /\ pos \in 1 .. Len(text) + 1
  BY Reads
<1>2. SignRead /\ Unscaled /\ Counted(pos - 1)
  BY DEF ParserInv, FractionInv
<1>3. pos - 1 \in b + 1 .. Len(text) /\ fracDigits = (pos - 1) - b - 1 /\ b \in SignEnd .. Len(text)
  BY DEF FractionRead, IntegerDone, IntegerRead
<1>4. pos - 1 \in Nat /\ SignEnd \in Nat /\ SignEnd <= pos - 1 /\ b + 1 <= pos - 1
  BY <1>1, <1>3, SignEnds
<1>5. \A r \in Readings(text) : r.a = SignEnd /\ pos - 1 <= r.c /\ b + 2 <= r.c /\ IsDigit(text[b + 2])
  <2> TAKE r \in Readings(text)
  <2>1. r.a = SignEnd
    BY <1>1, IntegerEnds
  <2>2. pos - 1 <= r.c /\ r.c >= b + 2 /\ IsDigit(text[b + 2])
    BY <1>1, <1>4, FractionEnds
  <2>3. r.c \in Nat
    BY <1>1 DEF Readings
  <2> QED
    BY <2>1, <2>2, <2>3
<1> QED
  BY <1>1, <1>2, <1>3, <1>4, <1>5

\* A digit of the fraction is one of the digits and one of the scale.
LEMMA FractionDigitKeeps ==
    ASSUME ParserInv, FractionDigit
    PROVE  ParserInv'
<1>1. pc = "fraction" /\ IsDigit(Peek)
  BY DEF FractionDigit
<1>2. PICK b \in Nat : IntegerDone(b) /\ FractionRead(b, pos - 1)
  BY <1>1 DEF ParserInv, FractionInv
<1>3. /\ Readable /\ SeparatorsDiffer /\ TypeOK /\ text \in Seq(STRING) /\ Len(text) \in Nat
      /\ pos \in 1 .. Len(text) + 1 /\ SignRead /\ Unscaled /\ Counted(pos - 1)
      /\ pos - 1 \in Nat /\ SignEnd \in Nat /\ SignEnd <= pos - 1 /\ b + 1 <= pos - 1
      /\ fracDigits = (pos - 1) - b - 1
      /\ \A r \in Readings(text) : r.a = SignEnd /\ pos - 1 <= r.c /\ b + 2 <= r.c /\ IsDigit(text[b + 2])
  BY <1>1, <1>2, FractionSoFar
<1>4. pos \in 1 .. Len(text) /\ IsDigit(text[pos])
  BY <1>1, <1>3, DigitAhead
<1>5. CASE TooManyDigits
  <2>1. Return(Fail("ErrLimitExceeded"))
    BY <1>5 DEF FractionDigit
  <2>2. ASSUME NEW r \in Readings(text) PROVE r.a = SignEnd /\ pos <= r.c
    <3>1. r.a = SignEnd /\ pos - 1 <= r.c /\ r.c \in Nat
      BY <1>3 DEF Readings
    <3>2. ASSUME r.c = pos - 1 PROVE FALSE
      <4>1. Shape(text, r)
        BY <1>3, ReadingShape
      <4>2. r.c < Len(text) /\ r.c + 1 = pos
        BY <1>4, <3>2
      <4>3. text[pos] \in {"e", "E"}
        BY <4>1, <4>2 DEF Shape
      <4> QED
        BY <1>4, <4>3, DigitsAreReserved
    <3> QED
      BY <1>4, <3>1, <3>2
  <2> QED
    BY <1>1, <1>3, <1>5, <2>1, <2>2, TooManyKeeps
<1>6. CASE ~TooManyDigits
  <2>1. /\ TakeDigit /\ fracDigits' = fracDigits + 1
        /\ UNCHANGED <<text, opts, pc, negative, seenPoint, groupLen, groups, expNegative, exp, expDigits, result>>
    BY <1>6 DEF FractionDigit, input, grouped, expo
  <2>2. /\ pos' = pos + 1 /\ Counted(pos - 1)' /\ digitCount' = digitCount + 1
        /\ digitCount' \in Nat /\ coef' \in 0 .. Powers(10)[digitCount'] - 1
        /\ pos' \in 1 .. Len(text) + 1
    BY <1>1, <1>3, <2>1, DigitTaken
  <2>3. TypeOK'
    <3>1. fracDigits \in 0 .. digitCount /\ digitCount \in Nat
      BY <1>3 DEF TypeOK
    <3>2. fracDigits' \in 0 .. digitCount'
      BY <2>1, <2>2, <3>1
    <3> QED
      BY <1>3, <2>1, <2>2, <3>2 DEF TypeOK
  <2>4. SeparatorsDiffer'
    BY <1>3, <2>1, SameText
  <2>5. TypeOK' /\ OptionsInv' /\ ParsedRight'
    BY <1>1, <2>1, <2>3, <2>4, GoesOn
  <2>6. SignRead' /\ IntegerDone(b)'
    BY <1>2, <1>3, <2>1, SameSign, SameInteger
  <2>7. FractionRead(b, pos - 1)'
    BY <1>2, <1>3, <1>4, <2>1, <2>2, FractionGrows
  <2>8. FractionInv'
    BY <1>3, <2>1, <2>2, <2>6, <2>7 DEF FractionInv, Unscaled
  <2> QED
    BY <1>1, <2>1, <2>5, <2>8
       DEF ParserInv, StartInv, FastInv, InSimpleLoop, IntegerInv, ExponentInv, ExpDigitsInv, FinishInv
<1> QED
  BY <1>5, <1>6

\* The fraction ends, and has a digit.
LEMMA FractionEndKeeps ==
    ASSUME ParserInv, FractionEnd
    PROVE  ParserInv'
<1>1. pc = "fraction" /\ ~IsDigit(Peek)
  BY DEF FractionEnd
<1>2. PICK b \in Nat : IntegerDone(b) /\ FractionRead(b, pos - 1)
  BY <1>1 DEF ParserInv, FractionInv
<1>3. /\ Readable /\ SeparatorsDiffer /\ TypeOK /\ text \in Seq(STRING) /\ Len(text) \in Nat
      /\ pos \in 1 .. Len(text) + 1 /\ SignRead /\ Unscaled /\ Counted(pos - 1)
      /\ pos - 1 \in Nat /\ SignEnd \in Nat /\ SignEnd <= pos - 1 /\ b + 1 <= pos - 1
      /\ fracDigits = (pos - 1) - b - 1
      /\ \A r \in Readings(text) : r.a = SignEnd /\ pos - 1 <= r.c /\ b + 2 <= r.c /\ IsDigit(text[b + 2])
  BY <1>1, <1>2, FractionSoFar
<1>4. pos <= Len(text) => ~IsDigit(text[pos])
  BY <1>1, <1>3, PeekIs
<1>5. CASE fracDigits = 0
  <2>1. Reject
    BY <1>5 DEF FractionEnd
  <2>2. ASSUME NEW r \in Readings(text) PROVE FALSE
    <3>1. b + 2 <= r.c /\ r.c <= Len(text) /\ IsDigit(text[b + 2]) /\ r.c \in Nat
      BY <1>3 DEF Readings
    <3>2. pos = b + 2 /\ pos <= Len(text)
      BY <1>3, <1>5, <3>1
    <3> QED
      BY <1>4, <3>1, <3>2
  <2> QED
    BY <2>1, <2>2, RejectKeeps
<1>6. CASE fracDigits # 0
  <2>1. /\ pc' = "exponent"
        /\ UNCHANGED <<text, opts, pos, negative, coef, digitCount, fracDigits, seenPoint, groupLen, groups,
                       expNegative, exp, expDigits, result>>
    BY <1>6 DEF FractionEnd, input, number, grouped, expo
  <2>2. TypeOK'
    BY <1>3, <2>1 DEF TypeOK
  <2>3. SeparatorsDiffer'
    BY <1>3, <2>1, SameText
  <2>4. TypeOK' /\ OptionsInv' /\ ParsedRight'
    BY <2>1, <2>2, <2>3, GoesOn
  <2>5. PICK c \in Nat : c = pos - 1
    BY <1>3
  <2>6. FractionDone(b, c) /\ Counted(c)
    <3>1. fracDigits > 0 /\ c + 1 = pos
      BY <1>3, <1>6, <2>5
    <3>2. c < Len(text) => ~IsDigit(text[c + 1])
      BY <1>3, <1>4, <2>5, <3>1
    <3> QED
      BY <1>2, <1>3, <2>5, <3>1, <3>2 DEF FractionDone
  <2>7. SignRead' /\ IntegerDone(b)' /\ FractionDone(b, c)' /\ Counted(c)'
    BY <1>2, <1>3, <2>1, <2>6, SameSign, SameInteger, SameFraction, SameCount
  <2>8. ExponentInv'
    BY <1>3, <2>1, <2>5, <2>7 DEF ExponentInv, Unscaled
  <2> QED
    BY <2>1, <2>4, <2>8
       DEF ParserInv, StartInv, FastInv, InSimpleLoop, IntegerInv, FractionInv, ExpDigitsInv, FinishInv
<1> QED
  BY <1>5, <1>6

-----------------------------------------------------------------------------
(* The exponent *)

\* The letter, and the sign that may follow it
LEMMA ExponentOpens ==
    ASSUME ParserInv, ParseExponent, NEW b \in Nat, NEW c \in Nat, c + 1 = pos, Mantissa(b, c),
           SignRead, Unscaled, Peek \in {"e", "E"}
    PROVE  ParserInv'
<1> DEFINE sign == IF pos < Len(text) THEN text[pos + 1] ELSE "end"
<1>1. pc = "exponent"
  BY DEF ParseExponent
<1>2. /\ Readable /\ SeparatorsDiffer /\ TypeOK /\ text \in Seq(STRING) /\ Len(text) \in Nat
      /\ pos \in 1 .. Len(text) + 1
  BY <1>1, Reads
<1>3. digitCount > 0 /\ (groups # <<>> => ValidThousandsGroups(groups))
  BY DEF Mantissa, IntegerDone
<1>4. /\ pc' = "expDigits" /\ expNegative' = (sign = "-")
      /\ pos' = IF sign \in {"-", "+"} THEN pos + 2 ELSE pos + 1
      /\ UNCHANGED <<text, opts, negative, coef, digitCount, fracDigits, seenPoint, groupLen, groups,
                     exp, expDigits, result>>
  BY <1>3 DEF ParseExponent, Reject, input, number, grouped
<1>5. pos \in 1 .. Len(text) /\ Peek = text[pos]
  <2>1. Peek # "end"
    OBVIOUS
  <2> QED
    BY <1>2, <2>1, PeekIs
<1> DEFINE signed == c + 2 <= Len(text) /\ text[c + 2] \in {"-", "+"}
<1>6. PICK e \in Nat : e = IF signed THEN c + 2 ELSE c + 1
  OBVIOUS
<1>7. (sign \in {"-", "+"} <=> signed) /\ (signed => sign = text[c + 2]) /\ pos + 1 = c + 2
  BY <1>2
<1>8. pos' = e + 1 /\ e <= Len(text) /\ c + 1 <= e
  <2> HIDE DEF sign, signed
  <2>1. CASE signed
    BY <1>2, <1>4, <1>6, <1>7, <2>1 DEF signed
  <2>2. CASE ~signed
    BY <1>2, <1>4, <1>5, <1>6, <1>7, <2>2
  <2> QED
    BY <2>1, <2>2
<1>9. expNegative' <=> text[e] = "-"
  <2>1. CASE signed
    <3>1. e = c + 2 /\ sign = text[e]
      BY <1>6, <1>7, <2>1
    <3> QED
      BY <1>4, <3>1
  <2>2. CASE ~signed
    <3>1. e = pos /\ text[e] \in {"e", "E"} /\ sign # "-"
      BY <1>5, <1>6, <1>7, <2>2
    <3> QED
      BY <1>4, <3>1
  <2> QED
    BY <2>1, <2>2
<1>10. ExponentRead(c, e, e)
  <2>1. c < Len(text) /\ text[c + 1] \in {"e", "E"}
    BY <1>2, <1>5
  <2>2. e \in e .. Len(text) /\ e + 1 .. e = {}
    BY <1>2, <1>8
  <2> QED
    BY <1>6, <2>1, <2>2 DEF ExponentRead
<1> HIDE DEF sign, signed
<1>11. PowerRead(c, e)'
  <2>1. pos' - 1 = e
    BY <1>8
  <2>2. ExponentRead(c, e, pos - 1)'
    <3>1. ExponentRead(c, e, e)'
      BY <1>4, <1>10, SameText
    <3> QED
      BY <2>1, <3>1
  <2>3. Number(text, e + 1, e) = 0
    <3>1. e + 1 \in Nat /\ e + 1 > 0 /\ e < e + 1
      OBVIOUS
    <3> QED
      BY <3>1, NumberStep
  <2>4. exp' = 0 /\ expDigits' = 0 /\ e - e = 0 /\ pos' - 1 - e = 0
    BY <1>4, <2>1 DEF Unscaled
  <2>5. opts.maxExponentDigits \in Nat
    BY <1>2 DEF TypeOK, OptionsType
  <2> QED
    BY <1>4, <1>9, <2>1, <2>2, <2>3, <2>4, <2>5 DEF PowerRead
<1>12. TypeOK'
  <2>1. pos' \in 1 .. Len(text) + 1
    BY <1>2, <1>8
  <2> QED
    BY <1>2, <1>4, <2>1 DEF TypeOK
<1>13. SeparatorsDiffer'
  BY <1>2, <1>4, SameText
<1>14. TypeOK' /\ OptionsInv' /\ ParsedRight'
  BY <1>4, <1>12, <1>13, GoesOn
<1>15. SignRead' /\ Mantissa(b, c)'
  BY <1>4, SameSign, SameMantissa
<1>16. ExpDigitsInv'
  BY <1>11, <1>15 DEF ExpDigitsInv
<1> QED
  BY <1>4, <1>14, <1>16
     DEF ParserInv, StartInv, FastInv, InSimpleLoop, IntegerInv, FractionInv, ExponentInv, FinishInv

\* The digits and the groups are checked before the exponent.
LEMMA ParseExponentKeeps ==
    ASSUME ParserInv, ParseExponent
    PROVE  ParserInv'
<1>1. pc = "exponent"
  BY DEF ParseExponent
<1>2. /\ Readable /\ SeparatorsDiffer /\ TypeOK /\ text \in Seq(STRING) /\ Len(text) \in Nat
      /\ pos \in 1 .. Len(text) + 1
  BY <1>1, Reads
<1>3. SignRead /\ Unscaled /\ Counted(pos - 1)
  BY <1>1 DEF ParserInv, ExponentInv
<1>4. PICK b \in Nat : IntegerDone(b) /\ FractionDone(b, pos - 1)
  BY <1>1 DEF ParserInv, ExponentInv
<1>5. PICK c \in Nat : c = pos - 1
  BY <1>2
<1>6. c + 1 = pos /\ IntegerDone(b) /\ FractionDone(b, c) /\ Counted(c)
  BY <1>2, <1>3, <1>4, <1>5
<1>7. CASE digitCount = 0 \/ (groups # <<>> /\ ~ValidThousandsGroups(groups))
  <2>1. Reject
    BY <1>7 DEF ParseExponent
  <2>2. ASSUME NEW r \in Readings(text) PROVE FALSE
    <3>1. r.a = SignEnd /\ r.b = b /\ r.c = c
      BY <1>2, <1>6, IntegerEnds, FractionEnds
    <3>2. WellGrouped(text, SignEnd + 1, b)
      BY <1>2, <3>1, ReadingShape DEF Shape
    <3>3. digitCount > 0
      <4>1. PICK k \in SignEnd + 1 .. c : IsDigit(text[k])
        BY <1>2, <3>1, ReadingHasDigit
      <4> QED
        BY <1>6, <4>1, DigitIsCounted
    <3>4. digitCount # 0
      BY <3>3
    <3> QED
      BY <1>6, <1>7, <3>2, <3>4 DEF IntegerDone
  <2> QED
    BY <2>1, <2>2, RejectKeeps
<1>8. CASE ~(digitCount = 0 \/ (groups # <<>> /\ ~ValidThousandsGroups(groups)))
  <2>1. Mantissa(b, c)
    <3>1. digitCount > 0
      BY <1>2, <1>8 DEF TypeOK
    <3>2. WellGrouped(text, SignEnd + 1, b)
      BY <1>6, <1>8 DEF IntegerDone
    <3> QED
      BY <1>6, <3>1, <3>2 DEF Mantissa
  <2>2. CASE Peek \in {"e", "E"}
    BY <1>3, <1>6, <2>1, <2>2, ExponentOpens
  <2>3. CASE Peek \notin {"e", "E"}
    <3>1. /\ pc' = "finish"
          /\ UNCHANGED <<text, opts, pos, negative, coef, digitCount, fracDigits, seenPoint, groupLen, groups,
                         expNegative, exp, expDigits, result>>
      BY <1>8, <2>3 DEF ParseExponent, input, number, grouped, expo
    <3>2. TypeOK'
      BY <1>2, <3>1 DEF TypeOK
    <3>3. SeparatorsDiffer'
      BY <1>2, <3>1, SameText
    <3>4. TypeOK' /\ OptionsInv' /\ ParsedRight'
      BY <3>1, <3>2, <3>3, GoesOn
    <3>5. PowerDone(c, c)'
      <4>1. pos <= Len(text) => text[pos] \notin {"e", "E"}
        BY <1>2, <2>3, PeekIs
      <4> QED
        BY <1>3, <1>6, <3>1, <4>1 DEF PowerDone, Unscaled
    <3>6. SignRead' /\ Mantissa(b, c)'
      BY <1>3, <2>1, <3>1, SameSign, SameMantissa
    <3>7. FinishInv'
      BY <3>5, <3>6 DEF FinishInv
    <3> QED
      BY <3>1, <3>4, <3>7
         DEF ParserInv, StartInv, FastInv, InSimpleLoop, IntegerInv, FractionInv, ExponentInv, ExpDigitsInv
  <2> QED
    BY <2>2, <2>3
<1> QED
  BY <1>7, <1>8

\* What the invariant says where the digits of the exponent are read
LEMMA PowerSoFar ==
    ASSUME ParserInv, pc = "expDigits", NEW b \in Nat, NEW c \in Nat, NEW e \in Nat, Mantissa(b, c), PowerRead(c, e)
    PROVE  /\ Readable /\ SeparatorsDiffer /\ TypeOK /\ text \in Seq(STRING) /\ Len(text) \in Nat
           /\ pos \in 1 .. Len(text) + 1 /\ opts \in OptionsType /\ SignRead
           /\ pos - 1 \in Nat /\ e <= pos - 1 /\ expDigits = pos - 1 - e /\ exp = Number(text, e + 1, pos - 1)
           /\ ExponentRead(c, e, pos - 1)
           /\ \A r \in Readings(text) :
                r.e = e /\ e < Len(text) /\ \A k \in e + 1 .. Len(text) : IsDigit(text[k])
<1>1. /\ Readable /\ SeparatorsDiffer /\ TypeOK /\ text \in Seq(STRING) /\ Len(text) \in Nat
      /\ pos \in 1 .. Len(text) + 1 /\ opts \in OptionsType
  BY Reads
<1>2. SignRead /\ pos - 1 \in Nat
  BY <1>1 DEF ParserInv, ExpDigitsInv
<1>3. ExponentRead(c, e, pos - 1) /\ expDigits = pos - 1 - e /\ exp = Number(text, e + 1, pos - 1)
  BY DEF PowerRead
<1>4. e <= pos - 1
  BY <1>1, <1>2, <1>3 DEF ExponentRead
<1>5. IntegerDone(b) /\ FractionDone(b, c)
  BY DEF Mantissa
<1>6. \A r \in Readings(text) :
        r.e = e /\ e < Len(text) /\ \A k \in e + 1 .. Len(text) : IsDigit(text[k])
  BY <1>1, <1>2, <1>3, <1>5, ExponentEnds
<1> QED
  BY <1>1, <1>2, <1>3, <1>4, <1>6

\* A digit of the exponent, or one too many.
LEMMA ExponentDigitKeeps ==
    ASSUME ParserInv, ExponentDigit
    PROVE  ParserInv'
<1>1. pc = "expDigits" /\ IsDigit(Peek)
  BY DEF ExponentDigit
<1>2. PICK b, c, e \in Nat : Mantissa(b, c) /\ PowerRead(c, e)
  BY <1>1 DEF ParserInv, ExpDigitsInv
<1>3. /\ Readable /\ SeparatorsDiffer /\ TypeOK /\ text \in Seq(STRING) /\ Len(text) \in Nat
      /\ pos \in 1 .. Len(text) + 1 /\ opts \in OptionsType /\ SignRead
      /\ pos - 1 \in Nat /\ e <= pos - 1 /\ expDigits = pos - 1 - e /\ exp = Number(text, e + 1, pos - 1)
      /\ ExponentRead(c, e, pos - 1)
      /\ \A r \in Readings(text) :
           r.e = e /\ e < Len(text) /\ \A k \in e + 1 .. Len(text) : IsDigit(text[k])
  BY <1>1, <1>2, PowerSoFar
<1>4. pos \in 1 .. Len(text) /\ Peek = text[pos] /\ IsDigit(text[pos])
  BY <1>1, <1>3, PeekIs
<1>5. opts.maxExponentDigits \in Nat
  BY <1>3 DEF OptionsType
<1>6. CASE opts.maxExponentDigits > 0 /\ expDigits + 1 > opts.maxExponentDigits
  <2>1. Return(Fail("ErrLimitExceeded"))
    BY <1>6 DEF ExponentDigit
  <2>2. ASSUME NEW n \in Written PROVE ~WithinLimits(n)
    <3>1. PICK r \in Readings(text) : n = Reading(text, r)
      BY DEF Written
    <3>2. n.expDigits = Len(text) - e
      BY <1>3, <3>1 DEF Reading
    <3>3. ~(n.expDigits <= opts.maxExponentDigits)
      BY <1>3, <1>4, <1>5, <1>6, <3>2
    <3> QED
      BY <1>6, <3>3 DEF WithinLimits
  <2> QED
    BY <2>1, <2>2, RefusedRight, ReturnKeeps
<1>7. CASE ~(opts.maxExponentDigits > 0 /\ expDigits + 1 > opts.maxExponentDigits)
  <2>1. /\ pos' = pos + 1 /\ exp' = 10 * exp + DigitValue[Peek] /\ expDigits' = expDigits + 1
        /\ UNCHANGED <<text, opts, pc, negative, coef, digitCount, fracDigits, seenPoint, groupLen, groups,
                       expNegative, result>>
    BY <1>7 DEF ExponentDigit, input, number, grouped
  <2>2. TypeOK'
    <3>1. pos' \in 1 .. Len(text) + 1
      BY <1>4, <2>1
    <3> QED
      BY <1>3, <2>1, <3>1 DEF TypeOK
  <2>3. SeparatorsDiffer'
    BY <1>3, <2>1, SameText
  <2>4. TypeOK' /\ OptionsInv' /\ ParsedRight'
    BY <1>1, <2>1, <2>2, <2>3, GoesOn
  <2>5. SignRead' /\ Mantissa(b, c)'
    BY <1>2, <1>3, <2>1, SameSign, SameMantissa
  <2>6. pos' - 1 = pos
    BY <1>4, <2>1
  <2>7. ExponentRead(c, e, pos)
    <3>1. /\ c < Len(text) /\ text[c + 1] \in {"e", "E"}
          /\ e = IF c + 2 <= Len(text) /\ text[c + 2] \in {"-", "+"} THEN c + 2 ELSE c + 1
          /\ \A k \in e + 1 .. pos - 1 : IsDigit(text[k])
      BY <1>3 DEF ExponentRead
    <3>2. pos \in e .. Len(text) /\ \A k \in e + 1 .. pos : k = pos \/ k \in e + 1 .. pos - 1
      BY <1>3, <1>4
    <3>3. \A k \in e + 1 .. pos : IsDigit(text[k])
      BY <1>4, <3>1, <3>2
    <3> QED
      BY <3>1, <3>2, <3>3 DEF ExponentRead
  <2>8. Number(text, e + 1, pos) = 10 * exp + DigitValue[Peek]
    <3> DEFINE from == e + 1
               to == pos - 1
    <3>1. from \in Nat /\ from > 0 /\ to \in Nat /\ to + 1 >= from /\ to + 1 = pos
      BY <1>3, <1>4
    <3>2. exp = Number(text, from, to) /\ IsDigit(text[to + 1]) /\ text[to + 1] = Peek
      BY <1>3, <1>4, <3>1
    <3> HIDE DEF from, to
    <3>3. Number(text, from, to + 1) = 10 * Number(text, from, to) + DigitValue[text[to + 1]]
      BY <3>1, <3>2, NumberStep
    <3>4. Number(text, from, pos) = 10 * exp + DigitValue[Peek]
      BY <3>1, <3>2, <3>3
    <3> QED
      BY <3>4 DEF from
  <2>9. PowerRead(c, e)'
    <3>1. ExponentRead(c, e, pos - 1)'
      <4>1. \A to : ExponentRead(c, e, to)' <=> ExponentRead(c, e, to)
        BY <2>1, SameText
      <4>3. PICK p : p = pos
        OBVIOUS
      <4>4. ExponentRead(c, e, p)'
        BY <2>7, <4>1, <4>3
      <4> QED
        BY <2>6, <4>3, <4>4
    <3>2. expNegative' <=> text'[e] = "-"
      BY <1>2, <2>1 DEF PowerRead
    <3>3. expDigits' = pos' - 1 - e /\ (opts'.maxExponentDigits > 0 => expDigits' <= opts'.maxExponentDigits)
      BY <1>3, <1>4, <1>5, <1>7, <2>1
    <3>4. exp' = Number(text', e + 1, pos' - 1)
      BY <2>1, <2>6, <2>8
    <3> QED
      BY <3>1, <3>2, <3>3, <3>4 DEF PowerRead
  <2>10. ExpDigitsInv'
    BY <2>5, <2>9 DEF ExpDigitsInv
  <2> QED
    BY <1>1, <2>1, <2>4, <2>10
       DEF ParserInv, StartInv, FastInv, InSimpleLoop, IntegerInv, FractionInv, ExponentInv, FinishInv
<1> QED
  BY <1>6, <1>7

\* The exponent ends, has a digit and is no wider than a scale.
LEMMA ExponentEndKeeps ==
    ASSUME ParserInv, ExponentEnd
    PROVE  ParserInv'
<1>1. pc = "expDigits" /\ ~IsDigit(Peek)
  BY DEF ExponentEnd
<1>2. PICK b, c, e \in Nat : Mantissa(b, c) /\ PowerRead(c, e)
  BY <1>1 DEF ParserInv, ExpDigitsInv
<1>3. /\ Readable /\ SeparatorsDiffer /\ TypeOK /\ text \in Seq(STRING) /\ Len(text) \in Nat
      /\ pos \in 1 .. Len(text) + 1 /\ opts \in OptionsType /\ SignRead
      /\ pos - 1 \in Nat /\ e <= pos - 1 /\ expDigits = pos - 1 - e /\ exp = Number(text, e + 1, pos - 1)
      /\ ExponentRead(c, e, pos - 1)
      /\ \A r \in Readings(text) :
           r.e = e /\ e < Len(text) /\ \A k \in e + 1 .. Len(text) : IsDigit(text[k])
  BY <1>1, <1>2, PowerSoFar
<1>4. pos <= Len(text) => ~IsDigit(text[pos])
  BY <1>1, <1>3, PeekIs
<1>5. \A r \in Readings(text) : pos - 1 = Len(text)
  <2> TAKE r \in Readings(text)
  <2>1. pos <= Len(text) => pos \in e + 1 .. Len(text)
    BY <1>3
  <2> QED
    BY <1>3, <1>4, <2>1
<1>6. exp \in Nat /\ MaxScale \in Nat
  <2>1. e + 1 \in Nat /\ e + 1 > 0
    OBVIOUS
  <2>2. \A k \in Nat : Number(text, e + 1, k) \in Nat
    BY <2>1, NumberStep
  <2> QED
    BY <1>3, <2>2, MaxScaleAssumption
<1>7. CASE expDigits = 0
  <2>1. Reject
    BY <1>7 DEF ExponentEnd
  <2>2. \A r \in Readings(text) : FALSE
    BY <1>3, <1>5, <1>7
  <2> QED
    BY <2>1, <2>2, RejectKeeps
<1>8. CASE expDigits # 0 /\ exp > MaxScale
  <2>1. Return(Fail("ErrInvalidScale"))
    BY <1>8 DEF ExponentEnd
  <2>2. ASSUME NEW n \in Written PROVE ~FitsScale(n)
    <3>1. PICK r \in Readings(text) : n = Reading(text, r)
      BY DEF Written
    <3>2. n.power = Number(text, e + 1, Len(text)) /\ Len(text) = pos - 1
      BY <1>3, <1>5, <3>1 DEF Reading
    <3>3. n.power = exp
      BY <1>3, <3>2
    <3> QED
      BY <1>6, <1>8, <3>3 DEF FitsScale
  <2> QED
    BY <2>1, <2>2, RefusedRight, ReturnKeeps
<1>9. CASE expDigits # 0 /\ ~(exp > MaxScale)
  <2>1. /\ pc' = "finish"
        /\ UNCHANGED <<text, opts, pos, negative, coef, digitCount, fracDigits, seenPoint, groupLen, groups,
                       expNegative, exp, expDigits, result>>
    BY <1>9 DEF ExponentEnd, input, number, grouped, expo
  <2>2. TypeOK'
    BY <1>3, <2>1 DEF TypeOK
  <2>3. SeparatorsDiffer'
    BY <1>3, <2>1, SameText
  <2>4. TypeOK' /\ OptionsInv' /\ ParsedRight'
    BY <2>1, <2>2, <2>3, GoesOn
  <2>5. SignRead' /\ Mantissa(b, c)'
    BY <1>2, <1>3, <2>1, SameSign, SameMantissa
  <2>6. PowerRead(c, e)'
    <3>1. ExponentRead(c, e, pos - 1)'
      <4>1. PICK p : p = pos - 1
        OBVIOUS
      <4>2. ExponentRead(c, e, p)'
        BY <1>3, <2>1, <4>1, SameText
      <4> QED
        BY <2>1, <4>1, <4>2
    <3>2. \A k : Number(text', e + 1, k) = Number(text, e + 1, k)
      BY <2>1
    <3> QED
      BY <1>2, <2>1, <3>1, <3>2 DEF PowerRead
  <2>7. expDigits > 0 /\ exp <= MaxScale
    BY <1>3, <1>6, <1>9
  <2>8. PowerDone(c, e)'
    BY <1>4, <2>1, <2>6, <2>7 DEF PowerDone
  <2>9. FinishInv'
    BY <2>5, <2>8 DEF FinishInv
  <2> QED
    BY <2>1, <2>4, <2>9
       DEF ParserInv, StartInv, FastInv, InSimpleLoop, IntegerInv, FractionInv, ExponentInv, ExpDigitsInv
<1> QED
  BY <1>7, <1>8, <1>9

-----------------------------------------------------------------------------
(* The end *)

\* The number a whole text writes is the one the parser has read.
LEMMA OutcomeIs ==
    ASSUME TypeOK, SignRead, NEW b \in Nat, NEW c \in Nat, NEW e \in Nat, Mantissa(b, c), PowerDone(c, e), AtEnd
    PROVE  /\ WholeExponent(c, e) /\ exp \in Nat /\ exp <= MaxScale
           /\ Outcome(c, e).coef = Signed(coef) /\ Outcome(c, e).digits = digitCount
           /\ Outcome(c, e).power = exp
           /\ Outcome(c, e).scale = fracDigits - (IF expNegative THEN -exp ELSE exp)
           /\ opts.maxExponentDigits > 0 => Outcome(c, e).expDigits <= opts.maxExponentDigits
<1>1. text \in Seq(STRING) /\ Len(text) \in Nat /\ pos = Len(text) + 1 /\ opts.maxExponentDigits \in Nat
  BY PeekIs DEF TypeOK, OptionsType
<1>2. MaxScale \in Nat
  BY MaxScaleAssumption
<1>3. e + 1 \in Nat /\ e + 1 > 0
  OBVIOUS
<1>4. \A k \in Nat : Number(text, e + 1, k) \in Nat /\ (k < e + 1 => Number(text, e + 1, k) = 0)
  BY <1>3, NumberStep
<1>5. CASE Unscaled /\ e = c /\ pos = c + 1
  <2>1. e = Len(text) /\ c = Len(text) /\ exp = 0 /\ expNegative = FALSE
    BY <1>1, <1>5 DEF Unscaled
  <2>2. Number(text, e + 1, Len(text)) = 0
    BY <1>1, <1>4, <2>1
  <2>3. Outcome(c, e).expDigits = 0 /\ Outcome(c, e).power = 0
    BY <1>1, <2>1, <2>2 DEF Outcome
  <2>4. Outcome(c, e).scale = fracDigits - 0
    BY <2>1, <2>2 DEF Outcome
  <2>5. Outcome(c, e).coef = Signed(coef) /\ Outcome(c, e).digits = digitCount
    BY DEF Outcome
  <2>6. WholeExponent(c, e)
    BY <2>1 DEF WholeExponent
  <2> QED
    BY <1>1, <1>2, <2>1, <2>3, <2>4, <2>5, <2>6
<1>6. CASE PowerRead(c, e) /\ expDigits > 0 /\ exp <= MaxScale
  <2>1. /\ ExponentRead(c, e, pos - 1) /\ (expNegative <=> text[e] = "-")
        /\ exp = Number(text, e + 1, pos - 1) /\ expDigits = pos - 1 - e
        /\ opts.maxExponentDigits > 0 => expDigits <= opts.maxExponentDigits
    BY <1>6 DEF PowerRead
  <2>2. pos - 1 = Len(text)
    BY <1>1
  <2>3. exp = Number(text, e + 1, Len(text)) /\ exp \in Nat
    BY <1>1, <1>4, <2>1, <2>2
  <2>4. e > c /\ e < Len(text)
    <3>1. e = c + 1 \/ e = c + 2
      BY <2>1 DEF ExponentRead
    <3> QED
      BY <1>1, <1>6, <2>1, <2>2, <3>1
  <2>5. WholeExponent(c, e)
    BY <2>1, <2>2, <2>4 DEF WholeExponent
  <2>6. Outcome(c, e).expDigits = expDigits
    BY <2>1, <2>2 DEF Outcome
  <2>7. /\ Outcome(c, e).coef = Signed(coef) /\ Outcome(c, e).digits = digitCount /\ Outcome(c, e).power = exp
        /\ Outcome(c, e).scale = fracDigits - (IF expNegative THEN -exp ELSE exp)
    BY <2>1, <2>3, <2>4 DEF Outcome
  <2> QED
    BY <1>6, <2>1, <2>3, <2>5, <2>6, <2>7
<1> QED
  BY <1>5, <1>6 DEF PowerDone

\* At the end of the text there is a reading, and its limits are checked.
LEMMA FinishKeeps ==
    ASSUME ParserInv, Finish
    PROVE  ParserInv'
<1>1. pc = "finish"
  BY DEF Finish
<1>2. /\ Readable /\ SeparatorsDiffer /\ TypeOK /\ text \in Seq(STRING) /\ Len(text) \in Nat
      /\ pos \in 1 .. Len(text) + 1 /\ opts \in OptionsType
  BY <1>1, Reads
<1>3. SignRead
  BY <1>1 DEF ParserInv, FinishInv
<1>4. PICK b, c, e \in Nat : Mantissa(b, c) /\ PowerDone(c, e)
  BY <1>1 DEF ParserInv, FinishInv
<1>5. CASE ~AtEnd
  <2>1. Reject
    BY <1>5 DEF Finish
  <2>2. pos \in 1 .. Len(text)
    BY <1>2, <1>5, PeekIs
  <2>3. ASSUME NEW r \in Readings(text) PROVE FALSE
    <3>1. IntegerDone(b) /\ FractionDone(b, c)
      BY <1>4 DEF Mantissa
    <3>2. CASE Unscaled /\ e = c /\ pos = c + 1 /\ (pos <= Len(text) => text[pos] \notin {"e", "E"})
      <4>1. c < Len(text) /\ text[c + 1] \notin {"e", "E"}
        BY <1>2, <2>2, <3>2
      <4> QED
        BY <1>2, <3>1, <4>1, ExponentEnds
    <3>3. CASE PowerRead(c, e) /\ (pos <= Len(text) => ~IsDigit(text[pos]))
      <4>1. ExponentRead(c, e, pos - 1) /\ pos - 1 \in Nat
        BY <1>2, <3>3 DEF PowerRead
      <4>2. \A k \in e + 1 .. Len(text) : IsDigit(text[k])
        BY <1>2, <3>1, <4>1, ExponentEnds
      <4>3. pos \in e + 1 .. Len(text)
        BY <1>2, <2>2, <4>1 DEF ExponentRead
      <4> QED
        BY <2>2, <3>3, <4>2, <4>3
    <3> QED
      BY <1>4, <3>2, <3>3 DEF PowerDone
  <2> QED
    BY <2>1, <2>3, RejectKeeps
<1>6. CASE AtEnd
  <2> DEFINE n        == Outcome(c, e)
             places   == fracDigits - (IF expNegative THEN -exp ELSE exp)
             expanded == digitCount + (IF places < 0 THEN -places ELSE 0)
             beyond   == \/ opts.maxDigits > 0 /\ expanded > opts.maxDigits
                         \/ opts.maxScale > 0 /\ places > opts.maxScale
  <2>1. /\ WholeExponent(c, e) /\ exp \in Nat /\ exp <= MaxScale
        /\ n.coef = Signed(coef) /\ n.digits = digitCount /\ n.power = exp /\ n.scale = places
        /\ opts.maxExponentDigits > 0 => n.expDigits <= opts.maxExponentDigits
    BY <1>2, <1>3, <1>4, <1>6, OutcomeIs
  <2>2. Written = {n}
    <3>1. Readings(text) = {Parts(b, c, e)} /\ Reading(text, Parts(b, c, e)) = n
      BY <1>2, <1>3, <1>4, <2>1, ReadingIs
    <3> HIDE DEF n
    <3> QED
      BY <1>2, <3>1 DEF Written
  <2>3. /\ digitCount \in Nat /\ fracDigits \in Nat /\ places \in Int /\ MaxScale \in Nat
        /\ opts.maxDigits \in Nat /\ opts.maxScale \in Nat
    <3>1. digitCount \in Nat /\ fracDigits \in 0 .. digitCount
      BY <1>2 DEF TypeOK
    <3>2. places \in Int
      BY <2>1, <3>1
    <3> QED
      BY <1>2, <3>1, <3>2, MaxScaleAssumption DEF OptionsType
  <2>4. IF beyond THEN Return(Fail("ErrLimitExceeded"))
        ELSE IF places > MaxScale THEN Return(Fail("ErrInvalidScale"))
        ELSE IF places < 0 THEN Return(Ok(Dec(Signed(coef) * Pow10[-places], 0)))
        ELSE Return(Ok(Dec(Signed(coef), places)))
    BY <1>6 DEF Finish
  <2> HIDE DEF n, places
  <2>5. WithinLimits(n) <=> ~beyond
    BY <2>1, <2>3 DEF WithinLimits
  <2>6. FitsScale(n) <=> ~(places > MaxScale)
    BY <2>1, <2>3 DEF FitsScale
  <2> HIDE DEF beyond
  <2>7. CASE beyond
    BY <2>2, <2>4, <2>5, <2>7, RefusedRight, ReturnKeeps
  <2>8. CASE ~beyond /\ places > MaxScale
    BY <2>2, <2>4, <2>6, <2>8, RefusedRight, ReturnKeeps
  <2>9. ASSUME ~beyond, ~(places > MaxScale) PROVE ParserInv'
    <3> DEFINE answer == Ok(Decoded(n))
    <3>1. Decoded(n) = (IF places < 0 THEN Dec(Signed(coef) * Pow10[-places], 0) ELSE Dec(Signed(coef), places))
      BY <2>1 DEF Decoded
    <3>2. Return(answer)
      BY <2>4, <2>9, <3>1
    <3>3. Decoded(n).scale \in 0 .. MaxScale
      BY <2>3, <2>9, <3>1 DEF Dec
    <3>4. answer.val = Decoded(n) /\ answer.err = "nil"
      BY DEF Ok
    <3> HIDE DEF answer
    <3>5. Right(answer)
      BY <2>2, <2>5, <2>6, <2>9, <3>3, <3>4 DEF Right
    <3> QED
      BY <3>2, <3>5, ReturnKeeps
  <2> QED
    BY <2>7, <2>8, <2>9
<1> QED
  BY <1>5, <1>6

-----------------------------------------------------------------------------
(* The parser *)

\* Nothing has been read at first.
LEMMA InitParses == Init => ParserInv
<1> SUFFICES ASSUME Init PROVE ParserInv
  OBVIOUS
<1>1. text \in Texts /\ Unread /\ Ungrouped /\ Unscaled /\ result = ZeroValue
  BY DEF Init, Unread, Ungrouped, Unscaled
<1>2. /\ pc \in {"bytes", "simple", "options"} /\ opts \in OptionSets \cup {DefaultOptions, FlexibleOptions}
      /\ pc \in {"bytes", "simple"} => opts = DefaultOptions
  BY DEF Init
<1>3. OptionsInv
  BY <1>2, OptionsAre DEF OptionsInv
<1>4. TypeOK
  <2>1. text \in Seq(STRING)
    BY <1>1, ParserAssumption
  <2>2. opts \in OptionsType
    BY <1>3, OptionsAre
  <2>3. coef \in 0 .. Powers(10)[digitCount] - 1
    <3>1. Powers(10)[0] = 1
      BY PowersStep
    <3> QED
      BY <1>1, <3>1 DEF Unread
  <2>4. result.scale \in 0 .. MaxScale
    BY <1>1, MaxScaleAssumption DEF ZeroValue, Dec
  <2>5. pos \in 1 .. Len(text) + 1
    <3>1. Len(text) \in Nat
      BY <2>1
    <3> QED
      BY <1>1, <3>1 DEF Unread
  <2> QED
    BY <1>1, <2>1, <2>2, <2>3, <2>4, <2>5 DEF TypeOK, Unread
<1>5. ParsedRight
  BY <1>2, <1>4 DEF ParsedRight, ParseIsMeaning, ErrorsAreHonest, TypeOK
<1> QED
  BY <1>1, <1>2, <1>3, <1>4, <1>5
     DEF ParserInv, StartInv, FastInv, InSimpleLoop, IntegerInv, FractionInv, ExponentInv, ExpDigitsInv, FinishInv

\* A stutter keeps the invariant.
LEMMA SameStateParses == ParserInv /\ UNCHANGED vars => ParserInv'
<1> SUFFICES ASSUME ParserInv, UNCHANGED vars PROVE ParserInv'
  OBVIOUS
<1>1. UNCHANGED <<text, opts, pc, pos, negative, coef, digitCount, fracDigits, seenPoint, groupLen, groups,
                  expNegative, exp, expDigits, result, err>>
  BY DEF vars, input, number, grouped, expo
<1>2. TypeOK'
  BY <1>1 DEF ParserInv, TypeOK
<1>3. OptionsInv' /\ StartInv'
  BY <1>1 DEF ParserInv, OptionsInv, SeparatorsDiffer, DecimalSeparator, StartInv, Unread, Ungrouped, Unscaled
<1>4. ParsedRight'
  BY <1>1, SameWritten DEF ParserInv, ParsedRight, ParseIsMeaning, ErrorsAreHonest
<1>5. /\ SignEnd' = SignEnd /\ \A c : IsSeparator(c)' <=> IsSeparator(c)
      /\ \A to : IntegerRead(to)' <=> IntegerRead(to)
      /\ \A c, e, to : ExponentRead(c, e, to)' <=> ExponentRead(c, e, to)
  BY <1>1, SameText
<1>6. /\ \A b : IntegerDone(b)' <=> IntegerDone(b)
      /\ \A b, to : FractionRead(b, to)' <=> FractionRead(b, to)
      /\ \A b, c : FractionDone(b, c)' <=> FractionDone(b, c)
      /\ \A to : Counted(to)' <=> Counted(to)
      /\ SignRead' <=> SignRead
      /\ \A b, c : Mantissa(b, c)' <=> Mantissa(b, c)
  BY <1>1, SameInteger, SameFraction, SameCount, SameSign, SameMantissa
<1>7. PICK to : to = pos - 1
  OBVIOUS
<1>8. to = pos' - 1
  BY <1>1, <1>7
<1>9. /\ Counted(pos - 1)' <=> Counted(pos - 1)
      /\ IntegerRead(pos - 1)' <=> IntegerRead(pos - 1)
      /\ \A b : FractionRead(b, pos - 1)' <=> FractionRead(b, pos - 1)
      /\ \A b : FractionDone(b, pos - 1)' <=> FractionDone(b, pos - 1)
      /\ \A c, e : ExponentRead(c, e, pos - 1)' <=> ExponentRead(c, e, pos - 1)
  BY <1>5, <1>6, <1>7, <1>8
<1>10. \A p : OpenGroup(p)' <=> OpenGroup(p)
  BY <1>1, <1>5 DEF OpenGroup
<1>11. \A c, e : PowerRead(c, e)' <=> PowerRead(c, e)
  BY <1>1, <1>9 DEF PowerRead
<1>12. \A c, e : PowerDone(c, e)' <=> PowerDone(c, e)
  BY <1>1, <1>11 DEF PowerDone, Unscaled
<1>13. Ungrouped' <=> Ungrouped
  BY <1>1 DEF Ungrouped
<1>14. Unscaled' <=> Unscaled
  BY <1>1 DEF Unscaled
<1>15. FastInv'
  BY <1>1, <1>5, <1>6, <1>9, <1>13, <1>14 DEF ParserInv, FastInv, InSimpleLoop, FastRead
<1>16. IntegerInv'
  BY <1>1, <1>6, <1>9, <1>10, <1>14 DEF ParserInv, IntegerInv
<1>17. FractionInv' /\ ExponentInv'
  BY <1>1, <1>6, <1>9, <1>14 DEF ParserInv, FractionInv, ExponentInv
<1>18. ExpDigitsInv' /\ FinishInv'
  BY <1>1, <1>6, <1>11, <1>12 DEF ParserInv, ExpDigitsInv, FinishInv
<1> QED
  BY <1>2, <1>3, <1>4, <1>15, <1>16, <1>17, <1>18 DEF ParserInv

\* Every step of the parsers keeps the invariant.
LEMMA StepParses == ParserInv /\ Next => ParserInv'
BY StartKeeps, SimpleDigitKeeps, SimplePointKeeps, SimpleOtherKeeps, SimpleEndKeeps, CheckOptionsKeeps,
   ParseSignKeeps, IntegerDigitKeeps, IntegerSeparatorKeeps, IntegerEndKeeps, FractionDigitKeeps, FractionEndKeeps,
   ParseExponentKeeps, ExponentDigitKeeps, ExponentEndKeeps, FinishKeeps
   DEF Next

-----------------------------------------------------------------------------
(* ParseFixed64: the only reading of a text *)

\* A text has one reading at most: each part of it ends where the characters of its kind do.
LEMMA OneReading ==
    ASSUME Readable, NEW t \in Seq(STRING), NEW r \in Readings(t), NEW s \in Readings(t)
    PROVE  r = s
<1>1. Shape(t, r) /\ Shape(t, s) /\ Len(t) \in Nat
  BY ReadingShape
<1>2. ASSUME NEW u \in Readings(t), NEW w \in Readings(t), Shape(t, u), Shape(t, w)
      PROVE  u.a = w.a /\ ~(u.b < w.b)
  <2>1. u.a = w.a
    BY <1>2 DEF Shape
  <2>2. ASSUME u.b < w.b PROVE FALSE
    <3>1. u.b \in u.a .. Len(t) /\ w.b \in w.a .. Len(t) /\ u.a \in Nat
      BY <1>2 DEF Shape, Readings
    <3>2. u.b + 1 \in w.a + 1 .. w.b /\ u.b < Len(t)
      BY <1>1, <2>1, <2>2, <3>1
    <3> QED
      BY <1>2, <3>2 DEF Shape
  <2> QED
    BY <2>1, <2>2
<1>3. r.a = s.a /\ r.b = s.b /\ r.b \in Nat
  <2>1. r.b \in Nat /\ s.b \in Nat
    BY DEF Readings
  <2> QED
    BY <1>1, <1>2, <2>1
<1>4. ASSUME NEW u \in Readings(t), NEW w \in Readings(t), Shape(t, u), Shape(t, w), u.b = w.b
      PROVE  ~(u.c < w.c)
  <2>1. SUFFICES ASSUME u.c < w.c PROVE FALSE
    OBVIOUS
  <2>2. u.c \in u.b .. Len(t) /\ w.c \in u.b .. Len(t) /\ u.b \in Nat
    BY <1>4 DEF Shape, Readings
  <2>3. w.c >= u.b + 2 /\ t[u.b + 1] = DecimalSeparator /\ \A k \in u.b + 2 .. w.c : IsDigit(t[k])
    BY <1>1, <1>4, <2>1, <2>2 DEF Shape
  <2>4. u.c >= u.b + 2 \/ u.c = u.b
    BY <1>4 DEF Shape
  <2>5. u.b < Len(t)
    BY <1>1, <2>2, <2>3
  <2>6. u.c # u.b
    <3>1. u.c = u.b => t[u.b + 1] \in {"e", "E"}
      BY <1>4, <2>5 DEF Shape
    <3> QED
      BY <2>3, <3>1, SeparatorsAreClear
  <2>7. u.c + 1 \in u.b + 2 .. w.c /\ u.c < Len(t)
    BY <1>1, <2>1, <2>2, <2>4, <2>6
  <2>8. IsDigit(t[u.c + 1]) /\ t[u.c + 1] \in {"e", "E"}
    BY <1>4, <2>3, <2>7 DEF Shape
  <2> QED
    BY <2>8, DigitsAreReserved
<1>5. r.c = s.c
  <2>1. r.c \in Nat /\ s.c \in Nat
    BY DEF Readings
  <2> QED
    BY <1>1, <1>3, <1>4, <2>1
<1>6. ASSUME NEW u \in Readings(t), NEW w \in Readings(t), HasExponent(t, u.c, u.e), HasExponent(t, w.c, w.e), u.c = w.c
      PROVE  ~(u.e < w.e)
  <2>1. SUFFICES ASSUME u.e < w.e PROVE FALSE
    OBVIOUS
  <2>2. u.c \in 0 .. Len(t) /\ u.e \in 0 .. Len(t) /\ w.e \in 0 .. Len(t)
    BY DEF Readings
  <2>3. /\ u.e = u.c + 1 /\ w.e = u.c + 2 /\ w.e < Len(t) /\ t[u.c + 2] \in {"-", "+"}
        /\ Digits(t, u.e + 1, Len(t)) = u.e + 1 .. Len(t)
    BY <1>1, <1>6, <2>1, <2>2 DEF HasExponent
  <2>4. u.c + 2 \in u.e + 1 .. Len(t)
    BY <1>1, <2>2, <2>3
  <2>5. IsDigit(t[u.c + 2])
    BY <2>3, <2>4 DEF Digits
  <2> QED
    BY <2>3, <2>5, DigitsAreReserved
<1>7. r.e = s.e
  <2>1. r.e \in Nat /\ s.e \in Nat
    BY DEF Readings
  <2>2. HasExponent(t, r.c, r.e) /\ HasExponent(t, s.c, s.e)
    BY DEF Readings
  <2>3. ~(r.e < s.e)
    BY <1>5, <1>6, <2>2
  <2>4. ~(s.e < r.e)
    BY <1>5, <1>6, <2>2
  <2> QED
    BY <2>1, <2>3, <2>4
<1>8. \A u \in Readings(t) : u = [a |-> u.a, b |-> u.b, c |-> u.c, e |-> u.e]
  <2> TAKE u \in Readings(t)
  <2>1. u \in [a : 0 .. 1, b : 0 .. Len(t), c : 0 .. Len(t), e : 0 .. Len(t)]
    BY DEF Readings
  <2> QED
    BY <2>1
<1> QED
  BY <1>3, <1>5, <1>7, <1>8

\* The digits of the integer part, and the point and digits after it
WholeDigits(b) == b \in SignEnd .. Len(text) /\ \A k \in SignEnd + 1 .. b : IsDigit(text[k])
PointDigits(b, to) ==
    /\ WholeDigits(b) /\ b < Len(text) /\ text[b + 1] = "."
    /\ to \in b + 1 .. Len(text) /\ \A k \in b + 2 .. to : IsDigit(text[k])

\* A text that has no more than these
Plain(b) == WholeDigits(b) /\ SignEnd < Len(text) /\ (b = Len(text) \/ (PointDigits(b, Len(text)) /\ b + 2 <= Len(text)))
PlainFraction(b) == IF b = Len(text) THEN 0 ELSE Len(text) - b - 1

\* The number a plain text writes
PlainNumber(b) ==
    LET magnitude == Number(text, SignEnd + 1, Len(text))
    IN  [coef      |-> IF SignEnd = 1 /\ text[1] # "+" THEN -magnitude ELSE magnitude,
         digits    |-> Cardinality(Digits(text, SignEnd + 1, Len(text))),
         power     |-> 0,
         expDigits |-> 0,
         scale     |-> PlainFraction(b)]

\* A text of a sign, digits and at most one point has one reading, which writes those digits.
LEMMA PlainReading ==
    ASSUME Readable, text \in Seq(STRING), opts = DefaultOptions, NEW b \in Nat, Plain(b)
    PROVE  Numerals = {PlainNumber(b)} /\ PlainFraction(b) \in Nat
<1>1. Len(text) \in Nat /\ SignEnd \in {0, 1} /\ SignEnd <= Len(text)
  BY SignEnds
<1>2. opts.plus /\ DecimalSeparator = "."
  BY OptionsAre
<1>3. /\ b \in SignEnd .. Len(text) /\ (\A k \in SignEnd + 1 .. b : IsDigit(text[k])) /\ SignEnd < Len(text)
      /\ b = Len(text) \/ (b + 2 <= Len(text) /\ text[b + 1] = "." /\ \A k \in b + 2 .. Len(text) : IsDigit(text[k]))
  BY DEF Plain, PointDigits, WholeDigits
<1> DEFINE w == Len(text)
           r == Parts(b, w, w)
<1>4. r.a = SignEnd /\ r.b = b /\ r.c = w /\ r.e = w
  BY DEF Parts
<1>5. r \in Readings(text)
  <2>1. r \in [a : 0 .. 1, b : 0 .. Len(text), c : 0 .. Len(text), e : 0 .. Len(text)]
    <3>1. SignEnd \in 0 .. 1 /\ b \in 0 .. Len(text) /\ w \in 0 .. Len(text)
      BY <1>1, <1>3
    <3> QED
      BY <3>1 DEF Parts
  <2>2. \/ SignEnd = 0
        \/ SignEnd = 1 /\ (text[1] = "-" \/ (opts.plus /\ text[1] = "+") \/ (opts.unicodeMinus /\ text[1] = "minus"))
    BY <1>1, <1>2 DEF SignEnd, SignLength, Signs
  <2>3. WellGrouped(text, SignEnd + 1, b)
    BY <1>1, <1>3, DigitsAreGrouped
  <2>4. w = b \/ (w >= b + 2 /\ text[b + 1] = DecimalSeparator /\ Digits(text, b + 2, w) = b + 2 .. w)
    BY <1>1, <1>2, <1>3, DigitsAreGrouped
  <2>5. IsNumeral(text, SignEnd, b, w)
    BY <1>3, <2>2, <2>3, <2>4 DEF IsNumeral
  <2>6. HasExponent(text, w, w)
    BY DEF HasExponent
  <2>7. SignEnd <= b /\ b <= w /\ w <= w
    BY <1>1, <1>3
  <2> HIDE DEF r, w
  <2> QED
    BY <1>4, <2>1, <2>5, <2>6, <2>7 DEF Readings
<1>6. Readings(text) = {r}
  BY <1>5, OneReading
<1>7. Number(text, w + 1, w) = 0
  <2>1. w + 1 \in Nat /\ w + 1 > 0 /\ w < w + 1
    BY <1>1
  <2> QED
    BY <1>1, <2>1, NumberStep
<1>8. Reading(text, r) = PlainNumber(b)
  <2> HIDE DEF r
  <2>1. w - w = 0 /\ ~(w > w) /\ PlainFraction(b) - 0 = PlainFraction(b)
    BY <1>1, <1>3 DEF PlainFraction
  <2>2. (IF r.c = r.b THEN 0 ELSE r.c - r.b - 1) = PlainFraction(b)
    BY <1>4 DEF PlainFraction
  <2>3. Number(text, r.e + 1, Len(text)) = 0 /\ Len(text) - r.e = 0 /\ ~(r.e > r.c)
    BY <1>4, <1>7, <2>1
  <2> QED
    BY <1>4, <2>1, <2>2, <2>3 DEF Reading, PlainNumber
<1>9. PlainFraction(b) \in Nat
  BY <1>1, <1>3 DEF PlainFraction
<1> QED
  BY <1>6, <1>8, <1>9 DEF Numerals

-----------------------------------------------------------------------------
(* ParseFixed64: what the digits beyond the scale round to *)

\* Powers(10) fills a table of powers of ten, and every such table is filled like it.
LEMMA PowerTable ==
    /\ \A w \in Nat : PowersOfTen([e \in 0 .. w |-> Powers(10)[e]], w)
    /\ \A e \in 0 .. 2 * MaxScale : Pow10[e] = Powers(10)[e]
<1>1. /\ 10 \in Int /\ 10 \in Nat /\ 10 > 1
  OBVIOUS
<1>2. Powers(10)[0] = 1 /\ \A k \in Nat : Powers(10)[k + 1] = 10 * Powers(10)[k]
  BY <1>1, PowersStep
<1>3. \A k \in Nat : Powers(10)[k] \in Nat \ {0}
  BY <1>1, PowersAreNatural
<1> DEFINE power == Powers(10)
<1> HIDE DEF power
<1>4. power[0] = 1 /\ (\A k \in Nat : power[k + 1] = 10 * power[k]) /\ \A k \in Nat : power[k] \in Nat \ {0}
  BY <1>2, <1>3 DEF power
<1>5. ASSUME NEW w \in Nat PROVE PowersOfTen([e \in 0 .. w |-> power[e]], w)
  <2> DEFINE T == [e \in 0 .. w |-> power[e]]
  <2>1. DOMAIN T = 0 .. w /\ \A e \in 0 .. w : T[e] = power[e]
    OBVIOUS
  <2> HIDE DEF T
  <2>2. ASSUME NEW e \in DOMAIN T PROVE T[e] \in Nat \ {0}
    <3>1. e \in 0 .. w /\ e \in Nat
      BY <2>1
    <3>2. T[e] = power[e]
      BY <2>1, <3>1
    <3> QED
      BY <1>4, <3>1, <3>2
  <2>3. T[0] = 1
    <3>1. 0 \in 0 .. w
      OBVIOUS
    <3>2. T[0] = power[0]
      BY <2>1, <3>1
    <3> QED
      BY <1>4, <3>2
  <2>4. ASSUME NEW e \in DOMAIN T \ {0} PROVE T[e] = 10 * T[e - 1]
    <3>1. e \in 0 .. w /\ e - 1 \in 0 .. w /\ e - 1 \in Nat /\ (e - 1) + 1 = e
      BY <2>1
    <3>2. power[(e - 1) + 1] = 10 * power[e - 1]
      BY <1>4, <3>1
    <3> QED
      BY <2>1, <3>1, <3>2
  <2>5. PowersOfTen(T, w)
    BY <2>1, <2>2, <2>3, <2>4 DEF PowersOfTen
  <2> QED
    BY <2>5 DEF T
<1>6. \A e \in 0 .. 2 * MaxScale : Pow10[e] = power[e]
  <2> DEFINE w == 2 * MaxScale
             S == {n \in Nat : n <= w => Pow10[n] = power[n]}
  <2>0. w \in Nat
    BY MaxScaleAssumption
  <2>1. 0 \in S
    BY <1>4, Pow10Assumption DEF PowersOfTen
  <2>2. ASSUME NEW n \in S PROVE n + 1 \in S
    <3>1. SUFFICES ASSUME n + 1 <= w PROVE Pow10[n + 1] = power[n + 1]
      OBVIOUS
    <3>2. n \in Nat /\ n + 1 <= w /\ Pow10[n] = power[n]
      BY <2>0, <3>1
    <3> HIDE DEF S
    <3>3. Pow10[n + 1] = 10 * Pow10[n]
      BY <2>0, <3>2, Pow10Assumption, PowerStep
    <3> QED
      BY <1>4, <3>2, <3>3
  <2>3. S = Nat
    <3> HIDE DEF S
    <3>1. S \in SUBSET Nat
      BY DEF S
    <3> QED
      BY <2>1, <2>2, <3>1, Induction
  <2> HIDE DEF w
  <2> QED
    BY <2>0, <2>3 DEF w
<1> QED
  BY <1>5, <1>6 DEF power

\* The digit after the last one kept, and whether anything follows it, tell which way a
\* magnitude rounds.
RoundsUp(m, neg, magnitude, first, more) ==
    \/ m = "AwayFromZero" /\ (first # 0 \/ more)
    \/ m = "TowardPositive" /\ ~neg /\ (first # 0 \/ more)
    \/ m = "TowardNegative" /\ neg /\ (first # 0 \/ more)
    \/ m \in NearestModes /\ first > 5
    \/ /\ first = 5
       /\ \/ m = "ToNearestAway"
          \/ m = "ToNearestTowardZero" /\ more
          \/ m = "ToNearestEven" /\ (more \/ magnitude % 2 = 1)

\* The digits of v from the weight 10 * p, of the weight p, and below
AsDigits(v, mag, p, first, rest) == rest < p /\ v = mag * (10 * p) + first * p + rest

\* A magnitude, rounded up or not, with its sign
Taken(neg, up, mag) == LET q == IF up THEN mag + 1 ELSE mag IN IF neg THEN -q ELSE q

\* The magnitude kept, the first digit discarded and whether the rest is zero round as the
\* whole number does, in every mode.
LEMMA DigitsRound ==
    ASSUME NEW mag \in Nat, NEW p \in Nat \ {0}, NEW first \in 0 .. 9, NEW rest \in Nat,
           NEW neg \in BOOLEAN, NEW m \in RoundingModes, NEW v \in Nat, AsDigits(v, mag, p, first, rest)
    PROVE  RoundQuotient(IF neg THEN -v ELSE v, 10 * p, m) =
             Taken(neg, RoundsUp(m, neg, mag, first, rest # 0), mag)
<1> DEFINE den == 10 * p
           x == first * p
           r == x + rest
           t == mag * den
           c == IF neg THEN -v ELSE v
<1>0. rest < p /\ v = mag * (10 * p) + first * p + rest
  BY DEF AsDigits
<1>1. /\ x \in Nat /\ x <= 9 * p /\ (first = 0 => x = 0) /\ (first # 0 => x >= p)
      /\ first > 5 => x >= 6 * p
      /\ first = 5 => x = 5 * p
      /\ first < 5 => x <= 4 * p
  <2>1. first \in {0, 1, 2, 3, 4, 5, 6, 7, 8, 9}
    OBVIOUS
  <2>2. CASE first \in {0, 1, 2, 3, 4}
    BY <2>2
  <2>3. CASE first \in {5, 6, 7, 8, 9}
    BY <2>3
  <2> QED
    BY <2>1, <2>2, <2>3
<1>2. t \in Nat /\ den \in Nat /\ den > 0 /\ v = t + r
  <2>1. \A a, b \in Nat : a * b \in Nat
    OBVIOUS
  <2>2. den \in Nat /\ den > 0
    OBVIOUS
  <2>3. t \in Nat
    BY <2>1, <2>2
  <2>4. v = t + x + rest
    BY <1>0
  <2> HIDE DEF t, x
  <2> QED
    BY <1>1, <2>2, <2>3, <2>4
<1> HIDE DEF x
<1>3. r \in Nat /\ r < den /\ (r = 0 <=> first = 0 /\ rest = 0)
  BY <1>0, <1>1
<1>4. /\ 2 * r > den <=> first > 5 \/ (first = 5 /\ rest # 0)
      /\ 2 * r = den <=> first = 5 /\ rest = 0
  BY <1>0, <1>1
<1> HIDE DEF r
<1>5. c \in Int /\ Magnitude(den) = den /\ ~(den < 0)
  BY <1>2 DEF Magnitude
<1>6. /\ Quo(c, den) = (IF neg THEN -mag ELSE mag)
      /\ Rem(c, den) = (IF neg THEN -r ELSE r)
  <2>1. CASE ~neg
    <3>1. c = mag * den + r /\ c >= 0 /\ r >= 0 /\ Magnitude(r) < den
      BY <1>2, <1>3, <2>1 DEF Magnitude
    <3>2. den \in Int /\ mag \in Int /\ r \in Int /\ (c <= 0 => r <= 0)
      BY <1>2, <1>3, <2>1
    <3> HIDE DEF den, c
    <3>3. Quo(c, den) = mag /\ Rem(c, den) = r
      BY <1>2, <1>5, <3>1, <3>2, DivisionIsUnique
    <3> QED
      BY <2>1, <3>3
  <2>2. CASE neg
    <3>1. (-mag) * den = -t
      <4> HIDE DEF den
      <4> QED
        BY <1>2
    <3>2. c = (-mag) * den + (-r)
      <4> HIDE DEF den, t
      <4> QED
        BY <1>2, <1>3, <2>2, <3>1
    <3>3. /\ Magnitude(-r) < den /\ (c >= 0 => -r >= 0) /\ -r <= 0
      <4> HIDE DEF den, t
      <4> QED
        BY <1>2, <1>3, <2>2 DEF Magnitude
    <3> DEFINE q == -mag
               s == -r
    <3>4. den \in Int /\ q \in Int /\ s \in Int /\ (c <= 0 => s <= 0)
      BY <1>2, <1>3, <3>3
    <3>5. c = q * den + s /\ Magnitude(s) < den /\ (c >= 0 => s >= 0)
      BY <3>2, <3>3
    <3> HIDE DEF den, c, q, s
    <3>6. Quo(c, den) = q /\ Rem(c, den) = s
      BY <1>2, <1>5, <3>4, <3>5, DivisionIsUnique
    <3> QED
      BY <2>2, <3>6 DEF q, s
  <2> QED
    BY <2>1, <2>2
<1> DEFINE quo == IF neg THEN -mag ELSE mag
           rem == IF neg THEN -r ELSE r
<1>7. RoundQuotient(c, den, m) =
        IF rem # 0 /\ RoundsAway(quo, rem, den, Sign(c), m) THEN quo + Sign(c) ELSE quo
  BY <1>5, <1>6 DEF RoundQuotient
<1> HIDE DEF den
<1>8. rem # 0 <=> r # 0
  BY <1>3
<1>9. Magnitude(rem) = r
  BY <1>3 DEF Magnitude
<1>10. quo % 2 = 1 <=> mag % 2 = 1
  OBVIOUS
<1>11. r # 0 => Sign(c) = (IF neg THEN -1 ELSE 1)
  <2> HIDE DEF t
  <2> QED
    BY <1>2, <1>3 DEF Sign
<1> HIDE DEF quo, rem, c, t
<1>12. r # 0 => (RoundsAway(quo, rem, den, Sign(c), m) <=> RoundsUp(m, neg, mag, first, rest # 0))
  <2> SUFFICES ASSUME r # 0
               PROVE  RoundsAway(quo, rem, den, Sign(c), m) <=> RoundsUp(m, neg, mag, first, rest # 0)
    OBVIOUS
  <2>1. first # 0 \/ rest # 0
    BY <1>3
  <2>2. (Sign(c) > 0 <=> ~neg) /\ (Sign(c) < 0 <=> neg)
    BY <1>11
  <2>3. m \in NearestModes => m \in {"ToNearestAway", "ToNearestTowardZero", "ToNearestEven"}
    BY DEF NearestModes
  <2> QED
    BY <1>4, <1>9, <1>10, <2>1, <2>2, <2>3 DEF RoundsAway, RoundsUp, NearestModes
<1>13. r = 0 => ~RoundsUp(m, neg, mag, first, rest # 0)
  BY <1>3 DEF RoundsUp
<1>14. RoundQuotient(c, den, m) = Taken(neg, RoundsUp(m, neg, mag, first, rest # 0), mag)
  BY <1>7, <1>8, <1>11, <1>12, <1>13 DEF quo, Taken
<1> QED
  BY <1>14 DEF c, den

-----------------------------------------------------------------------------
(* ParseFixed64: what the loop has read *)

Tens(k) == Powers(10)[k]

\* Powers of ten.
LEMMA TensGrow == Tens(0) = 1 /\ \A k \in Nat : Tens(k) \in Nat \ {0} /\ Tens(k + 1) = 10 * Tens(k)
<1>1. 10 \in Int /\ 10 \in Nat /\ 10 > 1
  OBVIOUS
<1> QED
  BY <1>1, PowersStep, PowersAreNatural DEF Tens

\* The locals of the loop
Locals ==
    [pos : Nat, negative : BOOLEAN, magnitude : Nat, sawDigit : BOOLEAN, decimalSeen : BOOLEAN,
     fracDigits : Nat, firstDiscard : Nat, discardSeen : BOOLEAN, anyMoreDiscard : BOOLEAN,
     anyDiscardNonzero : BOOLEAN]

\* The digits beyond the scale, of which there are k: the first of them, and the rest
Discarded(v, k, rest, l) ==
    /\ rest < Tens(k - 1)
    /\ v = l.magnitude * (10 * Tens(k - 1)) + l.firstDiscard * Tens(k - 1) + rest
    /\ l.anyMoreDiscard <=> rest # 0
    /\ l.anyDiscardNonzero <=> l.firstDiscard # 0 \/ rest # 0

\* What the locals l keep of the number v the digits write, f of them after the point
Kept(v, f, l) ==
    IF f <= scale
      THEN /\ f <= l.fracDigits /\ l.fracDigits <= scale
           /\ l.magnitude = v * Tens(l.fracDigits - f)
           /\ ~l.discardSeen /\ ~l.anyMoreDiscard /\ ~l.anyDiscardNonzero
      ELSE /\ l.fracDigits = f /\ l.discardSeen /\ l.firstDiscard \in 0 .. 9
           /\ \E rest \in Nat : Discarded(v, f - scale, rest, l)

\* A digit within the scale
LEMMA UnitKept ==
    ASSUME scale \in Nat, NEW l \in Locals, NEW m \in Locals, NEW v \in Nat, NEW d \in 0 .. 9,
           Kept(v, l.fracDigits, l), l.fracDigits <= scale, m.fracDigits <= scale,
           m.magnitude = 10 * l.magnitude + d, m.discardSeen = l.discardSeen,
           m.anyMoreDiscard = l.anyMoreDiscard, m.anyDiscardNonzero = l.anyDiscardNonzero
    PROVE  Kept(10 * v + d, m.fracDigits, m)
<1>1. l.fracDigits \in Nat /\ m.fracDigits \in Nat
  BY DEF Locals
<1>2. l.fracDigits - l.fracDigits = 0 /\ m.fracDigits - m.fracDigits = 0
  BY <1>1
<1>3. l.magnitude = v /\ ~l.discardSeen /\ ~l.anyMoreDiscard /\ ~l.anyDiscardNonzero
  BY <1>2, TensGrow DEF Kept
<1> DEFINE w == 10 * v + d
<1>4. w \in Nat /\ m.magnitude = w
  BY <1>3
<1> HIDE DEF w
<1>5. w * Tens(0) = w
  BY <1>4, TensGrow
<1> QED
  BY <1>1, <1>2, <1>3, <1>4, <1>5 DEF Kept, w

\* The first digit beyond it, and one more
LEMMA DiscardKept ==
    ASSUME scale \in Nat, NEW l \in Locals, NEW m \in Locals, NEW v \in Nat, NEW d \in 0 .. 9,
           Kept(v, l.fracDigits, l), scale <= l.fracDigits, m.fracDigits = l.fracDigits + 1,
           m.magnitude = l.magnitude, m.firstDiscard = (IF l.discardSeen THEN l.firstDiscard ELSE d),
           m.discardSeen = TRUE,
           m.anyMoreDiscard = (l.anyMoreDiscard \/ (l.discardSeen /\ d # 0)),
           m.anyDiscardNonzero = (l.anyDiscardNonzero \/ d # 0)
    PROVE  Kept(10 * v + d, m.fracDigits, m)
<1>1. l.fracDigits \in Nat /\ l.magnitude \in Nat
  BY DEF Locals
<1>2. ~(m.fracDigits <= scale)
  BY <1>1
<1>3. CASE l.fracDigits = scale
  <2>1. l.fracDigits - l.fracDigits = 0 /\ l.fracDigits <= scale
    BY <1>1, <1>3
  <2>2. l.magnitude = v /\ ~l.discardSeen /\ ~l.anyMoreDiscard /\ ~l.anyDiscardNonzero
    BY <1>1, <2>1, TensGrow DEF Kept
  <2>3. (m.fracDigits - scale) - 1 = 0
    BY <1>1, <1>3
  <2>4. Discarded(10 * v + d, m.fracDigits - scale, 0, m)
    <3>1. 10 * v + d = v * (10 * 1) + d * 1 + 0
      OBVIOUS
    <3>2. m.firstDiscard = d /\ m.magnitude = v /\ ~m.anyMoreDiscard /\ (m.anyDiscardNonzero <=> d # 0)
      BY <2>2
    <3>3. Tens((m.fracDigits - scale) - 1) = 1
      BY <2>3, TensGrow
    <3>4. 0 < 1 /\ ~(0 # 0)
      OBVIOUS
    <3> QED
      BY <3>1, <3>2, <3>3, <3>4 DEF Discarded
  <2> QED
    BY <1>2, <2>2, <2>4 DEF Kept
<1>4. CASE l.fracDigits # scale
  <2> DEFINE k == l.fracDigits - scale
             p == Tens(k - 1)
             a == l.magnitude
             b == l.firstDiscard
  <2>1. k \in Nat \ {0} /\ k - 1 \in Nat /\ (k - 1) + 1 = k /\ ~(l.fracDigits <= scale)
    BY <1>1, <1>4
  <2>2. PICK rest \in Nat : Discarded(v, k, rest, l)
    BY <2>1 DEF Kept
  <2>3. l.discardSeen /\ b \in 0 .. 9
    BY <2>1 DEF Kept
  <2>4. p \in Nat \ {0} /\ Tens(k) = 10 * p
    <3> HIDE DEF k
    <3> QED
      BY <2>1, TensGrow
  <2>5. (m.fracDigits - scale) - 1 = k
    BY <1>1
  <2>6. rest < p /\ v = a * (10 * p) + b * p + rest /\ (l.anyMoreDiscard <=> rest # 0)
        /\ (l.anyDiscardNonzero <=> b # 0 \/ rest # 0)
    BY <2>2 DEF Discarded
  <2>7. m.magnitude = a /\ m.firstDiscard = b
    BY <2>3
  <2> HIDE DEF k, p, a, b
  <2> DEFINE more == 10 * rest + d
  <2>8. more \in Nat /\ more < 10 * p /\ (more # 0 <=> rest # 0 \/ d # 0)
    BY <2>4, <2>6
  <2>9. 10 * v + d = a * (10 * (10 * p)) + b * (10 * p) + more
    <3>1. a \in Nat /\ b \in Nat
      BY <1>1, <2>3 DEF a
    <3> DEFINE ap == a * p
               bp == b * p
    <3>2. \A x, y \in Nat : x * y \in Nat
      OBVIOUS
    <3>3. ap \in Nat /\ bp \in Nat
      BY <2>4, <3>1, <3>2
    <3>4. \A x, y \in Nat : x * (10 * y) = 10 * (x * y) /\ x * (10 * (10 * y)) = 100 * (x * y)
      OBVIOUS
    <3>5. a * (10 * p) = 10 * ap /\ a * (10 * (10 * p)) = 100 * ap /\ b * (10 * p) = 10 * bp
      BY <2>4, <3>1, <3>4
    <3> HIDE DEF ap, bp
    <3>6. v = 10 * ap + bp + rest
      BY <2>6, <3>5 DEF bp
    <3> QED
      BY <3>3, <3>5, <3>6
  <2>10. m.anyMoreDiscard <=> more # 0
    BY <2>3, <2>6, <2>8
  <2>11. m.anyDiscardNonzero <=> b # 0 \/ more # 0
    BY <2>3, <2>6, <2>8
  <2> HIDE DEF more
  <2>12. Discarded(10 * v + d, m.fracDigits - scale, more, m)
    BY <2>4, <2>5, <2>7, <2>8, <2>9, <2>10, <2>11 DEF Discarded
  <2>13. m.firstDiscard \in 0 .. 9
    BY <2>3, <2>7
  <2> QED
    BY <1>2, <2>8, <2>12, <2>13 DEF Kept
<1> QED
  BY <1>3, <1>4

\* A zero that is missing
LEMMA PadKept ==
    ASSUME scale \in Nat, NEW l \in Locals, NEW m \in Locals, NEW v \in Nat, NEW f \in Nat,
           Kept(v, f, l), l.fracDigits < scale, m.fracDigits = l.fracDigits + 1,
           m.magnitude = 10 * l.magnitude, m.discardSeen = l.discardSeen,
           m.anyMoreDiscard = l.anyMoreDiscard, m.anyDiscardNonzero = l.anyDiscardNonzero
    PROVE  Kept(v, f, m)
<1>1. l.fracDigits \in Nat
  BY DEF Locals
<1>2. f <= scale
  BY <1>1 DEF Kept
<1>3. f <= l.fracDigits /\ l.magnitude = v * Tens(l.fracDigits - f)
      /\ ~l.discardSeen /\ ~l.anyMoreDiscard /\ ~l.anyDiscardNonzero
  BY <1>2 DEF Kept
<1> DEFINE k == l.fracDigits - f
           t == Tens(k)
<1>4. k \in Nat /\ m.fracDigits - f = k + 1
  BY <1>1, <1>3
<1> HIDE DEF k
<1>5. t \in Nat /\ Tens(k + 1) = 10 * t
  BY <1>4, TensGrow
<1>6. m.magnitude = v * Tens(k + 1)
  <2>1. l.magnitude = v * t
    BY <1>3 DEF k
  <2> HIDE DEF t
  <2>2. \A x, y \in Nat : 10 * (x * y) = x * (10 * y)
    OBVIOUS
  <2> QED
    BY <1>5, <2>1, <2>2
<1>7. f <= m.fracDigits /\ m.fracDigits <= scale
  BY <1>1, <1>3
<1> QED
  BY <1>2, <1>3, <1>4, <1>6, <1>7 DEF Kept

\* The digits and the point read so far
PointRead(l, to) ==
    IF l.decimalSeen THEN \E b \in Nat : PointDigits(b, to) /\ l.fracDigits = to - b - 1
    ELSE WholeDigits(to) /\ l.fracDigits = 0

SignKept(l) == l.negative <=> SignEnd = 1 /\ text[1] # "+"

\* A Unicode minus sign makes the loop give way at once.
LoopRead(l) ==
    \/ text # <<>> /\ text[1] = "minus" /\ l.pos = 1
    \/ /\ l.pos - 1 \in SignEnd .. Len(text) /\ SignKept(l) /\ PointRead(l, l.pos - 1)
       /\ l.sawDigit <=> \E k \in SignEnd + 1 .. l.pos - 1 : IsDigit(text[k])
       /\ Kept(Number(text, SignEnd + 1, l.pos - 1), l.fracDigits, l)

WholeRead(l) ==
    /\ SignKept(l)
    /\ \E b \in Nat : Plain(b) /\ Kept(Number(text, SignEnd + 1, Len(text)), PlainFraction(b), l)

\* The locals before the loop
Fresh ==
    [pos |-> 1, negative |-> FALSE, magnitude |-> 0, sawDigit |-> FALSE,
     decimalSeen |-> FALSE, fracDigits |-> 0, firstDiscard |-> 0,
     discardSeen |-> FALSE, anyMoreDiscard |-> FALSE, anyDiscardNonzero |-> FALSE]

LimitOf(l) == IF l.negative THEN MaxInt64 + 1 ELSE MaxInt64

\* What the locals are in a stage of a valid call
Keeps(s, l) ==
    /\ l \in Locals /\ l.pos <= Len(text) + 1 /\ l.pos >= 1 /\ l.magnitude <= LimitOf(l)
    /\ s = "loop" => LoopRead(l)
    /\ s \in {"pad", "round"} => WholeRead(l)
    /\ s = "round" => l.fracDigits >= scale

FixedInv ==
    /\ ParserInv /\ scale \in Int
    /\ stage \in {"direct", "arguments", "loop", "pad", "round", "parse", "returned"}
    /\ Keeps(stage, loop)
    /\ stage \in {"arguments", "direct"} => loop = Fresh
    /\ stage # "direct" => opts = DefaultOptions
    /\ stage \in {"loop", "pad", "round", "parse"} => ValidCall
    /\ fixed.units \in F!Int64 /\ F!ValidFixed64Scale(fixed.scale)
    /\ FixedIsMeaning

\* An answer of ParseFixed64 that its meaning allows
FixedRight(answer) ==
    /\ answer.val.units \in F!Int64 /\ F!ValidFixed64Scale(answer.val.scale)
    /\ ValidCall =>
        IF answer.err = "nil"
          THEN \E n \in Numerals :
                 /\ answer.val.scale = scale
                 /\ IsRounded(answer.val.units, Decoded(n).coef * Powers(10)[scale], Powers(10)[Decoded(n).scale], mode)
          ELSE \A n \in Numerals : WithinLimits(n) /\ FitsScale(n) =>
                 answer.err = "ErrOverflow" /\ RoundedUnits(n) \notin F!Int64

-----------------------------------------------------------------------------
(* ParseFixed64: steps that return, and steps that go on *)

\* ParseFixed64 returns a right answer.
LEMMA FixedReturnKeeps ==
    ASSUME FixedInv, UNCHANGED vars, stage # "direct", NEW answer, FixedReturn(answer), FixedRight(answer)
    PROVE  FixedInv'
<1>1. ParserInv'
  BY SameStateParses DEF FixedInv
<1>2. /\ stage' = "returned" /\ fixed' = answer.val /\ fixedErr' = answer.err
      /\ UNCHANGED <<scale, mode, loop, text, opts>>
  BY DEF FixedReturn, arguments, vars, input
<1>3. Keeps(stage, loop)'
  BY <1>2 DEF FixedInv, Keeps, LimitOf
<1>4. FixedIsMeaning'
  <2>1. (ValidCall' <=> ValidCall) /\ Numerals' = Numerals
    BY <1>2 DEF ValidCall, Numerals, Readings, Reading, IsNumeral, WellGrouped, IsSeparator, DecimalSeparator
  <2>2. \A n : RoundedUnits(n)' = RoundedUnits(n) /\ (WithinLimits(n)' <=> WithinLimits(n))
    BY <1>2 DEF RoundedUnits, WithinLimits
  <2>3. /\ fixed'.units = answer.val.units /\ fixed'.scale = answer.val.scale
    BY <1>2
  <2> QED
    BY <1>2, <2>1, <2>2, <2>3 DEF FixedRight, FixedIsMeaning
<1>5. fixed'.units \in F!Int64 /\ F!ValidFixed64Scale(fixed'.scale)
  BY <1>2 DEF FixedRight
<1> QED
  BY <1>1, <1>2, <1>3, <1>4, <1>5 DEF FixedInv

\* A text without readings is a syntax error.
LEMMA FixedRejectKeeps ==
    ASSUME FixedInv, UNCHANGED vars, stage # "direct", NEW e, e # "nil", FixedReturn(F!Fail(e)),
           ValidCall => \A r \in Readings(text) : FALSE
    PROVE  FixedInv'
<1>1. F!Fail(e).err = e /\ F!Fail(e).val.units = 0 /\ F!Fail(e).val.scale = 0
  BY DEF F!Fail, F!Fixed
<1>2. 0 \in F!Int64 /\ F!ValidFixed64Scale(0)
  BY FixedParserAssumption DEF F!Int64, F!MinInt64, F!ValidFixed64Scale
<1>3. ValidCall => Numerals = {}
  BY DEF Numerals
<1>4. FixedRight(F!Fail(e))
  BY <1>1, <1>2, <1>3 DEF FixedRight
<1> QED
  BY <1>4, FixedReturnKeeps

\* The loop of ParseFixed64 goes on with locals that say what has been read.
LEMMA ContinueKeeps ==
    ASSUME FixedInv, UNCHANGED vars, stage \notin {"direct", "returned"}, ValidCall, NEW s \in {"loop", "pad", "round", "parse"},
           NEW l, Continue(s, l), Keeps(s, l)
    PROVE  FixedInv'
<1>1. ParserInv'
  BY SameStateParses DEF FixedInv
<1>2. /\ stage' = s /\ loop' = l
      /\ UNCHANGED <<scale, mode, fixed, fixedErr, text, opts>>
  BY DEF Continue, arguments, vars, input
<1>3. Keeps(stage, loop)'
  <2>1. SignEnd' = SignEnd
    BY <1>2, SameText
  <2>2. LoopRead(l) => LoopRead(loop)'
    BY <1>2, <2>1 DEF LoopRead, SignKept, PointRead, PointDigits, WholeDigits, Kept, Discarded
  <2>3. WholeRead(l) => WholeRead(loop)'
    BY <1>2, <2>1 DEF WholeRead, SignKept, Plain, PlainFraction, PointDigits, WholeDigits, Kept, Discarded
  <2> QED
    BY <1>2, <2>2, <2>3 DEF Keeps, LimitOf
<1>4. ValidCall'
  BY <1>2 DEF ValidCall
<1>5. FixedIsMeaning'
  BY <1>2 DEF FixedIsMeaning
<1> QED
  BY <1>1, <1>2, <1>3, <1>4, <1>5 DEF FixedInv

\* The loop gives way to Parse.
LEMMA FallBackKeeps ==
    ASSUME FixedInv, UNCHANGED vars, stage \notin {"direct", "returned"}, ValidCall, FallBack
    PROVE  FixedInv'
<1>1. Keeps("parse", loop)
  BY DEF FixedInv, Keeps
<1>2. Continue("parse", loop) /\ "parse" \in {"loop", "pad", "round", "parse"}
  BY DEF FallBack
<1> QED
  BY <1>1, <1>2, ContinueKeeps

\* The point of a numeral in the default options is where its integer part ends, and
\* a digit follows it.
LEMMA OnePoint ==
    ASSUME Readable, opts = DefaultOptions, text \in Seq(STRING), NEW r \in Readings(text),
           NEW k \in 1 .. Len(text), text[k] = "."
    PROVE  k = r.b + 1 /\ r.b \in Nat /\ r.b + 2 <= Len(text)
<1>1. Shape(text, r) /\ Len(text) \in Nat
  BY ReadingShape
<1>2. DecimalSeparator = "." /\ \A c : ~IsSeparator(c)
  BY OptionsAre
<1>3. ~IsDigit(".") /\ "." \notin {"-", "+", "minus", "e", "E"}
  BY DigitsAreReserved
<1>4. /\ r.a = SignLength(text) /\ r.b \in r.a .. Len(text) /\ r.c \in r.b .. Len(text) /\ r.e \in r.c .. Len(text)
      /\ \A j \in r.a + 1 .. r.b : IsDigit(text[j])
      /\ \/ r.c = r.b /\ (r.b < Len(text) => text[r.b + 1] # ".")
         \/ r.c >= r.b + 2 /\ text[r.b + 1] = "." /\ \A j \in r.b + 2 .. r.c : IsDigit(text[j])
      /\ HasExponent(text, r.c, r.e)
  BY <1>1, <1>2 DEF Shape, IntegerChar
<1>5. r.a \in {0, 1} /\ (r.a = 1 => text[1] # ".") /\ r.b \in Nat /\ r.c \in Nat /\ r.e \in Nat
  <2>1. SignLength(text) \in {0, 1} /\ (SignLength(text) = 1 => text[1] # ".")
    BY <1>3 DEF SignLength, Signs
  <2> QED
    BY <1>4, <2>1
<1>6. ~(k <= r.b)
  <2>1. CASE k <= r.a
    BY <1>5, <2>1
  <2>2. CASE k > r.a
    BY <1>3, <1>4, <1>5, <2>2
  <2> QED
    BY <1>5, <2>1, <2>2
<1>7. ~(k > r.c)
  <2> SUFFICES ASSUME k > r.c PROVE FALSE
    OBVIOUS
  <2>1. /\ r.e \in {r.c + 1, r.c + 2} /\ r.e < Len(text) /\ text[r.c + 1] \in {"e", "E"}
        /\ r.e = r.c + 2 => text[r.c + 2] \in {"-", "+"}
        /\ Digits(text, r.e + 1, Len(text)) = r.e + 1 .. Len(text)
    BY <1>1, <1>5 DEF HasExponent, Shape
  <2>2. CASE k = r.c + 1
    BY <1>3, <2>1, <2>2
  <2>3. CASE k = r.c + 2 /\ r.e = r.c + 2
    BY <1>3, <2>1, <2>3
  <2>4. CASE k > r.e
    <3>1. k \in r.e + 1 .. Len(text)
      BY <1>1, <1>5, <2>4
    <3>2. IsDigit(text[k])
      BY <2>1, <3>1 DEF Digits
    <3> QED
      BY <1>3, <3>2
  <2> QED
    BY <1>1, <1>5, <2>1, <2>2, <2>3, <2>4
<1>8. r.b < k /\ k <= r.c /\ r.c <= Len(text)
  BY <1>1, <1>4, <1>5, <1>6, <1>7
<1>9. ~(k \in r.b + 2 .. r.c)
  BY <1>3, <1>4, <1>5, <1>8
<1> QED
  BY <1>1, <1>4, <1>5, <1>8, <1>9

-----------------------------------------------------------------------------
(* ParseFixed64: the steps of the loop *)

\* What the invariant says of a stage before Parse
LEMMA FixedSoFar ==
    ASSUME FixedInv, stage \in {"loop", "pad", "round", "parse"}
    PROVE  /\ opts = DefaultOptions /\ Readable /\ text \in Seq(STRING) /\ Len(text) \in Nat
           /\ ValidCall /\ scale \in Nat /\ loop \in Locals /\ loop.pos \in 1 .. Len(text) + 1
           /\ loop.magnitude \in 0 .. Limit /\ Limit = LimitOf(loop)
           /\ Keeps(stage, loop) /\ stage \notin {"direct", "returned"}
<1>1. opts = DefaultOptions /\ ValidCall /\ Keeps(stage, loop) /\ OptionsInv /\ text \in Seq(STRING)
  <2>1. stage # "direct"
    OBVIOUS
  <2> QED
    BY <2>1 DEF FixedInv, ParserInv, TypeOK
<1>2. SeparatorsDiffer /\ Readable
  BY <1>1, OptionsAre
<1>3. Limit = LimitOf(loop)
  BY DEF Limit, LimitOf
<1>4. loop \in Locals /\ loop.pos \in Nat /\ loop.magnitude \in Nat /\ loop.pos <= Len(text) + 1
      /\ loop.pos >= 1 /\ loop.magnitude <= LimitOf(loop)
  BY <1>1 DEF Keeps, Locals
<1>5. scale \in Nat
  <2>1. 0 <= scale /\ scale <= MaxFixedScale
    BY <1>1 DEF ValidCall, F!ValidFixed64Scale
  <2>2. scale \in Int
    BY <1>1, FixedParserAssumption DEF FixedInv
  <2> QED
    BY <2>1, <2>2
<1>6. Limit \in Nat
  BY FixedParserAssumption DEF Limit
<1> QED
  BY <1>1, <1>2, <1>3, <1>4, <1>5, <1>6

\* The first character of a text is its sign, or none is.
LEMMA FirstSign ==
    ASSUME opts = DefaultOptions, text # <<>>
    PROVE  SignEnd = IF text[1] \in {"-", "+", "minus"} THEN 1 ELSE 0
<1>1. Signs = {"-", "+", "minus"}
  BY OptionsAre DEF Signs
<1> QED
  BY <1>1 DEF SignEnd, SignLength

\* The arguments are checked, then the loop starts after the sign.
LEMMA FixedArgumentsKeeps ==
    ASSUME FixedInv, FixedArguments
    PROVE  FixedInv'
<1>1. stage = "arguments" /\ UNCHANGED vars /\ loop = Fresh /\ opts = DefaultOptions /\ OptionsInv
      /\ text \in Seq(STRING) /\ Len(text) \in Nat
  <2>1. stage = "arguments" /\ UNCHANGED vars
    BY DEF FixedArguments
  <2> QED
    BY <2>1 DEF FixedInv, ParserInv, TypeOK
<1>2. CASE ~ValidCall
  <2>1. \/ FixedReturn(F!Fail("ErrInvalidScale"))
        \/ FixedReturn(F!Fail("ErrInvalidRoundingMode"))
    BY <1>2 DEF FixedArguments, ValidCall
  <2> QED
    BY <1>1, <1>2, <2>1, FixedRejectKeeps
<1>3. CASE ValidCall /\ (text = <<>> \/ text \in {<<"-">>, <<"+">>})
  <2>1. FixedReturn(F!Fail("ErrInvalidSyntax"))
    BY <1>3 DEF FixedArguments, ValidCall, FixedReject
  <2>2. ~IsDigit("-") /\ ~IsDigit("+")
    BY DigitsAreReserved
  <2>3. \A k \in 1 .. Len(text) : ~IsDigit(text[k])
    BY <1>3, <2>2
  <2>4. \A r \in Readings(text) : FALSE
    BY <1>1, <2>3, NoDigits
  <2> QED
    BY <1>1, <2>1, <2>4, FixedRejectKeeps
<1>4. CASE ValidCall /\ ~(text = <<>> \/ text \in {<<"-">>, <<"+">>})
  <2> DEFINE l == [loop EXCEPT !.negative = (text[1] = "-"), !.pos = IF text[1] \in {"-", "+"} THEN 2 ELSE 1]
  <2>1. Continue("loop", l)
    BY <1>4 DEF FixedArguments, ValidCall
  <2>2. /\ l.pos = (IF text[1] \in {"-", "+"} THEN 2 ELSE 1) /\ l.negative = (text[1] = "-")
        /\ l.magnitude = 0 /\ l.sawDigit = FALSE /\ l.decimalSeen = FALSE /\ l.fracDigits = 0
        /\ l.discardSeen = FALSE /\ l.anyMoreDiscard = FALSE /\ l.anyDiscardNonzero = FALSE
    BY <1>1 DEF Fresh
  <2>3. l \in Locals
    <3>1. Fresh \in Locals
      BY DEF Fresh, Locals
    <3> QED
      BY <1>1, <3>1 DEF Locals
  <2> HIDE DEF l
  <2>4. text # <<>> /\ Len(text) >= 1
    BY <1>1, <1>4
  <2>5. SignEnd = IF text[1] \in {"-", "+", "minus"} THEN 1 ELSE 0
    BY <1>1, <2>4, FirstSign
  <2>6. SignEnd \in Nat /\ SignEnd <= Len(text) /\ SignEnd + 1 \in Nat /\ SignEnd + 1 > 0 /\ SignEnd < SignEnd + 1
    BY <1>1, SignEnds
  <2>7. scale \in Nat
    BY <1>4, FixedParserAssumption DEF FixedInv, ValidCall, F!ValidFixed64Scale
  <2>8. LoopRead(l)
    <3>1. CASE text[1] = "minus"
      BY <2>2, <2>4, <3>1 DEF LoopRead
    <3>2. CASE text[1] # "minus"
      <4>1. l.pos - 1 = SignEnd
        BY <2>2, <2>5, <3>2
      <4>2. SignKept(l)
        <5>1. CASE text[1] = "-"
          BY <2>2, <2>5, <5>1 DEF SignKept
        <5>2. CASE text[1] # "-"
          <6>1. ~l.negative
            BY <2>2, <5>2
          <6>2. SignEnd = 1 => text[1] = "+"
            BY <2>5, <3>2, <5>2
          <6> QED
            BY <6>1, <6>2 DEF SignKept
        <5> QED
          BY <5>1, <5>2
      <4>3. PointRead(l, SignEnd)
        BY <2>2, <2>6 DEF PointRead, WholeDigits
      <4>4. ~(\E k \in SignEnd + 1 .. SignEnd : IsDigit(text[k]))
        BY <2>6
      <4>5. Number(text, SignEnd + 1, SignEnd) = 0
        BY <2>6, NumberStep
      <4>6. Kept(0, 0, l)
        <5>1. 0 * Tens(0 - 0) = 0
          BY TensGrow
        <5> QED
          BY <2>2, <2>7, <5>1 DEF Kept
      <4>7. SignEnd \in SignEnd .. Len(text)
        BY <1>1, <2>6
      <4> QED
        BY <2>2, <4>1, <4>2, <4>3, <4>4, <4>5, <4>6, <4>7 DEF LoopRead
    <3> QED
      BY <3>1, <3>2
  <2>9. Keeps("loop", l)
    <3>1. l.pos <= Len(text) + 1 /\ l.pos >= 1
      BY <1>1, <2>2, <2>4
    <3>2. l.magnitude <= LimitOf(l)
      BY <2>2, FixedParserAssumption DEF LimitOf
    <3> QED
      BY <2>3, <2>8, <3>1, <3>2 DEF Keeps
  <2> QED
    BY <1>1, <1>4, <2>1, <2>9, ContinueKeeps
<1> QED
  BY <1>2, <1>3, <1>4

\* What the loop has read, but for a Unicode minus sign
LEMMA LoopReads ==
    ASSUME FixedInv, stage = "loop", loop.pos > Len(text) \/ NextChar # "minus"
    PROVE  /\ SignEnd \in Nat /\ SignEnd <= loop.pos - 1 /\ loop.pos - 1 \in Nat /\ loop.pos \in Nat /\ SignKept(loop)
           /\ PointRead(loop, loop.pos - 1)
           /\ loop.sawDigit <=> \E k \in SignEnd + 1 .. loop.pos - 1 : IsDigit(text[k])
           /\ Kept(Number(text, SignEnd + 1, loop.pos - 1), loop.fracDigits, loop)
           /\ Number(text, SignEnd + 1, loop.pos - 1) \in Nat
<1>1. LoopRead(loop) /\ text \in Seq(STRING) /\ Len(text) \in Nat /\ loop.pos \in 1 .. Len(text) + 1
  BY FixedSoFar DEF Keeps
<1>2. ~(text # <<>> /\ text[1] = "minus" /\ loop.pos = 1)
  BY <1>1 DEF NextChar
<1>3. SignEnd \in Nat /\ SignEnd + 1 \in Nat /\ SignEnd + 1 > 0
  BY <1>1, SignEnds
<1>4. loop.pos - 1 \in Nat
  BY <1>1
<1>5. Number(text, SignEnd + 1, loop.pos - 1) \in Nat
  BY <1>3, <1>4, NumberStep
<1> QED
  BY <1>1, <1>2, <1>3, <1>4, <1>5 DEF LoopRead

\* The loop takes one point.
LEMMA FixedPointKeeps ==
    ASSUME FixedInv, FixedPoint
    PROVE  FixedInv'
<1>1. stage = "loop" /\ loop.pos <= Len(text) /\ UNCHANGED vars /\ NextChar = "." /\ text[loop.pos] = "."
  BY DEF FixedPoint, InLoop, NextChar
<1>2. /\ opts = DefaultOptions /\ Readable /\ text \in Seq(STRING) /\ Len(text) \in Nat /\ ValidCall /\ scale \in Nat
      /\ loop \in Locals /\ loop.pos \in 1 .. Len(text) + 1 /\ loop.magnitude \in 0 .. Limit /\ Limit = LimitOf(loop)
      /\ stage \notin {"direct", "returned"}
  BY <1>1, FixedSoFar
<1>3. loop.pos \in 1 .. Len(text)
  BY <1>1, <1>2
<1>4. /\ SignEnd \in Nat /\ SignEnd <= loop.pos - 1 /\ loop.pos - 1 \in Nat /\ SignKept(loop)
      /\ PointRead(loop, loop.pos - 1)
      /\ loop.sawDigit <=> \E k \in SignEnd + 1 .. loop.pos - 1 : IsDigit(text[k])
      /\ Kept(Number(text, SignEnd + 1, loop.pos - 1), loop.fracDigits, loop)
  BY <1>1, LoopReads
<1>5. CASE loop.decimalSeen
  <2>1. FixedReturn(F!Fail("ErrInvalidSyntax"))
    BY <1>5 DEF FixedPoint, FixedReject
  <2>2. PICK b \in Nat : PointDigits(b, loop.pos - 1)
    BY <1>4, <1>5 DEF PointRead
  <2>3. b + 1 \in 1 .. Len(text) /\ text[b + 1] = "." /\ b + 1 < loop.pos
    BY <1>2, <1>3, <2>2 DEF PointDigits
  <2>4. ASSUME NEW r \in Readings(text) PROVE FALSE
    <3>1. b + 1 = r.b + 1
      BY <1>2, <2>3, OnePoint
    <3>2. loop.pos = r.b + 1
      BY <1>1, <1>2, <1>3, OnePoint
    <3> QED
      BY <2>3, <3>1, <3>2
  <2> QED
    BY <1>1, <1>2, <2>1, <2>4, FixedRejectKeeps
<1>6. CASE ~loop.decimalSeen
  <2> DEFINE l == [loop EXCEPT !.pos = @ + 1, !.decimalSeen = TRUE]
  <2>1. Continue("loop", l)
    BY <1>6 DEF FixedPoint
  <2>2. /\ l.pos = loop.pos + 1 /\ l.decimalSeen = TRUE /\ l.negative = loop.negative /\ l.magnitude = loop.magnitude
        /\ l.sawDigit = loop.sawDigit /\ l.fracDigits = loop.fracDigits /\ l.firstDiscard = loop.firstDiscard
        /\ l.discardSeen = loop.discardSeen /\ l.anyMoreDiscard = loop.anyMoreDiscard
        /\ l.anyDiscardNonzero = loop.anyDiscardNonzero
    BY <1>2 DEF Locals
  <2>13. l \in Locals
    <3>1. loop.pos + 1 \in Nat
      BY <1>3
    <3>2. \A a \in Nat : [loop EXCEPT !.pos = a, !.decimalSeen = TRUE] \in Locals
      BY <1>2 DEF Locals
    <3> QED
      BY <3>1, <3>2
  <2> HIDE DEF l
  <2>3. WholeDigits(loop.pos - 1) /\ loop.fracDigits = 0
    BY <1>4, <1>6 DEF PointRead
  <2>4. l.pos - 1 = loop.pos /\ (loop.pos - 1) + 1 = loop.pos
    BY <1>3, <2>2
  <2>5. PointRead(l, loop.pos)
    <3>1. PointDigits(loop.pos - 1, loop.pos)
      BY <1>1, <1>2, <1>3, <2>3 DEF PointDigits
    <3>2. l.fracDigits = loop.pos - (loop.pos - 1) - 1
      BY <1>3, <2>2, <2>3
    <3> QED
      BY <1>4, <2>2, <3>1, <3>2 DEF PointRead
  <2>6. ~IsDigit(text[loop.pos])
    BY <1>1, DigitsAreReserved
  <2>7. l.sawDigit <=> \E k \in SignEnd + 1 .. loop.pos : IsDigit(text[k])
    <3>1. \A k \in SignEnd + 1 .. loop.pos : k = loop.pos \/ k \in SignEnd + 1 .. loop.pos - 1
      BY <1>3, <1>4
    <3>2. SignEnd + 1 .. loop.pos - 1 \subseteq SignEnd + 1 .. loop.pos
      BY <1>3, <1>4
    <3> QED
      BY <1>4, <2>2, <2>6, <3>1, <3>2
  <2>8. Number(text, SignEnd + 1, loop.pos) = Number(text, SignEnd + 1, loop.pos - 1)
    <3> DEFINE from == SignEnd + 1
               to == loop.pos - 1
    <3>1. from \in Nat /\ from > 0 /\ to \in Nat /\ to + 1 >= from /\ to + 1 = loop.pos
      BY <1>4, <2>4
    <3> HIDE DEF from, to
    <3>2. \A k \in Nat : k + 1 >= from =>
            Number(text, from, k + 1) = IF IsDigit(text[k + 1]) THEN 10 * Number(text, from, k) + DigitValue[text[k + 1]]
                                        ELSE Number(text, from, k)
      BY <3>1, NumberStep
    <3>3. Number(text, from, loop.pos) = Number(text, from, to)
      BY <2>6, <3>1, <3>2
    <3> QED
      BY <3>3 DEF from, to
  <2>9. Kept(Number(text, SignEnd + 1, loop.pos), l.fracDigits, l)
    BY <1>4, <2>2, <2>8 DEF Kept, Discarded
  <2>10. SignKept(l) /\ loop.pos \in SignEnd .. Len(text)
    BY <1>2, <1>3, <1>4, <2>2 DEF SignKept
  <2>11. LoopRead(l)
    BY <2>4, <2>5, <2>7, <2>9, <2>10 DEF LoopRead
  <2>12. Keeps("loop", l)
    <3>1. l.pos <= Len(text) + 1 /\ l.pos >= 1 /\ l.magnitude <= LimitOf(l)
      BY <1>2, <1>3, <2>2 DEF LimitOf, Limit
    <3> QED
      BY <2>11, <2>13, <3>1 DEF Keeps
  <2> QED
    BY <1>1, <1>2, <2>1, <2>12, ContinueKeeps
<1> QED
  BY <1>5, <1>6

\* The loop leaves any other character to Parse.
LEMMA FixedOtherKeeps ==
    ASSUME FixedInv, FixedOther
    PROVE  FixedInv'
<1>1. stage = "loop" /\ UNCHANGED vars /\ FallBack
  BY DEF FixedOther, InLoop
<1>2. ValidCall /\ stage \notin {"direct", "returned"}
  BY <1>1, FixedSoFar
<1> QED
  BY <1>1, <1>2, FallBackKeeps

\* What a digit more says of the text
LEMMA DigitRead ==
    ASSUME FixedInv, InLoop, IsDigit(NextChar)
    PROVE  /\ loop.pos \in 1 .. Len(text) /\ DigitValue[NextChar] \in 0 .. 9 /\ NextChar # "minus"
           /\ \A l : l.pos = loop.pos + 1 /\ l.decimalSeen = loop.decimalSeen
                     /\ l.fracDigits = (IF loop.decimalSeen THEN loop.fracDigits + 1 ELSE loop.fracDigits)
                       => PointRead(l, loop.pos)
           /\ loop.pos \in SignEnd .. Len(text)
           /\ \E k \in SignEnd + 1 .. loop.pos : IsDigit(text[k])
           /\ Number(text, SignEnd + 1, loop.pos) =
                10 * Number(text, SignEnd + 1, loop.pos - 1) + DigitValue[NextChar]
<1>1. stage = "loop" /\ loop.pos <= Len(text) /\ NextChar = text[loop.pos]
  BY DEF InLoop, NextChar
<1>2. text \in Seq(STRING) /\ Len(text) \in Nat /\ loop.pos \in 1 .. Len(text) + 1 /\ loop \in Locals
  BY <1>1, FixedSoFar
<1>3. loop.pos \in 1 .. Len(text) /\ IsDigit(text[loop.pos]) /\ loop.fracDigits \in Nat
  BY <1>1, <1>2 DEF Locals
<1>4. NextChar # "minus" /\ DigitValue[NextChar] \in 0 .. 9
  BY DigitsAreReserved, DigitValues
<1>5. SignEnd \in Nat /\ SignEnd <= loop.pos - 1 /\ PointRead(loop, loop.pos - 1) /\ loop.pos - 1 \in Nat
  BY <1>1, <1>4, LoopReads
<1>6. ASSUME NEW l, l.pos = loop.pos + 1, l.decimalSeen = loop.decimalSeen,
             l.fracDigits = (IF loop.decimalSeen THEN loop.fracDigits + 1 ELSE loop.fracDigits)
      PROVE  PointRead(l, loop.pos)
  <2>1. CASE loop.decimalSeen
    <3>1. PICK b \in Nat : PointDigits(b, loop.pos - 1) /\ loop.fracDigits = (loop.pos - 1) - b - 1
      BY <1>5, <2>1 DEF PointRead
    <3>2. WholeDigits(b) /\ b < Len(text) /\ text[b + 1] = "." /\ loop.pos - 1 \in b + 1 .. Len(text)
          /\ \A k \in b + 2 .. loop.pos - 1 : IsDigit(text[k])
      BY <3>1 DEF PointDigits
    <3>3. \A k \in b + 2 .. loop.pos : k = loop.pos \/ k \in b + 2 .. loop.pos - 1
      BY <1>3
    <3>4. loop.pos \in b + 1 .. Len(text)
      BY <1>3, <3>2
    <3>5. PointDigits(b, loop.pos)
      BY <1>3, <3>2, <3>3, <3>4 DEF PointDigits
    <3>6. l.fracDigits = loop.pos - b - 1
      BY <1>3, <1>6, <2>1, <3>1
    <3> QED
      BY <1>6, <2>1, <3>5, <3>6 DEF PointRead
  <2>2. CASE ~loop.decimalSeen
    <3>1. WholeDigits(loop.pos - 1) /\ loop.fracDigits = 0
      BY <1>5, <2>2 DEF PointRead
    <3>2. \A k \in SignEnd + 1 .. loop.pos : k = loop.pos \/ k \in SignEnd + 1 .. loop.pos - 1
      BY <1>3, <1>5
    <3>3. loop.pos \in SignEnd .. Len(text)
      BY <1>3, <1>5
    <3>4. WholeDigits(loop.pos)
      BY <1>3, <3>1, <3>2, <3>3 DEF WholeDigits
    <3> QED
      BY <1>6, <2>2, <3>1, <3>4 DEF PointRead
  <2> QED
    BY <2>1, <2>2
<1>7. loop.pos \in SignEnd .. Len(text) /\ loop.pos \in SignEnd + 1 .. loop.pos
  BY <1>3, <1>5
<1>8. Number(text, SignEnd + 1, loop.pos) = 10 * Number(text, SignEnd + 1, loop.pos - 1) + DigitValue[NextChar]
  <2>1. SignEnd + 1 \in Nat /\ SignEnd + 1 > 0 /\ (loop.pos - 1) + 1 >= SignEnd + 1 /\ (loop.pos - 1) + 1 = loop.pos
    BY <1>3, <1>5
  <2> QED
    BY <1>1, <1>3, <1>5, <2>1, NumberStep
<1> QED
  BY <1>3, <1>4, <1>6, <1>7, <1>8

\* appendFixed64Digit
LEMMA AppendDigitIs ==
    ASSUME NEW m \in Nat, NEW d \in 0 .. 9, m <= Limit, NEW n \in AppendDigit(m, d)
    PROVE  n = 10 * m + d /\ n \in Nat /\ n <= Limit
<1>1. n = 10 * m + d /\ ~(m > (Limit - d) \div 10)
  BY DEF AppendDigit
<1>2. Limit \in Nat
  BY FixedParserAssumption DEF Limit
<1>3. m <= (Limit - d) \div 10
  <2>1. (Limit - d) \div 10 \in Int
    BY <1>2
  <2> QED
    BY <1>1, <2>1
<1>4. 10 * ((Limit - d) \div 10) <= Limit - d
  <2>1. \A x \in Int : 10 * (x \div 10) <= x
    OBVIOUS
  <2>2. Limit - d \in Int
    BY <1>2
  <2> QED
    BY <2>1, <2>2
<1>5. (Limit - d) \div 10 \in Int
  BY <1>2
<1> QED
  BY <1>1, <1>2, <1>3, <1>4, <1>5

\* A digit of the units is kept in the magnitude, unless the magnitude would not fit.
LEMMA FixedDigitKeeps ==
    ASSUME FixedInv, FixedDigit
    PROVE  FixedInv'
<1> DEFINE d == DigitValue[NextChar]
<1>1. InLoop /\ IsDigit(NextChar) /\ stage = "loop" /\ UNCHANGED vars /\ (loop.decimalSeen => loop.fracDigits < scale)
  BY DEF FixedDigit, InLoop
<1>2. /\ ValidCall /\ scale \in Nat /\ loop \in Locals /\ loop.magnitude \in 0 .. Limit /\ Limit = LimitOf(loop)
      /\ stage \notin {"direct", "returned"} /\ Len(text) \in Nat
  BY <1>1, FixedSoFar
<1>3. /\ loop.pos \in 1 .. Len(text) /\ d \in 0 .. 9 /\ NextChar # "minus"
      /\ \A l : l.pos = loop.pos + 1 /\ l.decimalSeen = loop.decimalSeen
                /\ l.fracDigits = (IF loop.decimalSeen THEN loop.fracDigits + 1 ELSE loop.fracDigits)
                  => PointRead(l, loop.pos)
      /\ loop.pos \in SignEnd .. Len(text)
      /\ \E k \in SignEnd + 1 .. loop.pos : IsDigit(text[k])
      /\ Number(text, SignEnd + 1, loop.pos) = 10 * Number(text, SignEnd + 1, loop.pos - 1) + d
  BY <1>1, DigitRead
<1>4. /\ SignKept(loop) /\ PointRead(loop, loop.pos - 1)
      /\ Kept(Number(text, SignEnd + 1, loop.pos - 1), loop.fracDigits, loop)
      /\ Number(text, SignEnd + 1, loop.pos - 1) \in Nat
  BY <1>1, <1>3, LoopReads
<1> HIDE DEF d
<1>5. CASE AppendDigit(loop.magnitude, d) = {}
  <2>1. FallBack
    BY <1>5 DEF FixedDigit, d
  <2> QED
    BY <1>1, <1>2, <2>1, FallBackKeeps
<1>6. CASE AppendDigit(loop.magnitude, d) # {}
  <2>1. PICK m \in AppendDigit(loop.magnitude, d) :
               Continue("loop", [loop EXCEPT !.pos = @ + 1, !.sawDigit = TRUE, !.magnitude = m,
                                             !.fracDigits = IF loop.decimalSeen THEN @ + 1 ELSE @])
    BY <1>6 DEF FixedDigit, d
  <2>2. m = 10 * loop.magnitude + d /\ m \in Nat /\ m <= Limit
    <3>1. loop.magnitude \in Nat /\ loop.magnitude <= Limit
      BY <1>2 DEF Locals
    <3> QED
      BY <1>3, <3>1, AppendDigitIs
  <2> DEFINE l == [loop EXCEPT !.pos = @ + 1, !.sawDigit = TRUE, !.magnitude = m,
                               !.fracDigits = IF loop.decimalSeen THEN @ + 1 ELSE @]
  <2>3. /\ l.pos = loop.pos + 1 /\ l.decimalSeen = loop.decimalSeen /\ l.negative = loop.negative /\ l.magnitude = m
        /\ l.sawDigit = TRUE /\ l.fracDigits = (IF loop.decimalSeen THEN loop.fracDigits + 1 ELSE loop.fracDigits)
        /\ l.discardSeen = loop.discardSeen /\ l.anyMoreDiscard = loop.anyMoreDiscard
        /\ l.anyDiscardNonzero = loop.anyDiscardNonzero
    BY <1>2 DEF Locals
  <2>11. l \in Locals
    <3>1. loop.pos + 1 \in Nat /\ (IF loop.decimalSeen THEN loop.fracDigits + 1 ELSE loop.fracDigits) \in Nat
      BY <1>2 DEF Locals
    <3>2. \A a, b \in Nat : [loop EXCEPT !.pos = a, !.sawDigit = TRUE, !.magnitude = m, !.fracDigits = b] \in Locals
      BY <1>2, <2>2 DEF Locals
    <3> QED
      BY <3>1, <3>2
  <2>4. Continue("loop", l)
    BY <2>1
  <2> HIDE DEF l
  <2>5. loop.fracDigits \in Nat /\ loop.fracDigits <= scale /\ l.fracDigits <= scale
    <3>1. loop.fracDigits \in Nat
      BY <1>2 DEF Locals
    <3>2. ~loop.decimalSeen => loop.fracDigits = 0
      BY <1>4 DEF PointRead
    <3> QED
      BY <1>1, <1>2, <2>3, <3>1, <3>2
  <2>6. Kept(Number(text, SignEnd + 1, loop.pos), l.fracDigits, l)
    <3> DEFINE v == Number(text, SignEnd + 1, loop.pos - 1)
    <3>1. v \in Nat /\ Kept(v, loop.fracDigits, loop) /\ Number(text, SignEnd + 1, loop.pos) = 10 * v + d
      BY <1>3, <1>4
    <3> HIDE DEF v
    <3>2. l.magnitude = 10 * loop.magnitude + d
      BY <2>2, <2>3
    <3>3. Kept(10 * v + d, l.fracDigits, l)
      BY <1>2, <1>3, <2>3, <2>5, <2>11, <3>1, <3>2, UnitKept
    <3> QED
      BY <3>1, <3>3
  <2>7. l.pos - 1 = loop.pos
    BY <1>3, <2>3
  <2>8. LoopRead(l)
    <3>1. PointRead(l, loop.pos)
      BY <1>3, <2>3
    <3>2. SignKept(l)
      BY <1>4, <2>3 DEF SignKept
    <3> QED
      BY <1>3, <2>3, <2>6, <2>7, <3>1, <3>2 DEF LoopRead
  <2>9. Keeps("loop", l)
    <3>1. l.pos <= Len(text) + 1 /\ l.pos >= 1 /\ l.magnitude <= LimitOf(l)
      BY <1>2, <1>3, <2>2, <2>3 DEF LimitOf
    <3> QED
      BY <2>8, <2>11, <3>1 DEF Keeps
  <2>10. "loop" \in {"loop", "pad", "round", "parse"}
    OBVIOUS
  <2> QED
    BY <1>1, <1>2, <2>4, <2>9, <2>10, ContinueKeeps
<1> QED
  BY <1>5, <1>6

\* A digit beyond the scale is discarded: the first is kept, the others are zero or not.
LEMMA FixedDiscardKeeps ==
    ASSUME FixedInv, FixedDiscard
    PROVE  FixedInv'
<1> DEFINE d == DigitValue[NextChar]
<1>1. InLoop /\ IsDigit(NextChar) /\ stage = "loop" /\ UNCHANGED vars /\ loop.decimalSeen /\ loop.fracDigits >= scale
  BY DEF FixedDiscard, InLoop
<1>2. /\ ValidCall /\ scale \in Nat /\ loop \in Locals /\ loop.magnitude \in 0 .. Limit /\ Limit = LimitOf(loop)
      /\ stage \notin {"direct", "returned"} /\ Len(text) \in Nat
  BY <1>1, FixedSoFar
<1>3. /\ loop.pos \in 1 .. Len(text) /\ d \in 0 .. 9 /\ NextChar # "minus"
      /\ \A l : l.pos = loop.pos + 1 /\ l.decimalSeen = loop.decimalSeen
                /\ l.fracDigits = (IF loop.decimalSeen THEN loop.fracDigits + 1 ELSE loop.fracDigits)
                  => PointRead(l, loop.pos)
      /\ loop.pos \in SignEnd .. Len(text)
      /\ \E k \in SignEnd + 1 .. loop.pos : IsDigit(text[k])
      /\ Number(text, SignEnd + 1, loop.pos) = 10 * Number(text, SignEnd + 1, loop.pos - 1) + d
  BY <1>1, DigitRead
<1>4. /\ SignKept(loop) /\ PointRead(loop, loop.pos - 1)
      /\ Kept(Number(text, SignEnd + 1, loop.pos - 1), loop.fracDigits, loop)
      /\ Number(text, SignEnd + 1, loop.pos - 1) \in Nat
  BY <1>1, <1>3, LoopReads
<1> DEFINE l == [loop EXCEPT !.pos = @ + 1, !.sawDigit = TRUE, !.fracDigits = @ + 1,
                             !.firstDiscard = IF loop.discardSeen THEN @ ELSE d,
                             !.discardSeen = TRUE,
                             !.anyMoreDiscard = @ \/ (loop.discardSeen /\ d # 0),
                             !.anyDiscardNonzero = @ \/ d # 0]
<1>5. Continue("loop", l)
  BY DEF FixedDiscard
<1> HIDE DEF d
<1>6. /\ l.pos = loop.pos + 1 /\ l.decimalSeen = loop.decimalSeen /\ l.negative = loop.negative
      /\ l.magnitude = loop.magnitude /\ l.sawDigit = TRUE /\ l.fracDigits = loop.fracDigits + 1
      /\ l.firstDiscard = (IF loop.discardSeen THEN loop.firstDiscard ELSE d)
      /\ l.discardSeen = TRUE
      /\ l.anyMoreDiscard = (loop.anyMoreDiscard \/ (loop.discardSeen /\ d # 0))
      /\ l.anyDiscardNonzero = (loop.anyDiscardNonzero \/ d # 0)
      /\ l \in Locals
  <2>1. d \in Nat
    BY <1>3
  <2>2. l \in Locals
    <3> DEFINE first == IF loop.discardSeen THEN loop.firstDiscard ELSE d
               more  == loop.anyMoreDiscard \/ (loop.discardSeen /\ d # 0)
               some  == loop.anyDiscardNonzero \/ d # 0
    <3>1. loop.pos + 1 \in Nat /\ loop.fracDigits + 1 \in Nat /\ first \in Nat /\ more \in BOOLEAN /\ some \in BOOLEAN
      BY <1>2, <2>1 DEF Locals
    <3>2. \A a, b, c \in Nat : \A x, y \in BOOLEAN :
            [loop EXCEPT !.pos = a, !.sawDigit = TRUE, !.fracDigits = b, !.firstDiscard = c, !.discardSeen = TRUE,
                         !.anyMoreDiscard = x, !.anyDiscardNonzero = y] \in Locals
      BY <1>2 DEF Locals
    <3>3. l = [loop EXCEPT !.pos = loop.pos + 1, !.sawDigit = TRUE, !.fracDigits = loop.fracDigits + 1,
                           !.firstDiscard = first, !.discardSeen = TRUE, !.anyMoreDiscard = more, !.anyDiscardNonzero = some]
      OBVIOUS
    <3> HIDE DEF first, more, some, l
    <3> QED
      BY <3>1, <3>2, <3>3
  <2> QED
    BY <1>2, <2>2 DEF Locals
<1> HIDE DEF l
<1>7. Kept(Number(text, SignEnd + 1, loop.pos), l.fracDigits, l)
  <2> DEFINE v == Number(text, SignEnd + 1, loop.pos - 1)
  <2>1. v \in Nat /\ Kept(v, loop.fracDigits, loop) /\ Number(text, SignEnd + 1, loop.pos) = 10 * v + d
    BY <1>3, <1>4
  <2> HIDE DEF v
  <2>2. scale <= loop.fracDigits
    BY <1>1, <1>2 DEF Locals
  <2>3. Kept(10 * v + d, l.fracDigits, l)
    BY <1>2, <1>3, <1>6, <2>1, <2>2, DiscardKept
  <2> QED
    BY <2>1, <2>3
<1>8. l.pos - 1 = loop.pos
  BY <1>3, <1>6
<1>9. LoopRead(l)
  <2>1. PointRead(l, loop.pos)
    BY <1>1, <1>3, <1>6
  <2>2. SignKept(l)
    BY <1>4, <1>6 DEF SignKept
  <2> QED
    BY <1>3, <1>6, <1>7, <1>8, <2>1, <2>2 DEF LoopRead
<1>10. Keeps("loop", l)
  <2>1. l.pos <= Len(text) + 1 /\ l.pos >= 1 /\ l.magnitude <= LimitOf(l)
    BY <1>2, <1>3, <1>6 DEF LimitOf
  <2> QED
    BY <1>6, <1>9, <2>1 DEF Keeps
<1>11. "loop" \in {"loop", "pad", "round", "parse"}
  OBVIOUS
<1> QED
  BY <1>1, <1>2, <1>5, <1>10, <1>11, ContinueKeeps

\* What the loop has read to the end is a numeral.
LEMMA FixedLoopEndKeeps ==
    ASSUME FixedInv, FixedLoopEnd
    PROVE  FixedInv'
<1>1. stage = "loop" /\ loop.pos > Len(text) /\ UNCHANGED vars
  BY DEF FixedLoopEnd
<1>2. /\ opts = DefaultOptions /\ Readable /\ text \in Seq(STRING) /\ Len(text) \in Nat /\ ValidCall
      /\ loop \in Locals /\ loop.pos \in 1 .. Len(text) + 1 /\ stage \notin {"direct", "returned"}
      /\ Keeps(stage, loop)
  BY <1>1, FixedSoFar
<1>3. loop.pos - 1 = Len(text) /\ loop.fracDigits \in Nat
  BY <1>1, <1>2 DEF Locals
<1>4. /\ SignEnd \in Nat /\ SignEnd <= Len(text) /\ SignKept(loop) /\ PointRead(loop, Len(text))
      /\ loop.sawDigit <=> \E k \in SignEnd + 1 .. Len(text) : IsDigit(text[k])
      /\ Kept(Number(text, SignEnd + 1, Len(text)), loop.fracDigits, loop)
  BY <1>1, <1>3, LoopReads
<1>5. CASE ~loop.sawDigit
  <2>1. FixedReturn(F!Fail("ErrInvalidSyntax"))
    BY <1>5 DEF FixedLoopEnd, FixedReject
  <2>2. ASSUME NEW k \in 1 .. Len(text) PROVE ~IsDigit(text[k])
    <3>1. CASE k > SignEnd
      <4>1. k \in SignEnd + 1 .. Len(text)
        BY <1>2, <1>4, <3>1
      <4> QED
        BY <1>4, <1>5, <4>1
    <3>2. CASE k <= SignEnd
      <4>1. k = 1 /\ text[1] \in {"-", "+", "minus"}
        <5>1. text # <<>>
          BY <1>2
        <5>2. SignEnd = IF text[1] \in {"-", "+", "minus"} THEN 1 ELSE 0
          BY <1>2, <5>1, FirstSign
        <5> QED
          BY <3>2, <5>2
      <4> QED
        BY <4>1, DigitsAreReserved
    <3> QED
      BY <1>4, <3>1, <3>2
  <2>3. \A r \in Readings(text) : FALSE
    BY <1>2, <2>2, NoDigits
  <2> QED
    BY <1>1, <1>2, <2>1, <2>3, FixedRejectKeeps
<1>6. CASE loop.decimalSeen /\ loop.fracDigits = 0
  <2>1. FixedReturn(F!Fail("ErrInvalidSyntax"))
    BY <1>6 DEF FixedLoopEnd, FixedReject
  <2>2. PICK b \in Nat : PointDigits(b, Len(text)) /\ loop.fracDigits = Len(text) - b - 1
    BY <1>4, <1>6 DEF PointRead
  <2>3. b + 1 = Len(text) /\ b + 1 \in 1 .. Len(text) /\ text[b + 1] = "."
    BY <1>2, <1>6, <2>2 DEF PointDigits
  <2>4. ASSUME NEW r \in Readings(text) PROVE FALSE
    <3>1. b + 1 = r.b + 1 /\ r.b \in Nat /\ r.b + 2 <= Len(text)
      BY <1>2, <2>3, OnePoint
    <3> QED
      BY <1>2, <2>3, <3>1
  <2> QED
    BY <1>1, <1>2, <2>1, <2>4, FixedRejectKeeps
<1>7. CASE loop.sawDigit /\ ~(loop.decimalSeen /\ loop.fracDigits = 0)
  <2>1. Continue("pad", loop)
    BY <1>7 DEF FixedLoopEnd
  <2>2. SignEnd < Len(text)
    BY <1>2, <1>4, <1>7
  <2>3. \E b \in Nat : Plain(b) /\ PlainFraction(b) = loop.fracDigits
    <3>1. CASE loop.decimalSeen
      <4>1. PICK b \in Nat : PointDigits(b, Len(text)) /\ loop.fracDigits = Len(text) - b - 1
        BY <1>4, <3>1 DEF PointRead
      <4>2. WholeDigits(b) /\ b < Len(text) /\ b + 2 <= Len(text)
        BY <1>2, <1>3, <1>7, <3>1, <4>1 DEF PointDigits
      <4>3. Plain(b)
        BY <2>2, <4>1, <4>2 DEF Plain
      <4>4. PlainFraction(b) = loop.fracDigits
        BY <1>2, <4>1, <4>2 DEF PlainFraction
      <4> QED
        BY <4>3, <4>4
    <3>2. CASE ~loop.decimalSeen
      <4>1. WholeDigits(Len(text)) /\ loop.fracDigits = 0
        BY <1>4, <3>2 DEF PointRead
      <4>2. Plain(Len(text)) /\ PlainFraction(Len(text)) = 0
        BY <2>2, <4>1 DEF Plain, PlainFraction
      <4> QED
        BY <1>2, <4>1, <4>2
    <3> QED
      BY <3>1, <3>2
  <2>4. WholeRead(loop)
    BY <1>4, <2>3 DEF WholeRead
  <2>5. Keeps("pad", loop)
    BY <1>2, <2>4 DEF Keeps
  <2>6. "pad" \in {"loop", "pad", "round", "parse"}
    OBVIOUS
  <2> QED
    BY <1>1, <1>2, <2>1, <2>5, <2>6, ContinueKeeps
<1> QED
  BY <1>5, <1>6, <1>7

\* A zero is added for each digit the text has too few.
LEMMA FixedPadKeeps ==
    ASSUME FixedInv, FixedPad
    PROVE  FixedInv'
<1>1. stage = "pad" /\ UNCHANGED vars
  BY DEF FixedPad
<1>2. /\ opts = DefaultOptions /\ Readable /\ text \in Seq(STRING) /\ Len(text) \in Nat /\ ValidCall /\ scale \in Nat
      /\ loop \in Locals /\ loop.pos \in 1 .. Len(text) + 1 /\ stage \notin {"direct", "returned"}
      /\ loop.magnitude \in 0 .. Limit /\ Limit = LimitOf(loop) /\ Keeps(stage, loop)
  BY <1>1, FixedSoFar
<1>3. WholeRead(loop) /\ loop.fracDigits \in Nat /\ loop.magnitude \in Nat
  BY <1>1, <1>2 DEF Keeps, Locals
<1>4. CASE loop.fracDigits >= scale
  <2>1. Continue("round", loop) /\ "round" \in {"loop", "pad", "round", "parse"}
    BY <1>4 DEF FixedPad
  <2>2. Keeps("round", loop)
    BY <1>2, <1>3, <1>4 DEF Keeps
  <2> QED
    BY <1>1, <1>2, <2>1, <2>2, ContinueKeeps
<1>5. CASE ~(loop.fracDigits >= scale) /\ AppendDigit(loop.magnitude, 0) = {}
  <2>1. FallBack
    BY <1>5 DEF FixedPad
  <2> QED
    BY <1>1, <1>2, <2>1, FallBackKeeps
<1>6. CASE ~(loop.fracDigits >= scale) /\ AppendDigit(loop.magnitude, 0) # {}
  <2>1. PICK m \in AppendDigit(loop.magnitude, 0) :
               Continue("pad", [loop EXCEPT !.magnitude = m, !.fracDigits = @ + 1])
    BY <1>6 DEF FixedPad
  <2>2. m = 10 * loop.magnitude /\ m \in Nat /\ m <= Limit
    <3>1. 0 \in 0 .. 9 /\ loop.magnitude <= Limit
      BY <1>2, <1>3
    <3>2. m = 10 * loop.magnitude + 0 /\ m \in Nat /\ m <= Limit
      BY <1>3, <3>1, AppendDigitIs
    <3> QED
      BY <1>3, <3>2
  <2> DEFINE l == [loop EXCEPT !.magnitude = m, !.fracDigits = @ + 1]
  <2>3. /\ l.pos = loop.pos /\ l.negative = loop.negative /\ l.magnitude = m
        /\ l.fracDigits = loop.fracDigits + 1
        /\ l.discardSeen = loop.discardSeen /\ l.anyMoreDiscard = loop.anyMoreDiscard
        /\ l.anyDiscardNonzero = loop.anyDiscardNonzero
    BY <1>2 DEF Locals
  <2>4. l \in Locals
    <3>1. loop.fracDigits + 1 \in Nat
      BY <1>3
    <3>2. \A a \in Nat : [loop EXCEPT !.magnitude = m, !.fracDigits = a] \in Locals
      BY <1>2, <2>2 DEF Locals
    <3> QED
      BY <3>1, <3>2
  <2>5. Continue("pad", l) /\ "pad" \in {"loop", "pad", "round", "parse"}
    BY <2>1
  <2> HIDE DEF l
  <2>6. WholeRead(l)
    <3>1. PICK b \in Nat : Plain(b) /\ Kept(Number(text, SignEnd + 1, Len(text)), PlainFraction(b), loop)
      BY <1>3 DEF WholeRead
    <3> DEFINE v == Number(text, SignEnd + 1, Len(text))
               f == PlainFraction(b)
    <3>2. v \in Nat /\ f \in Nat
      <4>1. SignEnd + 1 \in Nat /\ SignEnd + 1 > 0
        BY <1>2, SignEnds
      <4> QED
        BY <1>2, <3>1, <4>1, NumberStep, PlainReading
    <3>3. Kept(v, f, loop)
      BY <3>1
    <3> HIDE DEF v, f
    <3>4. loop.fracDigits < scale /\ l.magnitude = 10 * loop.magnitude
      BY <1>2, <1>3, <1>6, <2>2, <2>3
    <3>5. Kept(v, f, l)
      BY <1>2, <2>3, <2>4, <3>2, <3>3, <3>4, PadKept
    <3>6. SignKept(l)
      BY <1>3, <2>3 DEF SignKept, WholeRead
    <3> QED
      BY <3>1, <3>5, <3>6 DEF WholeRead, v, f
  <2>7. Keeps("pad", l)
    <3>1. l.pos <= Len(text) + 1 /\ l.pos >= 1 /\ l.magnitude <= LimitOf(l)
      BY <1>2, <2>2, <2>3 DEF LimitOf
    <3> QED
      BY <2>4, <2>6, <3>1 DEF Keeps
  <2> QED
    BY <1>1, <1>2, <2>5, <2>7, ContinueKeeps
<1> QED
  BY <1>4, <1>5, <1>6

-----------------------------------------------------------------------------
(* ParseFixed64: what is returned *)

\* The coefficient c at the scale f, in the scale asked for
Rounded(c, f) == IF scale >= f THEN c * Tens(scale - f) ELSE RoundQuotient(c, Tens(f - scale), mode)

\* The number rounded to the scale is a rounding of it.
LEMMA RoundedIs ==
    ASSUME ValidCall, scale \in Nat, NEW c \in Int, NEW f \in Nat
    PROVE  /\ Rounded(c, f) \in Int
           /\ IsRounded(Rounded(c, f), c * Powers(10)[scale], Powers(10)[f], mode)
<1> DEFINE w == scale + f
           T == [e \in 0 .. w |-> Powers(10)[e]]
<1>1. w \in Nat /\ f \in 0 .. w /\ scale \in 0 .. w /\ mode \in RoundingModes
  BY DEF ValidCall
<1>2. PowersOfTen(T, w)
  BY <1>1, PowerTable
<1>3. T[f] = Powers(10)[f] /\ T[scale] = Powers(10)[scale]
  BY <1>1
<1>4. /\ scale >= f => scale - f \in 0 .. w
      /\ ~(scale >= f) => f - scale \in 0 .. w
  OBVIOUS
<1>5. \A e \in 0 .. w : T[e] = Tens(e)
  BY DEF Tens
<1> HIDE DEF T, w
<1> DEFINE q == IF scale >= f THEN c * T[scale - f] ELSE RoundQuotient(c, T[f - scale], mode)
<1>6. q \in Int /\ IsRounded(q, c * T[scale], T[f], mode)
  BY <1>1, <1>2, ShiftIsRounded
<1>7. q = Rounded(c, f)
  BY <1>4, <1>5 DEF Rounded
<1> QED
  BY <1>3, <1>6, <1>7

\* Rescale rounds a Decimal to the scale.
LEMMA RescaledIs ==
    ASSUME ValidCall, scale \in Nat, NEW c \in Int, NEW f \in 0 .. MaxScale
    PROVE  /\ Rescale(Dec(c, f), scale, mode).val.coef = Rounded(c, f)
           /\ F!Fixed64FromDecimal(Dec(c, f), scale, mode) = F!OrOverflow({Rounded(c, f)} \cap F!Int64, scale)
<1>1. scale <= MaxScale /\ mode \in RoundingModes /\ MaxScale \in Nat /\ F!ValidFixed64Scale(scale)
  BY FixedParserAssumption, MaxScaleAssumption DEF ValidCall, F!ValidFixed64Scale
<1>2. f \in Nat /\ ~(scale < 0)
  BY <1>1
<1>3. /\ scale >= f => scale - f \in 0 .. 2 * MaxScale
      /\ ~(scale >= f) => f - scale \in 0 .. 2 * MaxScale
  BY <1>1
<1>4. /\ scale >= f => Pow10[scale - f] = Tens(scale - f)
      /\ ~(scale >= f) => Pow10[f - scale] = Tens(f - scale)
  BY <1>3, PowerTable DEF Tens
<1> DEFINE d == Dec(c, f)
<1>5. d.coef = c /\ d.scale = f
  BY DEF Dec
<1> HIDE DEF d
<1>6. Rescale(d, scale, mode) = Ok(Dec(Rounded(c, f), scale))
  BY <1>1, <1>2, <1>4, <1>5 DEF Rescale, Rounded
<1>7. F!D!Rescale(d, scale, mode) = Ok(Dec(Rounded(c, f), scale))
  <2>1. \A a, b, m : F!D!RoundQuotient(a, b, m) = RoundQuotient(a, b, m)
    BY DEF F!D!RoundQuotient, RoundQuotient, F!D!Magnitude, Magnitude, F!D!Sign, Sign, F!D!Quo, Quo, F!D!Rem, Rem,
       F!D!RoundsAway, RoundsAway, F!D!NearestModes, NearestModes
  <2>2. mode \in F!D!RoundingModes
    BY <1>1 DEF F!D!RoundingModes, RoundingModes, F!D!NearestModes, NearestModes, F!D!DirectedModes, DirectedModes
  <2>3. CASE scale >= f
    BY <1>2, <1>4, <1>5, <2>2, <2>3 DEF F!D!Rescale, Rounded, F!D!Ok, F!D!Dec, Ok, Dec
  <2>4. CASE ~(scale >= f)
    BY <1>2, <1>4, <1>5, <2>1, <2>2, <2>4 DEF F!D!Rescale, Rounded, F!D!Ok, F!D!Dec, Ok, Dec
  <2> QED
    BY <2>3, <2>4
<1>8. Ok(Dec(Rounded(c, f), scale)).err = "nil" /\ Ok(Dec(Rounded(c, f), scale)).val.coef = Rounded(c, f)
  BY DEF Ok, Dec
<1>9. F!Fixed64FromDecimal(d, scale, mode) = F!OrOverflow({Rounded(c, f)} \cap F!Int64, scale)
  BY <1>1, <1>7, <1>8 DEF F!Fixed64FromDecimal
<1> QED
  BY <1>6, <1>8, <1>9 DEF d

\* A number that is written, within the limits of the scale
LEMMA DecodedIs ==
    ASSUME text \in Seq(STRING), NEW n \in Numerals, FitsScale(n)
    PROVE  \E c \in Int : \E f \in 0 .. MaxScale : Decoded(n) = Dec(c, f)
<1>1. PICK r \in Readings(text) : n = Reading(text, r)
  BY DEF Numerals
<1>2. /\ r.a \in {0, 1} /\ r.b \in Nat /\ r.c \in Nat /\ r.e \in Nat /\ r.b <= r.c /\ Len(text) \in Nat
      /\ r \in [a : 0 .. 1, b : 0 .. Len(text), c : 0 .. Len(text), e : 0 .. Len(text)]
  BY DEF Readings
<1> DEFINE v == Number(text, r.a + 1, r.c)
           p == Number(text, r.e + 1, Len(text))
           g == IF r.c = r.b THEN 0 ELSE r.c - r.b - 1
<1>3. v \in Nat /\ p \in Nat
  <2>1. r.a + 1 \in Nat /\ r.a + 1 > 0 /\ r.e + 1 \in Nat /\ r.e + 1 > 0
    BY <1>2
  <2> QED
    BY <1>2, <2>1, NumberStep
<1>4. g \in Nat
  BY <1>2
<1>5. /\ n.coef = (IF r.a = 1 /\ text[1] # "+" THEN -v ELSE v) /\ n.power = p
      /\ n.scale = g - (IF r.e > r.c /\ text[r.e] = "-" THEN -p ELSE p)
  BY <1>1 DEF Reading
<1> HIDE DEF v, p, g
<1>6. n.coef \in Int /\ n.power \in Nat /\ n.scale \in Int /\ n.scale >= -n.power
  BY <1>3, <1>4, <1>5
<1>7. n.power <= MaxScale /\ n.scale <= MaxScale /\ MaxScale \in Nat
  BY MaxScaleAssumption DEF FitsScale
<1>8. CASE n.scale < 0
  <2>1. -n.scale \in 0 .. 2 * MaxScale
    BY <1>6, <1>7, <1>8
  <2>2. Pow10[-n.scale] \in Nat
    BY <2>1, Pow10Assumption DEF PowersOfTen
  <2>3. n.coef * Pow10[-n.scale] \in Int
    BY <1>6, <2>2
  <2>4. Decoded(n) = Dec(n.coef * Pow10[-n.scale], 0)
    BY <1>8 DEF Decoded
  <2>5. 0 \in 0 .. MaxScale
    BY <1>7
  <2> QED
    BY <2>3, <2>4, <2>5
<1>9. CASE ~(n.scale < 0)
  <2>1. Decoded(n) = Dec(n.coef, n.scale) /\ n.scale \in 0 .. MaxScale
    BY <1>6, <1>7, <1>9 DEF Decoded
  <2> QED
    BY <1>6, <2>1
<1> QED
  BY <1>8, <1>9

\* The digits the loop has kept give the same result as all of them.
LEMMA KeptRounds ==
    ASSUME ValidCall, scale \in Nat, loop \in Locals, NEW v \in Nat, NEW f \in Nat, Kept(v, f, loop),
           loop.fracDigits >= scale
    PROVE  Rounded(IF loop.negative THEN -v ELSE v, f) =
             SignedUnits(IF ShouldIncrement THEN loop.magnitude + 1 ELSE loop.magnitude)
<1> DEFINE neg == loop.negative
           mag == loop.magnitude
           c == IF neg THEN -v ELSE v
<1>1. loop.fracDigits \in Nat /\ mag \in Nat /\ neg \in BOOLEAN /\ mode \in RoundingModes
  BY DEF Locals, ValidCall
<1>2. CASE f <= scale
  <2>1. loop.fracDigits = scale /\ mag = v * Tens(loop.fracDigits - f) /\ ~loop.discardSeen
    BY <1>1, <1>2 DEF Kept
  <2>2. ~ShouldIncrement
    BY <2>1 DEF ShouldIncrement
  <2> DEFINE k == scale - f
             t == Tens(k)
  <2>3. k \in Nat /\ mag = v * t
    BY <1>2, <2>1
  <2> HIDE DEF k
  <2>4. t \in Nat
    BY <2>3, TensGrow
  <2>5. Rounded(c, f) = c * t
    BY <1>2 DEF Rounded, k
  <2> HIDE DEF t
  <2>6. c * t = (IF neg THEN -mag ELSE mag)
    <3>1. \A x, y \in Nat : (-x) * y = -(x * y)
      OBVIOUS
    <3>2. (-v) * t = -(v * t)
      BY <2>4, <3>1
    <3> QED
      BY <2>3, <3>2
  <2> QED
    BY <2>2, <2>5, <2>6 DEF SignedUnits
<1>3. CASE ~(f <= scale)
  <2> DEFINE k == f - scale
             p == Tens(k - 1)
             first == loop.firstDiscard
  <2>1. k \in Nat /\ k - 1 \in Nat /\ (k - 1) + 1 = k /\ ~(scale >= f)
    BY <1>3
  <2>2. PICK rest \in Nat : Discarded(v, k, rest, loop)
    BY <1>3 DEF Kept
  <2>3. loop.discardSeen /\ first \in 0 .. 9
    BY <1>3 DEF Kept
  <2>4. Rounded(c, f) = RoundQuotient(c, Tens(k), mode)
    BY <2>1 DEF Rounded
  <2>5. p \in Nat \ {0} /\ Tens(k) = 10 * p
    <3> HIDE DEF k
    <3> QED
      BY <2>1, TensGrow
  <2>6. rest < p /\ v = mag * (10 * p) + first * p + rest /\ (loop.anyMoreDiscard <=> rest # 0)
        /\ (loop.anyDiscardNonzero <=> first # 0 \/ rest # 0)
    BY <2>2 DEF Discarded
  <2> DEFINE up == RoundsUp(mode, neg, mag, first, rest # 0)
  <2>7. ShouldIncrement <=> up
    BY <2>3, <2>6 DEF ShouldIncrement, RoundsUp
  <2> HIDE DEF p, k, first
  <2>8. RoundQuotient(IF neg THEN -v ELSE v, 10 * p, mode) = Taken(neg, up, mag)
    <3> HIDE DEF mag, neg
    <3>1. mag \in Nat /\ p \in Nat \ {0} /\ first \in 0 .. 9 /\ neg \in BOOLEAN /\ mode \in RoundingModes
      BY <1>1, <2>3, <2>5
    <3>2. AsDigits(v, mag, p, first, rest)
      BY <2>6 DEF AsDigits
    <3> QED
      BY <3>1, <3>2, DigitsRound
  <2> HIDE DEF up
  <2> QED
    BY <2>4, <2>5, <2>7, <2>8 DEF SignedUnits, Taken
<1> QED
  BY <1>2, <1>3

\* The magnitude is rounded, or one too large for an int64 refused.
LEMMA FixedRoundKeeps ==
    ASSUME FixedInv, FixedRound
    PROVE  FixedInv'
<1>1. stage = "round" /\ UNCHANGED vars
  BY DEF FixedRound
<1>2. /\ opts = DefaultOptions /\ Readable /\ text \in Seq(STRING) /\ Len(text) \in Nat /\ ValidCall /\ scale \in Nat
      /\ loop \in Locals /\ stage \notin {"direct", "returned"}
      /\ loop.magnitude \in 0 .. Limit /\ Keeps(stage, loop)
  BY <1>1, FixedSoFar
<1>3. WholeRead(loop) /\ loop.fracDigits >= scale /\ loop.magnitude \in Nat /\ loop.negative \in BOOLEAN
  BY <1>1, <1>2 DEF Keeps, Locals
<1>4. PICK b \in Nat : Plain(b) /\ Kept(Number(text, SignEnd + 1, Len(text)), PlainFraction(b), loop)
  BY <1>3 DEF WholeRead
<1> DEFINE v == Number(text, SignEnd + 1, Len(text))
           f == PlainFraction(b)
           c == IF loop.negative THEN -v ELSE v
           n == PlainNumber(b)
           m == IF ShouldIncrement THEN loop.magnitude + 1 ELSE loop.magnitude
<1>5. v \in Nat /\ f \in Nat /\ Numerals = {n}
  <2>1. SignEnd + 1 \in Nat /\ SignEnd + 1 > 0
    BY <1>2, SignEnds
  <2> QED
    BY <1>2, <1>4, <2>1, NumberStep, PlainReading
<1>6. n.coef = c /\ n.scale = f
  BY <1>3 DEF PlainNumber, SignKept, WholeRead
<1>7. Kept(v, f, loop)
  BY <1>4
<1> HIDE DEF v, f, n
<1>8. c \in Int
  BY <1>5
<1>9. Rounded(c, f) = SignedUnits(m)
  BY <1>2, <1>3, <1>5, <1>7, KeptRounds
<1>10. Decoded(n) = Dec(c, f) /\ Decoded(n).coef = c /\ Decoded(n).scale = f
  BY <1>5, <1>6 DEF Decoded, Dec
<1>11. F!ValidFixed64Scale(scale) /\ MaxInt64 \in Nat
  BY <1>2, FixedParserAssumption DEF ValidCall
<1>12. CASE ShouldIncrement /\ loop.magnitude = Limit
  <2>1. FixedReturn(F!Fail("ErrOverflow"))
    BY <1>12 DEF FixedRound
  <2>2. SignedUnits(m) \notin F!Int64
    BY <1>11, <1>12 DEF SignedUnits, Limit, F!Int64, F!MinInt64
  <2>3. ASSUME FitsScale(n) PROVE RoundedUnits(n) = Rounded(c, f)
    <3>1. f \in 0 .. MaxScale
      BY <1>5, <1>6, <2>3, MaxScaleAssumption DEF FitsScale
    <3> HIDE DEF c
    <3> QED
      BY <1>2, <1>8, <1>10, <3>1, RescaledIs DEF RoundedUnits
  <2>4. F!Fail("ErrOverflow").err = "ErrOverflow" /\ F!Fail("ErrOverflow").val.units = 0
        /\ F!Fail("ErrOverflow").val.scale = 0
    BY DEF F!Fail, F!Fixed
  <2>5. 0 \in F!Int64 /\ F!ValidFixed64Scale(0)
    BY FixedParserAssumption DEF F!Int64, F!MinInt64, F!ValidFixed64Scale
  <2>6. FixedRight(F!Fail("ErrOverflow"))
    <3>1. \A x \in Numerals : WithinLimits(x) /\ FitsScale(x) => RoundedUnits(x) \notin F!Int64
      BY <1>5, <1>9, <2>2, <2>3
    <3> QED
      BY <2>4, <2>5, <3>1 DEF FixedRight
  <2> QED
    BY <1>1, <1>2, <2>1, <2>6, FixedReturnKeeps
<1>13. CASE ~(ShouldIncrement /\ loop.magnitude = Limit)
  <2> DEFINE answer == F!Ok(F!Fixed(SignedUnits(m), scale))
  <2>1. FixedReturn(answer)
    BY <1>13 DEF FixedRound
  <2>2. answer.err = "nil" /\ answer.val.units = SignedUnits(m) /\ answer.val.scale = scale
    BY DEF F!Ok, F!Fixed
  <2>3. m \in Nat /\ m <= Limit
    <3>1. Limit \in Nat
      BY <1>11 DEF Limit
    <3>2. loop.magnitude <= Limit
      BY <1>2, <1>3, <3>1
    <3> QED
      BY <1>3, <1>13, <3>1, <3>2
  <2>4. SignedUnits(m) \in F!Int64
    <3> HIDE DEF m
    <3> QED
      BY <1>11, <2>3 DEF SignedUnits, Limit, F!Int64, F!MinInt64
  <2> HIDE DEF answer, m, c
  <2>5. IsRounded(SignedUnits(m), c * Powers(10)[scale], Powers(10)[f], mode)
    BY <1>2, <1>5, <1>8, <1>9, RoundedIs
  <2>6. FixedRight(answer)
    BY <1>5, <1>10, <1>11, <2>2, <2>4, <2>5 DEF FixedRight
  <2> QED
    BY <1>1, <1>2, <2>1, <2>6, FixedReturnKeeps
<1> QED
  BY <1>12, <1>13

\* What Parse has read is rounded by Fixed64FromDecimal.
LEMMA ConvertParsedKeeps ==
    ASSUME FixedInv, ConvertParsed
    PROVE  FixedInv'
<1>1. stage = "parse" /\ pc = "done" /\ UNCHANGED vars
  BY DEF ConvertParsed
<1>2. /\ opts = DefaultOptions /\ Readable /\ text \in Seq(STRING) /\ ValidCall /\ scale \in Nat
      /\ stage \notin {"direct", "returned"}
  BY <1>1, FixedSoFar
<1>3. Written = Numerals /\ ParseIsMeaning
  BY <1>2, OptionsAre DEF Written, Numerals, FixedInv, ParserInv, ParsedRight
<1>4. 0 \in F!Int64 /\ F!ValidFixed64Scale(0) /\ F!ValidFixed64Scale(scale)
  BY <1>2, FixedParserAssumption DEF F!Int64, F!MinInt64, F!ValidFixed64Scale, ValidCall
<1>5. \A e : F!Fail(e).err = e /\ F!Fail(e).val.units = 0 /\ F!Fail(e).val.scale = 0
  BY DEF F!Fail, F!Fixed
<1>6. CASE err # "nil"
  <2>1. FixedReturn(F!Fail(err))
    BY <1>6 DEF ConvertParsed
  <2>2. ~\E n \in Numerals : WithinLimits(n) /\ FitsScale(n)
    BY <1>1, <1>3, <1>6 DEF ParseIsMeaning
  <2>3. FixedRight(F!Fail(err))
    BY <1>4, <1>5, <1>6, <2>2 DEF FixedRight
  <2> QED
    BY <1>1, <1>2, <2>1, <2>3, FixedReturnKeeps
<1>7. CASE err = "nil"
  <2>1. PICK n \in Numerals : WithinLimits(n) /\ FitsScale(n) /\ result = Decoded(n)
    BY <1>1, <1>3, <1>7 DEF ParseIsMeaning
  <2>2. PICK c \in Int : \E f \in 0 .. MaxScale : Decoded(n) = Dec(c, f)
    BY <1>2, <2>1, DecodedIs
  <2>3. PICK f \in 0 .. MaxScale : Decoded(n) = Dec(c, f)
    BY <2>2
  <2>4. Dec(c, f).coef = c /\ Dec(c, f).scale = f /\ f \in Nat
    BY MaxScaleAssumption DEF Dec
  <2> DEFINE q == Rounded(c, f)
             answer == F!OrOverflow({q} \cap F!Int64, scale)
  <2>5. /\ RoundedUnits(n) = q
        /\ F!Fixed64FromDecimal(result, scale, mode) = answer
    BY <1>2, <2>1, <2>3, RescaledIs DEF RoundedUnits
  <2>6. FixedReturn(answer)
    BY <1>7, <2>5 DEF ConvertParsed
  <2>7. Numerals = {n}
    BY <1>2, <2>1, OneReading DEF Numerals
  <2>8. CASE q \in F!Int64
    <3>1. (CHOOSE u \in {q} \cap F!Int64 : TRUE) = q /\ {q} \cap F!Int64 # {}
      BY <2>8
    <3> HIDE DEF q
    <3>2. answer.err = "nil" /\ answer.val.units = q /\ answer.val.scale = scale
      BY <3>1 DEF F!OrOverflow, F!Ok, F!Fixed
    <3> HIDE DEF answer
    <3>3. IsRounded(q, c * Powers(10)[scale], Powers(10)[f], mode)
      BY <1>2, <2>4, RoundedIs DEF q
    <3>4. FixedRight(answer)
      BY <1>4, <2>1, <2>3, <2>4, <2>8, <3>2, <3>3 DEF FixedRight
    <3> QED
      BY <1>1, <1>2, <2>6, <3>4, FixedReturnKeeps DEF answer, q
  <2>9. CASE q \notin F!Int64
    <3>1. {q} \cap F!Int64 = {}
      BY <2>9
    <3> HIDE DEF q
    <3>2. answer = F!Fail("ErrOverflow")
      BY <3>1 DEF F!OrOverflow
    <3>3. FixedRight(F!Fail("ErrOverflow"))
      BY <1>4, <1>5, <2>5, <2>7, <2>9 DEF FixedRight
    <3> QED
      BY <1>1, <1>2, <2>6, <3>2, <3>3, FixedReturnKeeps DEF q
  <2> QED
    BY <2>8, <2>9
<1> QED
  BY <1>6, <1>7

\* Only a text that is trimmed changes, and the default options do not trim.
LEMMA TextStays ==
    ASSUME Next
    PROVE  opts' = opts /\ (opts = DefaultOptions => text' = text)
<1>1. ASSUME NEW answer, Return(answer) PROVE opts' = opts /\ text' = text
  BY <1>1 DEF Return, input
<1>2. ASSUME GiveUp PROVE opts' = opts /\ text' = text
  BY <1>2 DEF GiveUp, input
<1>3. CASE SimpleStart \/ SimplePoint \/ SimpleEnd
  BY <1>1, <1>3 DEF SimpleStart, SimplePoint, SimpleEnd, Reject, input
<1>4. CASE SimpleDigit \/ SimpleOther
  BY <1>2, <1>4 DEF SimpleDigit, SimpleOther, input
<1>5. CASE CheckOptions
  <2>1. opts = DefaultOptions => ~opts.trimSpace
    BY OptionsAre
  <2> QED
    BY <1>1, <1>5, <2>1 DEF CheckOptions, Reject, input
<1>6. CASE ParseSign \/ IntegerDigit \/ IntegerSeparator \/ IntegerEnd
  BY <1>1, <1>6 DEF ParseSign, IntegerDigit, IntegerSeparator, IntegerEnd, Reject, input
<1>7. CASE FractionDigit \/ FractionEnd \/ ParseExponent
  BY <1>1, <1>7 DEF FractionDigit, FractionEnd, ParseExponent, Reject, input
<1>8. CASE ExponentDigit \/ ExponentEnd \/ Finish
  BY <1>1, <1>8 DEF ExponentDigit, ExponentEnd, Finish, Reject, input
<1> QED
  BY <1>3, <1>4, <1>5, <1>6, <1>7, <1>8 DEF Next

\* A step of Parse keeps what is known of ParseFixed64.
LEMMA ParsingKeeps ==
    ASSUME FixedInv, Parsing
    PROVE  FixedInv'
<1>1. stage \in {"parse", "direct"} /\ Next /\ UNCHANGED <<scale, mode, stage, loop, fixed, fixedErr>>
  BY DEF Parsing, fixedVars, arguments
<1>2. ParserInv'
  BY <1>1, StepParses DEF FixedInv
<1>3. opts' = opts /\ (opts = DefaultOptions => text' = text)
  BY <1>1, TextStays
<1>4. Len(text') \in Nat
  BY <1>2 DEF ParserInv, TypeOK
<1>5. Keeps(stage, loop)'
  <2>1. CASE stage = "parse"
    <3>1. opts = DefaultOptions
      BY <2>1 DEF FixedInv
    <3> QED
      BY <1>1, <1>3, <2>1, <3>1 DEF FixedInv, Keeps, LimitOf
  <2>2. CASE stage = "direct"
    <3>1. loop = Fresh /\ loop.pos = 1
      BY <2>2 DEF FixedInv, Fresh
    <3> QED
      BY <1>1, <1>4, <2>2, <3>1 DEF FixedInv, Keeps, LimitOf
  <2> QED
    BY <1>1, <2>1, <2>2
<1>6. FixedIsMeaning'
  BY <1>1 DEF FixedIsMeaning
<1>7. stage = "parse" => ValidCall'
  BY <1>1 DEF FixedInv, ValidCall
<1>8. (fixed.units \in F!Int64)' /\ (F!ValidFixed64Scale(fixed.scale))'
  BY <1>1 DEF FixedInv
<1> QED
  BY <1>1, <1>2, <1>3, <1>5, <1>6, <1>7, <1>8 DEF FixedInv, Fresh

-----------------------------------------------------------------------------
(* ParseFixed64: the invariant *)

\* Nothing has been read when a call begins.
LEMMA FixedInitially == FixedInit => FixedInv
<1> SUFFICES ASSUME FixedInit PROVE FixedInv
  OBVIOUS
<1>1. ParserInv
  BY InitParses DEF FixedInit
<1>2. loop = Fresh /\ fixed = F!Fixed(0, 0)
  BY DEF FixedInit, Fresh
<1>3. stage \in {"arguments", "direct"} /\ scale \in Int
  <2>1. FixedScales \subseteq Int
    BY FixedParserAssumption
  <2>2. stage \in {"arguments", "direct"} /\ (scale \in FixedScales \/ scale = 0)
    BY DEF FixedInit
  <2>3. scale \in Int
    <3>1. CASE scale = 0
      BY <3>1
    <3>2. CASE scale \in FixedScales
      BY <2>1, <3>2
    <3> QED
      BY <2>2, <3>1, <3>2
  <2> QED
    BY <2>2, <2>3
<1>4. stage # "direct" => opts = DefaultOptions
  BY DEF FixedInit, Init
<1>5. Keeps(stage, loop)
  <2>1. Len(text) \in Nat
    BY <1>1 DEF ParserInv, TypeOK
  <2>2. Fresh \in Locals /\ Fresh.pos = 1 /\ Fresh.magnitude = 0
    BY DEF Fresh, Locals
  <2>3. 0 <= LimitOf(Fresh)
    BY FixedParserAssumption DEF LimitOf
  <2> QED
    BY <1>2, <1>3, <2>1, <2>2, <2>3 DEF Keeps
<1>6. fixed.units \in F!Int64 /\ F!ValidFixed64Scale(fixed.scale)
  BY <1>2, FixedParserAssumption DEF F!Fixed, F!Int64, F!MinInt64, F!ValidFixed64Scale
<1>7. FixedIsMeaning
  BY <1>3 DEF FixedIsMeaning
<1> QED
  BY <1>1, <1>2, <1>3, <1>4, <1>5, <1>6, <1>7 DEF FixedInv

\* A stutter of both keeps the invariant.
LEMMA FixedStays == FixedInv /\ UNCHANGED allVars => FixedInv'
<1> SUFFICES ASSUME FixedInv, UNCHANGED allVars PROVE FixedInv'
  OBVIOUS
<1>1. UNCHANGED vars /\ UNCHANGED <<scale, mode, stage, loop, fixed, fixedErr, text, opts>>
  BY DEF allVars, fixedVars, arguments, vars, input
<1>2. ParserInv'
  BY <1>1, SameStateParses DEF FixedInv
<1>3. Keeps(stage, loop)'
  <2>1. SignEnd' = SignEnd
    BY <1>1, SameText
  <2>2. LoopRead(loop) => LoopRead(loop)'
    BY <1>1, <2>1 DEF LoopRead, SignKept, PointRead, PointDigits, WholeDigits, Kept, Discarded
  <2>3. WholeRead(loop) => WholeRead(loop)'
    BY <1>1, <2>1 DEF WholeRead, SignKept, Plain, PlainFraction, PointDigits, WholeDigits, Kept, Discarded
  <2> QED
    BY <1>1, <2>2, <2>3 DEF FixedInv, Keeps, LimitOf
<1>4. FixedIsMeaning'
  <2>1. (ValidCall' <=> ValidCall) /\ Numerals' = Numerals
    BY <1>1 DEF ValidCall, Numerals, Readings, Reading, IsNumeral, WellGrouped, IsSeparator, DecimalSeparator
  <2>2. \A n : RoundedUnits(n)' = RoundedUnits(n) /\ (WithinLimits(n)' <=> WithinLimits(n))
    BY <1>1 DEF RoundedUnits, WithinLimits
  <2> QED
    BY <1>1, <2>1, <2>2 DEF FixedInv, FixedIsMeaning
<1>5. ValidCall' <=> ValidCall
  BY <1>1 DEF ValidCall
<1>6. (fixed.units \in F!Int64)' /\ (F!ValidFixed64Scale(fixed.scale))'
  BY <1>1 DEF FixedInv
<1> QED
  BY <1>1, <1>2, <1>3, <1>4, <1>5, <1>6 DEF FixedInv, Fresh

\* Every step of ParseFixed64 keeps the invariant.
LEMMA FixedSteps == FixedInv /\ [FixedNext]_allVars => FixedInv'
<1> SUFFICES ASSUME FixedInv, [FixedNext]_allVars PROVE FixedInv'
  OBVIOUS
<1>1. CASE FixedArguments
  BY <1>1, FixedArgumentsKeeps
<1>2. CASE FixedPoint
  BY <1>2, FixedPointKeeps
<1>3. CASE FixedOther
  BY <1>3, FixedOtherKeeps
<1>4. CASE FixedDigit
  BY <1>4, FixedDigitKeeps
<1>5. CASE FixedDiscard
  BY <1>5, FixedDiscardKeeps
<1>6. CASE FixedLoopEnd
  BY <1>6, FixedLoopEndKeeps
<1>7. CASE FixedPad
  BY <1>7, FixedPadKeeps
<1>8. CASE FixedRound
  BY <1>8, FixedRoundKeeps
<1>9. CASE Parsing
  BY <1>9, ParsingKeeps
<1>10. CASE ConvertParsed
  BY <1>10, ConvertParsedKeeps
<1>11. CASE UNCHANGED allVars
  BY <1>11, FixedStays
<1> QED
  BY <1>1, <1>2, <1>3, <1>4, <1>5, <1>6, <1>7, <1>8, <1>9, <1>10, <1>11 DEF FixedNext

\* The invariant of ParseFixed64 and of the parsers it calls holds in every state.
LEMMA FixedKept == FixedSpec => []FixedInv
BY FixedInitially, FixedSteps, PTL DEF FixedSpec

\* The types: the index stays in the text, and the magnitude of the loop never passes the
\* largest of its sign, so what is returned is an int64.  (fixed64.go parseFixed64Fast)
THEOREM FixedTypeCorrect == FixedSpec => []FixedTypeOK
<1>1. FixedInv => FixedTypeOK
  <2> SUFFICES ASSUME FixedInv PROVE FixedTypeOK
    OBVIOUS
  <2>1. TypeOK /\ Len(text) \in Nat
    BY DEF FixedInv, ParserInv, TypeOK
  <2>2. loop.pos \in Nat /\ loop.magnitude \in Nat /\ loop.pos <= Len(text) + 1 /\ loop.pos >= 1
        /\ loop.magnitude <= Limit /\ Limit \in Nat
    BY FixedParserAssumption DEF FixedInv, Keeps, Locals, Limit, LimitOf
  <2> QED
    BY <2>1, <2>2 DEF FixedInv, FixedTypeOK
<1> QED
  BY <1>1, FixedKept, PTL

\* A text is accepted exactly when it is a numeral within the limits, and stands for the
\* number the numeral writes, for every text and all options: the fast path takes nothing
\* the full parser would refuse.  (parse.go)
THEOREM ParsedAsMeant == FixedSpec => []ParseIsMeaning
<1>1. FixedInv => ParseIsMeaning
  BY DEF FixedInv, ParserInv, ParsedRight
<1> QED
  BY <1>1, FixedKept, PTL

\* A numeral is never reported as a syntax error, nor one within the limits as beyond
\* them.  (parse.go)
THEOREM ErrorsSayWhatIsWrong == FixedSpec => []ErrorsAreHonest
<1>1. FixedInv => ErrorsAreHonest
  BY DEF FixedInv, ParserInv, ParsedRight
<1> QED
  BY <1>1, FixedKept, PTL

\* ParseFixed64 reads the number the text writes and rounds it once, to the scale asked
\* for, although its loop never holds all the digits.  (fixed64.go ParseFixed64)
THEOREM FixedParsedAsMeant == FixedSpec => []FixedIsMeaning
<1>1. FixedInv => FixedIsMeaning
  BY DEF FixedInv
<1> QED
  BY <1>1, FixedKept, PTL

-----------------------------------------------------------------------------
(* Canonical texts *)

TextChars == {DigitChar[k] : k \in 1 .. 10} \cup {"-", "."}

\* The character of a digit stands for it.
LEMMA DigitCharIs ==
    /\ \A k \in 0 .. 9 : IsDigit(DigitChar[k + 1]) /\ DigitValue[DigitChar[k + 1]] = k /\ DigitChar[k + 1] \in TextChars
    /\ \A c \in {DigitChar[k] : k \in 1 .. 10} : IsDigit(c)
    /\ DigitChar[1] = "0" /\ "0" \in TextChars /\ "-" \in TextChars /\ "." \in TextChars
<1>1. /\ DigitChar[1] = "0" /\ DigitChar[2] = "1" /\ DigitChar[3] = "2" /\ DigitChar[4] = "3" /\ DigitChar[5] = "4"
      /\ DigitChar[6] = "5" /\ DigitChar[7] = "6" /\ DigitChar[8] = "7" /\ DigitChar[9] = "8" /\ DigitChar[10] = "9"
  BY DEF DigitChar
<1>2. \A k \in 0 .. 9 : IsDigit(DigitChar[k + 1]) /\ DigitValue[DigitChar[k + 1]] = k
  <2> TAKE k \in 0 .. 9
  <2>1. k \in {0, 1, 2, 3, 4, 5, 6, 7, 8, 9}
    OBVIOUS
  <2>2. CASE k \in {0, 1, 2, 3, 4}
    BY <1>1, <2>2 DEF IsDigit, DigitValue
  <2>3. CASE k \in {5, 6, 7, 8, 9}
    BY <1>1, <2>3 DEF IsDigit, DigitValue
  <2> QED
    BY <2>1, <2>2, <2>3
<1>3. \A k \in 0 .. 9 : DigitChar[k + 1] \in TextChars
  <2>1. \A k \in 0 .. 9 : k + 1 \in 1 .. 10
    OBVIOUS
  <2> QED
    BY <2>1 DEF TextChars
<1>4. \A k \in 1 .. 10 : IsDigit(DigitChar[k])
  <2>1. \A k \in 1 .. 10 : k - 1 \in 0 .. 9 /\ (k - 1) + 1 = k
    OBVIOUS
  <2> QED
    BY <1>2, <2>1
<1>5. "0" \in TextChars
  <2>1. 1 \in 1 .. 10
    OBVIOUS
  <2> QED
    BY <1>1, <2>1 DEF TextChars
<1> QED
  BY <1>1, <1>2, <1>3, <1>4, <1>5 DEF TextChars

\* The same number up to two places, and the same n characters after them
SameNumber(s, a, i, t, b, j) == a \in 1 .. i + 1 /\ b \in 1 .. j + 1 /\ Number(s, a, i) = Number(t, b, j)
SameChars(s, i, t, j, n) == \A k \in 1 .. n : s[i + k] = t[j + k]

\* Where the characters are the same, so is what they add to a number.
LEMMA NumberAfter ==
    ASSUME NEW s, NEW t, NEW a, NEW b, NEW i \in Nat, NEW j \in Nat, NEW n \in Nat,
           SameNumber(s, a, i, t, b, j), SameChars(s, i, t, j, n)
    PROVE  Number(s, a, i + n) = Number(t, b, j + n)
<1>0. /\ a \in Nat /\ a > 0 /\ b \in Nat /\ b > 0 /\ a <= i + 1 /\ b <= j + 1
      /\ Number(s, a, i) = Number(t, b, j) /\ \A k \in 1 .. n : s[i + k] = t[j + k]
  BY DEF SameNumber, SameChars
<1> DEFINE S == {m \in Nat : m <= n => Number(s, a, i + m) = Number(t, b, j + m)}
<1>1. 0 \in S
  <2>1. i + 0 = i /\ j + 0 = j
    OBVIOUS
  <2> QED
    BY <1>0, <2>1
<1>2. ASSUME NEW m \in S PROVE m + 1 \in S
  <2> SUFFICES ASSUME m + 1 <= n PROVE Number(s, a, i + (m + 1)) = Number(t, b, j + (m + 1))
    OBVIOUS
  <2>1. m \in Nat /\ Number(s, a, i + m) = Number(t, b, j + m)
    OBVIOUS
  <2> HIDE DEF S
  <2> DEFINE x == i + m
             y == j + m
  <2>2. x \in Nat /\ y \in Nat /\ x + 1 >= a /\ y + 1 >= b /\ i + (m + 1) = x + 1 /\ j + (m + 1) = y + 1
    BY <1>0, <2>1
  <2>3. s[x + 1] = t[y + 1]
    <3>1. m + 1 \in 1 .. n
      BY <2>1
    <3> QED
      BY <1>0, <2>2, <3>1
  <2>4. Number(s, a, x) = Number(t, b, y)
    BY <2>1
  <2> HIDE DEF x, y
  <2>5. Number(s, a, x + 1) = IF IsDigit(s[x + 1]) THEN 10 * Number(s, a, x) + DigitValue[s[x + 1]] ELSE Number(s, a, x)
    BY <1>0, <2>2, NumberStep
  <2>6. Number(t, b, y + 1) = IF IsDigit(t[y + 1]) THEN 10 * Number(t, b, y) + DigitValue[t[y + 1]] ELSE Number(t, b, y)
    BY <1>0, <2>2, NumberStep
  <2>7. Number(s, a, x + 1) = Number(t, b, y + 1)
    <3>1. CASE IsDigit(s[x + 1])
      BY <2>3, <2>4, <2>5, <2>6, <3>1
    <3>2. CASE ~IsDigit(s[x + 1])
      BY <2>3, <2>4, <2>5, <2>6, <3>2
    <3> QED
      BY <3>1, <3>2
  <2> QED
    BY <2>2, <2>7
<1>3. S = Nat
  <2> HIDE DEF S
  <2>1. S \in SUBSET Nat
    BY DEF S
  <2> QED
    BY <1>1, <1>2, <2>1, Induction
<1> QED
  BY <1>3

\* Zeros, and the point
OnlyZeros(t, i, n) == \A k \in 1 .. n : t[i + k] \in {"0", "."}

\* A point or a zero before the digits leaves nothing.
LEMMA NothingBefore ==
    ASSUME NEW t, NEW a \in Nat, a > 0, NEW i \in Nat, a <= i + 1, Number(t, a, i) = 0,
           NEW n \in Nat, OnlyZeros(t, i, n)
    PROVE  Number(t, a, i + n) = 0
<1>0. \A k \in 1 .. n : t[i + k] \in {"0", "."}
  BY DEF OnlyZeros
<1> DEFINE S == {m \in Nat : m <= n => Number(t, a, i + m) = 0}
<1>1. 0 \in S
  <2>1. i + 0 = i
    OBVIOUS
  <2> QED
    BY <2>1
<1>2. ASSUME NEW m \in S PROVE m + 1 \in S
  <2> SUFFICES ASSUME m + 1 <= n PROVE Number(t, a, i + (m + 1)) = 0
    OBVIOUS
  <2>1. m \in Nat /\ Number(t, a, i + m) = 0
    OBVIOUS
  <2> HIDE DEF S
  <2> DEFINE x == i + m
  <2>2. x \in Nat /\ x + 1 >= a /\ i + (m + 1) = x + 1
    BY <2>1
  <2>3. t[x + 1] \in {"0", "."}
    <3>1. m + 1 \in 1 .. n
      BY <2>1
    <3> QED
      BY <1>0, <2>2, <3>1
  <2>4. Number(t, a, x) = 0
    BY <2>1
  <2> HIDE DEF x
  <2>5. Number(t, a, x + 1) = IF IsDigit(t[x + 1]) THEN 10 * Number(t, a, x) + DigitValue[t[x + 1]] ELSE Number(t, a, x)
    BY <2>2, NumberStep
  <2>6. ~IsDigit(".") /\ DigitValue["0"] = 0
    BY DigitsAreReserved DEF DigitValue
  <2>7. Number(t, a, x + 1) = 0
    <3>1. CASE t[x + 1] = "."
      BY <2>4, <2>5, <2>6, <3>1
    <3>2. CASE t[x + 1] = "0"
      BY <2>4, <2>5, <2>6, <3>2
    <3> QED
      BY <2>3, <3>1, <3>2
  <2> QED
    BY <2>2, <2>7
<1>3. S = Nat
  <2> HIDE DEF S
  <2>1. S \in SUBSET Nat
    BY DEF S
  <2> QED
    BY <1>1, <1>2, <2>1, Induction
<1> QED
  BY <1>3

\* The digits of a number write it.
LEMMA DigitsSpell ==
    \A n \in Nat : /\ DigitsOf[n] \in Seq({DigitChar[k] : k \in 1 .. 10}) /\ Len(DigitsOf[n]) \in Nat
                   /\ Number(DigitsOf[n], 1, Len(DigitsOf[n])) = n
                   /\ n < 10 => DigitsOf[n] = <<DigitChar[n + 1]>>
<1> DEFINE T == {DigitChar[k] : k \in 1 .. 10}
           Spelt(n) == Number(DigitsOf[n], 1, Len(DigitsOf[n])) = n
           S == {n \in Nat : \A k \in Nat : k <= n => Spelt(k)}
<1>1. ASSUME NEW n \in Nat
      PROVE  /\ n % 10 \in 0 .. 9 /\ n = 10 * (n \div 10) + (n % 10) /\ n \div 10 \in Nat
             /\ n >= 10 => n \div 10 < n
             /\ n < 10 => n % 10 = n /\ n \div 10 = 0
  OBVIOUS
<1>2. ASSUME NEW n \in Nat, n < 10 PROVE Spelt(n) /\ DigitsOf[n] = <<DigitChar[n + 1]>>
  <2>1. DigitsOf[n] = <<DigitChar[n + 1]>> /\ Len(DigitsOf[n]) = 1
    BY <1>1, <1>2, DigitsAre
  <2> DEFINE d == DigitsOf[n]
  <2>2. d[1] = DigitChar[n + 1]
    BY <2>1
  <2>3. n \in 0 .. 9
    BY <1>2
  <2>4. IsDigit(d[1]) /\ DigitValue[d[1]] = n
    BY <2>2, <2>3, DigitCharIs
  <2> HIDE DEF d
  <2>5. Number(d, 1, 0) = 0 /\ Number(d, 1, 0 + 1) = 10 * Number(d, 1, 0) + DigitValue[d[0 + 1]]
    <3>1. 0 \in Nat /\ 1 \in Nat /\ 1 > 0 /\ 0 < 1 /\ 0 + 1 >= 1 /\ 0 + 1 = 1
      OBVIOUS
    <3> QED
      BY <2>4, <3>1, NumberStep
  <2>6. Number(d, 1, 1) = n
    BY <2>4, <2>5
  <2> QED
    BY <2>1, <2>6 DEF d
<1>3. ASSUME NEW n \in Nat, n >= 10, Spelt(n \div 10) PROVE Spelt(n)
  <2> DEFINE q == n \div 10
             r == n % 10
             s == DigitsOf[q]
             t == DigitsOf[n]
             e == DigitChar[r + 1]
  <2>1. t = s \o <<e>> /\ s \in Seq(T) /\ Len(s) \in Nat /\ Len(t) = Len(s) + 1
    <3>1. q \in Nat /\ ~(n < 10) /\ n >= 10
      BY <1>1, <1>3
    <3> QED
      BY <3>1, DigitsAre, Zenon
  <2>2. r \in 0 .. 9 /\ n = 10 * q + r /\ q \in Nat
    BY <1>1
  <2>3. IsDigit(e) /\ DigitValue[e] = r
    BY <2>2, DigitCharIs
  <2>4. Number(s, 1, Len(s)) = q
    BY <1>3
  <2>5. (\A k \in 1 .. Len(s) : s[k] = t[k]) /\ t[Len(s) + 1] = e
    <3> HIDE DEF s, t, e
    <3> QED
      BY <2>1
  <2> HIDE DEF q, r, s, t, e
  <2>6. Number(t, 1, Len(s)) = q
    <3>1. Number(s, 1, 0) = 0 /\ Number(t, 1, 0) = 0
      <4>1. 1 \in Nat /\ 1 > 0 /\ 0 \in Nat /\ 0 < 1
        OBVIOUS
      <4> QED
        BY <4>1, NumberStep
    <3> DEFINE zero == 0
    <3>2. zero \in Nat /\ Len(s) \in Nat /\ zero + Len(s) = Len(s)
      BY <2>1
    <3>3. SameNumber(s, 1, zero, t, 1, zero) /\ SameChars(s, zero, t, zero, Len(s))
      BY <2>1, <2>5, <3>1 DEF SameNumber, SameChars
    <3> HIDE DEF zero
    <3>4. Number(s, 1, zero + Len(s)) = Number(t, 1, zero + Len(s))
      BY <3>2, <3>3, NumberAfter
    <3> QED
      BY <2>4, <3>2, <3>4
  <2>7. Number(t, 1, Len(s) + 1) = 10 * q + r
    <3> DEFINE one == 1
               len == Len(s)
    <3>1. one \in Nat /\ one > 0 /\ len + 1 >= one /\ len \in Nat
      BY <2>1
    <3>2. IsDigit(t[len + 1]) /\ DigitValue[t[len + 1]] = r /\ Number(t, one, len) = q
      BY <2>3, <2>5, <2>6
    <3> HIDE DEF one, len
    <3>3. Number(t, one, len + 1) = IF IsDigit(t[len + 1]) THEN 10 * Number(t, one, len) + DigitValue[t[len + 1]]
                                    ELSE Number(t, one, len)
      BY <3>1, NumberStep
    <3>4. Number(t, one, len + 1) = 10 * q + r
      BY <3>2, <3>3
    <3> QED
      BY <3>4 DEF one, len
  <2> QED
    BY <2>1, <2>2, <2>7 DEF t
<1> HIDE DEF Spelt
<1>4. 0 \in S
  <2>1. \A k \in Nat : k <= 0 => k = 0
    OBVIOUS
  <2>2. Spelt(0)
    BY <1>2
  <2> QED
    BY <2>1, <2>2
<1>5. ASSUME NEW n \in S PROVE n + 1 \in S
  <2>1. n \in Nat /\ n + 1 \in Nat /\ \A k \in Nat : k <= n => Spelt(k)
    OBVIOUS
  <2>2. Spelt(n + 1)
    <3>1. CASE n + 1 < 10
      BY <1>2, <2>1, <3>1
    <3>2. CASE n + 1 >= 10
      <4>1. (n + 1) \div 10 \in Nat /\ (n + 1) \div 10 < n + 1
        BY <1>1, <2>1, <3>2
      <4>2. Spelt((n + 1) \div 10)
        BY <2>1, <4>1
      <4> QED
        BY <1>3, <2>1, <3>2, <4>2
    <3> QED
      BY <2>1, <3>1, <3>2
  <2>3. \A k \in Nat : k <= n + 1 => k <= n \/ k = n + 1
    BY <2>1
  <2>4. \A k \in Nat : k <= n + 1 => Spelt(k)
    BY <2>1, <2>2, <2>3
  <2> QED
    BY <2>1, <2>4
<1>6. S = Nat
  <2> HIDE DEF S
  <2>1. S \in SUBSET Nat
    BY DEF S
  <2> QED
    BY <1>4, <1>5, <2>1, Induction
<1>7. \A n \in Nat : Spelt(n)
  <2> TAKE n \in Nat
  <2>1. n \in S /\ n <= n
    BY <1>6
  <2> QED
    BY <2>1
<1> QED
  BY <1>2, <1>7, DigitsAre DEF Spelt

\* Where the sign, the digits and the point of a text are: s characters, the digits d and
\* the point before the last f of them
Layout(t, s, d, f) ==
    /\ t \in Seq(TextChars) /\ s \in {0, 1} /\ (s = 1 => t[1] = "-")
    /\ f = 0 => Len(t) = s + Len(d) /\ \A k \in 1 .. Len(d) : t[s + k] = d[k]
    /\ f > 0 /\ Len(d) <= f =>
         /\ Len(t) = s + 2 + f /\ t[s + 1] = "0" /\ t[s + 2] = "."
         /\ \A k \in 1 .. f - Len(d) : t[s + 2 + k] = "0"
         /\ \A k \in 1 .. Len(d) : t[s + 2 + (f - Len(d)) + k] = d[k]
    /\ f > 0 /\ Len(d) > f =>
         /\ Len(t) = s + Len(d) + 1 /\ t[s + (Len(d) - f) + 1] = "."
         /\ \A k \in 1 .. Len(d) - f : t[s + k] = d[k]
         /\ \A k \in (Len(d) - f) + 1 .. Len(d) : t[s + 1 + k] = d[k]

SignOf(n) == IF n < 0 THEN 1 ELSE 0

\* A text after another
Joins(w, t, u) ==
    /\ w \in Seq(TextChars) /\ Len(t) \in Nat /\ Len(u) \in Nat /\ Len(w) = Len(t) + Len(u)
    /\ \A k \in 1 .. Len(t) : w[k] = t[k]
    /\ \A k \in 1 .. Len(u) : w[Len(t) + k] = u[k]

\* Its characters are those of the two texts.
LEMMA Joined ==
    ASSUME NEW t \in Seq(TextChars), NEW u \in Seq(TextChars)
    PROVE  Joins(t \o u, t, u)
<1> DEFINE T == TextChars
<1>0. t \in Seq(T) /\ u \in Seq(T)
  OBVIOUS
<1> HIDE DEF T
<1>1. t \o u \in Seq(T) /\ Len(t) \in Nat /\ Len(u) \in Nat /\ Len(t \o u) = Len(t) + Len(u)
  BY <1>0
<1>2. \A k \in 1 .. Len(t) : (t \o u)[k] = t[k]
  BY <1>0
<1>3. \A k \in 1 .. Len(u) : (t \o u)[Len(t) + k] = u[k]
  BY <1>0
<1> QED
  BY <1>1, <1>2, <1>3 DEF Joins, T

\* The sign of a text
LEMMA MinusIs ==
    ASSUME NEW n \in Int
    PROVE  Minus(n) \in Seq(TextChars) /\ Len(Minus(n)) = SignOf(n) /\ (SignOf(n) = 1 => Minus(n)[1] = "-")
<1>1. CASE n < 0
  <2>1. "-" \in TextChars
    BY DigitCharIs
  <2>2. <<"-">> \in Seq(TextChars) /\ Len(<<"-">>) = 1 /\ <<"-">>[1] = "-"
    BY <2>1
  <2> QED
    BY <1>1, <2>2 DEF Minus, SignOf
<1>2. CASE ~(n < 0)
  <2>1. << >> \in Seq(TextChars) /\ Len(<< >>) = 0
    OBVIOUS
  <2> QED
    BY <1>2, <2>1 DEF Minus, SignOf
<1> QED
  BY <1>1, <1>2

\* Zeros, and those after a zero and a point
LEMMA ZerosAre ==
    ASSUME NEW n \in Nat
    PROVE  /\ Zeros(n) \in Seq(TextChars) /\ Len(Zeros(n)) = n /\ \A k \in 1 .. n : Zeros(n)[k] = "0"
           /\ <<"0", ".">> \in Seq(TextChars) /\ Len(<<"0", ".">>) = 2
           /\ <<"0", ".">>[1] = "0" /\ <<"0", ".">>[2] = "."
           /\ <<".">> \in Seq(TextChars) /\ Len(<<".">>) = 1 /\ <<".">>[1] = "."
<1>1. "0" \in TextChars /\ "." \in TextChars
  BY DigitCharIs
<1>2. <<"0", ".">> \in Seq(TextChars) /\ Len(<<"0", ".">>) = 2
      /\ <<"0", ".">>[1] = "0" /\ <<"0", ".">>[2] = "."
  BY <1>1
<1>3. <<".">> \in Seq(TextChars) /\ Len(<<".">>) = 1 /\ <<".">>[1] = "."
  BY <1>1
<1>4. Zeros(n) \in Seq(TextChars) /\ Len(Zeros(n)) = n /\ \A k \in 1 .. n : Zeros(n)[k] = "0"
  BY <1>1 DEF Zeros
<1> QED
  BY <1>2, <1>3, <1>4

\* The digits of the magnitude of a number
LEMMA MagnitudeDigits ==
    ASSUME NEW c \in Int
    PROVE  /\ Magnitude(c) \in Nat /\ DigitsOf[Magnitude(c)] \in Seq(TextChars)
           /\ \A k \in 1 .. Len(DigitsOf[Magnitude(c)]) : IsDigit(DigitsOf[Magnitude(c)][k])
           /\ Len(DigitsOf[Magnitude(c)]) \in Nat \ {0}
           /\ Number(DigitsOf[Magnitude(c)], 1, Len(DigitsOf[Magnitude(c)])) = Magnitude(c)
           /\ c = 0 => DigitsOf[Magnitude(c)] = <<"0">>
<1> DEFINE n == Magnitude(c)
           d == DigitsOf[n]
           T == {DigitChar[k] : k \in 1 .. 10}
<1>1. n \in Nat /\ (c = 0 => n = 0)
  BY DEF Magnitude
<1> HIDE DEF n
<1>2. d \in Seq(T) /\ Len(d) \in Nat /\ Number(d, 1, Len(d)) = n /\ (n = 0 => d = <<DigitChar[0 + 1]>>)
  <2>1. \A m \in Nat : DigitsOf[m] \in Seq(T) /\ Len(DigitsOf[m]) \in Nat
    BY DigitsSpell, Zenon
  <2>2. \A m \in Nat : Number(DigitsOf[m], 1, Len(DigitsOf[m])) = m
    BY DigitsSpell, Zenon
  <2>3. \A m \in Nat : m < 10 => DigitsOf[m] = <<DigitChar[m + 1]>>
    BY DigitsSpell, Zenon
  <2>4. n = 0 => d = <<DigitChar[0 + 1]>>
    <3> SUFFICES ASSUME n = 0 PROVE d = <<DigitChar[0 + 1]>>
      OBVIOUS
    <3>1. 0 \in Nat /\ 0 < 10
      OBVIOUS
    <3>2. DigitsOf[0] = <<DigitChar[0 + 1]>>
      BY <2>3, <3>1, Zenon
    <3> QED
      BY <3>2
  <2> HIDE DEF T
  <2> QED
    BY <1>1, <2>1, <2>2, <2>4, Zenon
<1>3. Len(d) # 0
  <2>1. Len(d) > 0 <=> 0 = 0 \/ n >= Powers(10)[0]
    BY <1>1, DigitsLength
  <2> QED
    BY <2>1
<1>4. d \in Seq(TextChars)
  <2>1. T \subseteq TextChars
    BY DEF TextChars
  <2> HIDE DEF d, T
  <2> QED
    BY <1>2, <2>1
<1>5. \A k \in 1 .. Len(d) : IsDigit(d[k])
  <2>1. \A e \in T : IsDigit(e)
    BY DigitCharIs
  <2>2. \A k \in 1 .. Len(d) : d[k] \in T
    <3> HIDE DEF d, T
    <3> QED
      BY <1>2
  <2> HIDE DEF d, T
  <2> QED
    BY <2>1, <2>2
<1>6. n = 0 => d = <<"0">>
  <2>1. DigitChar[0 + 1] = "0"
    BY DigitCharIs
  <2> QED
    BY <1>2, <2>1
<1> QED
  BY <1>1, <1>2, <1>3, <1>4, <1>5, <1>6 DEF n

\* The layout of a text that follows its sign
LEMMA LayoutOf ==
    ASSUME NEW c \in Int, NEW f \in Nat, NEW d \in Seq(TextChars), Len(d) \in Nat \ {0},
           NEW g \in Seq(TextChars), Layout(g, 0, d, f)
    PROVE  Layout(Minus(c) \o g, SignOf(c), d, f)
<1> DEFINE m == Minus(c)
           s == SignOf(c)
           t == m \o g
           L == Len(d)
<1>1. m \in Seq(TextChars) /\ Len(m) = s /\ (s = 1 => m[1] = "-")
  BY MinusIs
<1>2. s \in {0, 1}
  BY DEF SignOf
<1> HIDE DEF m, s
<1>3. Joins(t, m, g)
  BY <1>1, Joined
<1> HIDE DEF t
<1>4. /\ t \in Seq(TextChars) /\ Len(g) \in Nat /\ Len(t) = s + Len(g)
      /\ \A k \in 1 .. s : t[k] = m[k]
      /\ \A k \in 1 .. Len(g) : t[s + k] = g[k]
  BY <1>1, <1>3 DEF Joins
<1>5. s = 1 => t[1] = "-"
  BY <1>1, <1>4
<1> HIDE DEF L
<1>6. L \in Nat /\ L > 0
  BY DEF L
<1>7. /\ f = 0 => Len(g) = L /\ \A k \in 1 .. L : g[k] = d[k]
      /\ f > 0 /\ L <= f =>
           /\ Len(g) = 2 + f /\ g[1] = "0" /\ g[2] = "."
           /\ \A k \in 1 .. f - L : g[2 + k] = "0"
           /\ \A k \in 1 .. L : g[2 + (f - L) + k] = d[k]
      /\ f > 0 /\ L > f =>
           /\ Len(g) = L + 1 /\ g[(L - f) + 1] = "."
           /\ \A k \in 1 .. L - f : g[k] = d[k]
           /\ \A k \in (L - f) + 1 .. L : g[1 + k] = d[k]
  BY <1>6 DEF Layout, L
<1>8. f = 0 => Len(t) = s + L /\ \A k \in 1 .. L : t[s + k] = d[k]
  BY <1>4, <1>7
<1>9. ASSUME f > 0, L <= f
      PROVE  /\ Len(t) = s + 2 + f /\ t[s + 1] = "0" /\ t[s + 2] = "."
             /\ \A k \in 1 .. f - L : t[s + 2 + k] = "0"
             /\ \A k \in 1 .. L : t[s + 2 + (f - L) + k] = d[k]
  <2>1. /\ Len(g) = 2 + f /\ g[1] = "0" /\ g[2] = "."
        /\ \A k \in 1 .. f - L : g[2 + k] = "0"
        /\ \A k \in 1 .. L : g[2 + (f - L) + k] = d[k]
    BY <1>7, <1>9
  <2>2. t[s + 1] = "0" /\ t[s + 2] = "."
    <3>1. 1 \in 1 .. Len(g) /\ 2 \in 1 .. Len(g)
      BY <2>1
    <3> QED
      BY <1>4, <2>1, <3>1
  <2>3. \A k \in 1 .. f - L : t[s + 2 + k] = "0"
    <3> TAKE k \in 1 .. f - L
    <3>1. 2 + k \in 1 .. Len(g) /\ s + 2 + k = s + (2 + k)
      BY <1>2, <1>6, <2>1
    <3> QED
      BY <1>4, <2>1, <3>1
  <2>4. \A k \in 1 .. L : t[s + 2 + (f - L) + k] = d[k]
    <3> TAKE k \in 1 .. L
    <3>1. 2 + (f - L) + k \in 1 .. Len(g) /\ s + 2 + (f - L) + k = s + (2 + (f - L) + k)
      BY <1>2, <1>6, <1>9, <2>1
    <3> QED
      BY <1>4, <2>1, <3>1
  <2> QED
    BY <1>2, <1>4, <2>1, <2>2, <2>3, <2>4
<1>10. ASSUME f > 0, L > f
       PROVE  /\ Len(t) = s + L + 1 /\ t[s + (L - f) + 1] = "."
              /\ \A k \in 1 .. L - f : t[s + k] = d[k]
              /\ \A k \in (L - f) + 1 .. L : t[s + 1 + k] = d[k]
  <2>1. /\ Len(g) = L + 1 /\ g[(L - f) + 1] = "."
        /\ \A k \in 1 .. L - f : g[k] = d[k]
        /\ \A k \in (L - f) + 1 .. L : g[1 + k] = d[k]
    BY <1>7, <1>10
  <2>2. t[s + (L - f) + 1] = "."
    <3>1. (L - f) + 1 \in 1 .. Len(g) /\ s + (L - f) + 1 = s + ((L - f) + 1)
      BY <1>2, <1>6, <1>10, <2>1
    <3> QED
      BY <1>4, <2>1, <3>1
  <2>3. \A k \in 1 .. L - f : t[s + k] = d[k]
    <3> TAKE k \in 1 .. L - f
    <3>1. k \in 1 .. Len(g)
      BY <1>6, <1>10, <2>1
    <3> QED
      BY <1>4, <2>1, <3>1
  <2>4. \A k \in (L - f) + 1 .. L : t[s + 1 + k] = d[k]
    <3> TAKE k \in (L - f) + 1 .. L
    <3>1. 1 + k \in 1 .. Len(g) /\ s + 1 + k = s + (1 + k)
      BY <1>2, <1>6, <1>10, <2>1
    <3> QED
      BY <1>4, <2>1, <3>1
  <2> QED
    BY <1>2, <1>4, <1>6, <2>1, <2>2, <2>3, <2>4
<1>11. Layout(t, s, d, f)
  BY <1>2, <1>4, <1>5, <1>8, <1>9, <1>10 DEF Layout, L
<1> QED
  BY <1>11 DEF t, m, s

\* Two texts laid out alike are the same.
LEMMA LayoutUnique ==
    ASSUME NEW t, NEW u, NEW s, NEW f \in Nat, NEW d, Len(d) \in Nat,
           Layout(t, s, d, f), Layout(u, s, d, f)
    PROVE  t = u
<1> DEFINE L == Len(d)
<1>1. t \in Seq(TextChars) /\ u \in Seq(TextChars) /\ s \in {0, 1} /\ L \in Nat
  BY DEF Layout
<1>2. Len(t) = Len(u) /\ Len(t) \in Nat /\ \A k \in 1 .. Len(t) : t[k] = u[k]
  <2>1. \A k \in 1 .. s : t[k] = u[k]
    <3>1. s = 1 => t[1] = u[1]
      BY DEF Layout
    <3> QED
      BY <1>1, <3>1
  <2>2. CASE f = 0
    <3>1. /\ Len(t) = s + L /\ \A k \in 1 .. L : t[s + k] = d[k]
          /\ Len(u) = s + L /\ \A k \in 1 .. L : u[s + k] = d[k]
      BY <2>2 DEF Layout
    <3> HIDE DEF L
    <3>2. ASSUME NEW k \in 1 .. Len(t) PROVE t[k] = u[k]
      <4>1. CASE k <= s
        BY <1>1, <2>1, <4>1
      <4>2. CASE k > s
        <5>1. k - s \in 1 .. L /\ s + (k - s) = k
          BY <1>1, <3>1, <4>2
        <5> QED
          BY <3>1, <5>1
      <4> QED
        BY <1>1, <4>1, <4>2
    <3> QED
      BY <1>1, <3>1, <3>2
  <2>3. CASE f > 0 /\ L <= f
    <3>1. /\ Len(t) = s + 2 + f /\ t[s + 1] = "0" /\ t[s + 2] = "."
          /\ \A k \in 1 .. f - L : t[s + 2 + k] = "0"
          /\ \A k \in 1 .. L : t[s + 2 + (f - L) + k] = d[k]
      BY <2>3 DEF Layout
    <3>2. /\ Len(u) = s + 2 + f /\ u[s + 1] = "0" /\ u[s + 2] = "."
          /\ \A k \in 1 .. f - L : u[s + 2 + k] = "0"
          /\ \A k \in 1 .. L : u[s + 2 + (f - L) + k] = d[k]
      BY <2>3 DEF Layout
    <3> HIDE DEF L
    <3>3. ASSUME NEW k \in 1 .. Len(t) PROVE t[k] = u[k]
      <4>1. CASE k <= s
        BY <1>1, <2>1, <4>1
      <4>2. CASE k = s + 1 \/ k = s + 2
        BY <3>1, <3>2, <4>2
      <4>3. CASE k > s + 2 /\ k <= s + 2 + (f - L)
        <5>1. k - (s + 2) \in 1 .. f - L /\ s + 2 + (k - (s + 2)) = k
          BY <1>1, <3>1, <4>3
        <5> QED
          BY <3>1, <3>2, <5>1
      <4>4. CASE k > s + 2 + (f - L)
        <5> DEFINE j == k - (s + 2 + (f - L))
        <5>1. j \in 1 .. L /\ s + 2 + (f - L) + j = k
          BY <1>1, <2>3, <3>1, <4>4
        <5> HIDE DEF j
        <5> QED
          BY <3>1, <3>2, <5>1
      <4> QED
        BY <1>1, <2>3, <4>1, <4>2, <4>3, <4>4
    <3> QED
      BY <1>1, <3>1, <3>2, <3>3
  <2>4. CASE f > 0 /\ L > f
    <3>1. /\ Len(t) = s + L + 1 /\ t[s + (L - f) + 1] = "."
          /\ \A k \in 1 .. L - f : t[s + k] = d[k]
          /\ \A k \in (L - f) + 1 .. L : t[s + 1 + k] = d[k]
      BY <2>4 DEF Layout
    <3>2. /\ Len(u) = s + L + 1 /\ u[s + (L - f) + 1] = "."
          /\ \A k \in 1 .. L - f : u[s + k] = d[k]
          /\ \A k \in (L - f) + 1 .. L : u[s + 1 + k] = d[k]
      BY <2>4 DEF Layout
    <3> HIDE DEF L
    <3>3. ASSUME NEW k \in 1 .. Len(t) PROVE t[k] = u[k]
      <4>1. CASE k <= s
        BY <1>1, <2>1, <4>1
      <4>2. CASE k = s + (L - f) + 1
        BY <3>1, <3>2, <4>2
      <4>3. CASE k > s /\ k <= s + (L - f)
        <5>1. k - s \in 1 .. L - f /\ s + (k - s) = k
          BY <1>1, <4>3
        <5> QED
          BY <3>1, <3>2, <5>1
      <4>4. CASE k > s + (L - f) + 1
        <5> DEFINE j == k - (s + 1)
        <5>1. j \in (L - f) + 1 .. L /\ s + 1 + j = k
          BY <1>1, <2>4, <3>1, <4>4
        <5> HIDE DEF j
        <5> QED
          BY <3>1, <3>2, <5>1
      <4> QED
        BY <1>1, <2>4, <4>1, <4>2, <4>3, <4>4
    <3> QED
      BY <1>1, <3>1, <3>2, <3>3
  <2> QED
    BY <1>1, <2>2, <2>3, <2>4
<1> QED
  BY <1>1, <1>2, SeqEqual, Zenon

\* Concatenation is associative.
LEMMA Regrouped ==
    ASSUME NEW r \in Seq(TextChars), NEW t \in Seq(TextChars), NEW u \in Seq(TextChars)
    PROVE  (r \o t) \o u = r \o (t \o u)
<1> DEFINE T == TextChars
<1>1. r \in Seq(T) /\ t \in Seq(T) /\ u \in Seq(T)
  OBVIOUS
<1> HIDE DEF T
<1> QED
  BY <1>1

Regroups(r, t, u, w) == ((r \o t) \o u) \o w = r \o ((t \o u) \o w)

\* So is that of four texts.
LEMMA LongerRegrouped ==
    ASSUME NEW r \in Seq(TextChars), NEW t \in Seq(TextChars), NEW u \in Seq(TextChars),
           NEW w \in Seq(TextChars)
    PROVE  Regroups(r, t, u, w)
<1>1. (r \o t) \o u = r \o (t \o u)
  BY Regrouped
<1>2. Joins(t \o u, t, u)
  BY Joined
<1>3. t \o u \in Seq(TextChars)
  BY <1>2 DEF Joins
<1>4. (r \o (t \o u)) \o w = r \o ((t \o u) \o w)
  BY <1>3, Regrouped
<1> QED
  BY <1>1, <1>4 DEF Regroups

\* Decimal.appendText lays out the digits of the coefficient.
LEMMA DecimalLayout ==
    ASSUME NEW c \in Int, NEW f \in Nat
    PROVE  Layout(DecimalText(Dec(c, f)), SignOf(c), DigitsOf[Magnitude(c)], f)
<1> DEFINE d == DigitsOf[Magnitude(c)]
           L == Len(d)
           p == L - f
           m == Minus(c)
           w == DecimalText(Dec(c, f))
<1>1. d \in Seq(TextChars) /\ L \in Nat /\ L > 0 /\ L \in Nat \ {0} /\ (c = 0 => d = <<"0">>)
  <2>1. d \in Seq(TextChars) /\ L \in Nat \ {0} /\ (c = 0 => d = <<"0">>)
    BY MagnitudeDigits, Zenon
  <2>2. \A n \in Nat \ {0} : n \in Nat /\ n > 0
    OBVIOUS
  <2> HIDE DEF d
  <2> QED
    BY <2>1, <2>2
<1>2. w = IF c = 0 THEN IF f = 0 THEN <<"0">> ELSE <<"0", ".">> \o Zeros(f)
          ELSE IF f = 0 THEN m \o d
          ELSE IF p <= 0 THEN m \o <<"0", ".">> \o Zeros(-p) \o d
          ELSE m \o SubSeq(d, 1, p) \o <<".">> \o SubSeq(d, p + 1, L)
  BY DEF DecimalText, Dec
<1>3. m \in Seq(TextChars)
  BY MinusIs
<1> HIDE DEF d, w, m
<1>4. CASE c = 0
  <2>1. SignOf(c) = 0 /\ d = <<"0">>
    BY <1>1, <1>4 DEF SignOf
  <2>2. L = 1 /\ d[1] = "0"
    BY <2>1
  <2>3. CASE f = 0
    <3>1. w = d
      BY <1>2, <1>4, <2>1, <2>3
    <3>2. Len(w) = 0 + L /\ \A k \in 1 .. L : w[0 + k] = d[k]
      BY <1>1, <3>1
    <3>3. w \in Seq(TextChars)
      BY <1>1, <3>1
    <3> HIDE DEF L
    <3>4. Layout(w, 0, d, f)
      BY <2>3, <3>2, <3>3 DEF Layout, L
    <3> QED
      BY <2>1, <3>4 DEF w, d
  <2>4. CASE f > 0
    <3> DEFINE z == <<"0", ".">>
               zs == Zeros(f)
    <3>1. /\ zs \in Seq(TextChars) /\ Len(zs) = f /\ \A k \in 1 .. f : zs[k] = "0"
          /\ z \in Seq(TextChars) /\ Len(z) = 2 /\ z[1] = "0" /\ z[2] = "."
      BY ZerosAre
    <3>2. w = z \o zs
      BY <1>2, <1>4, <2>4
    <3> HIDE DEF z, zs
    <3>3. Joins(w, z, zs)
      BY <3>1, <3>2, Joined
    <3>4. /\ w \in Seq(TextChars) /\ Len(w) = 2 + f
          /\ \A k \in 1 .. 2 : w[k] = z[k]
          /\ \A k \in 1 .. f : w[2 + k] = zs[k]
      BY <3>1, <3>3 DEF Joins
    <3>5. w[0 + 1] = "0" /\ w[0 + 2] = "."
      BY <3>1, <3>4
    <3>6. \A k \in 1 .. f - 1 : w[0 + 2 + k] = "0"
      <4> TAKE k \in 1 .. f - 1
      <4>1. k \in 1 .. f /\ 0 + 2 + k = 2 + k
        OBVIOUS
      <4> QED
        BY <3>1, <3>4, <4>1
    <3>7. \A k \in 1 .. 1 : w[0 + 2 + (f - 1) + k] = d[k]
      <4>1. f \in 1 .. f /\ 0 + 2 + (f - 1) + 1 = 2 + f
        BY <2>4
      <4>2. w[2 + f] = "0"
        BY <3>1, <3>4, <4>1
      <4> QED
        BY <2>2, <4>1, <4>2
    <3>8. Len(w) = 0 + 2 + f /\ L <= f /\ ~(L > f)
      BY <2>2, <2>4, <3>4
    <3>9. Len(d) = 1
      BY <2>2
    <3>10. Layout(w, 0, d, f)
      BY <2>4, <3>4, <3>5, <3>6, <3>7, <3>8, <3>9 DEF Layout
    <3> QED
      BY <2>1, <3>10 DEF w, d
  <2> QED
    BY <2>3, <2>4
<1>5. CASE c # 0 /\ f = 0
  <2>1. w = m \o d
    BY <1>2, <1>5
  <2>2. Len(d) = 0 + Len(d) /\ \A k \in 1 .. Len(d) : d[0 + k] = d[k]
    BY <1>1
  <2>3. Layout(d, 0, d, f)
    BY <1>1, <1>5, <2>2 DEF Layout
  <2>4. Layout(m \o d, SignOf(c), d, f)
    BY <1>1, <2>3, LayoutOf DEF m
  <2> QED
    BY <2>1, <2>4 DEF w, d
<1>6. CASE c # 0 /\ f > 0 /\ L <= f
  <2> DEFINE z == <<"0", ".">>
             zs == Zeros(-p)
             n == -p
             g == (z \o zs) \o d
  <2>0. n \in Nat /\ n = f - L
    BY <1>1, <1>6
  <2>1. /\ zs \in Seq(TextChars) /\ Len(zs) = n /\ \A k \in 1 .. n : zs[k] = "0"
        /\ z \in Seq(TextChars) /\ Len(z) = 2 /\ z[1] = "0" /\ z[2] = "."
    <3> HIDE DEF n
    <3>1. /\ Zeros(n) \in Seq(TextChars) /\ Len(Zeros(n)) = n /\ \A k \in 1 .. n : Zeros(n)[k] = "0"
          /\ z \in Seq(TextChars) /\ Len(z) = 2 /\ z[1] = "0" /\ z[2] = "."
      BY <2>0, ZerosAre
    <3> QED
      BY <3>1 DEF n
  <2>2. w = ((m \o z) \o zs) \o d
    <3>1. p <= 0 /\ f # 0
      BY <1>1, <1>6
    <3> HIDE DEF p
    <3> QED
      BY <1>2, <1>6, <3>1
  <2> HIDE DEF z, zs, n
  <2>3. w = m \o g
    <3>1. m \in Seq(TextChars) /\ z \in Seq(TextChars) /\ zs \in Seq(TextChars) /\ d \in Seq(TextChars)
      BY <1>1, <1>3, <2>1
    <3>2. Regroups(m, z, zs, d)
      BY <3>1, LongerRegrouped
    <3> QED
      BY <2>2, <3>2 DEF Regroups
  <2> DEFINE v == z \o zs
  <2>4. Joins(v, z, zs)
    BY <2>1, Joined
  <2> HIDE DEF v
  <2>5. /\ v \in Seq(TextChars) /\ Len(v) = 2 + n
        /\ \A k \in 1 .. 2 : v[k] = z[k]
        /\ \A k \in 1 .. n : v[2 + k] = zs[k]
    BY <2>0, <2>1, <2>4 DEF Joins
  <2>6. Joins(g, v, d)
    BY <1>1, <2>5, Joined DEF v
  <2> HIDE DEF g
  <2>7. /\ g \in Seq(TextChars) /\ Len(g) = 2 + n + L
        /\ \A k \in 1 .. 2 + n : g[k] = v[k]
        /\ \A k \in 1 .. L : g[2 + n + k] = d[k]
    BY <2>0, <2>5, <2>6 DEF Joins
  <2> HIDE DEF L, p
  <2>8. Len(g) = 0 + 2 + f /\ g[0 + 1] = "0" /\ g[0 + 2] = "."
    <3>1. 1 \in 1 .. 2 + n /\ 2 \in 1 .. 2 + n
      BY <2>0
    <3> QED
      BY <1>1, <2>0, <2>1, <2>5, <2>7, <3>1
  <2>9. \A k \in 1 .. f - L : g[0 + 2 + k] = "0"
    <3> TAKE k \in 1 .. f - L
    <3>1. k \in 1 .. n /\ 2 + k \in 1 .. 2 + n /\ 0 + 2 + k = 2 + k
      BY <2>0
    <3> QED
      BY <2>1, <2>5, <2>7, <3>1
  <2>10. \A k \in 1 .. L : g[0 + 2 + (f - L) + k] = d[k]
    <3> TAKE k \in 1 .. L
    <3>1. 0 + 2 + (f - L) + k = 2 + n + k
      BY <1>1, <2>0
    <3> QED
      BY <2>7, <3>1
  <2>11. ~(L > f)
    BY <1>1, <1>6
  <2>12. Layout(g, 0, d, f)
    BY <1>6, <2>7, <2>8, <2>9, <2>10, <2>11 DEF Layout, L
  <2>13. Layout(m \o g, SignOf(c), d, f)
    BY <1>1, <2>7, <2>12, LayoutOf DEF m, L
  <2> QED
    BY <2>3, <2>13 DEF w, d
<1>7. CASE c # 0 /\ f > 0 /\ L > f
  <2> DEFINE h == SubSeq(d, 1, p)
             e == <<".">>
             q == SubSeq(d, p + 1, L)
             g == (h \o e) \o q
  <2>0. p \in Nat /\ p > 0 /\ p <= L /\ L - p = f
    BY <1>1, <1>7
  <2>1. h \in Seq(TextChars) /\ Len(h) = p /\ \A k \in 1 .. p : h[k] = d[k]
    <3> HIDE DEF p
    <3> QED
      BY <1>1, <2>0
  <2>2. q \in Seq(TextChars) /\ Len(q) = f /\ \A k \in 1 .. f : q[k] = d[p + k]
    <3> HIDE DEF p
    <3>1. q \in Seq(TextChars)
      BY <1>1, <2>0
    <3>2. Len(q) = f
      BY <1>1, <2>0
    <3>3. \A k \in 1 .. f : q[k] = d[p + k]
      BY <1>1, <2>0
    <3> QED
      BY <3>1, <3>2, <3>3
  <2>3. e \in Seq(TextChars) /\ Len(e) = 1 /\ e[1] = "."
    BY ZerosAre
  <2>4. w = ((m \o h) \o e) \o q
    <3>1. ~(p <= 0) /\ f # 0
      BY <2>0, <1>7
    <3> HIDE DEF p
    <3> QED
      BY <1>2, <1>7, <3>1
  <2> HIDE DEF h, e, q, p
  <2>5. w = m \o g
    <3>1. m \in Seq(TextChars) /\ h \in Seq(TextChars) /\ e \in Seq(TextChars) /\ q \in Seq(TextChars)
      BY <1>3, <2>1, <2>2, <2>3
    <3>2. Regroups(m, h, e, q)
      BY <3>1, LongerRegrouped
    <3> QED
      BY <2>4, <3>2 DEF Regroups
  <2> DEFINE v == h \o e
  <2>6. Joins(v, h, e)
    BY <2>1, <2>3, Joined
  <2> HIDE DEF v
  <2>7. /\ v \in Seq(TextChars) /\ Len(v) = p + 1
        /\ \A k \in 1 .. p : v[k] = h[k]
        /\ \A k \in 1 .. 1 : v[p + k] = e[k]
    BY <2>0, <2>1, <2>3, <2>6 DEF Joins
  <2>8. Joins(g, v, q)
    BY <2>2, <2>7, Joined DEF v
  <2> HIDE DEF g
  <2>9. /\ g \in Seq(TextChars) /\ Len(g) = p + 1 + f
        /\ \A k \in 1 .. p + 1 : g[k] = v[k]
        /\ \A k \in 1 .. f : g[p + 1 + k] = q[k]
    BY <2>0, <2>2, <2>7, <2>8 DEF Joins
  <2>10. p = L - f
    BY DEF p
  <2> HIDE DEF L
  <2>11. Len(g) = 0 + L + 1 /\ g[0 + (L - f) + 1] = "."
    <3>1. 1 \in 1 .. 1 /\ p + 1 \in 1 .. p + 1 /\ 0 + (L - f) + 1 = p + 1
      BY <2>0, <2>10
    <3>2. g[p + 1] = "."
      BY <2>3, <2>7, <2>9, <3>1
    <3> QED
      BY <1>1, <2>0, <2>9, <2>10, <3>1, <3>2
  <2>12. \A k \in 1 .. L - f : g[0 + k] = d[k]
    <3> TAKE k \in 1 .. L - f
    <3>1. k \in 1 .. p /\ k \in 1 .. p + 1 /\ 0 + k = k
      BY <2>0, <2>10
    <3> QED
      BY <2>1, <2>7, <2>9, <3>1
  <2>13. \A k \in (L - f) + 1 .. L : g[0 + 1 + k] = d[k]
    <3> TAKE k \in (L - f) + 1 .. L
    <3> DEFINE j == k - p
    <3>1. j \in 1 .. f /\ 0 + 1 + k = p + 1 + j /\ p + j = k
      BY <1>1, <2>0, <2>10
    <3> HIDE DEF j
    <3> QED
      BY <2>2, <2>9, <3>1
  <2>14. ~(L <= f)
    BY <1>1, <1>7
  <2>15. Layout(g, 0, d, f)
    <3>1. g \in Seq(TextChars) /\ f > 0
      BY <1>7, <2>9
    <3> QED
      BY <2>11, <2>12, <2>13, <2>14, <3>1 DEF Layout, L
  <2>16. Layout(m \o g, SignOf(c), d, f)
    BY <1>1, <2>9, <2>15, LayoutOf DEF m, L
  <2> QED
    BY <2>5, <2>16 DEF w, d
<1> QED
  BY <1>1, <1>4, <1>5, <1>6, <1>7

\* Fixed64.appendText, which moves the digits, lays them out the same way.
LEMMA FixedLayout ==
    ASSUME NEW x, x.units \in Int, x.scale \in Nat
    PROVE  Layout(FixedText(x), SignOf(x.units), DigitsOf[Magnitude(x.units)], x.scale)
<1> DEFINE c == x.units
           f == x.scale
           d == DigitsOf[Magnitude(c)]
           L == Len(d)
           p == L - f
           n == 2 - p
           sh == [k \in 1 .. L + n |-> IF k <= n THEN "0" ELSE d[k - n]]
           lead == [sh EXCEPT ![2] = "."]
           mid == [k \in 1 .. L + 1 |-> IF k <= p THEN d[k] ELSE IF k = p + 1 THEN "." ELSE d[k - 1]]
           moved == IF p <= 0 THEN lead ELSE mid
           w == FixedText(x)
<1>1. w = Minus(c) \o (IF f = 0 THEN d ELSE moved)
  BY DEF FixedText
<1>2. d \in Seq(TextChars) /\ L \in Nat /\ L > 0 /\ L \in Nat \ {0}
  <2>1. d \in Seq(TextChars) /\ L \in Nat \ {0}
    BY MagnitudeDigits, Zenon
  <2>2. \A k \in Nat \ {0} : k \in Nat /\ k > 0
    OBVIOUS
  <2> HIDE DEF d
  <2> QED
    BY <2>1, <2>2
<1>3. c \in Int /\ f \in Nat
  OBVIOUS
<1>4. "0" \in TextChars /\ "." \in TextChars
  BY DigitCharIs
<1> HIDE DEF c, f, d, w
<1>5. \A k \in 1 .. L : d[k] \in TextChars
  BY <1>2
<1>6. CASE f = 0
  <2>1. w = Minus(c) \o d
    BY <1>1, <1>6
  <2>2. Len(d) = 0 + Len(d) /\ \A k \in 1 .. Len(d) : d[0 + k] = d[k]
    BY <1>2
  <2>3. Layout(d, 0, d, f)
    BY <1>2, <1>6, <2>2 DEF Layout
  <2>4. Layout(Minus(c) \o d, SignOf(c), d, f)
    BY <1>2, <1>3, <2>3, LayoutOf
  <2> QED
    BY <2>1, <2>4 DEF w, d, c, f
<1>7. CASE f > 0 /\ L <= f
  <2>1. p <= 0 /\ n \in Nat /\ n = 2 + (f - L) /\ L + n = 2 + f /\ n >= 2 /\ f # 0
    BY <1>2, <1>3, <1>7
  <2>2. w = Minus(c) \o lead
    <3> HIDE DEF lead, mid, p
    <3> QED
      BY <1>1, <2>1
  <2> HIDE DEF L, p, n
  <2>3. \A k \in 1 .. L + n : sh[k] \in TextChars
    <3> SUFFICES ASSUME NEW k \in 1 .. L + n PROVE (IF k <= n THEN "0" ELSE d[k - n]) \in TextChars
      OBVIOUS
    <3>1. ~(k <= n) => k - n \in 1 .. L
      BY <1>2, <2>1
    <3> QED
      BY <1>4, <1>5, <3>1
  <2>4. sh \in [1 .. 2 + f -> TextChars]
    BY <2>1, <2>3
  <2>5. sh[1] = "0" /\ (\A k \in 3 .. n : sh[k] = "0") /\ \A k \in 1 .. L : sh[n + k] = d[k]
    <3>1. 1 \in 1 .. L + n /\ 1 <= n
      BY <1>2, <2>1
    <3>2. \A k \in 3 .. n : k \in 1 .. L + n /\ k <= n
      BY <1>2, <2>1
    <3>3. \A k \in 1 .. L : n + k \in 1 .. L + n /\ ~(n + k <= n) /\ (n + k) - n = k
      BY <1>2, <2>1
    <3> QED
      BY <3>1, <3>2, <3>3
  <2> HIDE DEF sh
  <2>6. lead \in [1 .. 2 + f -> TextChars]
    BY <1>4, <2>4
  <2>7. lead[2] = "." /\ \A k \in 1 .. 2 + f : k # 2 => lead[k] = sh[k]
    <3>1. 2 \in 1 .. 2 + f
      BY <1>3
    <3> QED
      BY <2>4, <3>1
  <2> HIDE DEF lead
  <2>8. lead \in Seq(TextChars) /\ Len(lead) = 2 + f
    BY <1>3, <2>6
  <2>9. Len(lead) = 0 + 2 + f /\ lead[0 + 1] = "0" /\ lead[0 + 2] = "."
    <3>1. 1 \in 1 .. 2 + f
      BY <1>3
    <3> QED
      BY <2>5, <2>7, <2>8, <3>1
  <2>10. \A k \in 1 .. f - L : lead[0 + 2 + k] = "0"
    <3> TAKE k \in 1 .. f - L
    <3>1. 2 + k \in 3 .. n /\ 2 + k \in 1 .. 2 + f /\ 0 + 2 + k = 2 + k /\ 2 + k # 2
      BY <1>2, <1>3, <2>1
    <3> QED
      BY <2>5, <2>7, <3>1
  <2>11. \A k \in 1 .. L : lead[0 + 2 + (f - L) + k] = d[k]
    <3> TAKE k \in 1 .. L
    <3>1. 0 + 2 + (f - L) + k = n + k /\ n + k \in 1 .. 2 + f /\ n + k # 2
      BY <1>2, <1>3, <2>1
    <3> QED
      BY <2>5, <2>7, <3>1
  <2>12. ~(L > f)
    BY <1>2, <1>3, <1>7
  <2>13. Layout(lead, 0, d, f)
    BY <1>7, <2>8, <2>9, <2>10, <2>11, <2>12 DEF Layout, L
  <2>14. Layout(Minus(c) \o lead, SignOf(c), d, f)
    BY <1>2, <1>3, <2>8, <2>13, LayoutOf DEF L
  <2> QED
    BY <2>2, <2>14 DEF w, d, c, f
<1>8. CASE f > 0 /\ L > f
  <2>1. ~(p <= 0) /\ p \in Nat /\ p > 0 /\ p < L /\ p = L - f /\ f # 0
    BY <1>2, <1>3, <1>8
  <2>2. w = Minus(c) \o mid
    <3> HIDE DEF lead, mid, p
    <3> QED
      BY <1>1, <2>1
  <2> HIDE DEF L, p
  <2>3. \A k \in 1 .. L + 1 : mid[k] \in TextChars
    <3> SUFFICES ASSUME NEW k \in 1 .. L + 1
                 PROVE  (IF k <= p THEN d[k] ELSE IF k = p + 1 THEN "." ELSE d[k - 1]) \in TextChars
      OBVIOUS
    <3>1. (k <= p => k \in 1 .. L) /\ (~(k <= p) /\ k # p + 1 => k - 1 \in 1 .. L)
      BY <1>2, <2>1
    <3> QED
      BY <1>4, <1>5, <3>1
  <2>4. mid \in [1 .. L + 1 -> TextChars]
    BY <2>3
  <2>5. /\ mid[p + 1] = "."
        /\ \A k \in 1 .. p : mid[k] = d[k]
        /\ \A k \in p + 1 .. L : mid[1 + k] = d[k]
    <3>1. p + 1 \in 1 .. L + 1 /\ ~(p + 1 <= p)
      BY <1>2, <2>1
    <3>2. \A k \in 1 .. p : k \in 1 .. L + 1 /\ k <= p
      BY <1>2, <2>1
    <3>3. \A k \in p + 1 .. L : 1 + k \in 1 .. L + 1 /\ ~(1 + k <= p) /\ 1 + k # p + 1 /\ (1 + k) - 1 = k
      BY <1>2, <2>1
    <3> QED
      BY <3>1, <3>2, <3>3
  <2> HIDE DEF mid
  <2>6. mid \in Seq(TextChars) /\ Len(mid) = L + 1
    BY <1>2, <2>4
  <2>7. Len(mid) = 0 + L + 1 /\ mid[0 + (L - f) + 1] = "."
    <3>1. 0 + (L - f) + 1 = p + 1 /\ 0 + L + 1 = L + 1
      BY <1>2, <2>1
    <3> QED
      BY <2>5, <2>6, <3>1
  <2>8. \A k \in 1 .. L - f : mid[0 + k] = d[k]
    <3> TAKE k \in 1 .. L - f
    <3>1. k \in 1 .. p /\ 0 + k = k
      BY <2>1
    <3> QED
      BY <2>5, <3>1
  <2>9. \A k \in (L - f) + 1 .. L : mid[0 + 1 + k] = d[k]
    <3> TAKE k \in (L - f) + 1 .. L
    <3>1. k \in p + 1 .. L /\ 0 + 1 + k = 1 + k
      BY <1>2, <1>3, <2>1
    <3> QED
      BY <2>5, <3>1
  <2>10. ~(L <= f)
    BY <1>2, <1>3, <1>8
  <2>11. Layout(mid, 0, d, f)
    BY <1>8, <2>6, <2>7, <2>8, <2>9, <2>10 DEF Layout, L
  <2>12. Layout(Minus(c) \o mid, SignOf(c), d, f)
    BY <1>2, <1>3, <2>6, <2>11, LayoutOf DEF L
  <2> QED
    BY <2>2, <2>12 DEF w, d, c, f
<1> QED
  BY <1>2, <1>3, <1>6, <1>7, <1>8

\* Where the integer part of a text ends
PointOf(t, f) == IF f = 0 THEN Len(t) ELSE Len(t) - f - 1

\* The digits of a text laid out are those it was given.
LEMMA LayoutNumber ==
    ASSUME NEW t, NEW s \in {0, 1}, NEW d, NEW f \in Nat, Len(d) \in Nat, Len(d) > 0,
           Layout(t, s, d, f)
    PROVE  Number(t, s + 1, Len(t)) = Number(d, 1, Len(d))
<1> DEFINE L == Len(d)
           a == s + 1
           one == 1
           zero == 0
<1>1. a \in Nat /\ a > 0 /\ one \in Nat /\ one > 0 /\ zero \in Nat /\ zero + 1 >= one /\ zero < one
      /\ s \in Nat /\ s < a /\ a <= s + 1 /\ zero = 0 /\ one = 1 /\ L \in Nat /\ L > 0
  OBVIOUS
<1>2. Number(d, one, zero) = 0
  <2> HIDE DEF one, zero
  <2> QED
    BY <1>1, NumberStep
<1>3. Number(t, a, s) = 0
  <2> HIDE DEF a
  <2> QED
    BY <1>1, NumberStep
<1>4. SameNumber(d, one, zero, t, a, s)
  BY <1>2, <1>3 DEF SameNumber
<1>5. CASE f = 0
  <2>1. Len(t) = s + L /\ \A k \in 1 .. L : t[s + k] = d[k]
    BY <1>5 DEF Layout
  <2>2. SameChars(d, zero, t, s, L)
    BY <2>1 DEF SameChars
  <2> HIDE DEF one, zero, a, L
  <2>3. Number(d, one, zero + L) = Number(t, a, s + L)
    BY <1>1, <1>4, <2>2, NumberAfter
  <2>4. zero + L = L
    BY <1>1
  <2>5. Number(d, one, L) = Number(t, a, Len(t))
    BY <2>1, <2>3, <2>4
  <2> QED
    BY <2>5 DEF one, a, L
<1>6. CASE f > 0 /\ L <= f
  <2>1. /\ Len(t) = s + 2 + f /\ t[s + 1] = "0" /\ t[s + 2] = "."
        /\ \A k \in 1 .. f - L : t[s + 2 + k] = "0"
        /\ \A k \in 1 .. L : t[s + 2 + (f - L) + k] = d[k]
    BY <1>6 DEF Layout
  <2> HIDE DEF one, zero, a, L
  <2> DEFINE n == 2 + (f - L)
             j == s + n
  <2>2. n \in Nat /\ j \in Nat /\ j = s + 2 + (f - L) /\ j + L = Len(t) /\ a <= j + 1 /\ n = 2 + (f - L)
    BY <1>1, <1>6, <2>1
  <2> HIDE DEF n
  <2>3. \A k \in 1 .. n : t[s + k] \in {"0", "."}
    <3> TAKE k \in 1 .. n
    <3>1. k = 1 \/ k = 2 \/ (k - 2 \in 1 .. f - L /\ s + 2 + (k - 2) = s + k)
      BY <1>1, <2>2
    <3> QED
      BY <2>1, <3>1
  <2>4. Number(t, a, j) = 0
    <3>1. OnlyZeros(t, s, n)
      BY <2>3 DEF OnlyZeros
    <3>2. a \in Nat /\ a > 0 /\ s \in Nat /\ a <= s + 1 /\ n \in Nat
      BY <1>1, <2>2
    <3> QED
      BY <1>3, <3>1, <3>2, NothingBefore
  <2> HIDE DEF j
  <2>5. SameNumber(d, one, zero, t, a, j)
    BY <1>1, <1>2, <2>2, <2>4 DEF SameNumber
  <2>6. SameChars(d, zero, t, j, L)
    BY <1>1, <2>1, <2>2 DEF SameChars
  <2>7. Number(d, one, zero + L) = Number(t, a, j + L)
    BY <1>1, <2>2, <2>5, <2>6, NumberAfter
  <2>8. zero + L = L
    BY <1>1
  <2>9. Number(d, one, L) = Number(t, a, Len(t))
    BY <2>2, <2>7, <2>8
  <2> QED
    BY <2>9 DEF one, a, L
<1>7. CASE f > 0 /\ L > f
  <2>1. /\ Len(t) = s + L + 1 /\ t[s + (L - f) + 1] = "."
        /\ \A k \in 1 .. L - f : t[s + k] = d[k]
        /\ \A k \in (L - f) + 1 .. L : t[s + 1 + k] = d[k]
    BY <1>7 DEF Layout
  <2> HIDE DEF one, zero, a, L
  <2> DEFINE p == L - f
             x == s + p
             j == x + 1
  <2>2. p \in Nat /\ p = L - f /\ p + f = L /\ x \in Nat /\ j \in Nat /\ j + f = Len(t)
        /\ x + 1 >= a /\ a <= j + 1 /\ one <= p + 1 /\ zero + p = p /\ x = s + p /\ j = x + 1
    BY <1>1, <1>7, <2>1
  <2> HIDE DEF p
  <2>3. SameChars(d, zero, t, s, p)
    BY <1>1, <2>1, <2>2 DEF SameChars
  <2>4. Number(d, one, zero + p) = Number(t, a, s + p)
    BY <1>1, <1>4, <2>2, <2>3, NumberAfter
  <2> HIDE DEF x
  <2>5. t[x + 1] = "." /\ ~IsDigit(".")
    BY <2>1, <2>2, DigitsAreReserved
  <2>6. Number(t, a, x + 1) = Number(t, a, x)
    <3>1. a \in Nat /\ a > 0 /\ x \in Nat /\ x + 1 >= a
      BY <1>1, <2>2
    <3>2. Number(t, a, x + 1) = IF IsDigit(t[x + 1]) THEN 10 * Number(t, a, x) + DigitValue[t[x + 1]]
                                ELSE Number(t, a, x)
      BY <3>1, NumberStep
    <3> QED
      BY <2>5, <3>2
  <2> HIDE DEF j
  <2>7. SameNumber(d, one, p, t, a, j)
    BY <1>1, <2>2, <2>4, <2>6 DEF SameNumber
  <2>8. SameChars(d, p, t, j, f)
    <3> SUFFICES ASSUME NEW k \in 1 .. f PROVE d[p + k] = t[j + k]
      BY DEF SameChars
    <3>1. p + k \in (L - f) + 1 .. L /\ s + 1 + (p + k) = j + k
      BY <1>1, <2>2
    <3> QED
      BY <2>1, <3>1
  <2>9. Number(d, one, p + f) = Number(t, a, j + f)
    BY <1>1, <2>2, <2>7, <2>8, NumberAfter
  <2>10. Number(d, one, L) = Number(t, a, Len(t))
    BY <2>2, <2>9
  <2> QED
    BY <2>10 DEF one, a, L
<1> QED
  BY <1>1, <1>5, <1>6, <1>7

\* The integer part and the fraction of a text laid out are digits.
LEMMA LayoutParts ==
    ASSUME NEW t, NEW s \in {0, 1}, NEW d, NEW f \in Nat, Len(d) \in Nat, Len(d) > 0,
           \A k \in 1 .. Len(d) : IsDigit(d[k]), Layout(t, s, d, f)
    PROVE  /\ Len(t) \in Nat /\ PointOf(t, f) \in Nat /\ s < PointOf(t, f)
           /\ \A k \in s + 1 .. PointOf(t, f) : IsDigit(t[k])
           /\ f = 0 => PointOf(t, f) = Len(t)
           /\ f > 0 => /\ PointOf(t, f) + 1 + f = Len(t) /\ t[PointOf(t, f) + 1] = "."
                       /\ \A k \in PointOf(t, f) + 2 .. Len(t) : IsDigit(t[k])
<1> DEFINE L == Len(d)
           b == PointOf(t, f)
<1>1. L \in Nat /\ L > 0 /\ s \in Nat /\ (\A k \in 1 .. L : IsDigit(d[k])) /\ IsDigit("0")
  BY DigitCharIs
<1>2. CASE f = 0
  <2>1. Len(t) = s + L /\ \A k \in 1 .. L : t[s + k] = d[k]
    BY <1>2 DEF Layout
  <2>2. b = Len(t)
    BY <1>2 DEF PointOf
  <2> HIDE DEF L, b
  <2>3. b \in Nat /\ s < b
    BY <1>1, <2>1, <2>2
  <2>4. ASSUME NEW k \in s + 1 .. b PROVE IsDigit(t[k])
    <3>1. k - s \in 1 .. L /\ s + (k - s) = k
      BY <1>1, <2>1, <2>2
    <3> QED
      BY <1>1, <2>1, <3>1
  <2> QED
    BY <1>2, <2>2, <2>3, <2>4 DEF b
<1>3. CASE f > 0 /\ L <= f
  <2>1. /\ Len(t) = s + 2 + f /\ t[s + 1] = "0" /\ t[s + 2] = "."
        /\ \A k \in 1 .. f - L : t[s + 2 + k] = "0"
        /\ \A k \in 1 .. L : t[s + 2 + (f - L) + k] = d[k]
    BY <1>3 DEF Layout
  <2>2. b = s + 1 /\ b \in Nat /\ s < b /\ b + 1 + f = Len(t) /\ b + 1 = s + 2 /\ f # 0 /\ Len(t) \in Nat
    BY <1>1, <1>3, <2>1 DEF PointOf
  <2> HIDE DEF L, b
  <2>3. ASSUME NEW k \in b + 2 .. Len(t) PROVE IsDigit(t[k])
    <3>1. CASE k <= s + 2 + (f - L)
      <4>1. k - (s + 2) \in 1 .. f - L /\ s + 2 + (k - (s + 2)) = k
        BY <1>1, <1>3, <2>2, <3>1
      <4> QED
        BY <1>1, <2>1, <4>1
    <3>2. CASE k > s + 2 + (f - L)
      <4> DEFINE j == k - (s + 2 + (f - L))
      <4>1. j \in 1 .. L /\ s + 2 + (f - L) + j = k
        BY <1>1, <1>3, <2>1, <2>2, <3>2
      <4> HIDE DEF j
      <4> QED
        BY <1>1, <2>1, <4>1
    <3> QED
      BY <1>1, <1>3, <3>1, <3>2
  <2>4. ASSUME NEW k \in s + 1 .. b PROVE IsDigit(t[k])
    BY <1>1, <2>1, <2>2
  <2>5. t[b + 1] = "."
    BY <2>1, <2>2
  <2> QED
    BY <1>3, <2>2, <2>3, <2>4, <2>5 DEF b
<1>4. CASE f > 0 /\ L > f
  <2>1. /\ Len(t) = s + L + 1 /\ t[s + (L - f) + 1] = "."
        /\ \A k \in 1 .. L - f : t[s + k] = d[k]
        /\ \A k \in (L - f) + 1 .. L : t[s + 1 + k] = d[k]
    BY <1>4 DEF Layout
  <2>2. b = s + (L - f) /\ b \in Nat /\ s < b /\ b + 1 + f = Len(t) /\ f # 0 /\ Len(t) \in Nat
    BY <1>1, <1>4, <2>1 DEF PointOf
  <2> HIDE DEF L, b
  <2>3. ASSUME NEW k \in b + 2 .. Len(t) PROVE IsDigit(t[k])
    <3> DEFINE j == k - (s + 1)
    <3>1. j \in (L - f) + 1 .. L /\ j \in 1 .. L /\ s + 1 + j = k
      BY <1>1, <1>4, <2>1, <2>2
    <3> HIDE DEF j
    <3> QED
      BY <1>1, <2>1, <3>1
  <2>4. ASSUME NEW k \in s + 1 .. b PROVE IsDigit(t[k])
    <3>1. k - s \in 1 .. L - f /\ k - s \in 1 .. L /\ s + (k - s) = k
      BY <1>1, <1>4, <2>2
    <3> QED
      BY <1>1, <2>1, <3>1
  <2>5. t[b + 1] = "."
    BY <2>1, <2>2
  <2> QED
    BY <1>4, <2>2, <2>3, <2>4, <2>5 DEF b
<1> QED
  BY <1>1, <1>2, <1>3, <1>4

\* A text laid out with the digits of a number and its scale writes the number.
LEMMA LayoutReads ==
    ASSUME DecimalSeparator = ".", NEW c \in Int, NEW f \in Nat, NEW t,
           Layout(t, SignOf(c), DigitsOf[Magnitude(c)], f)
    PROVE  ReadsAs(t, Dec(c, f))
<1> DEFINE d == DigitsOf[Magnitude(c)]
           s == SignOf(c)
           b == PointOf(t, f)
           w == Len(t)
           r == [a |-> s, b |-> b, c |-> w, e |-> w]
<1>1. /\ Len(d) \in Nat /\ Len(d) > 0 /\ Magnitude(c) \in Nat
      /\ \A k \in 1 .. Len(d) : IsDigit(d[k])
      /\ Number(d, 1, Len(d)) = Magnitude(c)
  <2>1. /\ Len(d) \in Nat \ {0} /\ Magnitude(c) \in Nat
        /\ \A k \in 1 .. Len(d) : IsDigit(d[k])
        /\ Number(d, 1, Len(d)) = Magnitude(c)
    BY MagnitudeDigits, Zenon
  <2>2. \A k \in Nat \ {0} : k \in Nat /\ k > 0
    OBVIOUS
  <2> HIDE DEF d
  <2> QED
    BY <2>1, <2>2
<1>2. s \in {0, 1} /\ (s = 1 <=> c < 0)
  BY DEF SignOf
<1>3. Layout(t, s, d, f)
  OBVIOUS
<1>4. s = 1 => t[1] = "-"
  BY <1>3 DEF Layout
<1> HIDE DEF d, s
<1>5. Number(t, s + 1, w) = Magnitude(c)
  <2>1. Number(t, s + 1, Len(t)) = Number(d, 1, Len(d))
    BY <1>1, <1>2, <1>3, LayoutNumber
  <2> QED
    BY <1>1, <2>1
<1>6. /\ w \in Nat /\ b \in Nat /\ s < b
      /\ \A k \in s + 1 .. b : IsDigit(t[k])
      /\ f = 0 => b = w
      /\ f > 0 => b + 1 + f = w /\ t[b + 1] = "." /\ \A k \in b + 2 .. w : IsDigit(t[k])
  BY <1>1, <1>2, <1>3, LayoutParts
<1> HIDE DEF b, w
<1>7. r.a = s /\ r.b = b /\ r.c = w /\ r.e = w
  OBVIOUS
<1>8. s \in Nat /\ b <= w /\ s <= b /\ w <= w /\ w > s
  BY <1>2, <1>6
<1>9. r \in Readings(t)
  <2>1. r \in [a : 0 .. 1, b : 0 .. Len(t), c : 0 .. Len(t), e : 0 .. Len(t)]
    <3>1. s \in 0 .. 1 /\ b \in 0 .. w /\ w \in 0 .. w
      BY <1>2, <1>6, <1>8
    <3>2. w = Len(t)
      BY DEF w
    <3> QED
      BY <3>1, <3>2
  <2>2. \/ s = 0
        \/ s = 1 /\ (t[1] = "-" \/ (opts.plus /\ t[1] = "+") \/ (opts.unicodeMinus /\ t[1] = "minus"))
    BY <1>2, <1>4
  <2>3. WellGrouped(t, s + 1, b)
    <3>1. s + 1 \in Nat
      BY <1>8
    <3> QED
      BY <1>6, <3>1, DigitsAreGrouped
  <2>4. w = b \/ (w >= b + 2 /\ t[b + 1] = DecimalSeparator /\ Digits(t, b + 2, w) = b + 2 .. w)
    <3>1. CASE f = 0
      BY <1>6, <3>1
    <3>2. CASE f > 0
      <4>1. w >= b + 2 /\ b + 2 \in Nat
        BY <1>6, <3>2
      <4>2. Digits(t, b + 2, w) = b + 2 .. w
        BY <1>6, <3>2, <4>1, DigitsAreGrouped
      <4> QED
        BY <1>6, <3>2, <4>1, <4>2
    <3> QED
      BY <3>1, <3>2
  <2>5. IsNumeral(t, s, b, w)
    BY <1>8, <2>2, <2>3, <2>4 DEF IsNumeral
  <2>6. HasExponent(t, w, w)
    BY DEF HasExponent, w
  <2> HIDE DEF r
  <2> QED
    BY <1>7, <1>8, <2>1, <2>5, <2>6 DEF Readings
<1>10. Number(t, w + 1, w) = 0
  <2>1. w + 1 \in Nat /\ w + 1 > 0 /\ w < w + 1
    BY <1>6
  <2> QED
    BY <1>6, <2>1, NumberStep
<1>11. Reading(t, r).coef = c /\ Reading(t, r).scale = f
  <2> HIDE DEF r
  <2>1. (IF r.a = 1 /\ t[1] # "+" THEN -Magnitude(c) ELSE Magnitude(c)) = c
    <3>1. r.a = 1 => t[1] # "+"
      BY <1>4, <1>7
    <3> QED
      BY <1>2, <1>7, <3>1 DEF Magnitude
  <2>2. (IF r.c = r.b THEN 0 ELSE r.c - r.b - 1) = f
    BY <1>6, <1>7
  <2>3. ~(r.e > r.c) /\ f - 0 = f
    BY <1>6, <1>7
  <2>4. Number(t, r.a + 1, r.c) = Magnitude(c) /\ Number(t, r.e + 1, Len(t)) = 0
    BY <1>5, <1>7, <1>10 DEF w
  <2> QED
    BY <2>1, <2>2, <2>3, <2>4 DEF Reading
<1>12. Decoded(Reading(t, r)) = Dec(c, f)
  <2> DEFINE n == Reading(t, r)
  <2>1. n.coef = c /\ n.scale = f /\ ~(f < 0)
    BY <1>11
  <2> HIDE DEF n
  <2> QED
    BY <2>1 DEF Decoded, n
<1> HIDE DEF r
<1> QED
  BY <1>9, <1>12 DEF ReadsAs

\* What the callers of Parse see besides: no number with an error, and the default
\* separator; and the scale of what ParseFixed64 returns is a number
ResultInv ==
    /\ fn # "ParseWithOptions" => opts \in {DefaultOptions, FlexibleOptions}
    /\ err # "nil" => result = ZeroValue
    /\ scale \in Int /\ fixed.scale \in Int

\* Every step leaves the call alone, and its answer is an error without a number or a
\* number without an error.
LEMMA AnswersStay ==
    ASSUME Next
    PROVE  /\ fn' = fn /\ opts' = opts
           /\ err' = "nil" \/ result' = ZeroValue \/ (err' = err /\ result' = result)
<1>1. ASSUME NEW answer, Return(answer), answer.err = "nil" \/ answer.val = ZeroValue
      PROVE  fn' = fn /\ opts' = opts /\ (err' = "nil" \/ result' = ZeroValue)
  BY <1>1 DEF Return, input
<1>2. \A e, x : Fail(e).val = ZeroValue /\ Ok(x).err = "nil"
  BY DEF Fail, Ok
<1>3. ASSUME NEW e, Return(Fail(e))
      PROVE  fn' = fn /\ opts' = opts /\ (err' = "nil" \/ result' = ZeroValue)
  BY <1>1, <1>2, <1>3
<1>4. ASSUME NEW x, Return(Ok(x))
      PROVE  fn' = fn /\ opts' = opts /\ (err' = "nil" \/ result' = ZeroValue)
  BY <1>1, <1>2, <1>4
<1>5. ASSUME GiveUp PROVE fn' = fn /\ opts' = opts /\ err' = err /\ result' = result
  BY <1>5 DEF GiveUp, input
<1>6. CASE SimpleStart \/ SimplePoint \/ SimpleEnd
  BY <1>3, <1>4, <1>6 DEF SimpleStart, SimplePoint, SimpleEnd, Reject, input
<1>7. CASE SimpleDigit \/ SimpleOther
  BY <1>5, <1>7 DEF SimpleDigit, SimpleOther, input
<1>8. CASE CheckOptions \/ ParseSign \/ IntegerDigit \/ IntegerSeparator
  BY <1>3, <1>8 DEF CheckOptions, ParseSign, IntegerDigit, IntegerSeparator, Reject, input
<1>9. CASE IntegerEnd \/ FractionDigit \/ FractionEnd \/ ParseExponent
  BY <1>3, <1>9 DEF IntegerEnd, FractionDigit, FractionEnd, ParseExponent, Reject, input
<1>10. CASE ExponentDigit \/ ExponentEnd \/ Finish
  BY <1>3, <1>4, <1>10 DEF ExponentDigit, ExponentEnd, Finish, Reject, input
<1> QED
  BY <1>6, <1>7, <1>8, <1>9, <1>10 DEF Next

\* An error comes without a number, whichever function is called.
LEMMA ResultKept == FixedSpec => []ResultInv
<1>1. FixedInit => ResultInv
  <2> SUFFICES ASSUME FixedInit PROVE ResultInv
    OBVIOUS
  <2>1. fixed.scale = 0 /\ Init
    BY DEF FixedInit, F!Fixed
  <2>2. scale \in Int
    <3>1. scale \in FixedScales \/ scale = 0
      BY DEF FixedInit
    <3>2. FixedScales \subseteq Int
      BY FixedParserAssumption
    <3>3. CASE scale \in FixedScales
      BY <3>2, <3>3
    <3>4. CASE scale = 0
      BY <3>4
    <3> QED
      BY <3>1, <3>3, <3>4
  <2>3. err = "nil" /\ (fn # "ParseWithOptions" => opts \in {DefaultOptions, FlexibleOptions})
    BY <2>1 DEF Init
  <2> QED
    BY <2>1, <2>2, <2>3 DEF ResultInv
<1> DEFINE Scaled(answer) == answer.val.scale \in {0, scale}
<1>3. (\A e : Scaled(F!Fail(e))) /\ \A u : Scaled(F!Ok(F!Fixed(u, scale)))
  BY DEF F!Fail, F!Ok, F!Fixed
<1>4. \A d, m : Scaled(F!Fixed64FromDecimal(d, scale, m))
  <2>1. \A U : Scaled(F!OrOverflow(U, scale))
    BY <1>3 DEF F!OrOverflow
  <2> HIDE DEF Scaled
  <2> QED
    BY <1>3, <2>1 DEF F!Fixed64FromDecimal
<1>2. ResultInv /\ [FixedNext]_allVars => ResultInv'
  <2> SUFFICES ASSUME ResultInv, [FixedNext]_allVars PROVE ResultInv'
    OBVIOUS
  <2>1. CASE Parsing
    <3>1. /\ fn' = fn /\ opts' = opts
          /\ err' = "nil" \/ result' = ZeroValue \/ (err' = err /\ result' = result)
      BY <2>1, AnswersStay DEF Parsing
    <3>2. scale' = scale /\ fixed' = fixed
      BY <2>1 DEF Parsing, fixedVars, arguments
    <3> QED
      BY <3>1, <3>2 DEF ResultInv
  <2>2. ASSUME UNCHANGED vars, NEW answer, FixedReturn(answer), Scaled(answer) PROVE ResultInv'
    <3>1. scale' = scale /\ fixed' = answer.val
      BY <2>2 DEF FixedReturn, arguments
    <3> QED
      BY <2>2, <3>1 DEF ResultInv, vars, input
  <2>3. ASSUME UNCHANGED vars, scale' = scale, fixed' = fixed PROVE ResultInv'
    BY <2>3 DEF ResultInv, vars, input
  <2>4. ASSUME UNCHANGED vars, NEW st, NEW locals, Continue(st, locals) PROVE ResultInv'
    BY <2>3, <2>4 DEF Continue, arguments
  <2>5. ASSUME UNCHANGED vars, NEW e, FixedReturn(F!Fail(e)) PROVE ResultInv'
    BY <1>3, <2>2, <2>5
  <2> HIDE DEF Scaled
  <2>6. CASE FixedArguments
    BY <2>4, <2>5, <2>6 DEF FixedArguments, FixedReject
  <2>7. CASE FixedPoint \/ FixedOther \/ FixedDigit \/ FixedDiscard
    BY <2>4, <2>5, <2>7 DEF FixedPoint, FixedOther, FixedDigit, FixedDiscard, InLoop, FixedReject, FallBack
  <2>8. CASE FixedLoopEnd \/ FixedPad
    BY <2>4, <2>5, <2>8 DEF FixedLoopEnd, FixedPad, FixedReject, FallBack
  <2>9. CASE FixedRound
    <3>1. UNCHANGED vars /\ \E u : FixedReturn(F!Fail("ErrOverflow")) \/ FixedReturn(F!Ok(F!Fixed(u, scale)))
      BY <2>9 DEF FixedRound
    <3> QED
      BY <1>3, <2>2, <3>1
  <2>10. CASE ConvertParsed
    <3>1. /\ UNCHANGED vars
          /\ FixedReturn(F!Fixed64FromDecimal(result, scale, mode)) \/ FixedReturn(F!Fail(err))
      BY <2>10 DEF ConvertParsed
    <3> QED
      BY <1>3, <1>4, <2>2, <3>1
  <2>11. CASE UNCHANGED allVars
    BY <2>3, <2>11 DEF allVars, fixedVars, arguments
  <2> QED
    BY <2>1, <2>6, <2>7, <2>8, <2>9, <2>10, <2>11 DEF FixedNext
<1> QED
  BY <1>1, <1>2, PTL DEF FixedSpec

\* The canonical text of every value, read back, is the value again with its scale, and a
\* Fixed64 is written like the same Decimal.  (decimal.go appendText, fixed64.go appendText)
THEOREM CanonicalTextReadsBack == FixedSpec => []TextReadsBack
<1>1. FixedInv /\ ResultInv => TextReadsBack
  <2> SUFFICES ASSUME FixedInv, ResultInv PROVE TextReadsBack
    OBVIOUS
  <2>1. opts \in {DefaultOptions, FlexibleOptions} => DecimalSeparator = "."
    <3>1. DefaultOptions.decimalSeparator = "." /\ DefaultOptions \in OptionsType
      BY ParserAssumption
    <3>2. FlexibleOptions.decimalSeparator = "."
      BY <3>1 DEF FlexibleOptions, OptionsType
    <3> QED
      BY <3>1, <3>2 DEF DecimalSeparator
  <2>2. ASSUME NEW c \in Int, NEW f \in Nat, DecimalSeparator = "."
        PROVE  ReadsAs(DecimalText(Dec(c, f)), Dec(c, f))
    <3> DEFINE t == DecimalText(Dec(c, f))
    <3>1. Layout(t, SignOf(c), DigitsOf[Magnitude(c)], f)
      BY DecimalLayout
    <3> HIDE DEF t
    <3>2. ReadsAs(t, Dec(c, f))
      BY <2>2, <3>1, LayoutReads
    <3> QED
      BY <3>2 DEF t
  <2>3. ASSUME stage = "direct", fn # "ParseWithOptions", pc = "done"
        PROVE  ReadsAs(DecimalText(result), result)
    <3>1. DecimalSeparator = "."
      BY <2>1, <2>3 DEF ResultInv
    <3>2. \E c \in Int : \E f \in Nat : result = Dec(c, f)
      <4>1. CASE err # "nil"
        <5>1. result = Dec(0, 0) /\ 0 \in Int /\ 0 \in Nat
          BY <4>1 DEF ResultInv, ZeroValue
        <5> QED
          BY <5>1
      <4>2. CASE err = "nil"
        <5>1. PICK n \in Written : FitsScale(n) /\ result = Decoded(n)
          BY <2>3, <4>2 DEF FixedInv, ParserInv, ParsedRight, ParseIsMeaning
        <5>2. n \in Numerals /\ text \in Seq(STRING)
          BY <5>1 DEF Written, Numerals, FixedInv, ParserInv, TypeOK
        <5>3. \E c \in Int : \E f \in 0 .. MaxScale : Decoded(n) = Dec(c, f)
          BY <5>1, <5>2, DecodedIs
        <5>4. \A f \in 0 .. MaxScale : f \in Nat
          BY MaxScaleAssumption
        <5> QED
          BY <5>1, <5>3, <5>4
      <4> QED
        BY <4>1, <4>2
    <3>3. PICK c \in Int : \E f \in Nat : result = Dec(c, f)
      BY <3>2
    <3>4. PICK f \in Nat : result = Dec(c, f)
      BY <3>3
    <3>5. ReadsAs(DecimalText(Dec(c, f)), Dec(c, f))
      BY <2>2, <3>1
    <3> QED
      BY <3>4, <3>5
  <2>4. ASSUME stage = "returned"
        PROVE  /\ FixedText(fixed) = DecimalText(F!Decimal(fixed))
               /\ ReadsAs(FixedText(fixed), F!Decimal(fixed))
    <3> DEFINE c == fixed.units
               f == fixed.scale
    <3>1. DecimalSeparator = "."
      BY <2>1, <2>4 DEF FixedInv
    <3>2. c \in Int /\ f \in Nat
      <4>1. c \in F!Int64 /\ F!ValidFixed64Scale(f) /\ f \in Int
        BY DEF FixedInv, ResultInv
      <4> HIDE DEF c, f
      <4> QED
        BY <4>1, FixedParserAssumption DEF F!Int64, F!MinInt64, F!ValidFixed64Scale
    <3>3. F!Decimal(fixed) = Dec(c, f)
      <4>1. ~(f < 0)
        BY <3>2
      <4> QED
        BY <4>1 DEF F!Decimal, F!D!New, F!D!Ok, F!D!Dec, Dec
    <3>4. Layout(FixedText(fixed), SignOf(c), DigitsOf[Magnitude(c)], f)
      BY <3>2, FixedLayout
    <3> HIDE DEF c, f
    <3>5. Layout(DecimalText(Dec(c, f)), SignOf(c), DigitsOf[Magnitude(c)], f)
      BY <3>2, DecimalLayout
    <3>6. Len(DigitsOf[Magnitude(c)]) \in Nat
      <4>1. Len(DigitsOf[Magnitude(c)]) \in Nat \ {0}
        BY <3>2, MagnitudeDigits, Zenon
      <4> QED
        BY <4>1
    <3> DEFINE t == FixedText(fixed)
               u == DecimalText(Dec(c, f))
               d == DigitsOf[Magnitude(c)]
               s == SignOf(c)
    <3>7. t = u
      <4>1. Layout(t, s, d, f) /\ Layout(u, s, d, f) /\ Len(d) \in Nat /\ f \in Nat
        BY <3>2, <3>4, <3>5, <3>6
      <4> HIDE DEF t, u, d, s
      <4> QED
        BY <4>1, LayoutUnique
    <3>8. ReadsAs(u, Dec(c, f))
      BY <2>2, <3>1, <3>2
    <3> QED
      BY <3>3, <3>7, <3>8
  <2> QED
    BY <2>3, <2>4 DEF TextReadsBack
<1> QED
  BY <1>1, FixedKept, ResultKept, PTL
=============================================================================
