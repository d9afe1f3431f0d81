--------------------------- MODULE RoundingProofs ---------------------------
(***************************************************************************)
(* For every dividend, every nonzero divisor and every mode, roundQuotient *)
(* returns the value the reference definition of the mode asks for, and    *)
(* that value is the only one.  Then the number theory the components'     *)
(* proofs share: sums, powers, decimal grids, greatest common divisors and *)
(* the fractions that end in base ten.                                     *)
(***************************************************************************)
EXTENDS Formatting, WellFoundedInduction, TLAPS

\* Floor division by a positive divisor: \div and % of the TLA+ integers.
LEMMA FloorDivision ==
    ASSUME NEW m \in Int, NEW d \in Int, d > 0
    PROVE  /\ m \div d \in Int
           /\ m = (m \div d) * d + (m % d)
           /\ m % d \in Int
           /\ 0 <= m % d
           /\ m % d < d
           /\ m >= 0 => m \div d >= 0
<1>1. m \div d \in Int /\ m % d \in 0 .. (d - 1)
  OBVIOUS
<1>2. m = (m \div d) * d + (m % d)
  OBVIOUS
<1>3. m >= 0 => m \div d >= 0
  OBVIOUS
<1> QED
  BY <1>1, <1>2, <1>3

\* Truncated division by a positive divisor: the remainder is smaller than the
\* divisor and never has the sign opposite to the dividend's.  This is what
\* math/big.QuoRem and Go's / and % promise their callers.
LEMMA TruncatedDivision ==
    ASSUME NEW num \in Int, NEW den \in Int, den > 0
    PROVE  /\ Quo(num, den) \in Int
           /\ Rem(num, den) \in Int
           /\ num = Quo(num, den) * den + Rem(num, den)
           /\ Magnitude(Rem(num, den)) < den
           /\ num >= 0 => Rem(num, den) >= 0 /\ Quo(num, den) >= 0
           /\ num <= 0 => Rem(num, den) <= 0 /\ Quo(num, den) <= 0
<1> DEFINE m == Magnitude(num)
           k == m \div den
<1>1. /\ m \in Nat
      /\ Magnitude(den) = den
  BY DEF Magnitude
<1>2. /\ k \in Int /\ k >= 0
      /\ k * den <= m
      /\ m < k * den + den
  <2>1. m \in Int /\ m >= 0
    BY <1>1
  <2> HIDE DEF m
  <2>2. k * den \in Int /\ k \in Int
    BY <2>1, FloorDivision
  <2> QED
    BY <2>1, <2>2, FloorDivision
<1>3. CASE num >= 0
  <2>1. Quo(num, den) = k /\ m = num
    BY <1>1, <1>3 DEF Quo, Magnitude
  <2>2. k * den \in Int
    BY <1>2
  <2> HIDE DEF k
  <2> QED
    BY <1>2, <1>3, <2>1, <2>2 DEF Rem, Magnitude
<1>4. CASE num < 0
  <2>1. Quo(num, den) = -k /\ m = -num
    BY <1>1, <1>4 DEF Quo, Magnitude
  <2>2. k * den \in Int /\ (-k) * den = -(k * den)
    BY <1>2
  <2> HIDE DEF k
  <2> QED
    BY <1>2, <1>4, <2>1, <2>2 DEF Rem, Magnitude
<1> QED
  BY <1>3, <1>4


\* The neighbours of a multiple, and the parity that alternates between them.
LEMMA Neighbours ==
    ASSUME NEW quo \in Int, NEW den \in Int, den > 0
    PROVE  /\ quo * den \in Int
           /\ (quo + 1) * den = quo * den + den
           /\ (quo - 1) * den = quo * den - den
           /\ quo >= 0 => quo * den >= 0
           /\ quo <= 0 => quo * den <= 0
           /\ quo % 2 = 0 \/ quo % 2 = 1
           /\ quo % 2 = 1 => (quo + 1) % 2 = 0 /\ (quo - 1) % 2 = 0
<1>1. quo * den \in Int /\ (quo + 1) * den = quo * den + den /\ (quo - 1) * den = quo * den - den
  OBVIOUS
<1>2. quo >= 0 => quo * den >= 0
  OBVIOUS
<1>3. quo <= 0 => quo * den <= 0
  OBVIOUS
<1>4. quo % 2 = 0 \/ quo % 2 = 1
  OBVIOUS
<1>5. quo % 2 = 1 => (quo + 1) % 2 = 0 /\ (quo - 1) % 2 = 0
  OBVIOUS
<1> QED
  BY <1>1, <1>2, <1>3, <1>4, <1>5

\* One rounding step, with the products of the quotient named: keeping the
\* truncated quotient, or moving one away from zero when RoundsAway says so,
\* satisfies the reference definition.
LEMMA RoundingStep ==
    ASSUME NEW num \in Int, NEW den \in Int, den > 0, NEW mode \in RoundingModes,
           NEW quo \in Int, NEW rem \in Int, NEW multiple \in Int, NEW sign \in {1, -1},
           num = multiple + rem, Magnitude(rem) < den, rem # 0,
           sign = 1 => num > 0 /\ rem > 0 /\ multiple >= 0,
           sign = -1 => num < 0 /\ rem < 0 /\ multiple <= 0,
           quo % 2 = 0 \/ quo % 2 = 1,
           quo % 2 = 1 => (quo + sign) % 2 = 0
    PROVE  /\ RoundsAway(quo, rem, den, sign, mode)
                => IsRoundedTo(multiple + sign * den, quo + sign, num, den, mode)
           /\ ~RoundsAway(quo, rem, den, sign, mode)
                => IsRoundedTo(multiple, quo, num, den, mode)
<1> USE DEF IsRoundedTo, Magnitude, RoundsAway, RoundingModes, NearestModes, DirectedModes
<1>1. CASE sign = 1
  <2>1. RoundsAway(quo, rem, den, 1, mode) => IsRoundedTo(multiple + den, quo + 1, num, den, mode)
    BY <1>1
  <2>2. ~RoundsAway(quo, rem, den, 1, mode) => IsRoundedTo(multiple, quo, num, den, mode)
    BY <1>1
  <2> QED
    BY <1>1, <2>1, <2>2
<1>2. CASE sign = -1
  <2>1. RoundsAway(quo, rem, den, -1, mode) => IsRoundedTo(multiple - den, quo - 1, num, den, mode)
    BY <1>2
  <2>2. ~RoundsAway(quo, rem, den, -1, mode) => IsRoundedTo(multiple, quo, num, den, mode)
    BY <1>2
  <2> QED
    BY <1>2, <2>1, <2>2
<1> QED
  BY <1>1, <1>2

\* decimal.go roundQuotient: whatever the signs of dividend and divisor, the
\* result is the rounding of num/den that the mode's definition names.  Every
\* rounded operation of Decimal, Money and (through its fallback) Fixed64 rests
\* on this.
THEOREM RoundQuotientIsRounded ==
    ASSUME NEW num \in Int, NEW den \in Int \ {0}, NEW mode \in RoundingModes
    PROVE  /\ RoundQuotient(num, den, mode) \in Int
           /\ IsRounded(RoundQuotient(num, den, mode), num, den, mode)
<1>1. ASSUME NEW n \in Int, NEW d \in Int, d > 0
      PROVE  /\ RoundQuotient(n, d, mode) \in Int
             /\ IsRoundedTo(RoundQuotient(n, d, mode) * d, RoundQuotient(n, d, mode), n, d, mode)
  <2> DEFINE quo == Quo(n, d)
             rem == Rem(n, d)
             q   == RoundQuotient(n, d, mode)
  <2>1. /\ quo \in Int /\ rem \in Int
        /\ n = quo * d + rem
        /\ Magnitude(rem) < d
        /\ n >= 0 => rem >= 0 /\ quo >= 0
        /\ n <= 0 => rem <= 0 /\ quo <= 0
    BY <1>1, TruncatedDivision
  <2>2. q = IF rem # 0 /\ RoundsAway(quo, rem, d, Sign(n), mode) THEN quo + Sign(n) ELSE quo
    BY <1>1 DEF RoundQuotient, Magnitude
  <2> HIDE DEF quo, rem, q
  <2>3. CASE rem = 0
    <3>1. q = quo /\ quo * d \in Int /\ n = quo * d
      BY <1>1, <2>1, <2>2, <2>3, Neighbours
    <3>2. IsRoundedTo(n, quo, n, d, mode)
      BY <1>1 DEF IsRoundedTo, Magnitude
    <3> QED
      BY <2>1, <3>1, <3>2 DEF q
  <2>4. CASE rem # 0
    <3>1. /\ Sign(n) \in {1, -1}
          /\ Sign(n) = 1 => n > 0 /\ rem > 0 /\ quo >= 0
          /\ Sign(n) = -1 => n < 0 /\ rem < 0 /\ quo <= 0
      BY <2>1, <2>4 DEF Sign, Magnitude
    <3>2. /\ quo * d \in Int
          /\ (quo + 1) * d = quo * d + d
          /\ (quo - 1) * d = quo * d - d
          /\ quo >= 0 => quo * d >= 0
          /\ quo <= 0 => quo * d <= 0
          /\ quo % 2 = 0 \/ quo % 2 = 1
          /\ quo % 2 = 1 => (quo + 1) % 2 = 0 /\ (quo - 1) % 2 = 0
      BY <1>1, <2>1, Neighbours
    <3>3. quo % 2 = 1 => (quo + Sign(n)) % 2 = 0
      BY <2>1, <3>1, <3>2
    <3>4. /\ RoundsAway(quo, rem, d, Sign(n), mode)
               => IsRoundedTo(quo * d + Sign(n) * d, quo + Sign(n), n, d, mode)
          /\ ~RoundsAway(quo, rem, d, Sign(n), mode)
               => IsRoundedTo(quo * d, quo, n, d, mode)
      BY <1>1, <2>1, <2>4, <3>1, <3>2, <3>3, RoundingStep
    <3>5. (quo + Sign(n)) * d = quo * d + Sign(n) * d
      BY <1>1, <2>1, <3>1
    <3>6. CASE RoundsAway(quo, rem, d, Sign(n), mode)
      BY <2>1, <2>2, <2>4, <3>1, <3>4, <3>5, <3>6 DEF q
    <3>7. CASE ~RoundsAway(quo, rem, d, Sign(n), mode)
      BY <2>1, <2>2, <2>4, <3>4, <3>7 DEF q
    <3> QED
      BY <3>6, <3>7
  <2> QED
    BY <2>3, <2>4
<1>2. CASE den > 0
  BY <1>1, <1>2 DEF IsRounded
<1>3. CASE den < 0
  <2>1. -num \in Int /\ -den \in Int /\ -den > 0
    BY <1>3
  <2>2. RoundQuotient(num, den, mode) = RoundQuotient(-num, -den, mode)
    BY <1>3 DEF RoundQuotient, Magnitude
  <2> QED
    BY <1>1, <1>3, <2>1, <2>2 DEF IsRounded
<1> QED
  BY <1>2, <1>3

\* Of two multiples of den, the higher one is never the rounding of the smaller of two
\* numbers when the lower one is the rounding of the larger.
LEMMA OrderedMultiples ==
    ASSUME NEW small \in Int, NEW large \in Int, small <= large, NEW den \in Int, den > 0,
           NEW mode \in RoundingModes, NEW p \in Int, NEW q \in Int, p < q,
           IsRoundedTo(p * den, p, large, den, mode),
           IsRoundedTo(q * den, q, small, den, mode)
    PROVE  FALSE
<1> DEFINE low  == p * den
           high == q * den
<1>1. low \in Int /\ high \in Int /\ high >= low + den
  <2>1. p + 1 <= q /\ q \in Int /\ p + 1 \in Int
    OBVIOUS
  <2>2. (p + 1) * den <= q * den
    BY <2>1
  <2>3. (p + 1) * den = p * den + den
    BY Neighbours
  <2> QED
    BY <2>2, <2>3
<1>2. p >= 0 => low >= 0
  BY Neighbours
<1>3. q <= 0 => high <= 0
  BY Neighbours
<1>4. /\ IsRoundedTo(low, p, large, den, mode)
      /\ IsRoundedTo(high, q, small, den, mode)
  OBVIOUS
<1> HIDE DEF low, high
<1>5. low < small /\ large < high /\ high < low + den + den
  BY <1>1, <1>4 DEF IsRoundedTo, Magnitude
<1>6. q = p + 1
  <2>1. CASE q >= p + 2
    <3>1. (p + 2) * den <= q * den
      BY <2>1
    <3>2. (p + 2) * den = p * den + den + den
      OBVIOUS
    <3> QED
      BY <1>1, <1>5, <3>1, <3>2 DEF low, high
  <2> QED
    BY <2>1
<1>7. low >= 0 \/ high <= 0
  BY <1>2, <1>3, <1>6
<1>8. mode \notin DirectedModes
  BY <1>1, <1>4, <1>5, <1>7 DEF IsRoundedTo, Magnitude, DirectedModes
<1>9. mode \in NearestModes
  BY <1>8 DEF RoundingModes
<1>10. small = large /\ 2 * (large - low) = den /\ 2 * (high - small) = den
  BY <1>1, <1>4, <1>5, <1>9 DEF IsRoundedTo, Magnitude
<1>11. mode = "ToNearestEven"
  BY <1>1, <1>4, <1>5, <1>7, <1>9, <1>10 DEF IsRoundedTo, Magnitude, NearestModes
<1>12. p % 2 = 0 /\ q % 2 = 0
  BY <1>1, <1>4, <1>5, <1>10, <1>11 DEF IsRoundedTo, Magnitude
<1> QED
  BY <1>12, <1>6

\* The reference definition of a mode leaves no choice: a quotient has one
\* rounding, so whoever rounds to it rounds as roundQuotient does.
THEOREM RoundingIsUnique ==
    ASSUME NEW num \in Int, NEW den \in Int \ {0}, NEW mode \in RoundingModes,
           NEW p \in Int, NEW q \in Int,
           IsRounded(p, num, den, mode), IsRounded(q, num, den, mode)
    PROVE  p = q
<1>1. CASE den > 0
  BY <1>1, OrderedMultiples DEF IsRounded
<1>2. CASE den < 0
  <2>1. -num \in Int /\ -den \in Int /\ -den > 0
    BY <1>2
  <2> QED
    BY <1>2, <2>1, OrderedMultiples DEF IsRounded
<1> QED
  BY <1>1, <1>2

-----------------------------------------------------------------------------
(* Induction, as the least counterexample: a set of naturals that is not   *)
(* empty has a least element.                                              *)

LEMMA LeastNumber ==
    ASSUME NEW S \in SUBSET Nat, S # {}
    PROVE  \E n \in S : \A m \in S : n <= m
<1> DEFINE less == {p \in Nat \X Nat : p[1] < p[2]}
<1>1. IsWellFoundedOn(less, Nat)
  <2>1. OpToRel(<, Nat) = less
    BY DEF OpToRel
  <2> QED
    BY <2>1, NatLessThanWellFounded
<1>2. \A m, n \in Nat : <<m, n>> \notin less => n <= m
  <2>1. \A m, n \in Nat : <<m, n>> \in Nat \X Nat /\ <<m, n>>[1] = m /\ <<m, n>>[2] = n
    OBVIOUS
  <2>2. \A m, n \in Nat : m < n => <<m, n>> \in less
    BY <2>1
  <2> HIDE DEF less
  <2> QED
    BY <2>2
<1> HIDE DEF less
<1>3. \E n \in S : \A m \in S : ~ (<<m, n>> \in less)
  <2>1. S \subseteq Nat
    OBVIOUS
  <2> QED
    BY <1>1, <2>1, WFMin
<1> QED
  BY <1>2, <1>3

\* What holds of zero, and of the successor of each number it holds of, holds of all.
LEMMA Induction ==
    ASSUME NEW S \in SUBSET Nat, 0 \in S, \A n \in S : n + 1 \in S
    PROVE  S = Nat
<1> DEFINE T == Nat \ S
<1>1. SUFFICES ASSUME T # {} PROVE FALSE
  OBVIOUS
<1>2. PICK n \in T : \A m \in T : n <= m
  BY <1>1, LeastNumber
<1>3. n # 0 /\ n - 1 \in Nat /\ n - 1 \notin T
  BY <1>2
<1> QED
  BY <1>2, <1>3

-----------------------------------------------------------------------------
(* Recursive functions of a natural number: tlapm knows f[k] == ... f[k - 1] *)
(* only as a choice, which means something once there is such a function.    *)

\* f starts with the first value and takes the step to each number from the one before
Recursive(f, S, first, step) ==
    f \in [Nat -> S] /\ f[0] = first /\ \A k \in Nat : f[k + 1] = step[k + 1][f[k]]

\* A first value and a step to each next one define a function of the naturals.
LEMMA Recursion ==
    ASSUME NEW S, NEW first \in S, NEW step \in [Nat -> [S -> S]]
    PROVE  \E f : Recursive(f, S, first, step)
<1> DEFINE Starts(f, n) == f[0] = first /\ \A k \in Nat : k < n => f[k + 1] = step[k + 1][f[k]]
           Up(n) == {f \in [0 .. n -> S] : Starts(f, n)}
           Agree(k) == \A m, n \in Nat : \A f \in Up(m) : \A g \in Up(n) :
                         k <= m /\ k <= n => f[k] = g[k]
           Same == {k \in Nat : Agree(k)}
           Some == {n \in Nat : Up(n) # {}}
\* Two of them agree as far as both go
<1>1. Same = Nat
  <2>1. 0 \in Same
    OBVIOUS
  <2>2. ASSUME NEW k \in Same PROVE k + 1 \in Same
    <3>1. k \in Nat /\ k + 1 \in Nat
      OBVIOUS
    <3>2. ASSUME NEW m \in Nat, NEW n \in Nat, NEW f \in Up(m), NEW g \in Up(n),
                 k + 1 <= m, k + 1 <= n
          PROVE  f[k + 1] = g[k + 1]
      <4>1. k <= m /\ k <= n /\ k < m /\ k < n
        BY <3>1, <3>2
      <4>2. f[k] = g[k]
        BY <4>1
      <4>3. f[k + 1] = step[k + 1][f[k]] /\ g[k + 1] = step[k + 1][g[k]]
        BY <3>1, <4>1
      <4> QED
        BY <4>2, <4>3
    <3>3. Agree(k + 1)
      <4> HIDE DEF Up
      <4> QED
        BY <3>2
    <3> HIDE DEF Agree
    <3> QED
      BY <3>1, <3>3
  <2> HIDE DEF Same
  <2>3. Same \subseteq Nat
    BY DEF Same
  <2> QED
    BY <2>1, <2>2, <2>3, Induction
\* Each number has one that goes so far
<1>2. Some = Nat
  <2>1. 0 \in Some
    <3> DEFINE f == [k \in 0 .. 0 |-> first]
    <3>1. f \in Up(0)
      OBVIOUS
    <3> QED
      BY <3>1
  <2>2. ASSUME NEW n \in Some PROVE n + 1 \in Some
    <3>1. PICK f \in Up(n) : TRUE
      OBVIOUS
    <3> DEFINE g == [k \in 0 .. (n + 1) |-> IF k = n + 1 THEN step[n + 1][f[n]] ELSE f[k]]
    <3>2. n \in Nat /\ f \in [0 .. n -> S] /\ Starts(f, n) /\ f[n] \in S
      BY <3>1
    <3>3. step[n + 1][f[n]] \in S
      BY <3>2
    <3>4. g \in [0 .. (n + 1) -> S]
      BY <3>2, <3>3
    <3>5. \A k \in 0 .. n : g[k] = f[k]
      BY <3>2
    <3>6. g[n + 1] = step[n + 1][g[n]]
      <4>1. n + 1 \in 0 .. (n + 1) /\ n \in 0 .. n
        BY <3>2
      <4>2. g[n + 1] = step[n + 1][f[n]]
        BY <4>1
      <4> QED
        BY <3>5, <4>1, <4>2
    <3>7. g[0] = first
      BY <3>2, <3>5
    <3> HIDE DEF g
    <3>8. ASSUME NEW k \in Nat, k < n + 1 PROVE g[k + 1] = step[k + 1][g[k]]
      <4>1. CASE k = n
        BY <3>6, <4>1
      <4>2. CASE k < n
        <5>1. k \in 0 .. n /\ k + 1 \in 0 .. n /\ f[k + 1] = step[k + 1][f[k]]
          BY <3>2, <4>2
        <5> QED
          BY <3>5, <5>1
      <4> QED
        BY <3>2, <3>8, <4>1, <4>2
    <3>9. g \in Up(n + 1)
      BY <3>4, <3>7, <3>8
    <3> QED
      BY <3>2, <3>9
  <2> HIDE DEF Some
  <2>3. Some \subseteq Nat
    BY DEF Some
  <2> QED
    BY <2>1, <2>2, <2>3, Induction
<1> DEFINE chosen(n) == CHOOSE f \in Up(n) : TRUE
           whole == [n \in Nat |-> chosen(n)[n]]
<1>3. ASSUME NEW n \in Nat PROVE chosen(n) \in Up(n)
  BY <1>2
<1>4. ASSUME NEW k \in Nat PROVE Agree(k)
  BY <1>1
<1> HIDE DEF chosen, Same, Some
<1>5. whole \in [Nat -> S]
  BY <1>3
<1>6. whole[0] = first
  BY <1>3
<1>7. ASSUME NEW k \in Nat PROVE whole[k + 1] = step[k + 1][whole[k]]
  <2>1. chosen(k) \in Up(k) /\ chosen(k + 1) \in Up(k + 1) /\ k + 1 \in Nat
    BY <1>3
  <2>2. k <= k /\ k <= k + 1 /\ k < k + 1
    OBVIOUS
  <2>3. chosen(k)[k] = chosen(k + 1)[k]
    BY <1>4, <2>1, <2>2
  <2>4. chosen(k + 1)[k + 1] = step[k + 1][chosen(k + 1)[k]]
    BY <2>1, <2>2
  <2> QED
    BY <2>1, <2>3, <2>4
<1> QED
  BY <1>5, <1>6, <1>7 DEF Recursive

-----------------------------------------------------------------------------
(* Totals of sequences. *)

\* f is the running total of s
RunningTotal(f, s) ==
    f \in [0 .. Len(s) -> Int] /\ f[0] = 0 /\ \A k \in 1 .. Len(s) : f[k] = f[k - 1] + s[k]

\* Every sequence of integers has running totals.
LEMMA RunningTotalExists ==
    ASSUME NEW s \in Seq(Int)
    PROVE  \E f : RunningTotal(f, s)
<1> DEFINE n == Len(s)
           step == [k \in Nat |-> [x \in Int |-> IF k \in 1 .. n THEN x + s[k] ELSE x]]
<1>1. n \in Nat /\ \A k \in 1 .. n : s[k] \in Int
  OBVIOUS
<1>2. 0 \in Int /\ step \in [Nat -> [Int -> Int]]
  BY <1>1
<1>3. \A k \in 1 .. n : \A x \in Int : step[k][x] = x + s[k]
  BY <1>1
<1> HIDE DEF step, n
<1>4. PICK f : Recursive(f, Int, 0, step)
  BY <1>2, Recursion
<1>5. f \in [Nat -> Int] /\ f[0] = 0 /\ \A k \in Nat : f[k + 1] = step[k + 1][f[k]]
  BY <1>4 DEF Recursive
<1> DEFINE g == [k \in 0 .. n |-> f[k]]
<1>6. ASSUME NEW k \in 1 .. n PROVE g[k] = g[k - 1] + s[k]
  <2>1. k - 1 \in Nat /\ (k - 1) + 1 = k /\ k \in 0 .. n /\ k - 1 \in 0 .. n
    BY <1>1
  <2>2. f[k] = step[k][f[k - 1]] /\ f[k - 1] \in Int
    BY <1>5, <2>1
  <2>3. f[k] = f[k - 1] + s[k]
    BY <1>3, <2>2
  <2> QED
    BY <2>1, <2>3
<1>7. g \in [0 .. n -> Int] /\ g[0] = 0
  BY <1>1, <1>5
<1> QED
  BY <1>6, <1>7 DEF RunningTotal, n

\* It has only one.
LEMMA RunningTotalIsUnique ==
    ASSUME NEW s \in Seq(Int), NEW f, NEW g, RunningTotal(f, s), RunningTotal(g, s)
    PROVE  f = g
<1> DEFINE n == Len(s)
           S == {k \in Nat : k <= n => f[k] = g[k]}
<1>1. n \in Nat /\ f \in [0 .. n -> Int] /\ g \in [0 .. n -> Int] /\ f[0] = 0 /\ g[0] = 0
  BY DEF RunningTotal
<1>2. ASSUME NEW k \in 1 .. n PROVE f[k] = f[k - 1] + s[k] /\ g[k] = g[k - 1] + s[k]
  BY DEF RunningTotal
<1>3. 0 \in S
  BY <1>1
<1>4. ASSUME NEW k \in S PROVE k + 1 \in S
  <2>1. k \in Nat /\ k + 1 \in Nat
    OBVIOUS
  <2>2. ASSUME k + 1 <= n PROVE f[k + 1] = g[k + 1]
    <3>1. k + 1 \in 1 .. n /\ (k + 1) - 1 = k /\ k <= n
      BY <1>1, <2>1, <2>2
    <3>2. f[k] = g[k]
      BY <3>1
    <3> QED
      BY <1>2, <3>1, <3>2
  <2> QED
    BY <2>1, <2>2
<1>5. S = Nat
  <2> HIDE DEF S
  <2>1. S \subseteq Nat
    BY DEF S
  <2> QED
    BY <1>3, <1>4, <2>1, Induction
<1>6. \A k \in 0 .. n : f[k] = g[k]
  BY <1>1, <1>5
<1> QED
  BY <1>1, <1>6

\* The total of a sequence is the last of its running totals.
LEMMA TotalIsLast ==
    ASSUME NEW s \in Seq(Int), NEW f, RunningTotal(f, s)
    PROVE  Total(s) = f[Len(s)] /\ Total(s) \in Int
<1> DEFINE n == Len(s)
           sum == CHOOSE g : g = [k \in 0 .. n |-> IF k = 0 THEN 0 ELSE g[k - 1] + s[k]]
<1>1. n \in Nat /\ f \in [0 .. n -> Int] /\ f[0] = 0 /\ \A k \in 1 .. n : f[k] = f[k - 1] + s[k]
  BY DEF RunningTotal
<1>2. f = [k \in 0 .. n |-> IF k = 0 THEN 0 ELSE f[k - 1] + s[k]]
  <2>1. \A k \in 0 .. n : k # 0 => k \in 1 .. n
    BY <1>1
  <2> QED
    BY <1>1, <2>1
<1> HIDE DEF n
<1>3. sum = [k \in 0 .. n |-> IF k = 0 THEN 0 ELSE sum[k - 1] + s[k]]
  BY <1>2
<1>4. Total(s) = sum[n]
  BY DEF Total, n
<1> HIDE DEF sum
<1> DEFINE S == {k \in Nat : k <= n => sum[k] = f[k]}
<1>5. 0 \in S
  BY <1>1, <1>3
<1>6. ASSUME NEW k \in S PROVE k + 1 \in S
  <2>1. k \in Nat /\ k + 1 \in Nat
    OBVIOUS
  <2>2. ASSUME k + 1 <= n PROVE sum[k + 1] = f[k + 1]
    <3>1. k + 1 \in 1 .. n /\ k + 1 \in 0 .. n /\ (k + 1) - 1 = k /\ k <= n /\ k + 1 # 0
      BY <1>1, <2>1, <2>2
    <3>2. sum[k] = f[k]
      BY <3>1
    <3>3. sum[k + 1] = sum[(k + 1) - 1] + s[k + 1]
      BY <1>3, <3>1
    <3>4. f[k + 1] = f[(k + 1) - 1] + s[k + 1]
      BY <1>1, <3>1
    <3> QED
      BY <3>1, <3>2, <3>3, <3>4
  <2> QED
    BY <2>1, <2>2
<1>7. S = Nat
  <2> HIDE DEF S
  <2>1. S \subseteq Nat
    BY DEF S
  <2> QED
    BY <1>5, <1>6, <2>1, Induction
<1>8. sum[n] = f[n]
  <2>1. n \in S
    <3> HIDE DEF S
    <3> QED
      BY <1>1, <1>7
  <2> QED
    BY <1>1, <2>1
<1> QED
  BY <1>1, <1>4, <1>8 DEF n

\* What the empty sequence, a sequence with one number more, and a sequence with one
\* number changed add up to.
LEMMA TotalEmpty == Total(<<>>) = 0
<1> DEFINE f == [k \in 0 .. 0 |-> 0]
<1>1. <<>> \in Seq(Int) /\ Len(<<>>) = 0
  OBVIOUS
<1>2. RunningTotal(f, <<>>)
  BY <1>1 DEF RunningTotal
<1>3. f[0] = 0
  OBVIOUS
<1> HIDE DEF f
<1> QED
  BY <1>1, <1>2, <1>3, TotalIsLast

LEMMA TotalAppend ==
    ASSUME NEW s \in Seq(Int), NEW x \in Int
    PROVE  Total(Append(s, x)) = Total(s) + x
<1> DEFINE n == Len(s)
           t == Append(s, x)
<1>1. n \in Nat /\ t \in Seq(Int) /\ Len(t) = n + 1 /\ t[n + 1] = x /\ \A k \in 1 .. n : t[k] = s[k]
  OBVIOUS
<1>2. PICK f : RunningTotal(f, s)
  BY RunningTotalExists
<1>3. f \in [0 .. n -> Int] /\ f[0] = 0 /\ \A k \in 1 .. n : f[k] = f[k - 1] + s[k]
  BY <1>2 DEF RunningTotal
<1> HIDE DEF t, n
<1> DEFINE g == [k \in 0 .. (n + 1) |-> IF k = n + 1 THEN f[n] + x ELSE f[k]]
<1>4. g \in [0 .. (n + 1) -> Int] /\ g[0] = 0 /\ g[n + 1] = f[n] + x
  BY <1>1, <1>3
<1>5. \A k \in 0 .. n : g[k] = f[k]
  BY <1>1
<1> HIDE DEF g
<1>6. ASSUME NEW k \in 1 .. (n + 1) PROVE g[k] = g[k - 1] + t[k]
  <2>1. CASE k = n + 1
    <3>1. k - 1 = n /\ n \in 0 .. n
      BY <1>1, <2>1
    <3> QED
      BY <1>1, <1>4, <1>5, <2>1, <3>1
  <2>2. CASE k # n + 1
    <3>1. k \in 1 .. n /\ k \in 0 .. n /\ k - 1 \in 0 .. n
      BY <1>1, <2>2
    <3> QED
      BY <1>1, <1>3, <1>5, <3>1
  <2> QED
    BY <2>1, <2>2
<1>7. RunningTotal(g, t)
  BY <1>1, <1>4, <1>6 DEF RunningTotal
<1>8. Total(t) = g[n + 1] /\ Total(s) = f[n]
  BY <1>1, <1>2, <1>7, TotalIsLast DEF n
<1> QED
  BY <1>4, <1>8 DEF t

LEMMA TotalChange ==
    ASSUME NEW s \in Seq(Int), NEW j \in 1 .. Len(s), NEW x \in Int
    PROVE  Total([s EXCEPT ![j] = s[j] + x]) = Total(s) + x
<1> DEFINE n == Len(s)
           t == [s EXCEPT ![j] = s[j] + x]
<1>1. /\ n \in Nat /\ j \in 1 .. n /\ t \in Seq(Int) /\ Len(t) = n
      /\ t[j] = s[j] + x /\ \A k \in 1 .. n : k # j => t[k] = s[k]
      /\ \A k \in 1 .. n : s[k] \in Int
  OBVIOUS
<1>2. PICK f : RunningTotal(f, s)
  BY RunningTotalExists
<1>3. f \in [0 .. n -> Int] /\ f[0] = 0 /\ \A k \in 1 .. n : f[k] = f[k - 1] + s[k]
  BY <1>2 DEF RunningTotal
<1> HIDE DEF t, n
<1> DEFINE g == [k \in 0 .. n |-> IF k >= j THEN f[k] + x ELSE f[k]]
<1>4. g \in [0 .. n -> Int] /\ g[0] = 0
  <2>1. \A k \in 0 .. n : f[k] \in Int /\ f[k] + x \in Int
    BY <1>3
  <2>2. 0 \in 0 .. n /\ ~(0 >= j)
    BY <1>1
  <2> QED
    BY <1>3, <2>1, <2>2
<1>5. ASSUME NEW k \in 1 .. n PROVE g[k] = g[k - 1] + t[k]
  <2>1. /\ k \in 0 .. n /\ k - 1 \in 0 .. n /\ f[k] \in Int /\ f[k - 1] \in Int /\ s[k] \in Int
        /\ f[k] = f[k - 1] + s[k]
    <3> HIDE DEF g
    <3>1. k \in 0 .. n /\ k - 1 \in 0 .. n
      BY <1>1
    <3> QED
      BY <1>1, <1>3, <3>1
  <2>2. /\ g[k] = IF k >= j THEN f[k] + x ELSE f[k]
        /\ g[k - 1] = IF k - 1 >= j THEN f[k - 1] + x ELSE f[k - 1]
    BY <2>1
  <2> HIDE DEF g
  <2>3. CASE k = j
    <3>1. k >= j /\ ~(k - 1 >= j) /\ t[k] = s[k] + x
      BY <1>1, <2>3
    <3> QED
      BY <2>1, <2>2, <3>1
  <2>4. CASE k > j
    <3>1. k >= j /\ k - 1 >= j /\ t[k] = s[k]
      BY <1>1, <2>4
    <3> QED
      BY <2>1, <2>2, <3>1
  <2>5. CASE k < j
    <3>1. ~(k >= j) /\ ~(k - 1 >= j) /\ t[k] = s[k]
      BY <1>1, <2>5
    <3> QED
      BY <2>1, <2>2, <3>1
  <2> QED
    BY <1>1, <2>3, <2>4, <2>5
<1>6. g[n] = f[n] + x
  BY <1>1
<1> HIDE DEF g
<1>7. RunningTotal(g, t)
  BY <1>1, <1>4, <1>5 DEF RunningTotal
<1>8. Total(t) = g[n] /\ Total(s) = f[n]
  BY <1>1, <1>2, <1>7, TotalIsLast DEF n
<1> QED
  BY <1>6, <1>8 DEF t

-----------------------------------------------------------------------------
(* Powers of ten. *)

LEMMA PowerStep ==
    ASSUME NEW T, NEW w \in Nat, PowersOfTen(T, w), NEW e \in Nat, e + 1 <= w
    PROVE  T[e] \in Nat \ {0} /\ T[e + 1] = 10 * T[e]
<1>1. e \in DOMAIN T /\ e + 1 \in DOMAIN T \ {0} /\ e + 1 - 1 = e
  BY DEF PowersOfTen
<1>2. \A n \in DOMAIN T \ {0} : T[n] = 10 * T[n - 1]
  BY DEF PowersOfTen
<1>3. \A n \in DOMAIN T \ {0} : n - 1 = e => T[n] = 10 * T[e]
  BY <1>2, Zenon
<1> QED
  BY <1>1, <1>3 DEF PowersOfTen

LEMMA PowersAdd ==
    ASSUME NEW T, NEW w \in Nat, PowersOfTen(T, w), NEW a \in Nat, NEW b \in Nat, a + b <= w
    PROVE  T[a + b] = T[a] * T[b]
<1> DEFINE S == {n \in Nat : a + n <= w => T[a + n] = T[a] * T[n]}
<1>1. 0 \in S
  <2>1. a <= w => T[a] \in Nat
    BY DEF PowersOfTen
  <2> QED
    BY <2>1 DEF PowersOfTen
<1>2. ASSUME NEW n \in S PROVE n + 1 \in S
  <2> SUFFICES ASSUME a + (n + 1) <= w PROVE T[a + (n + 1)] = T[a] * T[n + 1]
    OBVIOUS
  <2>1. T[a + (n + 1)] = 10 * T[a + n] /\ T[n + 1] = 10 * T[n] /\ T[a] \in Nat /\ T[n] \in Nat
    <3>1. a + n \in Nat /\ a + n + 1 <= w /\ n + 1 <= w /\ a <= w
      OBVIOUS
    <3>2. T[a + n + 1] = 10 * T[a + n] /\ T[n + 1] = 10 * T[n] /\ T[n] \in Nat
      BY <3>1, PowerStep
    <3>3. T[a] \in Nat /\ a + (n + 1) = a + n + 1
      BY <3>1 DEF PowersOfTen
    <3> QED
      BY <3>2, <3>3
  <2>2. T[a + n] = T[a] * T[n]
    OBVIOUS
  <2> DEFINE x == T[a]
             y == T[n]
  <2>3. x \in Nat /\ y \in Nat => 10 * (x * y) = x * (10 * y)
    OBVIOUS
  <2> QED
    BY <2>1, <2>2, <2>3
<1>3. S = Nat
  <2> HIDE DEF S
  <2>1. S \in SUBSET Nat
    BY DEF S
  <2> QED
    BY <1>1, <1>2, <2>1, Induction
<1> QED
  BY <1>3

LEMMA PowersGrow ==
    ASSUME NEW T, NEW w \in Nat, PowersOfTen(T, w), NEW a \in Nat, NEW b \in Nat, a <= b, b <= w
    PROVE  /\ T[a] \in Nat \ {0} /\ T[b] \in Nat \ {0} /\ T[b - a] \in Nat \ {0}
           /\ T[b] = T[a] * T[b - a]
           /\ T[a] <= T[b]
           /\ a < b => T[a] < T[b] /\ T[b - a] >= 10
           /\ T[b] \div T[a] = T[b - a]
<1>1. b - a \in Nat /\ a + (b - a) = b /\ b - a <= w /\ a <= w
  OBVIOUS
<1>2. T[a] \in Nat \ {0} /\ T[b] \in Nat \ {0} /\ T[b - a] \in Nat \ {0}
  BY <1>1 DEF PowersOfTen
<1>3. T[b] = T[a] * T[b - a]
  BY <1>1, PowersAdd
<1> DEFINE x == T[a]
           y == T[b - a]
<1>4. a < b => y >= 10
  <2> SUFFICES ASSUME a < b PROVE y >= 10
    OBVIOUS
  <2>1. b - a \in DOMAIN T \ {0} /\ b - a - 1 \in DOMAIN T
    BY <1>1 DEF PowersOfTen
  <2>2. T[b - a] = 10 * T[b - a - 1] /\ T[b - a - 1] \in Nat \ {0}
    BY <2>1 DEF PowersOfTen
  <2> QED
    BY <2>2
<1>5. x <= x * y /\ (y >= 10 => x < x * y)
  <2>1. x \in Nat \ {0} /\ y \in Nat \ {0}
    BY <1>2
  <2> HIDE DEF x, y
  <2> QED
    BY <2>1
<1>6. (x * y) \div x = y
  <2>1. x \in Nat \ {0} /\ y \in Nat \ {0}
    BY <1>2
  <2> HIDE DEF x, y
  <2> QED
    BY <2>1
<1> QED
  BY <1>2, <1>3, <1>4, <1>5, <1>6

-----------------------------------------------------------------------------
(* Rounding a fraction. *)

\* Truncated division is the only one with a remainder like its own.
LEMMA DivisionIsUnique ==
    ASSUME NEW num \in Int, NEW den \in Int, den > 0, NEW q \in Int, NEW r \in Int,
           num = q * den + r, Magnitude(r) < den,
           num >= 0 => r >= 0, num <= 0 => r <= 0
    PROVE  Quo(num, den) = q /\ Rem(num, den) = r
<1> DEFINE quo == Quo(num, den)
           rem == Rem(num, den)
<1>1. /\ quo \in Int /\ rem \in Int /\ num = quo * den + rem /\ Magnitude(rem) < den
      /\ num >= 0 => rem >= 0
      /\ num <= 0 => rem <= 0
  BY TruncatedDivision
<1> HIDE DEF quo, rem
<1>2. r - rem < den /\ rem - r < den
  BY <1>1 DEF Magnitude
<1>3. /\ quo * den \in Int /\ q * den \in Int
      /\ (quo - q) * den = quo * den - q * den /\ (q - quo) * den = q * den - quo * den
  BY <1>1
<1>4. CASE quo > q
  <2>1. quo - q \in Int /\ quo - q >= 1
    BY <1>1, <1>4
  <2>2. (quo - q) * den >= den
    BY <2>1
  <2> QED
    BY <1>1, <1>2, <1>3, <2>2
<1>5. CASE quo < q
  <2>1. q - quo \in Int /\ q - quo >= 1
    BY <1>1, <1>5
  <2>2. (q - quo) * den >= den
    BY <2>1
  <2> QED
    BY <1>1, <1>2, <1>3, <2>2
<1>6. CASE quo = q
  <2>1. rem = r
    BY <1>1, <1>3, <1>6
  <2> QED
    BY <1>6, <2>1 DEF quo, rem
<1> QED
  BY <1>1, <1>4, <1>5, <1>6

LEMMA NegatedDivisor ==
    ASSUME NEW num \in Int, NEW den \in Int \ {0}
    PROVE  Quo(num, -den) = -Quo(num, den) /\ Rem(num, -den) = Rem(num, den) /\ Quo(num, den) \in Int
<1> DEFINE k == Magnitude(num) \div Magnitude(den)
<1>1. Magnitude(-den) = Magnitude(den) /\ Magnitude(den) \in Int /\ Magnitude(den) > 0 /\ Magnitude(num) \in Int
  BY DEF Magnitude
<1>2. k \in Int
  BY <1>1, FloorDivision
<1>3. Quo(num, -den) = -Quo(num, den) /\ Quo(num, den) \in Int
  <2>1. Quo(num, den) = IF (num >= 0) = (den > 0) THEN k ELSE -k
    BY DEF Quo
  <2>2. Quo(num, -den) = IF (num >= 0) = (-den > 0) THEN k ELSE -k
    BY <1>1 DEF Quo
  <2>3. (den > 0) <=> ~(-den > 0)
    OBVIOUS
  <2> HIDE DEF k
  <2> QED
    BY <1>2, <2>1, <2>2, <2>3
<1> DEFINE q == Quo(num, den)
<1>4. q \in Int => (-q) * (-den) = q * den
  OBVIOUS
<1> QED
  BY <1>3, <1>4 DEF Rem

\* A quotient that is exact is left alone, and is the rounding in every mode.
LEMMA ExactQuotient ==
    ASSUME NEW q \in Int, NEW den \in Int \ {0}
    PROVE  /\ Quo(q * den, den) = q /\ Rem(q * den, den) = 0
           /\ \A mode : IsRounded(q, q * den, den, mode)
           /\ \A mode : RoundQuotient(q * den, den, mode) = q
<1>1. ASSUME NEW n \in Int, NEW d \in Int, d > 0
      PROVE  Quo(n * d, d) = n /\ Rem(n * d, d) = 0
  <2>1. n * d \in Int /\ n * d = n * d + 0 /\ Magnitude(0) < d
    BY <1>1 DEF Magnitude
  <2> QED
    BY <1>1, <2>1, DivisionIsUnique
<1>2. ASSUME NEW n \in Int, NEW d \in Int, d > 0, NEW mode PROVE IsRoundedTo(n, q, n, d, mode)
  BY <1>2 DEF IsRoundedTo, Magnitude
<1>3. CASE den > 0
  <2>1. Quo(q * den, den) = q /\ Rem(q * den, den) = 0
    BY <1>1, <1>3
  <2>2. q * den \in Int /\ Magnitude(den) = den
    BY <1>3 DEF Magnitude
  <2> QED
    BY <1>2, <1>3, <2>1, <2>2 DEF IsRounded, RoundQuotient
<1>4. CASE den < 0
  <2>1. -den \in Int /\ -den > 0 /\ Magnitude(den) = -den /\ q * den = (-q) * (-den) /\ -(q * den) = q * (-den)
    BY <1>4 DEF Magnitude
  <2>2. Quo(q * (-den), -den) = q /\ Rem(q * (-den), -den) = 0
    BY <1>1, <2>1
  <2>3. Quo((-q) * (-den), -den) = -q /\ Rem((-q) * (-den), -den) = 0
    <3>1. -q \in Int
      OBVIOUS
    <3> QED
      BY <1>1, <2>1, <3>1
  <2>4. Quo(q * den, den) = q /\ Rem(q * den, den) = 0
    <3>1. q * den \in Int /\ -(-q) = q
      OBVIOUS
    <3>2. Quo(q * den, -den) = -Quo(q * den, den) /\ Rem(q * den, -den) = Rem(q * den, den)
          /\ Quo(q * den, den) \in Int
      BY <3>1, NegatedDivisor
    <3> QED
      BY <2>1, <2>3, <3>1, <3>2
  <2>5. \A mode : RoundQuotient(q * den, den, mode) = q
    BY <1>4, <2>1, <2>2 DEF RoundQuotient
  <2>6. q * (-den) \in Int
    BY <2>1
  <2> QED
    BY <1>2, <1>4, <2>1, <2>4, <2>5, <2>6 DEF IsRounded
<1> QED
  BY <1>3, <1>4

\* A common factor and a common sign of dividend and divisor change nothing.
LEMMA RoundedNegated ==
    ASSUME NEW q \in Int, NEW num \in Int, NEW den \in Int \ {0}, NEW mode
    PROVE  /\ IsRounded(q, -num, -den, mode) <=> IsRounded(q, num, den, mode)
           /\ Quo(-num, -den) = Quo(num, den)
<1>1. -(-num) = num /\ -(-den) = den
  OBVIOUS
<1>2. den < 0 \/ -den < 0
  OBVIOUS
<1>3. den < 0 => ~(-den < 0)
  OBVIOUS
<1>4. IsRounded(q, -num, -den, mode) <=> IsRounded(q, num, den, mode)
  BY <1>1, <1>2, <1>3 DEF IsRounded
<1> DEFINE k == Magnitude(num) \div Magnitude(den)
<1>5. /\ Magnitude(-num) = Magnitude(num) /\ Magnitude(-den) = Magnitude(den)
      /\ Magnitude(num) \in Int /\ Magnitude(den) \in Int /\ Magnitude(den) > 0
  BY DEF Magnitude
<1>6. Quo(-num, -den) = IF (-num >= 0) = (-den > 0) THEN k ELSE -k
  BY <1>5 DEF Quo
<1>7. Quo(num, den) = IF (num >= 0) = (den > 0) THEN k ELSE -k
  BY DEF Quo
<1>8. k \in Int /\ (num = 0 => k = 0)
  BY <1>5, FloorDivision DEF Magnitude
<1> HIDE DEF k
<1>9. CASE num = 0
  BY <1>4, <1>6, <1>7, <1>8, <1>9
<1>10. CASE num # 0
  <2>1. (-num >= 0) <=> ~(num >= 0)
    BY <1>10
  <2>2. (-den > 0) <=> ~(den > 0)
    OBVIOUS
  <2> QED
    BY <1>4, <1>6, <1>7, <1>8, <2>1, <2>2
<1> QED
  BY <1>4, <1>9, <1>10

LEMMA ScaledOrder ==
    ASSUME NEW x \in Int, NEW y \in Int, NEW c \in Int, c > 0
    PROVE  /\ x * c \in Int /\ y * c \in Int
           /\ x * c <= y * c <=> x <= y
           /\ x * c < y * c <=> x < y
           /\ x * c = y * c <=> x = y
           /\ (x - y) * c = x * c - y * c
           /\ (2 * x) * c = 2 * (x * c)
<1>1. x * c \in Int /\ y * c \in Int /\ (x - y) * c = x * c - y * c /\ (2 * x) * c = 2 * (x * c)
      /\ (y - x) * c = y * c - x * c /\ (-x) * c = -(x * c)
  OBVIOUS
<1>2. \A z \in Int : z > 0 => z * c > 0
  OBVIOUS
<1>3. x < y => x * c < y * c
  BY <1>1, <1>2
<1>4. y < x => y * c < x * c
  BY <1>1, <1>2
<1> QED
  BY <1>1, <1>3, <1>4

LEMMA ScaledMagnitude ==
    ASSUME NEW x \in Int, NEW c \in Int, c > 0
    PROVE  Magnitude(x * c) = Magnitude(x) * c
<1>1. \A z \in Int : z > 0 => z * c > 0
  OBVIOUS
<1>2. x * c \in Int /\ (-x) * c = -(x * c)
  OBVIOUS
<1>3. x > 0 => x * c > 0
  BY <1>1
<1>4. x < 0 => x * c < 0
  <2>1. x < 0 => (-x) * c > 0
    BY <1>1
  <2> QED
    BY <1>2, <2>1
<1>5. CASE x >= 0
  BY <1>2, <1>3, <1>5 DEF Magnitude
<1>6. CASE x < 0
  BY <1>2, <1>4, <1>6 DEF Magnitude
<1> QED
  BY <1>5, <1>6

LEMMA RoundedScaled ==
    ASSUME NEW q \in Int, NEW num \in Int, NEW den \in Int \ {0}, NEW c \in Int, c > 0, NEW mode
    PROVE  IsRounded(q, num * c, den * c, mode) <=> IsRounded(q, num, den, mode)
<1>1. ASSUME NEW n \in Int, NEW d \in Int, d > 0
      PROVE  IsRounded(q, n * c, d * c, mode) <=> IsRounded(q, n, d, mode)
  <2> DEFINE m == q * d
             dist == Magnitude(n - m)
  <2>1. m \in Int /\ dist \in Int /\ d * c > 0 /\ q * (d * c) = m * c
    BY <1>1 DEF Magnitude
  <2>2. IsRounded(q, n * c, d * c, mode) <=> IsRoundedTo(m * c, q, n * c, d * c, mode)
    BY <2>1, ScaledOrder DEF IsRounded
  <2>3. IsRounded(q, n, d, mode) <=> IsRoundedTo(m, q, n, d, mode)
    BY <1>1 DEF IsRounded
  <2> HIDE DEF m
  <2>4. Magnitude(n * c - m * c) = dist * c
    <3> DEFINE z == n - m
    <3>1. z \in Int /\ z * c = n * c - m * c
      BY <2>1, ScaledOrder
    <3> HIDE DEF z
    <3>2. Magnitude(z * c) = Magnitude(z) * c
      BY ONLY <3>1, z \in Int, c \in Int, c > 0, ScaledMagnitude
    <3> QED
      BY <3>1, <3>2 DEF z
  <2>5. /\ n * c <= m * c <=> n <= m
        /\ m * c <= n * c <=> m <= n
    BY <2>1, ScaledOrder
  <2>6. Magnitude(m * c) = Magnitude(m) * c /\ Magnitude(n * c) = Magnitude(n) * c
        /\ Magnitude(m) \in Int /\ Magnitude(n) \in Int
    BY <2>1, ScaledMagnitude DEF Magnitude
  <2>7. /\ Magnitude(m * c) <= Magnitude(n * c) <=> Magnitude(m) <= Magnitude(n)
        /\ Magnitude(n * c) <= Magnitude(m * c) <=> Magnitude(n) <= Magnitude(m)
        /\ Magnitude(m * c) < Magnitude(n * c) <=> Magnitude(m) < Magnitude(n)
        /\ Magnitude(n * c) < Magnitude(m * c) <=> Magnitude(n) < Magnitude(m)
    BY <2>6, ScaledOrder
  <2>8. /\ dist * c < d * c <=> dist < d
        /\ 2 * (dist * c) <= d * c <=> 2 * dist <= d
        /\ 2 * (dist * c) = d * c <=> 2 * dist = d
    <3> HIDE DEF dist
    <3>1. 2 * dist \in Int /\ (2 * dist) * c = 2 * (dist * c)
      BY <2>1, ScaledOrder
    <3>2. dist * c < d * c <=> dist < d
      BY <2>1, ScaledOrder
    <3>3. /\ (2 * dist) * c <= d * c <=> 2 * dist <= d
          /\ (2 * dist) * c = d * c <=> 2 * dist = d
      BY <3>1, ScaledOrder
    <3> QED
      BY <3>1, <3>2, <3>3
  <2> HIDE DEF dist
  <2>9. IsRoundedTo(m * c, q, n * c, d * c, mode) <=> IsRoundedTo(m, q, n, d, mode)
    BY <2>4, <2>5, <2>7, <2>8 DEF IsRoundedTo, dist
  <2> QED
    BY <2>2, <2>3, <2>9
<1>2. CASE den > 0
  BY <1>1, <1>2
<1>3. CASE den < 0
  <2>1. -num \in Int /\ -den \in Int /\ -den > 0 /\ num * c \in Int /\ den * c \in Int \ {0}
        /\ (-num) * c = -(num * c) /\ (-den) * c = -(den * c)
    BY <1>3
  <2>2. IsRounded(q, -(num * c), -(den * c), mode) <=> IsRounded(q, num * c, den * c, mode)
    BY <2>1, RoundedNegated
  <2>3. IsRounded(q, (-num) * c, (-den) * c, mode) <=> IsRounded(q, -num, -den, mode)
    BY <1>1, <2>1
  <2>4. IsRounded(q, -num, -den, mode) <=> IsRounded(q, num, den, mode)
    BY RoundedNegated
  <2> QED
    BY <2>1, <2>2, <2>3, <2>4
<1> QED
  BY <1>2, <1>3

\* Of two numbers the larger one is never rounded to less, in any mode.
THEOREM RoundingIsMonotonic ==
    ASSUME NEW m \in Int, NEW n \in Int, NEW c \in Int, NEW e \in Int, c > 0, e > 0, m * e <= n * c,
           NEW mode \in RoundingModes, NEW p \in Int, NEW q \in Int,
           IsRounded(p, m, c, mode), IsRounded(q, n, e, mode)
    PROVE  p <= q
<1> DEFINE small == m * e
           large == n * c
           den == c * e
<1>1. small \in Int /\ large \in Int /\ small <= large
  OBVIOUS
<1>2. den \in Int /\ den > 0 /\ den = e * c
  OBVIOUS
<1>3. IsRounded(p, small, den, mode)
  BY RoundedScaled
<1>4. IsRounded(q, large, den, mode)
  <2>1. IsRounded(q, n * c, e * c, mode)
    BY RoundedScaled
  <2> QED
    BY <1>2, <2>1
<1> HIDE DEF small, large, den
<1>5. ASSUME q < p PROVE FALSE
  BY <1>1, <1>2, <1>3, <1>4, <1>5, OrderedMultiples DEF IsRounded
<1> QED
  BY <1>5

\* A rounding is the truncated quotient or one of its neighbours.
LEMMA RoundedNearby ==
    ASSUME NEW q \in Int, NEW num \in Int, NEW den \in Int \ {0}, NEW mode, IsRounded(q, num, den, mode)
    PROVE  q \in {Quo(num, den) - 1, Quo(num, den), Quo(num, den) + 1}
<1>1. ASSUME NEW n \in Int, NEW d \in Int, d > 0, IsRounded(q, n, d, mode)
      PROVE  q \in {Quo(n, d) - 1, Quo(n, d), Quo(n, d) + 1}
  <2> DEFINE quo == Quo(n, d)
             rem == Rem(n, d)
             m   == q * d
             t   == quo * d
  <2>1. quo \in Int /\ rem \in Int /\ n = t + rem /\ Magnitude(rem) < d
    BY <1>1, TruncatedDivision
  <2>2. m \in Int /\ Magnitude(n - m) < d
    BY <1>1 DEF IsRounded, IsRoundedTo
  <2>3. (q - quo) * d = m - t /\ t \in Int
    BY <2>1
  <2> HIDE DEF quo, rem, m, t
  <2>4. m - t < 2 * d /\ t - m < 2 * d
    BY <2>1, <2>2, <2>3 DEF Magnitude
  <2>5. CASE q - quo >= 2
    <3>1. (q - quo) * d >= 2 * d
      BY <1>1, <2>1, <2>5
    <3> QED
      BY <1>1, <2>1, <2>2, <2>3, <2>4, <3>1
  <2>6. CASE quo - q >= 2
    <3>1. (quo - q) * d >= 2 * d /\ (quo - q) * d = -((q - quo) * d)
      BY <1>1, <2>1, <2>6
    <3> QED
      BY <1>1, <2>1, <2>2, <2>3, <2>4, <3>1
  <2> QED
    BY <2>1, <2>5, <2>6 DEF quo
<1>2. CASE den > 0
  BY <1>1, <1>2
<1>3. CASE den < 0
  <2>1. -num \in Int /\ -den \in Int /\ -den > 0
    BY <1>3
  <2> QED
    BY <1>1, <2>1, RoundedNegated
<1> QED
  BY <1>2, <1>3

-----------------------------------------------------------------------------
(* Numbers on a decimal grid: the coefficient c at scale `from' is c / T[from]. *)

\* Moving a coefficient to another scale, exactly or rounding away the digits that
\* do not fit, rounds the number it stands for.
LEMMA ShiftIsRounded ==
    ASSUME NEW T, NEW w \in Nat, PowersOfTen(T, w), NEW c \in Int, NEW from \in 0 .. w, NEW to \in 0 .. w,
           NEW mode \in RoundingModes
    PROVE  LET q == IF to >= from THEN c * T[to - from] ELSE RoundQuotient(c, T[from - to], mode)
           IN  q \in Int /\ IsRounded(q, c * T[to], T[from], mode)
<1> DEFINE f == T[from]
           t == T[to]
           shifted == IF to >= from THEN c * T[to - from] ELSE RoundQuotient(c, T[from - to], mode)
<1>1. from \in Nat /\ to \in Nat /\ from <= w /\ to <= w /\ f \in Nat \ {0} /\ t \in Nat \ {0}
  BY DEF PowersOfTen
<1>2. CASE to >= from
  <2> DEFINE g == T[to - from]
  <2>1. g \in Nat \ {0} /\ t = f * g
    BY <1>1, <1>2, PowersGrow
  <2>2. shifted = c * g
    BY <1>2
  <2> HIDE DEF f, g, t
  <2>3. c * g \in Int /\ c * t = (c * g) * f /\ f \in Int \ {0}
    BY <1>1, <2>1
  <2>4. IsRounded(c * g, (c * g) * f, f, mode)
    BY <2>3, ExactQuotient
  <2> QED
    BY <2>2, <2>3, <2>4 DEF f, t
<1>3. CASE ~(to >= from)
  <2> DEFINE g == T[from - to]
             k == RoundQuotient(c, g, mode)
  <2>1. g \in Nat \ {0} /\ f = t * g
    BY <1>1, <1>3, PowersGrow
  <2>2. shifted = k
    BY <1>3
  <2> HIDE DEF f, g, t
  <2>3. k \in Int /\ IsRounded(k, c, g, mode)
    BY <2>1, RoundQuotientIsRounded
  <2> HIDE DEF k
  <2>4. IsRounded(k, c * t, g * t, mode)
    BY <1>1, <2>1, <2>3, RoundedScaled
  <2>5. g * t = f
    BY <1>1, <2>1
  <2> QED
    BY <2>2, <2>3, <2>4, <2>5 DEF f, t
<1> QED
  BY <1>2, <1>3

\* Dividing two coefficients, one of them shifted first so that the quotient has the
\* digits asked for, rounds the quotient of the two numbers.
LEMMA ShiftedQuotientIsRounded ==
    ASSUME NEW T, NEW w \in Nat, PowersOfTen(T, w), NEW n \in Int, NEW from \in 0 .. w, NEW d \in Int \ {0},
           NEW by \in Nat, NEW scale \in Nat, by + scale <= w, NEW mode \in RoundingModes
    PROVE  LET e == by + scale - from
               q == RoundQuotient(n * (IF e >= 0 THEN T[e] ELSE 1), d * (IF e >= 0 THEN 1 ELSE T[-e]), mode)
           IN  q \in Int /\ IsRounded(q, (n * T[by]) * T[scale], T[from] * d, mode)
<1> DEFINE f == T[from]
           b == T[by]
           s == T[scale]
           sum == by + scale
           bs == T[sum]
           e == by + scale - from
           k == RoundQuotient(n * (IF e >= 0 THEN T[e] ELSE 1), d * (IF e >= 0 THEN 1 ELSE T[-e]), mode)
<1>1. from \in Nat /\ from <= w
  OBVIOUS
<1>2. sum \in Nat /\ sum <= w /\ by <= w /\ scale <= w
  OBVIOUS
<1>3. bs = b * s
  BY <1>1, <1>2, PowersAdd
<1>4. f \in Nat \ {0} /\ b \in Nat \ {0} /\ s \in Nat \ {0} /\ bs \in Nat \ {0}
  BY <1>1, <1>2 DEF PowersOfTen
<1>5. CASE e >= 0
  <2> DEFINE p == T[e]
  <2>1. bs = f * p /\ p \in Nat \ {0}
    <3>1. from <= sum /\ sum - from = e
      BY <1>1, <1>5
    <3> HIDE DEF e, sum
    <3> QED
      BY <1>1, <1>2, <3>1, PowersGrow
  <2>2. k = RoundQuotient(n * p, d * 1, mode)
    BY <1>5
  <2> HIDE DEF f, b, s, bs, p, k
  <2>3. n * p \in Int /\ d * 1 = d
    BY <2>1
  <2>4. k \in Int /\ IsRounded(k, n * p, d, mode)
    BY <2>2, <2>3, RoundQuotientIsRounded
  <2>5. IsRounded(k, (n * p) * f, d * f, mode)
    BY <1>4, <2>3, <2>4, RoundedScaled
  <2>6. (n * p) * f = (n * b) * s
    <3>1. (n * p) * f = n * (f * p)
      BY <1>4, <2>1
    <3>2. (n * b) * s = n * (b * s)
      BY <1>4
    <3> QED
      BY <1>3, <2>1, <3>1, <3>2
  <2>7. d * f = f * d
    BY <1>4
  <2> QED
    BY <2>4, <2>5, <2>6, <2>7 DEF k, f, b, s
<1>6. CASE ~(e >= 0)
  <2> DEFINE p == T[-e]
  <2>1. f = bs * p /\ p \in Nat \ {0}
    <3>1. sum <= from /\ from - sum = -e
      BY <1>1, <1>6
    <3> HIDE DEF e, sum
    <3> QED
      BY <1>1, <1>2, <3>1, PowersGrow
  <2>2. k = RoundQuotient(n * 1, d * p, mode)
    BY <1>6
  <2> HIDE DEF f, b, s, bs, p, k
  <2>3. d * p \in Int \ {0} /\ n * 1 = n
    BY <2>1
  <2>4. k \in Int /\ IsRounded(k, n, d * p, mode)
    BY <2>2, <2>3, RoundQuotientIsRounded
  <2>5. IsRounded(k, n * bs, (d * p) * bs, mode)
    BY <1>4, <2>3, <2>4, RoundedScaled
  <2>6. n * bs = (n * b) * s
    BY <1>3, <1>4
  <2>7. (d * p) * bs = f * d
    <3>1. (d * p) * bs = (bs * p) * d
      BY <1>4, <2>1
    <3> QED
      BY <2>1, <3>1
  <2> QED
    BY <2>4, <2>5, <2>6, <2>7 DEF k, f, b, s
<1> QED
  BY <1>5, <1>6

-----------------------------------------------------------------------------
(* Functions that look back further than one step: the greatest common     *)
(* divisor, the powers of a base and the removal of a factor.              *)

\* The rule for a value of a function looks at the values before it only
LooksBack(rule, S) ==
    /\ rule \in [Nat -> [[Nat -> S] -> S]]
    /\ \A n \in Nat : \A f, g \in [Nat -> S] :
           (\A k \in Nat : k < n => f[k] = g[k]) => rule[n][f] = rule[n][g]

Follows(f, rule, S) == f \in [Nat -> S] /\ \A n \in Nat : f[n] = rule[n][f]

\* Such a rule defines a function of the naturals.
LEMMA CourseOfValues ==
    ASSUME NEW S, NEW any \in S, NEW rule, LooksBack(rule, S)
    PROVE  \E f : Follows(f, rule, S)
<1> DEFINE Tables == [Nat -> S]
           step   == [n \in Nat |-> [f \in Tables |-> [f EXCEPT ![n] = rule[n][f]]]]
           blank  == [n \in Nat |-> any]
           first  == step[0][blank]
<1> USE DEF LooksBack
<1>1. /\ step \in [Nat -> [Tables -> Tables]]
      /\ \A n \in Nat, f \in Tables : /\ step[n][f] \in Tables
                                      /\ step[n][f][n] = rule[n][f]
                                      /\ \A k \in Nat : k # n => step[n][f][k] = f[k]
  <2>1. ASSUME NEW n \in Nat, NEW f \in Tables
        PROVE  /\ step[n][f] \in Tables
               /\ step[n][f][n] = rule[n][f]
               /\ \A k \in Nat : k # n => step[n][f][k] = f[k]
    <3> DEFINE v == rule[n][f]
    <3>1. v \in S
      OBVIOUS
    <3>2. step[n][f] = [f EXCEPT ![n] = v]
      OBVIOUS
    <3> HIDE DEF v, step
    <3>3. [f EXCEPT ![n] = v] \in Tables
      BY <3>1
    <3>4. [f EXCEPT ![n] = v][n] = v /\ \A k \in Nat : k # n => [f EXCEPT ![n] = v][k] = f[k]
      OBVIOUS
    <3> QED
      BY <3>2, <3>3, <3>4 DEF v
  <2>2. \A n \in Nat : step[n] = [f \in Tables |-> [f EXCEPT ![n] = rule[n][f]]]
    OBVIOUS
  <2>3. step \in [Nat -> [Tables -> Tables]]
    <3>1. \A n \in Nat : step[n] \in [Tables -> Tables]
      <4> TAKE n \in Nat
      <4>1. \A f \in Tables : step[n][f] \in Tables
        BY <2>1
      <4> HIDE DEF Tables
      <4>2. step[n] = [f \in Tables |-> step[n][f]]
        BY <2>2
      <4> QED
        BY <4>1, <4>2
    <3> HIDE DEF Tables
    <3> QED
      BY <3>1
  <2> HIDE DEF step, Tables
  <2> QED
    BY <2>1, <2>3
<1>2. blank \in Tables
  OBVIOUS
<1> HIDE DEF step, blank
<1>3. first \in Tables /\ first[0] = rule[0][blank]
  BY <1>1, <1>2
<1> HIDE DEF first
<1>4. PICK h : Recursive(h, Tables, first, step)
  <2>1. first \in Tables /\ step \in [Nat -> [Tables -> Tables]]
    BY <1>1, <1>3
  <2> HIDE DEF Tables
  <2> QED
    BY <2>1, Recursion
<1>5. h \in [Nat -> Tables] /\ h[0] = first /\ \A n \in Nat : h[n + 1] = step[n + 1][h[n]]
  BY <1>4 DEF Recursive
<1>6. ASSUME NEW n \in Nat
      PROVE  h[n + 1][n + 1] = rule[n + 1][h[n]] /\ \A k \in Nat : k # n + 1 => h[n + 1][k] = h[n][k]
  <2> DEFINE g == h[n]
  <2>1. n + 1 \in Nat /\ g \in Tables /\ h[n + 1] = step[n + 1][g]
    BY <1>5
  <2> HIDE DEF Tables, g
  <2>2. /\ step[n + 1][g][n + 1] = rule[n + 1][g]
        /\ \A k \in Nat : k # n + 1 => step[n + 1][g][k] = g[k]
    BY <1>1, <2>1
  <2> QED
    BY <2>1, <2>2 DEF g
<1> DEFINE f == [n \in Nat |-> h[n][n]]
           Kept == {n \in Nat : \A k \in Nat : k <= n => h[n][k] = f[k]}
<1>7. f \in Tables
  BY <1>5
<1>8. Kept = Nat
  <2>1. 0 \in Kept
    OBVIOUS
  <2>2. ASSUME NEW n \in Kept PROVE n + 1 \in Kept
    <3>1. n \in Nat /\ n + 1 \in Nat /\ \A k \in Nat : k <= n => h[n][k] = f[k]
      OBVIOUS
    <3>2. ASSUME NEW k \in Nat, k <= n + 1 PROVE h[n + 1][k] = f[k]
      <4>1. CASE k = n + 1
        BY <3>1, <4>1
      <4>2. CASE k # n + 1
        <5>1. k <= n
          BY <3>1, <3>2, <4>2
        <5> QED
          BY <1>6, <3>1, <4>2, <5>1
      <4> QED
        BY <4>1, <4>2
    <3> QED
      BY <3>1, <3>2
  <2> HIDE DEF Kept
  <2>3. Kept \in SUBSET Nat
    BY DEF Kept
  <2> QED
    BY <2>1, <2>2, <2>3, Induction
<1>9. ASSUME NEW n \in Nat PROVE f[n] = rule[n][f]
  <2>1. CASE n = 0
    <3>1. \A k \in Nat : k < n => blank[k] = f[k]
      BY <2>1
    <3>2. rule[n][blank] = rule[n][f]
      BY <1>2, <1>7, <3>1
    <3> QED
      BY <1>3, <1>5, <2>1, <3>2
  <2>2. CASE n # 0
    <3> DEFINE p == n - 1
    <3>1. p \in Nat /\ p + 1 = n
      BY <2>2
    <3> HIDE DEF p
    <3>2. h[p] \in Tables /\ \A k \in Nat : k <= p => h[p][k] = f[k]
      <4>1. p \in Kept
        BY <1>8, <3>1
      <4> QED
        BY <1>5, <3>1, <4>1
    <3>3. \A k \in Nat : k < n => h[p][k] = f[k]
      BY <3>1, <3>2
    <3>4. rule[n][h[p]] = rule[n][f]
      BY <1>7, <3>2, <3>3
    <3>5. f[n] = rule[n][h[p]]
      BY <1>6, <3>1
    <3> QED
      BY <3>4, <3>5
  <2> QED
    BY <2>1, <2>2
<1> QED
  BY <1>7, <1>9 DEF Follows

\* Euclid's algorithm stops at zero, and otherwise goes on with the remainder.
LEMMA GcdStep ==
    ASSUME NEW m \in Nat, NEW n \in Nat
    PROVE  /\ Gcd(m, n) \in Nat
           /\ n = 0 => Gcd(m, n) = m
           /\ n > 0 => Gcd(m, n) = Gcd(n, m % n) /\ m % n \in Nat /\ m % n < n
<1> DEFINE S    == [Nat -> Nat]
           row(f, b) == [a \in Nat |-> IF b = 0 THEN a ELSE f[a % b][b]]
           rule == [b \in Nat |-> [f \in [Nat -> S] |-> row(f, b)]]
           zero == [a \in Nat |-> 0]
           gcd  == CHOOSE f : f = [b \in Nat |-> [a \in Nat |-> IF b = 0 THEN a ELSE f[a % b][b]]]
<1>1. ASSUME NEW a \in Nat, NEW b \in Nat, b > 0 PROVE a % b \in Nat /\ a % b < b
  BY <1>1, FloorDivision
<1>2. ASSUME NEW f \in [Nat -> S], NEW b \in Nat PROVE row(f, b) \in S
  BY <1>1
<1>3. rule \in [Nat -> [[Nat -> S] -> S]] /\ \A b \in Nat, f \in [Nat -> S] : rule[b][f] = row(f, b)
  <2> HIDE DEF S, row
  <2> QED
    BY <1>2
<1>4. ASSUME NEW b \in Nat, NEW f \in [Nat -> S], NEW g \in [Nat -> S],
             \A k \in Nat : k < b => f[k] = g[k]
      PROVE  rule[b][f] = rule[b][g]
  <2>1. ASSUME NEW a \in Nat, b # 0 PROVE f[a % b][b] = g[a % b][b]
    <3>1. a % b \in Nat /\ a % b < b
      <4>1. b > 0
        BY <2>1
      <4> QED
        BY <1>1, <4>1
    <3> QED
      BY <1>4, <3>1, Zenon
  <2>2. row(f, b) = row(g, b)
    BY <2>1
  <2> HIDE DEF rule, S, row
  <2> QED
    BY <1>3, <2>2
<1>5. PICK f : Follows(f, rule, S)
  <2>1. zero \in S
    OBVIOUS
  <2>2. rule \in [Nat -> [[Nat -> S] -> S]]
    BY <1>3
  <2>3. \A b \in Nat : \A f, g \in [Nat -> S] :
           (\A k \in Nat : k < b => f[k] = g[k]) => rule[b][f] = rule[b][g]
    <3> HIDE DEF S, rule
    <3> QED
      BY <1>4
  <2> HIDE DEF S, rule, zero
  <2>4. LooksBack(rule, S)
    BY <2>2, <2>3 DEF LooksBack
  <2> QED
    BY <2>1, <2>4, CourseOfValues
<1>6. f = [b \in Nat |-> [a \in Nat |-> IF b = 0 THEN a ELSE f[a % b][b]]]
  <2>1. \A b \in Nat : f[b] = [a \in Nat |-> IF b = 0 THEN a ELSE f[a % b][b]]
    BY <1>3, <1>5 DEF Follows
  <2>2. f \in [Nat -> S]
    BY <1>5 DEF Follows
  <2> QED
    BY <2>1, <2>2
<1>7. gcd = [b \in Nat |-> [a \in Nat |-> IF b = 0 THEN a ELSE gcd[a % b][b]]]
  BY <1>6 DEF gcd
<1>8. \A a, b \in Nat : Gcd(a, b) = gcd[b][a]
  BY DEF Gcd
<1> HIDE DEF gcd
<1>9. \A a, b \in Nat : /\ b = 0 => gcd[b][a] = a
                        /\ b # 0 => gcd[b][a] = gcd[a % b][b]
  <2> TAKE a, b \in Nat
  <2>1. gcd[b] = [x \in Nat |-> IF b = 0 THEN x ELSE gcd[x % b][b]]
    BY <1>7, Zenon
  <2> QED
    BY <2>1, Zenon
<1> DEFINE Typed == {b \in Nat : \A k \in Nat, a \in Nat : k <= b => gcd[k][a] \in Nat}
<1>10. Typed = Nat
  <2>1. 0 \in Typed
    <3>1. \A k \in Nat : k <= 0 => k = 0
      OBVIOUS
    <3>2. \A a \in Nat : gcd[0][a] = a
      BY <1>9
    <3> QED
      BY <3>1, <3>2
  <2>2. ASSUME NEW b \in Typed PROVE b + 1 \in Typed
    <3> DEFINE c == b + 1
    <3>1. b \in Nat /\ c \in Nat /\ c > 0 /\ \A k \in Nat : k <= c => k <= b \/ k = c
      OBVIOUS
    <3>2. \A k \in Nat, a \in Nat : k <= b => gcd[k][a] \in Nat
      OBVIOUS
    <3> HIDE DEF c, Typed
    <3>3. ASSUME NEW a \in Nat PROVE gcd[c][a] \in Nat
      <4> DEFINE r == a % c
      <4>1. r \in Nat /\ r < c
        BY <1>1, <3>1
      <4>2. gcd[c][a] = gcd[r][c]
        <5>1. c # 0
          BY <3>1
        <5> QED
          BY <1>9, <3>1, <5>1, Zenon
      <4> HIDE DEF r
      <4>3. r <= b
        BY <3>1, <4>1 DEF c
      <4> QED
        BY <3>1, <3>2, <4>1, <4>2, <4>3
    <3>4. \A k \in Nat, a \in Nat : k <= c => gcd[k][a] \in Nat
      BY <3>1, <3>2, <3>3
    <3> QED
      BY <3>1, <3>4 DEF c, Typed
  <2> HIDE DEF Typed
  <2>3. Typed \in SUBSET Nat
    BY DEF Typed
  <2> QED
    BY <2>1, <2>2, <2>3, Induction
<1>11. \A a, b \in Nat : gcd[b][a] \in Nat
  <2> TAKE a, b \in Nat
  <2>1. b \in Typed
    <3> HIDE DEF Typed
    <3> QED
      BY <1>10
  <2> QED
    BY <2>1
<1> HIDE DEF Typed
<1>12. Gcd(m, n) \in Nat
  BY <1>8, <1>11
<1>13. n = 0 => Gcd(m, n) = m
  BY <1>8, <1>9
<1>14. ASSUME n > 0 PROVE Gcd(m, n) = Gcd(n, m % n) /\ m % n \in Nat /\ m % n < n
  <2> DEFINE r == m % n
  <2>1. r \in Nat /\ r < n /\ n # 0
    BY <1>1, <1>14
  <2>2. gcd[n][m] = gcd[r][n]
    BY <1>9, <2>1
  <2> HIDE DEF r
  <2>3. Gcd(m, n) = gcd[n][m] /\ Gcd(n, r) = gcd[r][n]
    BY <1>8, <2>1
  <2>4. Gcd(m, n) = Gcd(n, r) /\ r \in Nat /\ r < n
    BY <2>1, <2>2, <2>3
  <2> QED
    BY <2>4 DEF r
<1> QED
  BY <1>12, <1>13, <1>14

\* There are powers of every integer, and they are integers.
LEMMA PowersStep ==
    ASSUME NEW b \in Int
    PROVE  /\ Powers(b) \in [Nat -> Int]
           /\ Powers(b)[0] = 1
           /\ \A k \in Nat : Powers(b)[k + 1] = b * Powers(b)[k]
<1> DEFINE step == [k \in Nat |-> [x \in Int |-> b * x]]
           power == CHOOSE f : f = [k \in Nat |-> IF k = 0 THEN 1 ELSE b * f[k - 1]]
<1>1. step \in [Nat -> [Int -> Int]] /\ \A k \in Nat, x \in Int : step[k][x] = b * x
  OBVIOUS
<1> HIDE DEF step, power
<1>2. PICK f : Recursive(f, Int, 1, step)
  <2>1. 1 \in Int /\ step \in [Nat -> [Int -> Int]]
    BY <1>1
  <2> QED
    BY <2>1, Recursion
<1>3. f \in [Nat -> Int] /\ f[0] = 1 /\ \A k \in Nat : f[k + 1] = b * f[k]
  <2>1. f \in [Nat -> Int] /\ f[0] = 1 /\ \A k \in Nat : f[k + 1] = step[k + 1][f[k]]
    BY <1>2 DEF Recursive
  <2>2. ASSUME NEW k \in Nat PROVE f[k + 1] = b * f[k]
    <3>1. k + 1 \in Nat /\ f[k] \in Int
      BY <2>1
    <3> QED
      BY <1>1, <2>1, <3>1
  <2> QED
    BY <2>1, <2>2
<1>4. ASSUME NEW k \in Nat, k # 0 PROVE f[k] = b * f[k - 1]
  <2>1. k - 1 \in Nat /\ (k - 1) + 1 = k
    BY <1>4
  <2> QED
    BY <1>3, <2>1
<1>5. f = [k \in Nat |-> IF k = 0 THEN 1 ELSE b * f[k - 1]]
  BY <1>3, <1>4
<1>6. power = [k \in Nat |-> IF k = 0 THEN 1 ELSE b * power[k - 1]]
  BY <1>5 DEF power
<1>7. Powers(b) = power
  BY DEF Powers, power
<1>8. power[0] = 1 /\ \A k \in Nat : power[k + 1] = b * power[k]
  BY <1>6
<1> DEFINE S == {k \in Nat : power[k] \in Int}
<1>9. S = Nat
  <2>1. 0 \in S
    BY <1>8
  <2>2. \A k \in S : k + 1 \in S
    BY <1>8
  <2> QED
    BY <2>1, <2>2, Induction
<1> QED
  BY <1>6, <1>7, <1>8, <1>9

-----------------------------------------------------------------------------
(* Divisors. *)

Divides(p, n) == \E k \in Int : n = k * p

LEMMA DividesSum ==
    ASSUME NEW p \in Int, NEW a \in Int, NEW b \in Int, NEW c \in Int, Divides(p, a), Divides(p, b)
    PROVE  Divides(p, c * a + b)
<1>1. PICK x \in Int : a = x * p
  BY DEF Divides
<1>2. PICK y \in Int : b = y * p
  BY DEF Divides
<1>3. c * x + y \in Int /\ c * (x * p) + y * p = (c * x + y) * p
  OBVIOUS
<1> QED
  BY <1>1, <1>2, <1>3 DEF Divides

\* Euclid's algorithm returns a divisor of both numbers that all others divide.
LEMMA GcdIsGreatest ==
    ASSUME NEW m \in Nat, NEW n \in Nat
    PROVE  /\ Gcd(m, n) \in Nat
           /\ Divides(Gcd(m, n), m) /\ Divides(Gcd(m, n), n)
           /\ \A p \in Int : Divides(p, m) /\ Divides(p, n) => Divides(p, Gcd(m, n))
           /\ n > 0 => Gcd(m, n) > 0
<1> DEFINE Good(a, b) == /\ Divides(Gcd(a, b), a) /\ Divides(Gcd(a, b), b)
                         /\ \A p \in Int : Divides(p, a) /\ Divides(p, b) => Divides(p, Gcd(a, b))
           S == {k \in Nat : \A b \in Nat, a \in Nat : b <= k => Good(a, b)}
<1>1. ASSUME NEW a \in Nat PROVE Good(a, 0)
  <2>1. Gcd(a, 0) = a
    BY GcdStep
  <2>2. a = 1 * a /\ 0 = 0 * a /\ 1 \in Int /\ 0 \in Int
    OBVIOUS
  <2>3. Divides(a, a) /\ Divides(a, 0)
    BY <2>2 DEF Divides
  <2> QED
    BY <2>1, <2>3
<1>2. ASSUME NEW a \in Nat, NEW b \in Nat, b > 0, Good(b, a % b)
      PROVE  Good(a, b)
  <2> DEFINE q == a \div b
             r == a % b
             g == Gcd(b, r)
  <2>1. a = q * b + r /\ q \in Int /\ r \in Nat
    BY <1>2, FloorDivision
  <2>2. Gcd(a, b) = g
    BY <1>2, GcdStep
  <2>3. g \in Nat
    BY <2>1, GcdStep
  <2>4. /\ Divides(g, b) /\ Divides(g, r)
        /\ \A p \in Int : Divides(p, b) /\ Divides(p, r) => Divides(p, g)
    BY <1>2
  <2> HIDE DEF q, r, g
  <2>5. Divides(g, a)
    <3>1. g \in Int /\ b \in Int /\ r \in Int
      BY <2>1, <2>3
    <3>2. Divides(g, q * b + r)
      BY <2>1, <2>4, <3>1, DividesSum, Zenon
    <3> QED
      BY <2>1, <3>2
  <2>6. ASSUME NEW p \in Int, Divides(p, a), Divides(p, b) PROVE Divides(p, g)
    <3>1. r = (-q) * b + a /\ -q \in Int
      BY <2>1
    <3>2. Divides(p, (-q) * b + a)
      <4>1. a \in Int /\ b \in Int
        OBVIOUS
      <4> QED
        BY <2>6, <3>1, <4>1, DividesSum, Zenon
    <3> QED
      BY <2>4, <2>6, <3>1, <3>2
  <2> QED
    BY <2>2, <2>4, <2>5, <2>6
<1>3. 0 \in S
  <2>1. \A b \in Nat : b <= 0 => b = 0
    OBVIOUS
  <2> HIDE DEF Good
  <2> QED
    BY <1>1, <2>1
<1>4. ASSUME NEW k \in S PROVE k + 1 \in S
  <2>1. k \in Nat /\ \A b \in Nat, a \in Nat : b <= k => Good(a, b)
    OBVIOUS
  <2> HIDE DEF S
  <2>2. ASSUME NEW a \in Nat PROVE Good(a, k + 1)
    <3> DEFINE b == k + 1
               r == a % b
    <3>1. b \in Nat /\ b > 0
      BY <2>1
    <3>2. r \in Nat /\ r < b
      BY <3>1, FloorDivision
    <3>3. r <= k
      <4> HIDE DEF r
      <4> QED
        BY <2>1, <3>2
    <3> HIDE DEF b, Good
    <3>4. Good(b, r)
      <4> HIDE DEF r
      <4> QED
        BY <2>1, <3>1, <3>2, <3>3
    <3>5. Good(a, b)
      BY <1>2, <3>1, <3>4
    <3> QED
      BY <3>5 DEF b
  <2> HIDE DEF Good
  <2>3. \A b \in Nat, a \in Nat : b <= k + 1 => Good(a, b)
    <3> TAKE b \in Nat, a \in Nat
    <3>1. b <= k + 1 => b <= k \/ b = k + 1
      BY <2>1
    <3> QED
      BY <2>1, <2>2, <3>1
  <2> QED
    BY <2>1, <2>3 DEF S
<1>5. S = Nat
  <2> HIDE DEF S
  <2>1. S \in SUBSET Nat
    BY DEF S
  <2> QED
    BY <1>3, <1>4, <2>1, Induction
<1>6. Good(m, n)
  <2> HIDE DEF Good
  <2>1. n \in S
    <3> HIDE DEF S
    <3> QED
      BY <1>5
  <2> QED
    BY <2>1
<1>7. n > 0 => Gcd(m, n) # 0
  <2> DEFINE g == Gcd(m, n)
  <2>1. PICK k \in Int : n = k * g
    BY <1>6 DEF Divides
  <2> HIDE DEF g
  <2>2. g = 0 => k * g = 0
    OBVIOUS
  <2> QED
    BY <2>1, <2>2 DEF g
<1>8. Gcd(m, n) \in Nat
  BY GcdStep
<1> QED
  BY <1>6, <1>7, <1>8

\* removeFactor divides by the factor while it can.
LEMMA RemovedStep ==
    ASSUME NEW factor \in Nat, factor > 1, NEW v \in Nat
    PROVE  /\ Removed(v, factor) \in [left : Nat, count : Nat]
           /\ v = 0 \/ v % factor # 0 => Removed(v, factor) = [left |-> v, count |-> 0]
           /\ v # 0 /\ v % factor = 0 =>
                /\ v \div factor \in Nat /\ v \div factor < v
                /\ Removed(v, factor) = [Removed(v \div factor, factor) EXCEPT !.count = @ + 1]
<1> DEFINE S == [left : Nat, count : Nat]
           Ends(n) == n = 0 \/ n % factor # 0
           rule == [n \in Nat |-> [f \in [Nat -> S] |->
                      IF Ends(n) THEN [left |-> n, count |-> 0]
                      ELSE [f[n \div factor] EXCEPT !.count = @ + 1]]]
           any == [left |-> 0, count |-> 0]
           removed == CHOOSE f : f = [n \in Nat |->
                        IF n = 0 \/ n % factor # 0 THEN [left |-> n, count |-> 0]
                        ELSE [f[n \div factor] EXCEPT !.count = @ + 1]]
<1>1. ASSUME NEW n \in Nat, ~Ends(n) PROVE n \div factor \in Nat /\ n \div factor < n
  <2> DEFINE q == n \div factor
  <2>1. q \in Int /\ n = q * factor + (n % factor) /\ q >= 0
    BY FloorDivision
  <2>2. n % factor = 0 /\ n # 0
    BY <1>1
  <2> HIDE DEF q
  <2>3. n = q * factor /\ q # 0
    <3>1. q = 0 => q * factor = 0
      OBVIOUS
    <3>2. q * factor \in Int
      BY <2>1
    <3> QED
      BY <2>1, <2>2, <3>1, <3>2
  <2>4. q * factor > q
    <3>1. factor - 1 > 0 /\ factor - 1 \in Int /\ q > 0
      BY <2>1, <2>3
    <3>2. q * factor = q + q * (factor - 1)
      BY <2>1
    <3>3. q * (factor - 1) > 0
      <4> DEFINE e == factor - 1
      <4>1. e \in Int /\ e > 0
        BY <3>1
      <4> HIDE DEF e
      <4>2. q * e > 0
        BY <2>1, <3>1, <4>1
      <4> QED
        BY <4>2 DEF e
    <3>4. q * (factor - 1) \in Int
      BY <2>1, <3>1
    <3> QED
      BY <2>1, <3>2, <3>3, <3>4
  <2> QED
    BY <2>1, <2>3, <2>4 DEF q
<1> HIDE DEF Ends
<1>2. ASSUME NEW n \in Nat, NEW f \in [Nat -> S]
      PROVE  /\ rule[n][f] = IF Ends(n) THEN [left |-> n, count |-> 0]
                             ELSE [f[n \div factor] EXCEPT !.count = @ + 1]
             /\ rule[n][f] \in S
  <2>1. rule[n][f] = IF Ends(n) THEN [left |-> n, count |-> 0]
                     ELSE [f[n \div factor] EXCEPT !.count = @ + 1]
    OBVIOUS
  <2> HIDE DEF rule
  <2>2. CASE Ends(n)
    BY <2>1, <2>2
  <2>3. CASE ~Ends(n)
    <3> DEFINE r == f[n \div factor]
    <3>1. r \in S
      BY <1>1, <2>3
    <3>2. rule[n][f] = [r EXCEPT !.count = @ + 1]
      BY <2>1, <2>3
    <3> HIDE DEF r
    <3>3. [r EXCEPT !.count = @ + 1] \in S
      <4>1. r.count + 1 \in Nat
        BY <3>1
      <4> QED
        BY <3>1, <4>1
    <3> QED
      BY <2>1, <2>3, <3>2, <3>3
  <2> QED
    BY <2>2, <2>3
<1>3. LooksBack(rule, S)
  <2>1. rule \in [Nat -> [[Nat -> S] -> S]]
    <3>1. \A n \in Nat : rule[n] = [f \in [Nat -> S] |-> rule[n][f]]
      OBVIOUS
    <3>2. rule = [n \in Nat |-> rule[n]]
      OBVIOUS
    <3> HIDE DEF rule, S
    <3>3. \A n \in Nat : rule[n] \in [[Nat -> S] -> S]
      BY <1>2, <3>1
    <3> QED
      BY <3>2, <3>3
  <2>2. ASSUME NEW n \in Nat, NEW f \in [Nat -> S], NEW g \in [Nat -> S],
               \A k \in Nat : k < n => f[k] = g[k]
        PROVE  rule[n][f] = rule[n][g]
    <3>1. ~Ends(n) => f[n \div factor] = g[n \div factor]
      BY <1>1, <2>2
    <3>2. /\ rule[n][f] = IF Ends(n) THEN [left |-> n, count |-> 0]
                           ELSE [f[n \div factor] EXCEPT !.count = @ + 1]
          /\ rule[n][g] = IF Ends(n) THEN [left |-> n, count |-> 0]
                           ELSE [g[n \div factor] EXCEPT !.count = @ + 1]
      BY <1>2
    <3> HIDE DEF rule, S
    <3>3. CASE Ends(n)
      BY <3>2, <3>3
    <3>4. CASE ~Ends(n)
      BY <3>1, <3>2, <3>4
    <3> QED
      BY <3>3, <3>4
  <2> HIDE DEF rule, S
  <2> QED
    BY <2>1, <2>2 DEF LooksBack
<1>4. PICK f : Follows(f, rule, S)
  <2>1. any \in S
    OBVIOUS
  <2> HIDE DEF S, rule, any
  <2> QED
    BY <1>3, <2>1, CourseOfValues
<1>5. f \in [Nat -> S] /\ \A n \in Nat : f[n] = IF Ends(n) THEN [left |-> n, count |-> 0]
                                              ELSE [f[n \div factor] EXCEPT !.count = @ + 1]
  <2>1. f \in [Nat -> S] /\ \A n \in Nat : f[n] = rule[n][f]
    BY <1>4 DEF Follows
  <2> HIDE DEF rule, S
  <2> QED
    BY <1>2, <2>1
<1>6. f = [n \in Nat |-> IF n = 0 \/ n % factor # 0 THEN [left |-> n, count |-> 0]
                         ELSE [f[n \div factor] EXCEPT !.count = @ + 1]]
  <2> HIDE DEF S, rule
  <2> QED
    BY <1>5 DEF Ends
<1>7. removed = [n \in Nat |-> IF n = 0 \/ n % factor # 0 THEN [left |-> n, count |-> 0]
                               ELSE [removed[n \div factor] EXCEPT !.count = @ + 1]]
  BY <1>6 DEF removed
<1>8. \A n \in Nat : Removed(n, factor) = removed[n]
  BY DEF Removed
<1> HIDE DEF removed, rule
<1>9. \A n \in Nat : removed[n] = IF Ends(n) THEN [left |-> n, count |-> 0]
                                  ELSE [removed[n \div factor] EXCEPT !.count = @ + 1]
  <2> TAKE n \in Nat
  <2> QED
    BY <1>7, Zenon DEF Ends
<1> DEFINE Typed == {n \in Nat : \A k \in Nat : k <= n => removed[k] \in S}
<1>10. Typed = Nat
  <2>1. ASSUME NEW n \in Nat, \A k \in Nat : k < n => removed[k] \in S
        PROVE  removed[n] \in S
    <3>1. CASE Ends(n)
      <4>1. removed[n] = [left |-> n, count |-> 0]
        BY <1>9, <3>1
      <4> QED
        BY <4>1
    <3>2. CASE ~Ends(n)
      <4>1. removed[n \div factor] \in S
        BY <1>1, <2>1, <3>2
      <4>2. removed[n] = [removed[n \div factor] EXCEPT !.count = @ + 1]
        BY <1>9, <3>2
      <4> QED
        BY <4>1, <4>2
    <3> QED
      BY <3>1, <3>2
  <2>2. 0 \in Typed
    <3>1. \A k \in Nat : ~(k < 0) /\ (k <= 0 => k = 0)
      OBVIOUS
    <3> HIDE DEF S
    <3> QED
      BY <2>1, <3>1
  <2>3. ASSUME NEW n \in Typed PROVE n + 1 \in Typed
    <3>1. n \in Nat /\ \A k \in Nat : k <= n => removed[k] \in S
      OBVIOUS
    <3>2. \A k \in Nat : (k < n + 1 => k <= n) /\ (k <= n + 1 => k <= n \/ k = n + 1)
      BY <3>1
    <3> HIDE DEF S, Typed
    <3>3. removed[n + 1] \in S
      <4>1. n + 1 \in Nat /\ \A k \in Nat : k < n + 1 => removed[k] \in S
        BY <3>1, <3>2
      <4> QED
        BY <2>1, <4>1
    <3> QED
      BY <3>1, <3>2, <3>3 DEF Typed
  <2> HIDE DEF Typed
  <2>4. Typed \in SUBSET Nat
    BY DEF Typed
  <2> QED
    BY <2>2, <2>3, <2>4, Induction
<1>11. removed[v] \in S
  <2>1. v \in Typed
    <3> HIDE DEF Typed
    <3> QED
      BY <1>10
  <2> HIDE DEF S
  <2> QED
    BY <2>1
<1>12. ASSUME v # 0, v % factor = 0
       PROVE  /\ v \div factor \in Nat /\ v \div factor < v
              /\ Removed(v, factor) = [Removed(v \div factor, factor) EXCEPT !.count = @ + 1]
  <2>1. ~Ends(v)
    BY <1>12 DEF Ends
  <2>2. v \div factor \in Nat /\ v \div factor < v
    BY <1>1, <2>1
  <2>3. removed[v] = [removed[v \div factor] EXCEPT !.count = @ + 1]
    BY <1>9, <2>1
  <2> QED
    BY <1>8, <2>2, <2>3
<1>13. v = 0 \/ v % factor # 0 => Removed(v, factor) = [left |-> v, count |-> 0]
  BY <1>8, <1>9 DEF Ends
<1> QED
  BY <1>8, <1>11, <1>12, <1>13

\* The value is what is left of it times as many factors as were counted.
LEMMA RemovedFactors ==
    ASSUME NEW factor \in Nat, factor > 1, NEW v \in Nat \ {0}
    PROVE  /\ Removed(v, factor).left \in Nat \ {0} /\ Removed(v, factor).count \in Nat
           /\ v = Powers(factor)[Removed(v, factor).count] * Removed(v, factor).left
           /\ Removed(v, factor).left % factor # 0
<1> DEFINE r(n) == Removed(n, factor)
           p    == Powers(factor)
           Good(n) == /\ r(n).left \in Nat \ {0} /\ r(n).count \in Nat
                      /\ n = p[r(n).count] * r(n).left /\ r(n).left % factor # 0
           S == {n \in Nat : \A k \in Nat \ {0} : k <= n => Good(k)}
<1>1. p \in [Nat -> Int] /\ p[0] = 1 /\ \A k \in Nat : p[k + 1] = factor * p[k]
  BY PowersStep
<1> HIDE DEF p
<1>2. ASSUME NEW n \in Nat \ {0}, \A k \in Nat \ {0} : k < n => Good(k)
      PROVE  Good(n)
  <2>1. CASE n % factor # 0
    <3>1. r(n) = [left |-> n, count |-> 0]
      BY <2>1, RemovedStep
    <3> QED
      BY <1>1, <2>1, <3>1
  <2>2. CASE n % factor = 0
    <3> DEFINE q == n \div factor
    <3>1. q \in Nat /\ q < n /\ r(n) = [r(q) EXCEPT !.count = @ + 1] /\ r(q) \in [left : Nat, count : Nat]
      BY <2>2, RemovedStep
    <3>2. n = q * factor
      <4>1. n = q * factor + (n % factor) /\ q \in Int
        BY FloorDivision
      <4> HIDE DEF q
      <4> QED
        BY <2>2, <4>1
    <3> HIDE DEF q
    <3>3. q # 0
      <4>1. q = 0 => q * factor = 0
        OBVIOUS
      <4> QED
        BY <3>2, <4>1
    <3>4. Good(q)
      BY <1>2, <3>1, <3>3
    <3> DEFINE c == r(q).count
               l == r(q).left
    <3>5. r(n).left = l /\ r(n).count = c + 1 /\ c \in Nat /\ l \in Nat
      BY <3>1
    <3>6. q = p[c] * l /\ l # 0 /\ l % factor # 0
      BY <3>4
    <3> HIDE DEF c, l
    <3>7. n = p[c + 1] * l
      <4> DEFINE x == p[c]
      <4>1. x \in Int /\ p[c + 1] = factor * x
        BY <1>1, <3>5
      <4> HIDE DEF x
      <4>2. (x * l) * factor = (factor * x) * l
        BY <3>5, <4>1
      <4> QED
        BY <3>2, <3>6, <4>1, <4>2 DEF x
    <3>8. c + 1 \in Nat
      BY <3>5
    <3> QED
      BY <3>5, <3>6, <3>7, <3>8
  <2> QED
    BY <2>1, <2>2
<1> HIDE DEF Good
<1>3. 0 \in S
  <2>1. \A k \in Nat \ {0} : ~(k <= 0)
    OBVIOUS
  <2> QED
    BY <2>1
<1>4. ASSUME NEW n \in S PROVE n + 1 \in S
  <2>1. n \in Nat /\ \A k \in Nat \ {0} : k <= n => Good(k)
    OBVIOUS
  <2> HIDE DEF S
  <2>2. n + 1 \in Nat \ {0} /\ \A k \in Nat : (k < n + 1 => k <= n) /\ (k <= n + 1 => k <= n \/ k = n + 1)
    BY <2>1
  <2>3. Good(n + 1)
    <3>1. \A k \in Nat \ {0} : k < n + 1 => Good(k)
      BY <2>1, <2>2
    <3> QED
      BY <1>2, <2>2, <3>1
  <2> QED
    BY <2>1, <2>2, <2>3 DEF S
<1>5. S = Nat
  <2> HIDE DEF S
  <2>1. S \in SUBSET Nat
    BY DEF S
  <2> QED
    BY <1>3, <1>4, <2>1, Induction
<1>6. v \in S
  <2> HIDE DEF S
  <2> QED
    BY <1>5
<1>7. Good(v)
  BY <1>6
<1> QED
  BY <1>7 DEF Good, p

-----------------------------------------------------------------------------
(* Fractions that end in base ten. *)

\* A divisor that is neither even nor a multiple of five has no part in a factor ten.
LEMMA TenStripped ==
    ASSUME NEW r \in Nat, r % 2 # 0, r % 5 # 0, NEW m \in Int, Divides(r, m * 10)
    PROVE  Divides(r, m)
<1>1. PICK k \in Int : m * 10 = k * r
  BY DEF Divides
<1> DEFINE a == k \div 2
           b == r \div 2
           e == k % 2
<1>2. a \in Int /\ b \in Int /\ e \in {0, 1} /\ k = 2 * a + e /\ r = 2 * b + 1
  <2>1. k = a * 2 + e /\ a \in Int /\ e \in Int /\ 0 <= e /\ e < 2
    BY FloorDivision
  <2>2. r = b * 2 + (r % 2) /\ b \in Int /\ r % 2 \in Int /\ 0 <= r % 2 /\ r % 2 < 2
    BY FloorDivision
  <2>3. r % 2 = 1
    BY <2>2
  <2> HIDE DEF a, b, e
  <2> QED
    BY <2>1, <2>2, <2>3
<1> HIDE DEF a, b, e
<1>3. e = 0 /\ m * 5 = a * r
  <2> DEFINE y == a * r
  <2>1. y \in Int /\ (2 * a + e) * r = 2 * y + e * r
    BY <1>2
  <2>2. e = 1 => e * r = 2 * b + 1
    BY <1>2
  <2>3. e = 0 => e * r = 0
    BY <1>2
  <2> HIDE DEF y
  <2>4. m * 10 = 2 * y + e * r
    BY <1>1, <1>2, <2>1
  <2> QED
    BY <1>2, <2>1, <2>2, <2>3, <2>4 DEF y
<1> DEFINE c == a \div 5
           f == a % 5
           d == r \div 5
           g == r % 5
<1>4. c \in Int /\ d \in Int /\ f \in {0, 1, 2, 3, 4} /\ g \in {1, 2, 3, 4} /\ a = 5 * c + f /\ r = 5 * d + g
  <2>1. a = c * 5 + f /\ c \in Int /\ f \in Int /\ 0 <= f /\ f < 5
    BY <1>2, FloorDivision
  <2>2. r = d * 5 + g /\ d \in Int /\ g \in Int /\ 0 <= g /\ g < 5
    BY FloorDivision
  <2>3. g # 0
    OBVIOUS
  <2> HIDE DEF c, d, f, g
  <2> QED
    BY <2>1, <2>2, <2>3
<1> HIDE DEF c, d, f, g
<1>5. m * 5 = 5 * (c * r + f * d) + f * g
  <2>1. (5 * c + f) * r = 5 * (c * r) + f * r
    BY <1>4
  <2>2. f * (5 * d + g) = 5 * (f * d) + f * g
    BY <1>4
  <2>3. c * r \in Int /\ f * d \in Int /\ f * g \in Int /\ f \in Int /\ g \in Int
    BY <1>4
  <2> QED
    BY <1>3, <1>4, <2>1, <2>2, <2>3
<1>6. f = 0
  <2> DEFINE z == c * r + f * d
  <2>1. z \in Int
    BY <1>4
  <2> HIDE DEF z
  <2>2. m * 5 = 5 * z + f * g
    BY <1>5 DEF z
  <2>3. CASE g = 1
    BY <1>4, <2>1, <2>2, <2>3
  <2>4. CASE g = 2
    BY <1>4, <2>1, <2>2, <2>4
  <2>5. CASE g = 3
    BY <1>4, <2>1, <2>2, <2>5
  <2>6. CASE g = 4
    BY <1>4, <2>1, <2>2, <2>6
  <2> QED
    BY <1>4, <2>3, <2>4, <2>5, <2>6
<1>7. m = c * r
  <2> DEFINE y == c * r
  <2>1. y \in Int /\ f * d = 0 /\ f * g = 0
    BY <1>4, <1>6
  <2> HIDE DEF y
  <2>2. m * 5 = 5 * y
    BY <1>5, <2>1 DEF y
  <2> QED
    BY <2>1, <2>2 DEF y
<1> QED
  BY <1>4, <1>7 DEF Divides

\* Of all powers of ten as well.
LEMMA TensStripped ==
    ASSUME NEW T, NEW w \in Nat, PowersOfTen(T, w), NEW r \in Nat, r % 2 # 0, r % 5 # 0,
           NEW m \in Int, NEW s \in 0 .. w, Divides(r, m * T[s])
    PROVE  Divides(r, m)
<1> DEFINE S == {k \in Nat : k <= w => (Divides(r, m * T[k]) => Divides(r, m))}
<1>1. 0 \in S
  <2>1. T[0] = 1
    BY DEF PowersOfTen
  <2>2. m * 1 = m
    OBVIOUS
  <2> QED
    BY <2>1, <2>2
<1>2. ASSUME NEW k \in S PROVE k + 1 \in S
  <2> SUFFICES ASSUME k + 1 <= w, Divides(r, m * T[k + 1]) PROVE Divides(r, m)
    OBVIOUS
  <2> DEFINE x == m * T[k]
  <2>1. T[k] \in Nat /\ T[k + 1] = 10 * T[k] /\ k <= w
    BY PowerStep
  <2>2. x \in Int /\ m * T[k + 1] = x * 10
    <3> DEFINE y == T[k]
    <3>1. y \in Nat => m * y \in Int /\ m * (10 * y) = (m * y) * 10
      OBVIOUS
    <3> QED
      BY <2>1, <3>1
  <2> HIDE DEF x
  <2>3. Divides(r, x)
    BY <2>2, TenStripped
  <2> QED
    BY <2>1, <2>3 DEF x
<1>3. S = Nat
  <2> HIDE DEF S
  <2>1. S \in SUBSET Nat
    BY DEF S
  <2> QED
    BY <1>1, <1>2, <2>1, Induction
<1>4. s \in S
  <2> HIDE DEF S
  <2> QED
    BY <1>3
<1> QED
  BY <1>4

\* The powers of a base multiply by adding exponents.
LEMMA PowersProduct ==
    ASSUME NEW b \in Nat \ {0}, NEW m \in Nat, NEW n \in Nat
    PROVE  /\ Powers(b)[m] \in Nat \ {0}
           /\ Powers(b)[m + n] = Powers(b)[m] * Powers(b)[n]
<1> DEFINE p == Powers(b)
           S == {k \in Nat : p[k] \in Nat \ {0}}
           U == {k \in Nat : p[m + k] = p[m] * p[k]}
<1>1. p \in [Nat -> Int] /\ p[0] = 1 /\ \A k \in Nat : p[k + 1] = b * p[k]
  BY PowersStep
<1> HIDE DEF p
<1>2. S = Nat
  <2>1. 0 \in S
    BY <1>1
  <2>2. ASSUME NEW k \in S PROVE k + 1 \in S
    <3>1. p[k] \in Nat \ {0} /\ p[k + 1] = b * p[k]
      BY <1>1
    <3>2. \A x \in Nat \ {0} : b * x \in Nat \ {0}
      OBVIOUS
    <3> QED
      BY <3>1, <3>2
  <2> HIDE DEF S
  <2>3. S \in SUBSET Nat
    BY DEF S
  <2> QED
    BY <2>1, <2>2, <2>3, Induction
<1>3. U = Nat
  <2>1. 0 \in U
    BY <1>1
  <2>2. ASSUME NEW k \in U PROVE k + 1 \in U
    <3>1. m + k \in Nat /\ m + (k + 1) = (m + k) + 1
      OBVIOUS
    <3>2. p[m + k] = p[m] * p[k] /\ p[m + (k + 1)] = b * p[m + k] /\ p[k + 1] = b * p[k]
      BY <1>1, <3>1
    <3>3. \A x, y \in Int : b * (x * y) = x * (b * y)
      OBVIOUS
    <3>4. p[m] \in Int /\ p[k] \in Int
      BY <1>1
    <3> QED
      BY <3>2, <3>3, <3>4
  <2> HIDE DEF U
  <2>3. U \in SUBSET Nat
    BY DEF U
  <2> QED
    BY <2>1, <2>2, <2>3, Induction
<1>4. m \in S /\ n \in U
  <2> HIDE DEF S, U
  <2> QED
    BY <1>2, <1>3
<1> QED
  BY <1>4 DEF p

\* The table of powers of ten, by its two factors.
LEMMA TenIsTwoTimesFive ==
    ASSUME NEW T, NEW w \in Nat, PowersOfTen(T, w), NEW s \in 0 .. w
    PROVE  T[s] = Powers(2)[s] * Powers(5)[s]
<1> DEFINE p == Powers(2)
           q == Powers(5)
           S == {k \in Nat : k <= w => T[k] = p[k] * q[k]}
<1>1. /\ p \in [Nat -> Int] /\ p[0] = 1 /\ \A k \in Nat : p[k + 1] = 2 * p[k]
      /\ q \in [Nat -> Int] /\ q[0] = 1 /\ \A k \in Nat : q[k + 1] = 5 * q[k]
  <2>1. 2 \in Int /\ 5 \in Int
    OBVIOUS
  <2> QED
    BY <2>1, PowersStep
<1> HIDE DEF p, q
<1>2. 0 \in S
  BY <1>1 DEF PowersOfTen
<1>3. ASSUME NEW k \in S PROVE k + 1 \in S
  <2> SUFFICES ASSUME k + 1 <= w PROVE T[k + 1] = p[k + 1] * q[k + 1]
    OBVIOUS
  <2>1. T[k + 1] = 10 * T[k] /\ T[k] = p[k] * q[k]
    BY PowerStep
  <2>2. \A x, y \in Int : 10 * (x * y) = (2 * x) * (5 * y)
    OBVIOUS
  <2>3. p[k] \in Int /\ q[k] \in Int /\ p[k + 1] = 2 * p[k] /\ q[k + 1] = 5 * q[k]
    BY <1>1
  <2> QED
    BY <2>1, <2>2, <2>3
<1>4. S = Nat
  <2> HIDE DEF S
  <2>1. S \in SUBSET Nat
    BY DEF S
  <2> QED
    BY <1>2, <1>3, <2>1, Induction
<1>5. s \in S
  <2> HIDE DEF S
  <2> QED
    BY <1>4
<1> QED
  BY <1>5 DEF p, q

\* There is no remainder exactly when the divisor divides.
LEMMA NoRemainder ==
    ASSUME NEW num \in Int, NEW den \in Int \ {0}
    PROVE  /\ Rem(num, den) = 0 <=> Divides(den, num)
           /\ Rem(num, den) = 0 => num = Quo(num, den) * den
           /\ Quo(num, den) \in Int /\ Rem(num, den) \in Int
<1>1. Quo(num, den) \in Int
  BY NegatedDivisor
<1> DEFINE q == Quo(num, den)
<1>2. Rem(num, den) = num - q * den
  BY DEF Rem
<1> HIDE DEF q
<1>3. Rem(num, den) \in Int /\ (Rem(num, den) = 0 => num = q * den)
  <2>1. q * den \in Int
    BY <1>1 DEF q
  <2> QED
    BY <1>2, <2>1
<1>4. Divides(den, num) => Rem(num, den) = 0
  BY ExactQuotient DEF Divides
<1> QED
  BY <1>1, <1>3, <1>4 DEF Divides, q

\* A fraction divided by the greatest divisor of its two numbers is in lowest terms.
LEMMA LowestTermsShare ==
    ASSUME NEW num \in Int, NEW den \in Nat \ {0}
    PROVE  LET g == Gcd(Magnitude(num), den)
               n == Quo(num, g)
               d == den \div g
           IN  /\ g \in Nat \ {0} /\ n \in Int /\ d \in Nat \ {0}
               /\ num = n * g /\ den = d * g
               /\ \A r \in Nat : Divides(r, n) /\ Divides(r, d) => r = 1
<1> DEFINE g == Gcd(Magnitude(num), den)
           n == Quo(num, g)
           d == den \div g
<1>1. Magnitude(num) \in Nat
  BY DEF Magnitude
<1>2. /\ g \in Nat \ {0} /\ Divides(g, Magnitude(num)) /\ Divides(g, den)
      /\ \A p \in Int : Divides(p, Magnitude(num)) /\ Divides(p, den) => Divides(p, g)
  <2> DEFINE m == Magnitude(num)
  <2>1. m \in Nat /\ den \in Nat /\ den > 0
    BY <1>1
  <2> HIDE DEF m
  <2>2. /\ Gcd(m, den) \in Nat /\ Gcd(m, den) > 0
        /\ Divides(Gcd(m, den), m) /\ Divides(Gcd(m, den), den)
        /\ \A p \in Int : Divides(p, m) /\ Divides(p, den) => Divides(p, Gcd(m, den))
    BY <2>1, GcdIsGreatest
  <2> QED
    BY <2>2 DEF m
<1> HIDE DEF g
<1>3. ASSUME NEW p \in Int PROVE Divides(p, num) <=> Divides(p, Magnitude(num))
  <2>1. \A k \in Int : -k \in Int /\ (-k) * p = -(k * p) /\ k * p \in Int
    OBVIOUS
  <2>2. \A k \in Int : num = k * p <=> -num = (-k) * p
    BY <2>1
  <2>3. \A k \in Int : num = (-k) * p <=> -num = k * p
    BY <2>1
  <2> QED
    BY <2>1, <2>2, <2>3 DEF Divides, Magnitude
<1>4. num = n * g /\ n \in Int
  <2>1. Divides(g, num) /\ g \in Int \ {0}
    BY <1>2, <1>3
  <2> QED
    BY <2>1, NoRemainder
<1>5. den = d * g /\ d \in Nat \ {0}
  <2>1. PICK k \in Int : den = k * g
    BY <1>2 DEF Divides
  <2>2. k > 0
    <3>1. k <= 0 => k * g <= 0
      BY <1>2
    <3> QED
      BY <2>1, <3>1
  <2>3. (k * g) \div g = k
    BY <1>2, <2>2
  <2> QED
    BY <2>1, <2>2, <2>3
<1> HIDE DEF n, d
<1>6. ASSUME NEW r \in Nat, Divides(r, n), Divides(r, d) PROVE r = 1
  <2>1. PICK x \in Int : n = x * r
    BY <1>6 DEF Divides
  <2>2. PICK y \in Int : d = y * r
    BY <1>6 DEF Divides
  <2> DEFINE p == r * g
  <2>3. p \in Int /\ (x * r) * g = x * p /\ (y * r) * g = y * p
    BY <1>2
  <2> HIDE DEF p
  <2>4. Divides(p, num) /\ Divides(p, den)
    BY <1>4, <1>5, <2>1, <2>2, <2>3 DEF Divides
  <2>5. Divides(p, g)
    BY <1>2, <1>3, <2>3, <2>4
  <2>6. PICK z \in Int : g = z * p
    BY <2>5 DEF Divides
  <2>7. g = (z * r) * g /\ z * r \in Int
    <3>1. z * (r * g) = (z * r) * g
      BY <1>2
    <3> QED
      BY <2>6, <3>1 DEF p
  <2>8. z * r = 1
    <3> DEFINE c == z * r
    <3>1. c \in Int /\ 1 * g = c * g
      BY <1>2, <2>7
    <3> HIDE DEF c
    <3>2. 1 = c
      BY <1>2, <3>1, ScaledOrder
    <3> QED
      BY <3>2 DEF c
  <2>9. r # 0 /\ z > 0
    <3>1. r = 0 => z * r = 0
      OBVIOUS
    <3>2. z <= 0 => z * r <= 0
      OBVIOUS
    <3> QED
      BY <2>8, <3>1, <3>2
  <2>10. r >= 2 => z * r >= 2
    BY <2>9
  <2> QED
    BY <2>8, <2>9, <2>10
<1> QED
  BY <1>2, <1>4, <1>5, <1>6 DEF n, d, g

\* What a number is divided by is not taken from it by a product.
LEMMA DividesProduct ==
    ASSUME NEW p \in Int, NEW a \in Int, NEW c \in Int, Divides(p, a)
    PROVE  Divides(p, c * a)
<1>1. PICK k \in Int : a = k * p
  BY DEF Divides
<1>2. c * (k * p) = (c * k) * p /\ c * k \in Int
  OBVIOUS
<1> QED
  BY <1>1, <1>2 DEF Divides

\* num/den as n/d in lowest terms, and d as 2^t * 5^f * r
LEMMA Factored ==
    ASSUME NEW num \in Int, NEW den \in Nat \ {0}
    PROVE  LET g     == Gcd(Magnitude(num), den)
               n     == Quo(num, g)
               d     == den \div g
               twos  == Removed(d, 2)
               fives == Removed(twos.left, 5)
               t     == twos.count
               f     == fives.count
               r     == fives.left
           IN  /\ g \in Nat \ {0} /\ n \in Int /\ d \in Nat \ {0}
               /\ num = n * g /\ den = d * g
               /\ t \in Nat /\ f \in Nat /\ r \in Nat \ {0} /\ r % 2 # 0 /\ r % 5 # 0
               /\ d = Powers(2)[t] * (Powers(5)[f] * r)
               /\ Powers(2)[t] \in Nat \ {0} /\ Powers(5)[f] \in Nat \ {0}
               /\ \A x \in Nat : Divides(x, n) /\ Divides(x, d) => x = 1
               /\ d = 1 => t = 0 /\ f = 0 /\ r = 1
<1> DEFINE g     == Gcd(Magnitude(num), den)
           n     == Quo(num, g)
           d     == den \div g
           twos  == Removed(d, 2)
           fives == Removed(twos.left, 5)
           t     == twos.count
           f     == fives.count
           r     == fives.left
<1>1. /\ g \in Nat \ {0} /\ n \in Int /\ d \in Nat \ {0}
      /\ num = n * g /\ den = d * g
      /\ \A x \in Nat : Divides(x, n) /\ Divides(x, d) => x = 1
  BY LowestTermsShare
<1> HIDE DEF g, n, d
<1>2. /\ twos.left \in Nat \ {0} /\ t \in Nat /\ d = Powers(2)[t] * twos.left /\ twos.left % 2 # 0
  <2>1. 2 \in Nat /\ 2 > 1
    OBVIOUS
  <2> QED
    BY <1>1, <2>1, RemovedFactors
<1> DEFINE o == twos.left
<1> HIDE DEF twos
<1>3. /\ r \in Nat \ {0} /\ f \in Nat /\ o = Powers(5)[f] * r /\ r % 5 # 0
  <2>1. 5 \in Nat /\ 5 > 1 /\ o \in Nat \ {0}
    BY <1>2
  <2> HIDE DEF o
  <2>2. fives = Removed(o, 5)
    BY DEF o
  <2> HIDE DEF fives
  <2> QED
    BY <2>1, <2>2, RemovedFactors
<1> HIDE DEF fives
<1>4. Powers(2)[t] \in Nat \ {0} /\ Powers(5)[f] \in Nat \ {0}
  <2>1. 2 \in Nat \ {0} /\ 5 \in Nat \ {0} /\ 0 \in Nat
    OBVIOUS
  <2> HIDE DEF t, f
  <2>2. Powers(2)[t] \in Nat \ {0}
    BY <1>2, <2>1, PowersProduct
  <2>3. Powers(5)[f] \in Nat \ {0}
    BY <1>3, <2>1, PowersProduct
  <2> QED
    BY <2>2, <2>3
<1>5. r % 2 # 0
  <2> DEFINE p == Powers(5)[f]
  <2> HIDE DEF p, r, o
  <2>1. p \in Nat /\ r \in Nat /\ o = p * r /\ o \in Nat /\ o % 2 # 0
    BY <1>2, <1>3, <1>4 DEF p, o
  <2>2. SUFFICES ASSUME r % 2 = 0 PROVE FALSE
    OBVIOUS
  <2>3. r = (r \div 2) * 2 + (r % 2) /\ r \div 2 \in Int
    BY <2>1, FloorDivision
  <2> DEFINE h == r \div 2
             y == p * h
  <2>4. y \in Int /\ p * (2 * h) = 2 * y /\ r = 2 * h
    <3> HIDE DEF h
    <3> QED
      BY <2>1, <2>2, <2>3 DEF h
  <2> HIDE DEF h, y
  <2>5. o = 2 * y
    BY <2>1, <2>4
  <2> QED
    BY <2>1, <2>4, <2>5
<1>6. d = 1 => t = 0 /\ f = 0 /\ r = 1
  <2> SUFFICES ASSUME d = 1 PROVE t = 0 /\ f = 0 /\ r = 1
    OBVIOUS
  <2>1. Removed(1, 2) = [left |-> 1, count |-> 0]
    <3>1. 2 \in Nat /\ 2 > 1 /\ 1 \in Nat /\ 1 % 2 # 0
      OBVIOUS
    <3> QED
      BY <3>1, RemovedStep
  <2>2. Removed(1, 5) = [left |-> 1, count |-> 0]
    <3>1. 5 \in Nat /\ 5 > 1 /\ 1 \in Nat /\ 1 % 5 # 0
      OBVIOUS
    <3> QED
      BY <3>1, RemovedStep
  <2>3. twos = [left |-> 1, count |-> 0]
    BY <2>1 DEF twos
  <2>4. fives = [left |-> 1, count |-> 0]
    BY <2>2, <2>3 DEF fives
  <2> QED
    BY <2>3, <2>4
<1>7. d = Powers(2)[t] * (Powers(5)[f] * r)
  BY <1>2, <1>3
<1> QED
  BY <1>1, <1>2, <1>3, <1>4, <1>5, <1>6, <1>7 DEF g, n, d, twos, fives, t, f, r

\* Powers of two take nothing from what divides by five, and the other way round.
LEMMA OtherFactorStripped ==
    ASSUME NEW m \in Int, NEW s \in Nat
    PROVE  /\ Divides(2, m * Powers(5)[s]) => Divides(2, m)
           /\ Divides(5, m * Powers(2)[s]) => Divides(5, m)
<1>1. ASSUME NEW y \in Int
      PROVE  /\ Divides(2, y * 5) => Divides(2, y)
             /\ Divides(5, y * 2) => Divides(5, y)
  <2>1. ASSUME NEW k \in Int, y * 5 = k * 2 PROVE Divides(2, y)
    <3>1. k - 2 * y \in Int /\ y = (k - 2 * y) * 2
      BY <2>1
    <3> QED
      BY <3>1 DEF Divides
  <2>2. ASSUME NEW k \in Int, y * 2 = k * 5 PROVE Divides(5, y)
    <3>1. 3 * k - y \in Int /\ y = (3 * k - y) * 5
      BY <2>2
    <3> QED
      BY <3>1 DEF Divides
  <2> QED
    BY <2>1, <2>2 DEF Divides
<1>2. ASSUME NEW b \in {2, 5}, NEW j \in Nat
      PROVE  /\ m * Powers(b)[j] \in Int /\ Powers(b)[0] = 1 /\ m * 1 = m
             /\ m * Powers(b)[j + 1] = (m * Powers(b)[j]) * b
  <2>1. b \in Int
    OBVIOUS
  <2> DEFINE p == Powers(b)[j]
  <2>2. p \in Int /\ Powers(b)[0] = 1 /\ Powers(b)[j + 1] = b * p
    BY <2>1, PowersStep
  <2> HIDE DEF p
  <2>3. m * p \in Int /\ m * 1 = m /\ m * (b * p) = (m * p) * b
    BY <2>1, <2>2
  <2> QED
    BY <2>2, <2>3 DEF p
<1> DEFINE S == {j \in Nat : /\ Divides(2, m * Powers(5)[j]) => Divides(2, m)
                             /\ Divides(5, m * Powers(2)[j]) => Divides(5, m)}
<1>3. 0 \in S
  BY <1>2
<1>4. ASSUME NEW j \in S PROVE j + 1 \in S
  <2> DEFINE five == m * Powers(5)[j]
             two  == m * Powers(2)[j]
  <2>1. /\ five \in Int /\ m * Powers(5)[j + 1] = five * 5
        /\ two \in Int /\ m * Powers(2)[j + 1] = two * 2
    BY <1>2
  <2> HIDE DEF five, two
  <2>2. Divides(2, m * Powers(5)[j + 1]) => Divides(2, m)
    BY <1>1, <2>1 DEF five
  <2>3. Divides(5, m * Powers(2)[j + 1]) => Divides(5, m)
    BY <1>1, <2>1 DEF two
  <2> QED
    BY <2>2, <2>3
<1>5. S = Nat
  <2> HIDE DEF S
  <2>1. S \in SUBSET Nat
    BY DEF S
  <2> QED
    BY <1>3, <1>4, <2>1, Induction
<1> QED
  BY <1>5

\* A power that divides a multiple of a smaller one leaves a factor to the rest.
LEMMA FactorLeft ==
    ASSUME NEW b \in Nat \ {0}, NEW t \in Nat, NEW s \in Nat, s < t,
           NEW n \in Int, NEW c \in Int, NEW z \in Int, NEW k \in Int,
           n * (Powers(b)[s] * c) = k * (Powers(b)[t] * z)
    PROVE  Divides(b, n * c) /\ Divides(b, Powers(b)[t] * z)
<1> DEFINE i == t - s - 1
           p == Powers(b)[s]
           e == Powers(b)[i]
<1>1. i \in Nat /\ i + 1 \in Nat /\ s + (i + 1) = t
  OBVIOUS
<1> HIDE DEF i
<1>2. p \in Nat \ {0} /\ e \in Nat \ {0} /\ Powers(b)[t] = p * Powers(b)[i + 1]
  BY <1>1, PowersProduct
<1>3. Powers(b)[i + 1] = b * e
  BY <1>1, PowersStep
<1> HIDE DEF p, e
<1> DEFINE u == n * c
           v == k * (e * z)
           x == v * b
<1>4. /\ u \in Int /\ v \in Int /\ x \in Int /\ n * (p * c) = u * p
      /\ k * ((p * (b * e)) * z) = x * p
  <2>1. e * z \in Int /\ k * (e * z) \in Int /\ n * c \in Int
    BY <1>2
  <2>2. n * (p * c) = (n * c) * p
    BY <1>2
  <2>3. k * ((p * (b * e)) * z) = ((k * (e * z)) * b) * p
    BY <1>2
  <2> QED
    BY <2>1, <2>2, <2>3
<1>5. u * p = x * p
  BY <1>2, <1>3, <1>4 DEF p
<1>6. u = x
  <2> HIDE DEF u, x
  <2> QED
    BY <1>2, <1>4, <1>5, ScaledOrder
<1>7. Powers(b)[t] * z = ((p * e) * z) * b /\ (p * e) * z \in Int
  <2>1. (p * (b * e)) * z = ((p * e) * z) * b /\ (p * e) * z \in Int
    BY <1>2
  <2> QED
    BY <1>2, <1>3, <2>1
<1> QED
  BY <1>4, <1>6, <1>7 DEF Divides, u, v, x

\* DivExact: a fraction has a last decimal digit exactly when the denominator of its
\* lowest terms has no factor but two and five, and then these are the digits.  With
\* fewer of them than the larger count of these factors it has none.
THEOREM ExpansionIsExact ==
    ASSUME NEW T, NEW w \in Nat, PowersOfTen(T, w), NEW num \in Int, NEW den \in Nat \ {0}
    PROVE  LET g     == Gcd(Magnitude(num), den)
               n     == Quo(num, g)
               twos  == Removed(den \div g, 2)
               fives == Removed(twos.left, 5)
               t     == twos.count
               f     == fives.count
           IN  /\ n \in Int /\ t \in Nat /\ f \in Nat
               /\ fives.left # 1 => \A s \in 0 .. w : ~Divides(den, num * T[s])
               /\ fives.left = 1 => \A s \in 0 .. w :
                    t <= s /\ f <= s => /\ n * Powers(2)[s - t] * Powers(5)[s - f] \in Int
                                        /\ (n * Powers(2)[s - t] * Powers(5)[s - f]) * den = num * T[s]
               /\ \A s \in 0 .. w : Divides(den, num * T[s]) => t <= s /\ f <= s
               /\ Divides(den, num) => t = 0 /\ f = 0 /\ fives.left = 1 /\ n * den = num
<1> DEFINE g     == Gcd(Magnitude(num), den)
           n     == Quo(num, g)
           d     == den \div g
           twos  == Removed(d, 2)
           fives == Removed(twos.left, 5)
           t     == twos.count
           f     == fives.count
           r     == fives.left
           x     == Powers(2)[t]
           y     == Powers(5)[f]
<1>1. /\ g \in Nat \ {0} /\ n \in Int /\ d \in Nat \ {0}
      /\ num = n * g /\ den = d * g
      /\ t \in Nat /\ f \in Nat /\ r \in Nat \ {0} /\ r % 2 # 0 /\ r % 5 # 0
      /\ d = x * (y * r) /\ x \in Nat \ {0} /\ y \in Nat \ {0}
      /\ \A p \in Nat : Divides(p, n) /\ Divides(p, d) => p = 1
      /\ d = 1 => t = 0 /\ f = 0 /\ r = 1
  BY Factored
<1> HIDE DEF g, n, d, twos, fives, t, f, r, x, y
<1>2. ASSUME NEW c \in Int, Divides(den, num * c)
      PROVE  Divides(d, n * c)
  <2>1. PICK k \in Int : num * c = k * den
    BY <1>2 DEF Divides
  <2> DEFINE u == n * c
             v == k * d
  <2>2. u \in Int /\ v \in Int /\ (n * g) * c = u * g /\ k * (d * g) = v * g
    BY <1>1
  <2>3. u * g = v * g
    BY <1>1, <2>1, <2>2
  <2> HIDE DEF u, v
  <2>4. u = v
    BY <1>1, <2>2, <2>3, ScaledOrder
  <2> QED
    BY <2>4 DEF Divides, u, v
<1>3. ASSUME r # 1, NEW s \in 0 .. w PROVE ~Divides(den, num * T[s])
  <2> SUFFICES ASSUME Divides(den, num * T[s]) PROVE FALSE
    OBVIOUS
  <2>1. T[s] \in Int
    BY DEF PowersOfTen
  <2>2. Divides(d, n * T[s])
    BY <1>2, <2>1
  <2>3. Divides(r, d)
    <3>1. x * (y * r) = (x * y) * r /\ x * y \in Int
      BY <1>1
    <3> QED
      BY <1>1, <3>1 DEF Divides
  <2>4. Divides(r, n * T[s])
    <3>1. PICK k \in Int : n * T[s] = k * d
      BY <2>2 DEF Divides
    <3>2. Divides(r, k * d)
      <4>1. r \in Int /\ d \in Int /\ k \in Int
        BY <1>1
      <4> QED
        BY <2>3, <4>1, DividesProduct
    <3> QED
      BY <3>1, <3>2
  <2>5. Divides(r, n)
    <3>1. r \in Nat
      BY <1>1
    <3> QED
      BY <1>1, <2>4, <3>1, TensStripped
  <2> QED
    BY <1>1, <1>3, <2>3, <2>5
<1>4. ASSUME r = 1, NEW s \in 0 .. w, t <= s, f <= s
      PROVE  /\ n * Powers(2)[s - t] * Powers(5)[s - f] \in Int
             /\ (n * Powers(2)[s - t] * Powers(5)[s - f]) * den = num * T[s]
  <2> DEFINE a == Powers(2)[s - t]
             b == Powers(5)[s - f]
             i == s - t
             j == s - f
  <2>1. i \in Nat /\ j \in Nat /\ t + i = s /\ f + j = s
    BY <1>1, <1>4
  <2> HIDE DEF i, j
  <2>2. Powers(2)[i] \in Nat \ {0} /\ Powers(2)[t + i] = x * Powers(2)[i]
    <3>1. 2 \in Nat \ {0} /\ t \in Nat /\ i \in Nat /\ 0 \in Nat
      BY <1>1, <2>1
    <3>2. Powers(2)[i] \in Nat \ {0}
      BY <3>1, PowersProduct
    <3>3. Powers(2)[t + i] = Powers(2)[t] * Powers(2)[i]
      BY <3>1, PowersProduct
    <3> QED
      BY <3>2, <3>3 DEF x
  <2>3. Powers(5)[j] \in Nat \ {0} /\ Powers(5)[f + j] = y * Powers(5)[j]
    <3>1. 5 \in Nat \ {0} /\ f \in Nat /\ j \in Nat /\ 0 \in Nat
      BY <1>1, <2>1
    <3>2. Powers(5)[j] \in Nat \ {0}
      BY <3>1, PowersProduct
    <3>3. Powers(5)[f + j] = Powers(5)[f] * Powers(5)[j]
      BY <3>1, PowersProduct
    <3> QED
      BY <3>2, <3>3 DEF y
  <2>4. T[s] = Powers(2)[s] * Powers(5)[s]
    BY TenIsTwoTimesFive
  <2>5. a \in Nat /\ b \in Nat /\ T[s] = (x * a) * (y * b)
    BY <2>1, <2>2, <2>3, <2>4 DEF i, j
  <2> HIDE DEF a, b
  <2>6. den = (x * y) * g
    BY <1>1, <1>4
  <2>7. (n * a * b) * ((x * y) * g) = (n * g) * ((x * a) * (y * b))
    <3> DEFINE ab == a * b
               xy == x * y
    <3>1. ab \in Int /\ xy \in Int /\ n * a * b = n * ab /\ (x * a) * (y * b) = xy * ab
      BY <1>1, <2>5
    <3> HIDE DEF ab, xy
    <3>2. (n * ab) * (xy * g) = (n * g) * (xy * ab)
      BY <1>1, <3>1
    <3> QED
      BY <3>1, <3>2 DEF xy
  <2> QED
    BY <1>1, <2>5, <2>6, <2>7 DEF a, b
<1>5. ASSUME Divides(den, num) PROVE t = 0 /\ f = 0 /\ r = 1 /\ n * den = num
  <2>1. Divides(d, n)
    <3>1. num * 1 = num /\ n * 1 = n
      BY <1>1
    <3> QED
      BY <1>2, <1>5, <3>1
  <2>2. Divides(d, d)
    <3>1. d = 1 * d
      BY <1>1
    <3> QED
      BY <3>1 DEF Divides
  <2>3. d = 1
    BY <1>1, <2>1, <2>2
  <2> QED
    BY <1>1, <2>3
<1>6. ASSUME NEW s \in 0 .. w, Divides(den, num * T[s]) PROVE t <= s /\ f <= s
  <2> DEFINE a == Powers(2)[s]
             b == Powers(5)[s]
  <2>1. s \in Nat /\ T[s] = a * b
    BY TenIsTwoTimesFive
  <2>2. a \in Int /\ b \in Int
    <3>1. 2 \in Int /\ 5 \in Int
      OBVIOUS
    <3> QED
      BY <2>1, <3>1, PowersStep
  <2>3. PICK k \in Int : n * T[s] = k * d
    <3>1. T[s] \in Int
      BY DEF PowersOfTen
    <3> QED
      BY <1>2, <1>6, <3>1 DEF Divides
  <2>4. ASSUME s < t PROVE FALSE
    <3> DEFINE z == y * r
    <3>1. /\ 2 \in Nat \ {0} /\ t \in Nat /\ s \in Nat /\ s < t
          /\ n \in Int /\ b \in Int /\ z \in Int /\ k \in Int
      BY <1>1, <2>1, <2>2, <2>4
    <3>2. n * (Powers(2)[s] * b) = k * (Powers(2)[t] * z)
      BY <1>1, <2>1, <2>3 DEF x
    <3> HIDE DEF b, z
    <3>3. Divides(2, n * b) /\ Divides(2, Powers(2)[t] * z)
      BY <3>1, <3>2, FactorLeft
    <3>4. Divides(2, n)
      BY <1>1, <2>1, <3>3, OtherFactorStripped DEF b
    <3>5. Divides(2, d)
      BY <1>1, <3>3 DEF x, z
    <3> QED
      BY <1>1, <3>4, <3>5
  <2>5. ASSUME s < f PROVE FALSE
    <3> DEFINE z == x * r
    <3>1. /\ 5 \in Nat \ {0} /\ f \in Nat /\ s \in Nat /\ s < f
          /\ n \in Int /\ a \in Int /\ z \in Int /\ k \in Int
      BY <1>1, <2>1, <2>2, <2>5
    <3>2. a * b = b * a /\ x * (y * r) = y * z
      <4> HIDE DEF a, b
      <4> QED
        BY <1>1, <2>2
    <3>3. n * (Powers(5)[s] * a) = k * (Powers(5)[f] * z)
      BY <1>1, <2>1, <2>3, <3>2 DEF y
    <3> HIDE DEF a, z
    <3>4. Divides(5, n * a) /\ Divides(5, Powers(5)[f] * z)
      BY <3>1, <3>3, FactorLeft
    <3>5. Divides(5, n)
      BY <1>1, <2>1, <3>4, OtherFactorStripped DEF a
    <3>6. Divides(5, d)
      BY <1>1, <3>2, <3>4 DEF y
    <3> QED
      BY <1>1, <3>5, <3>6
  <2> QED
    BY <1>1, <2>1, <2>4, <2>5
<1> QED
  BY <1>1, <1>3, <1>4, <1>5, <1>6 DEF n, t, f, r, g, twos, fives, d
\* What % and \div say of a multiple.
LEMMA WholeMultiple ==
    ASSUME NEW a \in Int, NEW d \in Int, d > 0
    PROVE  /\ \A k \in Int : k * d = a => a % d = 0 /\ a \div d = k
           /\ a % d = 0 => \E k \in Int : k * d = a
<1> DEFINE q == a \div d
           r == a % d
<1>1. a = q * d + r /\ q \in Int /\ r \in Int /\ 0 <= r /\ r < d
  BY FloorDivision
<1> HIDE DEF q, r
<1>2. ASSUME NEW k \in Int, k * d = a PROVE r = 0 /\ q = k
  <2> DEFINE j == k - q
  <2>1. j \in Int /\ j * d = k * d - q * d /\ k * d \in Int /\ q * d \in Int
    BY <1>1, ScaledOrder
  <2>2. j * d = r
    BY <1>1, <1>2, <2>1
  <2> HIDE DEF j
  <2>3. j = 0
    <3>1. CASE j >= 1
      <4>1. j * d >= d
        BY <2>1, <3>1
      <4> QED
        BY <1>1, <2>2, <4>1
    <3>2. CASE j <= -1
      <4>1. j * d <= -d
        BY <2>1, <3>2
      <4> QED
        BY <1>1, <2>2, <4>1
    <3> QED
      BY <2>1, <3>1, <3>2
  <2> QED
    BY <1>1, <2>2, <2>3 DEF j
<1>3. ASSUME r = 0 PROVE q * d = a
  <2>1. q * d \in Int
    BY <1>1
  <2> QED
    BY <1>1, <1>3, <2>1
<1> QED
  BY <1>1, <1>2, <1>3 DEF q, r

\* A divisor of a number has no more of a factor than the number has.
LEMMA DivisorHasFewer ==
    ASSUME NEW factor \in Nat, factor > 1, NEW v \in Nat \ {0}, NEW d \in Nat \ {0}, Divides(d, v)
    PROVE  Removed(d, factor).count <= Removed(v, factor).count
<1> DEFINE m == Removed(v, factor).count
           x == Removed(v, factor).left
           n == Removed(d, factor).count
           y == Removed(d, factor).left
           p == Powers(factor)
<1>1. /\ m \in Nat /\ x \in Nat \ {0} /\ v = p[m] * x /\ x % factor # 0
      /\ n \in Nat /\ y \in Nat \ {0} /\ d = p[n] * y
  BY RemovedFactors
<1>2. PICK k \in Int : v = k * d
  BY DEF Divides
<1> HIDE DEF m, x, n, y, p
<1>3. ASSUME n > m PROVE FALSE
  <2> DEFINE j == n - m - 1
             a == p[m]
             z == p[j]
  <2>1. j \in Nat /\ n = m + (1 + j) /\ 1 + j \in Nat
    BY <1>1, <1>3
  <2> HIDE DEF j
  <2>2. /\ p[n] = a * p[1 + j] /\ p[1 + j] = factor * z
        /\ a \in Nat \ {0} /\ z \in Nat \ {0}
    <3>1. factor \in Nat \ {0} /\ factor \in Int
      OBVIOUS
    <3>2. p[m + (1 + j)] = p[m] * p[1 + j] /\ p[m] \in Nat \ {0}
      BY <1>1, <2>1, <3>1, PowersProduct DEF p
    <3>3. p[j] \in Nat \ {0}
      BY <2>1, <3>1, PowersProduct DEF p
    <3>4. p[j + 1] = factor * p[j] /\ j + 1 = 1 + j
      BY <2>1, <3>1, PowersStep DEF p
    <3> QED
      BY <2>1, <3>2, <3>3, <3>4
  <2> HIDE DEF a, z
  <2> DEFINE w == k * (z * y)
  <2>3. w \in Int /\ k * (a * (factor * z) * y) = (w * factor) * a
    BY <1>1, <1>2, <2>2
  <2>4. p[n] = a * (factor * z)
    BY <2>2
  <2>5. v = (w * factor) * a
    BY <1>1, <1>2, <2>3, <2>4
  <2>6. v = x * a
    BY <1>1, <2>2 DEF a
  <2>7. x = w * factor
    <3> DEFINE u == w * factor
    <3>1. u \in Int
      BY <2>3
    <3> HIDE DEF u
    <3>2. x * a = u * a <=> x = u
      BY <1>1, <2>2, <3>1, ScaledOrder
    <3> QED
      BY <2>5, <2>6, <3>2 DEF u
  <2>8. x % factor = 0
    BY <1>1, <2>7, <2>3, WholeMultiple
  <2> QED
    BY <1>1, <2>8
<1> QED
  BY <1>1, <1>3 DEF m, n

\* A number that fits a width does not wrap around.
LEMMA NoWrap ==
    ASSUME NEW m \in Nat, NEW n \in 0 .. m
    PROVE  ((n + m + 1) % (2 * (m + 1))) - (m + 1) = n
<1> DEFINE s == n + m + 1
           w == 2 * (m + 1)
           k == s \div w
           r == s % w
<1>1. s \in Int /\ w \in Int /\ w > 0 /\ 0 <= s /\ s < w /\ s - (m + 1) = n
  OBVIOUS
<1> HIDE DEF s, w
<1>2. k \in Int /\ k >= 0 /\ s = k * w + r /\ r \in Int /\ 0 <= r /\ r < w
  BY <1>1, FloorDivision
<1> HIDE DEF k, r
<1>3. CASE k >= 1
  <2>1. k * w >= w /\ k * w \in Int
    BY <1>1, <1>2, <1>3
  <2> QED
    BY <1>1, <1>2, <2>1
<1>4. CASE k = 0
  BY <1>1, <1>2, <1>4 DEF s, w, r
<1> QED
  BY <1>2, <1>3, <1>4

LEMMA LargerOfTwo ==
    ASSUME NEW x \in Int, NEW y \in Int
    PROVE  (CHOOSE p \in {x, y} : \A z \in {x, y} : p >= z) = IF x >= y THEN x ELSE y
<1> DEFINE m == IF x >= y THEN x ELSE y
<1>1. m \in {x, y} /\ \A z \in {x, y} : m >= z
  OBVIOUS
<1>2. \A p \in {x, y} : (\A z \in {x, y} : p >= z) => p = m
  OBVIOUS
<1> HIDE DEF m
<1> QED
  BY <1>1, <1>2 DEF m

-----------------------------------------------------------------------------
(* Numbers written in a base, and the digits of canonical texts *)

\* f writes numbers in a base: a stopping number at once, any other after its quotient
WritesDigits(f, base, Stop, alone, after) ==
    \A n \in Nat : f[n] = IF n \in Stop THEN alone[n] ELSE after[n][f[n \div base]]

\* The quotient of a number that is not zero is smaller.
LEMMA QuotientIsSmaller ==
    ASSUME NEW base \in Nat, base > 1, NEW n \in Nat, n # 0
    PROVE  n \div base \in Nat /\ n \div base < n
<1> DEFINE q == n \div base
           r == n % base
<1>1. q \in Int /\ n = q * base + r /\ r \in Int /\ r >= 0 /\ q >= 0
  BY FloorDivision
<1> HIDE DEF q, r
<1>2. q * base >= 2 * q
  <2>1. q * base = q * 2 + q * (base - 2)
    BY <1>1
  <2>2. \A a, b \in Nat : a * b \in Nat
    OBVIOUS
  <2>3. q * (base - 2) \in Nat
    BY <1>1, <2>2
  <2> QED
    BY <1>1, <2>1, <2>3
<1>3. q * base \in Int
  BY <1>1
<1>4. q < n
  BY <1>1, <1>2, <1>3
<1> QED
  BY <1>1, <1>4 DEF q

\* There is a function that does.
LEMMA Digitwise ==
    ASSUME NEW S, NEW any \in S, NEW base \in Nat, base > 1, NEW Stop, 0 \in Stop,
           NEW alone \in [Nat -> S], NEW after \in [Nat -> [S -> S]]
    PROVE  \E f \in [Nat -> S] : WritesDigits(f, base, Stop, alone, after)
<1> DEFINE next(f, n) == IF n \in Stop THEN alone[n] ELSE after[n][f[n \div base]]
           rule == [n \in Nat |-> [f \in [Nat -> S] |-> next(f, n)]]
<1>1. ASSUME NEW n \in Nat, n \notin Stop PROVE n \div base \in Nat /\ n \div base < n
  <2>1. n # 0
    BY <1>1
  <2> QED
    BY <2>1, QuotientIsSmaller
<1>2. ASSUME NEW f \in [Nat -> S], NEW n \in Nat PROVE next(f, n) \in S
  <2>1. CASE n \in Stop
    BY <2>1
  <2>2. CASE n \notin Stop
    <3>1. f[n \div base] \in S
      BY <1>1, <2>2
    <3> QED
      BY <2>2, <3>1
  <2> QED
    BY <2>1, <2>2
<1>3. rule \in [Nat -> [[Nat -> S] -> S]] /\ \A n \in Nat, f \in [Nat -> S] : rule[n][f] = next(f, n)
  <2> HIDE DEF next
  <2> QED
    BY <1>2
<1>4. ASSUME NEW n \in Nat, NEW f \in [Nat -> S], NEW g \in [Nat -> S],
             \A k \in Nat : k < n => f[k] = g[k]
      PROVE  rule[n][f] = rule[n][g]
  <2>1. next(f, n) = next(g, n)
    <3>1. CASE n \in Stop
      BY <3>1
    <3>2. CASE n \notin Stop
      <4>1. f[n \div base] = g[n \div base]
        BY <1>1, <1>4, <3>2
      <4> QED
        BY <3>2, <4>1
    <3> QED
      BY <3>1, <3>2
  <2> HIDE DEF rule, next
  <2> QED
    BY <1>3, <2>1
<1>5. PICK f : Follows(f, rule, S)
  <2> HIDE DEF rule
  <2>1. LooksBack(rule, S)
    BY <1>3, <1>4 DEF LooksBack
  <2> QED
    BY <2>1, CourseOfValues
<1>6. f \in [Nat -> S] /\ \A n \in Nat : f[n] = rule[n][f]
  BY <1>5 DEF Follows
<1>7. \A n \in Nat : f[n] = next(f, n)
  <2> HIDE DEF rule, next
  <2> QED
    BY <1>3, <1>6
<1> QED
  BY <1>6, <1>7 DEF WritesDigits

\* A sequence with one element more.
LEMMA LongerByOne ==
    ASSUME NEW T, NEW s \in Seq(T), NEW e \in T
    PROVE  s \o <<e>> \in Seq(T) /\ Len(s \o <<e>>) = Len(s) + 1
OBVIOUS

\* The digits of a number are those of its quotient and the last one.
LEMMA DigitsAre ==
    \A n \in Nat : /\ DigitsOf[n] \in Seq({DigitChar[k] : k \in 1 .. 10}) /\ Len(DigitsOf[n]) \in Nat
                   /\ DigitsOf[n] = IF n < 10 THEN <<DigitChar[(n % 10) + 1]>>
                                    ELSE DigitsOf[n \div 10] \o <<DigitChar[(n % 10) + 1]>>
                   /\ n < 10 => Len(DigitsOf[n]) = 1
                   /\ n >= 10 => Len(DigitsOf[n]) = Len(DigitsOf[n \div 10]) + 1
<1> DEFINE T     == {DigitChar[k] : k \in 1 .. 10}
           S     == Seq(T)
           last(n) == <<DigitChar[(n % 10) + 1]>>
           Stop  == 0 .. 9
           alone == [n \in Nat |-> last(n)]
           after == [n \in Nat |-> [s \in S |-> s \o last(n)]]
<1>1. ASSUME NEW n \in Nat PROVE last(n) \in S /\ Len(last(n)) = 1
  <2> DEFINE c == DigitChar[(n % 10) + 1]
  <2>1. n % 10 \in Int /\ n % 10 >= 0 /\ n % 10 < 10
    BY FloorDivision
  <2>2. (n % 10) + 1 \in 1 .. 10
    BY <2>1
  <2>3. c \in T
    BY <2>2
  <2> HIDE DEF c, T
  <2>4. <<c>> \in Seq(T) /\ Len(<<c>>) = 1
    BY <2>3
  <2> QED
    BY <2>4 DEF c
<1>2. ASSUME NEW s \in S, NEW n \in Nat PROVE s \o last(n) \in S /\ Len(s \o last(n)) = Len(s) + 1
  <2> DEFINE c == DigitChar[(n % 10) + 1]
  <2>1. (n % 10) + 1 \in 1 .. 10
    BY FloorDivision
  <2>2. c \in T /\ s \in Seq(T)
    BY <2>1
  <2> HIDE DEF c, T
  <2>3. s \o <<c>> \in Seq(T) /\ Len(s \o <<c>>) = Len(s) + 1
    BY <2>2, LongerByOne
  <2> QED
    BY <2>3 DEF c
<1>3. \A s \in S : Len(s) \in Nat
  OBVIOUS
<1> HIDE DEF S, last
<1>4. alone \in [Nat -> S] /\ after \in [Nat -> [S -> S]]
  BY <1>1, <1>2
<1>5. \A n \in Nat, s \in S : alone[n] = last(n) /\ after[n][s] = s \o last(n)
  OBVIOUS
<1> HIDE DEF alone, after
<1>6. PICK f \in [Nat -> S] : WritesDigits(f, 10, Stop, alone, after)
  <2>1. 0 \in Stop /\ last(0) \in S
    BY <1>1
  <2> HIDE DEF Stop
  <2> QED
    BY <1>4, <2>1, Digitwise
<1>7. ASSUME NEW n \in Nat, n >= 10 PROVE n \div 10 \in Nat /\ n \div 10 < n
  <2>1. n # 0
    BY <1>7
  <2> QED
    BY <2>1, QuotientIsSmaller
<1>8. ASSUME NEW n \in Nat PROVE f[n] = IF n < 10 THEN last(n) ELSE f[n \div 10] \o last(n)
  <2>1. f[n] = IF n \in Stop THEN alone[n] ELSE after[n][f[n \div 10]]
    BY <1>6 DEF WritesDigits
  <2>2. CASE n < 10
    BY <1>1, <1>5, <2>1, <2>2
  <2>3. CASE ~(n < 10)
    <3>1. n \div 10 \in Nat /\ n \notin Stop
      BY <1>7, <2>3
    <3>2. f[n \div 10] \in S
      BY <1>6, <3>1
    <3> QED
      BY <1>5, <2>1, <2>3, <3>1, <3>2
  <2> QED
    BY <2>2, <2>3
<1> DEFINE digits == CHOOSE g : g = [n \in Nat |-> IF n < 10 THEN last(n) ELSE g[n \div 10] \o last(n)]
<1>9. f = [n \in Nat |-> IF n < 10 THEN last(n) ELSE f[n \div 10] \o last(n)]
  BY <1>6, <1>8
<1>10. digits = [n \in Nat |-> IF n < 10 THEN last(n) ELSE digits[n \div 10] \o last(n)]
  BY <1>9
<1>11. DigitsOf = digits
  BY DEF DigitsOf, last
<1> HIDE DEF digits
<1>12. \A n \in Nat : DigitsOf[n] = IF n < 10 THEN last(n) ELSE DigitsOf[n \div 10] \o last(n)
  BY <1>10, <1>11, Zenon
<1> DEFINE Typed == {n \in Nat : \A k \in Nat : k <= n => DigitsOf[k] \in S}
<1>13. 0 \in Typed
  <2>1. \A k \in Nat : k <= 0 => k = 0
    OBVIOUS
  <2>2. DigitsOf[0] = last(0)
    BY <1>12
  <2>3. DigitsOf[0] \in S
    BY <1>1, <2>2
  <2> QED
    BY <2>1, <2>3
<1>14. ASSUME NEW n \in Typed PROVE n + 1 \in Typed
  <2>1. n \in Nat /\ n + 1 \in Nat /\ \A k \in Nat : k <= n => DigitsOf[k] \in S
    OBVIOUS
  <2> DEFINE m == n + 1
  <2>2. m \in Nat /\ \A k \in Nat : k < m => k <= n
    BY <2>1
  <2> HIDE DEF m, Typed
  <2>3. DigitsOf[m] \in S
    <3>1. CASE m < 10
      BY <1>1, <1>12, <2>2, <3>1
    <3>2. CASE ~(m < 10)
      <4>1. m \div 10 \in Nat /\ m \div 10 < m
        BY <1>7, <2>2, <3>2
      <4>2. DigitsOf[m \div 10] \in S
        BY <2>1, <2>2, <4>1
      <4>3. DigitsOf[m] = DigitsOf[m \div 10] \o last(m)
        BY <1>12, <2>2, <3>2, Zenon
      <4> QED
        BY <1>2, <2>2, <4>2, <4>3, Zenon
    <3> QED
      BY <3>1, <3>2
  <2>4. \A k \in Nat : k <= m => k <= n \/ k = m
    BY <2>1 DEF m
  <2>5. \A k \in Nat : k <= m => DigitsOf[k] \in S
    BY <2>1, <2>3, <2>4
  <2> QED
    BY <2>1, <2>5 DEF m, Typed
<1>15. Typed = Nat
  <2> HIDE DEF Typed
  <2>1. Typed \in SUBSET Nat
    BY DEF Typed
  <2> QED
    BY <1>13, <1>14, <2>1, Induction
<1>16. ASSUME NEW n \in Nat PROVE DigitsOf[n] \in S
  <2>1. n \in Typed
    <3> HIDE DEF Typed
    <3> QED
      BY <1>15
  <2> QED
    BY <2>1
<1>17. ASSUME NEW n \in Nat, n < 10 PROVE Len(DigitsOf[n]) = 1
  BY <1>1, <1>12, <1>17
<1>18. ASSUME NEW n \in Nat, n >= 10 PROVE Len(DigitsOf[n]) = Len(DigitsOf[n \div 10]) + 1
  <2>1. n \div 10 \in Nat /\ ~(n < 10)
    BY <1>7, <1>18
  <2>2. DigitsOf[n \div 10] \in S
    BY <1>16, <2>1
  <2>3. DigitsOf[n] = DigitsOf[n \div 10] \o last(n)
    BY <1>12, <2>1, Zenon
  <2> QED
    BY <1>2, <2>2, <2>3, Zenon
<1>19. \A n \in Nat : /\ DigitsOf[n] \in Seq({DigitChar[k] : k \in 1 .. 10})
                      /\ DigitsOf[n] = IF n < 10 THEN <<DigitChar[(n % 10) + 1]>>
                                       ELSE DigitsOf[n \div 10] \o <<DigitChar[(n % 10) + 1]>>
  BY <1>12, <1>16, Zenon DEF S, last
<1> QED
  BY <1>3, <1>16, <1>17, <1>18, <1>19

\* Their number grows by one.
LEMMA DigitsStep ==
    \A n \in Nat : /\ Len(DigitsOf[n]) \in Nat
                   /\ n < 10 => Len(DigitsOf[n]) = 1
                   /\ n >= 10 => Len(DigitsOf[n]) = Len(DigitsOf[n \div 10]) + 1
BY DigitsAre, Zenon

\* Powers of a base are at least one, and at least the base from the first on.
LEMMA PowersAreNatural ==
    ASSUME NEW base \in Nat, base > 1, NEW k \in Nat
    PROVE  /\ Powers(base)[k] \in Nat \ {0}
           /\ Powers(base)[0] = 1
           /\ k > 0 => Powers(base)[k] >= base /\ Powers(base)[k] = base * Powers(base)[k - 1]
<1> DEFINE power == Powers(base)
           S == {n \in Nat : power[n] \in Nat /\ power[n] >= 1}
<1>1. power[0] = 1 /\ \A n \in Nat : power[n + 1] = base * power[n]
  BY PowersStep
<1>2. \A x \in Nat : x >= 1 => base * x \in Nat /\ base * x >= base
  <2> TAKE x \in Nat
  <2> HAVE x >= 1
  <2>1. \A a, b \in Nat : a * b \in Nat
    OBVIOUS
  <2>2. base * x = base + base * (x - 1)
    OBVIOUS
  <2> QED
    BY <2>1, <2>2
<1> HIDE DEF power
<1>3. 0 \in S
  BY <1>1
<1>4. ASSUME NEW n \in S PROVE n + 1 \in S
  <2>1. power[n + 1] = base * power[n] /\ base * power[n] \in Nat /\ base * power[n] >= base
    BY <1>1, <1>2
  <2> QED
    BY <2>1
<1>5. S = Nat
  <2> HIDE DEF S
  <2>1. S \in SUBSET Nat
    BY DEF S
  <2> QED
    BY <1>3, <1>4, <2>1, Induction
<1>6. \A n \in Nat : power[n] \in Nat /\ power[n] >= 1
  BY <1>5
<1> HIDE DEF S
<1>7. ASSUME k > 0 PROVE power[k] >= base /\ power[k] = base * power[k - 1]
  <2>1. k - 1 \in Nat /\ (k - 1) + 1 = k
    BY <1>7
  <2>2. power[k] = base * power[k - 1] /\ power[k - 1] \in Nat /\ power[k - 1] >= 1
    BY <1>1, <1>6, <2>1
  <2> QED
    BY <1>2, <2>2
<1>8. power[k] \in Nat \ {0}
  BY <1>6
<1> QED
  BY <1>1, <1>7, <1>8 DEF power

\* A quotient is at least p when the number is at least p times the divisor.
LEMMA QuotientAtLeast ==
    ASSUME NEW base \in Nat, base > 1, NEW n \in Nat, NEW p \in Nat
    PROVE  n \div base >= p <=> n >= base * p
<1> DEFINE q == n \div base
           r == n % base
<1>1. q \in Int /\ n = q * base + r /\ r \in Int /\ r >= 0 /\ r < base /\ q >= 0
  BY FloorDivision
<1> HIDE DEF q, r
<1>2. \A a, b \in Nat : a * b \in Nat
  OBVIOUS
<1>3. ASSUME q >= p PROVE n >= base * p
  <2>1. q * base = base * p + base * (q - p)
    BY <1>1
  <2>2. base * (q - p) \in Nat /\ base * p \in Nat
    BY <1>1, <1>2, <1>3
  <2> QED
    BY <1>1, <2>1, <2>2
<1>4. ASSUME q < p PROVE n < base * p
  <2>1. base * p = q * base + base + base * (p - q - 1)
    BY <1>1
  <2>2. base * (p - q - 1) \in Nat /\ q * base \in Nat
    BY <1>1, <1>2, <1>4
  <2> QED
    BY <1>1, <2>1, <2>2
<1>5. base * p \in Nat
  BY <1>2
<1>6. q >= p <=> n >= base * p
  BY <1>1, <1>3, <1>4, <1>5
<1> QED
  BY <1>6 DEF q

\* A number has more than k digits exactly when it is at least the k-th power of the
\* base; where zero has one digit, every number has more than none.
LEMMA DigitCount ==
    ASSUME NEW base \in Nat, base > 1, NEW least \in {0, 1}, NEW count,
           \A n \in Nat : /\ count[n] \in Nat
                          /\ n < Powers(base)[least] => count[n] = least
                          /\ n >= Powers(base)[least] => count[n] = count[n \div base] + 1
    PROVE  \A n, k \in Nat : count[n] > k <=> k < least \/ n >= Powers(base)[k]
<1> DEFINE power == Powers(base)
           Holds(n, k) == count[n] > k <=> (k < least \/ n >= power[k])
           S == {k \in Nat : \A n \in Nat : Holds(n, k)}
<1>1. \A k \in Nat : /\ power[k] \in Nat \ {0} /\ power[0] = 1
                     /\ k > 0 => power[k] >= base /\ power[k] = base * power[k - 1]
  BY PowersAreNatural
<1>2. power[1] = base
  <2>1. power[1] = base * power[1 - 1] /\ power[0] = 1
    BY <1>1
  <2> QED
    BY <2>1
<1>3. \A n \in Nat : /\ count[n] \in Nat
                     /\ n < power[least] => count[n] = least
                     /\ n >= power[least] => count[n] = count[n \div base] + 1
  OBVIOUS
<1> HIDE DEF power
<1>4. ASSUME NEW n \in Nat, NEW k \in Nat, n < power[least] PROVE Holds(n, k)
  <2>1. count[n] = least
    BY <1>3, <1>4
  <2>2. k >= least => power[k] >= power[least]
    <3>1. CASE least = 0
      BY <1>1, <3>1
    <3>2. CASE least = 1
      BY <1>1, <1>2, <3>2
    <3> QED
      BY <3>1, <3>2
  <2>3. power[least] \in Nat /\ power[k] \in Nat
    BY <1>1
  <2> QED
    BY <1>4, <2>1, <2>2, <2>3
<1>5. \A n \in Nat : n >= power[least] => n \div base \in Nat
  <2> TAKE n \in Nat
  <2> HAVE n >= power[least]
  <2>1. n # 0
    BY <1>1
  <2> QED
    BY <2>1, QuotientIsSmaller
<1>6. 0 \in S
  <2>1. ASSUME NEW n \in Nat, ~(n < power[least]) PROVE Holds(n, 0)
    <3>1. n >= power[least] /\ power[least] >= 1
      BY <1>1, <2>1
    <3>2. count[n] = count[n \div base] + 1 /\ count[n \div base] \in Nat
      BY <1>3, <1>5, <3>1
    <3> QED
      BY <1>1, <3>1, <3>2
  <2>2. \A n \in Nat : Holds(n, 0)
    BY <1>4, <2>1
  <2> QED
    BY <2>2
<1>7. ASSUME NEW j \in S PROVE j + 1 \in S
  <2> DEFINE k == j + 1
  <2>1. j \in Nat /\ k \in Nat /\ k > 0 /\ k - 1 = j /\ \A n \in Nat : count[n] > j <=> (j < least \/ n >= power[j])
    OBVIOUS
  <2>2. power[k] = base * power[j] /\ power[j] \in Nat /\ power[k] \in Nat
    <3> HIDE DEF k, S
    <3> QED
      BY <1>1, <2>1
  <2>3. ASSUME NEW n \in Nat, ~(n < power[least]) PROVE Holds(n, k)
    <3> DEFINE q == n \div base
    <3>1. n >= power[least] /\ power[least] \in Nat
      BY <1>1, <2>3
    <3>2. q \in Nat /\ count[n] = count[q] + 1 /\ count[q] \in Nat
      BY <1>3, <1>5, <3>1
    <3>3. q >= power[j] <=> n >= power[k]
      BY <2>1, <2>2, QuotientAtLeast
    <3> HIDE DEF q
    <3>4. count[q] > j <=> (j < least \/ n >= power[k])
      BY <2>1, <3>2, <3>3
    <3>5. count[n] > k <=> count[q] > j
      BY <2>1, <3>2
    <3>6. j < least => n >= power[k]
      <4> SUFFICES ASSUME j < least PROVE n >= power[k]
        OBVIOUS
      <4>1. least = 1 /\ k = 1
        BY <2>1
      <4> HIDE DEF k
      <4> QED
        BY <3>1, <4>1
    <3>7. k < least => j < least
      BY <2>1
    <3> HIDE DEF k
    <3> QED
      BY <3>4, <3>5, <3>6, <3>7
  <2>4. \A n \in Nat : Holds(n, k)
    <3> HIDE DEF k, Holds
    <3> QED
      BY <1>4, <2>1, <2>3
  <2> QED
    BY <2>1, <2>4
<1>8. S = Nat
  <2> HIDE DEF S
  <2>1. S \in SUBSET Nat
    BY DEF S
  <2> QED
    BY <1>6, <1>7, <2>1, Induction
<1>9. ASSUME NEW n \in Nat, NEW k \in Nat PROVE Holds(n, k)
  <2>1. k \in S
    <3> HIDE DEF S
    <3> QED
      BY <1>8
  <2> HIDE DEF Holds
  <2> QED
    BY <2>1
<1> QED
  BY <1>9 DEF power

LEMMA DigitsLength == \A n, k \in Nat : Len(DigitsOf[n]) > k <=> k = 0 \/ n >= Powers(10)[k]
<1> DEFINE count == [n \in Nat |-> Len(DigitsOf[n])]
<1>1. Powers(10)[1] = 10
  <2>1. Powers(10)[1] = 10 * Powers(10)[1 - 1] /\ Powers(10)[0] = 1
    BY PowersAreNatural
  <2> QED
    BY <2>1
<1>2. ASSUME NEW n \in Nat
      PROVE  /\ count[n] \in Nat
             /\ n < Powers(10)[1] => count[n] = 1
             /\ n >= Powers(10)[1] => count[n] = count[n \div 10] + 1
  <2>1. n >= 10 => n \div 10 \in Nat
    OBVIOUS
  <2> QED
    BY <1>1, <2>1, DigitsStep
<1>3. \A n \in Nat : count[n] = Len(DigitsOf[n])
  OBVIOUS
<1>4. 1 \in {0, 1} /\ 10 \in Nat /\ 10 > 1
  OBVIOUS
<1> HIDE DEF count
<1>5. \A n, k \in Nat : count[n] > k <=> k < 1 \/ n >= Powers(10)[k]
  BY <1>2, <1>4, DigitCount
<1> QED
  BY <1>3, <1>5
=============================================================================
