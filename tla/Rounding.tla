------------------------------ MODULE Rounding ------------------------------
(***************************************************************************)
(* The integer arithmetic under every decimal operation of the library:    *)
(* truncated division as math/big and Go's / and % define it, and the      *)
(* seven rounding modes of rounding.go applied to a quotient by            *)
(* roundQuotient (decimal.go).  IsRounded is the reference meaning of the  *)
(* modes, stated by order and distance and not by an algorithm.            *)
(***************************************************************************)
EXTENDS Integers, Sequences

NearestModes  == {"ToNearestEven", "ToNearestAway", "ToNearestTowardZero"}
DirectedModes == {"AwayFromZero", "TowardZero", "TowardPositive", "TowardNegative"}
RoundingModes == NearestModes \cup DirectedModes

Magnitude(n) == IF n >= 0 THEN n ELSE -n
Sign(n) == IF n > 0 THEN 1 ELSE IF n < 0 THEN -1 ELSE 0

\* QuoRem of a nonzero divisor: the quotient is truncated toward zero and the
\* remainder takes the sign of the dividend.
Quo(num, den) ==
    IF (num >= 0) = (den > 0)
      THEN Magnitude(num) \div Magnitude(den)
      ELSE -(Magnitude(num) \div Magnitude(den))
Rem(num, den) == num - Quo(num, den) * den

\* Whether the discarded remainder rem of a quotient quo, of the given sign,
\* pushes the quotient one further away from zero.
RoundsAway(quo, rem, den, sign, mode) ==
    \/ mode = "AwayFromZero"
    \/ mode = "TowardPositive" /\ sign > 0
    \/ mode = "TowardNegative" /\ sign < 0
    \/ mode \in NearestModes /\ 2 * Magnitude(rem) > den
    \/ /\ 2 * Magnitude(rem) = den
       /\ \/ mode = "ToNearestAway"
          \/ mode = "ToNearestEven" /\ quo % 2 = 1

RoundQuotient(num, den, mode) ==
    LET n    == IF den < 0 THEN -num ELSE num
        d    == Magnitude(den)
        quo  == Quo(n, d)
        rem  == Rem(n, d)
        sign == Sign(n)
    IN  IF rem # 0 /\ RoundsAway(quo, rem, d, sign, mode) THEN quo + sign ELSE quo

\* A table of powers of ten by exponent, up to the widest
PowersOfTen(table, widest) ==
    /\ DOMAIN table = 0 .. widest
    /\ \A e \in DOMAIN table : table[e] \in Nat \ {0}
    /\ table[0] = 1
    /\ \A e \in DOMAIN table \ {0} : table[e] = 10 * table[e - 1]

\* What the numbers of a sequence add up to
Total(s) ==
    LET sum[k \in 0 .. Len(s)] == IF k = 0 THEN 0 ELSE sum[k - 1] + s[k]
    IN  sum[Len(s)]

\* The powers of b by exponent, b^0 = 1 included
Powers(b) == LET power[k \in Nat] == IF k = 0 THEN 1 ELSE b * power[k - 1] IN power

\* Euclid's algorithm, as math/big.Int.GCD computes it
Gcd(a, b) == LET gcd[n \in Nat] == [m \in Nat |-> IF n = 0 THEN m ELSE gcd[m % n][n]] IN gcd[b][a]

\* removeFactor, but for the width of its count: the factor is divided out as often
\* as it divides what is left
Removed(value, factor) ==
    LET removed[v \in Nat] ==
          IF v = 0 \/ v % factor # 0 THEN [left |-> v, count |-> 0]
          ELSE [removed[v \div factor] EXCEPT !.count = @ + 1]
    IN  removed[value]

-----------------------------------------------------------------------------
(* The reference definition: q is num/den rounded to an integer in a mode. *)

\* The multiple of den (the q-th) that num is rounded to
IsRoundedTo(multiple, q, num, den, mode) ==
    LET distance == Magnitude(num - multiple)
    IN  /\ distance < den
        /\ mode = "TowardPositive" => num <= multiple
        /\ mode = "TowardNegative" => multiple <= num
        /\ mode = "TowardZero"     => Magnitude(multiple) <= Magnitude(num)
        /\ mode = "AwayFromZero"   => Magnitude(num) <= Magnitude(multiple)
        /\ mode \in NearestModes   => 2 * distance <= den
        /\ 2 * distance = den =>
             /\ mode = "ToNearestEven" => q % 2 = 0
             /\ mode = "ToNearestAway" => Magnitude(num) < Magnitude(multiple)
             /\ mode = "ToNearestTowardZero" => Magnitude(multiple) < Magnitude(num)

IsRounded(q, num, den, mode) ==
    IF den < 0 THEN IsRoundedTo(q * (-den), q, -num, -den, mode)
               ELSE IsRoundedTo(q * den, q, num, den, mode)
=============================================================================
