--------------------------- MODULE AllocateProofs ---------------------------
(***************************************************************************)
(* Allocate, for every amount, every list of ratios and every int64 range: *)
(* type correctness, the parts add up to the rounded total, none strays a  *)
(* unit from its quota, and the error after the sort is unreachable.       *)
(***************************************************************************)
EXTENDS Allocate, RoundingProofs, FiniteSetTheorems

USE DEF input, history

-----------------------------------------------------------------------------
(* Arithmetic of the loops. *)

\* Rounding an amount to units gives an integer.
LEMMA RescaleType ==
    ASSUME NEW d \in Amounts, NEW s \in Scales, NEW m \in Modes
    PROVE  /\ Rescale(d, s, m).err \in {"nil", "ErrInvalidScale", "ErrInvalidRoundingMode"}
           /\ Rescale(d, s, m).err = "nil" => Rescale(d, s, m).val.coef \in Int
<1>1. /\ d.coef \in Int /\ d.scale \in 0 .. MaxScale
      /\ s \in Int /\ s <= MaxScale
      /\ MaxScale \in Nat
  BY InputAssumption, MaxScaleAssumption
<1>2. CASE s < 0 \/ m \notin RoundingModes
  BY <1>2 DEF Rescale, Fail
<1>3. CASE m \in RoundingModes /\ s >= 0 /\ s >= d.scale
  <2>1. Pow10[s - d.scale] \in Nat \ {0}
    BY <1>1, <1>3, Pow10Assumption DEF PowersOfTen
  <2> QED
    BY <1>1, <1>3, <2>1 DEF Rescale, Ok, Dec
<1>4. CASE m \in RoundingModes /\ s >= 0 /\ s < d.scale
  <2>1. Pow10[d.scale - s] \in Nat \ {0}
    BY <1>1, <1>4, Pow10Assumption DEF PowersOfTen
  <2>2. RoundQuotient(d.coef, Pow10[d.scale - s], m) \in Int
    BY <1>1, <1>4, <2>1, RoundQuotientIsRounded
  <2>3. Rescale(d, s, m) = Ok(Dec(RoundQuotient(d.coef, Pow10[d.scale - s], m), s))
    BY <1>1, <1>4 DEF Rescale
  <2> QED
    BY <2>2, <2>3 DEF Ok, Dec
<1> QED
  BY <1>1, <1>2, <1>3, <1>4

\* One iteration of the share loop: the truncated share leaves a remainder on
\* the side of the amount, smaller than the total ratio, and none for ratio 0.
LEMMA ShareArithmetic ==
    ASSUME NEW u \in Int, NEW r \in Nat, NEW t \in Int, t > 0
    PROVE  /\ Quo(u * r, t) \in Int /\ Rem(u * r, t) \in Int
           /\ u * r = Quo(u * r, t) * t + Rem(u * r, t)
           /\ Magnitude(Rem(u * r, t)) < t
           /\ u >= 0 => Rem(u * r, t) >= 0
           /\ u <= 0 => Rem(u * r, t) <= 0
           /\ r = 0 => Rem(u * r, t) = 0
<1>1. u * r \in Int /\ (u >= 0 => u * r >= 0) /\ (u <= 0 => u * r <= 0) /\ (r = 0 => u * r = 0)
  <2>1. u >= 0 => u * r >= 0
    OBVIOUS
  <2>2. u <= 0 => u * r <= 0
    OBVIOUS
  <2> QED
    BY <2>1, <2>2
<1> DEFINE p == u * r
<1>2. /\ Quo(p, t) \in Int /\ Rem(p, t) \in Int
      /\ p = Quo(p, t) * t + Rem(p, t)
      /\ Magnitude(Rem(p, t)) < t
      /\ p >= 0 => Rem(p, t) >= 0
      /\ p <= 0 => Rem(p, t) <= 0
  BY <1>1, TruncatedDivision
<1> HIDE DEF p
<1>3. /\ Quo(p, t) \in Int /\ Rem(p, t) \in Int
      /\ p = Quo(p, t) * t + Rem(p, t)
      /\ Magnitude(Rem(p, t)) < t
      /\ u >= 0 => Rem(p, t) >= 0
      /\ u <= 0 => Rem(p, t) <= 0
      /\ r = 0 => Rem(p, t) = 0
  BY <1>1, <1>2 DEF p
<1> QED
  BY <1>3 DEF p

\* The conservation law moves from one ratio to the next.
LEMMA ConservationLaw ==
    ASSUME NEW u \in Int, NEW p \in Int, NEW r \in Int, NEW t \in Int, NEW s \in Int,
           NEW sr \in Int, NEW q \in Int, NEW rem \in Int,
           u * p = t * s + sr, u * r = q * t + rem
    PROVE  u * (p + r) = t * (s + q) + (sr + rem)
<1>1. u * (p + r) = u * p + u * r
  OBVIOUS
<1>2. t * (s + q) = t * s + q * t
  OBVIOUS
<1>3. t * s \in Int /\ q * t \in Int
  OBVIOUS
<1> QED
  BY <1>1, <1>2, <1>3

\* What the conservation law says once every ratio has its share: the leftover
\* is no larger than the number of remainders and has the sign of the amount.
LEMMA LeftoverBound ==
    ASSUME NEW u \in Int, NEW s \in Int, NEW t \in Int, t > 0, NEW sr \in Int, NEW n \in Nat,
           u * t = t * s + sr,
           Magnitude(sr) <= (t - 1) * n,
           u >= 0 => sr >= 0,
           u <= 0 => sr <= 0
    PROVE  /\ Magnitude(u - s) <= n
           /\ u - s # 0 => Sign(u - s) = Sign(u)
<1> DEFINE l == u - s
<1>1. l \in Int /\ t * l = sr
  BY DEF l
<1> HIDE DEF l
<1>2. (t - 1) * n = t * n - n /\ t * n \in Int
  OBVIOUS
<1>3. l <= n
  <2>1. SUFFICES ASSUME l >= n + 1 PROVE FALSE
    BY <1>1
  <2>2. t * l >= t * (n + 1)
    BY <1>1, <2>1
  <2>3. t * (n + 1) = t * n + t
    OBVIOUS
  <2> QED
    BY <1>1, <1>2, <2>2, <2>3 DEF Magnitude
<1>4. -l <= n
  <2>1. SUFFICES ASSUME -l >= n + 1 PROVE FALSE
    BY <1>1
  <2>2. t * (-l) >= t * (n + 1)
    BY <1>1, <2>1
  <2>3. t * (n + 1) = t * n + t /\ t * (-l) = -(t * l)
    BY <1>1
  <2> QED
    BY <1>1, <1>2, <2>2, <2>3 DEF Magnitude
<1>5. l > 0 => sr > 0
  BY <1>1
<1>6. l < 0 => sr < 0
  BY <1>1
<1>7. Magnitude(l) <= n /\ (l # 0 => Sign(l) = Sign(u))
  BY <1>1, <1>3, <1>4, <1>5, <1>6 DEF Magnitude, Sign
<1> QED
  BY <1>7 DEF l

\* A part short of its quota by g that receives its unit, worth t, is still
\* within one unit of the quota.
LEMMA GapAfterUnit ==
    ASSUME NEW g \in Int, NEW t \in Int, NEW d \in {1, -1},
           g # 0, Sign(g) = d, Magnitude(g) < t
    PROVE  Magnitude(g - d * t) < t
<1>1. CASE d = 1
  BY <1>1 DEF Magnitude, Sign
<1>2. CASE d = -1
  BY <1>2 DEF Magnitude, Sign
<1> QED
  BY <1>1, <1>2

-----------------------------------------------------------------------------
(* Type correctness. *)

\* The part of AddRatio that goes on to the next ratio
NextRatio ==
    /\ ratios[i] >= 0 /\ AddInt64(totalRatio, ratios[i]) >= 0
    /\ totalRatio' = AddInt64(totalRatio, ratios[i])
    /\ prefixes' = Append(prefixes, Prefix(i - 1) + ratios[i])
    /\ i' = i + 1
    /\ UNCHANGED <<pc, totalUnits, shares, remainders, sumShares, leftover, err,
                   sumRemainders>>

\* The ratio loop goes on to the next ratio, or fails for one of its two reasons.
LEMMA AddRatioCases ==
    AddRatio => /\ UNCHANGED input
                /\ pc = "ratios" /\ validCurrency /\ i <= Len(ratios)
                /\ \/ NextRatio
                   \/ ratios[i] < 0 /\ Fails("ErrInvalidAllocation")
                   \/ Fails("ErrOverflow")
BY DEF AddRatio, NextRatio

\* The values of the loops have their types at the call.
LEMMA TypeInit == Init => TypeInv
BY MaxInt64Assumption DEF Init, TypeInv, TypeOK

\* Every iteration of every loop keeps the types of the values.
LEMMA TypeStep == TypeInv /\ [Next]_vars => TypeInv'
<1> SUFFICES ASSUME TypeInv, [Next]_vars
             PROVE  TypeInv'
  OBVIOUS
<1> USE DEF TypeInv, TypeOK
<1>1. /\ ratios \in Seq(Int) /\ Len(ratios) \in Nat
      /\ \A k \in DOMAIN ratios : ratios[k] \in Int /\ ratios[k] <= MaxInt64
      /\ MaxInt64 \in Nat
  BY InputAssumption, MaxInt64Assumption
<1>2. CASE Reject
  BY <1>2 DEF Reject, Fails
<1>3. CASE AddRatio
  <2>1. CASE Fails("ErrInvalidAllocation") \/ Fails("ErrOverflow")
    BY <1>3, <2>1, AddRatioCases DEF Fails
  <2>2. CASE NextRatio
    <3>1. ratios[i] \in Nat /\ ratios[i] <= MaxInt64
      BY <1>1, <1>3, <2>2, AddRatioCases DEF NextRatio
    <3>2. totalRatio' \in 0 .. MaxInt64
      BY <1>1, <2>2, <3>1, SMTT(60) DEF AddInt64, NextRatio
    <3>3. Prefix(i - 1) \in Nat
      BY <1>1, <1>3, AddRatioCases DEF Prefix
    <3>4. prefixes' \in Seq(Nat) /\ Len(prefixes') = Len(prefixes) + 1
      BY <2>2, <3>1, <3>3 DEF NextRatio
    <3> QED
      BY <1>3, <2>2, <3>2, <3>4, AddRatioCases DEF NextRatio
  <2> QED
    BY <1>3, <2>1, <2>2, AddRatioCases
<1>4. CASE RoundAmount
  <2> DEFINE units == Rescale(amount, scale, mode)
  <2>1. /\ units.err \in {"nil", "ErrInvalidScale", "ErrInvalidRoundingMode"}
        /\ units.err = "nil" => units.val.coef \in Int
    BY RescaleType
  <2> HIDE DEF units
  <2>2. CASE Fails("ErrInvalidAllocation") \/ (units.err # "nil" /\ Fails(units.err))
    BY <1>4, <2>1, <2>2 DEF RoundAmount, Fails
  <2>3. CASE /\ totalRatio # 0 /\ units.err = "nil" /\ totalUnits' = units.val.coef
             /\ pc' = "shares" /\ i' = 1
             /\ UNCHANGED <<totalRatio, shares, remainders, sumShares, leftover, err, history>>
    BY <1>4, <2>1, <2>3 DEF RoundAmount
  <2> QED
    BY <1>4, <2>2, <2>3 DEF RoundAmount, units
<1>5. CASE AddShare
  <2> DEFINE quotient  == Quo(totalUnits * ratios[i], totalRatio)
             remainder == Rem(totalUnits * ratios[i], totalRatio)
  <2>1. totalUnits * ratios[i] \in Int /\ totalRatio \in Int /\ totalRatio > 0
    <3>1. i \in DOMAIN ratios /\ totalRatio > 0
      BY <1>1, <1>5 DEF AddShare
    <3>2. ratios[i] \in Int
      BY <1>1, <3>1
    <3> QED
      BY <3>1, <3>2
  <2>2. quotient \in Int /\ remainder \in Int
    BY <2>1, TruncatedDivision
  <2> HIDE DEF quotient, remainder
  <2>3. /\ pc = "shares"
        /\ shares' = Append(shares, quotient)
        /\ sumShares' = sumShares + quotient
        /\ sumRemainders' = sumRemainders + remainder
        /\ i' = i + 1
        /\ \/ UNCHANGED remainders
           \/ /\ remainder # 0
              /\ remainders' = Append(remainders, [index |-> i, magnitude |-> Magnitude(remainder)])
        /\ UNCHANGED <<input, pc, totalRatio, totalUnits, leftover, err, prefixes>>
    BY <1>5 DEF AddShare, quotient, remainder
  <2>4. remainder # 0 => [index |-> i, magnitude |-> Magnitude(remainder)] \in Remainders
    BY <2>2 DEF Remainders, Magnitude
  <2>5. remainders' \in Seq(Remainders)
    <3>1. CASE UNCHANGED remainders
      BY <3>1
    <3>2. CASE /\ remainder # 0
               /\ remainders' = Append(remainders, [index |-> i, magnitude |-> Magnitude(remainder)])
      BY <2>4, <3>2
    <3> QED
      BY <2>3, <3>1, <3>2
  <2> QED
    BY <2>2, <2>3, <2>5
<1>6. CASE Sort
  <2>1. remainders' \in Seq(Remainders)
    <3>1. CASE UNCHANGED remainders
      BY <3>1
    <3>2. ASSUME NEW p \in Arrangements(Len(remainders)),
                 remainders' = [k \in 1 .. Len(remainders) |-> remainders[p[k]]]
          PROVE  remainders' \in Seq(Remainders)
      <4>1. \A k \in 1 .. Len(remainders) : remainders[p[k]] \in Remainders
        BY DEF Arrangements
      <4> QED
        BY <3>2, <4>1
    <3> QED
      BY <1>6, <3>1, <3>2 DEF Sort
  <2>2. leftover' \in Int /\ i' = 1
    BY <1>6 DEF Sort, Leftover
  <2>3. pc' \in {"done", "spread"} /\ err' \in {err, "ErrInvalidAllocation"}
    BY <1>6 DEF Sort
  <2> QED
    BY <1>6, <2>1, <2>2, <2>3 DEF Sort
<1>7. CASE Spread
  <2>1. Sign(leftover) \in Int
    BY DEF Sign
  <2>2. shares' \in Seq(Int)
    <3> DEFINE k == remainders[i].index
    <3>1. shares \in [1 .. Len(shares) -> Int] /\ Len(shares) \in Nat
      OBVIOUS
    <3>2. shares' = [shares EXCEPT ![k] = shares[k] + Sign(leftover)]
      BY <1>7 DEF Spread
    <3> HIDE DEF k
    <3>3. shares' \in [1 .. Len(shares) -> Int]
      <4>1. CASE k \in 1 .. Len(shares)
        <5>1. shares[k] + Sign(leftover) \in Int
          BY <2>1, <3>1, <4>1
        <5> QED
          BY <3>1, <3>2, <5>1
      <4>2. CASE k \notin 1 .. Len(shares)
        BY <3>1, <3>2, <4>2
      <4> QED
        BY <4>1, <4>2
    <3>4. ASSUME NEW m \in Nat, NEW t \in [1 .. m -> Int]
          PROVE  t \in Seq(Int)
      OBVIOUS
    <3> QED
      BY <3>1, <3>3, <3>4
  <2> QED
    BY <1>7, <2>1, <2>2, SMTT(60) DEF Spread
<1>8. CASE Finish
  BY <1>8 DEF Finish
<1>9. CASE UNCHANGED vars
  BY <1>9 DEF vars
<1> QED
  BY <1>2, <1>3, <1>4, <1>5, <1>6, <1>7, <1>8, <1>9 DEF Next

\* Spec => []TypeOK.  The values of the loops keep their types whatever the
\* inputs: in particular totalRatio never leaves the non-negative int64 range.
THEOREM TypeCorrect == Spec => []TypeOK
<1>1. TypeInv => TypeOK
  BY DEF TypeInv
<1> QED
  BY <1>1, TypeInit, TypeStep, PTL DEF Spec

-----------------------------------------------------------------------------
(* The inductive invariant, part by part. *)

\* What the parts below share about the inputs.
LEMMA InputFacts ==
    TypeOK => /\ ratios \in Seq(Int) /\ Len(ratios) \in Nat
              /\ \A k \in DOMAIN ratios : ratios[k] \in Int /\ ratios[k] <= MaxInt64
              /\ MaxInt64 \in Nat
BY InputAssumption, MaxInt64Assumption DEF TypeOK

\* The running totals of the ratios are what the ratio loop says at every step.
LEMMA RatiosStep == TypeInv /\ RatiosInv /\ [Next]_vars => RatiosInv'
<1> SUFFICES ASSUME TypeInv, RatiosInv, [Next]_vars
             PROVE  RatiosInv'
  OBVIOUS
<1> USE DEF TypeInv, TypeOK, RatiosInv
<1>1. /\ ratios \in Seq(Int) /\ Len(ratios) \in Nat
      /\ \A k \in DOMAIN ratios : ratios[k] \in Int /\ ratios[k] <= MaxInt64
  BY InputFacts
<1>2. ASSUME pc' # "ratios", pc' \notin {"shares", "spread"}, UNCHANGED <<ratios, prefixes>>
      PROVE  RatiosInv'
  BY <1>2 DEF Prefix
<1>3. ASSUME pc # "ratios", pc' # "ratios", UNCHANGED <<ratios, prefixes, totalRatio>>,
             pc' \in {"shares", "spread"} => pc \in {"shares", "spread"}
      PROVE  RatiosInv'
  BY <1>3 DEF Prefix
<1>4. CASE Reject
  BY <1>2, <1>4 DEF Reject, Fails
<1>5. CASE AddRatio
  <2>1. CASE Fails("ErrInvalidAllocation") \/ Fails("ErrOverflow")
    BY <1>2, <1>5, <2>1, AddRatioCases DEF Fails
  <2>2. CASE NextRatio
    <3>1. /\ i \in DOMAIN ratios /\ i = Len(prefixes) + 1
          /\ ratios[i] \in Nat /\ ratios[i] <= MaxInt64
      BY <1>1, <1>5, <2>2, AddRatioCases DEF NextRatio
    <3>2. Prefix(i - 1) = totalRatio /\ totalRatio \in 0 .. MaxInt64 /\ MaxInt64 \in Nat
      BY <1>5, AddRatioCases, MaxInt64Assumption
    <3>3. totalRatio' = totalRatio + ratios[i]
      BY <2>2, <3>1, <3>2 DEF NextRatio, AddInt64
    <3>4. /\ prefixes' = Append(prefixes, totalRatio + ratios[i])
          /\ prefixes \in Seq(Nat) /\ totalRatio + ratios[i] \in Nat
      BY <2>2, <3>1, <3>2 DEF NextRatio
    <3>5. /\ Len(prefixes') = i
          /\ prefixes'[i] = totalRatio + ratios[i]
          /\ \A k \in 1 .. Len(prefixes) : prefixes'[k] = prefixes[k]
      BY <3>1, <3>4
    <3>6. \A k \in 0 .. Len(prefixes) : Prefix(k)' = Prefix(k)
      BY <3>5 DEF Prefix
    <3>7. /\ pc' = "ratios" /\ i' = i + 1 /\ ratios' = ratios
          /\ UNCHANGED <<shares, remainders, sumShares, sumRemainders>>
          /\ pc = "ratios"
      BY <1>5, <2>2, AddRatioCases DEF NextRatio
    <3>8. \A k \in 1 .. Len(prefixes') : ratios'[k] >= 0 /\ prefixes'[k] = Prefix(k - 1)' + ratios'[k]
      <4> SUFFICES ASSUME NEW k \in 1 .. Len(prefixes')
                   PROVE  ratios'[k] >= 0 /\ prefixes'[k] = Prefix(k - 1)' + ratios'[k]
        OBVIOUS
      <4>1. Prefix(k - 1)' = Prefix(k - 1)
        BY <3>1, <3>5, <3>6
      <4>2. CASE k = i
        BY <3>1, <3>2, <3>5, <3>7, <4>1, <4>2
      <4>3. CASE k # i
        BY <3>1, <3>5, <3>7, <4>1, <4>3
      <4> QED
        BY <4>2, <4>3
    <3>9. totalRatio' = Prefix(i - 1)'
      BY <3>1, <3>3, <3>5, <3>7 DEF Prefix
    <3>10. totalRatio' = 0 => \A k \in 1 .. Len(prefixes') : ratios'[k] = 0
      BY <3>1, <3>2, <3>3, <3>5, <3>7
    <3> QED
      BY <3>1, <3>5, <3>7, <3>8, <3>9, <3>10
  <2> QED
    BY <1>5, <2>1, <2>2, AddRatioCases
<1>6. CASE RoundAmount
  <2>2. CASE pc' = "done"
    BY <1>2, <1>6, <2>2 DEF RoundAmount, Fails
  <2>3. CASE pc' = "shares"
    <3>1. /\ totalRatio # 0 /\ UNCHANGED <<totalRatio, prefixes, ratios>>
          /\ pc = "ratios" /\ i = Len(ratios) + 1
      BY <1>6, <2>3 DEF RoundAmount, Fails
    <3> QED
      BY <1>1, <2>3, <3>1 DEF Prefix
  <2> QED
    BY <1>6, <2>2, <2>3 DEF RoundAmount, Fails
<1>7. CASE AddShare
  BY <1>3, <1>7 DEF AddShare
<1>8. CASE Sort
  BY <1>3, <1>8 DEF Sort
<1>9. CASE Spread
  BY <1>3, <1>9 DEF Spread
<1>10. CASE Finish
  BY <1>3, <1>10 DEF Finish
<1>11. CASE UNCHANGED vars
  BY <1>11 DEF vars, Prefix
<1> QED
  BY <1>4, <1>5, <1>6, <1>7, <1>8, <1>9, <1>10, <1>11 DEF Next

\* One iteration of the share loop, with its quotient and remainder named.
ShareStep(q, rem) ==
    /\ pc = "shares" /\ i \in DOMAIN ratios /\ totalRatio > 0 /\ ratios[i] \in Nat
    /\ q \in Int /\ rem \in Int
    /\ totalUnits * ratios[i] = q * totalRatio + rem
    /\ Magnitude(rem) < totalRatio
    /\ totalUnits >= 0 => rem >= 0
    /\ totalUnits <= 0 => rem <= 0
    /\ shares' = Append(shares, q) /\ sumShares' = sumShares + q
    /\ sumRemainders' = sumRemainders + rem
    /\ \/ rem = 0 /\ UNCHANGED remainders
       \/ rem # 0 /\ remainders' = Append(remainders, [index |-> i, magnitude |-> Magnitude(rem)])
    /\ i' = i + 1
    /\ UNCHANGED <<input, pc, totalRatio, totalUnits, leftover, err, prefixes>>

\* The share loop goes on to the next ratio, with or without a remainder to keep.
LEMMA AddShareCases ==
    TypeInv /\ RatiosInv /\ AddShare => \E q, rem \in Int : ShareStep(q, rem)
<1> SUFFICES ASSUME TypeInv, RatiosInv, AddShare
             PROVE  \E q, rem \in Int : ShareStep(q, rem)
  OBVIOUS
<1>1. /\ i \in DOMAIN ratios /\ totalRatio > 0 /\ totalRatio \in Int /\ pc = "shares"
      /\ ratios[i] \in Nat /\ totalUnits \in Int
  <2>1. /\ pc = "shares" /\ i <= Len(ratios) /\ Len(prefixes) = Len(ratios)
        /\ totalRatio > 0 /\ totalRatio \in 0 .. MaxInt64 /\ totalUnits \in Int
    BY DEF AddShare, TypeInv, TypeOK, RatiosInv
  <2>2. ratios \in Seq(Int) /\ i \in 1 .. Len(prefixes) /\ MaxInt64 \in Nat
    BY <2>1, InputFacts DEF TypeInv, TypeOK
  <2>3. ratios[i] \in Int /\ ratios[i] >= 0 /\ i \in DOMAIN ratios
    BY <2>1, <2>2 DEF RatiosInv
  <2> QED
    BY <2>1, <2>2, <2>3
<1> DEFINE q   == Quo(totalUnits * ratios[i], totalRatio)
           rem == Rem(totalUnits * ratios[i], totalRatio)
<1>2. /\ q \in Int /\ rem \in Int
      /\ totalUnits * ratios[i] = q * totalRatio + rem
      /\ Magnitude(rem) < totalRatio
      /\ totalUnits >= 0 => rem >= 0
      /\ totalUnits <= 0 => rem <= 0
      /\ ratios[i] = 0 => rem = 0
  <2> DEFINE r == ratios[i]
  <2>1. r \in Nat /\ totalUnits \in Int /\ totalRatio \in Int /\ totalRatio > 0
    BY <1>1
  <2> HIDE DEF r
  <2>2. /\ Quo(totalUnits * r, totalRatio) \in Int /\ Rem(totalUnits * r, totalRatio) \in Int
        /\ totalUnits * r = Quo(totalUnits * r, totalRatio) * totalRatio + Rem(totalUnits * r, totalRatio)
        /\ Magnitude(Rem(totalUnits * r, totalRatio)) < totalRatio
        /\ totalUnits >= 0 => Rem(totalUnits * r, totalRatio) >= 0
        /\ totalUnits <= 0 => Rem(totalUnits * r, totalRatio) <= 0
        /\ r = 0 => Rem(totalUnits * r, totalRatio) = 0
    BY <2>1, ShareArithmetic
  <2> QED
    BY <2>2 DEF r
<1>3. /\ shares' = Append(shares, q) /\ sumShares' = sumShares + q
      /\ sumRemainders' = sumRemainders + rem
      /\ remainders' = IF ratios[i] # 0 /\ rem # 0
                         THEN Append(remainders, [index |-> i, magnitude |-> Magnitude(rem)])
                         ELSE remainders
      /\ i' = i + 1
      /\ UNCHANGED <<input, pc, totalRatio, totalUnits, leftover, err, prefixes>>
  BY DEF AddShare
<1> HIDE DEF q, rem
<1>4. ShareStep(q, rem)
  BY <1>1, <1>2, <1>3 DEF ShareStep
<1> QED
  BY <1>2, <1>4

\* Shares and remainders together are worth the total units, at every step.
LEMMA ConservationStep == TypeInv /\ RatiosInv /\ ConservationInv /\ [Next]_vars => ConservationInv'
<1> SUFFICES ASSUME TypeInv, RatiosInv, ConservationInv, [Next]_vars, pc' = "shares"
             PROVE  ConservationInv'
  BY DEF ConservationInv
<1>1. CASE RoundAmount
  <2>1. /\ UNCHANGED <<totalRatio, shares, remainders, sumShares, ratios, history>>
        /\ i' = 1 /\ pc = "ratios" /\ totalRatio \in Int
    BY <1>1, MaxInt64Assumption DEF RoundAmount, Fails, TypeInv, TypeOK
  <2>2. totalUnits' \in Int /\ Len(ratios) \in Nat
    BY TypeStep, InputFacts DEF TypeInv, TypeOK
  <2>3. Prefix(i - 1)' = 0
    BY <2>1 DEF Prefix
  <2>4. shares = <<>> /\ remainders = <<>> /\ sumShares = 0 /\ sumRemainders = 0
    BY <2>1 DEF RatiosInv
  <2> QED
    BY <2>1, <2>2, <2>3, <2>4 DEF Magnitude, ConservationInv
<1>2. CASE AddShare
  <2>1. PICK q \in Int, rem \in Int : ShareStep(q, rem)
    BY <1>2, AddShareCases
  <2>2. /\ i \in Nat \ {0} /\ totalUnits \in Int /\ totalRatio \in Int /\ totalRatio > 0
        /\ sumShares \in Int /\ sumRemainders \in Int /\ ratios[i] \in Nat
        /\ i \in 1 .. Len(ratios) /\ pc = "shares"
        /\ shares \in Seq(Int) /\ remainders \in Seq(Remainders) /\ prefixes \in Seq(Nat)
    BY <2>1, MaxInt64Assumption, InputFacts DEF TypeInv, TypeOK, ShareStep
  <2>3. /\ Len(shares') = i /\ i' = i + 1 /\ i' <= Len(ratios') + 1
        /\ ratios' = ratios /\ prefixes' = prefixes
    <3>1. /\ shares' = Append(shares, q) /\ i' = i + 1
          /\ ratios' = ratios /\ prefixes' = prefixes
      BY <2>1 DEF ShareStep
    <3>2. Len(shares) = i - 1
      BY <2>2 DEF ConservationInv
    <3> QED
      BY <2>2, <3>1, <3>2, InputFacts DEF TypeInv
  <2>4. Len(prefixes) = Len(ratios)
    BY <2>2 DEF RatiosInv
  <2>5. /\ Prefix(i - 1) \in Int
        /\ Prefix(i - 1)' = prefixes[i]
        /\ prefixes[i] = Prefix(i - 1) + ratios[i]
    <3>1. Prefix(i - 1) \in Int
      BY <2>2, <2>4 DEF Prefix
    <3>2. prefixes[i] = Prefix(i - 1) + ratios[i]
      BY <2>2, <2>4 DEF RatiosInv
    <3>3. Prefix(i - 1)' = prefixes[i]
      <4>1. i' - 1 = i /\ i # 0
        BY <2>2, <2>3
      <4> QED
        BY <2>3, <4>1 DEF Prefix
    <3> QED
      BY <3>1, <3>2, <3>3
  <2>6. /\ totalUnits * Prefix(i - 1) = totalRatio * sumShares + sumRemainders
        /\ totalUnits * ratios[i] = q * totalRatio + rem
    BY <2>1, <2>2 DEF ConservationInv, ShareStep
  <2>7. totalUnits * (Prefix(i - 1) + ratios[i])
           = totalRatio * (sumShares + q) + (sumRemainders + rem)
    <3> DEFINE p == Prefix(i - 1)
               r == ratios[i]
    <3>1. p \in Int /\ r \in Int
      BY <2>2, <2>5
    <3>2. totalUnits * p = totalRatio * sumShares + sumRemainders /\ totalUnits * r = q * totalRatio + rem
      BY <2>6
    <3> HIDE DEF p, r
    <3>3. totalUnits * (p + r) = totalRatio * (sumShares + q) + (sumRemainders + rem)
      BY <2>2, <3>1, <3>2, ConservationLaw
    <3> QED
      BY <3>3 DEF p, r
  <2>8. totalUnits' * Prefix(i - 1)' = totalRatio' * sumShares' + sumRemainders'
    BY <2>1, <2>5, <2>7 DEF ShareStep
  <2>9. /\ totalUnits' >= 0 => sumRemainders' >= 0
        /\ totalUnits' <= 0 => sumRemainders' <= 0
    <3>1. /\ totalUnits' = totalUnits /\ sumRemainders' = sumRemainders + rem
          /\ totalUnits >= 0 => rem >= 0
          /\ totalUnits <= 0 => rem <= 0
      BY <2>1 DEF ShareStep
    <3>2. /\ totalUnits >= 0 => sumRemainders >= 0
          /\ totalUnits <= 0 => sumRemainders <= 0
      BY <2>2 DEF ConservationInv
    <3> QED
      BY <2>2, <3>1, <3>2
  <2>10. Magnitude(sumRemainders') <= (totalRatio' - 1) * Len(remainders')
    <3> DEFINE n == Len(remainders)
               b == (totalRatio - 1) * n
    <3>1. /\ n \in Nat /\ b \in Int /\ (totalRatio - 1) * (n + 1) = b + (totalRatio - 1)
      <4>1. n \in Nat
        BY <2>2
      <4> HIDE DEF n
      <4> QED
        BY <2>2, <4>1
    <3>2. Magnitude(sumRemainders) <= b
      BY <2>2 DEF ConservationInv
    <3>3. sumRemainders' = sumRemainders + rem /\ totalRatio' = totalRatio
      BY <2>1 DEF ShareStep
    <3>4. CASE rem = 0
      <4>1. remainders' = remainders /\ sumRemainders' = sumRemainders
        BY <2>1, <2>2, <3>4 DEF ShareStep
      <4> QED
        BY <3>2, <3>3, <4>1
    <3>5. CASE rem # 0
      <4>1. Len(remainders') = n + 1
        BY <2>1, <2>2, <3>5 DEF ShareStep
      <4>2. Magnitude(rem) <= totalRatio - 1
        BY <2>1, <2>2 DEF Magnitude, ShareStep
      <4> HIDE DEF n, b
      <4>3. Magnitude(sumRemainders + rem) <= b + (totalRatio - 1)
        BY <2>2, <3>1, <3>2, <4>2 DEF Magnitude
      <4> QED
        BY <3>1, <3>3, <4>1, <4>3
    <3> QED
      BY <3>4, <3>5
  <2> QED
    BY <2>3, <2>8, <2>9, <2>10 DEF ConservationInv
<1>3. CASE UNCHANGED vars
  BY <1>3 DEF vars, Prefix, ConservationInv
<1>4. ~Reject /\ ~AddRatio /\ ~Sort /\ ~Spread /\ ~Finish
  BY DEF Reject, AddRatio, Sort, Spread, Finish, Fails, TypeInv, TypeOK
<1> QED
  BY <1>1, <1>2, <1>3, <1>4 DEF Next

\* When the share loop ends, the units left over are no more than the parts with
\* a remainder: the error the code returns otherwise is unreachable.
LEMMA LeftoverFits ==
    TypeInv /\ RatiosInv /\ ConservationInv /\ Sort =>
        /\ Magnitude(Leftover) <= Len(remainders)
        /\ Leftover # 0 => Sign(Leftover) = Sign(totalUnits)
        /\ Len(shares) = Len(ratios)
        /\ totalUnits \in Int /\ sumShares \in Int /\ Leftover \in Int
<1> SUFFICES ASSUME TypeInv, RatiosInv, ConservationInv, Sort
             PROVE  /\ Magnitude(Leftover) <= Len(remainders)
                    /\ Leftover # 0 => Sign(Leftover) = Sign(totalUnits)
                    /\ Len(shares) = Len(ratios)
                    /\ totalUnits \in Int /\ sumShares \in Int /\ Leftover \in Int
  OBVIOUS
<1>1. pc = "shares" /\ i = Len(ratios) + 1 /\ Len(ratios) \in Nat
  BY InputFacts DEF Sort, TypeInv
<1>2. /\ totalUnits \in Int /\ sumShares \in Int /\ sumRemainders \in Int
      /\ totalRatio \in Int /\ totalRatio > 0 /\ Len(remainders) \in Nat
  BY <1>1, MaxInt64Assumption DEF TypeInv, TypeOK
<1>3. Prefix(i - 1) = totalRatio
  BY <1>1 DEF RatiosInv
<1>4. /\ totalUnits * totalRatio = totalRatio * sumShares + sumRemainders
      /\ Magnitude(sumRemainders) <= (totalRatio - 1) * Len(remainders)
      /\ totalUnits >= 0 => sumRemainders >= 0
      /\ totalUnits <= 0 => sumRemainders <= 0
      /\ Len(shares) = Len(ratios)
  BY <1>1, <1>3 DEF ConservationInv
<1> DEFINE n == Len(remainders)
<1>5. n \in Nat /\ Magnitude(sumRemainders) <= (totalRatio - 1) * n
  BY <1>2, <1>4
<1> HIDE DEF n
<1>6. /\ Magnitude(totalUnits - sumShares) <= n
      /\ totalUnits - sumShares # 0 => Sign(totalUnits - sumShares) = Sign(totalUnits)
  BY <1>2, <1>4, <1>5, LeftoverBound
<1> QED
  BY <1>2, <1>4, <1>6 DEF Leftover, n

\* While the leftover is spread, the remainders cover it.
LEMMA SpreadStep ==
    TypeInv /\ RatiosInv /\ ConservationInv /\ SpreadInv /\ [Next]_vars => SpreadInv'
<1> SUFFICES ASSUME TypeInv, RatiosInv, ConservationInv, SpreadInv, [Next]_vars, pc' = "spread"
             PROVE  SpreadInv'
  BY DEF SpreadInv
<1>1. CASE Sort
  <2>1. /\ Magnitude(Leftover) <= Len(remainders)
        /\ Leftover # 0 => Sign(Leftover) = Sign(totalUnits)
        /\ Len(shares) = Len(ratios)
        /\ totalUnits \in Int /\ sumShares \in Int /\ Leftover \in Int
    BY <1>1, LeftoverFits
  <2>2. /\ leftover' = Leftover /\ Leftover # 0 /\ i' = 1
        /\ Len(remainders') = Len(remainders)
        /\ UNCHANGED <<input, totalUnits, shares, sumShares>>
    <3>1. Len(remainders) \in Nat
      BY DEF TypeInv, TypeOK
    <3> QED
      BY <1>1, <3>1 DEF Sort
  <2>3. Magnitude(Leftover) \in Nat /\ Sign(Leftover) * 0 = 0
    BY <2>1 DEF Magnitude, Sign
  <2> QED
    BY <2>1, <2>2, <2>3 DEF SpreadInv, LeftoverCount, Leftover
<1>2. CASE Spread
  <2>1. /\ pc = "spread" /\ i <= LeftoverCount /\ i' = i + 1
        /\ UNCHANGED <<input, totalUnits, remainders, sumShares, leftover>>
        /\ shares' = [shares EXCEPT ![remainders[i].index] = @ + Sign(leftover)]
    BY <1>2 DEF Spread
  <2>2. /\ i \in Nat \ {0} /\ leftover \in Int /\ sumShares \in Int
        /\ shares \in Seq(Int) /\ LeftoverCount \in Nat /\ Sign(leftover) \in {-1, 0, 1}
    BY DEF TypeInv, TypeOK, LeftoverCount, Magnitude, Sign
  <2>3. Len(shares') = Len(shares)
    BY <2>1, <2>2
  <2>5. /\ Len(shares) = Len(ratios)
        /\ leftover = totalUnits - sumShares /\ leftover # 0
        /\ Sign(leftover) = Sign(totalUnits)
        /\ LeftoverCount <= Len(remainders)
    BY <2>1 DEF SpreadInv
  <2>6. LeftoverCount' = LeftoverCount /\ i' - 1 = i /\ i' <= LeftoverCount' + 1
    BY <2>1, <2>2 DEF LeftoverCount
  <2> QED
    BY <2>1, <2>3, <2>5, <2>6 DEF SpreadInv
<1>3. CASE UNCHANGED vars
  BY <1>3 DEF vars, SpreadInv, LeftoverCount
<1>4. ~Reject /\ ~AddRatio /\ ~RoundAmount /\ ~AddShare /\ ~Finish
  BY DEF Reject, AddRatio, RoundAmount, AddShare, Finish, Fails
<1> QED
  BY <1>1, <1>2, <1>3, <1>4 DEF Next

\* No step touches the receiver or the arguments.
LEMMA InputsKept == [Next]_vars => UNCHANGED input
<1>1. Reject \/ AddRatio \/ RoundAmount => UNCHANGED input
  BY DEF Reject, AddRatio, RoundAmount
<1>2. AddShare \/ Sort \/ Spread \/ Finish => UNCHANGED input
  BY DEF AddShare, Sort, Spread, Finish
<1> QED
  BY <1>1, <1>2 DEF Next, vars

\* A step that reports invalid ratios has a bad list of ratios before it.
LEMMA InvalidStep ==
    TypeInv /\ RatiosInv /\ ConservationInv /\ OnlyBadRatiosAreInvalid /\ [Next]_vars
        => OnlyBadRatiosAreInvalid'
<1> SUFFICES ASSUME TypeInv, RatiosInv, ConservationInv, OnlyBadRatiosAreInvalid, [Next]_vars,
                    err' = "ErrInvalidAllocation"
             PROVE  \/ Len(ratios) = 0
                    \/ \E k \in DOMAIN ratios : ratios[k] < 0
                    \/ \A k \in DOMAIN ratios : ratios[k] = 0
  BY InputsKept DEF OnlyBadRatiosAreInvalid
<1>1. CASE err = "ErrInvalidAllocation"
  BY <1>1 DEF OnlyBadRatiosAreInvalid
<1>2. CASE err # "ErrInvalidAllocation" /\ Reject
  BY <1>2 DEF Reject, Fails
<1>3. CASE err # "ErrInvalidAllocation" /\ AddRatio
  <2>1. ratios[i] < 0 /\ i <= Len(ratios)
    BY <1>3, AddRatioCases DEF NextRatio, Fails
  <2>2. i \in DOMAIN ratios
    BY <2>1, InputFacts DEF TypeInv, TypeOK
  <2> QED
    BY <2>1, <2>2
<1>4. CASE err # "ErrInvalidAllocation" /\ RoundAmount
  <2>1. Rescale(amount, scale, mode).err \in {"nil", "ErrInvalidScale", "ErrInvalidRoundingMode"}
    BY RescaleType DEF TypeInv, TypeOK
  <2>2. totalRatio = 0 /\ pc = "ratios" /\ i = Len(ratios) + 1
    BY <1>4, <2>1 DEF RoundAmount, Fails
  <2>3. Len(prefixes) = Len(ratios) /\ \A k \in 1 .. Len(prefixes) : ratios[k] = 0
    BY <2>2, InputFacts DEF RatiosInv, TypeInv, TypeOK
  <2>4. DOMAIN ratios = 1 .. Len(ratios)
    BY InputFacts DEF TypeInv
  <2> QED
    BY <2>3, <2>4
<1>5. CASE err # "ErrInvalidAllocation" /\ Sort
  <2>1. Magnitude(Leftover) <= Len(remainders) /\ Leftover \in Int
    BY <1>5, LeftoverFits
  <2>2. Magnitude(Leftover) > Len(remainders)
    BY <1>5 DEF Sort
  <2>3. Magnitude(Leftover) \in Int /\ Len(remainders) \in Int
    BY <2>1 DEF Magnitude, TypeInv, TypeOK
  <2> QED
    BY <2>1, <2>2, <2>3
<1>6. CASE err # "ErrInvalidAllocation" /\ (AddShare \/ Spread \/ Finish \/ UNCHANGED vars)
  BY <1>6 DEF AddShare, Spread, Finish, vars
<1> QED
  BY <1>1, <1>2, <1>3, <1>4, <1>5, <1>6 DEF Next

\* What QuotaInv needs of a step that leaves the shares and their quotas alone
SameGaps == UNCHANGED <<ratios, totalRatio, totalUnits, shares>>

\* Appending a share leaves the distances of the others as they were.
LEMMA QuotaAddShare ==
    ASSUME TypeInv, RatiosInv, ConservationInv, QuotaInv, AddShare
    PROVE  QuotaInv'
<1>1. PICK q \in Int, rem \in Int : ShareStep(q, rem)
  BY AddShareCases
<1>2. /\ i \in Nat \ {0} /\ totalUnits \in Int /\ totalRatio \in Int /\ totalRatio > 0
      /\ ratios[i] \in Nat /\ pc = "shares"
      /\ shares \in Seq(Int) /\ remainders \in Seq(Remainders)
  BY <1>1, MaxInt64Assumption DEF TypeInv, TypeOK, ShareStep
<1>3. Len(shares) = i - 1 /\ shares' = Append(shares, q)
  BY <1>1, <1>2 DEF ConservationInv, ShareStep
<1>4. /\ DOMAIN shares' = 1 .. i /\ DOMAIN shares = 1 .. (i - 1)
      /\ shares'[i] = q
      /\ \A k \in 1 .. (i - 1) : shares'[k] = shares[k]
  BY <1>2, <1>3
<1>5. pc' = "shares" /\ UNCHANGED <<ratios, totalRatio, totalUnits>>
  BY <1>1 DEF ShareStep
<1>6. \A k \in 1 .. (i - 1) : Gap(k)' = Gap(k)
  BY <1>4, <1>5 DEF Gap
<1>7. ASSUME NEW k \in 1 .. i, k = i
      PROVE  Gap(k)' = rem
  <2> DEFINE r == ratios[k]
  <2>1. Gap(k)' = totalUnits * r - q * totalRatio
    BY <1>4, <1>5, <1>7 DEF Gap
  <2>2. r \in Int /\ totalUnits * r = q * totalRatio + rem
    BY <1>1, <1>2, <1>7 DEF ShareStep
  <2> HIDE DEF r
  <2>3. q * totalRatio \in Int
    BY <1>2
  <2> QED
    BY <2>1, <2>2, <2>3
<1>8. SharesNearQuota'
  <2> SUFFICES ASSUME NEW k \in 1 .. i
               PROVE  Magnitude(Gap(k)') < totalRatio
    BY <1>4, <1>5 DEF SharesNearQuota, Magnitude
  <2>1. CASE k = i
    BY <1>1, <1>7, <2>1 DEF ShareStep
  <2>2. CASE k # i
    <3>1. k \in 1 .. (i - 1)
      BY <1>2, <2>2
    <3>2. Magnitude(Gap(k)) < totalRatio
      BY <1>4, <3>1 DEF QuotaInv, SharesNearQuota
    <3> QED
      BY <1>6, <3>1, <3>2
  <2> QED
    BY <2>1, <2>2
<1>9. \A m \in DOMAIN remainders :
        remainders[m].index \in 1 .. (i - 1) /\ Gap(remainders[m].index) # 0
        /\ Sign(Gap(remainders[m].index)) = Sign(totalUnits)
  BY <1>2, <1>4 DEF QuotaInv, Waiting
<1>10. CASE rem = 0
  <2>1. remainders' = remainders
    BY <1>1, <1>10 DEF ShareStep
  <2>2. \A m \in DOMAIN remainders' : Waiting(m)'
    <3> SUFFICES ASSUME NEW m \in DOMAIN remainders
                 PROVE  Waiting(m)'
      BY <2>1
    <3>1. remainders[m].index \in 1 .. (i - 1) /\ remainders[m].index \in 1 .. i
      BY <1>2, <1>9
    <3> QED
      BY <1>4, <1>5, <1>6, <1>9, <2>1, <3>1 DEF Waiting, Sign
  <2> QED
    BY <1>2, <1>8, <2>1, <2>2 DEF QuotaInv
<1>11. CASE rem # 0
  <2> DEFINE n == Len(remainders)
             new == [index |-> i, magnitude |-> Magnitude(rem)]
  <2>1. remainders' = Append(remainders, new)
    BY <1>1, <1>11 DEF ShareStep
  <2>2. new \in Remainders
    BY <1>2, <1>11 DEF Magnitude, Remainders
  <2>3. new.index = i
    OBVIOUS
  <2> HIDE DEF new
  <2>4. /\ n \in Nat /\ DOMAIN remainders = 1 .. n /\ DOMAIN remainders' = 1 .. (n + 1)
        /\ remainders'[n + 1] = new
        /\ \A m \in 1 .. n : remainders'[m] = remainders[m]
    BY <1>2, <2>1, <2>2
  <2> HIDE DEF n
  <2>5. Sign(rem) = Sign(totalUnits)
    BY <1>1, <1>2, <1>11, SMTT(60) DEF ShareStep, Sign
  <2>6. \A m \in DOMAIN remainders' : Waiting(m)'
    <3> SUFFICES ASSUME NEW m \in 1 .. (n + 1)
                 PROVE  Waiting(m)'
      BY <2>4
    <3>1. CASE m = n + 1
      <4>1. PICK k \in 1 .. i : k = i
        BY <1>2
      <4>2. remainders'[m].index = k
        BY <2>3, <2>4, <3>1, <4>1
      <4> QED
        BY <1>4, <1>5, <1>7, <1>11, <2>5, <4>1, <4>2 DEF Waiting, Sign
    <3>2. CASE m \in 1 .. n
      <4>1. /\ remainders'[m].index = remainders[m].index
            /\ remainders[m].index \in 1 .. (i - 1) /\ remainders[m].index \in 1 .. i
        BY <1>2, <1>9, <2>4, <3>2, SMTT(60)
      <4> QED
        BY <1>4, <1>5, <1>6, <1>9, <2>4, <3>2, <4>1 DEF Waiting, Sign
    <3> QED
      BY <2>4, <3>1, <3>2
  <2>7. ASSUME NEW a \in DOMAIN remainders', NEW b \in DOMAIN remainders', a # b
        PROVE  remainders'[a].index # remainders'[b].index
    <3>1. \A m \in 1 .. n : remainders'[m].index \in 1 .. (i - 1)
      BY <1>9, <2>4
    <3>2. \A m, k \in 1 .. n : m # k => remainders'[m].index # remainders'[k].index
      BY <1>2, <2>4 DEF QuotaInv
    <3>3. remainders'[n + 1].index = i
      BY <2>3, <2>4
    <3>4. \A j \in 1 .. (i - 1) : j # i
      BY <1>2
    <3>5. (a = n + 1 \/ a \in 1 .. n) /\ (b = n + 1 \/ b \in 1 .. n)
      BY <2>4
    <3> QED
      BY <2>7, <3>1, <3>2, <3>3, <3>4, <3>5
  <2> QED
    BY <1>8, <2>6, <2>7 DEF QuotaInv
<1> QED
  BY <1>10, <1>11

\* Sorting permutes the parts that wait for a unit.
LEMMA QuotaSort ==
    ASSUME TypeInv, QuotaInv, Sort
    PROVE  QuotaInv'
<1>1. SameGaps /\ i' = 1 /\ pc = "shares" /\ pc' \in {"done", "spread"}
  BY DEF Sort, SameGaps
<1>2. \A k : Gap(k)' = Gap(k)
  BY <1>1 DEF Gap, SameGaps
<1>3. SharesNearQuota'
  BY <1>1, <1>2 DEF QuotaInv, SharesNearQuota, SameGaps, Magnitude
<1>4. CASE pc' = "done"
  BY <1>3, <1>4 DEF QuotaInv
<1>5. CASE pc' = "spread"
  <2>1. PICK p \in Arrangements(Len(remainders)) :
          remainders' = [k \in 1 .. Len(remainders) |-> remainders[p[k]]]
    BY <1>1, <1>5 DEF Sort
  <2>2. DOMAIN remainders = 1 .. Len(remainders) /\ Len(remainders) \in Nat
    BY DEF TypeInv, TypeOK
  <2>3. /\ DOMAIN remainders' = DOMAIN remainders
        /\ \A k \in DOMAIN remainders :
              p[k] \in DOMAIN remainders /\ remainders'[k] = remainders[p[k]]
        /\ \A j, k \in DOMAIN remainders : j # k => p[j] # p[k]
    BY <2>1, <2>2 DEF Arrangements
  <2>4. \A k \in DOMAIN remainders : Waiting(k)
    BY <1>1 DEF QuotaInv
  <2>5. \A k \in DOMAIN remainders' : Waiting(k)'
    <3> SUFFICES ASSUME NEW k \in DOMAIN remainders
                 PROVE  Waiting(k)'
      BY <2>3
    <3>1. remainders'[k] = remainders[p[k]] /\ Waiting(p[k])
      BY <2>3, <2>4
    <3> QED
      BY <1>1, <1>2, <3>1 DEF Waiting, SameGaps, Sign
  <2>6. \A m, n \in DOMAIN remainders' : m # n => remainders'[m].index # remainders'[n].index
    BY <1>1, <2>3, SMTT(60) DEF QuotaInv
  <2> QED
    BY <1>3, <2>5, <2>6 DEF QuotaInv
<1> QED
  BY <1>1, <1>4, <1>5

\* A unit goes to a part that still waits for it, and to no other.
LEMMA QuotaSpread ==
    ASSUME TypeInv, RatiosInv, SpreadInv, QuotaInv, Spread
    PROVE  QuotaInv'
<1> PICK j, x, d : j = i /\ x = remainders[j].index /\ d = Sign(leftover)
  OBVIOUS
<1>1. /\ pc = "spread" /\ pc' = "spread" /\ i <= LeftoverCount /\ i' = i + 1
      /\ UNCHANGED <<ratios, totalRatio, totalUnits, remainders>>
      /\ shares' = [shares EXCEPT ![x] = shares[x] + d]
  BY DEF Spread
<1>2. /\ i \in Nat \ {0} /\ leftover \in Int /\ totalUnits \in Int
      /\ totalRatio \in Int /\ totalRatio > 0
      /\ shares \in Seq(Int) /\ ratios \in Seq(Int) /\ remainders \in Seq(Remainders)
      /\ DOMAIN shares = 1 .. Len(shares) /\ DOMAIN ratios = 1 .. Len(ratios)
      /\ DOMAIN remainders = 1 .. Len(remainders) /\ Len(remainders) \in Nat
  BY <1>1, InputFacts, MaxInt64Assumption DEF TypeInv, TypeOK, RatiosInv
<1>3. /\ Len(shares) = Len(ratios) /\ leftover # 0 /\ d = Sign(totalUnits)
      /\ LeftoverCount <= Len(remainders)
  BY <1>1 DEF SpreadInv
<1>4. j \in DOMAIN remainders /\ LeftoverCount \in Nat
  BY <1>1, <1>2, <1>3 DEF LeftoverCount, Magnitude
<1>5. d \in {1, -1}
  BY <1>2, <1>3 DEF Sign
<1>6. \A m \in DOMAIN remainders : i <= m => Waiting(m)
  BY <1>1 DEF QuotaInv
<1>7. /\ x \in DOMAIN shares /\ Gap(x) # 0 /\ Sign(Gap(x)) = d
      /\ Magnitude(Gap(x)) < totalRatio
  <2>1. Waiting(j)
    BY <1>2, <1>4, <1>6, SMTT(60)
  <2> QED
    BY <1>3, <2>1 DEF Waiting, QuotaInv, SharesNearQuota
<1>8. \A m \in DOMAIN remainders : m # j => remainders[m].index # x
  BY <1>1, <1>4 DEF QuotaInv
<1>9. /\ DOMAIN shares' = DOMAIN shares
      /\ shares'[x] = shares[x] + d
      /\ \A k \in DOMAIN shares : k # x => shares'[k] = shares[k]
  BY <1>1, <1>7
<1>10. \A k \in DOMAIN shares : k # x => Gap(k)' = Gap(k)
  BY <1>1, <1>9 DEF Gap
<1>11. Magnitude(Gap(x)') < totalRatio
  <2> DEFINE r == ratios[x]
             c == shares[x]
  <2>1. r \in Int /\ c \in Int
    BY <1>2, <1>3, <1>7
  <2>2. Gap(x) = totalUnits * r - c * totalRatio
    BY DEF Gap
  <2>3. Gap(x)' = totalUnits * r - (c + d) * totalRatio
    BY <1>1, <1>9 DEF Gap
  <2> HIDE DEF r, c
  <2>4. Gap(x) \in Int /\ Gap(x)' = Gap(x) - d * totalRatio
    <3>1. (c + d) * totalRatio = c * totalRatio + d * totalRatio
      BY <1>2, <1>5, <2>1
    <3>2. totalUnits * r \in Int /\ c * totalRatio \in Int /\ d * totalRatio \in Int
      BY <1>2, <1>5, <2>1
    <3> QED
      BY <2>2, <2>3, <3>1, <3>2
  <2>5. PICK g \in Int : g = Gap(x)
    BY <2>4
  <2>6. Magnitude(g - d * totalRatio) < totalRatio
    BY <1>2, <1>5, <1>7, <2>5, GapAfterUnit
  <2> QED
    BY <2>4, <2>5, <2>6
<1>12. SharesNearQuota'
  <2> SUFFICES ASSUME NEW k \in DOMAIN shares
               PROVE  Magnitude(Gap(k)') < totalRatio
    BY <1>1, <1>9 DEF SharesNearQuota, Magnitude
  <2>1. Magnitude(Gap(k)) < totalRatio
    BY DEF QuotaInv, SharesNearQuota
  <2> QED
    BY <1>10, <1>11, <2>1
<1>13. ASSUME NEW m \in DOMAIN remainders', i' <= m
       PROVE  Waiting(m)'
  <2>1. m \in DOMAIN remainders /\ i <= m /\ m # j
    BY <1>1, <1>2, <1>13
  <2>2. Waiting(m) /\ remainders[m].index # x
    BY <1>6, <1>8, <2>1
  <2> QED
    BY <1>1, <1>9, <1>10, <2>2 DEF Waiting, Sign
<1> QED
  BY <1>1, <1>12, <1>13 DEF QuotaInv

\* Every part stays within a unit of its quota, at every step.
LEMMA QuotaStep ==
    TypeInv /\ RatiosInv /\ ConservationInv /\ SpreadInv /\ QuotaInv /\ [Next]_vars => QuotaInv'
<1> SUFFICES ASSUME TypeInv, RatiosInv, ConservationInv, SpreadInv, QuotaInv, [Next]_vars
             PROVE  QuotaInv'
  OBVIOUS
<1>1. ASSUME pc = "ratios", UNCHANGED <<shares, remainders>>
      PROVE  QuotaInv'
  BY <1>1 DEF RatiosInv, QuotaInv, SharesNearQuota
<1>2. CASE Reject
  BY <1>1, <1>2 DEF Reject, Fails
<1>3. CASE AddRatio
  BY <1>1, <1>3, AddRatioCases DEF NextRatio, Fails
<1>4. CASE RoundAmount
  BY <1>1, <1>4 DEF RoundAmount, Fails
<1>5. CASE Finish
  <2>1. SameGaps /\ pc' = "done"
    BY <1>5 DEF Finish, SameGaps
  <2> QED
    BY <2>1 DEF SameGaps, QuotaInv, SharesNearQuota, Gap
<1>6. CASE UNCHANGED vars
  BY <1>6 DEF vars, QuotaInv, SharesNearQuota, Gap, Waiting
<1> QED
  BY <1>2, <1>3, <1>4, <1>5, <1>6, QuotaAddShare, QuotaSort, QuotaSpread DEF Next

-----------------------------------------------------------------------------
(* The theorems. *)

\* An initial state satisfies the invariant.
LEMMA InvInit == Init => IInv
<1> SUFFICES ASSUME Init PROVE IInv
  OBVIOUS
<1>1. TypeInv
  BY TypeInit
<1>2. /\ pc = "ratios" /\ i = 1 /\ prefixes = <<>> /\ shares = <<>> /\ remainders = <<>>
      /\ totalRatio = 0 /\ sumShares = 0 /\ sumRemainders = 0 /\ err = "nil"
  BY DEF Init
<1>3. Len(ratios) \in Nat
  BY <1>1, InputFacts DEF TypeInv
<1>4. RatiosInv
  BY <1>2, <1>3 DEF RatiosInv, Prefix
<1>5. ConservationInv /\ SpreadInv
  BY <1>2 DEF ConservationInv, SpreadInv
<1>6. QuotaInv
  BY <1>2 DEF QuotaInv, SharesNearQuota
<1>7. OnlyBadRatiosAreInvalid
  BY <1>2 DEF OnlyBadRatiosAreInvalid
<1> QED
  BY <1>1, <1>4, <1>5, <1>6, <1>7 DEF IInv

\* Every step keeps the invariant.
LEMMA InvStep == IInv /\ [Next]_vars => IInv'
BY TypeStep, RatiosStep, ConservationStep, SpreadStep, QuotaStep, InvalidStep DEF IInv

\* Spec => []IInv.  Every loop of AllocateRatios preserves the invariant.
THEOREM Invariance == Spec => []IInv
BY InvInit, InvStep, PTL DEF Spec

\* Spec => []SharesNearQuota.  No part is ever a whole unit from its exact quota.
THEOREM AlwaysNearQuota == Spec => []SharesNearQuota
<1>1. IInv => SharesNearQuota
  BY DEF IInv, QuotaInv
<1> QED
  BY <1>1, Invariance, PTL

\* Spec => []OnlyBadRatiosAreInvalid.  The error returned when the leftover
\* outnumbers the remainders is unreachable.
THEOREM AlwaysBadRatios == Spec => []OnlyBadRatiosAreInvalid
<1>1. IInv => OnlyBadRatiosAreInvalid
  BY DEF IInv
<1> QED
  BY <1>1, Invariance, PTL

-----------------------------------------------------------------------------
(* What the parts add up to. *)

\* The leftover unit goes to one part, on the side of the amount.
LEMMA SpreadCases ==
    ASSUME TypeInv, RatiosInv, SpreadInv, QuotaInv, Spread
    PROVE  LET x == remainders[i].index
               d == Sign(totalUnits)
           IN  /\ i \in DOMAIN remainders /\ x \in DOMAIN shares /\ d \in {1, -1}
               /\ shares' = [shares EXCEPT ![x] = shares[x] + d]
               /\ pc = "spread" /\ pc' = "spread" /\ i' = i + 1
               /\ UNCHANGED <<ratios, totalRatio, totalUnits, remainders, sumShares, leftover, err>>
               /\ \A m \in DOMAIN remainders : m # i => remainders[m].index # x
<1> DEFINE x == remainders[i].index
<1>1. /\ pc = "spread" /\ pc' = "spread" /\ i <= LeftoverCount /\ i' = i + 1
      /\ UNCHANGED <<ratios, totalRatio, totalUnits, remainders, sumShares, leftover, err>>
      /\ shares' = [shares EXCEPT ![x] = shares[x] + Sign(leftover)]
  BY DEF Spread
<1>2. /\ i \in Nat \ {0} /\ leftover \in Int /\ leftover # 0 /\ Sign(leftover) = Sign(totalUnits)
      /\ LeftoverCount <= Len(remainders) /\ LeftoverCount \in Nat
      /\ Len(remainders) \in Nat /\ DOMAIN remainders = 1 .. Len(remainders)
  BY <1>1 DEF TypeInv, TypeOK, SpreadInv, LeftoverCount, Magnitude
<1>3. i \in DOMAIN remainders
  BY <1>1, <1>2
<1>4. Sign(leftover) \in {1, -1}
  BY <1>2 DEF Sign
<1>5. Waiting(i)
  BY <1>1, <1>2, <1>3 DEF QuotaInv
<1>6. x \in DOMAIN shares
  BY <1>5 DEF Waiting
<1>7. \A m \in DOMAIN remainders : m # i => remainders[m].index # x
  BY <1>1, <1>3 DEF QuotaInv
<1> QED
  BY <1>1, <1>2, <1>3, <1>4, <1>6, <1>7

\* One more unit, of either sign.
LEMMA OneMoreUnit ==
    ASSUME NEW a \in Int, NEW d \in {1, -1}, NEW n \in Int
    PROVE  (a + d * (n - 1)) + d = a + d * n
<1>1. CASE d = 1
  BY <1>1
<1>2. CASE d = -1
  BY <1>2
<1> QED
  BY <1>1, <1>2

\* Each iteration adds to the shares what it counts, and a successful return comes
\* when the leftover is spread, or when there was none.
LEMMA TotalStep == IInv /\ TotalInv /\ [Next]_vars => TotalInv'
<1> SUFFICES ASSUME IInv, TotalInv, [Next]_vars PROVE TotalInv'
  OBVIOUS
<1>1. /\ shares \in Seq(Int) /\ totalUnits \in Int /\ sumShares \in Int /\ leftover \in Int
      /\ i \in Nat \ {0} /\ pc \in {"ratios", "shares", "spread", "done"}
      /\ TypeInv /\ RatiosInv /\ ConservationInv /\ SpreadInv /\ QuotaInv
  BY DEF IInv, TypeInv, TypeOK
<1>2. ASSUME NEW e, e # "nil", Fails(e) PROVE TotalInv'
  BY <1>2 DEF Fails, TotalInv, PartsAddUp, Succeeded
<1>3. CASE Reject
  BY <1>2, <1>3 DEF Reject
<1>4. CASE AddRatio
  <2>1. CASE NextRatio
    BY <1>4, <2>1, AddRatioCases DEF NextRatio, TotalInv, PartsAddUp, Succeeded
  <2> QED
    BY <1>2, <1>4, <2>1, AddRatioCases
<1>5. CASE RoundAmount
  <2> DEFINE units == Rescale(amount, scale, mode)
  <2>1. CASE pc' = "shares"
    <3>1. shares' = <<>> /\ sumShares' = 0
      BY <1>1, <1>5, <2>1 DEF RoundAmount, Fails, RatiosInv
    <3> QED
      BY <2>1, <3>1, TotalEmpty DEF TotalInv, PartsAddUp, Succeeded
  <2>2. CASE pc' # "shares"
    <3>1. Fails("ErrInvalidAllocation") \/ (units.err # "nil" /\ Fails(units.err))
      BY <1>5, <2>2 DEF RoundAmount
    <3> QED
      BY <1>2, <3>1
  <2> QED
    BY <2>1, <2>2
<1>6. CASE AddShare
  <2>1. PICK q, rem \in Int : ShareStep(q, rem)
    BY <1>1, <1>6, AddShareCases
  <2>2. /\ shares' = Append(shares, q) /\ sumShares' = sumShares + q
        /\ pc = "shares" /\ pc' = "shares" /\ Total(shares) = sumShares
    BY <2>1 DEF ShareStep, TotalInv
  <2>3. Total(Append(shares, q)) = Total(shares) + q
    BY <1>1, TotalAppend
  <2> QED
    BY <2>2, <2>3 DEF TotalInv, PartsAddUp, Succeeded
<1>7. CASE Sort
  <2>1. /\ pc = "shares" /\ i' = 1 /\ leftover' = Leftover /\ Leftover \in Int
        /\ UNCHANGED <<totalUnits, shares, sumShares>> /\ Total(shares) = sumShares
        /\ \/ pc' = "spread"
           \/ pc' = "done" /\ Leftover = 0
           \/ pc' = "done" /\ err' = "ErrInvalidAllocation"
    BY <1>1, <1>7, LeftoverFits DEF Sort, TotalInv
  <2>2. Sign(Leftover) * (1 - 1) = 0
    BY <2>1 DEF Sign
  <2>3. Leftover = 0 => sumShares = totalUnits
    BY <1>1 DEF Leftover
  <2>4. CASE pc' = "spread"
    BY <1>1, <2>1, <2>2, <2>4 DEF TotalInv, PartsAddUp, Succeeded
  <2>5. CASE pc' = "done"
    BY <2>1, <2>3, <2>5 DEF TotalInv, PartsAddUp, Succeeded
  <2> QED
    BY <2>1, <2>4, <2>5
<1>8. CASE Spread
  <2> DEFINE x == remainders[i].index
             d == Sign(totalUnits)
  <2>1. /\ x \in DOMAIN shares /\ d \in {1, -1} /\ pc = "spread" /\ pc' = "spread" /\ i' = i + 1
        /\ shares' = [shares EXCEPT ![x] = shares[x] + d]
        /\ UNCHANGED <<sumShares, leftover>>
    BY <1>1, <1>8, SpreadCases
  <2>2. Sign(leftover) = d /\ Total(shares) = sumShares + Sign(leftover) * (i - 1)
    BY <1>1, <2>1 DEF SpreadInv, TotalInv
  <2> HIDE DEF x, d
  <2>3. Total([shares EXCEPT ![x] = shares[x] + d]) = Total(shares) + d
    <3>1. x \in 1 .. Len(shares) /\ d \in Int
      BY <1>1, <2>1
    <3> QED
      BY <1>1, <3>1, TotalChange
  <2>4. Total(shares') = sumShares + d * i
    <3>1. Total(shares') = Total(shares) + d /\ Total(shares) = sumShares + d * (i - 1)
      BY <2>1, <2>2, <2>3
    <3>2. sumShares \in Int /\ i \in Int
      BY <1>1
    <3> QED
      BY <2>1, <3>1, <3>2, OneMoreUnit
  <2>5. i' - 1 = i
    BY <1>1, <2>1
  <2> QED
    BY <2>1, <2>2, <2>4, <2>5 DEF TotalInv, PartsAddUp, Succeeded
<1>9. CASE Finish
  <2>1. pc = "spread" /\ pc' = "done" /\ i > LeftoverCount /\ UNCHANGED <<totalUnits, shares>>
    BY <1>9 DEF Finish
  <2>2. /\ leftover = totalUnits - sumShares /\ i <= LeftoverCount + 1
        /\ Total(shares) = sumShares + Sign(leftover) * (i - 1)
    BY <1>1, <2>1 DEF SpreadInv, TotalInv
  <2>3. i - 1 = Magnitude(leftover)
    BY <1>1, <2>1, <2>2 DEF LeftoverCount, Magnitude
  <2>4. Sign(leftover) * Magnitude(leftover) = leftover
    BY <1>1 DEF Sign, Magnitude
  <2>5. Total(shares) = totalUnits
    BY <1>1, <2>2, <2>3, <2>4
  <2> QED
    BY <2>1, <2>5 DEF TotalInv, PartsAddUp, Succeeded
<1>10. CASE UNCHANGED vars
  BY <1>10 DEF vars, TotalInv, PartsAddUp, Succeeded
<1> QED
  BY <1>3, <1>4, <1>5, <1>6, <1>7, <1>8, <1>9, <1>10 DEF Next

-----------------------------------------------------------------------------
(* Which parts the leftover units go to. *)

\* A quotient with a remainder like its own is the floor of the division.
LEMMA FloorIsUnique ==
    ASSUME NEW num \in Nat, NEW den \in Int, den > 0, NEW q \in Int, NEW r \in Int,
           num = q * den + r, 0 <= r, r < den
    PROVE  num \div den = q /\ num % den = r
<1>1. Magnitude(r) < den /\ Magnitude(num) = num /\ Magnitude(den) = den
  BY DEF Magnitude
<1>2. Quo(num, den) = q
  <2>1. num = 0 => r = 0
    <3> DEFINE m == q * den
    <3>1. m \in Int /\ (q >= 1 => m >= den) /\ (q <= -1 => m <= -den) /\ (q = 0 => m = 0)
      <4>1. q >= 1 => (q - 1) * den >= 0
        OBVIOUS
      <4>2. q <= -1 => (-q - 1) * den >= 0
        OBVIOUS
      <4>3. (q - 1) * den = m - den /\ (-q - 1) * den = -m - den /\ m \in Int
        OBVIOUS
      <4> QED
        BY <4>1, <4>2, <4>3
    <3> HIDE DEF m
    <3>2. num = m + r
      BY DEF m
    <3> QED
      BY <3>1, <3>2
  <2> QED
    BY <1>1, <2>1, DivisionIsUnique
<1>3. num \div den = q
  BY <1>1, <1>2 DEF Quo
<1>4. num = (num \div den) * den + (num % den) /\ num % den \in Int
  BY FloorDivision
<1> QED
  BY <1>3, <1>4

\* q is the quota of a ratio r among t, of u units, and rem what is left of it
Splits(u, r, t, q, rem) ==
    /\ t > 0 /\ u * r = q * t + rem
    /\ Magnitude(rem) < t
    /\ u >= 0 => rem >= 0
    /\ u <= 0 => rem <= 0

\* The whole part and the rest of a quota, without its sign
WholeUnits(u, r, t) == (Magnitude(u) * r) \div t
UnitsLeft(u, r, t)  == (Magnitude(u) * r) % t

\* q is the signed whole part of that quota, and rem what is left of it
IsQuota(u, r, t, q, rem) == q = Sign(u) * WholeUnits(u, r, t) /\ Magnitude(rem) = UnitsLeft(u, r, t)

\* The truncated share is the whole part of the quota, with the sign of the amount.
LEMMA SignedShare ==
    ASSUME NEW u \in Int, NEW r \in Nat, NEW t \in Int, NEW q \in Int, NEW rem \in Int,
           Splits(u, r, t, q, rem)
    PROVE  IsQuota(u, r, t, q, rem)
<1> USE DEF IsQuota, Splits, WholeUnits, UnitsLeft
<1> DEFINE p == Magnitude(u) * r
           m == q * t
<1>1. m \in Int /\ u * r \in Int /\ (-q) * t = -m /\ (-u) * r = -(u * r)
  OBVIOUS
<1>2. Magnitude(u) \in Nat /\ p \in Nat
  BY DEF Magnitude
<1>3. CASE u > 0
  <2>1. p = q * t + rem /\ 0 <= rem /\ rem < t /\ Magnitude(rem) = rem /\ Sign(u) = 1
    BY <1>3 DEF Magnitude, Sign
  <2> HIDE DEF p
  <2>2. p \div t = q /\ p % t = rem
    BY <1>2, <2>1, FloorIsUnique
  <2>3. p \div t \in Nat
    BY <1>2, FloorDivision
  <2> QED
    BY <2>1, <2>2, <2>3 DEF p
<1>4. CASE u < 0
  <2>1. p = -(u * r) /\ Sign(u) = -1
    BY <1>1, <1>4 DEF Magnitude, Sign
  <2>2. p = (-q) * t + (-rem) /\ 0 <= -rem /\ -rem < t /\ Magnitude(rem) = -rem
    BY <1>1, <1>4, <2>1 DEF Magnitude
  <2> HIDE DEF p
  <2>3. p \div t = -q /\ p % t = -rem
    BY <1>2, <2>2, FloorIsUnique
  <2>4. p \div t \in Nat
    BY <1>2, FloorDivision
  <2> QED
    BY <2>1, <2>2, <2>3, <2>4 DEF p
<1>5. CASE u = 0
  <2>1. p = 0 /\ u * r = 0 /\ Sign(u) = 0
    BY <1>5 DEF Magnitude, Sign
  <2>2. rem = 0 /\ Magnitude(rem) = 0 /\ m = 0
    BY <1>1, <1>5, <2>1 DEF Magnitude
  <2>3. q = 0
    <3>1. q > 0 => q * t > 0
      OBVIOUS
    <3>2. q < 0 => (-q) * t > 0
      OBVIOUS
    <3> QED
      BY <1>1, <2>2, <3>1, <3>2
  <2>4. p = 0 * t + 0 /\ p \in Nat
    BY <2>1
  <2> HIDE DEF p
  <2>5. p \div t = 0 /\ p % t = 0
    BY <2>4, FloorIsUnique
  <2> QED
    BY <2>1, <2>2, <2>3, <2>5 DEF p
<1> QED
  BY <1>3, <1>4, <1>5

\* Quotas of non-negative ratios are natural numbers.
LEMMA QuotaTypes ==
    ASSUME totalUnits \in Int, totalRatio \in Int, totalRatio > 0,
           NEW k, ratios[k] \in Int, ratios[k] >= 0
    PROVE  Quota(k) \in Nat /\ Excess(k) \in Nat
<1>1. Magnitude(totalUnits) \in Nat /\ ratios[k] \in Nat
  BY DEF Magnitude
<1> DEFINE p == Magnitude(totalUnits) * ratios[k]
<1>2. p \in Nat
  BY <1>1
<1> HIDE DEF p
<1>3. p \div totalRatio \in Nat /\ p % totalRatio \in Nat
  BY <1>2, FloorDivision
<1> QED
  BY <1>3 DEF Quota, Excess, p

\* Every part is its truncated quota, and a unit more once the spread favours it.
LEMMA ShareStepInv == IInv /\ ShareInv /\ [Next]_vars => ShareInv'
<1> SUFFICES ASSUME IInv, ShareInv, [Next]_vars PROVE ShareInv'
  OBVIOUS
<1>1. ASSUME pc' \notin {"shares", "spread"}, ~Succeeded' PROVE ShareInv'
  BY <1>1 DEF ShareInv
<1>2. CASE Reject
  BY <1>1, <1>2 DEF Reject, Fails, Succeeded
<1>3. CASE AddRatio
  BY <1>1, <1>3, AddRatioCases DEF NextRatio, Fails, Succeeded
<1>4. CASE RoundAmount
  <2>1. CASE pc' = "shares"
    <3>1. /\ totalRatio # 0 /\ totalRatio \in 0 .. MaxInt64 /\ MaxInt64 \in Nat
          /\ shares = <<>> /\ shares' = shares /\ totalRatio' = totalRatio
          /\ ratios' = ratios /\ Len(ratios) \in Nat
      BY <1>4, <2>1, InputFacts DEF RoundAmount, Fails, IInv, TypeInv, TypeOK, RatiosInv
    <3>2. Len(shares') = 0 /\ DOMAIN shares' = {}
      BY <3>1
    <3> QED
      BY <3>1, <3>2 DEF ShareInv
  <2>2. CASE pc' # "shares"
    <3>1. pc' = "done" /\ err' # "nil"
      BY <1>4, <2>2 DEF RoundAmount, Fails, Rescale, Fail, Ok
    <3> QED
      BY <1>1, <3>1 DEF Succeeded
  <2> QED
    BY <2>1, <2>2
<1>5. CASE AddShare
  <2>1. PICK q, rem \in Int : ShareStep(q, rem)
    BY <1>5, AddShareCases DEF IInv
  <2>2. /\ pc = "shares" /\ pc' = "shares" /\ i \in DOMAIN ratios /\ totalRatio > 0 /\ ratios[i] \in Nat
        /\ shares' = Append(shares, q)
        /\ ratios' = ratios /\ totalRatio' = totalRatio /\ totalUnits' = totalUnits
    BY <2>1 DEF ShareStep
  <2>3. /\ shares \in Seq(Int) /\ Len(shares) = i - 1 /\ ratios \in Seq(Int) /\ totalUnits \in Int
        /\ totalRatio \in Int
    BY <2>2, InputFacts, MaxInt64Assumption DEF IInv, TypeInv, TypeOK, ConservationInv
  <2>4. /\ Len(shares') = i /\ DOMAIN shares' = 1 .. i /\ shares'[i] = q /\ i \in Nat \ {0}
        /\ \A k \in 1 .. (i - 1) : shares'[k] = shares[k] /\ k \in DOMAIN shares
        /\ Len(shares') <= Len(ratios)
    BY <2>2, <2>3
  <2>5. q = Sign(totalUnits) * Quota(i)
    <3> DEFINE r == ratios[i]
    <3>1. Splits(totalUnits, r, totalRatio, q, rem) /\ r \in Nat
      BY <2>1 DEF ShareStep, Splits
    <3> HIDE DEF r
    <3>2. IsQuota(totalUnits, r, totalRatio, q, rem)
      BY <2>2, <2>3, <3>1, SignedShare
    <3> QED
      BY <3>2 DEF IsQuota, Quota, WholeUnits, r
  <2>6. \A k : Quota(k)' = Quota(k) /\ ~Favoured(k) /\ ~Favoured(k)'
    BY <2>2 DEF Quota, Favoured
  <2>7. ASSUME NEW k \in DOMAIN shares'
        PROVE  ratios[k] >= 0 /\ shares'[k] = Sign(totalUnits) * Quota(k)
    <3>1. CASE k = i
      BY <2>2, <2>4, <2>5, <3>1
    <3>2. CASE k # i
      <4>1. k \in 1 .. (i - 1)
        BY <2>4, <3>2
      <4> QED
        BY <2>2, <2>4, <2>6, <4>1 DEF ShareInv
    <3> QED
      BY <3>1, <3>2
  <2>8. Sign(totalUnits') = Sign(totalUnits)
    BY <2>2
  <2> QED
    BY <2>2, <2>4, <2>6, <2>7, <2>8 DEF ShareInv
<1>6. CASE Sort
  <2>1. /\ pc = "shares" /\ i' = 1 /\ pc' # "shares"
        /\ UNCHANGED <<shares, ratios, totalRatio, totalUnits>>
    BY <1>6 DEF Sort
  <2>2. \A m \in DOMAIN remainders' : ~(m < 1)
    <3>1. TypeOK'
      BY TypeStep DEF IInv, TypeInv
    <3>2. remainders' \in Seq(Remainders)
      BY <3>1 DEF TypeOK
    <3> QED
      BY <3>2
  <2>3. \A k : Quota(k)' = Quota(k) /\ ~Favoured(k) /\ ~Favoured(k)'
    BY <2>1, <2>2 DEF Quota, Favoured
  <2> QED
    BY <2>1, <2>3 DEF ShareInv, Sign
<1>7. CASE Spread
  <2> PICK x, d : x = remainders[i].index /\ d = Sign(totalUnits)
    OBVIOUS
  <2>1. /\ i \in DOMAIN remainders /\ x \in DOMAIN shares /\ d \in {1, -1}
        /\ shares' = [shares EXCEPT ![x] = shares[x] + d]
        /\ pc = "spread" /\ pc' = "spread" /\ i' = i + 1
        /\ UNCHANGED <<ratios, totalRatio, totalUnits, remainders>>
        /\ \A m \in DOMAIN remainders : m # i => remainders[m].index # x
    BY <1>7, SpreadCases DEF IInv
  <2>2. /\ shares \in Seq(Int) /\ remainders \in Seq(Remainders) /\ i \in Nat /\ totalUnits \in Int
        /\ totalRatio \in Int /\ totalRatio > 0 /\ Len(shares) <= Len(ratios) /\ ratios \in Seq(Int)
    BY <2>1, InputFacts, MaxInt64Assumption DEF IInv, TypeInv, TypeOK, ShareInv
  <2>3. /\ Len(shares') = Len(shares) /\ DOMAIN shares' = DOMAIN shares
        /\ shares'[x] = shares[x] + d /\ \A k \in DOMAIN shares : k # x => shares'[k] = shares[k]
    BY <2>1, <2>2
  <2>4. \A k : Quota(k)' = Quota(k)
    BY <2>1 DEF Quota
  <2>5. \A m \in DOMAIN remainders : m < i' <=> m < i \/ m = i
    BY <2>1, <2>2
  <2>6. ~Favoured(x) /\ Favoured(x)' /\ \A k : k # x => (Favoured(k)' <=> Favoured(k))
    <3>1. ~Favoured(x)
      <4> SUFFICES ASSUME NEW m \in DOMAIN remainders, m < i, remainders[m].index = x PROVE FALSE
        BY DEF Favoured
      <4>1. m # i
        BY <2>2
      <4> QED
        BY <2>1, <4>1
    <3>2. Favoured(x)'
      <4>1. i \in DOMAIN remainders' /\ i < i' /\ remainders'[i].index = x
        BY <2>1, <2>2
      <4> QED
        BY <2>1, <4>1 DEF Favoured
    <3>3. \A k : k # x => (Favoured(k)' <=> Favoured(k))
      BY <2>1, <2>5 DEF Favoured
    <3> QED
      BY <3>1, <3>2, <3>3
  <2>7. ASSUME NEW k \in DOMAIN shares
        PROVE  /\ ratios[k] >= 0
               /\ shares'[k] = d * (IF Favoured(k)' THEN Quota(k) + 1 ELSE Quota(k))
    <3>1. ratios[k] >= 0 /\ shares[k] = d * (IF Favoured(k) THEN Quota(k) + 1 ELSE Quota(k))
      BY <2>1 DEF ShareInv
    <3>2. Quota(k) \in Nat
      <4>1. ratios[k] \in Int
        BY <2>2
      <4> QED
        BY <2>2, <3>1, <4>1, QuotaTypes
    <3>3. CASE k = x
      <4>1. shares[k] = d * Quota(k) /\ shares'[k] = shares[k] + d
        BY <2>3, <2>6, <3>1, <3>3
      <4>2. d * (Quota(k) + 1) = d * Quota(k) + d
        BY <2>1, <3>2
      <4> QED
        BY <2>6, <3>1, <3>3, <4>1, <4>2
    <3>4. CASE k # x
      BY <2>3, <2>6, <3>1, <3>4
    <3> QED
      BY <3>3, <3>4
  <2>8. Sign(totalUnits') = d
    BY <2>1
  <2> QED
    BY <2>1, <2>2, <2>3, <2>4, <2>7, <2>8 DEF ShareInv
<1>8. CASE Finish
  <2>1. /\ pc = "spread" /\ pc' = "done" /\ UNCHANGED <<i, shares, ratios, totalRatio, totalUnits, remainders>>
    BY <1>8 DEF Finish
  <2>2. \A k : Quota(k)' = Quota(k) /\ (Favoured(k)' <=> Favoured(k))
    BY <2>1 DEF Quota, Favoured
  <2> QED
    BY <2>1, <2>2 DEF ShareInv, Sign
<1>9. CASE UNCHANGED vars
  <2>1. \A k : Quota(k)' = Quota(k) /\ (Favoured(k)' <=> Favoured(k))
    BY <1>9 DEF vars, Quota, Favoured
  <2> QED
    BY <1>9, <2>1 DEF vars, ShareInv, Succeeded, Sign
<1> QED
  BY <1>2, <1>3, <1>4, <1>5, <1>6, <1>7, <1>8, <1>9 DEF Next

\* An arrangement of the remainders leaves none out.
LEMMA ArrangementIsOnto ==
    ASSUME NEW n \in Nat, NEW p \in Arrangements(n), NEW v \in 1 .. n
    PROVE  \E k \in 1 .. n : p[k] = v
<1> SUFFICES ASSUME \A k \in 1 .. n : p[k] # v PROVE FALSE
  OBVIOUS
<1> DEFINE S == 1 .. n
           T == S \ {v}
<1>1. p \in [S -> T] /\ \A j, k \in S : p[j] = p[k] => j = k
  BY DEF Arrangements
<1>2. IsFiniteSet(S) /\ Cardinality(S) = n
  BY FS_Interval
<1>3. IsFiniteSet(T) /\ Cardinality(T) = n - 1
  BY <1>2, FS_RemoveElement
<1>4. Cardinality(T) < Cardinality(S)
  BY <1>2, <1>3
<1> HIDE DEF S, T
<1>5. \E j, k \in S : j # k /\ p[j] = p[k]
  BY <1>1, <1>2, <1>3, <1>4, FS_PigeonHole
<1> QED
  BY <1>1, <1>5

\* The remainders stay those of the parts whose quota is not whole, in their order
\* once they are sorted.
LEMMA OrderStep == IInv /\ ShareInv /\ OrderInv /\ [Next]_vars => OrderInv'
<1> SUFFICES ASSUME IInv, ShareInv, OrderInv, [Next]_vars PROVE OrderInv'
  OBVIOUS
<1>1. ASSUME pc' \notin {"shares", "spread"}, ~Succeeded' PROVE OrderInv'
  BY <1>1 DEF OrderInv
<1>2. CASE Reject
  BY <1>1, <1>2 DEF Reject, Fails, Succeeded
<1>3. CASE AddRatio
  BY <1>1, <1>3, AddRatioCases DEF NextRatio, Fails, Succeeded
<1>4. CASE RoundAmount
  <2>1. CASE pc' = "shares"
    <3>1. shares' = <<>> /\ remainders' = <<>>
      BY <1>4, <2>1 DEF RoundAmount, Fails, IInv, RatiosInv
    <3> QED
      BY <2>1, <3>1 DEF OrderInv, Succeeded
  <2>2. CASE pc' # "shares"
    <3>1. pc' = "done" /\ err' # "nil"
      BY <1>4, <2>2 DEF RoundAmount, Fails, Rescale, Fail, Ok
    <3> QED
      BY <1>1, <3>1 DEF Succeeded
  <2> QED
    BY <2>1, <2>2
<1>5. CASE AddShare
  <2>1. PICK q, rem \in Int : ShareStep(q, rem)
    BY <1>5, AddShareCases DEF IInv
  <2>2. /\ pc = "shares" /\ pc' = "shares" /\ i \in DOMAIN ratios /\ totalRatio > 0 /\ ratios[i] \in Nat
        /\ shares' = Append(shares, q)
        /\ ratios' = ratios /\ totalRatio' = totalRatio /\ totalUnits' = totalUnits
        /\ \/ rem = 0 /\ UNCHANGED remainders
           \/ rem # 0 /\ remainders' = Append(remainders, [index |-> i, magnitude |-> Magnitude(rem)])
    BY <2>1 DEF ShareStep
  <2>3. /\ shares \in Seq(Int) /\ Len(shares) = i - 1 /\ remainders \in Seq(Remainders)
        /\ totalUnits \in Int /\ totalRatio \in Int /\ i \in Nat \ {0}
    BY <2>2, MaxInt64Assumption DEF IInv, TypeInv, TypeOK, ConservationInv
  <2>4. DOMAIN shares' = 1 .. i /\ DOMAIN shares = 1 .. (i - 1)
    BY <2>2, <2>3
  <2>5. Magnitude(rem) = Excess(i)
    <3> DEFINE r == ratios[i]
    <3>1. Splits(totalUnits, r, totalRatio, q, rem) /\ r \in Nat
      BY <2>1 DEF ShareStep, Splits
    <3> HIDE DEF r
    <3>2. totalUnits \in Int /\ totalRatio \in Int
      BY <2>3
    <3>3. IsQuota(totalUnits, r, totalRatio, q, rem)
      BY <3>1, <3>2, SignedShare
    <3>4. Magnitude(rem) = UnitsLeft(totalUnits, r, totalRatio)
      BY <3>3 DEF IsQuota
    <3> QED
      BY <3>4 DEF Excess, UnitsLeft, r
  <2>6. \A k : Excess(k)' = Excess(k)
    BY <2>2 DEF Excess
  <2>7. /\ \A m \in DOMAIN remainders :
             remainders[m].index \in DOMAIN shares /\ remainders[m].magnitude = Excess(remainders[m].index)
        /\ \A k \in DOMAIN shares : Excess(k) # 0 => \E m \in DOMAIN remainders : remainders[m].index = k
    BY <2>2 DEF OrderInv
  <2>8. CASE rem = 0 /\ UNCHANGED remainders
    <3>1. Excess(i) = 0
      BY <2>5, <2>8 DEF Magnitude
    <3>2. \A k \in DOMAIN shares' : Excess(k) # 0 => k \in DOMAIN shares
      BY <2>3, <2>4, <3>1
    <3>3. DOMAIN shares \subseteq DOMAIN shares'
      BY <2>3, <2>4
    <3> QED
      BY <2>2, <2>6, <2>7, <2>8, <3>2, <3>3 DEF OrderInv, Succeeded
  <2>9. CASE remainders' = Append(remainders, [index |-> i, magnitude |-> Magnitude(rem)])
    <3> DEFINE n == Len(remainders)
    <3>1. /\ n \in Nat /\ DOMAIN remainders = 1 .. n /\ DOMAIN remainders' = 1 .. (n + 1)
          /\ \A m \in 1 .. n : remainders'[m] = remainders[m]
          /\ remainders'[n + 1].index = i /\ remainders'[n + 1].magnitude = Excess(i)
      BY <2>3, <2>5, <2>9
    <3> HIDE DEF n
    <3>2. ASSUME NEW m \in DOMAIN remainders'
          PROVE  remainders'[m].index \in DOMAIN shares' /\ remainders'[m].magnitude = Excess(remainders'[m].index)
      <4>1. CASE m = n + 1
        BY <2>3, <2>4, <3>1, <4>1
      <4>2. CASE m # n + 1
        <5>1. m \in 1 .. n
          BY <3>1, <4>2
        <5>2. remainders[m].index \in 1 .. (i - 1) /\ remainders[m].magnitude = Excess(remainders[m].index)
          BY <2>4, <2>7, <3>1, <5>1
        <5> QED
          BY <2>3, <2>4, <3>1, <5>1, <5>2
      <4> QED
        BY <4>1, <4>2
    <3>3. ASSUME NEW k \in DOMAIN shares', Excess(k) # 0
          PROVE  \E m \in DOMAIN remainders' : remainders'[m].index = k
      <4>1. CASE k = i
        <5>1. n + 1 \in DOMAIN remainders'
          BY <3>1
        <5> QED
          BY <3>1, <4>1, <5>1
      <4>2. CASE k # i
        <5>1. k \in DOMAIN shares
          BY <2>3, <2>4, <4>2
        <5>2. PICK m \in 1 .. n : remainders[m].index = k
          BY <2>7, <3>1, <3>3, <5>1
        <5>3. m \in DOMAIN remainders' /\ remainders'[m] = remainders[m]
          BY <3>1
        <5> QED
          BY <5>2, <5>3
      <4> QED
        BY <4>1, <4>2
    <3> QED
      BY <2>2, <2>6, <3>2, <3>3 DEF OrderInv, Succeeded
  <2> QED
    BY <2>2, <2>8, <2>9
<1>6. CASE Sort
  <2>1. /\ pc = "shares" /\ i' = 1 /\ pc' \in {"done", "spread"}
        /\ UNCHANGED <<shares, ratios, totalRatio, totalUnits>>
    BY <1>6 DEF Sort
  <2>2. \A k : Excess(k)' = Excess(k)
    BY <2>1 DEF Excess
  <2>3. /\ \A m \in DOMAIN remainders :
             remainders[m].index \in DOMAIN shares /\ remainders[m].magnitude = Excess(remainders[m].index)
        /\ \A k \in DOMAIN shares : Excess(k) # 0 => \E m \in DOMAIN remainders : remainders[m].index = k
    BY <2>1 DEF OrderInv
  <2>4. CASE pc' = "done" /\ UNCHANGED remainders
    BY <2>1, <2>2, <2>3, <2>4 DEF OrderInv
  <2>5. CASE ~(pc' = "done" /\ UNCHANGED remainders)
    <3> DEFINE n == Len(remainders)
    <3>1. PICK p \in Arrangements(n) :
            Sorted(p) /\ remainders' = [k \in 1 .. n |-> remainders[p[k]]]
      BY <1>6, <2>5 DEF Sort
    <3>2. n \in Nat /\ DOMAIN remainders = 1 .. n
      BY DEF IInv, TypeInv, TypeOK
    <3> HIDE DEF n
    <3>3. DOMAIN remainders' = 1 .. n /\ \A k \in 1 .. n : p[k] \in 1 .. n /\ remainders'[k] = remainders[p[k]]
      BY <3>1, <3>2 DEF Arrangements
    <3>4. \A m \in 1 .. n :
            /\ remainders'[m].index \in DOMAIN shares
            /\ remainders'[m].magnitude = Excess(remainders'[m].index)
      BY <2>3, <3>2, <3>3
    <3>5. ASSUME NEW k \in DOMAIN shares, Excess(k) # 0
          PROVE  \E m \in 1 .. n : remainders'[m].index = k
      <4>1. PICK v \in 1 .. n : remainders[v].index = k
        BY <2>3, <3>2, <3>5
      <4>2. PICK m \in 1 .. n : p[m] = v
        BY <3>1, <3>2, ArrangementIsOnto
      <4> QED
        BY <3>3, <4>1, <4>2
    <3>6. \A l, m \in 1 .. n : l < m => Precedes(remainders'[l], remainders'[m])
      BY <3>1, <3>2, <3>3 DEF Sorted
    <3> QED
      BY <2>1, <2>2, <3>3, <3>4, <3>5, <3>6 DEF OrderInv, Precedes
  <2> QED
    BY <2>4, <2>5
<1>7. CASE Spread
  <2>1. /\ pc = "spread" /\ pc' = "spread" /\ UNCHANGED <<ratios, totalRatio, totalUnits, remainders>>
    BY <1>7 DEF Spread
  <2>2. DOMAIN shares' = DOMAIN shares
    <3> PICK x, d : x = remainders[i].index /\ d = Sign(totalUnits)
      OBVIOUS
    <3>1. shares' = [shares EXCEPT ![x] = shares[x] + d]
      BY <1>7, SpreadCases DEF IInv
    <3> QED
      BY <3>1
  <2>3. \A k : Excess(k)' = Excess(k)
    BY <2>1 DEF Excess
  <2> QED
    BY <2>1, <2>2, <2>3 DEF OrderInv, Precedes, Succeeded
<1>8. CASE Finish
  <2>1. /\ pc = "spread" /\ pc' = "done" /\ UNCHANGED <<i, shares, ratios, totalRatio, totalUnits, remainders>>
    BY <1>8 DEF Finish
  <2>2. \A k : Excess(k)' = Excess(k)
    BY <2>1 DEF Excess
  <2> QED
    BY <2>1, <2>2 DEF OrderInv, Precedes
<1>9. CASE UNCHANGED vars
  <2>1. \A k : Excess(k)' = Excess(k)
    BY <1>9 DEF vars, Excess
  <2> QED
    BY <1>9, <2>1 DEF vars, OrderInv, Precedes, Succeeded
<1> QED
  BY <1>2, <1>3, <1>4, <1>5, <1>6, <1>7, <1>8, <1>9 DEF Next

\* Spec => []PartsAddUp.  The parts returned add up to the rounded amount, whatever the
\* amount, the number of parts and the ratios.
THEOREM AlwaysAddUp == Spec => []PartsAddUp
<1>1. Init => TotalInv
  BY DEF Init, TotalInv, PartsAddUp, Succeeded
<1>2. TotalInv => PartsAddUp
  BY DEF TotalInv
<1> QED
  BY <1>1, <1>2, Invariance, TotalStep, PTL DEF Spec

\* A larger ratio has a larger quota: more whole units, or as many and more left.
LEMMA QuotaOrder ==
    ASSUME NEW u \in Nat \ {0}, NEW a \in Nat, NEW b \in Nat, a > b, NEW t \in Nat \ {0}
    PROVE  /\ (u * a) \div t >= (u * b) \div t
           /\ (u * a) \div t = (u * b) \div t => (u * a) % t > (u * b) % t
<1> DEFINE x == u * a
           y == u * b
<1>1. x \in Nat /\ y \in Nat /\ x > y
  <2>1. u * (a - b) > 0 /\ u * (a - b) = x - y
    OBVIOUS
  <2> QED
    BY <2>1
<1> HIDE DEF x, y
<1> DEFINE qx == x \div t
           qy == y \div t
           rx == x % t
           ry == y % t
<1>2. /\ qx \in Nat /\ x = qx * t + rx /\ rx \in Nat /\ rx < t
      /\ qy \in Nat /\ y = qy * t + ry /\ ry \in Nat /\ ry < t
  BY <1>1, FloorDivision
<1> HIDE DEF qx, qy, rx, ry
<1>3. qx >= qy
  <2>1. SUFFICES ASSUME qy >= qx + 1 PROVE FALSE
    BY <1>2
  <2>2. qy * t >= (qx + 1) * t
    BY <1>2, <2>1
  <2>3. (qx + 1) * t = qx * t + t /\ qx * t \in Int /\ qy * t \in Int
    BY <1>2
  <2> QED
    BY <1>1, <1>2, <2>2, <2>3
<1>4. qx = qy => rx > ry
  <2>1. SUFFICES ASSUME qx = qy PROVE rx > ry
    OBVIOUS
  <2>2. qx * t = qy * t /\ qx * t \in Int
    BY <1>2, <2>1
  <2> QED
    BY <1>1, <1>2, <2>2
<1> QED
  BY <1>3, <1>4 DEF qx, qy, rx, ry, x, y

\* Of two parts, the one with more left of its quota, or with as much and listed
\* first, is favoured whenever the other is.
LEMMA FavourOrder ==
    ASSUME IInv, OrderInv, Succeeded,
           NEW j \in DOMAIN shares, NEW k \in DOMAIN shares, j # k, Excess(j) \in Nat,
           Excess(j) > Excess(k) \/ (Excess(j) = Excess(k) /\ j < k), Favoured(k)
    PROVE  Favoured(j)
<1>1. /\ remainders \in Seq(Remainders) /\ shares \in Seq(Int) /\ i \in Nat \ {0}
      /\ \A m \in DOMAIN remainders : remainders[m] \in Remainders
  BY DEF IInv, TypeInv, TypeOK
<1>2. PICK m \in DOMAIN remainders : m < i /\ remainders[m].index = k
  BY DEF Favoured
<1>3. /\ i # 1 /\ m \in Nat /\ remainders[m].magnitude = Excess(k) /\ Excess(k) \in Nat \ {0}
  BY <1>1, <1>2 DEF OrderInv, Remainders
<1>4. Excess(j) # 0
  BY <1>3
<1>5. PICK n \in DOMAIN remainders : remainders[n].index = j
  BY <1>4 DEF OrderInv
<1>6. n \in Nat /\ remainders[n].magnitude = Excess(j)
  BY <1>1, <1>5 DEF OrderInv
<1>7. ~Precedes(remainders[m], remainders[n])
  <2>1. j \in Nat /\ k \in Nat
    BY <1>1
  <2> QED
    BY <1>2, <1>3, <1>5, <1>6, <2>1 DEF Precedes
<1>8. ~(m < n)
  BY <1>3, <1>7 DEF OrderInv
<1>9. n < i
  BY <1>1, <1>2, <1>3, <1>6, <1>8
<1> QED
  BY <1>5, <1>9 DEF Favoured, Succeeded

\* The invariants say that the parts follow the ratios.
LEMMA PartsAreOrdered == IInv /\ ShareInv /\ OrderInv => PartsFollowRatios
<1> SUFFICES ASSUME IInv, ShareInv, OrderInv, Succeeded,
                    NEW j \in DOMAIN shares, NEW k \in DOMAIN shares
             PROVE  /\ ratios[j] > ratios[k] => Magnitude(shares[j]) >= Magnitude(shares[k])
                    /\ ratios[j] = ratios[k] /\ j < k =>
                         Magnitude(shares[j]) - Magnitude(shares[k]) \in {0, 1}
  BY DEF PartsFollowRatios
<1>1. /\ totalUnits \in Int /\ totalRatio \in Nat \ {0} /\ shares \in Seq(Int) /\ ratios \in Seq(Int)
      /\ Len(shares) <= Len(ratios)
  BY InputFacts, MaxInt64Assumption DEF IInv, TypeInv, TypeOK, ShareInv
<1>2. ratios[j] \in Nat /\ ratios[k] \in Nat /\ j \in Nat /\ k \in Nat
  BY <1>1 DEF ShareInv
<1>3. Quota(j) \in Nat /\ Excess(j) \in Nat /\ Quota(k) \in Nat /\ Excess(k) \in Nat
  BY <1>1, <1>2, QuotaTypes
<1>4. /\ shares[j] = Sign(totalUnits) * (IF Favoured(j) THEN Quota(j) + 1 ELSE Quota(j))
      /\ shares[k] = Sign(totalUnits) * (IF Favoured(k) THEN Quota(k) + 1 ELSE Quota(k))
  BY DEF ShareInv
<1>5. CASE totalUnits = 0
  <2>1. shares[j] = 0 /\ shares[k] = 0
    BY <1>3, <1>4, <1>5 DEF Sign
  <2> QED
    BY <2>1 DEF Magnitude
<1>6. CASE totalUnits # 0
  <2>1. /\ Magnitude(shares[j]) = IF Favoured(j) THEN Quota(j) + 1 ELSE Quota(j)
        /\ Magnitude(shares[k]) = IF Favoured(k) THEN Quota(k) + 1 ELSE Quota(k)
    <3>1. Sign(totalUnits) \in {1, -1}
      BY <1>1, <1>6 DEF Sign
    <3>2. \A s \in {1, -1}, n \in Nat : Magnitude(s * n) = n
      BY DEF Magnitude
    <3>3. /\ (IF Favoured(j) THEN Quota(j) + 1 ELSE Quota(j)) \in Nat
          /\ (IF Favoured(k) THEN Quota(k) + 1 ELSE Quota(k)) \in Nat
      BY <1>3
    <3> QED
      BY <1>4, <3>1, <3>2, <3>3
  <2>2. ASSUME ratios[j] > ratios[k]
        PROVE  Magnitude(shares[j]) >= Magnitude(shares[k])
    <3>1. /\ Quota(j) >= Quota(k)
          /\ Quota(j) = Quota(k) => Excess(j) > Excess(k)
      <4>1. Magnitude(totalUnits) \in Nat \ {0}
        BY <1>1, <1>6 DEF Magnitude
      <4> QED
        BY <1>1, <1>2, <2>2, <4>1, QuotaOrder DEF Quota, Excess
    <3>2. CASE Quota(j) = Quota(k)
      <4>1. j # k
        BY <1>2, <2>2
      <4>2. Favoured(k) => Favoured(j)
        BY <1>3, <3>1, <3>2, <4>1, FavourOrder
      <4> QED
        BY <1>3, <2>1, <3>2, <4>2
    <3>3. CASE Quota(j) # Quota(k)
      BY <1>3, <2>1, <3>1, <3>3
    <3> QED
      BY <3>2, <3>3
  <2>3. ASSUME ratios[j] = ratios[k], j < k
        PROVE  Magnitude(shares[j]) - Magnitude(shares[k]) \in {0, 1}
    <3>1. Quota(j) = Quota(k) /\ Excess(j) = Excess(k) /\ j # k
      BY <1>2, <2>3 DEF Quota, Excess
    <3>2. Favoured(k) => Favoured(j)
      BY <1>3, <2>3, <3>1, FavourOrder
    <3> QED
      BY <1>3, <2>1, <3>1, <3>2
  <2> QED
    BY <2>2, <2>3
<1> QED
  BY <1>5, <1>6

\* Spec => []PartsFollowRatios.  Whatever the amount and the ratios, a larger ratio never
\* gets a smaller part, and equal ratios differ by at most one unit, the earlier ahead.
THEOREM AlwaysFollowRatios == Spec => []PartsFollowRatios
<1>1. Init => ShareInv /\ OrderInv
  BY DEF Init, ShareInv, OrderInv, Succeeded
<1> QED
  BY <1>1, Invariance, ShareStepInv, OrderStep, PartsAreOrdered, PTL DEF Spec
=============================================================================
