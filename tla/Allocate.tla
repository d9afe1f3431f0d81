------------------------------ MODULE Allocate ------------------------------
(***************************************************************************)
(* Money.AllocateRatios (money.go): an amount is rounded to minor units    *)
(* and split by integer ratios; every part gets the truncated quota, and   *)
(* the units left over go one each to the largest remainders.  Allocate    *)
(* asks it for a list of equal ratios.                                     *)
(*                                                                         *)
(* The model runs the function's loops one iteration at a time.            *)
(***************************************************************************)
EXTENDS Decimals, Sequences

CONSTANTS
    MaxInt64,   \* 2^63 - 1 in the code: ratios and their running total wrap above
    Amounts,    \* decimals to split
    RatioLists, \* sequences of int64 ratios, negative and zero ones included
    Scales,     \* scales asked for, negative ones included
    Modes       \* rounding modes asked for, an invalid one included

ASSUME MaxInt64Assumption == MaxInt64 \in Nat \ {0}

\* Amounts are decimals the package can build, ratio lists are Go slices
ASSUME InputAssumption ==
    /\ \A d \in Amounts : d.coef \in Int /\ d.scale \in 0 .. MaxScale
    /\ \A rs \in RatioLists :
         /\ rs \in Seq(Int)
         /\ Len(rs) <= MaxInt64
         /\ \A k \in DOMAIN rs : rs[k] <= MaxInt64
    /\ \A s \in Scales : s \in Int /\ s <= MaxScale

VARIABLES
    amount, ratios, scale, mode, validCurrency, \* the receiver and the arguments
    pc,          \* "ratios", "shares", "spread" (the loops) or "done"
    i,           \* index of the current loop, from 1
    totalRatio, totalUnits, shares, remainders, sumShares, leftover,
    err          \* error returned, "nil" for none

\* What the function does not keep: the running totals of the ratios, and the sum
\* of the signed remainders.
VARIABLES prefixes, sumRemainders

input   == <<amount, ratios, scale, mode, validCurrency>>
history == <<prefixes, sumRemainders>>
vars == <<input, pc, i, totalRatio, totalUnits, shares, remainders, sumShares,
          leftover, err, history>>

Prefix(k) == IF k = 0 THEN 0 ELSE prefixes[k]

\* The ratios Allocate makes for so many parts; none, for a number it refuses
\* with the error of an empty list
EqualRatios(parts) == [k \in 1 .. parts |-> 1]

\* int64 addition of two non-negative numbers
AddInt64(a, b) == IF a + b > MaxInt64 THEN a + b - 2 * (MaxInt64 + 1) ELSE a + b

\* allocationRemainder
Remainders == [index : Nat \ {0}, magnitude : Nat \ {0}]

Init ==
    /\ amount \in Amounts
    /\ ratios \in RatioLists
    /\ scale \in Scales
    /\ mode \in Modes
    /\ validCurrency \in BOOLEAN
    /\ pc = "ratios" /\ i = 1
    /\ totalRatio = 0 /\ totalUnits = 0 /\ sumShares = 0 /\ leftover = 0
    /\ shares = <<>> /\ remainders = <<>>
    /\ err = "nil"
    /\ prefixes = <<>> /\ sumRemainders = 0

Fails(e) ==
    /\ pc' = "done" /\ err' = e
    /\ UNCHANGED <<i, totalRatio, totalUnits, shares, remainders, sumShares, leftover, history>>

Reject ==
    /\ pc = "ratios" /\ i = 1
    /\ \/ ~validCurrency /\ Fails("ErrInvalidCurrency")
       \/ validCurrency /\ Len(ratios) = 0 /\ Fails("ErrInvalidAllocation")
    /\ UNCHANGED input

\* Mutant: the running total is not checked
AddRatioUnchecked ==
    /\ pc = "ratios" /\ validCurrency /\ i <= Len(ratios)
    /\ \/ ratios[i] < 0 /\ Fails("ErrInvalidAllocation")
       \/ /\ ratios[i] >= 0
          /\ totalRatio' = AddInt64(totalRatio, ratios[i])
          /\ prefixes' = Append(prefixes, Prefix(i - 1) + ratios[i])
          /\ i' = i + 1
          /\ UNCHANGED <<pc, totalUnits, shares, remainders, sumShares, leftover, err,
                         sumRemainders>>
    /\ UNCHANGED input

AddRatio ==
    /\ pc = "ratios" /\ validCurrency /\ i <= Len(ratios)
    /\ \/ ratios[i] < 0 /\ Fails("ErrInvalidAllocation")
       \/ /\ ratios[i] >= 0 /\ AddInt64(totalRatio, ratios[i]) < 0
          /\ Fails("ErrOverflow")
       \/ /\ ratios[i] >= 0 /\ AddInt64(totalRatio, ratios[i]) >= 0
          /\ totalRatio' = AddInt64(totalRatio, ratios[i])
          /\ prefixes' = Append(prefixes, Prefix(i - 1) + ratios[i])
          /\ i' = i + 1
          /\ UNCHANGED <<pc, totalUnits, shares, remainders, sumShares, leftover, err,
                         sumRemainders>>
    /\ UNCHANGED input

\* MinorUnits: the amount rounded to the scale, as a number of units
RoundAmount ==
    /\ pc = "ratios" /\ validCurrency /\ Len(ratios) > 0 /\ i = Len(ratios) + 1
    /\ LET units == Rescale(amount, scale, mode)
       IN  \/ totalRatio = 0 /\ Fails("ErrInvalidAllocation")
           \/ totalRatio # 0 /\ units.err # "nil" /\ Fails(units.err)
           \/ /\ totalRatio # 0 /\ units.err = "nil"
              /\ totalUnits' = units.val.coef
              /\ pc' = "shares" /\ i' = 1
              /\ UNCHANGED <<totalRatio, shares, remainders, sumShares, leftover, err, history>>
    /\ UNCHANGED input

\* Mutant: only a positive remainder is kept for the spread
AddSharePositive ==
    /\ pc = "shares" /\ i <= Len(ratios)
    /\ LET product   == totalUnits * ratios[i]
           quotient  == Quo(product, totalRatio)
           remainder == Rem(product, totalRatio)
       IN  /\ shares' = Append(shares, quotient)
           /\ sumShares' = sumShares + quotient
           /\ remainders' = IF remainder > 0
                              THEN Append(remainders, [index |-> i, magnitude |-> remainder])
                              ELSE remainders
           /\ sumRemainders' = sumRemainders + remainder
    /\ i' = i + 1
    /\ UNCHANGED <<input, pc, totalRatio, totalUnits, leftover, err, prefixes>>

AddShare ==
    /\ pc = "shares" /\ i <= Len(ratios)
    /\ LET product   == totalUnits * ratios[i]
           quotient  == Quo(product, totalRatio)
           remainder == Rem(product, totalRatio)
       IN  /\ shares' = Append(shares, quotient)
           /\ sumShares' = sumShares + quotient
           /\ remainders' = IF ratios[i] # 0 /\ remainder # 0
                              THEN Append(remainders, [index |-> i, magnitude |-> Magnitude(remainder)])
                              ELSE remainders
           /\ sumRemainders' = sumRemainders + remainder
    /\ i' = i + 1
    /\ UNCHANGED <<input, pc, totalRatio, totalUnits, leftover, err, prefixes>>

\* Mutant: ties go to the later part
PrecedesLater(a, b) ==
    a.magnitude > b.magnitude \/ (a.magnitude = b.magnitude /\ a.index > b.index)

\* The order sort.SliceStable puts the remainders in: it is total, so there is
\* exactly one sorted arrangement.
Precedes(a, b) ==
    a.magnitude > b.magnitude \/ (a.magnitude = b.magnitude /\ a.index < b.index)

Arrangements(n) == {p \in [1 .. n -> 1 .. n] : \A j, k \in 1 .. n : p[j] = p[k] => j = k}

Sorted(p) == \A j, k \in DOMAIN remainders :
                j < k => Precedes(remainders[p[j]], remainders[p[k]])

\* leftoverCount is converted to an int; the bound on remainders shows that it
\* always fits one.
Leftover == totalUnits - sumShares
LeftoverCount == Magnitude(leftover)

Sort ==
    /\ pc = "shares" /\ i = Len(ratios) + 1
    /\ leftover' = Leftover
    /\ \/ Leftover = 0 /\ pc' = "done" /\ UNCHANGED <<err, remainders>>
       \/ /\ Leftover # 0
          /\ \E p \in Arrangements(Len(remainders)) :
               /\ Sorted(p)
               /\ remainders' = [k \in 1 .. Len(remainders) |-> remainders[p[k]]]
          /\ IF Magnitude(Leftover) > Len(remainders)
               THEN pc' = "done" /\ err' = "ErrInvalidAllocation"
               ELSE pc' = "spread" /\ UNCHANGED err
    /\ i' = 1
    /\ UNCHANGED <<input, totalRatio, totalUnits, shares, sumShares, history>>

\* Mutant: the unit is always added, even to a negative amount
SpreadUp ==
    /\ pc = "spread" /\ i <= LeftoverCount
    /\ shares' = [shares EXCEPT ![remainders[i].index] = @ + 1]
    /\ i' = i + 1
    /\ UNCHANGED <<input, pc, totalRatio, totalUnits, remainders, sumShares, leftover, err,
                   prefixes, sumRemainders>>

\* Mutant: the units go to the first parts, in order
SpreadInOrder ==
    /\ pc = "spread" /\ i <= LeftoverCount
    /\ shares' = [shares EXCEPT ![i] = @ + Sign(leftover)]
    /\ i' = i + 1
    /\ UNCHANGED <<input, pc, totalRatio, totalUnits, remainders, sumShares, leftover, err,
                   prefixes, sumRemainders>>

Spread ==
    /\ pc = "spread" /\ i <= LeftoverCount
    /\ shares' = [shares EXCEPT ![remainders[i].index] = @ + Sign(leftover)]
    /\ i' = i + 1
    /\ UNCHANGED <<input, pc, totalRatio, totalUnits, remainders, sumShares, leftover, err,
                   prefixes, sumRemainders>>

Finish ==
    /\ pc = "spread" /\ i > LeftoverCount
    /\ pc' = "done"
    /\ UNCHANGED <<input, i, totalRatio, totalUnits, shares, remainders, sumShares, leftover,
                   err, history>>

Next == Reject \/ AddRatio \/ RoundAmount \/ AddShare \/ Sort \/ Spread \/ Finish
Spec == Init /\ [][Next]_vars

-----------------------------------------------------------------------------
Succeeded == pc = "done" /\ err = "nil"

\* Whatever the ratios, the running total stays a non-negative int64: the wrap of
\* an overflowing sum is always seen.  (money.go AllocateRatios, the ratio loop)
TypeOK ==
    /\ amount \in Amounts /\ ratios \in RatioLists /\ scale \in Scales
    /\ mode \in Modes /\ validCurrency \in BOOLEAN
    /\ pc \in {"ratios", "shares", "spread", "done"}
    /\ i \in Nat \ {0}
    /\ totalRatio \in 0 .. MaxInt64
    /\ totalUnits \in Int /\ sumShares \in Int /\ leftover \in Int
    /\ shares \in Seq(Int) /\ remainders \in Seq(Remainders)
    /\ err \in {"nil", "ErrInvalidCurrency", "ErrInvalidAllocation", "ErrOverflow", "ErrInvalidScale",
                "ErrInvalidRoundingMode"}
    /\ prefixes \in Seq(Nat) /\ sumRemainders \in Int

\* The internal ErrInvalidAllocation after the sort cannot happen: that error is
\* returned only for ratios that are missing, negative or all zero.
OnlyBadRatiosAreInvalid ==
    err = "ErrInvalidAllocation" =>
        \/ Len(ratios) = 0
        \/ \E k \in DOMAIN ratios : ratios[k] < 0
        \/ \A k \in DOMAIN ratios : ratios[k] = 0

\* How far the share of part k is from its exact quota, times the total ratio
Gap(k) == totalUnits * ratios[k] - shares[k] * totalRatio

\* No part is a whole unit or more away from its exact quota, in any step of the
\* two loops: the spread gives no part two units and none to an exact share.
SharesNearQuota == \A k \in DOMAIN shares : Magnitude(Gap(k)) < totalRatio

\* "preserving the rounded total" (money.go AllocateRatios): the parts, summed the
\* way a caller would, are the rounded amount.  The function itself never adds them
\* up after the spread.
PartsAddUp == Succeeded => Total(shares) = totalUnits

\* A larger ratio never receives a smaller part, and equal ratios differ by at
\* most one unit, the earlier one being favoured.  (money.go: the sort and the
\* spread)
PartsFollowRatios ==
    Succeeded =>
    \A j, k \in DOMAIN shares :
        /\ ratios[j] > ratios[k] => Magnitude(shares[j]) >= Magnitude(shares[k])
        /\ ratios[j] = ratios[k] /\ j < k =>
             Magnitude(shares[j]) - Magnitude(shares[k]) \in {0, 1}

-----------------------------------------------------------------------------
(* The inductive invariant.  That the parts add up at the end is not        *)
(* inductive: it rests on the leftover being no larger than the list of     *)
(* remainders, which rests on a conservation law of the share loop.         *)

\* The loop over the ratios has one running total per ratio it has passed, and
\* the loop over the shares divides by a positive total.
TypeInv == /\ TypeOK
           /\ pc = "ratios" => i = Len(prefixes) + 1
           /\ pc = "shares" => totalRatio > 0

\* Every ratio passed is accounted for in the running totals, and a total of
\* zero has only met zeros.
RatiosInv ==
    /\ Len(prefixes) <= Len(ratios)
    /\ \A k \in 1 .. Len(prefixes) : ratios[k] >= 0 /\ prefixes[k] = Prefix(k - 1) + ratios[k]
    /\ pc = "ratios" =>
         /\ totalRatio = Prefix(i - 1)
         /\ totalRatio = 0 => \A k \in 1 .. Len(prefixes) : ratios[k] = 0
         /\ shares = <<>> /\ remainders = <<>>
         /\ sumShares = 0 /\ sumRemainders = 0
    /\ pc \in {"shares", "spread"} =>
         /\ Len(prefixes) = Len(ratios)
         /\ totalRatio = Prefix(Len(ratios)) /\ totalRatio > 0

\* The conservation law of the share loop: the units owed for the ratios passed
\* are the shares, in total ratios, and the remainders; and the remainders are
\* all on the side of the amount's sign, each smaller than the total ratio.
ConservationInv ==
    pc = "shares" =>
        /\ Len(shares) = i - 1 /\ i <= Len(ratios) + 1
        /\ totalUnits * Prefix(i - 1) = totalRatio * sumShares + sumRemainders
        /\ Magnitude(sumRemainders) <= (totalRatio - 1) * Len(remainders)
        /\ totalUnits >= 0 => sumRemainders >= 0
        /\ totalUnits <= 0 => sumRemainders <= 0

\* The spread has the sign of the amount, and never counts past the remainders.
SpreadInv ==
    pc = "spread" =>
        /\ Len(shares) = Len(ratios)
        /\ leftover = totalUnits - sumShares /\ leftover # 0
        /\ Sign(leftover) = Sign(totalUnits)
        /\ LeftoverCount <= Len(remainders)
        /\ i <= LeftoverCount + 1

\* The remainder at position m still waits for its unit: its part is short of
\* the quota, on the side of the amount's sign.
Waiting(m) ==
    LET k == remainders[m].index
    IN  /\ k \in DOMAIN shares
        /\ Gap(k) # 0 /\ Sign(Gap(k)) = Sign(totalUnits)

QuotaInv ==
    /\ SharesNearQuota
    /\ pc \in {"shares", "spread"} =>
         /\ \A m \in DOMAIN remainders : (pc = "spread" => i <= m) => Waiting(m)
         /\ \A m, n \in DOMAIN remainders :
              m # n => remainders[m].index # remainders[n].index

\* Together, inductive: every loop of the function preserves it.  (money.go
\* AllocateRatios; the share loop and the spread)
IInv == /\ TypeInv /\ RatiosInv /\ ConservationInv /\ SpreadInv /\ QuotaInv
        /\ OnlyBadRatiosAreInvalid

-----------------------------------------------------------------------------
(* Beyond IInv: what the shares add up to, and which parts the leftover     *)
(* units go to.                                                             *)

\* The shares add up to what the share loop has counted, and then to one unit more,
\* on the side of the leftover, for each part the spread has reached.
TotalInv ==
    /\ pc = "shares" => Total(shares) = sumShares
    /\ pc = "spread" => Total(shares) = sumShares + Sign(leftover) * (i - 1)
    /\ PartsAddUp

\* The whole units of the exact quota of part k, without its sign, and what is left
\* of that quota
Quota(k)  == (Magnitude(totalUnits) * ratios[k]) \div totalRatio
Excess(k) == (Magnitude(totalUnits) * ratios[k]) % totalRatio

\* The spread has given part k its unit.
Favoured(k) == pc # "shares" /\ \E m \in DOMAIN remainders : m < i /\ remainders[m].index = k

\* Every part is its truncated quota, with the unit of the spread if it got one.
ShareInv ==
    pc \in {"shares", "spread"} \/ Succeeded =>
        /\ totalRatio > 0 /\ Len(shares) <= Len(ratios)
        /\ \A k \in DOMAIN shares :
             /\ ratios[k] >= 0
             /\ shares[k] = Sign(totalUnits) * (IF Favoured(k) THEN Quota(k) + 1 ELSE Quota(k))

\* The remainders are those of the parts whose quota is not whole, and the spread
\* goes through them in their order.
OrderInv ==
    pc \in {"shares", "spread"} \/ Succeeded =>
        /\ \A m \in DOMAIN remainders :
             /\ remainders[m].index \in DOMAIN shares
             /\ remainders[m].magnitude = Excess(remainders[m].index)
        /\ \A k \in DOMAIN shares :
             Excess(k) # 0 => \E m \in DOMAIN remainders : remainders[m].index = k
        /\ pc = "spread" \/ (Succeeded /\ i # 1) =>
             \A m, n \in DOMAIN remainders : m < n => Precedes(remainders[m], remainders[n])
=============================================================================
