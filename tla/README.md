# Verification of qdecimal

TLA+ models of the decimal library and of its release publisher, checked with
TLC on small instances and, for the parts marked so, proved with TLAPS for every
value of the constants. Source paths are relative to the repository.

## The system

qdecimal is a Go library of decimal numbers for money, and two small command
line tools. The library is sequential and its types are immutable values; what
is hard in it is arithmetic at the edge of a representation, paths that must
agree, and loops whose correctness rests on an invariant. The release publisher
is the part that meets time and failure: a sequence of calls to GitHub, which
can stop between any two of them and be started again.

| Component | State | Operations | Interacts with |
|---|---|---|---|
| `rounding.go`, `roundQuotient` | none | seven modes applied to an integer quotient | under every rounded operation |
| `decimal.go` | a `Decimal`: a `big.Int` coefficient, an `int32` scale | arithmetic, rescaling, steps, comparison, key, conversions | rounding |
| `pow.go` | the locals of a loop | `PowInt`, `Pow` | Decimal |
| `aggregate.go`, `fixed64.go` 411-472, `money_context.go` | the running total of a loop | sums and averages of Decimal, Money, Fixed64, and under both policies | Decimal, Fixed64, the currency guards |
| `fixed64.go` | a `Fixed64`: `int64` units, a scale up to 18 | the same arithmetic, on an int64 path and a Decimal path | Decimal |
| `parse.go` | the parser's position and counters | `Parse`, `ParseBytes`, `ParseFlexible`, `ParseWithOptions` | Decimal |
| `fixed64.go` 574-718 | the locals of a loop | `ParseFixed64` | falls back to `Parse` |
| `money.go` | a Decimal and a currency | guarded arithmetic, ranges, allocation | Decimal |
| `minor.go` | none | integer minor units of a Decimal, and back | Decimal; allocation and Money use it |
| `context.go`, `money_context.go` | a scale and a mode, and a currency | the same operations, rounded to the policy | Decimal, Money |
| `null.go` | a value and a flag | decoding into a receiver used before | Decimal, Fixed64, Money and their codecs |
| `binary.go`, `bson.go`, `json.go`, `extendedjson.go` | none | encodings and their decoders, with limits | parsers, Decimal, Fixed64, Money |
| `String` and `AppendText` in `decimal.go`, `fixed64.go`; `format.go` | none | canonical texts; layout | parsers |
| `internal/releasegithub` | position in the sequence of calls, asset ids by name | replace the metadata and the assets of a release | GitHub's REST API, the release workflow |
| `internal/qdecimalci`, `scripts`, workflows | none | build checks and packaging | hand the files to the publisher |

What makes each correct:

- *Rounding, Decimal*: the result is the exact number, or the exact number
  rounded once; an error is one the numbers justify; equal numbers have one key.
- *Fixed64*: the same, in 64 bits: no wrapped result, no overflow that the
  result does not deserve, and no difference between the two paths.
- *Allocation*: the parts add up to the amount, each is within one unit of its
  quota, and larger ratios never get less.
- *Powers*: exact whatever the order of the products, refused only when the
  power itself is too wide.
- *Aggregates*: independent of the path and of partial overflows; one rounding;
  no two currencies added.
- *Money, policies*: the exact result, rounded once to the policy, in the one
  currency of all that took part; ranges and minor units agree with quantizing.
- *Parsers, texts*: a text is accepted exactly when it is a numeral within the
  limits, and the canonical text of a value reads as that value.
- *Publisher*: success means that the release is complete and the run's own; a
  failure costs little; a rerun repairs; no run hangs.
- *Codecs, receivers*: what is written is read back unchanged, or refused for
  its size; no encoding brings in a value the types forbid; a nullable value that
  is decoded again holds what was read last, or nothing.

## Modules

### Arithmetic

`Rounding` has truncated division as Go and `math/big` define it,
`RoundQuotient`, and `IsRounded`, the meaning of the modes by order and distance
only. `RoundingProofs` proves that the first satisfies the second, and that the
second determines the result, so checks elsewhere against `IsRounded` are checks
against the one right answer.

`Decimals` has one operator per method of `Decimal`. A scale wraps at `MaxScale`
as an int32 does. A method that returns an error is an operator that returns
`[val, err]`. Copies and `canonicalZero` are left out: `math/big` keeps zero
canonical.

`DecimalCalc` is a caller of those operators: it loads a value and makes any
sequence of calls on what the last successful one returned, invalid scales and
modes included; one action per operation. `ExactCalc` is the abstract
specification: fractions, one rounding, justified errors, nothing about
coefficients, scales or algorithms. `DecimalCalc` refines it with the fraction
`coef / 10^scale` for its value.

`Fixed64` has the checked int64 primitives (which return the set of their
results, empty on overflow), the operations that use them, and the fallbacks to
`Decimals`. `Fixed64Calc` is its caller and refines the same `ExactCalc`, with a
storage limit.

`Power` runs the loop of `PowInt` half an iteration at a time (`Multiply`, then
`Square`), with the arguments of `Pow` before it and its rounding after it.
`exponent` is a history variable: the code shifts the exponent away.

`Aggregates` runs the loops of the sums and averages one addition at a time: of
Fixed64, Decimal and Money, and of `Context` and `MoneyContext`. A Fixed64 sum
starts in `"fast"`, and an overflow or a change of scale restarts it in
`"decimal"`, the only loop of the other types. A list of Money is checked against
its first value, a list under a `MoneyContext` against the policy
(`CurrencyError`, `PolicyError`).

### Money and policies

`Moneys` has one operator per method of `Money`, `Context` and `MoneyContext`,
over the operators of `Decimals`: each guard, in the order of the code, then the
computation, then the currency of the result (`Guarded`, `Unary`, `Binary`,
`InContext`). A code that `NewMoney` is given is normalized by `NormalCode`, a
constant. The zero Money carries `NoCurrency`, which no method accepts.

`MoneyCalc` is a caller that holds a Decimal or a Money and chains calls of all
three types, with policies that have an invalid currency, scale or mode among
them. `MoneyContract` is the abstract specification: it extends `ExactCalc` by
the parties of a call, the currencies that have a part in it. A call is answered
only when its parties are one valid currency, by one rounding of the exact
result; the errors are those the arguments justify. `MoneyCalc` refines it with
`Parties`, `Into` and `Promise` saying what each call asks for. Where no order of
errors is promised, the contract allows either.

### Encodings

`Formatting` writes the canonical texts: `DecimalText` from the digits of the
coefficient, `FixedText` by moving digits in a buffer, as the two functions of
the source do. `Codec` has the encodings and their decoders. In it a text is the
number it writes: that the parsers read it so is `TextReadsBack` in
`FixedParser`. What it keeps of an encoding is what the decoders distinguish: the
form, the type it names, sign, bytes and scale of a binary payload, the code of a
Money, and the lengths that the limits count. Foreign data include what no
encoder of the library writes: zero bytes in front, unknown signs, scales and
codes out of range, partial objects, null, and other Go types from a driver.

`Receivers` is a program with one plain and one nullable value of a type, which
assigns, writes and decodes into both, in any order. `Store` is the tail of all
nine decoding methods of `null.go`, which is the same code in each.

### Allocation

`Allocate` runs the three loops of `AllocateRatios` one iteration at a time:
`AddRatio`, `AddShare` and `Spread`, with `RoundAmount` and `Sort` between them
and `Finish` after them. The int64 total of the ratios wraps (`AddInt64`). The
stable sort is any arrangement in which each remainder precedes the next
(`Precedes` is a total order, so there is one). Three history variables keep
what the invariant speaks of and the function forgets: the totals after each
ratio, the sum of the signed remainders, and the sum of the shares as they are.
`EqualRatios` is the list that `Allocate` builds.

### Parsers

`Parser` reads one character per action. The fast paths for bytes and for
strings are the same code twice in the source and one set of actions here, in
two loops; `GiveUp` starts over with the next parser, as `ParseBytes` and
`Parse` do. The reference (`Readings`, `Reading`) is not a parser: it says where
the sign, the integer part, the fraction and the exponent of a text end, and
computes the number from the digits' positions.

`FixedParser` extends it with the loop of `parseFixed64Fast`, which keeps an
int64 magnitude and four facts about the digits it drops, and runs the steps of
`Parser` when that loop gives up. `stage = "direct"` is a call of `Parser`'s own
functions, so one run checks both modules, and the canonical texts of what they
return.

### Release publisher

`ReleaseHelper` has the client and the service. A step of the client reads one
answer and sends the next request, as `run` does between two calls. Runs for one
tag follow each other, which the concurrency group of the workflow imposes
(`.github/workflows/qdecimal-release.yml`, 17-19); the same lines cancel a run
that another replaces, at any point (`Cancel`). `TimeOut` stands for the client's
90 seconds and for every other error of a call. A request of a dead run stays in
`net`: it may be served during any later run, or be lost. The service is
external. What is assumed of it: a tag has one release, a release has one asset
of a name, a second one is refused, and a list is a page of the oldest assets.

## Runs

| Run | Instance | Shows |
|---|---|---|
| `DecimalCalc` | 12 operands with scales up to 3, all modes and an invalid one, `MaxCoef` 40 | every sequence of calls refines `ExactCalc`; keys agree with `Cmp`; an exact quotient has no digit too many |
| `Fixed64Calc` | 12 operands of 8-bit units, scales up to 2 and invalid ones | the same contract, with overflows; the two paths agree; `Cmp` is numeric |
| `Power` | exponents -8 to 8 and non-integers, scales up to 4 | exact powers, one rounding, no needless refusal |
| `Allocate` | 9 amounts, up to 4 ratios and equal ratios up to 6, 8-bit totals | the parts add up, keep to their quotas and to the order of the ratios |
| `Aggregates` | lists of up to 3 values, 8-bit units, two currencies, a valid and an invalid policy | sums and averages of all five types |
| `MoneyCalc` | 4 numbers, two currencies, 4 valid policies and 3 invalid ones, scales up to 2, a 4-bit int64, `MaxCoef` 15 | every sequence of calls refines `MoneyContract`; ranges and minor units agree with quantizing |
| `FixedParser` | all texts of up to 3 characters over nine, of up to 6 over four or three, and some longer; 282 texts for `ParseFixed64`; three sets of options; the limits are 4 | the four functions of `Parser` against the definition of numerals, `ParseFixed64` rounds once, texts read back |
| `Receivers` | 7, 3 and 3 values of the types and 66 foreign data; numerals of 2 digits, coefficients of 2 bytes of 4 bits, a 5-bit int64 | every encoding reads back within its limits; nullable values mirror plain ones |
| `ReleaseHelper` | four runs, two commits, two files each | completeness, cost of failures, repair, termination |

The bounds make the edges near: an int64 is 4, 5 or 8 bits wide, so that sums,
products, shifts and minor units overflow between small operands; the widest
scale is 2 to 4, so that products and powers pass it; the fast path of `Parse`
takes 2 digits and the limits are 4, so that short texts reach each of them; a
byte has 16 values, so that values exist within one decoder's limits and beyond
another's. Nothing in the code depends on the real values except through the
comparisons that are modelled. Three values are enough for a sum that overflows
and comes back, and for a stranger that is not next to another; four ratios for
remainders that tie and leftovers of more than one unit; two currencies and
policies of both for every way a call can mix them; four publisher runs for two
failures, a repair and a change of commit. `MaxCoef` stops the growth of a
caller's value: a larger one can be returned, and only be replaced (`MaxAmount`
in `MoneyCalc`). `CallFits` and `Computable` keep out the calls whose scales wrap,
which `DecimalMulScale` is about.

Deadlock is checked where the caller never ends, in `DecimalCalc`,
`Fixed64Calc`, `MoneyCalc` and `Receivers`; the other systems stop when their
function returns or their last run ends.

Fairness is assumed in one place: each publisher run weakly fairly takes its
next step (`Fairness`). It is a sequential program whose HTTP client has a
timeout, so a step is always enabled while a call is pending. Nothing is assumed
of the service or of when a run is started.

### Three disagreements

Three runs check one property each, and it is violated:

- `DecimalMulScale`: `Mul` adds int32 scales unchecked (`decimal.go:235`), and a
  scale wraps below zero; `DESIGN.md:15` calls it non-negative. `PowInt` has the
  check, which is why it is proved below that its scales never wrap.
- `CanonicalText`: the digit limit of `Parse` counts the digits of the text
  (`parse.go:232`), and `String` writes a zero before the point that the text may
  not have had. A point followed by as many digits as the limit allows is parsed,
  and its canonical text is refused; `fuzz_test.go:18` calls that a failure.
- `ReleasePages`: the list of assets is one page (`main.go:248`). Archives of
  nightlies pile up, `checksums.txt` is always the newest asset, and once 100
  others are older it is no longer found, deleted or replaced. The instance
  has pages of 2. In `ReleaseHelper` a page holds all assets, and every
  undisturbed run succeeds.

Two more behaviours are part of the models and of what they are checked against,
and worth knowing. `Fixed64.Sub` negates its operand first (`fixed64.go:291`), so
subtracting the smallest int64 overflows even if the difference fits: the
contract of `ExactCalc` allows this error for this operand only. `ParseFixed64`
has no limit of digits in its own loop (`fixed64.go:59`) and accepts longer texts
than `Parse`; `FixedIsMeaning` holds for them all the same.

## Proofs

All theorems hold for every value of the constants, under the `ASSUME`s of the
modules: the constants have the types the code gives them, powers of ten are
what they are called (`PowersOfTen`), and slices are no longer than an int64.

- **`RoundingProofs`**: `RoundQuotientIsRounded`, from facts about truncated
  division (`TruncatedDivision`) and one case per mode and sign
  (`RoundingStep`); `RoundingIsUnique`, because two roundings of a number are
  less than two multiples apart, and each tie rule picks one of two neighbours.
  The other proofs rest on its lemmas: `ShiftIsRounded` and
  `ShiftedQuotientIsRounded` say what moving a coefficient to another scale, and
  dividing two of them, does to the numbers; `TotalAppend` and `TotalChange`
  what a loop over a sequence adds up; `RoundingIsMonotonic`, that rounding
  keeps order, is what makes ranges of money agree with quantizing. `Induction` and
  `Recursion` are induction over the naturals, by a least counterexample, and the
  existence of a function given by a first value and a step: a recursive function
  of a model is reasoned about through one lemma that says what a step of it does
  (`TotalAppend`, `SetBytesAppend`, `DigitsStep`).
  `GcdIsGreatest`, `RemovedFactors` and `LowestTermsShare` are the
  number theory behind `DivExact`, and `ExpansionIsExact` its result: a fraction
  in lowest terms has a last decimal digit exactly when its denominator has no
  factor but two and five, the two counts give the digits and their scale, and
  with fewer digits than the larger count there is a factor that only common
  factors could have taken away (`FactorLeft`).
- **`DecimalProofs`**: each operation of `decimal.go`, on its own, for all valid
  operands (`RescaleIsRounded` to `KeyIsNumber`): a rounded number, an exact
  one, or a refusal and why. `Inv` adds to the types what was known
  when the pending call was made: that the scales of its product, and the
  factors of its quotient, fit an int32, which the code does not check. From it
  `DecimalTypeCorrect`; `KeyCorrect`, because a normalized value is the only
  one with its number (`ReducedIsUnique`); and `DecimalRefinesExactCalc`, one
  lemma for each operation (`RescaleRefines` to `MaxRefines`). That no digit
  is lost by `DivExact`, and that its refusals are honest, is `DivExactRefines`.
  The contract is about numbers and would let a quotient end in zeros;
  `QuotientsAreNarrowest` is the rest of what `DivExact` does: its result can be
  rescaled to no smaller scale (`DivExactIsNarrowest`, `NarrowerIsInexact`).
- **`Fixed64Proofs`**: `TypeCorrect`, `CmpCorrect`, `PathsCorrect` and
  `Fixed64RefinesExactCalc`, for every width of the integers.
  Each checked int64 primitive returns the result on unbounded integers, or
  nothing if that does not fit (`CheckedMul64IsProduct` is the one that wraps and
  divides back; the quotient wraps too, for one pair of operands, which is why the
  code sets that pair apart: `QuotientFitsInt64`). From there each operation is
  an operation on unbounded integers whose result is `Stored`: `RescaleIsDecimal`,
  `MulIsDecimal`, `StepIsDecimal` and `CmpIsDecimal` are the agreement of the two
  paths. The refinement has one
  lemma for each operation (`AddRefines` to `MaxRefines`), by one of three
  arguments: refused for its arguments, answered exactly, answered rounded.

  The second half is about `Aggregates`: `AlwaysSumsExactly`, `AlwaysAveragesOnce`, `AlwaysExact`,
  `AmountsNeverMix` and `AggregateTypeCorrect`, for lists of any length. `ExactInv` says that both loops
  have added up exactly the values before `i`, the fast one at the scale of the
  first value, the other at the widest scale so far. A restart after an overflow
  is a fresh start of the second loop, so nothing of the first survives in the
  answer. For the currencies, the property speaks of finished calls;
  `CurrencyInv` adds that while a list of money is
  being added, everything before position `i` has the currency of the first value
  or of the policy, and that the division starts only after the last one. That
  the arithmetic itself never returns a currency error is `DecimalErrors`.
  `AlwaysExact` and `AggregateTypeCorrect` have the hypothesis `AveragesFit`: `DivExact`
  counts the factors of the divisor, here the number of values times a power of
  ten, in an int32 that it does not check. TLC evaluates the hypothesis in the run
  of `Aggregates`; with the real `MaxScale` it fails only for scales within a few
  tens of 2^31. `MeanDigits` says what `DivExact` then returns, since a reduced
  divisor has no more factors than the one it comes from (`DivisorHasFewer`), and
  `RescaledExactly` that the digits taken at one scale give the same answer at
  another. `ExactFormsInv` adds that a policy is valid once its loop runs.
- **`AllocateProofs`**: `TypeCorrect`, and from `Invariance` the theorems
  `AlwaysNearQuota` and `AlwaysBadRatios`. Neither is inductive: whether there
  are enough remainders for the units left over depends on
  two sums the function never adds up. `IInv` adds the
  conservation law of the share loop, `totalUnits * Prefix = totalRatio *
  sumShares + sumRemainders`, with remainders that all have the sign of the
  amount and are smaller than the total ratio. After the last ratio the law
  gives `leftover * totalRatio = sumRemainders`, so the leftover units are fewer
  than the remainders (`LeftoverBound`) and the check at `money.go:400` never
  fails; `SpreadInv` says what the spread goes through from there, and `QuotaInv`
  that a remainder that still waits is short of its quota by less than a unit.
  `AlwaysAddUp` speaks of the sum of the parts themselves: `TotalInv` says that
  it is `sumShares` until the spread, and from there `sumShares` and a unit of the
  sign of the leftover for each part reached. `AlwaysFollowRatios` needs to know who
  gets the leftover units: by `ShareInv` each share is its truncated quota, and
  one unit more if its part is among those the spread has reached, and by
  `OrderInv` these are the ones with the largest remainders.
- **`MoneyProofs`**, about the programs `MoneyCalc` and `Receivers`.

  The guards come first and need no arithmetic: a call that was let through had
  one valid currency among its parties (`GuardDecides`, `FirstOfThree`), and each
  operation then returns what was computed for it, in the currency it is due in
  (`ReturnsConclude`: the concrete operator is the guard, then a computation of
  `Decimals`, for each of the types). `CallerInv` adds to the types that
  the pending call is one the held value has, and that its scales and counts
  fit an int32. From it `CallerTypeCorrect` and `CurrencyDiscipline`, an action
  property. `MoneyRefinesMoneyContract` is the refinement of the abstract
  specification: a call is refused for its parties or its arguments as the
  contract allows, and a computation that was let through returns the exact
  fraction promised, or that fraction rounded once (`LetThroughIsHonoured`, with
  `HonouredRescale` to `HonouredStepToExact` for the shapes of computation). It
  rests on the lemmas of `DecimalProofs` about each operation. `MinorUnitsRoundTrip`
  says that minor units read back; `RangesCompareQuantized` that a minimum, a
  maximum and a clamp under a policy are those of the quantized amounts, because
  quantizing keeps the order of amounts (`QuantizingKeepsOrder`).

  For `Receivers`: `ReceiverTypeCorrect` says that no foreign data, whatever its
  bytes, scales and lengths, brings in a value that its type forbids
  (`DecodedIsValue`: `DecodedDecimal`, `DecodedFixed64` and `DecodedMoney` go
  through the decoders of a type). `WrittenAlwaysReadsBack` says that what is
  written is read back, or was beyond the limits. It needs the digits of a number
  and its bytes: `BytesReadBack` that they stand for the number, `BytesLength` and
  `DigitsLength` that there are more than `k` of them exactly when the number is at
  least `base^k`, so that limits on lengths are limits on values
  (`TextReadsBack`, `BinaryReadsBack`, `WordReadsBack`). `NullableAlwaysMirrors`
  is the action property: a nullable value holds what a plain one would, or
  nothing; the work is in the cases of nine methods: null is a value of no plain
  type (`NullIsRefused`), and of what is no JSON a plain receiver reads lenient
  text only (`LenientText`).
- **`PowerProofs`**: `TypeCorrect` (no scale wraps), `AlwaysScaleInv` and
  `RefusedOnlyWhenNecessary`. The invariant is that the scale of the result,
  and what the rest of the exponent will add, make up `d.scale * exponent`; a
  product that does not fit is then a part of a power that does not. `ValueInv`
  says the same of the values, result times base to the rest of the exponent is
  the power; from it `AlwaysExact` and `AlwaysRoundedOnce`.
- **`ParserProofs`**, about `FixedParser`, so about the four functions of
  `Parser` called directly and by `ParseFixed64`: `ParsedAsMeant`,
  `ErrorsSayWhatIsWrong`, `FixedParsedAsMeant`, `FixedTypeCorrect` and
  `CanonicalTextReadsBack`, for texts of any length and all options.

  The properties speak of the readings of a text: the ways to divide it into a
  sign, an integer part, a fraction and an exponent. The argument is that there
  is at most one, as each part ends where the characters of its kind do
  (`OneReading`), and that at each place of the parser `ParserInv` has named the
  parts found so far, which any reading must begin with (`ReadingIs` says when
  they are a reading). So an answer is the number of the only reading, and an
  error is honest because a reading would have had to go on with another
  character, or with a digit too many (`TooManyKeeps`). Counting the lengths
  of groups agrees with a separator at every fourth place from the end
  (`GroupEnds`, `WellGrouped`). One invariant covers the fast paths: what they
  accept is a reading within the default limits, which is where
  `ParserAssumption` says that `FastDigits` is no more than those limits; and what
  they give up leaves nothing behind (`GiveUpKeeps`).

  The loop of `ParseFixed64` never holds the digits beyond the scale. `FixedInv`
  says what it does hold of them: `Kept`, that the magnitude is the number the
  kept digits write, and `Discarded`, that the first digit after them is known,
  and of the rest whether it is zero. `DigitsRound` is the reason why this is enough in
  every mode. The bound on the magnitude, which is what keeps the int64 from
  wrapping, is part of the same invariant. A text that `Parse` would refuse for
  its length has a reading all the same, so `FixedParsedAsMeant` covers it.

  `CanonicalTextReadsBack` needs what the texts look like: `Layout` says where
  their sign, digits and point are. `DecimalLayout` proves it of `DecimalText`,
  which joins pieces, and `FixedLayout` of `FixedText`, which moves digits in a
  buffer; two texts of one layout are the same (`LayoutUnique`), and `LayoutReads`
  gives the reading. `DigitsSpell`, by induction, is that the digits of a number
  write it.

  `ParserAssumption` excludes separators that are a digit, a sign or an `e`. The
  code does not refuse them, and takes such a character for the digit, sign or exponent wherever it looks
  for one first; what a numeral would be with them the
  documentation does not say.
- **`ReleaseProofs`**: `TypeCorrect`, `SuccessIsComplete`, `SuccessIsCurrent` and
  `FailuresAreCheap`, for any number of runs, files and assets, any size of a page
  and any order in which requests are served or lost. None of them is inductive,
  because requests of dead runs are still in flight. The argument of `Inv`: runs
  follow each other and each leaves at most one request behind (`OrderInv`,
  `NetInv`). Ids grow, so whatever a run may delete is older than all that it and
  later runs upload (`DeleteInv`), which keeps a late deletion away from a
  finished release; and before a run has read the list nothing in the release is
  its own (`FreshInv`). An asset that is missing has the name of the file that a
  failed run, or the working one, was replacing (`LostInv`), and the map from
  those runs onto the missing names bounds their number. A client's step is one
  of two shapes (`Move`, entered through `EarlyMove` and `ReplaceMove`), a
  service's step one of three (`QuietInv`, `ServeDeleteInv`, `UploadedInv`).
  `RerunsRepair` has a hypothesis, `OnePage`: the names fit one page of the list.
  Without it the claim is false, which is what the run `ReleasePages` shows.
  `RepairInv` says that an undisturbed run has read the assets as they still are,
  that its pending request is one the service grants, and that the answer it
  waits for is the right one.

Only model-checked: `Terminates`, as liveness is outside what TLAPS proves. The
three properties that are violated are not theorems either: TLC shows the
counterexample.

## Not modelled

- Conversions from and to float64, `big.Rat`, and Go integer types, which rest on
  `math/big`; `Format` verbs, grouping and padding; error texts.
- The JSON of numbers chosen by options in `json.go`, the text and JSON of
  policies, and their constructors: the models start from any policy, invalid ones
  included, which every method validates again.
- `MoneyContext.Parse` (a parse and a quantize, both modelled) and
  `MoneyContext.Allocate` (a currency check and `Money.Allocate`);
  `Fixed64.Between` and `Clamp`, which compare and return an operand.
- Aliasing of `big.Int` storage: the models treat values as immutable. Every
  operation writes to a fresh `big.Int` or a copy.
- Memory: a coefficient can have any number of digits, and a power of ten for a
  scale near 2^31 is computed in full (`decimal.go:765`).
- Positions inside an encoded payload: a payload that is cut, too long or of
  another version is one kind of garbage.
- `internal/qdecimalci`, the scripts and the workflows: they read files and run
  commands, and keep no state.

## Plan

The order followed the weight of what can go wrong: arithmetic, allocation and
powers, aggregates, parsers, the publisher, then Money and its policies, the
encodings and the nullable receivers; then the proofs, in the same order but for
the parsers, which came last. What is left are the wrappers named above, once
they do more than delegate.
