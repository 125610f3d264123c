------------------------------- MODULE Convert -------------------------------
(***************************************************************************)
(* From a price in USD per HASH to the flatfees factor and back:             *)
(* convert.Compute, chain.ImpliedPrice and the band of guard.CheckMovement,  *)
(* in exact rational arithmetic as in the code. The scales are parameters:   *)
(* the program's are 10^9, 10^12, 10^15 over 10^6, with thresholds 1/100 and *)
(* 1/100000, beyond the integers of a model checker.                         *)
(***************************************************************************)
EXTENDS Integers

CONSTANTS
    thresholdHigh, thresholdMid,                   \* rationals
    convertedHigh, convertedMid, convertedLow,
    Million,         \* the divisor of the cost formula
    MaxMoveRatio,    \* MAX_PRICE_MOVE_RATIO, a rational
    MinDefinition    \* the definition amount at a threshold, 10

Rationals == [num : Int, den : Nat \ {0}]

AtLeast(p, q) == q.num * p.den <= p.num * q.den
Times(p, q) == [num |-> p.num * q.num, den |-> p.den * q.den]
Over(p, q) == [num |-> p.num * q.den, den |-> p.den * q.num]

\* Each tier begins where its scale gives MinDefinition, and the scales grow as
\* the price drops.
ASSUME ScalesAssumption ==
    /\ {thresholdHigh, thresholdMid, MaxMoveRatio} \subseteq Rationals
    /\ {convertedHigh, convertedMid, convertedLow} \subseteq Nat \ {0}
    /\ Million \in Nat \ {0} /\ MinDefinition \in Nat \ {0}
    /\ thresholdMid.num > 0 /\ AtLeast(thresholdHigh, thresholdMid)
    /\ convertedHigh * thresholdHigh.num = MinDefinition * Million * thresholdHigh.den
    /\ convertedMid * thresholdMid.num = MinDefinition * Million * thresholdMid.den
    /\ convertedHigh <= convertedMid /\ convertedMid <= convertedLow

\* One scale too small in the middle tier.
HighScaleInMid(p) ==
    IF AtLeast(p, thresholdMid) THEN convertedHigh ELSE convertedLow

\* The scale of the price's tier.
selectTier(p) ==
    IF AtLeast(p, thresholdHigh) THEN convertedHigh
    ELSE IF AtLeast(p, thresholdMid) THEN convertedMid
    ELSE convertedLow

\* To the nearest integer, ties up.
roundHalfUp(p) == (2 * p.num + p.den) \div (2 * p.den)

\* musd per selectTier(p) nhash.
DefinitionOf(p) ==
    roundHalfUp([num |-> selectTier(p) * p.num, den |-> Million * p.den])

\* Any positive price will do.
RefusesNonPositive(p) == p.num <= 0

\* The price is refused: not positive, or its definition amount rounds to zero.
Refuses(p) == p.num <= 0 \/ DefinitionOf(p) <= 0

Compute(p) == [definition |-> DefinitionOf(p), converted |-> selectTier(p)]

\* A chain that has no factor yet.
Unset == [definition |-> 0, converted |-> 0]

IsFactorSet(f) == f.definition # 0 /\ f.converted # 0

\* A price implied as if there were one scale.
HighTierPrice(f) == [num |-> f.definition * Million, den |-> convertedHigh]

ImpliedPrice(f) == [num |-> f.definition * Million, den |-> f.converted]

\* The upper bound only.
RisesOnly(p, f) ==
    \/ ~IsFactorSet(f)
    \/ MaxMoveRatio.num <= MaxMoveRatio.den
    \/ AtLeast(Times(ImpliedPrice(f), MaxMoveRatio), p)

\* No price below the one implied.
NoFall(p, f) ==
    \/ ~IsFactorSet(f)
    \/ MaxMoveRatio.num <= MaxMoveRatio.den
    \/ /\ AtLeast(Times(ImpliedPrice(f), MaxMoveRatio), p)
       /\ AtLeast(p, ImpliedPrice(f))

\* CheckMovement passes: nothing to compare with, the check is off, or p is no
\* more than MaxMoveRatio times, and no less than one MaxMoveRatio-th of, the
\* price the factor implies.
WithinBand(p, f) ==
    \/ ~IsFactorSet(f)
    \/ MaxMoveRatio.num <= MaxMoveRatio.den
    \/ /\ AtLeast(Times(ImpliedPrice(f), MaxMoveRatio), p)
       /\ AtLeast(p, Over(ImpliedPrice(f), MaxMoveRatio))

\* What run() makes of a price and the factor on chain: an update is due.
Updates(p, f, forced) ==
    /\ ~Refuses(p)
    /\ Compute(p) # f
    /\ forced \/ WithinBand(p, f)

=============================================================================
