---------------------------- MODULE FactorUpdates ----------------------------
(***************************************************************************)
(* What the oracle promises the chain: the factor changes only to the        *)
(* conversion of a price, and by an update that was due against the factor   *)
(* it replaces. The pipeline that keeps the promise is module Oracle.        *)
(***************************************************************************)
EXTENDS Convert

CONSTANT Prices    \* what GetPrice may return

ASSUME PricesAssumption == Prices \subseteq Rationals

VARIABLES
    factor,   \* the conversion factor on chain
    last      \* the update that put it there

factorVars == <<factor, last>>

NoUpdate == [price |-> [num |-> 0, den |-> 1], forced |-> FALSE]

Init ==
    /\ factor = Unset
    /\ last = NoUpdate

Update(p, forced) ==
    /\ Updates(p, factor, forced)
    /\ factor' = Compute(p)
    /\ last' = [price |-> p, forced |-> forced]

Next == \E p \in Prices, forced \in BOOLEAN : Update(p, forced)

Spec == Init /\ [][Next]_factorVars

------------------------------------------------------------------------------
(* Properties *)

\* Above the lowest tier the factor implies the price it was computed from up
\* to one part in 2 * MinDefinition, whichever side of a threshold it is on
\* ("the factor tracks the live rate", README.md:17-18; convert.go:88-117).
TracksThePrice ==
    (IsFactorSet(factor) /\ AtLeast(last.price, thresholdMid)) =>
        LET implied == ImpliedPrice(factor)
            slack(n) == [num |-> 2 * MinDefinition + n, den |-> 2 * MinDefinition]
        IN  /\ AtLeast(Times(last.price, slack(1)), implied)
            /\ AtLeast(implied, Times(last.price, slack(-1)))

\* A higher price never implies a cheaper HASH, across the tiers too
\* (convert.go:88-97).
FollowsThePrice ==
    [][(IsFactorSet(factor) /\ AtLeast(last'.price, last.price)) =>
            AtLeast(ImpliedPrice(factor'), ImpliedPrice(factor))]_factorVars

\* An update that was not forced moves the implied price no further than the
\* band and the rounding of one musd, in either direction (guard.go:43-67).
MovesAreBounded ==
    [][(IsFactorSet(factor) /\ ~last'.forced) =>
        LET old == ImpliedPrice(factor)
            up == [definition |-> factor'.definition - 1, converted |-> factor'.converted]
            down == [definition |-> factor'.definition + 1, converted |-> factor'.converted]
        IN  /\ AtLeast(Times(old, MaxMoveRatio), ImpliedPrice(up))
            /\ AtLeast(ImpliedPrice(down), Over(old, MaxMoveRatio))]_factorVars

=============================================================================
