----------------------------- MODULE MarketProofs -----------------------------
(***************************************************************************)
(* The factor and the market, for every market, band and scale: while the    *)
(* market is quiet no price is refused, and what keeps the factor from being *)
(* the day's price is only that no run has landed yet.                       *)
(***************************************************************************)
EXTENDS Market, FactorUpdatesProofs

\* The price and q are no more than d apart.
Apart(q, d) == AtLeast(Times(q, d), price) /\ AtLeast(Times(price, d), q)

\* In a quiet market the factor is the conversion of a price the drift leads
\* back to.
DriftInv ==
    quiet =>
        /\ HasRoom(price, drift)
        /\ IsFactorSet(factor) =>
              \E q \in Prices : /\ AtLeast(q, thresholdMid)
                                /\ factor = Compute(q)
                                /\ Apart(q, drift)

MarketInv ==
    /\ price \in Prices
    /\ drift \in Rationals /\ drift.num > 0
    /\ DriftInv

LEMMA StillKeeps ==
    ASSUME NEW p \in Rationals
    PROVE  AtLeast(Times(p, Still), p) /\ Still \in Rationals /\ Still.num > 0
BY DEF AtLeast, Times, Still, Rationals

LEMMA DailyMoveType == DailyMove \in Rationals /\ DailyMove.num > 0
<1>1. Still \in Rationals /\ DailyMove \in Rationals /\ AtLeast(DailyMove, Still)
  BY MarketAssumption DEF Still, Rationals
<1> QED
  BY <1>1 DEF AtLeast, Still, Rationals

LEMMA PositiveProduct ==
    ASSUME NEW p \in Rationals, NEW q \in Rationals, p.num > 0, q.num > 0
    PROVE  Times(p, q) \in Rationals /\ Times(p, q).num > 0
<1>1. p.num \in Nat \ {0} /\ q.num \in Nat \ {0}
  BY DEF Rationals
<1>2. p.num * q.num \in Nat \ {0}
  BY <1>1, Products
<1> QED
  BY <1>2, TimesType DEF Times

\* One day on.
LEMMA MidnightKeeps ==
    ASSUME MarketInv, NEW new \in Prices, Midnight(new)
    PROVE  MarketInv'
<1> DEFINE moved == Times(drift, DailyMove)
           calm == quiet /\ Moves(price, new) /\ HasRoom(new, moved)
<1>1. new \in Rationals /\ price \in Rationals /\ drift \in Rationals /\ drift.num > 0
      /\ DailyMove \in Rationals /\ DailyMove.num > 0
  BY PricesAssumption, DailyMoveType DEF MarketInv
<1>2. moved \in Rationals /\ moved.num > 0
  BY <1>1, PositiveProduct
<1>3. price' = new /\ factor' = factor
  BY DEF Midnight, factorVars
<1>4. CASE factor = Compute(new)
  <2>1. drift' = Still /\ quiet' = HasRoom(new, Still)
    BY <1>4 DEF Midnight
  <2>2. quiet' => AtLeast(new, thresholdMid) /\ Apart(new, drift)'
    BY <1>1, <1>3, <2>1, StillKeeps DEF HasRoom, Apart
  <2> QED
    BY <1>1, <1>3, <1>4, <2>1, <2>2, StillKeeps DEF MarketInv, DriftInv
<1>5. CASE factor # Compute(new) /\ ~calm
  BY <1>1, <1>3, <1>5, StillKeeps DEF Midnight, MarketInv, DriftInv
<1>6. CASE factor # Compute(new) /\ calm
  <2>1. drift' = moved
    BY <1>6 DEF Midnight
  <2>2. /\ AtLeast(Times(price, DailyMove), new)
        /\ AtLeast(Times(new, DailyMove), price)
    BY <1>1, <1>6, OverIsTimes DEF Moves
  <2>3. ASSUME NEW q \in Prices, Apart(q, drift)
        PROVE  Apart(q, drift)'
    <3>1. q \in Rationals
      BY PricesAssumption
    <3>2. /\ Times(q, drift) \in Rationals /\ Times(price, drift) \in Rationals
          /\ Times(price, DailyMove) \in Rationals /\ Times(new, DailyMove) \in Rationals
          /\ Times(Times(q, drift), DailyMove) \in Rationals
          /\ Times(Times(new, DailyMove), drift) \in Rationals
      BY <1>1, <3>1, TimesType
    <3>3. AtLeast(Times(Times(q, drift), DailyMove), new)
      <4>1. AtLeast(Times(Times(q, drift), DailyMove), Times(price, DailyMove))
        BY <1>1, <2>3, <3>2, TimesMonotone DEF Apart
      <4> QED
        BY <1>1, <2>2, <3>2, <4>1, Transitive
    <3>4. AtLeast(Times(Times(new, DailyMove), drift), q)
      <4>1. AtLeast(Times(Times(new, DailyMove), drift), Times(price, drift))
        BY <1>1, <2>2, <3>2, TimesMonotone
      <4> QED
        BY <2>3, <3>1, <3>2, <4>1, Transitive DEF Apart
    <3>5. /\ Times(Times(q, drift), DailyMove) = Times(q, moved)
          /\ Times(Times(new, DailyMove), drift) = Times(new, moved)
      BY <1>1, <3>1, TimesAssociates, TimesCommutes
    <3> QED
      BY <1>3, <2>1, <3>3, <3>4, <3>5 DEF Apart
  <2>4. HasRoom(new, moved) /\ quiet
    BY <1>6
  <2> QED
    BY <1>2, <1>3, <2>1, <2>3, <2>4 DEF MarketInv, DriftInv
<1> QED
  BY <1>4, <1>5, <1>6

LEMMA LandingKeeps ==
    ASSUME MarketInv, NEW forced, Lands(forced)
    PROVE  MarketInv'
<1>1. price \in Prices /\ price \in Rationals
  BY PricesAssumption DEF MarketInv
<1>2. /\ factor' = Compute(price) /\ price' = price
      /\ drift' = Still /\ quiet' = HasRoom(price, Still)
  BY DEF Lands, Update
<1>3. quiet' => AtLeast(price, thresholdMid) /\ Apart(price, drift)'
  BY <1>1, <1>2, StillKeeps DEF HasRoom, Apart
<1> QED
  BY <1>1, <1>2, <1>3, StillKeeps DEF MarketInv, DriftInv

THEOREM MarketInvariant == MarketSpec => []MarketInv
<1>1. MarketInit => MarketInv
  <2> SUFFICES ASSUME MarketInit
               PROVE  MarketInv
    OBVIOUS
  <2>1. price \in Prices /\ drift = Still /\ quiet = HasRoom(price, Still) /\ ~IsFactorSet(factor)
    BY DEF MarketInit, Init, Unset, IsFactorSet
  <2> QED
    BY <2>1, StillKeeps, PricesAssumption DEF MarketInv, DriftInv
<1>2. MarketInv /\ [MarketNext]_marketVars => MarketInv'
  <2> SUFFICES ASSUME MarketInv, [MarketNext]_marketVars
               PROVE  MarketInv'
    OBVIOUS
  <2>1. CASE UNCHANGED marketVars
    BY <2>1 DEF marketVars, factorVars, MarketInv, DriftInv, Apart
  <2>2. CASE MarketNext
    BY <2>2, MidnightKeeps, LandingKeeps DEF MarketNext
  <2> QED
    BY <2>1, <2>2
<1> QED
  BY <1>1, <1>2, PTL DEF MarketSpec

\* The band over a factor with room for the drift.
LEMMA RoomIsEnough ==
    ASSUME NEW p \in Prices, NEW q \in Prices, NEW d \in Rationals, d.num > 0,
           MaxMoveRatio.num > MaxMoveRatio.den,
           AtLeast(q, thresholdMid), HasRoom(p, d),
           AtLeast(Times(q, d), p), AtLeast(Times(p, d), q)
    PROVE  WithinBand(p, Compute(q))
<1> DEFINE m == MinDefinition
           less == [num |-> 2 * m - 1, den |-> 2 * m]
           more == [num |-> 2 * m + 1, den |-> 2 * m]
           implied == ImpliedPrice(Compute(q))
           R == MaxMoveRatio
<1>1. /\ p \in Rationals /\ q \in Rationals /\ implied \in Rationals
      /\ R \in Rationals /\ R.num > 0 /\ m \in Nat \ {0}
  BY PricesAssumption, ScalesAssumption, ComputedType DEF Rationals
<1>2. less \in Rationals /\ more \in Rationals /\ more.num > 0 /\ less.num > 0
  BY <1>1 DEF Rationals
<1>3. AtLeast(Times(q, more), implied) /\ AtLeast(implied, Times(q, less))
  <2>1. 2 * m + -1 = 2 * m - 1
    BY <1>1
  <2> QED
    BY <1>1, <2>1, ImpliesItsPrice
<1>4. p.num > 0 /\ q.num > 0
  BY <1>1, AboveThreshold DEF HasRoom
<1>5. AtLeast(Times(R, less), d)
  BY DEF HasRoom
<1>6. AtLeast(R, Times(Times(R, less), more))
  <2>1. R.num \in Nat \ {0} /\ R.den \in Nat \ {0}
    BY <1>1 DEF Rationals
  <2>2. R.num * R.den \in Nat
    BY <2>1, Products
  <2>3. (2 * m - 1) * (2 * m + 1) <= (2 * m) * (2 * m)
    BY <1>1
  <2>4. ((2 * m - 1) * (2 * m + 1)) * (R.num * R.den) <= ((2 * m) * (2 * m)) * (R.num * R.den)
    BY <1>1, <2>2, <2>3, Scale, Products
  <2>5. /\ ((2 * m - 1) * (2 * m + 1)) * (R.num * R.den)
               = ((R.num * (2 * m - 1)) * (2 * m + 1)) * R.den
        /\ ((2 * m) * (2 * m)) * (R.num * R.den) = R.num * ((R.den * (2 * m)) * (2 * m))
    BY <1>1, <2>1
  <2> QED
    BY <2>4, <2>5 DEF AtLeast, Times
<1> HIDE DEF less, more, implied, R, m
<1>7. AtLeast(Times(implied, R), p)
  <2>1. AtLeast(Times(implied, R), Times(Times(q, less), R))
    BY <1>1, <1>2, <1>3, TimesType, TimesMonotone
  <2>2. Times(Times(q, less), R) = Times(Times(R, less), q)
    BY <1>1, <1>2, TimesType, TimesAssociates, TimesCommutes
  <2>3. AtLeast(Times(Times(R, less), q), Times(d, q))
    BY <1>1, <1>2, <1>4, <1>5, TimesType, TimesMonotone
  <2>4. Times(d, q) = Times(q, d)
    BY <1>1, TimesCommutes
  <2>5. /\ Times(implied, R) \in Rationals /\ Times(Times(R, less), q) \in Rationals
        /\ Times(q, d) \in Rationals
    BY <1>1, <1>2, TimesType
  <2>6. AtLeast(Times(implied, R), Times(q, d))
    BY <2>1, <2>2, <2>3, <2>4, <2>5, Transitive
  <2> QED
    BY <1>1, <2>5, <2>6, Transitive
<1>8. AtLeast(Times(p, R), implied)
  <2>1. AtLeast(R, Times(d, more))
    <3>1. AtLeast(Times(Times(R, less), more), Times(d, more))
      BY <1>1, <1>2, <1>5, TimesType, TimesMonotone
    <3>2. Times(Times(R, less), more) \in Rationals /\ Times(d, more) \in Rationals
      BY <1>1, <1>2, TimesType
    <3> QED
      BY <1>1, <1>6, <3>1, <3>2, Transitive
  <2>2. AtLeast(Times(R, p), Times(Times(d, more), p))
    BY <1>1, <1>2, <1>4, <2>1, TimesType, TimesMonotone
  <2>3. Times(Times(d, more), p) = Times(Times(p, d), more)
    <3>1. Times(Times(d, more), p) = Times(p, Times(d, more))
      BY <1>1, <1>2, TimesType, TimesCommutes
    <3> QED
      BY <1>1, <1>2, <3>1, TimesAssociates
  <2>4. AtLeast(Times(Times(p, d), more), Times(q, more))
    BY <1>1, <1>2, TimesType, TimesMonotone
  <2>5. Times(R, p) = Times(p, R)
    BY <1>1, TimesCommutes
  <2>6. /\ Times(p, R) \in Rationals /\ Times(Times(p, d), more) \in Rationals
        /\ Times(q, more) \in Rationals
    BY <1>1, <1>2, TimesType
  <2>7. AtLeast(Times(p, R), Times(q, more))
    BY <2>2, <2>3, <2>4, <2>5, <2>6, Transitive
  <2> QED
    BY <1>1, <1>3, <2>6, <2>7, Transitive
<1>9. AtLeast(p, Over(implied, R))
  BY <1>1, <1>8, OverIsTimes
<1> QED
  BY <1>7, <1>9 DEF WithinBand, implied, R

\* In a quiet market the next run is never refused for its price, for every
\* market, band, scale and number of days without a run.
THEOREM QuietMarketGetsThrough == MarketSpec => []NeverLockedOut
<1>1. MarketInv => NeverLockedOut
  <2> SUFFICES ASSUME MarketInv, quiet, IsFactorSet(factor), ~(MaxMoveRatio.num <= MaxMoveRatio.den)
               PROVE  WithinBand(price, factor)
    BY DEF NeverLockedOut, WithinBand
  <2>1. MaxMoveRatio.num > MaxMoveRatio.den
    BY ScalesAssumption DEF Rationals
  <2>2. PICK q \in Prices : /\ AtLeast(q, thresholdMid)
                            /\ factor = Compute(q)
                            /\ Apart(q, drift)
    BY DEF MarketInv, DriftInv
  <2> QED
    BY <2>1, <2>2, RoomIsEnough DEF MarketInv, DriftInv, Apart
<1> QED
  BY <1>1, MarketInvariant, PTL

\* A price above the lowest tier converts to at least one musd.
LEMMA NotRefused ==
    ASSUME NEW p \in Rationals, AtLeast(p, thresholdMid)
    PROVE  ~Refuses(p)
<1> DEFINE a == selectTier(p) * p.num
           b == Million * p.den
           d == DefinitionOf(p)
           m == MinDefinition
<1>1. a \in Int /\ b \in Nat \ {0} /\ d \in Int /\ 2 * a < 2 * (d * b) + b
  BY DefinitionIsNearest
<1>2. m * b <= a /\ m \in Nat \ {0}
  BY TierIsFine, ScalesAssumption
<1>3. p.num \in Int /\ p.num > 0
  BY AboveThreshold DEF Rationals
<1> HIDE DEF a, b, d, m
<1>4. m * b \in Int /\ d * b \in Int /\ b <= m * b
  <2>1. b * 1 <= b * m
    <3>1. b * (m - 1) >= 0
      <4>1. \A x, y \in Nat : x * y >= 0
        OBVIOUS
      <4> QED
        BY <1>1, <1>2, <4>1
    <3>2. b * (m - 1) = b * m - b * 1 /\ b * m \in Int
      BY <1>1, <1>2
    <3> QED
      BY <1>1, <3>1, <3>2
  <2> QED
    BY <1>1, <1>2, <2>1
<1>5. d > 0
  <2> SUFFICES ASSUME d <= 0
               PROVE  FALSE
    BY <1>1
  <2>1. (0 - d) * b >= 0
    <3>1. \A x, y \in Nat : x * y >= 0
      OBVIOUS
    <3> QED
      BY <1>1, <3>1
  <2>2. (0 - d) * b = 0 - d * b
    BY <1>1
  <2> QED
    BY <1>1, <1>2, <1>4, <2>1, <2>2
<1> QED
  BY <1>1, <1>3, <1>5 DEF Refuses, d

\* In a quiet market the factor is the day's price's, or the next run that gets
\* through makes it so: no operator is needed. It is what Converges needs besides
\* a run that lands (main.go:159-182).
THEOREM OnlyALandingIsMissing ==
    MarketSpec => /\ [](quiet => Settled \/ Updates(price, factor, FALSE))
                  /\ [][\A forced \in BOOLEAN : Lands(forced) => Settled']_marketVars
<1>1. MarketInv /\ NeverLockedOut => (quiet => Settled \/ Updates(price, factor, FALSE))
  <2> SUFFICES ASSUME MarketInv, NeverLockedOut, quiet, ~Settled
               PROVE  Updates(price, factor, FALSE)
    OBVIOUS
  <2>1. price \in Rationals /\ AtLeast(price, thresholdMid)
    BY PricesAssumption DEF MarketInv, DriftInv, HasRoom
  <2> QED
    BY <2>1, NotRefused DEF Updates, NeverLockedOut, Settled
<1>2. [MarketNext]_marketVars => [\A forced \in BOOLEAN : Lands(forced) => Settled']_marketVars
  BY DEF Lands, Update, Settled, Compute, DefinitionOf, selectTier, roundHalfUp
<1> QED
  BY <1>1, <1>2, MarketInvariant, QuietMarketGetsThrough, PTL DEF MarketSpec

\* The market's updates are those of FactorUpdates, so that what holds of every
\* sequence of updates holds of the runs of a CronJob.
THEOREM MarketUpdates == MarketSpec => Spec
<1>1. MarketInit => Init
  BY DEF MarketInit
<1>2. MarketInv /\ [MarketNext]_marketVars => [Next]_factorVars
  <2> SUFFICES ASSUME MarketInv, [MarketNext]_marketVars
               PROVE  [Next]_factorVars
    OBVIOUS
  <2>1. CASE UNCHANGED marketVars
    BY <2>1 DEF marketVars
  <2>2. ASSUME NEW new \in Prices, Midnight(new)
        PROVE  UNCHANGED factorVars
    BY <2>2 DEF Midnight
  <2>3. ASSUME NEW forced \in BOOLEAN, Lands(forced)
        PROVE  Next
    BY <2>3 DEF Lands, Next, MarketInv
  <2> QED
    BY <2>1, <2>2, <2>3 DEF MarketNext
<1> QED
  BY <1>1, <1>2, MarketInvariant, PTL DEF MarketSpec, Spec

=============================================================================
