-------------------------------- MODULE Market --------------------------------
(***************************************************************************)
(* The factor and the market it follows, day after day. The price is the     *)
(* VWAP of the window that ends at the last midnight; the CronJob's runs     *)
(* read it, and one that lands puts its conversion on chain. A run that      *)
(* fails, or skips because the price is out of the band, changes nothing and *)
(* the next run finds the same factor: nothing but the market or an          *)
(* operator's FORCE_UPDATE ends a lockout.                                   *)
(***************************************************************************)
EXTENDS FactorUpdates

CONSTANT DailyMove    \* how far a quiet market's price moves in a day, a rational

Still == [num |-> 1, den |-> 1]

ASSUME MarketAssumption == DailyMove \in Rationals /\ AtLeast(DailyMove, Still)

VARIABLES
    price,   \* what a run of today finds
    drift,   \* the most it has moved since the factor was its conversion
    quiet    \* it has moved by DailyMove a day, which the band has room for

marketVars == <<factorVars, price, drift, quiet>>

Settled == factor = Compute(price)

Moves(old, new) ==
    /\ AtLeast(Times(old, DailyMove), new)
    /\ AtLeast(new, Over(old, DailyMove))

\* The band has room for the drift and for the rounding of one musd. In the
\* lowest tier the rounding has no bound.
HasRoom(p, d) ==
    /\ AtLeast(p, thresholdMid)
    /\ AtLeast(Times(MaxMoveRatio, [num |-> 2 * MinDefinition - 1, den |-> 2 * MinDefinition]), d)

MarketInit ==
    /\ Init
    /\ price \in Prices
    /\ drift = Still
    /\ quiet = HasRoom(price, Still)

\* Midnight: the window moves on by a day. The new price may be one the factor
\* is right for as it stands.
Midnight(new) ==
    LET moved == Times(drift, DailyMove)
        calm == quiet /\ Moves(price, new) /\ HasRoom(new, moved)
    IN  /\ price' = new
        /\ IF factor = Compute(new)
           THEN drift' = Still /\ quiet' = HasRoom(new, Still)
           ELSE drift' = (IF calm THEN moved ELSE Still) /\ quiet' = calm
        /\ UNCHANGED factorVars

\* A run of today lands.
Lands(forced) ==
    /\ Update(price, forced)
    /\ drift' = Still
    /\ quiet' = HasRoom(price, Still)
    /\ UNCHANGED price

MarketNext ==
    \/ \E new \in Prices : Midnight(new)
    \/ \E forced \in BOOLEAN : Lands(forced)

\* Not every run fails. No one ever has to force one.
Fairness == WF_marketVars(Lands(FALSE))

MarketSpec == MarketInit /\ [][MarketNext]_marketVars /\ Fairness

------------------------------------------------------------------------------
(* Properties *)

\* Following a quiet market, across the tiers and with the error of its own
\* rounding, the oracle never locks itself out, however many runs in a row
\* fail while the band has room (main.go:167-182; guard.go:55-66).
NeverLockedOut == quiet => WithinBand(price, factor)

\* Whatever happened before, once the market stays quiet the factor is again
\* and again that of the day's price, and no update has to be forced
\* (main.go:159-183; "the factor tracks the live rate", README.md:17-18).
Converges == <>[]quiet => []<>Settled

=============================================================================
