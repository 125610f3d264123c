--------------------------- MODULE MCFactorUpdates ---------------------------
(* The tiers with a step of 10 in place of 1000: prices on both sides of      *)
(* half a musd and of every threshold, and some a quiet day or two apart.    *)
EXTENDS Market

At(n) == [num |-> n, den |-> 4000]

MCThresholdHigh == At(2000)
MCThresholdMid == At(200)
MCRatio == [num |-> 3, den |-> 1]

MCPrices ==
    {At(n) : n \in 0..3 \union 90..91 \union 189..191 \union 198..202 \union 209..211
                 \union {300, 315, 450, 472, 500, 502, 889, 1333}
                 \union 1969..1971 \union 1989..1991 \union 1999..2001 \union 2098..2101
                 \union {3000, 3150, 4099, 4100, 4500}}

\* Half as much again a day: the band of 3 has room for two days of it.
MCDailyMove == [num |-> 3, den |-> 2]

=============================================================================
