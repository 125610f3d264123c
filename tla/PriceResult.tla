----------------------------- MODULE PriceResult -----------------------------
(***************************************************************************)
(* price.Client.GetPrice: what is made of the trades fetchAll collects. A     *)
(* quote is a number in the unit of the API's decimals, or Garbage when it    *)
(* does not parse.                                                           *)
(***************************************************************************)
EXTENDS PriceFetch, Window, FiniteSetsExt

CONSTANTS
    Now,                \* the time of the call
    PriceOf, Quantity,  \* the quotes of the trades
    Garbage             \* one that does not parse

ASSUME QuoteAssumption ==
    /\ Garbage \notin Int
    /\ {PriceOf, Quantity} \subseteq [Trades -> Int \union {Garbage}]
    /\ \A t, u \in NoId : PriceOf[t] = PriceOf[u] /\ Quantity[t] = Quantity[u]

ASSUME WindowAssumption ==
    /\ Now \in Int
    /\ \E today \in Days : OnDay(Now, today)
    /\ WindowStart = window(Now).start /\ WindowEnd = window(Now).end

Parses(t) == Garbage \notin {PriceOf[t], Quantity[t]}

\* Whatever has a quantity.
AnyQuantity(trades) == {t \in trades : Quantity[t] # 0}

\* Trades of a quantity that is not positive are skipped, in both sums.
Counted(trades) == {t \in trades : Quantity[t] > 0}

totalVolume(trades) == MapThenSumSet(LAMBDA t : Quantity[t], Counted(trades))

VWAP(trades) ==
    [num |-> MapThenSumSet(LAMBDA t : PriceOf[t] * Quantity[t], Counted(trades)),
     den |-> totalVolume(trades)]

\* What GetPrice returns: the fetch's error, ErrNoTrades for an empty window,
\* an error for a quote that does not parse or when nothing can be averaged.
Returned ==
    IF result # "ok" THEN result
    ELSE IF all = {} THEN "ErrNoTrades"
    ELSE IF (\A t \in all : Parses(t)) /\ Counted(all) # {} THEN "price"
    ELSE "error"

\* The Result that comes with a price.
Result == [price |-> VWAP(all), volume |-> totalVolume(all), trades |-> Cardinality(all)]

------------------------------------------------------------------------------
(* Properties *)

TheWindow == {t \in Trades : InWindow(t)}

\* The window is of whole Eastern days, today's trades left out: the trades of
\* the days back to the far one are all in the average and no others are, up to
\* the hour by which the clocks were moved since (price.go:156-168).
AveragesWholeDays ==
    \A far, today \in Days :
        Returned = "price" /\ OnDay(Now, today) /\ far + WindowDays = today =>
            LET moved == IF Offset[far] = Offset[today] THEN 0 ELSE 1
            IN  /\ \A t \in Trades :
                      midnight(far) + moved <= created[t] /\ created[t] < midnight(today)
                      => \E u \in all : Key(u) = Key(t)
                /\ \A t \in all :
                      midnight(far) - moved <= created[t] /\ created[t] < midnight(today)

\* The average lies among the prices of trades that moved something: a trade of
\* a quantity below zero does not pull it out (price.go:294-325).
AveragesPrices ==
    Returned = "price" =>
        /\ Result.volume > 0
        /\ \E t, u \in all :
              /\ Quantity[t] > 0 /\ Quantity[u] > 0
              /\ PriceOf[t] * Result.price.den <= Result.price.num
              /\ Result.price.num <= PriceOf[u] * Result.price.den

\* The run that ends well for want of trades, with exit 0 and no alert, had a
\* window without any (main.go:72-77).
QuietWindowIsEmpty == Returned = "ErrNoTrades" => TheWindow = {}

=============================================================================
