---------------------------- MODULE MCPriceFetch ----------------------------
(* Every book of six trades at six moments, the first before the window and  *)
(* the last after it; in the sorted half of the trades order does not matter. *)
(* One price does not parse, one quantity is negative and one is zero.        *)
EXTENDS PriceResult

MCTrades == 1..6
MCNoId == {1, 2}
MCPriceOf == <<3, 3, Garbage, 9, 1, 7>>
MCQuantity == <<2, 2, 4, -1, 5, 0>>

\* Two days of two hours: the clocks go back during yesterday, which lasts
\* three. The window is 1..4.
MCDays == 0..2
MCOffset == [d \in MCDays |-> IF d = 2 THEN 1 ELSE 0]
MCNow == 5
MCWindow == window(MCNow)
MCWindowStart == MCWindow.start
MCWindowEnd == MCWindow.end

AllBooks ==
    {b \in [MCTrades -> 0..5] : b[1] <= b[2] /\ \A i \in 3..5 : b[i] <= b[i + 1]}

FittingBooks == {b \in AllBooks : TiesFit(b)}

\* One moment of the window fills a page.
CrowdedBooks == AllBooks \ FittingBooks

=============================================================================
