------------------------------ MODULE MCEngine ------------------------------
(* The engine's step on a two-leg book with tiny prices and rates.         *)
EXTENDS Engine

CONSTANTS spot, fut

MCTracked == <<spot, fut>>
MCPrices == {1, 2}
MCRates == {-1, 0, 1}
MCExit == -1

\* Spot costs from the first week on, futures from the second, where two rows
\* compete; a symbol nobody subscribed to may be malformed.
Line(leg, week, half, impact) ==
    [leg |-> leg, week |-> week, half_spread |-> half, impact |-> impact, taker_fee |-> 1]
MCCostFiles == {{Line(spot, 0, 1, Empty), Line(spot, 1, 0, 1), Line(fut, 1, 0, 0),
                 Line(fut, 1, 1, 0), Line(Other, Bad, Bad, Bad)},
                {Line(spot, 0, Bad, 0)}, {Line(spot, 0, 1, 0), Line(Broken, 0, 1, 0)}}
=============================================================================
