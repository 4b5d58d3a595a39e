----------------------------- MODULE MCBacktest -----------------------------
(* Prices of Backtest are multiples of what the averages divide by, so that *)
(* they are exact: 3 for the first one, 2 for each of the candles after.    *)
EXTENDS Backtest

CONSTANT Levels

\* Stops an eighth of the price outside a candle, or a quarter the other way.
MCBuffers == {1, -2}
MCPrice == {3 * 2 ^ (MaxCandles - Period) * p : p \in Levels}
=============================================================================
