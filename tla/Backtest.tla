------------------------------ MODULE Backtest ------------------------------
(***************************************************************************)
(* EmaStrategy::backtest, src/monitoring/src/backtest.rs: candles are      *)
(* taken one by one, a position is opened when the close crosses the       *)
(* average, and closed by a trailing stop, by another cross or at the end. *)
(*                                                                         *)
(* The candles are arbitrary, with low <= close <= high.  The sizes, the   *)
(* random slippage, the fees and the curves computed from them do not      *)
(* decide anything and are left out.  Prices are integers; stops are       *)
(* multiples of a fraction 1/Whole of their unit, so that both are exact.  *)
(* The buffer is a parameter of the request, which nobody checks: it may   *)
(* be negative.                                                            *)
(***************************************************************************)
EXTENDS Integers

CONSTANTS
    Price,          \* prices of candles
    Period,         \* ema_period (20)
    Whole, Buffers, \* stop_buffer_pct is a member of Buffers, divided by Whole
    MaxCandles      \* bound on the candles of a behaviour

ASSUME ConstantsAssumption ==
    /\ Price \subseteq Nat \ {0} /\ Period \in Nat \ {0} /\ MaxCandles \in Nat
    /\ Whole \in Nat \ {0} /\ Buffers \subseteq Int

Candle == {c \in [low : Price, close : Price, high : Price] : c.low <= c.close /\ c.close <= c.high}
None   == [side |-> "none", entry |-> 0, stop |-> 0, risked |-> 0]

VARIABLES
    buffer,         \* stop_buffer_pct of the request, times Whole
    index,          \* candles taken, of filtered_candles
    lead,           \* how many of them are before start_date
    late,           \* whether all of them are, as no candle is at or after it
    total,          \* sum of the first Period closes
    ema,            \* the average of the closes so far
    prev,           \* prev_candle
    position,       \* with its stop, and the stop it was opened with
    running,        \* whether the candles have not ended
    \* history
    closed,         \* the exit last made: where, and the stop at its entry
    opened, exits,  \* number of entries and exits
    premature       \* whether a trade was before start_date

tradeVars == <<position, closed, opened, exits, premature>>
vars == <<buffer, index, lead, late, total, ema, prev, running, tradeVars>>

\* Bug: one candle more than the average needs.
LeadsMore == 0..(Period + 1)

\* The candles kept before the first one of start_date: enough for the average.
Leads == 0..Period

Init ==
    /\ buffer \in Buffers /\ lead \in Leads /\ late \in BOOLEAN /\ (late => lead = 0)
    /\ index = 0 /\ total = 0 /\ ema = 0 /\ running = TRUE
    /\ prev = [low |-> 0, close |-> 0, high |-> 0]
    /\ position = None /\ closed = None /\ opened = 0 /\ exits = 0 /\ premature = FALSE

----------------------------------------------------------------------------

\* calculate_ema, one value further.
NextEma(old, close) == (2 * close + (Period - 1) * old) \div (Period + 1)

\* Bug: any close above the average is taken for a cross.
IsAbove(c) == c.close > ema

\* The close crosses the average of the candles before it.
CrossesUp(c)   == c.close > ema /\ prev.close <= ema
CrossesDown(c) == c.close < ema /\ prev.close >= ema

\* The stop of a candle that is over: its low less, its high more the buffer.
Below(c) == c.low * (Whole - buffer)
Above(c) == c.high * (Whole + buffer)

\* Bug: the stop follows every candle.
LooseStop(p, c) == IF p.side = "Long" THEN Below(c) ELSE Above(c)

\* The trailing stop, given the previous candle.
TrailingStop(p, c) ==
    IF p.side = "Long" THEN (IF Below(c) > p.stop THEN Below(c) ELSE p.stop)
                       ELSE (IF Above(c) < p.stop THEN Above(c) ELSE p.stop)

\* The candle trades at the stop or beyond it.
Hit(p, stop, c) ==
    IF p.side = "Long" THEN c.low * Whole <= stop ELSE c.high * Whole >= stop

\* Whether the candle at i is before start_date.
Dated(i) == premature' = (premature \/ late \/ i < lead)

\* Close the position at this price, on the candle at i.
Exit(price, i) ==
    /\ position' = None /\ exits' = exits + 1
    /\ closed' = [position EXCEPT !.stop = price]
    /\ Dated(i) /\ UNCHANGED opened

\* A stop that was hit is filled at the stop, wherever the candle opened.
StopFill(stop, c) == stop

\* A position is kept or closed; only a downward cross closes one, short or long.
Manage(c) ==
    LET stop == TrailingStop(position, prev) IN
      IF Hit(position, stop, c) THEN Exit(StopFill(stop, c), index)
      ELSE IF CrossesDown(c) THEN Exit(c.close * Whole, index)
      ELSE position' = [position EXCEPT !.stop = stop] /\ UNCHANGED <<closed, opened, exits, premature>>

Enter(side, c, stop) ==
    /\ position' = [side |-> side, entry |-> c.close * Whole, stop |-> stop, risked |-> stop]
    /\ opened' = opened + 1
    /\ Dated(index) /\ UNCHANGED <<closed, exits>>

\* A candle once there is an average.
Trade(c) ==
    IF position # None THEN Manage(c)
    ELSE IF CrossesUp(c) THEN Enter("Long", c, Below(prev))
    ELSE IF CrossesDown(c) THEN Enter("Short", c, Above(prev))
    ELSE UNCHANGED tradeVars

\* The candles before there is an average.
Warm == index < Period

TakeCandle ==
    /\ running /\ index < MaxCandles /\ index' = index + 1
    /\ \E c \in Candle :
         /\ prev' = c
         /\ IF Warm
            THEN /\ total' = total + c.close
                 /\ ema' = IF index' = Period THEN total' \div Period ELSE ema
                 /\ UNCHANGED tradeVars
            ELSE ema' = NextEma(ema, c.close) /\ Trade(c) /\ UNCHANGED total
    /\ UNCHANGED <<buffer, lead, late, running>>

\* Bug: a position is left open at the end.
NothingLeft == TRUE

\* No position is open after the last candle.
Flat == position = None

\* The candles end; a position left is closed at the last close.
Finish ==
    /\ running /\ running' = FALSE
    /\ IF Flat THEN UNCHANGED tradeVars ELSE Exit(prev.close * Whole, index - 1)
    /\ UNCHANGED <<buffer, index, lead, late, total, ema, prev>>

Next == TakeCandle \/ Finish

Spec == Init /\ [][Next]_vars

----------------------------------------------------------------------------
(* Properties.                                                              *)

Position == [side : {"none", "Long", "Short"}, entry : Nat, stop : Int, risked : Int]

\* Types.
TypeOK ==
    /\ buffer \in Buffers /\ index \in 0..MaxCandles /\ lead \in 0..Period /\ late \in BOOLEAN
    /\ total \in Nat /\ ema \in Nat /\ running \in BOOLEAN
    /\ index > 0 => prev \in Candle
    /\ position \in Position /\ closed \in Position
    /\ (position.side = "none") = (position = None)
    /\ opened \in Nat /\ exits \in Nat /\ premature \in BOOLEAN

\* An entry always risks something, unless the request has a negative buffer: its
\* stop is on the losing side of it, so that the size, an amount divided by the
\* distance, is a positive number (backtest.rs:188-256; monitoring/main.rs:1240).
RiskPositive ==
    buffer >= 0 => /\ position.side = "Long" => position.risked < position.entry
                   /\ position.side = "Short" => position.risked > position.entry

\* No exit is worse than the stop the position was opened and sized with, so that
\* a trade loses at most the 1% it was meant to risk, slippage and fees apart; a
\* negative buffer lets only the close after the last candle be worse, of a
\* position opened on that candle (backtest.rs:126-187, 276-308).
ExitWithinRisk ==
    (buffer >= 0 \/ running) =>
        /\ closed.side = "Long" => closed.stop >= closed.risked
        /\ closed.side = "Short" => closed.stop <= closed.risked

\* "Trailing stop only moves up" (down, for a short one) while it is open.
StopTrails ==
    [][(position # None /\ position' # None) =>
         /\ position'.side = position.side /\ position'.entry = position.entry
         /\ position.side = "Long" => position'.stop >= position.stop
         /\ position.side = "Short" => position'.stop <= position.stop]_vars

\* Every entry has its exit in the end, so that the trades reported pair up.
FlatAtEnd ==
    /\ opened = exits + (IF position = None THEN 0 ELSE 1)
    /\ ~running => position = None

\* Nothing is traded before the start date, if the data reach it.
TradesDated == premature => late
=============================================================================
