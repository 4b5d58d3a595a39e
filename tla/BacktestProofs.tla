--------------------------- MODULE BacktestProofs ---------------------------
(***************************************************************************)
(* Proofs about Backtest, for all prices, periods, buffers and numbers of  *)
(* candles.                                                                *)
(***************************************************************************)
EXTENDS Backtest, TLAPS

----------------------------------------------------------------------------
(* Arithmetic of the averages and the stops.                                *)

\* The product of naturals is one.
LEMMA Products == ASSUME NEW a \in Nat, NEW b \in Nat PROVE a * b \in Nat
  BY SMT

\* Products grow with their first factor.
LEMMA Monotone ==
    ASSUME NEW a \in Nat, NEW b \in Nat, NEW w \in Nat, a <= b
    PROVE a * w <= b * w
  <1>1. PICK d \in Nat : b = a + d
    <2>1. b - a \in Nat /\ b = a + (b - a)
      OBVIOUS
    <2> QED BY <2>1
  <1>2. b * w = a * w + d * w
    BY <1>1, SMT
  <1>3. d * w \in Nat /\ a * w \in Nat
    BY <1>1, Products
  <1> QED BY <1>2, <1>3

\* The quotient of naturals is one.
LEMMA Quotients == ASSUME NEW a \in Nat, NEW b \in Nat, b > 0 PROVE a \div b \in Nat
  BY SMT

\* The average of prices is a natural number.
LEMMA NextEmaNat == ASSUME NEW old \in Nat, NEW close \in Nat PROVE NextEma(old, close) \in Nat
  <1>1. Period - 1 \in Nat /\ Period + 1 \in Nat /\ Period + 1 > 0
    BY ConstantsAssumption
  <1>2. (Period - 1) * old \in Nat
    BY <1>1, Products
  <1>3. 2 * close + (Period - 1) * old \in Nat
    BY <1>2
  <1> QED BY <1>1, <1>3, Quotients DEF NextEma

\* A candle's stops are integers, and lie on either side of every price it reached,
\* unless the buffer is negative.
LEMMA StopsApart ==
    ASSUME NEW c \in Candle, buffer \in Buffers, NEW p \in Nat, c.low <= p, p <= c.high
    PROVE /\ Below(c) \in Int /\ Above(c) \in Int
          /\ buffer >= 0 => Below(c) <= p * Whole /\ p * Whole <= Above(c)
  <1>1. c.low \in Nat /\ c.high \in Nat /\ Whole \in Nat /\ buffer \in Int
    BY ConstantsAssumption DEF Candle
  <1>2. Whole - buffer \in Int /\ Whole + buffer \in Int
    BY <1>1
  <1>3. Below(c) \in Int /\ Above(c) \in Int
    BY ONLY <1>1, <1>2, SMT DEF Below, Above
  <1>4. ASSUME buffer >= 0 PROVE Below(c) <= p * Whole /\ p * Whole <= Above(c)
    <2>1. buffer \in Nat
      BY <1>1, <1>4
    <2>2. c.low * (Whole - buffer) = c.low * Whole - c.low * buffer
      BY <1>1, SMT
    <2>3. c.high * (Whole + buffer) = c.high * Whole + c.high * buffer
      BY <1>1, SMT
    <2>4. /\ c.low * buffer \in Nat /\ c.high * buffer \in Nat /\ c.low * Whole \in Nat
          /\ c.high * Whole \in Nat /\ p * Whole \in Nat
      BY <1>1, <2>1, Products
    <2>5. c.low * Whole <= p * Whole /\ p * Whole <= c.high * Whole
      BY <1>1, Monotone
    <2> QED BY <2>2, <2>3, <2>4, <2>5 DEF Below, Above
  <1> QED BY <1>3, <1>4

\* Prices keep their order, and their strict order, in the unit of the stops.
LEMMA InStopUnit ==
    ASSUME NEW a \in Nat, NEW b \in Nat
    PROVE /\ a * Whole \in Nat
          /\ a <= b => a * Whole <= b * Whole
          /\ a < b => a * Whole < b * Whole
  <1>1. Whole \in Nat /\ Whole > 0
    BY ConstantsAssumption
  <1>2. a * Whole \in Nat /\ b * Whole \in Nat
    BY <1>1, Products
  <1>3. ASSUME a < b PROVE a * Whole < b * Whole
    <2>1. (a + 1) * Whole <= b * Whole
      BY <1>1, <1>3, Monotone
    <2>2. (a + 1) * Whole = a * Whole + Whole
      BY <1>1, SMT
    <2> QED BY <1>1, <1>2, <2>1, <2>2
  <1> QED BY <1>1, <1>2, <1>3, Monotone

\* What a candle's fields are, and its stops with respect to its close.
LEMMA CandleFacts ==
    ASSUME NEW c \in Candle, buffer \in Buffers
    PROVE /\ c.low \in Nat /\ c.close \in Nat /\ c.high \in Nat
          /\ c.low <= c.close /\ c.close <= c.high
          /\ Below(c) \in Int /\ Above(c) \in Int
          /\ buffer >= 0 => Below(c) <= c.close * Whole /\ c.close * Whole <= Above(c)
          /\ c.low * Whole \in Nat /\ c.low * Whole <= c.close * Whole
          /\ c.high * Whole \in Nat /\ c.close * Whole <= c.high * Whole
          /\ c.close * Whole \in Nat
  <1>1. /\ c.low \in Price /\ c.close \in Price /\ c.high \in Price
        /\ c.low <= c.close /\ c.close <= c.high
    BY DEF Candle
  <1>2. c.low \in Nat /\ c.close \in Nat /\ c.high \in Nat
    BY <1>1, ConstantsAssumption
  <1>3. /\ Below(c) \in Int /\ Above(c) \in Int
        /\ buffer >= 0 => Below(c) <= c.close * Whole /\ c.close * Whole <= Above(c)
    BY <1>1, <1>2, StopsApart
  <1> QED BY <1>1, <1>2, <1>3, InStopUnit

----------------------------------------------------------------------------
(* The inductive invariant.                                                 *)

\* A position is open only once there is an average; its stop is no further
\* than the one it was opened with, and the last close is inside it, unless the
\* buffer is negative.
Guarded ==
    /\ position # None => index > Period
    /\ position.side = "Long" => /\ position.risked <= position.stop
                                 /\ buffer >= 0 => position.stop < prev.close * Whole
    /\ position.side = "Short" => /\ position.stop <= position.risked
                                  /\ buffer >= 0 => prev.close * Whole < position.stop

Inv == TypeOK /\ Guarded /\ RiskPositive /\ ExitWithinRisk

\* What an entry leaves.
LEMMA EnterInv ==
    ASSUME Inv, index \in Nat, ~Warm, NEW c \in Candle, prev' = c, index' = index + 1,
           position = None, UNCHANGED <<closed, exits, buffer, running>>,
           \/ CrossesUp(c) /\ Enter("Long", c, Below(prev))
           \/ CrossesDown(c) /\ Enter("Short", c, Above(prev))
    PROVE /\ Guarded' /\ RiskPositive' /\ ExitWithinRisk'
          /\ position' \in Position /\ closed' \in Position
          /\ (position'.side = "none") = (position' = None)
          /\ opened' \in Nat /\ exits' \in Nat /\ premature' \in BOOLEAN
  <1>1. index >= Period /\ index > 0 /\ prev \in Candle /\ ema \in Nat
    BY ConstantsAssumption DEF Inv, TypeOK, Warm
  <1>2. /\ c.close \in Nat /\ c.close * Whole \in Nat
        /\ prev.close \in Nat /\ prev.close * Whole \in Nat
        /\ Below(prev) \in Int /\ Above(prev) \in Int
        /\ buffer >= 0 => Below(prev) <= prev.close * Whole /\ prev.close * Whole <= Above(prev)
    BY <1>1, CandleFacts DEF Inv, TypeOK
  <1>3. ExitWithinRisk' /\ closed' \in Position /\ exits' \in Nat
    BY DEF Inv, TypeOK, ExitWithinRisk
  <1>4. index' > Period /\ prev'.close = c.close
    BY <1>1, ConstantsAssumption
  <1>5. ASSUME NEW side \in {"Long", "Short"}, NEW stop \in Int, Enter(side, c, stop),
               (buffer >= 0 /\ side = "Long") => stop < c.close * Whole,
               (buffer >= 0 /\ side = "Short") => stop > c.close * Whole
        PROVE /\ Guarded' /\ RiskPositive' /\ position' \in Position
              /\ (position'.side = "none") = (position' = None)
              /\ opened' \in Nat /\ premature' \in BOOLEAN
    <2>1. position' = [side |-> side, entry |-> c.close * Whole, stop |-> stop, risked |-> stop]
      BY <1>5 DEF Enter
    <2>2. /\ position' \in Position /\ position'.side = side /\ position'.stop = stop
          /\ position'.risked = stop /\ position'.entry = c.close * Whole
      BY <1>2, <1>5, <2>1 DEF Position
    <2>3. position'.side # "none" /\ position' # None
      BY <1>5, <2>2 DEF None
    <2>4. Guarded'
      BY <1>2, <1>4, <1>5, <2>2 DEF Guarded
    <2>5. RiskPositive'
      BY <1>2, <1>5, <2>2 DEF RiskPositive
    <2>6. opened' \in Nat
      BY <1>5 DEF Enter, Inv, TypeOK
    <2>7. premature' \in BOOLEAN
      BY <1>5, Zenon DEF Enter, Dated
    <2> QED BY <2>2, <2>3, <2>4, <2>5, <2>6, <2>7
  <1>6. CASE CrossesUp(c) /\ Enter("Long", c, Below(prev))
    <2>1. prev.close < c.close
      BY <1>1, <1>2, <1>6 DEF CrossesUp
    <2>2. prev.close * Whole < c.close * Whole
      BY <1>2, <2>1, InStopUnit
    <2>3. buffer >= 0 => Below(prev) < c.close * Whole
      BY <1>2, <2>2
    <2> QED BY <1>2, <1>3, <1>5, <1>6, <2>3
  <1>7. CASE CrossesDown(c) /\ Enter("Short", c, Above(prev))
    <2>1. c.close < prev.close
      BY <1>1, <1>2, <1>7 DEF CrossesDown
    <2>2. c.close * Whole < prev.close * Whole
      BY <1>2, <2>1, InStopUnit
    <2>3. buffer >= 0 => Above(prev) > c.close * Whole
      BY <1>2, <2>2
    <2> QED BY <1>2, <1>3, <1>5, <1>7, <2>3
  <1> QED BY <1>6, <1>7

\* What an exit leaves, at a price no worse than the stop.
LEMMA ExitInv ==
    ASSUME Inv, position # None, NEW price \in Int, NEW i \in Int, Exit(price, i),
           buffer' = buffer,
           (buffer >= 0 \/ running') => /\ position.side = "Long" => price >= position.stop
                                        /\ position.side = "Short" => price <= position.stop
    PROVE /\ Guarded' /\ RiskPositive' /\ ExitWithinRisk'
          /\ position' \in Position /\ closed' \in Position
          /\ (position'.side = "none") = (position' = None)
          /\ opened' \in Nat /\ exits' \in Nat /\ premature' \in BOOLEAN
  <1>1. position' = None /\ closed' = [position EXCEPT !.stop = price]
    BY DEF Exit
  <1>2. position \in Position
    BY DEF Inv, TypeOK
  <1>3. /\ closed' \in Position /\ closed'.side = position.side
        /\ closed'.risked = position.risked /\ closed'.stop = price
    BY <1>1, <1>2 DEF Position
  <1>4. ExitWithinRisk'
    <2>1. /\ position.side = "Long" => position.risked <= position.stop
          /\ position.side = "Short" => position.stop <= position.risked
      BY DEF Inv, Guarded
    <2>2. position.risked \in Int /\ position.stop \in Int
      BY <1>2 DEF Position
    <2> QED BY <1>3, <2>1, <2>2 DEF ExitWithinRisk
  <1>5. Guarded' /\ RiskPositive' /\ position' \in Position
        /\ (position'.side = "none") = (position' = None)
    BY <1>1 DEF Guarded, RiskPositive, Position, None
  <1>6. opened' \in Nat /\ exits' \in Nat /\ premature' \in BOOLEAN
    BY DEF Exit, Dated, Inv, TypeOK
  <1> QED BY <1>3, <1>4, <1>5, <1>6

\* What a candle leaves of an open position.
LEMMA ManageInv ==
    ASSUME Inv, ~Warm, NEW c \in Candle, prev' = c, index' = index + 1, index \in Nat,
           position # None, UNCHANGED <<buffer, running>>, Manage(c)
    PROVE /\ Guarded' /\ RiskPositive' /\ ExitWithinRisk'
          /\ position' \in Position /\ closed' \in Position
          /\ (position'.side = "none") = (position' = None)
          /\ opened' \in Nat /\ exits' \in Nat /\ premature' \in BOOLEAN
          /\ position' # None =>
               /\ position'.side = position.side /\ position'.entry = position.entry
               /\ position.side = "Long" => position'.stop >= position.stop
               /\ position.side = "Short" => position'.stop <= position.stop
  <1> DEFINE stop == TrailingStop(position, prev)
  <1>1. index > Period /\ index > 0 /\ prev \in Candle /\ buffer \in Buffers
    BY ConstantsAssumption DEF Inv, TypeOK, Guarded
  <1>2. position \in Position /\ position.side \in {"Long", "Short"}
    BY DEF Inv, TypeOK, Position
  <1>3. Below(prev) \in Int /\ Above(prev) \in Int /\ position.stop \in Int
        /\ position.risked \in Int
    BY <1>1, <1>2, CandleFacts DEF Position
  <1>4. /\ stop \in Int
        /\ position.side = "Long" => stop >= position.stop
        /\ position.side = "Short" => stop <= position.stop
    BY <1>2, <1>3 DEF TrailingStop
  <1>5. /\ c.close * Whole \in Nat /\ c.low * Whole \in Nat /\ c.high * Whole \in Nat
        /\ c.low * Whole <= c.close * Whole /\ c.close * Whole <= c.high * Whole
    BY <1>1, CandleFacts
  <1>6. CASE Hit(position, stop, c)
    <2>1. Exit(stop, index)
      BY <1>6 DEF Manage, StopFill
    <2>2. position' = None
      BY <2>1 DEF Exit
    <2> QED BY <1>4, <2>1, <2>2, ExitInv
  <1>7. ASSUME ~Hit(position, stop, c)
        PROVE /\ position.side = "Long" => stop < c.close * Whole
              /\ position.side = "Short" => c.close * Whole < stop
    BY <1>2, <1>4, <1>5, <1>7 DEF Hit
  <1>8. CASE ~Hit(position, stop, c) /\ CrossesDown(c)
    <2>1. Exit(c.close * Whole, index)
      BY <1>8 DEF Manage
    <2>2. position' = None
      BY <2>1 DEF Exit
    <2>3. /\ position.side = "Long" => c.close * Whole >= position.stop
          /\ position.side = "Short" => c.close * Whole <= position.stop
      BY <1>3, <1>4, <1>5, <1>7, <1>8
    <2> QED BY <1>5, <2>1, <2>2, <2>3, ExitInv
  <1>9. CASE ~Hit(position, stop, c) /\ ~CrossesDown(c)
    <2>1. position' = [position EXCEPT !.stop = stop] /\ UNCHANGED <<closed, opened, exits, premature>>
      BY <1>9 DEF Manage
    <2>2. /\ position' \in Position /\ position'.side = position.side
          /\ position'.entry = position.entry /\ position'.stop = stop
          /\ position'.risked = position.risked
      BY <1>2, <1>4, <2>1 DEF Position
    <2>3. Guarded'
      <3>1. /\ position.side = "Long" => position.risked <= position.stop
            /\ position.side = "Short" => position.stop <= position.risked
        BY DEF Inv, Guarded
      <3>2. index' > Period
        BY <1>1, ConstantsAssumption
      <3>3. prev'.close = c.close /\ buffer' = buffer
        OBVIOUS
      <3> QED BY <1>3, <1>4, <1>7, <1>9, <2>2, <3>1, <3>2, <3>3 DEF Guarded
    <2>4. RiskPositive' /\ ExitWithinRisk'
      BY <2>1, <2>2 DEF Inv, RiskPositive, ExitWithinRisk
    <2>5. (position'.side = "none") = (position' = None)
      BY <1>2, <2>2 DEF None
    <2>6. closed' \in Position /\ opened' \in Nat /\ exits' \in Nat /\ premature' \in BOOLEAN
      BY <2>1 DEF Inv, TypeOK
    <2> QED BY <1>4, <2>2, <2>3, <2>4, <2>5, <2>6
  <1> QED BY <1>6, <1>8, <1>9

----------------------------------------------------------------------------
(* The steps.                                                               *)

\* Where the process starts.
LEMMA InitInv == Init => Inv /\ FlatAtEnd /\ TradesDated
  <1> SUFFICES ASSUME Init PROVE Inv /\ FlatAtEnd /\ TradesDated
    OBVIOUS
  <1> USE ConstantsAssumption
  <1>1. position = None /\ closed = None /\ None \in Position /\ None.side = "none"
    BY DEF Init, None, Position
  <1>2. /\ index \in 0..MaxCandles /\ lead \in 0..Period /\ total \in Nat /\ ema \in Nat
        /\ ~(index > 0) /\ opened \in Nat /\ exits \in Nat /\ buffer \in Buffers
    BY DEF Init, Leads
  <1>3. TypeOK
    <2>1. late \in BOOLEAN /\ running \in BOOLEAN /\ premature \in BOOLEAN
      BY Zenon DEF Init
    <2> QED BY <1>1, <1>2, <2>1 DEF TypeOK
  <1>4. Guarded /\ RiskPositive /\ ExitWithinRisk
    BY <1>1 DEF Guarded, RiskPositive, ExitWithinRisk
  <1> QED BY <1>1, <1>3, <1>4 DEF Init, Inv, FlatAtEnd, TradesDated

\* Nothing changes.
LEMMA StutterInv ==
    Inv /\ UNCHANGED vars => Inv' /\ (FlatAtEnd => FlatAtEnd') /\ (TradesDated => TradesDated')
  BY DEF vars, tradeVars, Inv, TypeOK, Guarded, RiskPositive, ExitWithinRisk, FlatAtEnd, TradesDated

\* What a candle does to the position, before and after there is an average.
LEMMA CandleTrades ==
    ASSUME Inv, NEW c \in Candle, prev' = c, index' = index + 1, UNCHANGED <<buffer, running>>,
           \/ Warm /\ UNCHANGED tradeVars
           \/ ~Warm /\ Trade(c)
    PROVE /\ Guarded' /\ RiskPositive' /\ ExitWithinRisk'
          /\ position' \in Position /\ closed' \in Position
          /\ (position'.side = "none") = (position' = None)
          /\ opened' \in Nat /\ exits' \in Nat /\ premature' \in BOOLEAN
          /\ (position # None /\ position' # None) =>
               /\ position'.side = position.side /\ position'.entry = position.entry
               /\ position.side = "Long" => position'.stop >= position.stop
               /\ position.side = "Short" => position'.stop <= position.stop
  <1>1. index \in Nat /\ Period \in Nat
    BY ConstantsAssumption DEF Inv, TypeOK
  <1>2. CASE ~Warm /\ position # None
    BY <1>1, <1>2, ManageInv DEF Trade
  <1>3. CASE UNCHANGED tradeVars /\ position = None
    <2>1. /\ position' = None /\ closed' = closed /\ opened' = opened
          /\ exits' = exits /\ premature' = premature
      BY <1>3 DEF tradeVars
    <2>2. None.side = "none" /\ None \in Position
      BY DEF None, Position
    <2> QED BY <1>3, <2>1, <2>2 DEF Inv, TypeOK, Guarded, RiskPositive, ExitWithinRisk
  <1>4. CASE ~Warm /\ position = None /\ ~UNCHANGED tradeVars
    <2>1. \/ CrossesUp(c) /\ Enter("Long", c, Below(prev))
          \/ CrossesDown(c) /\ Enter("Short", c, Above(prev))
      BY <1>4 DEF Trade
    <2>2. UNCHANGED <<closed, exits>>
      BY <2>1 DEF Enter
    <2> QED BY <1>1, <1>4, <2>1, <2>2, EnterInv
  <1>5. Warm => position = None
    BY <1>1 DEF Inv, Guarded, Warm
  <1> QED BY <1>2, <1>3, <1>4, <1>5

\* A candle preserves the invariant, and moves a stop the right way only.
LEMMA TakeCandleInv ==
    ASSUME Inv, TakeCandle
    PROVE /\ Inv'
          /\ (position # None /\ position' # None) =>
               /\ position'.side = position.side /\ position'.entry = position.entry
               /\ position.side = "Long" => position'.stop >= position.stop
               /\ position.side = "Short" => position'.stop <= position.stop
  <1>1. PICK c \in Candle :
          /\ prev' = c
          /\ IF Warm
             THEN /\ total' = total + c.close
                  /\ ema' = IF index' = Period THEN total' \div Period ELSE ema
                  /\ UNCHANGED tradeVars
             ELSE ema' = NextEma(ema, c.close) /\ Trade(c) /\ UNCHANGED total
    BY DEF TakeCandle
  <1>2. /\ index < MaxCandles /\ index' = index + 1 /\ running
        /\ lead' = lead /\ late' = late /\ running' = running /\ buffer' = buffer
    BY DEF TakeCandle
  <1>3. /\ index' \in 0..MaxCandles /\ lead' \in 0..Period /\ late' \in BOOLEAN
        /\ running' \in BOOLEAN /\ buffer' \in Buffers
    BY <1>2, ConstantsAssumption DEF Inv, TypeOK
  <1>4. c.close \in Nat
    BY CandleFacts DEF Inv, TypeOK
  <1>5. total' \in Nat
    BY <1>1, <1>4 DEF Inv, TypeOK
  <1>6. ema' \in Nat
    <2>1. ema \in Nat /\ Period \in Nat /\ Period > 0
      BY ConstantsAssumption DEF Inv, TypeOK
    <2>2. NextEma(ema, c.close) \in Nat
      BY <1>4, <2>1, NextEmaNat
    <2>3. total' \div Period \in Nat
      BY <1>5, <2>1, Quotients
    <2> QED BY <1>1, <2>1, <2>2, <2>3
  <1>7. \/ Warm /\ UNCHANGED tradeVars
        \/ ~Warm /\ Trade(c)
    BY <1>1
  <1>8. prev' = c
    BY <1>1
  <1>9. /\ Guarded' /\ RiskPositive' /\ ExitWithinRisk'
        /\ position' \in Position /\ closed' \in Position
        /\ (position'.side = "none") = (position' = None)
        /\ opened' \in Nat /\ exits' \in Nat /\ premature' \in BOOLEAN
        /\ (position # None /\ position' # None) =>
               /\ position'.side = position.side /\ position'.entry = position.entry
               /\ position.side = "Long" => position'.stop >= position.stop
               /\ position.side = "Short" => position'.stop <= position.stop
    BY <1>2, <1>7, <1>8, CandleTrades
  <1>10. TypeOK'
    BY <1>3, <1>5, <1>6, <1>8, <1>9 DEF TypeOK
  <1> QED BY <1>9, <1>10 DEF Inv

\* The end of the candles preserves the invariant, and leaves no position.
LEMMA FinishInv ==
    ASSUME Inv, Finish
    PROVE Inv' /\ position' = None
  <1>1. UNCHANGED <<buffer, index, lead, late, total, ema, prev>> /\ running' = FALSE
    BY DEF Finish
  <1>2. CASE position = None
    <2>1. UNCHANGED tradeVars
      BY <1>2 DEF Finish, Flat
    <2> QED BY <1>1, <1>2, <2>1
            DEF tradeVars, Inv, TypeOK, Guarded, RiskPositive, ExitWithinRisk
  <1>3. CASE position # None
    <2>1. Exit(prev.close * Whole, index - 1)
      BY <1>3 DEF Finish, Flat
    <2>2. index \in Nat /\ index > 0 /\ prev \in Candle /\ buffer \in Buffers
      BY <1>3, ConstantsAssumption DEF Inv, TypeOK, Guarded
    <2>3. index - 1 \in Int /\ prev.close * Whole \in Nat
      BY <2>2, CandleFacts
    <2>4. position.stop \in Int
      BY DEF Inv, TypeOK, Position
    <2>5. (buffer >= 0 \/ running') =>
             /\ position.side = "Long" => prev.close * Whole >= position.stop
             /\ position.side = "Short" => prev.close * Whole <= position.stop
      BY <1>1, <2>3, <2>4 DEF Inv, Guarded
    <2>6. /\ Guarded' /\ RiskPositive' /\ ExitWithinRisk'
          /\ position' \in Position /\ closed' \in Position
          /\ (position'.side = "none") = (position' = None)
          /\ opened' \in Nat /\ exits' \in Nat /\ premature' \in BOOLEAN
      BY <1>1, <1>3, <2>1, <2>3, <2>5, ExitInv
    <2>7. TypeOK'
      BY <1>1, <2>6 DEF Inv, TypeOK
    <2>8. position' = None
      BY <2>1 DEF Exit
    <2> QED BY <2>6, <2>7, <2>8 DEF Inv
  <1> QED BY <1>2, <1>3

\* Every step preserves the invariant.
LEMMA NextInv == Inv /\ [Next]_vars => Inv'
  BY TakeCandleInv, FinishInv, StutterInv DEF Next

\* The ledger of entries and exits is kept: an entry opens, an exit closes.
LEMMA FlatNext == Inv /\ FlatAtEnd /\ [Next]_vars => FlatAtEnd'
  <1> SUFFICES ASSUME Inv, FlatAtEnd, Next PROVE FlatAtEnd'
    BY StutterInv
  <1>1. opened \in Nat /\ exits \in Nat /\ opened = exits + (IF position = None THEN 0 ELSE 1)
    BY DEF Inv, TypeOK, FlatAtEnd
  <1> DEFINE Ledger == opened' = exits' + (IF position' = None THEN 0 ELSE 1)
  <1>2. ASSUME NEW price, NEW i, Exit(price, i), position # None PROVE Ledger
    BY <1>1, <1>2 DEF Exit
  <1>3. ASSUME NEW side \in {"Long", "Short"}, NEW c, NEW stop, Enter(side, c, stop), position = None
        PROVE Ledger
    <2>1. position'.side = side
      BY <1>3 DEF Enter
    <2>2. position' # None
      BY <1>3, <2>1 DEF None
    <2> QED BY <1>1, <1>3, <2>2 DEF Enter
  <1>4. ASSUME UNCHANGED tradeVars PROVE Ledger
    BY <1>1, <1>4 DEF tradeVars
  <1>5. CASE Finish
    <2>1. Ledger
      BY <1>2, <1>4, <1>5 DEF Finish, Flat
    <2> QED BY <1>5, <2>1, FinishInv DEF FlatAtEnd
  <1>6. CASE TakeCandle
    <2>1. running' = running /\ running
      BY <1>6 DEF TakeCandle
    <2>2. PICK c \in Candle : UNCHANGED tradeVars \/ Trade(c)
      BY <1>6 DEF TakeCandle
    <2>3. ASSUME Manage(c), position # None PROVE Ledger
      <3>1. CASE position' = None
        BY <1>2, <2>3, <3>1 DEF Manage, Inv, TypeOK, None
      <3>2. CASE position' # None
        <4>1. UNCHANGED <<opened, exits>>
          BY <2>3, <3>2 DEF Manage, Exit
        <4> QED BY <1>1, <2>3, <3>2, <4>1
      <3> QED BY <3>1, <3>2
    <2>4. Ledger
      BY <1>3, <1>4, <2>2, <2>3 DEF Trade
    <2> QED BY <2>1, <2>4 DEF FlatAtEnd
  <1> QED BY <1>5, <1>6 DEF Next

\* A trade is on a candle that has an average, so after the leading ones.
LEMMA DatedNext == Inv /\ TradesDated /\ [Next]_vars => TradesDated'
  <1> SUFFICES ASSUME Inv, TradesDated, Next PROVE TradesDated'
    BY StutterInv
  <1>1. index \in Nat /\ lead \in Nat /\ lead <= Period /\ Period \in Nat
    BY ConstantsAssumption DEF Inv, TypeOK
  <1>2. late' = late /\ lead' = lead
    BY DEF Next, TakeCandle, Finish
  <1>3. ASSUME NEW i \in Int, i >= lead, Dated(i) PROVE TradesDated'
    <2>1. ~(i < lead)
      BY <1>1, <1>3
    <2> QED BY <1>2, <1>3, <2>1, Zenon DEF Dated, TradesDated
  <1>4. ASSUME UNCHANGED premature PROVE TradesDated'
    BY <1>2, <1>4, Zenon DEF TradesDated
  <1>5. CASE Finish
    <2>1. CASE position = None
      BY <1>4, <1>5, <2>1 DEF Finish, Flat, tradeVars
    <2>2. CASE position # None
      <3>1. index > Period
        BY <2>2 DEF Inv, Guarded
      <3>2. index - 1 \in Int /\ index - 1 >= lead
        BY <1>1, <3>1
      <3>3. Dated(index - 1)
        BY <1>5, <2>2 DEF Finish, Flat, Exit
      <3> QED BY <1>3, <3>2, <3>3
    <2> QED BY <2>1, <2>2
  <1>6. CASE TakeCandle
    <2>1. PICK c \in Candle : UNCHANGED tradeVars \/ (~Warm /\ Trade(c))
      BY <1>6 DEF TakeCandle
    <2>2. ~Warm => index \in Int /\ index >= lead
      BY <1>1 DEF Warm
    <2>3. UNCHANGED premature \/ (~Warm /\ Dated(index))
      BY <2>1, Zenon DEF Trade, Manage, Enter, Exit, tradeVars
    <2> QED BY <1>3, <1>4, <2>2, <2>3
  <1> QED BY <1>5, <1>6 DEF Next

\* A stop moves the right way in every step.
LEMMA TrailNext ==
    Inv /\ [Next]_vars =>
      [(position # None /\ position' # None) =>
         /\ position'.side = position.side /\ position'.entry = position.entry
         /\ position.side = "Long" => position'.stop >= position.stop
         /\ position.side = "Short" => position'.stop <= position.stop]_vars
  BY TakeCandleInv, FinishInv DEF Next

----------------------------------------------------------------------------
(* The theorems.                                                            *)

\* The invariant holds throughout.
LEMMA Invariant == Spec => []Inv
  <1>1. Init => Inv
    BY InitInv
  <1> QED BY <1>1, NextInv, PTL DEF Spec

\* Types are kept for every input (backtest.rs:77-338).
THEOREM TypeCorrect == Spec => []TypeOK
  BY Invariant, PTL DEF Inv

\* An entry always risks something, so that its size is defined, for any buffer
\* that is not negative: the cross itself puts the previous candle's stop on the
\* losing side of the entry (backtest.rs:188-256).
THEOREM RiskSound == Spec => []RiskPositive
  BY Invariant, PTL DEF Inv

\* No exit is worse than the stop its position was sized with, for any buffer but
\* for the close after the last candle where the buffer is negative
\* (backtest.rs:126-187, 276-308).
THEOREM ExitSound == Spec => []ExitWithinRisk
  BY Invariant, PTL DEF Inv

\* The stop of an open position moves in its favour only
\* (backtest.rs:126-138).
THEOREM StopsTrail == Spec => StopTrails
  BY Invariant, TrailNext, PTL DEF Spec, StopTrails

\* Entries and exits pair up (backtest.rs:116-308).
THEOREM EndsFlat == Spec => []FlatAtEnd
  <1>1. Init => FlatAtEnd
    BY InitInv
  <1> QED BY <1>1, Invariant, FlatNext, PTL DEF Spec

\* Nothing is traded before the start date, if the data reach it
\* (backtest.rs:83-92, 116).
THEOREM DatesKept == Spec => []TradesDated
  <1>1. Init => TradesDated
    BY InitInv
  <1> QED BY <1>1, Invariant, DatedNext, PTL DEF Spec
=============================================================================
