---------------------------- MODULE MarketMaker ----------------------------
(***************************************************************************)
(* The strategy service, src/strategies/src/main.rs: it receives the books *)
(* that the market data service publishes and quotes a bid and an ask      *)
(* around each one's middle, at most once in an interval.                  *)
(*                                                                         *)
(* Its loop does nothing else while it handles a book, so that is a step.  *)
(* Prices are multiples of the fixed-point unit, quotes multiples of a     *)
(* cent.  The average price only shifts the spread within a range, so it   *)
(* is abstracted to whether there is one.                                  *)
(***************************************************************************)
EXTENDS Integers, Sequences, FiniteSetsExt, Folds

CONSTANTS
    MinInterval,    \* min_signal_interval_ms (50)
    Nanos,          \* the factor it is multiplied by (1_000_000)
    Period,         \* ema_period (20)
    History,        \* capacity of price_history (100)
    DepthLevels,    \* levels that count for the imbalance (5)
    PlainSpread,    \* half spreads without a trend, in basis points
    TrendSpread,    \* half spreads once there is an average
    Bps,            \* basis points of a whole (10_000)
    Cent,           \* fixed-point units in a cent (1_000_000)
    MaxStarts       \* bound on the starts of the process

VARIABLES
    wire,           \* books on their way to the subscriber
    up,             \* whether the process runs
    lastSignal,     \* last_signal_time, a book's time in milliseconds
    samples,        \* the length of price_history
    hasEma,         \* whether current_ema is set
    quote,          \* history: the signals sent for the book last quoted
    starts

mmVars == <<up, lastSignal, samples, hasEma, quote, starts>>

Start == up = TRUE /\ lastSignal = 0 /\ samples = 0 /\ hasEma = FALSE /\ quote = <<>> /\ starts = 1

\* should_quote: milliseconds are compared with nanoseconds.
ShouldQuote(book) == book.time - lastSignal >= MinInterval * Nanos

\* The volume of a side's first levels.
Volume(side) ==
    MapThenFoldSet(+, 0, LAMBDA i : side[i].quantity,
                   LAMBDA S : CHOOSE i \in S : TRUE, DOMAIN side \cap (1..DepthLevels))

\* Bug: cut off to whole cents instead of rounded.
CutOff(n, d) == n \div (d * Cent)

\* (price * 100.0).round() of the price n / d, in cents.
Rounded(n, d) == (2 * n + d * Cent) \div (2 * d * Cent)

\* The quotes for a book with this half spread; a side that holds over 65% of
\* the volume pushes the other side's quote away.
Quotes(book, spread) ==
    LET bids == Volume(book.bids)
        asks == Volume(book.asks)
        volume == bids + asks
        skew(x, y) == IF 10 * (x - y) > 3 * volume THEN x - y ELSE 0
        at(n) == Rounded(book.mid2 * n, 2 * Bps * volume)
    IN [bid |-> at((Bps - spread) * volume - skew(asks, bids)),
        ask |-> at((Bps + spread) * volume + skew(bids, asks))]

ValidQuotes(q) == q.bid > 0 /\ q.ask > 0 /\ q.bid < q.ask

\* calculate_ema: the first average is that of the first Period prices.
NextSamples == Min({samples + 1, History})
EmaReady == hasEma \/ NextSamples >= Period

\* The `?` of the sends: an error ends the process.
Survives(ok) == ok = 2

\* on_book with its sends: `ok` of the two signals are sent.
Quote(book, ok) ==
    \E spread \in IF EmaReady THEN TrendSpread ELSE PlainSpread :
      LET q == Quotes(book, spread)
          both == <<[type |-> "Buy", price |-> q.bid, mid2 |-> book.mid2],
                    [type |-> "Sell", price |-> q.ask, mid2 |-> book.mid2]>>
      IN /\ samples' = NextSamples /\ hasEma' = EmaReady
         /\ IF ValidQuotes(q)
            THEN /\ lastSignal' = book.time
                 /\ quote' = SubSeq(both, 1, ok)
                 /\ up' = Survives(ok)
            ELSE UNCHANGED <<lastSignal, quote, up>>

\* The loop takes the next book.  Only books with both sides arrive, so that
\* its own check of that never skips one.
HandleBook ==
    /\ up /\ wire # <<>> /\ wire' = Tail(wire)
    /\ IF ShouldQuote(Head(wire))
       THEN \E ok \in 0..2 : Quote(Head(wire), ok)
       ELSE UNCHANGED <<up, lastSignal, samples, hasEma, quote>>
    /\ UNCHANGED starts

\* An error of recv() or of a conversion ends the process.
Stop ==
    /\ up /\ wire # <<>> /\ wire' = Tail(wire) /\ up' = FALSE
    /\ UNCHANGED <<lastSignal, samples, hasEma, quote, starts>>

\* A new process subscribes; what was published meanwhile is lost.
Restart ==
    /\ ~up /\ starts < MaxStarts /\ starts' = starts + 1
    /\ up' = TRUE /\ lastSignal' = 0 /\ samples' = 0 /\ hasEma' = FALSE
    /\ quote' = <<>> /\ wire' = <<>>

Trade == HandleBook \/ Stop \/ Restart
=============================================================================
