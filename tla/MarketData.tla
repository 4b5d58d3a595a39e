----------------------------- MODULE MarketData -----------------------------
(***************************************************************************)
(* The market data service, src/market_data/src: the task that streams     *)
(* an exchange's messages into an unbounded channel (websocket_adapter.rs) *)
(* and the main loop that takes one tick at a time from it, updates the    *)
(* enhanced order book (mdh.rs) and the simple one (lib.rs), and publishes *)
(* the tick and, now and then, the book (main.rs).                         *)
(*                                                                         *)
(* The exchange is the environment.  It has a book when the service        *)
(* connects, and none of its levels is known before a message tells of it: *)
(* Coinbase's snapshot is no message that parse_coinbase_pro reads.  Then  *)
(* Binance lists its best levels with every message (depth20@100ms), and   *)
(* Coinbase what has changed, with quantity 0 for a level that is gone.    *)
(*                                                                         *)
(* An iteration of the loop is two steps, before and after the send of the *)
(* tick, at which it waits.  Latency samples and counters of ticks, which  *)
(* nothing reads, are left out, and the times of a book are those of its   *)
(* milliseconds.                                                           *)
(***************************************************************************)
EXTENDS Integers, Sequences, FiniteSets, SequencesExt, FiniteSetsExt

CONSTANTS
    Price,          \* prices the exchange quotes
    Quantity,       \* quantities of its levels
    Fixed,          \* PriceLevel::from_f64: price * 1e8, cut off
    Sent,           \* levels of a side in a message of Binance (20)
    Top,            \* levels the simple book keeps (10)
    Depth,          \* levels of a published snapshot (20)
    BookInterval, CandleInterval,   \* 100 ms, 1 s
    HighWater,      \* messages a publisher queues for a slow subscriber
    Epoch,          \* the clock's value at the start
    \* bounds of a behaviour
    MaxMessages, MaxChanges, MaxClock, MaxSteps

ASSUME ConstantsAssumption ==
    /\ Price \subseteq Nat \ {0} /\ Quantity \subseteq Nat \ {0}
    /\ IsFiniteSet(Price) /\ IsFiniteSet(Quantity)        \* they are floats
    /\ Fixed \in [Price -> Nat]
    /\ \A p, q \in Price : p < q => Fixed[p] < Fixed[q]
    /\ Sent \in Nat \ {0} /\ Top \in Nat \ {0} /\ Depth \in Nat \ {0}
    /\ BookInterval \in Nat /\ CandleInterval \in Nat /\ HighWater \in Nat
    /\ Epoch \in Nat /\ MaxClock \in Nat
    /\ MaxMessages \in Nat /\ MaxChanges \in Nat /\ MaxSteps \in Nat

Exchange == {"Binance", "CoinbasePro"}
Side     == {"Bid", "Ask"}
NoLevels == [s \in Side |-> {}]

VARIABLES
    exchange,       \* WebSocketAdapter.exchange
    market,         \* the exchange's own book: per side, price -> quantity or 0
    stream,         \* the streaming task: "open" or "ended"
    queue,          \* the channel from it to the main loop
    main,           \* the main loop: "running", "ended" or "panicked"
    tick,           \* the tick whose iteration has not ended, if any
    builder,        \* OrderBookBuilder: per side, its levels, best first
    levels,         \* OrderBook of mdh.rs: per side, a set of fixed-point levels
    lastUpdate,     \* last_update of that book
    lastBook, lastCandle,   \* last_book_publish, last_candle_publish
    wire,           \* the books on their way to the subscriber
    clock,          \* SystemTime::now(), in milliseconds
    \* history
    heard,          \* the <<side, price>> of which a tick told what the market has
    messages, steps \* how much of each bound is used up

streamVars == <<exchange, market, stream, heard>>
bookVars   == <<tick, builder, levels, lastUpdate, lastBook, lastCandle>>
vars == <<streamVars, queue, main, bookVars, wire, clock, messages, steps>>

Quoted(m, s) == {p \in Price : m[s][p] > 0}
Crossed(m) == \E b \in Quoted(m, "Bid"), a \in Quoted(m, "Ask") : b >= a

Init ==
    /\ exchange \in Exchange                \* USE_BINANCE
    /\ market \in [Side -> [Price -> Quantity \cup {0}]] /\ ~Crossed(market)
    /\ stream = "open" /\ queue = <<>> /\ main = "running" /\ tick = <<>>
    /\ builder = [s \in Side |-> <<>>] /\ levels = NoLevels
    /\ lastUpdate = Epoch /\ lastBook = Epoch /\ lastCandle = Epoch /\ clock = Epoch
    /\ wire = <<>> /\ heard = {} /\ messages = 0 /\ steps = 0

----------------------------------------------------------------------------
(* The streaming task.                                                      *)

UpTo(n, seq) == SubSeq(seq, 1, Min({n, Len(seq)}))

\* The elements of S sorted by op, which is strict: what a sort returns, and
\* what the iteration over a BTreeMap yields.
SortedBy(S, op(_, _)) ==
    CHOOSE seq \in [1..Cardinality(S) -> S] : \A i, j \in DOMAIN seq : i < j => op(seq[i], seq[j])

Change == [side : Side, price : Price, quantity : Quantity \cup {0}]

\* Bids come before asks, each side best first.
Before(c, d) == \/ c.side = "Bid" /\ d.side = "Ask"
                \/ c.side = "Bid" /\ d.side = "Bid" /\ c.price > d.price
                \/ c.side = "Ask" /\ d.side = "Ask" /\ c.price < d.price

\* The best Sent prices of a side, and a message that lists them; a level that
\* is gone may be listed as well, and is skipped.
Listed(m, s) ==
    {p \in Quoted(m, s) :
        Cardinality({q \in Quoted(m, s) : IF s = "Bid" THEN q > p ELSE q < p}) < Sent}
Listing(m, changes) ==
    {c \in changes : c.quantity = 0}
      \cup UNION {{[side |-> s, price |-> p, quantity |-> m[s][p]] : p \in Listed(m, s)} : s \in Side}

\* Bug: only the first level of each message is read.
ParseFirstOnly(message) ==
    UpTo(1, SortedBy({c \in message : c.quantity > 0}, Before))

\* parse_binance: a tick for every level that has a quantity.
ParseBinance(message) == SortedBy({c \in message : c.quantity > 0}, Before)

\* parse_coinbase_pro: a tick for the first change, whatever its quantity.
ParseCoinbase(changes) == {<<c>> : c \in changes}

Parsed(m, changes) == IF exchange = "Binance" THEN {ParseBinance(Listing(m, changes))}
                      ELSE ParseCoinbase(changes)

\* A level changes at most once between two messages.
Consistent(changes) == \A c, d \in changes : (c.side = d.side /\ c.price = d.price) => c = d
Applied(m, changes) ==
    [s \in Side |-> [p \in Price |->
        IF \E c \in changes : c.side = s /\ c.price = p
        THEN (CHOOSE c \in changes : c.side = s /\ c.price = p).quantity ELSE m[s][p]]]

Spot(t) == <<t.side, t.price>>

\* What the ticks tell of is up to date, and what else has changed is not.
Hears(changes, ticks) ==
    (heard \ {Spot(c) : c \in changes}) \cup {Spot(ticks[i]) : i \in DOMAIN ticks}

\* The exchange's book changes, and its message becomes ticks in the channel.
DepthMessage ==
    /\ stream = "open" /\ main = "running" /\ messages < MaxMessages
    /\ \E changes \in UNION {kSubset(k, Change) : k \in 0..MaxChanges} :
         /\ Consistent(changes)
         /\ \A c \in changes : market[c.side][c.price] # c.quantity
         /\ market' = Applied(market, changes)
         /\ ~Crossed(market')
         /\ \E ticks \in Parsed(market', changes) :
              queue' = queue \o ticks /\ heard' = Hears(changes, ticks)
    /\ messages' = messages + 1
    /\ UNCHANGED <<exchange, stream, main, bookVars, wire, clock, steps>>

\* A trade ("match", or Binance's "24hrTicker") is a tick as well,
\* whose price and quantity are of no account to the books.
TradeMessage ==
    /\ stream = "open" /\ main = "running" /\ messages < MaxMessages
    /\ queue' = Append(queue, [side |-> "Trade", price |-> Min(Price), quantity |-> Min(Quantity)])
    /\ messages' = messages + 1
    /\ UNCHANGED <<streamVars, main, bookVars, wire, clock, steps>>

\* A close frame, an error or the end of the stream: the task returns, and
\* nothing connects again.  A failed connection is the same, at the start.
EndStream ==
    /\ stream = "open" /\ stream' = "ended"
    /\ UNCHANGED <<exchange, market, heard, queue, main, bookVars, wire, clock, messages, steps>>

----------------------------------------------------------------------------
(* The books.                                                               *)

\* The levels of a side, best first.
Better(s, l, m) == IF s = "Bid" THEN l.price > m.price ELSE l.price < m.price
BestFirst(s, S) == SortedBy(S, LAMBDA l, m : Better(s, l, m))

Others(S, p) == {l \in S : l.price # p}

\* Vec::retain: the other levels of a sequence, in their order.
Retained(old, p) ==
    LET kept == SortedBy({i \in DOMAIN old : old[i].price # p}, LAMBDA i, j : i < j)
    IN [k \in DOMAIN kept |-> old[kept[k]]]

\* Bug: the level is cut off before the side is sorted.
BuilderSideUnsorted(s, old, t) ==
    IF t.quantity > 0
    THEN UpTo(Top, Append(Retained(old, t.price), [price |-> t.price, quantity |-> t.quantity]))
    ELSE Retained(old, t.price)

\* OrderBookBuilder::update of one side: replace the level, sort, keep the
\* best Top; a level without quantity is only removed.
BuilderSide(s, old, t) ==
    IF t.quantity > 0
    THEN UpTo(Top, BestFirst(s, Others(ToSet(old), t.price)
                                  \cup {[price |-> t.price, quantity |-> t.quantity]}))
    ELSE Retained(old, t.price)

\* OrderBook::update_from_tick of one side.
BookSide(old, t) ==
    Others(old, Fixed[t.price])
      \cup (IF t.quantity > 0 THEN {[price |-> Fixed[t.price], quantity |-> t.quantity]} ELSE {})

UpdateBooks(t) ==
    IF t.side = "Trade" THEN UNCHANGED <<builder, levels>>
    ELSE /\ builder' = [builder EXCEPT ![t.side] = BuilderSide(t.side, @, t)]
         /\ levels' = [levels EXCEPT ![t.side] = BookSide(@, t)]

\* OrderBook::get_snapshot, of depth L2; mid2 is twice its mid_price.  Its time
\* is that of the last update, which its publication comes after (history: at).
Snapshot(b) ==
    LET bids == UpTo(Depth, BestFirst("Bid", b["Bid"]))
        asks == UpTo(Depth, BestFirst("Ask", b["Ask"]))
    IN [bids |-> bids, asks |-> asks, time |-> lastUpdate, at |-> clock,
        mid2 |-> CASE bids # <<>> /\ asks # <<>> -> bids[1].price + asks[1].price
                   [] bids # <<>> /\ asks = <<>> -> 2 * bids[1].price
                   [] bids = <<>> /\ asks # <<>> -> 2 * asks[1].price
                   [] OTHER -> 0]

\* Only a book with two sides is published.
Ready(b) == b.bids # <<>> /\ b.asks # <<>> /\ b.mid2 > 0

\* The snapshot is that of the tick's symbol: a ticker message of Binance
\* carries the adapter's spelling of it, whose book has no level.
Shown(t) == IF t.side = "Trade" /\ exchange = "Binance" THEN Snapshot(NoLevels)
            ELSE Snapshot(levels)

\* Bug: the clock is compared with the time of the last candle.
BookDueBySecond == clock - lastCandle >= BookInterval

\* 100 ms have passed since the last time.
BookDue == clock - lastBook >= BookInterval

\* The snapshot, if it is time for one, is published
\* if it is ready; whether or not it is, the next is due an interval later.
PublishBook(t) ==
    /\ lastBook' = IF BookDue THEN clock ELSE lastBook
    /\ wire' = IF BookDue /\ Ready(Shown(t)) /\ Len(wire) < HighWater
               THEN Append(wire, Shown(t)) ELSE wire

\* duration_since(..).unwrap() on a clock that has been stepped back.
Backwards == clock < lastBook \/ clock < lastCandle

\* The main loop takes a tick and brings the books up to date.  (A ticker
\* message of Binance updates the time of the book without levels.)
ProcessTick ==
    /\ main = "running" /\ tick = <<>> /\ queue # <<>>
    /\ queue' = Tail(queue) /\ tick' = <<Head(queue)>>
    /\ UpdateBooks(Head(queue))
    /\ lastUpdate' = IF Head(queue).side = "Trade" /\ exchange = "Binance" THEN lastUpdate ELSE clock
    /\ UNCHANGED <<streamVars, main, lastBook, lastCandle, wire, clock, messages, steps>>

\* Once the tick is sent, `now` is read: the rest of the iteration.
Publish ==
    /\ main = "running" /\ tick # <<>> /\ tick' = <<>>
    /\ IF clock < lastBook THEN UNCHANGED <<lastBook, wire>> ELSE PublishBook(tick[1])
    /\ IF Backwards THEN main' = "panicked" /\ UNCHANGED lastCandle
       ELSE /\ lastCandle' = IF clock - lastCandle >= CandleInterval THEN clock ELSE lastCandle
            /\ UNCHANGED main
    /\ UNCHANGED <<streamVars, queue, builder, levels, lastUpdate, clock, messages, steps>>

\* Bug: the main loop keeps a sender of its own, so that the channel stays open.
ChannelOpen == FALSE

\* The sender is gone and the channel empty: recv() is None.
ChannelClosed == stream = "ended" /\ queue = <<>>

\* The loop, and with it the process, ends.
EndOfLoop ==
    /\ main = "running" /\ tick = <<>> /\ ChannelClosed /\ main' = "ended"
    /\ UNCHANGED <<streamVars, queue, bookVars, wire, clock, messages, steps>>

\* Time passes, or the clock is stepped back.
ClockChange ==
    /\ \/ clock < Epoch + MaxClock /\ clock' = clock + 1 /\ UNCHANGED steps
       \/ clock > 0 /\ steps < MaxSteps /\ clock' = clock - 1 /\ steps' = steps + 1
    /\ UNCHANGED <<streamVars, queue, main, bookVars, wire, messages>>

Loop == ProcessTick \/ Publish \/ EndOfLoop

Next == DepthMessage \/ TradeMessage \/ EndStream \/ Loop \/ ClockChange

\* The loop is polled; the exchange and the clock owe nothing.
Fairness == WF_vars(Loop)

Spec == Init /\ [][Next]_vars /\ Fairness

----------------------------------------------------------------------------
(* Properties.                                                              *)

InFixed(seq) == [i \in DOMAIN seq |-> [seq[i] EXCEPT !.price = Fixed[@]]]

\* The service keeps two books of one stream, one cut off at its best levels
\* at every update.  They agree: the simple one holds levels of the other,
\* best first, and all of its best ones as long as nothing is ever removed.
BooksAgree ==
    \A s \in Side :
      LET simple == InFixed(builder[s])
          best == BestFirst(s, levels[s])
      IN /\ simple = BestFirst(s, ToSet(simple)) /\ Len(simple) <= Top
         /\ ToSet(simple) \subseteq levels[s]
         /\ exchange = "Binance" => simple = UpTo(Top, best)

\* The enhanced book shows what the exchange has at a price.
Shows(s, p) ==
    IF market[s][p] > 0 THEN [price |-> Fixed[p], quantity |-> market[s][p]] \in levels[s]
    ELSE \A l \in levels[s] : l.price # Fixed[p]

\* Once the channel is drained, the service has at every price it heard of
\* since it last changed what the exchange has there, and on Binance, once a
\* message came, each of the exchange's best levels.
LevelsKept ==
    queue = <<>> => \A s \in Side, p \in Price :
        (<<s, p>> \in heard \/ (exchange = "Binance" /\ heard # {} /\ p \in Listed(market, s)))
        => Shows(s, p)

\* Books are published an interval apart, however ticks arrive and the clock is
\* stepped: a step back ends the process instead.  As long as there was none, a
\* book's time is not before the publication of an earlier one.  (It may be less
\* than an interval after that book's time, which is read before the send.)
BooksSpaced ==
    \A i, j \in DOMAIN wire : i < j =>
        /\ wire[j].at - wire[i].at >= BookInterval
        /\ steps = 0 => wire[i].at <= wire[j].time

\* A stream that has ended stops the service, after the last tick it sent:
\* a panic is the only other way out.
StreamEndStops ==
    stream = "ended" ~> (main = "panicked" \/ (main = "ended" /\ queue = <<>> /\ tick = <<>>))
=============================================================================
