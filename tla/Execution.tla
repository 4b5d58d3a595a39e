----------------------------- MODULE Execution -----------------------------
(***************************************************************************)
(* The execution service, src/execution/src/main.rs, and its paper trading *)
(* engine, src/execution/src/paper_trading.rs.  Every order that arrives   *)
(* is handled by a task of its own: it acknowledges the order, executes it *)
(* on the engine under the engine's write lock, which it does not hold     *)
(* across an await, and reports the outcome.  A further task stores the    *)
(* order books that arrive.                                                *)
(*                                                                         *)
(* Quantities filled are in tenths, so that 0.9 of a level is exact.  Of a *)
(* book only the best bid and ask are read.  unrealized_pnl, which nothing *)
(* reads, is left out.                                                     *)
(***************************************************************************)
EXTENDS Integers, FiniteSets, FiniteSetsExt

CONSTANTS
    Order,          \* sendings of the order management system
    Symbol,
    Quantity,       \* quantities of orders and of book levels
    Price,          \* prices of limit orders and of book levels
    Cost,           \* slippage and market impact, in units of price
    \* bounds of a behaviour
    MaxFaults, MaxCrashes

ASSUME ConstantsAssumption ==
    /\ Quantity \subseteq Nat \ {0} /\ Price \subseteq Nat \ {0} /\ Cost \subseteq Nat \ {0}
    /\ MaxFaults \in Nat /\ MaxCrashes \in Nat

Missing == -1                               \* the price of a market order
Request == [symbol : Symbol, side : {"Buy", "Sell"}, quantity : Quantity,
            price : Price \cup {Missing}]
Unknown == [symbol |-> "none", side |-> "none", quantity |-> 0, price |-> Missing]
Level   == [price : Price, quantity : Quantity]
\* The snapshot, if there is one, with the best level of each side.  (The
\* market data service publishes no snapshot with an empty side; Touch would
\* treat one as the engine does, like a missing snapshot.)
Best    == {{l} : l \in Level}
Book    == {{}} \cup {{b} : b \in [bids : Best, asks : Best]}
Nothing == [status |-> "none", quantity |-> 0, price |-> 0]

VARIABLES
    up,
    phase,          \* where the task of an order is
    request,        \* the order it carries: Unknown before it arrives
    result,         \* its execution report, once executed
    books, positions,   \* struct PaperTradingEngine
    \* history
    acked, reported,    \* orders whose reports reached the subscribers
    filled,         \* orders filled by the running process
    lot,            \* per symbol, orders that bought since the position was last flat
    shorted,        \* per symbol, whether it has been negative since then
    faults, crashes

taskVars   == <<phase, request, result>>
engineVars == <<positions, filled, lot, shorted>>
vars == <<up, taskVars, books, engineVars, acked, reported, faults, crashes>>

Flat == [quantity |-> 0, avg |-> <<0, 1>>]  \* avg_price as a fraction

Init ==
    /\ up = TRUE
    /\ phase = [o \in Order |-> "unsent"] /\ request = [o \in Order |-> Unknown]
    /\ result = [o \in Order |-> Nothing]
    /\ books = [s \in Symbol |-> {}] /\ positions = [s \in Symbol |-> Flat]
    /\ acked = {} /\ reported = {} /\ filled = {}
    /\ lot = [s \in Symbol |-> {}]
    /\ shorted = [s \in Symbol |-> FALSE]
    /\ faults = 0 /\ crashes = 0

\* The main loop spawns the task of an order.
Receive(o) ==
    /\ up /\ phase[o] = "unsent"
    /\ phase' = [phase EXCEPT ![o] = "ack"]
    /\ \E r \in Request : request' = [request EXCEPT ![o] = r]
    /\ UNCHANGED <<up, result, books, engineVars, acked, reported, faults, crashes>>

\* update_market_data: a snapshot replaces the book of its symbol.
UpdateMarketData(s, b) ==
    /\ up /\ b # {}
    /\ books' = [books EXCEPT ![s] = b]
    /\ UNCHANGED <<up, taskVars, engineVars, acked, reported, faults, crashes>>

\* Bug: the failure to acknowledge an order only logged.
SentRegardless(o, ok, next) == phase' = [phase EXCEPT ![o] = next]

\* "send(...).await?": the task goes on, or ends.
Sent(o, ok, next) == phase' = [phase EXCEPT ![o] = IF ok THEN next ELSE "failed"]

\* A send through the shared publisher is answered, or fails while the fault
\* bound lasts; "reached" is whether the subscribers have the report anyway.
Send(o, ok, reached, next) ==
    /\ ok \/ faults < MaxFaults
    /\ ok => reached
    /\ faults' = IF ok THEN faults ELSE faults + 1
    /\ Sent(o, ok, next)
    /\ UNCHANGED <<up, request, result, books, engineVars, crashes>>

\* The acknowledgement, after the simulated latency.
Acknowledge(o, ok, reached) ==
    /\ phase[o] = "ack" /\ Send(o, ok, reached, "execute")
    /\ acked' = IF reached THEN acked \cup {o} ELSE acked
    /\ UNCHANGED reported

----------------------------------------------------------------------------
\* The level an order would trade against: none if there is no book, or its
\* side is empty.
Touch(r) == UNION {IF r.side = "Buy" THEN b.asks ELSE b.bids : b \in books[r.symbol]}

\* Bug: the limit compared the wrong way round for a sale.
ReachedFromBelow(r, l) == r.price = Missing \/ l.price <= r.price

\* A market order trades at any price, a limit order only at its limit or better.
Reached(r, l) == \/ r.price = Missing
                 \/ r.side = "Buy" /\ l.price <= r.price
                 \/ r.side = "Sell" /\ l.price >= r.price

\* A market order pays the cost on top of the touch; a limit order does not.
FillPrices(r, l) ==
    CASE r.price # Missing /\ r.side = "Buy"  -> {Min({l.price, r.price})}
      [] r.price # Missing /\ r.side = "Sell" -> {Max({l.price, r.price})}
      [] r.price = Missing /\ r.side = "Buy"  -> {l.price + c : c \in Cost}
      [] r.price = Missing /\ r.side = "Sell" -> {l.price - c : c \in Cost}

\* Bug: what is left of the level in place of what is taken from it.
FillRemainder(r, l) == 9 * l.quantity - 10 * r.quantity

\* At most 0.9 of the level.
FillQuantity(r, l) == Min({10 * r.quantity, 9 * l.quantity})

\* Bug: the price added to the average instead of weighed by its quantity.
BoughtUnweighted(p, q, price) ==
    [quantity |-> p.quantity + q,
     avg |-> IF p.quantity + q > 0 THEN <<p.avg[1] + price * p.avg[2], p.avg[2]>> ELSE p.avg]

\* update_position of a purchase: the average price over the whole position,
\* whatever its sign was.
Bought(p, q, price) ==
    [quantity |-> p.quantity + q,
     avg |-> IF p.quantity + q > 0
             THEN <<p.avg[1] * p.quantity + price * q * p.avg[2], p.avg[2] * (p.quantity + q)>>
             ELSE p.avg]

\* Bug: a sale larger than the position only closes it.
SoldToFlat(p, q) == IF p.quantity <= q THEN Flat ELSE [p EXCEPT !.quantity = @ - q]

\* update_position of a sale.
Sold(p, q) == IF p.quantity = q THEN Flat ELSE [p EXCEPT !.quantity = @ - q]

UpdatePosition(o, q, price) ==
    LET r == request[o]
        p == IF r.side = "Buy" THEN Bought(positions[r.symbol], q, price)
             ELSE Sold(positions[r.symbol], q)
        flat == p.quantity = 0
    IN /\ positions' = [positions EXCEPT ![r.symbol] = p]
       /\ lot' = [lot EXCEPT ![r.symbol] = IF flat THEN {}
                                           ELSE IF r.side = "Buy" THEN @ \cup {o} ELSE @]
       /\ shorted' = [shorted EXCEPT ![r.symbol] = ~flat /\ (@ \/ p.quantity < 0)]

Outcome(o, status, q, price) ==
    result' = [result EXCEPT ![o] = [status |-> status, quantity |-> q, price |-> price]]

\* execute_order finds nothing to trade against ...
Reject(o) == /\ Touch(request[o]) = {}
             /\ Outcome(o, "Rejected", 0, 0) /\ UNCHANGED engineVars

\* ... or only levels beyond the limit: the order is answered as pending, and
\* kept nowhere ...
LeavePending(o) == \E l \in Touch(request[o]) :
    /\ ~Reached(request[o], l)
    /\ Outcome(o, "Acknowledged", 0, 0) /\ UNCHANGED engineVars

\* ... or fills, in part or whole.  The book keeps the level.
Fill(o) == \E l \in Touch(request[o]) :
    LET r == request[o]
        q == FillQuantity(r, l)
    IN /\ Reached(r, l)
       /\ \E price \in FillPrices(r, l) :
            /\ Outcome(o, IF q >= 10 * r.quantity THEN "Filled" ELSE "PartiallyFilled", q, price)
            /\ UpdatePosition(o, q, price)
       /\ filled' = filled \cup {o}

ExecuteOrder(o) ==
    /\ phase[o] = "execute" /\ phase' = [phase EXCEPT ![o] = "report"]
    /\ Reject(o) \/ LeavePending(o) \/ Fill(o)
    /\ UNCHANGED <<up, request, books, acked, reported, faults, crashes>>

\* The report on the outcome is sent.
Report(o, ok, reached) ==
    /\ phase[o] = "report" /\ Send(o, ok, reached, "done")
    /\ reported' = IF reached THEN reported \cup {o} ELSE reported
    /\ UNCHANGED acked

----------------------------------------------------------------------------
\* The process ends, with its tasks, books and positions.
Crash ==
    /\ up /\ crashes < MaxCrashes /\ crashes' = crashes + 1
    /\ up' = FALSE
    /\ phase' = [o \in Order |-> IF phase[o] \in {"ack", "execute", "report"}
                                 THEN "failed" ELSE phase[o]]
    /\ books' = [s \in Symbol |-> {}] /\ positions' = [s \in Symbol |-> Flat]
    /\ filled' = {} /\ lot' = [s \in Symbol |-> {}]
    /\ shorted' = [s \in Symbol |-> FALSE]
    /\ UNCHANGED <<request, result, acked, reported, faults>>

Restart ==
    /\ ~up /\ up' = TRUE
    /\ UNCHANGED <<taskVars, books, engineVars, acked, reported, faults, crashes>>

Task(o) == \/ ExecuteOrder(o)
           \/ \E ok, reached \in BOOLEAN : Acknowledge(o, ok, reached) \/ Report(o, ok, reached)

Next == \/ Crash \/ Restart
        \/ \E o \in Order : Receive(o) \/ Task(o)
        \/ \E s \in Symbol, b \in Book : UpdateMarketData(s, b)

\* The runtime polls every task; what arrives, and the order books, owe nothing.
Fairness == \A o \in Order : WF_vars(Task(o))

Spec == Init /\ [][Next]_vars /\ Fairness

----------------------------------------------------------------------------
TypeOK ==
    /\ up \in BOOLEAN
    /\ phase \in [Order -> {"unsent", "ack", "execute", "report", "done", "failed"}]
    /\ request \in [Order -> Request \cup {Unknown}]
    /\ result \in [Order -> [status : {"none", "Filled", "PartiallyFilled", "Acknowledged", "Rejected"},
                             quantity : Nat, price : Int]]
    /\ books \in [Symbol -> Book]
    /\ positions \in [Symbol -> [quantity : Int, avg : Int \X (Nat \ {0})]]
    /\ acked \in SUBSET Order /\ reported \in SUBSET Order /\ filled \in SUBSET Order
    /\ lot \in [Symbol -> SUBSET filled]
    /\ shorted \in [Symbol -> BOOLEAN]
    /\ faults \in Nat /\ crashes \in Nat

SignedFill(o) == IF request[o].side = "Buy" THEN result[o].quantity ELSE -result[o].quantity
Of(S, s) == {o \in S : request[o].symbol = s}

\* The engine's position is what its reports say it bought and sold, in
\* whatever order the tasks execute, through zero and back
\* (paper_trading.rs:228-255).
PositionIsFills ==
    \A s \in Symbol : positions[s].quantity = MapThenSumSet(SignedFill, Of(filled, s))

\* An order whose acknowledgement did not reach the subscribers is neither
\* traded nor reported on: the "?" after the first send ends its task
\* (main.rs:94-104).
UnacknowledgedNeverTrades == filled \cup reported \subseteq acked

\* A fill is at a price no worse than the order's limit and no better than the
\* best level at that moment, although the book may change between the
\* acknowledgement and the execution (paper_trading.rs:146-207).
FillsAtTouch ==
    [][\A o \in filled' \ filled : \A l \in Touch(request[o]) :
         LET r == request[o]
             price == result'[o].price
         IN IF r.side = "Buy" THEN price >= l.price /\ (r.price # Missing => price <= r.price)
                              ELSE price <= l.price /\ (r.price # Missing => price >= r.price)]_vars

Between(avg, prices) == /\ avg[1] >= avg[2] * Min(prices)
                        /\ avg[1] <= avg[2] * Max(prices)

\* While a symbol has not been sold short since it was last flat, its average
\* price lies between the prices paid since then, partial sales included
\* (paper_trading.rs:239-252).
AvgBetweenPaid ==
    \A s \in Symbol : (positions[s].quantity > 0 /\ ~shorted[s])
        => Between(positions[s].avg, {result[o].price : o \in lot[s]})

\* The market is at the order's limit.
WithinReach(o) == request[o] # Unknown /\ \E l \in Touch(request[o]) : Reached(request[o], l)

\* README.md:305 "Internal order book for pending orders", paper_trading.rs:153
\* "Limit price not reached, order pending": a limit order answered as pending is
\* executed once the market has come to its limit and stays there.
PendingIsExecuted ==
    \A o \in Order : (result[o].status = "Acknowledged" /\ WithinReach(o))
                        ~> (o \in filled \/ crashes > 0 \/ ~WithinReach(o))
=============================================================================
