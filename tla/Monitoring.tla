----------------------------- MODULE Monitoring -----------------------------
(***************************************************************************)
(* The monitoring service, src/monitoring/src/main.rs: the tasks that      *)
(* follow the orders of the risk service and the reports of the execution  *)
(* service, the collections they share, and the profit and loss that a     *)
(* handler computes from the trades.                                       *)
(*                                                                         *)
(* Each task takes its subscriber's messages one at a time and holds one   *)
(* collection's lock at a time, so a step is what happens under one lock.  *)
(* The services are the environment.  Messages that cannot be parsed only  *)
(* print a line and are left out, and so are counters that nothing else    *)
(* depends on.                                                             *)
(***************************************************************************)
EXTENDS Integers, Sequences, FiniteSets, SequencesExt, FiniteSetsExt

CONSTANTS
    Orders,         \* number of orders; order i is the i-th one published
    Symbols,        \* what they trade in
    Detail,         \* what each one asks for and when, and the price it fills at
    Final,          \* statuses execute_order may conclude with
    MaxRecent,      \* capacity of recent_orders (1000)
    MaxTrades,      \* capacity of recent_trades (1000)
    MaxKnown,       \* capacity of orders_by_id (10000)
    Eviction,       \* entries removed from it when it is full (1000)
    \* bounds of a behaviour
    MaxLost,        \* messages that do not arrive
    MaxOpen,        \* orders whose outcome is not reported yet
    MaxWaiting      \* messages that wait to be received

OrderId == 1..Orders

ASSUME ConstantsAssumption ==
    /\ Orders \in Nat /\ MaxRecent \in Nat \ {0} /\ MaxTrades \in Nat \ {0}
    /\ MaxKnown \in Nat \ {0} /\ Eviction \in Nat \ {0}
    /\ MaxLost \in Nat /\ MaxOpen \in Nat /\ MaxWaiting \in Nat
    /\ Final \subseteq {"Filled", "PartiallyFilled", "Rejected", "Acknowledged"}
    /\ Detail \in [OrderId -> [symbol : Symbols, time : Nat, side : {"Buy", "Sell"},
                                quantity : Nat \ {0}, price : Nat \ {0}]]

Idle == [step |-> "recv", id |-> 0]

VARIABLES
    published,      \* orders published by the risk service
    reported,       \* per order, the statuses the execution service has reported
    orderQueue, reportQueue,    \* what the two subscribers have received
    orderTask,      \* the order task: "recv", or before the push of an order
    reportTask,     \* the report task: "recv", "status" or "trade", with a report
    ordersById,     \* orders_by_id, as the set of its keys
    recentOrders,   \* recent_orders, oldest first
    recentTrades,   \* recent_trades, oldest first
    fills,          \* fills_total
    \* history
    lost,           \* messages that did not arrive, an order's as "PENDING"
    filled,         \* orders whose fills the report task has taken, oldest first
    early,          \* orders whose last report was handled while not shown
    evicted         \* orders pushed out of recent_orders

sharedVars == <<ordersById, recentOrders, recentTrades>>
vars == <<published, reported, orderQueue, reportQueue, orderTask, reportTask,
          sharedVars, fills, lost, filled, early, evicted>>

Init ==
    /\ published = 0 /\ reported = [o \in OrderId |-> <<>>]
    /\ orderQueue = <<>> /\ reportQueue = <<>>
    /\ orderTask = Idle /\ reportTask = Idle
    /\ ordersById = {} /\ recentOrders = <<>> /\ recentTrades = <<>> /\ fills = 0
    /\ lost = {} /\ filled = <<>> /\ early = {} /\ evicted = {}

----------------------------------------------------------------------------
(* The services whose streams are followed.                                 *)

Waiting == Len(orderQueue) + Len(reportQueue)
Open == {o \in 1..published : Len(reported[o]) < 2}

\* risk publishes an order.  A subscriber that is not connected, or never was
\* since its attempts at the start failed, misses it.
PublishOrder ==
    /\ published < Orders /\ Cardinality(Open) < MaxOpen /\ Waiting < MaxWaiting
    /\ published' = published + 1
    /\ \/ orderQueue' = Append(orderQueue, published') /\ UNCHANGED lost
       \/ /\ Cardinality(lost) < MaxLost /\ UNCHANGED orderQueue
          /\ lost' = lost \cup {[id |-> published', status |-> "PENDING"]}
    /\ UNCHANGED <<reported, reportQueue, orderTask, reportTask, sharedVars, fills,
                   filled, early, evicted>>

Report(o, status) ==
    LET report == [id |-> o, status |-> status] IN
    /\ Waiting < MaxWaiting
    /\ reported' = [reported EXCEPT ![o] = Append(@, status)]
    /\ \/ reportQueue' = Append(reportQueue, report) /\ UNCHANGED lost
       \/ /\ Cardinality(lost) < MaxLost /\ UNCHANGED reportQueue
          /\ lost' = lost \cup {report}
    /\ UNCHANGED <<published, orderQueue, orderTask, reportTask, sharedVars, fills,
                   filled, early, evicted>>

\* execution acknowledges an order, then executes it and reports the outcome.
Acknowledge(o) == o <= published /\ reported[o] = <<>> /\ Report(o, "Acknowledged")
Conclude(o) == Len(reported[o]) = 1 /\ \E status \in Final : Report(o, status)

Services == PublishOrder \/ \E o \in OrderId : Acknowledge(o) \/ Conclude(o)

----------------------------------------------------------------------------
(* The order task.                                                          *)

\* "Remove oldest entries": the first keys of a HashMap are any of its keys.
Trimmed(ids) ==
    IF Cardinality(ids) <= MaxKnown THEN {ids}
    ELSE {ids \ gone : gone \in kSubset(Min({Eviction, Cardinality(ids)}), ids)}

\* The order is kept for the reports to come ...
StoreOrder ==
    /\ orderTask.step = "recv" /\ orderQueue # <<>>
    /\ orderQueue' = Tail(orderQueue)
    /\ ordersById' \in Trimmed(ordersById \cup {Head(orderQueue)})
    /\ orderTask' = [step |-> "push", id |-> Head(orderQueue)]
    /\ UNCHANGED <<published, reported, reportQueue, reportTask, recentOrders,
                   recentTrades, fills, lost, filled, early, evicted>>

\* Bug: what is full takes no more.
PushedIfRoom(seq, e, max) == IF Len(seq) >= max THEN seq ELSE Append(seq, e)

\* push_back, then pop_front if there are too many.
Pushed(seq, e, max) ==
    IF Len(seq) >= max THEN Tail(Append(seq, e)) ELSE Append(seq, e)

\* ... and then shown as pending.
ShowOrder ==
    /\ orderTask.step = "push" /\ orderTask' = Idle
    /\ recentOrders' = Pushed(recentOrders, [id |-> orderTask.id, status |-> "PENDING"], MaxRecent)
    /\ evicted' = evicted \cup {e.id : e \in ToSet(recentOrders) \ ToSet(recentOrders')}
    /\ UNCHANGED <<published, reported, orderQueue, reportQueue, reportTask,
                   ordersById, recentTrades, fills, lost, filled, early>>

----------------------------------------------------------------------------
(* The report task.                                                         *)

\* Bug: a task for every report, which may be handled in any order.
AnyReport(queue) == DOMAIN queue

\* The reports that may be handled next: recv() is in the order of arrival.
NextReport(queue) == DOMAIN queue \cap {1}

\* The counter, then the look-up of the order under a read lock.
LookUpOrder ==
    /\ reportTask.step = "recv"
    /\ \E i \in NextReport(reportQueue) :
         LET report == reportQueue[i] IN
           /\ reportQueue' = RemoveAt(reportQueue, i)
           /\ fills' = fills + (IF report.status = "Filled" THEN 1 ELSE 0)
           /\ filled' = IF report.status = "Filled" THEN Append(filled, report.id) ELSE filled
           /\ reportTask' = [step |-> "status", id |-> report.id, status |-> report.status,
                             found |-> report.id \in ordersById]
    /\ UNCHANGED <<published, reported, orderQueue, orderTask, sharedVars, lost, early, evicted>>

\* Bug: only an order that is still pending takes the status of a report.
UpdatePending(events, report) ==
    [i \in DOMAIN events |-> IF events[i].id = report.id /\ events[i].status = "PENDING"
                             THEN [events[i] EXCEPT !.status = report.status] ELSE events[i]]

\* The first event of the order takes the report's status.
Updated(events, report) ==
    [i \in DOMAIN events |-> IF /\ events[i].id = report.id
                                /\ \A j \in 1..(i - 1) : events[j].id # report.id
                             THEN [events[i] EXCEPT !.status = report.status] ELSE events[i]]

\* Only a complete fill becomes a trade.
IsTrade(report) == report.status = "Filled"

UpdateStatus ==
    /\ reportTask.step = "status"
    /\ recentOrders' = Updated(recentOrders, reportTask)
    /\ reportTask' = IF IsTrade(reportTask) THEN [reportTask EXCEPT !.step = "trade"]
                     ELSE Idle
    /\ early' = IF \E e \in ToSet(recentOrders) : e.id = reportTask.id THEN early \ {reportTask.id}
                ELSE early \cup {reportTask.id}
    /\ UNCHANGED <<published, reported, orderQueue, reportQueue, orderTask,
                   ordersById, recentTrades, fills, lost, filled, evicted>>

\* A fill becomes a trade, of symbol and side "UNKNOWN" if the order was not
\* found.
AddTrade ==
    /\ reportTask.step = "trade" /\ reportTask' = Idle
    /\ recentTrades' = Pushed(recentTrades, [id |-> reportTask.id, known |-> reportTask.found],
                              MaxTrades)
    /\ UNCHANGED <<published, reported, orderQueue, reportQueue, orderTask,
                   ordersById, recentOrders, fills, lost, filled, early, evicted>>

OrderTask  == StoreOrder \/ ShowOrder
ReportTask == LookUpOrder \/ UpdateStatus \/ AddTrade

Next == Services \/ OrderTask \/ ReportTask

\* Both tasks are polled; the services owe nothing.
Spec == Init /\ [][Next]_vars /\ WF_vars(OrderTask) /\ WF_vars(ReportTask)

----------------------------------------------------------------------------
(* Profit and loss.                                                         *)

\* The trades by timestamp, which is their order's; the sort is stable, so those
\* of one time, as the two orders of a quote, stay as they arrived.  One of side
\* UNKNOWN is taken for a sale of a symbol that nobody bought, and changes
\* nothing.
Known == {i \in DOMAIN recentTrades : recentTrades[i].known}
Time(i) == Detail[recentTrades[i].id].time
Before(i, j) == Time(i) < Time(j) \/ (Time(i) = Time(j) /\ i < j)
ByTime ==
    CHOOSE seq \in [1..Cardinality(Known) -> Known] :
        \A i, j \in DOMAIN seq : i < j => Before(seq[i], seq[j])
Sorted == LET order == ByTime IN [i \in DOMAIN order |-> Detail[recentTrades[order[i]].id]]

\* Bug: the whole lot is removed by a sale of a part of it.
RemoveWhole(lots, lot, n) == IF n > 0 THEN lots ELSE Append(lots, lot)

\* What a sale of n leaves of a lot goes on being one.
Keep(lots, lot, n) ==
    IF n < lot.quantity THEN Append(lots, [lot EXCEPT !.quantity = @ - n]) ELSE lots

\* One turn of FIFO matching: a lot against what is left to sell.
Match(m, lot) ==
    LET n == Min({lot.quantity, m.left})
        pnl == m.pnl + (m.price - lot.price) * n
        peak == Max({m.peak, pnl})
    IN [m EXCEPT !.left = @ - n, !.pnl = pnl, !.peak = peak,
                 !.drawdown = Max({@, peak - pnl}), !.lots = Keep(@, lot, n)]

\* A trade adds a lot to its symbol's, or is matched with them.
Account(acc, trade) ==
    LET lots == acc.lots[trade.symbol]
        sale == FoldLeft(Match, [acc EXCEPT !.left = trade.quantity, !.price = trade.price,
                                            !.lots = <<>>], lots)
        after == IF trade.side = "Buy" THEN Append(lots, trade) ELSE sale.lots
    IN [(IF trade.side = "Buy" THEN acc ELSE sale)
            EXCEPT !.lots = [acc.lots EXCEPT ![trade.symbol] = after]]

\* get_metrics_data: total_pnl and max_drawdown of the trades shown.
MetricsData ==
    FoldLeft(Account, [lots |-> [symbol \in Symbols |-> <<>>], left |-> 0, price |-> 0,
                       pnl |-> 0, peak |-> 0, drawdown |-> 0],
             Sorted)

----------------------------------------------------------------------------
(* Properties.                                                              *)

Outcome(o) == IF Len(reported[o]) = 2 THEN reported[o][2] ELSE "none"

\* The status of an order on the dashboard never goes back: once it is the
\* outcome, no report under way changes it again.
StatusNeverBack ==
    [][\A e \in ToSet(recentOrders), f \in ToSet(recentOrders') :
          (e.id = f.id /\ e.status = Outcome(e.id))
              => f.status = e.status]_vars

\* Every outcome that arrives is shown at last, if its order does: unless a
\* report of the order overtook it, or newer ones have pushed it out, no status
\* is lost between the two tasks.
OutcomeShown ==
    \A o \in OrderId :
      (Outcome(o) # "none" /\ \A status \in {"PENDING", Outcome(o)} :
                                 [id |-> o, status |-> status] \notin lost)
          ~> (\/ o \in early \cup evicted
              \/ \E e \in ToSet(recentOrders) : e.id = o /\ e.status = Outcome(o))

\* The trades shown are the newest of the fills taken, in their order and but
\* for the one in hand; each is of an order that was filled, and none is taken
\* twice.
TradesAreFills ==
    LET inHand == IF reportTask.step # "recv" /\ reportTask.status = "Filled" THEN 1 ELSE 0
        done == Len(filled) - inHand
        shown == Min({MaxTrades, done})
    IN /\ fills = Len(filled) /\ Len(recentTrades) = shown
       /\ \A i \in 1..shown : recentTrades[i].id = filled[done - shown + i]
       /\ \A i \in DOMAIN filled : /\ Outcome(filled[i]) = "Filled"
                                   /\ \A j \in DOMAIN filled : i # j => filled[i] # filled[j]

\* What the first n trades bought or sold, of those in a set.
Amount(set, n) ==
    LET s == Sorted IN SumFunction([i \in 1..n |-> IF i \in set THEN s[i].quantity ELSE 0])

Sales == LET s == Sorted IN {i \in DOMAIN s : s[i].side = "Sell"}
Of(side, symbol) ==
    LET s == Sorted IN {i \in DOMAIN s : s[i].side = side /\ s[i].symbol = symbol}

NeverShort ==
    \A symbol \in Symbols : \A n \in DOMAIN Sorted :
        Amount(Of("Buy", symbol), n) >= Amount(Of("Sell", symbol), n)

\* The trade of the n-th unit of a set's: it made what those before it had not.
TradeOf(set, n) == CHOOSE i \in DOMAIN Sorted : Amount(set, i - 1) < n /\ n <= Amount(set, i)
UnitPrice(set, n) == Sorted[TradeOf(set, n)].price

\* The price of the n-th unit sold when it was bought.  First in, first out, said
\* unit by unit: the k-th unit sold of a symbol was the k-th one bought of it.
Cost(n) ==
    LET i == TradeOf(Sales, n)
        symbol == Sorted[i].symbol
        k == n - Amount(Sales, i - 1) + Amount(Of("Sell", symbol), i - 1)
    IN UnitPrice(Of("Buy", symbol), k)

\* The profit once the first n units are sold.
After(n) == SumFunction([i \in 1..n |-> UnitPrice(Sales, i) - Cost(i)])

\* When no sale is larger than what is held of its symbol, the profit shown is
\* that of the units sold, and the drawdown the deepest fall of the profit from
\* unit to unit.
ProfitIsFifo ==
    LET sold == Amount(Sales, Len(Sorted))
    IN NeverShort =>
         /\ MetricsData.pnl = After(sold)
         /\ MetricsData.drawdown =
              Max(UNION {{After(i) - After(j) : j \in i..sold} : i \in 0..sold})
=============================================================================
