-------------------------- MODULE ExecutionProofs --------------------------
(***************************************************************************)
(* Proofs about Execution, for any orders, symbols, quantities and prices. *)
(***************************************************************************)
EXTENDS Execution, Induction

----------------------------------------------------------------------------
(* The arithmetic and the data of a fill.                                   *)

\* The smaller and the larger of two integers.
LEMMA Extremes ==
    ASSUME NEW a \in Int, NEW b \in Int
    PROVE /\ Min({a, b}) \in {a, b} /\ Min({a, b}) <= a /\ Min({a, b}) <= b
          /\ Max({a, b}) \in {a, b} /\ Max({a, b}) >= a /\ Max({a, b}) >= b
  <1>1. \E x \in {a, b} : \A y \in {a, b} : x <= y
    <2>1. CASE a <= b
      BY <2>1
    <2>2. CASE b <= a
      BY <2>2
    <2> QED BY <2>1, <2>2
  <1>2. \E x \in {a, b} : \A y \in {a, b} : x >= y
    <2>1. CASE a >= b
      BY <2>1
    <2>2. CASE b >= a
      BY <2>2
    <2> QED BY <2>1, <2>2
  <1> QED BY <1>1, <1>2 DEF Min, Max

\* Products of naturals, and of positive ones.
LEMMA Products ==
    ASSUME NEW a \in Nat, NEW b \in Nat
    PROVE a * b \in Nat /\ (a > 0 /\ b > 0 => a * b > 0)
  BY SMT

PositionType == [quantity : Int, avg : Int \X (Nat \ {0})]
ResultType == [status : {"none", "Filled", "PartiallyFilled", "Acknowledged", "Rejected"},
               quantity : Nat, price : Int]

\* What a request carries.
LEMMA Requests ==
    ASSUME NEW r \in Request
    PROVE /\ r.symbol \in Symbol /\ r.side \in {"Buy", "Sell"}
          /\ r.quantity \in Nat /\ r.price \in Int
  <1>1. /\ r.symbol \in Symbol /\ r.side \in {"Buy", "Sell"}
        /\ r.quantity \in Quantity /\ r.price \in Price \cup {-1}
    BY DEF Request, Missing
  <1>2. Quantity \subseteq Nat /\ Price \subseteq Nat
    BY ConstantsAssumption
  <1>3. r.price \in Int
    <2>1. CASE r.price \in Price
      <3>1. r.price \in Nat
        BY <1>2, <2>1
      <3> QED BY <3>1
    <2>2. CASE r.price = -1
      BY <2>2
    <2> QED BY <1>1, <2>1, <2>2
  <1> QED BY <1>1, <1>2, <1>3

\* What a level carries.
LEMMA Levels == ASSUME NEW l \in Level PROVE l.price \in Nat /\ l.quantity \in Nat
  <1>1. l.price \in Price /\ l.quantity \in Quantity
    BY DEF Level
  <1> QED BY <1>1, ConstantsAssumption

\* There is one level to trade against, or none.
LEMMA OneTouch ==
    ASSUME books \in [Symbol -> Book], NEW r \in Request
    PROVE Touch(r) = {} \/ \E l \in Level : Touch(r) = {l}
  <1>1. books[r.symbol] \in Book
    BY Requests
  <1>2. CASE books[r.symbol] = {}
    BY <1>2 DEF Touch
  <1>3. ASSUME NEW b \in [bids : Best, asks : Best], books[r.symbol] = {b}
        PROVE \E l \in Level : Touch(r) = {l}
    <2>1. Touch(r) = IF r.side = "Buy" THEN b.asks ELSE b.bids
      BY <1>3 DEF Touch
    <2>2. b.asks \in Best /\ b.bids \in Best
      OBVIOUS
    <2> QED BY <2>1, <2>2 DEF Best
  <1> QED BY <1>1, <1>2, <1>3 DEF Book

\* A fill takes a natural number of tenths.
LEMMA FillQuantities ==
    ASSUME NEW r \in Request, NEW l \in Level
    PROVE FillQuantity(r, l) \in Nat
  <1>1. r.quantity \in Nat /\ l.quantity \in Nat
    BY Requests, Levels
  <1>2. 10 * r.quantity \in Nat /\ 9 * l.quantity \in Nat
    BY <1>1
  <1>3. 10 * r.quantity \in Int /\ 9 * l.quantity \in Int
    BY <1>2
  <1>4. Min({10 * r.quantity, 9 * l.quantity}) \in {10 * r.quantity, 9 * l.quantity}
    BY <1>3, Extremes
  <1> QED BY <1>2, <1>4 DEF FillQuantity

\* A fill is no better than the level, and no worse than a limit it reached.
LEMMA FillsWithin ==
    ASSUME NEW r \in Request, NEW l \in Level, Reached(r, l), NEW price \in FillPrices(r, l)
    PROVE /\ price \in Int
          /\ r.side = "Buy" => price >= l.price /\ (r.price # Missing => price <= r.price)
          /\ r.side # "Buy" => price <= l.price /\ (r.price # Missing => price >= r.price)
  <1>1. r.price \in Int /\ r.side \in {"Buy", "Sell"} /\ l.price \in Int
    BY Requests, Levels
  <1>2. CASE r.price # Missing /\ r.side = "Buy"
    <2>1. price = Min({l.price, r.price}) /\ l.price <= r.price
      BY <1>2 DEF FillPrices, Reached
    <2> QED BY <1>1, <1>2, <2>1, Extremes
  <1>3. CASE r.price # Missing /\ r.side = "Sell"
    <2>1. price = Max({l.price, r.price}) /\ l.price >= r.price
      BY <1>3 DEF FillPrices, Reached
    <2> QED BY <1>1, <1>3, <2>1, Extremes
  <1>4. CASE r.price = Missing /\ r.side = "Buy"
    <2>1. PICK c \in Cost : price = l.price + c
      BY <1>4 DEF FillPrices
    <2>2. c \in Nat
      BY ConstantsAssumption
    <2> QED BY <1>1, <1>4, <2>1, <2>2
  <1>5. CASE r.price = Missing /\ r.side = "Sell"
    <2>1. PICK c \in Cost : price = l.price - c
      BY <1>5 DEF FillPrices
    <2>2. c \in Nat
      BY ConstantsAssumption
    <2> QED BY <1>1, <1>5, <2>1, <2>2
  <1> QED BY <1>1, <1>2, <1>3, <1>4, <1>5

\* A purchase and a sale leave a position, its average a fraction.
LEMMA Trades ==
    ASSUME NEW p \in PositionType, NEW q \in Nat, NEW price \in Int
    PROVE Bought(p, q, price) \in PositionType /\ Sold(p, q) \in PositionType
  <1>1. /\ p.quantity \in Int /\ p.avg[1] \in Int /\ p.avg[2] \in Nat /\ p.avg[2] > 0
        /\ p.avg \in Int \X (Nat \ {0})
    BY DEF PositionType
  <1>2. p.quantity + q \in Int /\ p.quantity - q \in Int
    BY <1>1
  <1>3. Sold(p, q) \in PositionType
    BY <1>1, <1>2 DEF Sold, Flat, PositionType
  <1>4. CASE p.quantity + q > 0
    <2>1. p.avg[2] * (p.quantity + q) \in Nat /\ p.avg[2] * (p.quantity + q) > 0
      BY <1>1, <1>2, <1>4, Products
    <2>2. p.avg[1] * p.quantity + price * q * p.avg[2] \in Int
      BY <1>1, SMT
    <2> QED BY <1>2, <1>3, <1>4, <2>1, <2>2 DEF Bought, PositionType
  <1>5. CASE ~(p.quantity + q > 0)
    BY <1>1, <1>2, <1>3, <1>5 DEF Bought, PositionType
  <1> QED BY <1>4, <1>5

----------------------------------------------------------------------------
(* The inductive invariant.                                                 *)

Phase == {"unsent", "ack", "execute", "report", "done", "failed"}

TaskType ==
    /\ phase \in [Order -> Phase] /\ request \in [Order -> Request \cup {Unknown}]
    /\ result \in [Order -> ResultType]
EngineType ==
    /\ positions \in [Symbol -> PositionType]
    /\ filled \in SUBSET Order /\ lot \in [Symbol -> SUBSET filled]
    /\ shorted \in [Symbol -> BOOLEAN]
RestType ==
    /\ up \in BOOLEAN /\ books \in [Symbol -> Book]
    /\ acked \in SUBSET Order /\ reported \in SUBSET Order
    /\ faults \in Nat /\ crashes \in Nat

\* A task that was spawned has its request.
Asked == \A o \in Order : phase[o] # "unsent" => request[o] \in Request

\* A task past its acknowledgement has sent it.
AckedFirst == \A o \in Order : phase[o] \in {"execute", "report", "done"} => o \in acked

Inv == TaskType /\ EngineType /\ RestType /\ Asked /\ AckedFirst /\ UnacknowledgedNeverTrades

\* What executing an order leaves.
LEMMA ExecuteInv ==
    ASSUME Inv, NEW o \in Order, ExecuteOrder(o)
    PROVE Inv'
  <1>1. /\ phase[o] = "execute" /\ phase' = [phase EXCEPT ![o] = "report"]
        /\ UNCHANGED <<up, request, books, acked, reported, faults, crashes>>
    BY DEF ExecuteOrder
  <1>2. request[o] \in Request /\ o \in acked
    BY <1>1 DEF Inv, Asked, AckedFirst
  <1>3. RestType' /\ Asked' /\ AckedFirst'
    BY <1>1, <1>2 DEF Inv, RestType, TaskType, Asked, AckedFirst
  <1>4. ASSUME NEW s \in {"Filled", "PartiallyFilled", "Acknowledged", "Rejected"}, NEW q \in Nat,
               NEW price \in Int, Outcome(o, s, q, price)
        PROVE result' \in [Order -> ResultType]
    <2>1. [status |-> s, quantity |-> q, price |-> price] \in ResultType
      BY DEF ResultType
    <2> QED BY <1>4, <2>1 DEF Outcome, Inv, TaskType
  <1>5. ASSUME result' \in [Order -> ResultType] PROVE TaskType'
    BY <1>1, <1>5 DEF Inv, TaskType, Phase
  <1>6. CASE Reject(o) \/ LeavePending(o)
    <2>1. UNCHANGED engineVars /\ (Outcome(o, "Rejected", 0, 0) \/ Outcome(o, "Acknowledged", 0, 0))
      BY <1>6 DEF Reject, LeavePending
    <2>2. TaskType'
      BY <1>4, <1>5, <2>1
    <2>3. EngineType' /\ UnacknowledgedNeverTrades'
      BY <1>1, <2>1 DEF engineVars, Inv, EngineType, UnacknowledgedNeverTrades
    <2> QED BY <1>3, <2>2, <2>3 DEF Inv
  <1>7. CASE Fill(o)
    <2> DEFINE r == request[o]
    <2>1. PICK l \in Touch(r) :
            /\ Reached(r, l)
            /\ \E price \in FillPrices(r, l) :
                 /\ Outcome(o, IF FillQuantity(r, l) >= 10 * r.quantity THEN "Filled" ELSE "PartiallyFilled",
                            FillQuantity(r, l), price)
                 /\ UpdatePosition(o, FillQuantity(r, l), price)
            /\ filled' = filled \cup {o}
      BY <1>7 DEF Fill
    <2> DEFINE q == FillQuantity(r, l)
    <2>2. l \in Level
      BY <1>2, <2>1, OneTouch DEF Inv, RestType
    <2>3. PICK price \in FillPrices(r, l) :
            /\ Outcome(o, IF q >= 10 * r.quantity THEN "Filled" ELSE "PartiallyFilled", q, price)
            /\ UpdatePosition(o, q, price)
      BY <2>1
    <2>4. q \in Nat /\ price \in Int /\ r.symbol \in Symbol
      BY <1>2, <2>1, <2>2, FillQuantities, FillsWithin, Requests
    <2>5. TaskType'
      BY <1>4, <1>5, <2>3, <2>4
    <2> HIDE DEF q
    <2>6. positions[r.symbol] \in PositionType
      BY <2>4 DEF Inv, EngineType
    <2>7. PICK p \in PositionType :
            /\ positions' = [positions EXCEPT ![r.symbol] = p]
            /\ lot' = [lot EXCEPT ![r.symbol] = IF p.quantity = 0 THEN {}
                                               ELSE IF r.side = "Buy" THEN @ \cup {o} ELSE @]
            /\ shorted' = [shorted EXCEPT ![r.symbol] = p.quantity # 0 /\ (@ \/ p.quantity < 0)]
      BY <2>3, <2>4, <2>6, Trades DEF UpdatePosition
    <2>8. positions' \in [Symbol -> PositionType]
      BY <2>4, <2>7 DEF Inv, EngineType
    <2>9. filled' \in SUBSET Order /\ filled \subseteq filled' /\ o \in filled'
      BY <2>1 DEF Inv, EngineType
    <2>10. lot' \in [Symbol -> SUBSET filled']
      BY <2>4, <2>7, <2>9 DEF Inv, EngineType
    <2>11. shorted' \in [Symbol -> BOOLEAN]
      BY <2>4, <2>7 DEF Inv, EngineType
    <2>12. UnacknowledgedNeverTrades'
      BY <1>1, <1>2, <2>1 DEF Inv, UnacknowledgedNeverTrades
    <2> QED BY <1>3, <2>5, <2>8, <2>9, <2>10, <2>11, <2>12 DEF Inv, EngineType
  <1> QED BY <1>6, <1>7 DEF ExecuteOrder

\* What a send leaves, by the task of o.
LEMMA SendInv ==
    ASSUME Inv, NEW o \in Order, NEW ok \in BOOLEAN, NEW reached \in BOOLEAN,
           Acknowledge(o, ok, reached) \/ Report(o, ok, reached)
    PROVE Inv'
  <1>1. PICK next \in {"execute", "done"} : Send(o, ok, reached, next)
    BY DEF Acknowledge, Report
  <1>2. phase[o] \in {"ack", "report"} /\ (ok => reached)
    BY DEF Acknowledge, Report, Send
  <1>3. /\ phase' = [phase EXCEPT ![o] = IF ok THEN next ELSE "failed"]
        /\ UNCHANGED <<up, request, result, books, engineVars, crashes>>
        /\ faults' \in Nat
    BY <1>1 DEF Send, Sent, Inv, RestType
  <1>4. /\ acked \subseteq acked' /\ acked' \in SUBSET Order
        /\ reported' \subseteq reported \cup {o} /\ reported' \in SUBSET Order
    BY DEF Acknowledge, Report, Inv, RestType
  <1>5. ok => o \in acked'
    <2>1. CASE Acknowledge(o, ok, reached)
      BY <1>2, <2>1 DEF Acknowledge
    <2>2. CASE Report(o, ok, reached)
      BY <2>2 DEF Report, Inv, AckedFirst
    <2> QED BY <2>1, <2>2
  <1>6. TaskType' /\ Asked'
    BY <1>2, <1>3 DEF Inv, TaskType, Asked, Phase
  <1>7. EngineType' /\ RestType'
    BY <1>3, <1>4 DEF engineVars, Inv, EngineType, RestType
  <1>8. AckedFirst'
    BY <1>3, <1>4, <1>5 DEF Inv, TaskType, AckedFirst
  <1>9. UnacknowledgedNeverTrades'
    <2>1. o \in reported' => o \in reported \/ o \in acked
      BY DEF Acknowledge, Report, Inv, AckedFirst
    <2> QED BY <1>3, <1>4, <2>1 DEF engineVars, Inv, UnacknowledgedNeverTrades
  <1> QED BY <1>6, <1>7, <1>8, <1>9 DEF Inv

\* What arrives, and the end and the start of the process.
LEMMA OtherInv ==
    ASSUME Inv,
           \/ Crash \/ Restart \/ UNCHANGED vars
           \/ \E o \in Order : Receive(o)
           \/ \E s \in Symbol, b \in Book : UpdateMarketData(s, b)
    PROVE Inv'
  <1> USE DEF taskVars, engineVars
  <1>1. ASSUME NEW o \in Order, Receive(o) PROVE Inv'
    <2>1. PICK r \in Request : request' = [request EXCEPT ![o] = r]
      BY <1>1 DEF Receive
    <2>2. TaskType' /\ Asked' /\ AckedFirst'
      BY <1>1, <2>1 DEF Receive, Inv, TaskType, Asked, AckedFirst, Phase
    <2> QED BY <1>1, <2>2 DEF Receive, Inv, EngineType, RestType, UnacknowledgedNeverTrades
  <1>2. ASSUME NEW s \in Symbol, NEW b \in Book, UpdateMarketData(s, b) PROVE Inv'
    <2>1. RestType'
      BY <1>2 DEF UpdateMarketData, Inv, RestType
    <2> QED BY <1>2, <2>1 DEF UpdateMarketData, Inv, TaskType, EngineType, Asked, AckedFirst,
                              UnacknowledgedNeverTrades
  <1>3. CASE Crash
    <2>1. TaskType' /\ Asked' /\ AckedFirst'
      BY <1>3 DEF Crash, Inv, TaskType, Asked, AckedFirst, Phase
    <2>2. Flat \in PositionType
      BY DEF Flat, PositionType
    <2>3. FALSE \in BOOLEAN /\ {} \in Book
      BY DEF Book
    <2>4. /\ positions' \in [Symbol -> PositionType] /\ filled' = {}
          /\ lot' \in [Symbol -> SUBSET {}] /\ shorted' \in [Symbol -> BOOLEAN]
      BY <1>3, <2>2, <2>3 DEF Crash
    <2>5. EngineType'
      BY <2>4 DEF EngineType
    <2>6. RestType'
      <3>1. up' \in BOOLEAN
        BY <1>3, Zenon DEF Crash
      <3>2. books' \in [Symbol -> Book]
        BY <1>3, <2>3 DEF Crash
      <3> QED BY <1>3, <3>1, <3>2 DEF Crash, Inv, RestType
    <2> QED BY <1>3, <2>1, <2>5, <2>6 DEF Crash, Inv, UnacknowledgedNeverTrades
  <1>4. CASE Restart
    <2>1. up' \in BOOLEAN
      BY <1>4, Zenon DEF Restart
    <2> QED BY <1>4, <2>1 DEF Restart, Inv, TaskType, EngineType, RestType, Asked, AckedFirst,
                       UnacknowledgedNeverTrades
  <1>5. CASE UNCHANGED vars
    BY <1>5 DEF vars, Inv, TaskType, EngineType, RestType, Asked, AckedFirst,
                UnacknowledgedNeverTrades
  <1> QED BY <1>1, <1>2, <1>3, <1>4, <1>5

\* Where the process starts.
LEMMA InitInv == Init => Inv
  <1> SUFFICES ASSUME Init PROVE Inv
    OBVIOUS
  <1>1. TaskType /\ Asked /\ AckedFirst /\ UnacknowledgedNeverTrades
    BY DEF Init, TaskType, Phase, ResultType, Nothing, Asked, AckedFirst, UnacknowledgedNeverTrades
  <1>2. EngineType
    BY DEF Init, EngineType, PositionType, Flat
  <1>3. up \in BOOLEAN
    BY Zenon DEF Init
  <1>4. RestType
    BY <1>3 DEF Init, RestType, Book
  <1> QED BY <1>1, <1>2, <1>4 DEF Inv

\* Every step keeps the invariant.
LEMMA NextInv == Inv /\ [Next]_vars => Inv'
  BY ExecuteInv, SendInv, OtherInv DEF Next, Task

----------------------------------------------------------------------------
(* The theorems.                                                            *)

\* The invariant holds throughout.
LEMMA Invariant == Spec => []Inv
  BY InitInv, NextInv, PTL DEF Spec

\* Types are kept for any quantities, prices and costs (main.rs:31-107,
\* paper_trading.rs:34-255).
THEOREM TypeCorrect == Spec => []TypeOK
  <1>1. Inv => TypeOK
    BY DEF Inv, TaskType, EngineType, RestType, Phase, PositionType, ResultType, TypeOK
  <1> QED BY <1>1, Invariant, PTL

\* No order trades unacknowledged (main.rs:94-104).
THEOREM NeverUnacknowledged == Spec => []UnacknowledgedNeverTrades
  <1>1. Inv => UnacknowledgedNeverTrades
    BY DEF Inv
  <1> QED BY <1>1, Invariant, PTL

\* A fill is no better than the best level of its moment, and no worse than the
\* order's limit (paper_trading.rs:102-207).
THEOREM FillsWithinLimits == Spec => FillsAtTouch
  <1> DEFINE Within(o) ==
        \A l \in Touch(request[o]) :
          LET r == request[o]
              price == result'[o].price
          IN IF r.side = "Buy" THEN price >= l.price /\ (r.price # Missing => price <= r.price)
                               ELSE price <= l.price /\ (r.price # Missing => price >= r.price)
  <1>1. ASSUME Inv, NEW o \in Order, Fill(o), phase[o] = "execute" PROVE Within(o)
    <2> DEFINE r == request[o]
    <2>1. PICK l \in Touch(r) :
            /\ Reached(r, l)
            /\ \E price \in FillPrices(r, l) :
                 Outcome(o, IF FillQuantity(r, l) >= 10 * r.quantity THEN "Filled" ELSE "PartiallyFilled",
                         FillQuantity(r, l), price)
      BY <1>1 DEF Fill
    <2>2. r \in Request
      BY <1>1 DEF Inv, Asked
    <2>3. l \in Level /\ Touch(r) = {l}
      BY <1>1, <2>1, <2>2, OneTouch DEF Inv, RestType
    <2>4. PICK price \in FillPrices(r, l) :
            Outcome(o, IF FillQuantity(r, l) >= 10 * r.quantity THEN "Filled" ELSE "PartiallyFilled",
                    FillQuantity(r, l), price)
      BY <2>1
    <2>5. result'[o].price = price
      BY <1>1, <2>4 DEF Outcome, Inv, TaskType
    <2> QED BY <2>1, <2>2, <2>3, <2>5, FillsWithin
  <1>2. ASSUME Inv, [Next]_vars, NEW o \in filled' \ filled
        PROVE o \in Order /\ Fill(o) /\ phase[o] = "execute"
    <2>1. ASSUME NEW u \in Order, Task(u) PROVE filled' = filled \/ (Fill(u) /\ filled' = filled \cup {u}
                                                                /\ phase[u] = "execute")
      BY <2>1 DEF Task, ExecuteOrder, Reject, LeavePending, Fill, Acknowledge, Report, Send, engineVars
    <2>2. filled' \subseteq filled \/ \E u \in Order : Task(u)
      BY <1>2 DEF Next, Crash, Restart, Receive, UpdateMarketData, engineVars, vars
    <2> QED BY <1>2, <2>1, <2>2
  <1>3. Inv /\ [Next]_vars => [\A o \in filled' \ filled : Within(o)]_vars
    BY <1>1, <1>2
  <1> QED BY <1>3, Invariant, PTL DEF Spec, FillsAtTouch

----------------------------------------------------------------------------
(* Positions and averages.                                                  *)

Signed == [o \in Order |-> SignedFill(o)]

\* A filled order has been executed, and is not executed again.
FilledOnce ==
    /\ IsFiniteSet(filled)
    /\ \A o \in filled : phase[o] \in {"report", "done", "failed"}

\* The position of a symbol is the sum of its fills.
Balanced == \A s \in Symbol : positions[s].quantity = Sum(Signed, Of(filled, s))

\* While a symbol was not sold short, its position is not negative, and its
\* average lies between the prices of two of the orders that bought, of which
\* one paid the least and one the most.  A flat position has no such orders.
Bounds(p, buyers, reports) ==
    \E least, most \in buyers :
      /\ \A o \in buyers : reports[least].price <= reports[o].price /\ reports[o].price <= reports[most].price
      /\ p.avg[1] >= p.avg[2] * reports[least].price
      /\ p.avg[1] <= p.avg[2] * reports[most].price

PaidFor(p, buyers, short, reports) ==
    /\ p.quantity = 0 => buyers = {}
    /\ ~short => p.quantity >= 0
    /\ (~short /\ p.quantity > 0) => Bounds(p, buyers, reports)

Paid == \A s \in Symbol : PaidFor(positions[s], lot[s], shorted[s], result)

FillInv == FilledOnce /\ Balanced /\ Paid

\* What leaves the engine alone, and the reports and requests of the filled
\* orders, keeps the sums and the averages.
LEMMA QuietFills ==
    ASSUME Inv, FillInv, UNCHANGED <<engineVars, request, result>>,
           \A o \in filled : phase'[o] \in {"report", "done", "failed"}
    PROVE FillInv'
  <1>1. FilledOnce'
    BY DEF FillInv, FilledOnce, engineVars
  <1>2. Balanced'
    BY DEF FillInv, Balanced, engineVars, Signed, SignedFill, Of
  <1>3. Paid'
    BY DEF FillInv, Paid, PaidFor, Bounds, engineVars
  <1> QED BY <1>1, <1>2, <1>3 DEF FillInv

\* A mean of two prices, weighted with naturals, lies between bounds of both.
LEMMA Weighted ==
    ASSUME NEW a \in Int, NEW b \in Nat, NEW price \in Int, NEW Q \in Nat, NEW q \in Nat, NEW m \in Int
    PROVE /\ ((a >= b * m \/ Q = 0) /\ price >= m) => a * Q + price * q * b >= (b * (Q + q)) * m
          /\ ((a <= b * m \/ Q = 0) /\ price <= m) => a * Q + price * q * b <= (b * (Q + q)) * m
  <1>1. (b * (Q + q)) * m = (b * m) * Q + m * (q * b) /\ price * q * b = price * (q * b)
    BY SMT
  <1>2. q * b \in Nat
    BY Products
  <1>3. ASSUME NEW x \in Int, NEW y \in Int, NEW n \in Nat, x <= y PROVE x * n <= y * n
    BY <1>3, SMT
  <1>4. b * m \in Int /\ (b * m) * Q \in Int /\ a * Q \in Int /\ price * (q * b) \in Int /\ m * (q * b) \in Int
    BY <1>2, SMT
  <1>5. ASSUME a >= b * m \/ Q = 0, price >= m
        PROVE a * Q >= (b * m) * Q /\ price * (q * b) >= m * (q * b)
    <2>1. CASE a >= b * m
      BY <1>2, <1>3, <1>4, <1>5, <2>1
    <2>2. CASE Q = 0
      BY <1>2, <1>3, <1>4, <1>5, <2>2
    <2> QED BY <1>5, <2>1, <2>2
  <1>6. ASSUME a <= b * m \/ Q = 0, price <= m
        PROVE a * Q <= (b * m) * Q /\ price * (q * b) <= m * (q * b)
    <2>1. CASE a <= b * m
      BY <1>2, <1>3, <1>4, <1>6, <2>1
    <2>2. CASE Q = 0
      BY <1>2, <1>3, <1>4, <1>6, <2>2
    <2> QED BY <1>6, <2>1, <2>2
  <1> QED BY <1>1, <1>4, <1>5, <1>6

\* The sums after the fill of an order.
LEMMA BalancedStep ==
    ASSUME Inv, FillInv, NEW o \in Order, phase[o] = "execute", request[o] \in Request,
           NEW q \in Nat, NEW p \in PositionType,
           Inv', request' = request, filled' = filled \cup {o},
           \A u \in Order \ {o} : result'[u] = result[u], result'[o].quantity = q,
           positions' = [positions EXCEPT ![request[o].symbol] = p],
           p.quantity = positions[request[o].symbol].quantity + (IF request[o].side = "Buy" THEN q ELSE -q)
    PROVE Balanced'
  <1> SUFFICES ASSUME NEW s \in Symbol PROVE positions'[s].quantity = Sum(Signed', Of(filled, s)')
    BY DEF Balanced
  <1>1. /\ filled \subseteq Order /\ o \notin filled /\ IsFiniteSet(filled)
        /\ positions \in [Symbol -> PositionType] /\ request[o].symbol \in Symbol
        /\ \A u \in Order : result[u] \in ResultType /\ result'[u] \in ResultType
    BY Requests DEF FillInv, FilledOnce, Inv, EngineType, TaskType
  <1> DEFINE S == Of(filled, s)
             S2 == Of(filled, s)'
  <1>2. /\ IsFiniteSet(S) /\ S \subseteq Order \ {o} /\ S \subseteq S2
        /\ S2 = IF request[o].symbol = s THEN S \cup {o} ELSE S
    BY <1>1, FS_Subset DEF Of
  <1>3. /\ \A u \in Order : Signed[u] \in Int /\ Signed'[u] \in Int
        /\ \A u \in Order \ {o} : Signed[u] = Signed'[u]
        /\ Signed'[o] = IF request[o].side = "Buy" THEN q ELSE -q
    BY <1>1 DEF Signed, SignedFill, ResultType
  <1> HIDE DEF S, S2
  <1> DEFINE f == Signed
             f2 == Signed'
  <1>4. Sum(f, S) = Sum(f2, S)
    <2>1. IntOn(f, S) /\ \A u \in S : f[u] = f2[u]
      BY <1>2, <1>3 DEF IntOn
    <2> HIDE DEF f, f2
    <2> QED BY <1>2, <2>1, SumEqual
  <1>5. positions[s].quantity = Sum(f, S)
    BY DEF FillInv, Balanced, S
  <1>6. CASE request[o].symbol = s
    <2>1. S2 = S \cup {o} /\ IsFiniteSet(S2) /\ S2 \ {o} = S /\ o \in S2
      BY <1>2, <1>6, FS_AddElement
    <2>2. IntOn(f2, S2)
      BY <1>2, <1>3, <2>1 DEF IntOn
    <2> HIDE DEF f, f2
    <2>3. Sum(f2, S2) = f2[o] + Sum(f2, S) /\ Sum(f2, S) \in Int
      BY <2>1, <2>2, SumRemove
    <2>4. positions'[s].quantity = positions[s].quantity + f2[o]
      BY <1>1, <1>3, <1>6 DEF f2
    <2>5. f2[o] \in Int
      BY <1>3 DEF f2
    <2> QED BY <1>4, <1>5, <2>3, <2>4, <2>5 DEF S2, f2
  <1>7. CASE request[o].symbol # s
    BY <1>1, <1>2, <1>4, <1>5, <1>7 DEF S2
  <1> QED BY <1>6, <1>7

\* The average after the fill of an order.
LEMMA PaidStep ==
    ASSUME Inv, FillInv, NEW o \in Order, phase[o] = "execute", request[o] \in Request,
           NEW q \in Nat, NEW price \in Int, NEW p, q > 0,
           Inv', request' = request,
           \A u \in Order \ {o} : result'[u] = result[u], result'[o].price = price,
           p = IF request[o].side = "Buy" THEN Bought(positions[request[o].symbol], q, price)
               ELSE Sold(positions[request[o].symbol], q),
           positions' = [positions EXCEPT ![request[o].symbol] = p],
           lot' = [lot EXCEPT ![request[o].symbol] = IF p.quantity = 0 THEN {}
                                                     ELSE IF request[o].side = "Buy" THEN @ \cup {o} ELSE @],
           shorted' = [shorted EXCEPT ![request[o].symbol] = p.quantity # 0 /\ (@ \/ p.quantity < 0)]
    PROVE Paid'
  <1> DEFINE t == request[o].symbol
             old == positions[t]
  <1>1. /\ positions \in [Symbol -> PositionType] /\ lot \in [Symbol -> SUBSET filled]
        /\ shorted \in [Symbol -> BOOLEAN] /\ filled \subseteq Order /\ t \in Symbol
        /\ o \notin filled /\ request[o].side \in {"Buy", "Sell"}
        /\ \A u \in Order : result[u].price \in Int /\ result'[u].price \in Int
    BY Requests DEF FillInv, FilledOnce, Inv, EngineType, TaskType, ResultType
  <1>2. /\ old \in PositionType /\ old.quantity \in Int /\ old.avg[1] \in Int /\ old.avg[2] \in Nat
    BY <1>1 DEF PositionType
  <1>3. /\ positions'[t] = p
        /\ lot'[t] = IF p.quantity = 0 THEN {}
                     ELSE IF request[o].side = "Buy" THEN lot[t] \cup {o} ELSE lot[t]
        /\ ~shorted'[t] => p.quantity = 0 \/ (~shorted[t] /\ ~(p.quantity < 0))
        /\ \A s \in Symbol \ {t} : /\ positions'[s] = positions[s] /\ lot'[s] = lot[s]
                                   /\ shorted'[s] = shorted[s]
    BY <1>1
  <1>4. \A s \in Symbol : \A u \in lot[s] : u \in Order /\ result'[u] = result[u]
    BY <1>1
  <1> SUFFICES ASSUME NEW s \in Symbol
               PROVE PaidFor(positions'[s], lot'[s], shorted'[s], result')
    BY DEF Paid
  <1>10. \A u \in Symbol : PaidFor(positions[u], lot[u], shorted[u], result)
    BY DEF FillInv, Paid
  <1>5. CASE s # t
    <2>1. /\ positions'[s] = positions[s] /\ lot'[s] = lot[s] /\ shorted'[s] = shorted[s]
          /\ PaidFor(positions[s], lot[s], shorted[s], result)
          /\ \A u \in lot[s] : result'[u] = result[u]
      BY <1>3, <1>4, <1>5, <1>10
    <2> QED BY ZenonT(60), <2>1 DEF PaidFor, Bounds
  <1>6. CASE s = t /\ p.quantity = 0
    <2>1. p.quantity >= 0 /\ ~(p.quantity > 0) /\ lot'[t] = {}
      BY <1>3, <1>6
    <2> HIDE DEF t
    <2> QED BY <1>3, <1>6, <2>1 DEF PaidFor
  <1>7. CASE s = t /\ p.quantity # 0 /\ request[o].side = "Sell"
    <2>1. p = [old EXCEPT !.quantity = @ - q] /\ old.quantity # q
      BY <1>7 DEF Sold, Flat
    <2>2. p.quantity = old.quantity - q /\ p.avg = old.avg
      BY <1>2, <2>1 DEF PositionType
    <2>3. lot'[t] = lot[t]
      BY <1>3, <1>7
    <2>4. ~shorted'[t] => ~shorted[t] /\ ~(p.quantity < 0)
      BY <1>3, <1>7
    <2>5. PaidFor(old, lot[t], shorted[t], result) /\ \A u \in lot[t] : result'[u] = result[u]
      BY <1>1, <1>4, <1>10
    <2> HIDE DEF t, old
    <2>6. p.quantity > 0 => old.quantity > 0
      BY <1>2, <2>2
    <2>7. (~shorted'[t] /\ p.quantity > 0) => Bounds(p, lot[t], result')
      <3> SUFFICES ASSUME ~shorted'[t], p.quantity > 0 PROVE Bounds(p, lot[t], result')
        OBVIOUS
      <3>1. Bounds(old, lot[t], result)
        BY <2>4, <2>5, <2>6 DEF PaidFor
      <3> QED BY <2>2, <2>5, <3>1 DEF Bounds
    <2>8. p.quantity \in Int
      BY <1>2, <2>2
    <2>9. ~shorted'[t] => p.quantity >= 0
      BY <2>4, <2>8
    <2> QED BY <1>3, <1>7, <2>3, <2>7, <2>9 DEF PaidFor
  <1>8. CASE s = t /\ p.quantity # 0 /\ request[o].side = "Buy"
    <2>1. p.quantity = old.quantity + q
      BY <1>2, <1>8 DEF Bought
    <2>2. lot'[t] = lot[t] \cup {o}
      BY <1>3, <1>8
    <2>11. ~shorted'[t] => ~shorted[t] /\ ~(p.quantity < 0)
      BY <1>3, <1>8
    <2>12. PaidFor(old, lot[t], shorted[t], result)
      BY <1>1, <1>10
    <2>3. ASSUME ~shorted'[t], p.quantity > 0 PROVE Bounds(p, lot'[t], result')
      <3>1. old.quantity \in Nat /\ ~shorted[t]
        BY <1>2, <2>11, <2>12, <2>3 DEF PaidFor
      <3>2. /\ p.avg[1] = old.avg[1] * old.quantity + price * q * old.avg[2]
            /\ p.avg[2] = old.avg[2] * (old.quantity + q)
        BY <1>8, <2>1, <2>3 DEF Bought
      <3>3. \E least, most \in lot'[t] :
               /\ \A u \in lot'[t] : /\ result'[least].price <= result'[u].price
                                     /\ result'[u].price <= result'[most].price
               /\ old.avg[1] >= old.avg[2] * result'[least].price \/ old.quantity = 0
               /\ old.avg[1] <= old.avg[2] * result'[most].price \/ old.quantity = 0
        <4>1. CASE old.quantity = 0
          <5>1. lot'[t] = {o}
            BY <2>2, <2>12, <4>1 DEF PaidFor
          <5> QED BY <1>1, <4>1, <5>1
        <4>2. CASE old.quantity # 0
          <5>1. PICK least, most \in lot[t] :
                   /\ \A u \in lot[t] : result[least].price <= result[u].price /\ result[u].price <= result[most].price
                   /\ old.avg[1] >= old.avg[2] * result[least].price
                   /\ old.avg[1] <= old.avg[2] * result[most].price
            BY <2>12, <3>1, <4>2 DEF PaidFor, Bounds
          <5> DEFINE m == result[least].price
                     n == result[most].price
                     least2 == IF price < m THEN o ELSE least
                     most2 == IF price > n THEN o ELSE most
          <5>2. /\ least \in Order /\ most \in Order /\ m \in Int /\ n \in Int
                /\ result'[least].price = m /\ result'[most].price = n
            BY <1>1, <1>4
          <5>3. least2 \in lot'[t] /\ most2 \in lot'[t]
            BY <2>2
          <5>4. /\ result'[least2].price = (IF price < m THEN price ELSE m)
                /\ result'[most2].price = (IF price > n THEN price ELSE n)
            BY <5>2
          <5>5. \A u \in lot'[t] : result'[least2].price <= result'[u].price /\ result'[u].price <= result'[most2].price
            <6> SUFFICES ASSUME NEW u \in lot'[t]
                         PROVE result'[least2].price <= result'[u].price /\ result'[u].price <= result'[most2].price
              OBVIOUS
            <6>1. CASE u = o
              BY <5>2, <5>4, <6>1
            <6>2. CASE u \in lot[t]
              <7>1. result'[u].price = result[u].price /\ result[u].price \in Int
                BY <1>1, <1>4, <6>2
              <7>2. m <= result[u].price /\ result[u].price <= n
                BY <5>1, <6>2
              <7> HIDE DEF m, n, least2, most2
              <7> QED BY <5>2, <5>4, <7>1, <7>2
            <6> QED BY <2>2, <6>1, <6>2
          <5>6. old.avg[2] * result'[least2].price <= old.avg[1] /\ old.avg[1] <= old.avg[2] * result'[most2].price
            <6> DEFINE a == old.avg[1]
                       b == old.avg[2]
            <6>1. a \in Int /\ b \in Nat /\ b * m <= a /\ a <= b * n
              BY <1>2, <5>1
            <6> HIDE DEF a, b, m, n
            <6>2. \A x, y \in Int : x <= y => b * x <= b * y
              BY <6>1, SMT
            <6>3. (price < m => b * price <= b * m) /\ (price > n => b * n <= b * price)
              BY <5>2, <6>2
            <6>4. b * price \in Int /\ b * m \in Int /\ b * n \in Int
              BY <5>2, <6>1
            <6>5. b * (IF price < m THEN price ELSE m) <= a
              BY <6>1, <6>3, <6>4
            <6>6. a <= b * (IF price > n THEN price ELSE n)
              BY <6>1, <6>3, <6>4
            <6> HIDE DEF least2, most2
            <6> QED BY <5>4, <6>5, <6>6 DEF a, b
          <5> HIDE DEF m, n, least2, most2
          <5> QED BY <5>3, <5>5, <5>6
        <4> QED BY <4>1, <4>2
      <3>4. PICK least, most \in lot'[t] :
               /\ \A u \in lot'[t] : /\ result'[least].price <= result'[u].price
                                     /\ result'[u].price <= result'[most].price
               /\ old.avg[1] >= old.avg[2] * result'[least].price \/ old.quantity = 0
               /\ old.avg[1] <= old.avg[2] * result'[most].price \/ old.quantity = 0
        BY <3>3
      <3>5. least \in Order /\ most \in Order /\ o \in lot'[t]
        BY <1>1, <1>4, <2>2
      <3>6. /\ result'[least].price \in Int /\ result'[most].price \in Int
            /\ result'[least].price <= price /\ price <= result'[most].price
        BY <1>1, <3>4, <3>5
      <3>7. /\ p.avg[1] >= p.avg[2] * result'[least].price
            /\ p.avg[1] <= p.avg[2] * result'[most].price
        <4> DEFINE a == old.avg[1]
                   b == old.avg[2]
                   Q == old.quantity
                   m == result'[least].price
                   n == result'[most].price
        <4>1. /\ a \in Int /\ b \in Nat /\ Q \in Nat /\ m \in Int /\ n \in Int
              /\ a >= b * m \/ Q = 0
              /\ a <= b * n \/ Q = 0
              /\ price >= m /\ price <= n
          BY <1>2, <3>1, <3>4, <3>6
        <4>2. p.avg[1] = a * Q + price * q * b /\ p.avg[2] = b * (Q + q)
          BY <3>2
        <4> HIDE DEF a, b, Q, m, n
        <4>3. a * Q + price * q * b >= (b * (Q + q)) * m /\ a * Q + price * q * b <= (b * (Q + q)) * n
          BY <4>1, Weighted
        <4> QED BY <4>2, <4>3 DEF m, n
      <3> HIDE DEF t
      <3> QED BY <3>4, <3>7 DEF Bounds
    <2>4. p.quantity \in Int
      BY <1>2, <2>1
    <2>5. ~shorted'[t] => p.quantity >= 0
      BY <2>11, <2>4
    <2> HIDE DEF t
    <2> QED BY <1>3, <1>8, <2>3, <2>5 DEF PaidFor
  <1> QED BY <1>1, <1>5, <1>6, <1>7, <1>8

\* Something is taken by every fill.
LEMMA FillPositive ==
    ASSUME NEW r \in Request, NEW l \in Level
    PROVE FillQuantity(r, l) > 0
  <1>1. r.quantity \in Nat \ {0} /\ l.quantity \in Nat \ {0}
    <2>1. r.quantity \in Quantity /\ l.quantity \in Quantity
      BY DEF Request, Level
    <2> QED BY <2>1, ConstantsAssumption
  <1>2. 10 * r.quantity \in Int /\ 9 * l.quantity \in Int /\ 10 * r.quantity > 0 /\ 9 * l.quantity > 0
    BY <1>1
  <1>3. Min({10 * r.quantity, 9 * l.quantity}) \in {10 * r.quantity, 9 * l.quantity}
    BY <1>2, Extremes
  <1> QED BY <1>2, <1>3 DEF FillQuantity

\* The execution of an order.
LEMMA ExecuteFills ==
    ASSUME Inv, FillInv, NEW o \in Order, ExecuteOrder(o)
    PROVE FillInv'
  <1>1. /\ phase[o] = "execute" /\ phase' = [phase EXCEPT ![o] = "report"] /\ UNCHANGED request
    BY DEF ExecuteOrder
  <1>2. Inv' /\ request[o] \in Request /\ o \notin filled
    BY <1>1, ExecuteInv DEF Inv, Asked, FillInv, FilledOnce
  <1>3. \A u \in Order \ {o} : phase'[u] = phase[u]
    BY <1>1 DEF Inv, TaskType
  <1>4. phase'[o] = "report"
    BY <1>1 DEF Inv, TaskType
  <1>5. filled \subseteq Order /\ \A u \in filled : phase'[u] \in {"report", "done", "failed"}
    BY <1>2, <1>3 DEF FillInv, FilledOnce, Inv, EngineType
  <1>6. CASE Reject(o) \/ LeavePending(o)
    <2>1. /\ UNCHANGED engineVars
          /\ \A u \in filled : result'[u] = result[u]
      BY <1>2, <1>5, <1>6 DEF Reject, LeavePending, Outcome, Inv, TaskType
    <2>2. FilledOnce'
      BY <1>5, <2>1 DEF FillInv, FilledOnce, engineVars
    <2>3. Balanced'
      <3> SUFFICES ASSUME NEW s \in Symbol PROVE positions'[s].quantity = Sum(Signed', Of(filled, s)')
        BY DEF Balanced
      <3> DEFINE S == Of(filled, s)
                 f == Signed
                 f2 == Signed'
      <3>1. Of(filled, s)' = S /\ positions' = positions
        BY <1>1, <2>1 DEF Of, engineVars
      <3>2. /\ IsFiniteSet(S) /\ IntOn(f, S) /\ \A u \in S : f[u] = f2[u]
            /\ positions[s].quantity = Sum(f, S)
        <4>1. IsFiniteSet(S) /\ S \subseteq filled
          BY FS_Subset DEF FillInv, FilledOnce, Of
        <4>2. \A u \in Order : result[u] \in ResultType
          BY DEF Inv, TaskType
        <4>3. \A u \in filled : f[u] \in Int /\ f[u] = f2[u]
          BY <1>1, <1>5, <2>1, <4>2 DEF Signed, SignedFill, ResultType
        <4>4. positions[s].quantity = Sum(f, S)
          BY DEF FillInv, Balanced
        <4> HIDE DEF S, f, f2
        <4> QED BY <4>1, <4>3, <4>4 DEF IntOn
      <3> HIDE DEF S, f, f2
      <3>3. Sum(f, S) = Sum(f2, S)
        BY <3>2, SumEqual
      <3> QED BY <3>1, <3>2, <3>3 DEF f2
    <2>4. Paid'
      <3> SUFFICES ASSUME NEW s \in Symbol PROVE PaidFor(positions[s], lot[s], shorted[s], result')
        BY <2>1 DEF Paid, engineVars
      <3>1. PaidFor(positions[s], lot[s], shorted[s], result)
        BY DEF FillInv, Paid
      <3>2. \A u \in lot[s] : result'[u] = result[u]
        BY <2>1 DEF Inv, EngineType
      <3> QED BY <3>1, <3>2 DEF PaidFor, Bounds
    <2> QED BY <2>2, <2>3, <2>4 DEF FillInv
  <1>7. CASE Fill(o)
    <2> DEFINE r == request[o]
    <2>1. PICK l \in Touch(r) :
            /\ Reached(r, l)
            /\ \E price \in FillPrices(r, l) :
                 /\ Outcome(o, IF FillQuantity(r, l) >= 10 * r.quantity THEN "Filled" ELSE "PartiallyFilled",
                            FillQuantity(r, l), price)
                 /\ UpdatePosition(o, FillQuantity(r, l), price)
            /\ filled' = filled \cup {o}
      BY <1>7 DEF Fill
    <2> DEFINE q == FillQuantity(r, l)
    <2>2. l \in Level
      BY <1>2, <2>1, OneTouch DEF Inv, RestType
    <2>3. PICK price \in FillPrices(r, l) :
            /\ Outcome(o, IF q >= 10 * r.quantity THEN "Filled" ELSE "PartiallyFilled", q, price)
            /\ UpdatePosition(o, q, price)
      BY <2>1
    <2>4. q \in Nat /\ q > 0 /\ price \in Int /\ r.symbol \in Symbol /\ positions[r.symbol] \in PositionType
      BY <1>2, <2>1, <2>2, FillQuantities, FillPositive, FillsWithin, Requests DEF Inv, EngineType
    <2> DEFINE p == IF r.side = "Buy" THEN Bought(positions[r.symbol], q, price)
                    ELSE Sold(positions[r.symbol], q)
    <2> HIDE DEF q
    <2>5. result'[o].quantity = q /\ result'[o].price = price /\ \A u \in Order \ {o} : result'[u] = result[u]
      BY <2>3 DEF Outcome, Inv, TaskType
    <2>6. /\ positions' = [positions EXCEPT ![r.symbol] = p]
          /\ lot' = [lot EXCEPT ![r.symbol] = IF p.quantity = 0 THEN {}
                                             ELSE IF r.side = "Buy" THEN @ \cup {o} ELSE @]
          /\ shorted' = [shorted EXCEPT ![r.symbol] = p.quantity # 0 /\ (@ \/ p.quantity < 0)]
      BY <2>3 DEF UpdatePosition
    <2>7. p \in PositionType
      BY <2>4, Trades
    <2>8. p.quantity = positions[r.symbol].quantity + (IF r.side = "Buy" THEN q ELSE -q)
      <3>1. positions[r.symbol].quantity \in Int
        BY <2>4 DEF PositionType
      <3>2. CASE r.side = "Buy"
        BY <3>1, <3>2 DEF Bought
      <3>3. CASE r.side # "Buy" /\ positions[r.symbol].quantity = q
        BY <2>4, <3>1, <3>3 DEF Sold, Flat
      <3>4. CASE r.side # "Buy" /\ positions[r.symbol].quantity # q
        BY <2>4, <3>1, <3>4 DEF Sold, PositionType
      <3> QED BY <3>2, <3>3, <3>4
    <2>9. Balanced'
      <3> HIDE DEF p
      <3> QED BY <1>1, <1>2, <2>1, <2>4, <2>5, <2>6, <2>7, <2>8, BalancedStep
    <2>10. Paid'
      BY <1>1, <1>2, <2>4, <2>5, <2>6, PaidStep
    <2>11. FilledOnce'
      BY <1>4, <1>5, <2>1, FS_AddElement DEF FillInv, FilledOnce
    <2> QED BY <2>9, <2>10, <2>11 DEF FillInv
  <1> QED BY <1>6, <1>7 DEF ExecuteOrder

\* The other steps of a task, and of the process.
LEMMA OtherFills ==
    ASSUME Inv, FillInv,
           \/ Crash \/ Restart \/ UNCHANGED vars
           \/ \E o \in Order : Receive(o)
           \/ \E o \in Order, ok, reached \in BOOLEAN : Acknowledge(o, ok, reached) \/ Report(o, ok, reached)
           \/ \E s \in Symbol, b \in Book : UpdateMarketData(s, b)
    PROVE FillInv'
  <1>1. filled \subseteq Order /\ \A u \in filled : phase[u] \in {"report", "done", "failed"}
    BY DEF FillInv, FilledOnce, Inv, EngineType
  <1>2. ASSUME NEW o \in Order, Receive(o) PROVE FillInv'
    <2>1. /\ o \notin filled /\ UNCHANGED <<engineVars, result>>
          /\ \A u \in filled : phase'[u] = phase[u] /\ request'[u] = request[u]
      BY <1>1, <1>2 DEF Receive, Inv, TaskType
    <2>2. FilledOnce' /\ Paid'
      BY <1>1, <2>1 DEF FillInv, FilledOnce, Paid, PaidFor, Bounds, engineVars
    <2>3. Balanced'
      <3> SUFFICES ASSUME NEW s \in Symbol PROVE positions'[s].quantity = Sum(Signed', Of(filled, s)')
        BY DEF Balanced
      <3> DEFINE S == Of(filled, s)
                 f == Signed
                 f2 == Signed'
      <3>1. Of(filled, s)' = S /\ positions' = positions
        BY <2>1 DEF Of, engineVars
      <3>2. IsFiniteSet(S) /\ S \subseteq filled
        BY FS_Subset DEF FillInv, FilledOnce, Of
      <3>3. \A u \in Order : result[u] \in ResultType
        BY DEF Inv, TaskType
      <3>4. \A u \in filled : f[u] \in Int /\ f[u] = f2[u]
        BY <1>1, <2>1, <3>3 DEF Signed, SignedFill, ResultType
      <3>5. positions[s].quantity = Sum(f, S)
        BY DEF FillInv, Balanced
      <3> HIDE DEF S, f, f2
      <3>6. IntOn(f, S) /\ \A u \in S : f[u] = f2[u]
        BY <3>2, <3>4 DEF IntOn
      <3>7. Sum(f, S) = Sum(f2, S)
        BY <3>2, <3>6, SumEqual
      <3> QED BY <3>1, <3>5, <3>7 DEF f2
    <2> QED BY <2>2, <2>3 DEF FillInv
  <1>3. ASSUME NEW o \in Order, NEW ok \in BOOLEAN, NEW reached \in BOOLEAN,
               Acknowledge(o, ok, reached) \/ Report(o, ok, reached)
        PROVE FillInv'
    <2>1. /\ UNCHANGED <<engineVars, request, result>>
          /\ phase[o] \in {"ack", "report"}
          /\ phase' = [phase EXCEPT ![o] = IF ok THEN (IF phase[o] = "ack" THEN "execute" ELSE "done")
                                           ELSE "failed"]
      BY <1>3 DEF Acknowledge, Report, Send, Sent
    <2>2. \A u \in filled : phase'[u] \in {"report", "done", "failed"}
      BY <1>1, <2>1 DEF Inv, TaskType
    <2> QED BY <2>1, <2>2, QuietFills
  <1>4. ASSUME NEW s \in Symbol, NEW b \in Book, UpdateMarketData(s, b) PROVE FillInv'
    <2>1. UNCHANGED <<engineVars, request, result, phase>>
      BY <1>4 DEF UpdateMarketData, taskVars
    <2> QED BY <1>1, <2>1, QuietFills
  <1>5. CASE Restart \/ UNCHANGED vars
    <2>1. UNCHANGED <<engineVars, request, result, phase>>
      BY <1>5 DEF Restart, vars, taskVars
    <2> QED BY <1>1, <2>1, QuietFills
  <1>6. CASE Crash
    <2>1. /\ filled' = {} /\ positions' = [s \in Symbol |-> Flat]
          /\ lot' = [s \in Symbol |-> {}]
      BY <1>6 DEF Crash
    <2>2. FilledOnce'
      BY <2>1, FS_EmptySet DEF FilledOnce
    <2>3. Balanced'
      BY <2>1, SumEmpty DEF Balanced, Of, Flat
    <2>4. Paid'
      <3>1. Flat.quantity = 0
        BY DEF Flat
      <3> QED BY <2>1, <3>1 DEF Paid, PaidFor
    <2> QED BY <2>2, <2>3, <2>4 DEF FillInv
  <1> QED BY <1>2, <1>3, <1>4, <1>5, <1>6

\* Positions and averages hold throughout.
LEMMA FillsInvariant == Spec => [](Inv /\ FillInv)
  <1>1. Init => FillInv
    <2> SUFFICES ASSUME Init PROVE FillInv
      OBVIOUS
    <2>1. FilledOnce
      BY FS_EmptySet DEF Init, FilledOnce
    <2>2. Balanced
      BY SumEmpty DEF Init, Balanced, Of, Flat
    <2>3. Paid
      BY DEF Init, Paid, PaidFor, Flat
    <2> QED BY <2>1, <2>2, <2>3 DEF FillInv
  <1>2. Inv /\ FillInv /\ [Next]_vars => FillInv'
    BY ExecuteFills, OtherFills DEF Next, Task
  <1> QED BY <1>1, <1>2, InitInv, NextInv, PTL DEF Spec

\* The position of a symbol is what its reports say was bought and sold since
\* the process started, through zero and back (paper_trading.rs:228-255).
THEOREM PositionsAreFills == Spec => []PositionIsFills
  <1>1. Inv /\ FillInv => PositionIsFills
    <2> SUFFICES ASSUME Inv, FillInv, NEW s \in Symbol
                 PROVE positions[s].quantity = MapThenSumSet(SignedFill, Of(filled, s))
      BY DEF PositionIsFills
    <2> DEFINE S == Of(filled, s)
               f == Signed
               step(g) == [X \in SUBSET S |-> IF X = {} THEN 0
                                              ELSE SignedFill(CHOOSE u \in X : TRUE)
                                                     + g[X \ {CHOOSE u \in X : TRUE}]]
               h == CHOOSE g : g = step(g)
    <2>1. IsFiniteSet(S) /\ S \subseteq Order
      BY FS_Subset DEF Inv, EngineType, FillInv, FilledOnce, Of
    <2>2. \A u \in S : f[u] = SignedFill(u) /\ f[u] \in Int
      <3>1. \A u \in Order : result[u] \in ResultType
        BY DEF Inv, TaskType
      <3> QED BY <2>1, <3>1 DEF Signed, SignedFill, ResultType
    <2>3. MapThenSumSet(SignedFill, S) = h[S]
      BY DEF MapThenSumSet, MapThenFoldSet
    <2> HIDE DEF f, S
    <2>4. \A g : g = step(g) <=> Sums(g, f, S)
      <3>1. \A X \in SUBSET S : X # {} => (CHOOSE u \in X : TRUE) \in S
        OBVIOUS
      <3>2. \A X \in SUBSET S : X # {} => SignedFill(CHOOSE u \in X : TRUE) = f[CHOOSE u \in X : TRUE]
        BY <2>2, <3>1
      <3> QED BY <3>2 DEF Sums, Picked
    <2>5. PICK g \in [SUBSET S -> Int] : Sums(g, f, S) /\ Sum(f, S) = g[S] /\ \A k : Sums(k, f, S) => k = g
      BY <2>1, <2>2, SumIs DEF IntOn
    <2>6. h = g
      <3>1. h = step(h)
        <4>1. g = step(g)
          BY <2>4, <2>5
        <4> HIDE DEF step
        <4> QED BY <4>1
      <3> HIDE DEF h, step
      <3> QED BY <2>4, <2>5, <3>1
    <2>7. positions[s].quantity = Sum(f, S)
      BY DEF FillInv, Balanced, f, S
    <2> HIDE DEF h
    <2> QED BY <2>3, <2>5, <2>6, <2>7 DEF S
  <1> QED BY <1>1, FillsInvariant, PTL

\* The average price of a position that was never short lies between the least
\* and the most paid for it, partial sales included (paper_trading.rs:239-252).
THEOREM AveragesArePaid == Spec => []AvgBetweenPaid
  <1>1. Inv /\ FillInv => AvgBetweenPaid
    <2> SUFFICES ASSUME Inv, FillInv, NEW s \in Symbol, positions[s].quantity > 0, ~shorted[s]
                 PROVE Between(positions[s].avg, {result[o].price : o \in lot[s]})
      BY DEF AvgBetweenPaid
    <2>1. Bounds(positions[s], lot[s], result)
      BY DEF FillInv, Paid, PaidFor
    <2>2. PICK least, most \in lot[s] :
             /\ \A o \in lot[s] : result[least].price <= result[o].price /\ result[o].price <= result[most].price
             /\ positions[s].avg[1] >= positions[s].avg[2] * result[least].price
             /\ positions[s].avg[1] <= positions[s].avg[2] * result[most].price
      BY <2>1 DEF Bounds
    <2> DEFINE P == {result[o].price : o \in lot[s]}
    <2>3. \A x \in P : x \in Int
      BY DEF Inv, EngineType, TaskType, ResultType
    <2>4. Min(P) = result[least].price
      <3>1. result[least].price \in P /\ \A x \in P : result[least].price <= x
        BY <2>2
      <3> HIDE DEF P
      <3> QED BY <2>3, <3>1 DEF Min
    <2>5. Max(P) = result[most].price
      <3>1. result[most].price \in P /\ \A x \in P : result[most].price >= x
        BY <2>2, <2>3
      <3> HIDE DEF P
      <3> QED BY <2>3, <3>1 DEF Max
    <2> QED BY <2>2, <2>4, <2>5 DEF Between
  <1> QED BY <1>1, FillsInvariant, PTL
=============================================================================
