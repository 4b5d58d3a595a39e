-------------------------- MODULE MonitoringProofs --------------------------
(***************************************************************************)
(* Proofs about Monitoring, for any number of orders, any outcomes and any *)
(* capacities.                                                             *)
(***************************************************************************)
EXTENDS Monitoring, Induction, SequenceTheorems

----------------------------------------------------------------------------
(* The operators on the collections.                                        *)

\* The lesser of two numbers.
LEMMA Lesser ==
    ASSUME NEW a \in Int, NEW b \in Int
    PROVE Min({a, b}) = IF a <= b THEN a ELSE b
  <1> DEFINE m == IF a <= b THEN a ELSE b
             Least(x) == \A y \in {a, b} : x <= y
  <1>1. m \in {a, b} /\ Least(m)
    OBVIOUS
  <1>2. \A x \in {a, b} : Least(x) => x = m
    OBVIOUS
  <1> QED BY <1>1, <1>2 DEF Min

\* A sequence without its first element.
LEMMA FirstOff ==
    ASSUME NEW S, NEW q \in Seq(S), Len(q) >= 1
    PROVE /\ q[1] \in S
          /\ Tail(q) \in Seq(S) /\ Len(Tail(q)) = Len(q) - 1
          /\ \A i \in 1..(Len(q) - 1) : Tail(q)[i] = q[i + 1]
          /\ RemoveAt(q, 1) = Tail(q)
  <1>1. q # <<>> /\ Len(q) \in Nat
    OBVIOUS
  <1>2. Tail(q) \in Seq(S) /\ Tail(q) = SubSeq(q, 2, Len(q))
    BY <1>1, TailIsSubSeq, HeadTailProperties
  <1>3. SubSeq(q, 1, 1 - 1) = <<>>
    BY SubSeqEmpty
  <1>4. RemoveAt(q, 1) = <<>> \o Tail(q)
    BY <1>2, <1>3 DEF RemoveAt
  <1>5. <<>> \o Tail(q) = Tail(q)
    BY <1>2
  <1> QED BY <1>1, <1>2, <1>4, <1>5, HeadTailProperties

\* A bounded collection has taken a new element at its end, and lost its first
\* one if it was full: each of the others was there before.
TakenIn(old, e, max, new) ==
    /\ Len(new) = IF Len(old) = max THEN max ELSE Len(old) + 1
    /\ new[Len(new)] = e
    /\ \E d \in {0, 1} :
         /\ d = 1 <=> Len(old) = max
         /\ \A i \in 1..Len(new) :
              i # Len(new) => new[i] = old[i + d] /\ i + d \in 1..Len(old)

\* What Pushed does.
LEMMA PushedExact ==
    ASSUME NEW S, NEW seq \in Seq(S), NEW e \in S, NEW max \in Nat \ {0}, Len(seq) <= max
    PROVE Pushed(seq, e, max) \in Seq(S) /\ TakenIn(seq, e, max, Pushed(seq, e, max))
  <1> DEFINE a == Append(seq, e)
             L == Len(seq)
             out == Pushed(seq, e, max)
  <1>1. /\ a \in Seq(S) /\ Len(a) = L + 1 /\ a[L + 1] = e /\ L \in Nat
        /\ \A i \in 1..L : a[i] = seq[i]
    OBVIOUS
  <1>2. CASE L = max
    <2>1. out = Tail(a)
      BY <1>2 DEF Pushed
    <2>2. /\ Tail(a) \in Seq(S) /\ Len(Tail(a)) = L
          /\ \A i \in 1..L : Tail(a)[i] = a[i + 1]
      <3> HIDE DEF a
      <3> QED BY <1>1, FirstOff
    <2> HIDE DEF a, out, L
    <2>3. out \in Seq(S) /\ Len(out) = L /\ out[L] = e
      BY <1>1, <1>2, <2>1, <2>2
    <2>4. \A i \in 1..L : i # L => out[i] = seq[i + 1] /\ i + 1 \in 1..L
      BY <1>1, <2>1, <2>2
    <2> QED BY <1>2, <2>3, <2>4 DEF TakenIn, L, out
  <1>3. CASE L < max
    <2>1. out = a
      BY <1>1, <1>3 DEF Pushed
    <2> HIDE DEF a, out, L
    <2>2. \A i \in 1..(L + 1) : i # L + 1 => out[i] = seq[i + 0] /\ i + 0 \in 1..L
      BY <1>1, <2>1
    <2> QED BY <1>1, <1>3, <2>1, <2>2 DEF TakenIn, L, out
  <1> QED BY <1>1, <1>2, <1>3

----------------------------------------------------------------------------
(* Types.                                                                   *)

Status == Final \cup {"Acknowledged", "PENDING"}
Rep   == [id : OrderId, status : Status]
Trade == [id : OrderId, known : BOOLEAN]

MonType ==
    /\ published \in 0..Orders /\ fills \in Nat
    /\ reported \in [OrderId -> Seq(Status)]
    /\ orderQueue \in Seq(OrderId) /\ reportQueue \in Seq(Rep)
    /\ orderTask \in {Idle} \cup [step : {"push"}, id : OrderId]
    /\ reportTask \in {Idle} \cup [step : {"status", "trade"}, id : OrderId,
                                   status : Status, found : BOOLEAN]
    /\ recentOrders \in Seq(Rep) /\ Len(recentOrders) <= MaxRecent
    /\ recentTrades \in Seq(Trade) /\ filled \in Seq(OrderId)

\* The report task is between two of its steps.
InHand == reportTask.step # "recv"

\* The constants, as the proofs use them.
LEMMA Constants ==
    /\ Orders \in Nat /\ MaxRecent \in Nat \ {0} /\ MaxTrades \in Nat \ {0}
    /\ \A status \in Final : status \notin {"PENDING", "none"}
  <1>1. ASSUME NEW status \in Final PROVE status \notin {"PENDING", "none"}
    <2>1. status \in {"Filled", "PartiallyFilled", "Rejected", "Acknowledged"}
      BY ConstantsAssumption
    <2> QED BY <2>1
  <1> QED BY <1>1, ConstantsAssumption

\* The numbers of what is in a collection.
LEMMA Ids ==
    ASSUME MonType
    PROVE /\ \A i \in 1..Len(orderQueue) : orderQueue[i] \in OrderId /\ orderQueue[i] \in Nat
          /\ \A k \in 1..Len(recentOrders) :
               recentOrders[k].id \in OrderId /\ recentOrders[k].id \in Nat
          /\ \A t \in 1..Len(filled) : filled[t] \in OrderId
  <1>1. /\ \A i \in 1..Len(orderQueue) : orderQueue[i] \in OrderId
        /\ \A k \in 1..Len(recentOrders) : recentOrders[k] \in Rep
        /\ \A t \in 1..Len(filled) : filled[t] \in OrderId
    BY DEF MonType
  <1>2. \A o \in OrderId : o \in Nat
    BY DEF OrderId
  <1> QED BY <1>1, <1>2 DEF Rep

\* What showing an order does to the collection.
LEMMA Showing ==
    ASSUME MonType, ShowOrder
    PROVE LET e == [id |-> orderTask.id, status |-> "PENDING"] IN
          /\ e \in Rep /\ TakenIn(recentOrders, e, MaxRecent, recentOrders')
          /\ recentOrders' \in Seq(Rep) /\ Len(recentOrders') <= MaxRecent
  <1> DEFINE e == [id |-> orderTask.id, status |-> "PENDING"]
  <1>1. e \in Rep /\ recentOrders' = Pushed(recentOrders, e, MaxRecent)
    BY DEF ShowOrder, MonType, Idle, Rep, Status
  <1>2. /\ recentOrders \in Seq(Rep) /\ Len(recentOrders) \in Nat /\ Len(recentOrders) <= MaxRecent
        /\ MaxRecent \in Nat \ {0}
    BY Constants DEF MonType
  <1> HIDE DEF e
  <1>3. /\ Pushed(recentOrders, e, MaxRecent) \in Seq(Rep)
        /\ TakenIn(recentOrders, e, MaxRecent, Pushed(recentOrders, e, MaxRecent))
    <2>1. e \in Rep
      BY <1>1
    <2> QED BY <1>2, <2>1, PushedExact
  <1>4. TakenIn(recentOrders, e, MaxRecent, recentOrders') /\ recentOrders' \in Seq(Rep)
    BY <1>1, <1>3
  <1>5. Len(recentOrders') <= MaxRecent
    BY <1>2, <1>4 DEF TakenIn
  <1> QED BY <1>1, <1>4, <1>5 DEF e

\* What a report adds, if it arrives.
LEMMA Reporting ==
    ASSUME MonType, NEW o \in OrderId, NEW status \in Status, Report(o, status)
    PROVE LET q == reportQueue' n == Len(reportQueue) IN
          /\ q \in Seq(Rep) /\ n \in Nat /\ Len(q) \in {n, n + 1}
          /\ Len(q) = n + 1 => q[n + 1] = [id |-> o, status |-> status]
          /\ \A i \in 1..n : q[i] = reportQueue[i] /\ q[i] \in Rep
          /\ reported' \in [OrderId -> Seq(Status)]
          /\ reported'[o] = Append(reported[o], status)
          /\ \A p \in OrderId : p # o => reported'[p] = reported[p]
          /\ UNCHANGED <<published, orderQueue, orderTask, reportTask, sharedVars, fills, filled>>
  <1> DEFINE r == [id |-> o, status |-> status]
             n == Len(reportQueue)
  <1>1. /\ reportQueue' \in {reportQueue, Append(reportQueue, r)} /\ r \in Rep
        /\ reportQueue \in Seq(Rep)
        /\ reported' = [reported EXCEPT ![o] = Append(@, status)]
        /\ reported \in [OrderId -> Seq(Status)]
        /\ UNCHANGED <<published, orderQueue, orderTask, reportTask, sharedVars, fills, filled>>
    BY DEF Report, MonType, Rep
  <1>2. /\ n \in Nat /\ reportQueue' \in Seq(Rep) /\ Len(reportQueue') \in {n, n + 1}
        /\ Len(reportQueue') = n + 1 => reportQueue'[n + 1] = r
        /\ \A i \in 1..n : reportQueue'[i] = reportQueue[i] /\ reportQueue[i] \in Rep
    <2> HIDE DEF r
    <2>1. CASE reportQueue' = reportQueue
      BY <1>1, <2>1
    <2>2. CASE reportQueue' = Append(reportQueue, r)
      BY <1>1, <2>2
    <2> QED BY <1>1, <2>1, <2>2
  <1>3. Append(reported[o], status) \in Seq(Status)
    BY <1>1
  <1> QED BY <1>1, <1>2, <1>3

----------------------------------------------------------------------------
(* The inductive invariant.                                                 *)

\* One of the reports of its order.
Genuine(r) ==
    \/ r.status = "Acknowledged" /\ Len(reported[r.id]) >= 1
    \/ r.status = reported[r.id][2] /\ Len(reported[r.id]) = 2

\* Not two fills of one order.
Distinct(r, s) == ~(r.id = s.id /\ r.status = "Filled" /\ s.status = "Filled")

\* After r, which is not an acknowledgement, s says nothing else of the order.
Settles(r, s) ==
    (r.id = s.id /\ r.status \notin {"PENDING", "Acknowledged"}) => s.status = r.status

Filled(o) == Len(reported[o]) = 2 /\ reported[o][2] = "Filled"

\* What is under way was reported.
Reports ==
    /\ \A o \in OrderId : /\ Len(reported[o]) \in 0..2
                          /\ Len(reported[o]) = 2 => reported[o][2] \in Final
    /\ \A i \in 1..Len(reportQueue) : Genuine(reportQueue[i])
    /\ InHand => Genuine(reportTask)
    /\ reportTask.step = "trade" => reportTask.status = "Filled"

\* A fill is under way or has been taken, once.
FilledOnce ==
    /\ \A i, j \in 1..Len(reportQueue) : i # j => Distinct(reportQueue[i], reportQueue[j])
    /\ \A t \in 1..Len(filled) :
         /\ Filled(filled[t])
         /\ \A i \in 1..Len(reportQueue) :
              reportQueue[i].status = "Filled" => reportQueue[i].id # filled[t]
         /\ \A u \in 1..Len(filled) : t # u => filled[t] # filled[u]

\* The fill in hand, if it is one, is the last taken.
Taking == IF InHand /\ reportTask.status = "Filled" THEN 1 ELSE 0
Done == Len(filled) - Taking
Shown == IF MaxTrades <= Done THEN MaxTrades ELSE Done

\* The trades are the last of the fills taken before.
TradesTaken ==
    /\ fills = Len(filled) /\ Done >= 0
    /\ Taking = 1 => filled[Len(filled)] = reportTask.id
    /\ Len(recentTrades) = Shown
    /\ \A i \in 1..Shown : recentTrades[i].id = filled[Done - Shown + i]

TradesInv == MonType /\ Reports /\ FilledOnce /\ TradesTaken

\* Whoever reports has not yet reported more than an acknowledgement.
LEMMA OpenOrder ==
    ASSUME TradesInv, NEW o \in OrderId, Acknowledge(o) \/ Conclude(o)
    PROVE /\ \E status \in Status :
               /\ Report(o, status)
               /\ \/ Len(reported[o]) = 0 /\ status = "Acknowledged"
                  \/ Len(reported[o]) = 1 /\ status \in Final
          /\ \A r : r.id = o /\ Genuine(r) => r.status = "Acknowledged"
  <1>1. reported[o] \in Seq(Status) /\ Len(reported[o]) \in 0..2
    BY DEF TradesInv, MonType, Reports
  <1>2. CASE Acknowledge(o)
    <2>1. Len(reported[o]) = 0 /\ Report(o, "Acknowledged")
      BY <1>2 DEF Acknowledge
    <2> QED BY <2>1 DEF Genuine, Status
  <1>3. CASE Conclude(o)
    <2>1. Len(reported[o]) = 1
      BY <1>3 DEF Conclude
    <2>2. PICK status \in Final : Report(o, status)
      BY <1>3 DEF Conclude
    <2>3. status \in Status
      BY DEF Status
    <2> QED BY <2>1, <2>2, <2>3 DEF Genuine
  <1> QED BY <1>2, <1>3

\* A report leaves what was genuine so, and is.
LEMMA StaysGenuine ==
    ASSUME TradesInv, NEW o \in OrderId, Acknowledge(o) \/ Conclude(o)
    PROVE /\ \A p \in OrderId : /\ Len(reported'[p]) \in 0..2
                                /\ Len(reported'[p]) = 2 => reported'[p][2] \in Final
                                /\ Filled(p) => Filled(p)' /\ p # o
          /\ \A r : r.id \in OrderId /\ Genuine(r) =>
                      \/ r.status = "Acknowledged" /\ Len(reported'[r.id]) >= 1
                      \/ r.status = reported'[r.id][2] /\ Len(reported'[r.id]) = 2
          /\ LET r == reportQueue'[Len(reportQueue) + 1] IN
             Len(reportQueue') = Len(reportQueue) + 1 =>
               \/ r.status = "Acknowledged" /\ Len(reported'[r.id]) >= 1
               \/ r.status = reported'[r.id][2] /\ Len(reported'[r.id]) = 2
  <1>1. PICK status \in Status :
          /\ Report(o, status)
          /\ \/ Len(reported[o]) = 0 /\ status = "Acknowledged"
             \/ Len(reported[o]) = 1 /\ status \in Final
    BY OpenOrder
  <1>2. /\ Len(reportQueue') = Len(reportQueue) + 1 =>
             reportQueue'[Len(reportQueue) + 1] = [id |-> o, status |-> status]
        /\ reported'[o] = Append(reported[o], status)
        /\ \A p \in OrderId : p # o => reported'[p] = reported[p]
    BY <1>1, Reporting DEF TradesInv
  <1>3. reported[o] \in Seq(Status) /\ \A p \in OrderId : Len(reported[p]) \in 0..2
    BY DEF TradesInv, MonType, Reports
  <1>4. /\ Len(reported'[o]) = Len(reported[o]) + 1
        /\ Len(reported[o]) = 1 => reported'[o][2] = status
    BY <1>1, <1>2, <1>3
  <1>5. ASSUME NEW p \in OrderId
        PROVE /\ Len(reported'[p]) \in 0..2
              /\ Len(reported'[p]) = 2 => reported'[p][2] \in Final
    <2>1. CASE p # o
      BY <1>2, <2>1 DEF TradesInv, Reports
    <2>2. CASE p = o
      <3>1. Len(reported'[o]) = Len(reported[o]) + 1 /\ Len(reported[o]) \in {0, 1}
        BY <1>1, <1>4
      <3>2. Len(reported[o]) = 1 => status \in Final /\ reported'[o][2] = status
        BY <1>1, <1>4
      <3>3. Len(reported'[o]) \in 0..2 /\ (Len(reported'[o]) = 2 => Len(reported[o]) = 1)
        <4>1. CASE Len(reported[o]) = 0
          BY <3>1, <4>1
        <4>2. CASE Len(reported[o]) = 1
          BY <3>1, <4>2
        <4> QED BY <3>1, <4>1, <4>2
      <3> QED BY <2>2, <3>2, <3>3
    <2> QED BY <2>1, <2>2
  <1>6. \A p \in OrderId : Filled(p) => Filled(p)' /\ p # o
    BY <1>1, <1>2 DEF Filled
  <1>7. ASSUME NEW r, r.id \in OrderId, Genuine(r)
        PROVE \/ r.status = "Acknowledged" /\ Len(reported'[r.id]) >= 1
              \/ r.status = reported'[r.id][2] /\ Len(reported'[r.id]) = 2
    BY <1>1, <1>2, <1>3, <1>4, <1>7 DEF Genuine
  <1>8. LET r == reportQueue'[Len(reportQueue) + 1] IN
             Len(reportQueue') = Len(reportQueue) + 1 =>
               \/ r.status = "Acknowledged" /\ Len(reported'[r.id]) >= 1
               \/ r.status = reported'[r.id][2] /\ Len(reported'[r.id]) = 2
    <2>1. Len(reportQueue') = Len(reportQueue) + 1 =>
            /\ reportQueue'[Len(reportQueue) + 1].id = o
            /\ reportQueue'[Len(reportQueue) + 1].status = status
      BY <1>2
    <2>2. \/ status = "Acknowledged" /\ Len(reported'[o]) >= 1
          \/ status = reported'[o][2] /\ Len(reported'[o]) = 2
      <3>1. CASE Len(reported[o]) = 0 /\ status = "Acknowledged"
        <4>1. Len(reported'[o]) = 1
          BY <1>4, <3>1
        <4> QED BY <3>1, <4>1
      <3>2. CASE Len(reported[o]) = 1
        <4>1. Len(reported'[o]) = 2
          BY <1>4, <3>2
        <4>2. reported'[o][2] = status
          BY <1>4, <3>2
        <4> QED BY <4>1, <4>2
      <3> QED BY <1>1, <3>1, <3>2
    <2> QED BY <2>1, <2>2
  <1> QED BY <1>5, <1>6, <1>7, <1>8

\* An order is acknowledged or its outcome reported.
LEMMA ReportTrades ==
    ASSUME TradesInv, NEW o \in OrderId, Acknowledge(o) \/ Conclude(o)
    PROVE TradesInv'
  <1>1. PICK status \in Status : Report(o, status)
    BY OpenOrder
  <1> DEFINE n == Len(reportQueue)
             N == Len(reportQueue')
  <1>2. /\ reportQueue' \in Seq(Rep) /\ n \in Nat /\ N \in {n, n + 1}
        /\ N = n + 1 => reportQueue'[n + 1] = [id |-> o, status |-> status]
        /\ \A i \in 1..n : reportQueue'[i] = reportQueue[i] /\ reportQueue'[i] \in Rep
        /\ reported' \in [OrderId -> Seq(Status)]
        /\ UNCHANGED <<published, orderQueue, orderTask, reportTask, sharedVars, fills, filled>>
    BY <1>1, Reporting DEF TradesInv
  <1>3. MonType'
    BY <1>2 DEF TradesInv, MonType, sharedVars
  <1>4. \A i \in 1..n : reportQueue[i].id \in OrderId
    BY <1>2 DEF Rep
  <1>5. InHand => reportTask.id \in OrderId
    BY DEF TradesInv, MonType, Idle, InHand
  <1>6. \A i \in 1..n : Genuine(reportQueue[i])
    BY DEF TradesInv, Reports
  <1> HIDE DEF n, N
  <1>7. Reports'
    <2>1. ASSUME NEW i \in 1..N
          PROVE LET r == reportQueue'[i] IN
                \/ r.status = "Acknowledged" /\ Len(reported'[r.id]) >= 1
                \/ r.status = reported'[r.id][2] /\ Len(reported'[r.id]) = 2
      <3>1. CASE i = n + 1
        BY <1>2, <3>1, StaysGenuine DEF n, N
      <3>2. CASE i \in 1..n
        BY <1>2, <1>4, <1>6, <3>2, StaysGenuine
      <3> QED BY <1>2, <3>1, <3>2
    <2>2. InHand => \/ reportTask.status = "Acknowledged" /\ Len(reported'[reportTask.id]) >= 1
                    \/ reportTask.status = reported'[reportTask.id][2] /\ Len(reported'[reportTask.id]) = 2
      BY <1>5, StaysGenuine DEF TradesInv, Reports
    <2>3. \A p \in OrderId : /\ Len(reported'[p]) \in 0..2
                             /\ Len(reported'[p]) = 2 => reported'[p][2] \in Final
      BY StaysGenuine
    <2> QED BY <1>2, <2>1, <2>2, <2>3 DEF TradesInv, Reports, Genuine, InHand, N
  \* What was under way of this order is not a fill.
  <1>8. \A r : r.id = o /\ Genuine(r) => r.status # "Filled"
    BY OpenOrder
  <1>9. \A i \in 1..n : reportQueue[i].id = o => reportQueue[i].status # "Filled"
    BY <1>6, <1>8
  <1>10. \A u \in 1..Len(filled) : filled[u] \in OrderId
    BY Ids DEF TradesInv
  <1>11. FilledOnce'
    <2>1. ASSUME NEW i \in 1..N, NEW j \in 1..N, i # j
          PROVE Distinct(reportQueue'[i], reportQueue'[j])
      <3>1. CASE i \in 1..n /\ j \in 1..n
        BY <1>2, <2>1, <3>1 DEF TradesInv, FilledOnce, n
      <3>2. ASSUME NEW k \in 1..n, NEW l \in 1..N, l = n + 1
            PROVE /\ Distinct(reportQueue'[k], reportQueue'[l])
                  /\ Distinct(reportQueue'[l], reportQueue'[k])
        <4>0. N = n + 1 /\ reportQueue'[k] = reportQueue[k]
          BY <1>2, <3>2
        <4>1. reportQueue'[l].id = o /\ reportQueue'[k] = reportQueue[k]
          BY <1>2, <3>2, <4>0
        <4>2. reportQueue[k].id = o => reportQueue[k].status # "Filled"
          BY <1>9
        <4> QED BY <4>1, <4>2 DEF Distinct
      <3>3. i \in 1..n \/ i = n + 1
        BY <1>2
      <3>4. j \in 1..n \/ j = n + 1
        BY <1>2
      <3> QED BY <2>1, <3>1, <3>2, <3>3, <3>4
    <2>2. ASSUME NEW u \in 1..Len(filled), NEW i \in 1..N,
                 reportQueue'[i].status = "Filled"
          PROVE reportQueue'[i].id # filled[u]
      <3>1. Filled(filled[u])
        BY DEF TradesInv, FilledOnce
      <3>2. filled[u] # o
        BY <1>10, <3>1, StaysGenuine
      <3>3. CASE i \in 1..n
        BY <1>2, <2>2, <3>3 DEF TradesInv, FilledOnce, n
      <3>4. CASE i = n + 1
        BY <1>2, <3>2, <3>4
      <3> QED BY <1>2, <3>3, <3>4
    <2>3. \A u \in 1..Len(filled) : Len(reported'[filled[u]]) = 2
                                    /\ reported'[filled[u]][2] = "Filled"
      BY <1>10, StaysGenuine DEF TradesInv, FilledOnce, Filled
    <2> QED BY <1>2, <2>1, <2>2, <2>3 DEF TradesInv, FilledOnce, Distinct, Filled, N
  <1>12. TradesTaken'
    BY <1>2 DEF TradesInv, TradesTaken, Taking, Done, Shown, InHand, sharedVars
  <1> QED BY <1>3, <1>7, <1>11, <1>12 DEF TradesInv

\* A report is taken from the queue.
LEMMA LookUpTrades == TradesInv /\ LookUpOrder => TradesInv'
  <1> SUFFICES ASSUME TradesInv, LookUpOrder PROVE TradesInv'
    OBVIOUS
  <1> DEFINE n == Len(reportQueue)
             r == reportQueue[1]
             M == Len(filled)
             isFill == r.status = "Filled"
  <1>1. /\ n \in Nat /\ reportQueue \in Seq(Rep) /\ fills \in Nat
        /\ M \in Nat /\ filled \in Seq(OrderId)
    BY DEF TradesInv, MonType
  <1>2. /\ n >= 1 /\ reportTask.step = "recv" /\ reportQueue' = RemoveAt(reportQueue, 1)
        /\ fills' = fills + (IF isFill THEN 1 ELSE 0)
        /\ filled' = IF isFill THEN Append(filled, r.id) ELSE filled
        /\ reportTask' = [step |-> "status", id |-> r.id, status |-> r.status,
                          found |-> r.id \in ordersById]
        /\ UNCHANGED <<published, reported, orderQueue, orderTask, sharedVars>>
    BY <1>1 DEF LookUpOrder, NextReport
  <1>3. /\ r \in Rep /\ reportQueue' \in Seq(Rep) /\ Len(reportQueue') = n - 1
        /\ \A i \in 1..(n - 1) : reportQueue'[i] = reportQueue[i + 1]
    BY <1>1, <1>2, FirstOff
  <1>4. /\ r.id \in OrderId /\ r.status \in Status
        /\ reportTask'.step = "status" /\ reportTask'.id = r.id /\ reportTask'.status = r.status
        /\ reportTask' \in [step : {"status", "trade"}, id : OrderId, status : Status, found : BOOLEAN]
    BY <1>2, <1>3 DEF Rep
  \* The fills taken, with this one.
  <1>5. /\ filled' \in Seq(OrderId) /\ Len(filled') = M + (IF isFill THEN 1 ELSE 0)
        /\ \A t \in 1..M : filled'[t] = filled[t]
        /\ isFill => filled'[M + 1] = r.id
    <2> HIDE DEF r
    <2>1. CASE isFill
      BY <1>1, <1>2, <1>4, <2>1
    <2>2. CASE ~isFill
      BY <1>1, <1>2, <2>2
    <2> QED BY <2>1, <2>2
  <1>6. MonType'
    BY <1>1, <1>2, <1>3, <1>4, <1>5 DEF TradesInv, MonType, sharedVars
  <1>7. 1 \in 1..n /\ \A i \in 1..(n - 1) : i + 1 \in 1..n /\ i + 1 # 1
    BY <1>1, <1>2
  <1> HIDE DEF n, M
  <1>8. Genuine(r) /\ Reports'
    <2>1. Genuine(r) /\ \A i \in 1..(n - 1) : Genuine(reportQueue'[i])
      BY <1>3, <1>7 DEF TradesInv, Reports, n
    <2> QED BY <1>2, <1>3, <1>4, <2>1 DEF TradesInv, Reports, Genuine
  <1>9. FilledOnce'
    <2>1. ASSUME NEW i \in 1..(n - 1), NEW j \in 1..(n - 1), i # j
          PROVE Distinct(reportQueue'[i], reportQueue'[j])
      <3>1. i + 1 # j + 1
        BY <2>1
      <3> QED BY <1>3, <1>7, <3>1 DEF TradesInv, FilledOnce, n
    <2>2. \A i \in 1..(n - 1) : Distinct(r, reportQueue'[i])
      BY <1>3, <1>7 DEF TradesInv, FilledOnce, n
    <2>3. \A t \in 1..Len(filled') : t \in 1..M \/ (t = M + 1 /\ isFill)
      BY <1>1, <1>5
    \* The fills there were, and the new one.
    <2>4. \A t \in 1..M :
            /\ Filled(filled'[t]) /\ (isFill => filled'[t] # r.id)
            /\ \A i \in 1..(n - 1) :
                 reportQueue'[i].status = "Filled" => reportQueue'[i].id # filled'[t]
            /\ \A u \in 1..M : t # u => filled'[t] # filled'[u]
      <3> SUFFICES ASSUME NEW t \in 1..M
                   PROVE /\ Filled(filled[t]) /\ (isFill => filled[t] # r.id)
                         /\ \A i \in 1..(n - 1) :
                              reportQueue'[i].status = "Filled" => reportQueue'[i].id # filled[t]
                         /\ \A u \in 1..M : t # u => filled[t] # filled[u]
        BY <1>5
      <3>1. /\ Filled(filled[t])
            /\ \A i \in 1..n : reportQueue[i].status = "Filled" => reportQueue[i].id # filled[t]
            /\ \A u \in 1..M : t # u => filled[t] # filled[u]
        BY DEF TradesInv, FilledOnce, n, M
      <3>2. isFill => filled[t] # r.id
        BY <1>7, <3>1
      <3>3. \A i \in 1..(n - 1) :
              reportQueue'[i].status = "Filled" => reportQueue'[i].id # filled[t]
        BY <1>3, <1>7, <3>1
      <3> QED BY <3>1, <3>2, <3>3
    <2>5. isFill => /\ Filled(r.id)
                    /\ \A i \in 1..(n - 1) :
                         reportQueue'[i].status = "Filled" => reportQueue'[i].id # r.id
      BY <1>8, <2>2 DEF Genuine, Filled, Distinct
    <2> HIDE DEF r, isFill
    <2>6. \A t \in 1..Len(filled') :
            /\ Filled(filled'[t])
            /\ \A i \in 1..(n - 1) :
                 reportQueue'[i].status = "Filled" => reportQueue'[i].id # filled'[t]
      BY <1>5, <2>3, <2>4, <2>5
    <2>7. \A t, u \in 1..Len(filled') : t # u => filled'[t] # filled'[u]
      BY <1>5, <2>3, <2>4
    <2> QED BY <1>2, <1>3, <2>1, <2>6, <2>7 DEF FilledOnce, Distinct, Filled
  <1>10. TradesTaken'
    <2>1. /\ Done = M /\ fills = M /\ Len(recentTrades) = Shown
          /\ \A i \in 1..Shown : recentTrades[i].id = filled[M - Shown + i]
          /\ Shown = IF MaxTrades <= M THEN MaxTrades ELSE M
      BY <1>1, <1>2 DEF TradesInv, TradesTaken, Done, Taking, InHand, Shown, M
    <2>2. Taking' = (IF isFill THEN 1 ELSE 0) /\ Len(filled') - Taking' = M
      BY <1>1, <1>4, <1>5 DEF Taking, InHand
    <2>3. Done' = M /\ Shown' = Shown /\ Shown \in Nat /\ Shown <= M
      BY <1>1, <2>1, <2>2, Constants DEF Done, Shown
    <2>4. \A i \in 1..Shown : M - Shown + i \in 1..M
      BY <1>1, <2>3
    <2>5. \A i \in 1..Shown : recentTrades[i].id = filled'[M - Shown + i]
      BY <1>5, <2>1, <2>4
    <2>6. fills' = Len(filled') /\ (Taking' = 1 => filled'[Len(filled')] = reportTask'.id)
      BY <1>1, <1>2, <1>4, <1>5, <2>1, <2>2
    <2>7. recentTrades' = recentTrades
      BY <1>2 DEF sharedVars
    <2> QED BY <1>1, <2>1, <2>3, <2>5, <2>6, <2>7 DEF TradesTaken
  <1> QED BY <1>6, <1>8, <1>9, <1>10 DEF TradesInv

\* The collection of orders with a report's status entered.
LEMMA UpdatedExact ==
    ASSUME NEW events \in Seq(Rep), NEW r, r.status \in Status
    PROVE /\ Updated(events, r) \in Seq(Rep) /\ Len(Updated(events, r)) = Len(events)
          /\ \A i \in 1..Len(events) :
               /\ Updated(events, r)[i].id = events[i].id
               /\ Updated(events, r)[i].status =
                    IF /\ events[i].id = r.id
                       /\ \A j \in 1..(i - 1) : events[j].id # r.id
                    THEN r.status ELSE events[i].status
  <1> DEFINE u == Updated(events, r)
             L == Len(events)
             First(i) == events[i].id = r.id /\ \A j \in 1..(i - 1) : events[j].id # r.id
  <1>1. L \in Nat /\ DOMAIN events = 1..L /\ \A i \in 1..L : events[i] \in Rep
    OBVIOUS
  <1>2. u = [i \in 1..L |-> IF First(i) THEN [events[i] EXCEPT !.status = r.status] ELSE events[i]]
    BY <1>1 DEF Updated
  <1> HIDE DEF u, First, L
  <1>3. ASSUME NEW i \in 1..L
        PROVE /\ u[i] \in Rep /\ u[i].id = events[i].id
              /\ u[i].status = IF First(i) THEN r.status ELSE events[i].status
    <2>1. events[i] \in Rep
      BY <1>1
    <2>2. CASE First(i)
      <3>1. u[i] = [events[i] EXCEPT !.status = r.status]
        BY <1>2, <2>2
      <3> QED BY <2>1, <2>2, <3>1 DEF Rep
    <2>3. CASE ~First(i)
      <3>1. u[i] = events[i]
        BY <1>2, <2>3
      <3> QED BY <2>1, <2>3, <3>1
    <2> QED BY <2>2, <2>3
  <1>4. u \in [1..L -> Rep]
    BY <1>2, <1>3
  <1>5. u \in Seq(Rep) /\ Len(u) = L
    BY <1>1, <1>4
  <1> QED BY <1>3, <1>5 DEF u, First, L

\* The report task enters a status.
LEMMA UpdateTrades == TradesInv /\ UpdateStatus => TradesInv'
  <1> SUFFICES ASSUME TradesInv, UpdateStatus PROVE TradesInv'
    OBVIOUS
  <1>1. /\ reportTask.step = "status" /\ recentOrders' = Updated(recentOrders, reportTask)
        /\ reportTask' = IF reportTask.status = "Filled" THEN [reportTask EXCEPT !.step = "trade"]
                         ELSE Idle
        /\ UNCHANGED <<published, reported, orderQueue, reportQueue, orderTask,
                       ordersById, recentTrades, fills, filled>>
    BY DEF UpdateStatus, IsTrade
  <1>2. /\ reportTask \in [step : {"status", "trade"}, id : OrderId, status : Status, found : BOOLEAN]
        /\ reportTask.status \in Status
    BY <1>1 DEF TradesInv, MonType, Idle
  <1>3. recentOrders' \in Seq(Rep) /\ Len(recentOrders') = Len(recentOrders)
    BY <1>1, <1>2, UpdatedExact DEF TradesInv, MonType
  <1>4. \/ /\ reportTask.status = "Filled" /\ reportTask'.step = "trade"
           /\ reportTask'.id = reportTask.id /\ reportTask'.status = reportTask.status
           /\ reportTask' \in [step : {"status", "trade"}, id : OrderId, status : Status, found : BOOLEAN]
        \/ reportTask.status # "Filled" /\ reportTask' = Idle /\ reportTask'.step = "recv"
    BY <1>1, <1>2 DEF Idle
  <1>5. MonType'
    BY <1>1, <1>3, <1>4 DEF TradesInv, MonType
  <1>6. Reports'
    BY <1>1, <1>4 DEF TradesInv, Reports, Genuine, InHand
  <1>7. FilledOnce'
    BY <1>1 DEF TradesInv, FilledOnce, Distinct, Filled
  <1>8. TradesTaken'
    <2>1. Taking' = Taking /\ (Taking = 1 => reportTask'.id = reportTask.id)
      BY <1>1, <1>4 DEF Taking, InHand
    <2> QED BY <1>1, <2>1 DEF TradesInv, TradesTaken, Done, Shown
  <1> QED BY <1>5, <1>6, <1>7, <1>8 DEF TradesInv

\* A fill becomes a trade.
LEMMA AddTrades == TradesInv /\ AddTrade => TradesInv'
  <1> SUFFICES ASSUME TradesInv, AddTrade PROVE TradesInv'
    OBVIOUS
  <1> DEFINE L == Len(recentTrades)
             M == Len(recentTrades')
             t == [id |-> reportTask.id, known |-> reportTask.found]
  <1>1. /\ reportTask.step = "trade" /\ reportTask' = Idle /\ reportTask'.step = "recv"
        /\ recentTrades' = Pushed(recentTrades, t, MaxTrades)
        /\ UNCHANGED <<published, reported, orderQueue, reportQueue, orderTask,
                       ordersById, recentOrders, fills, filled>>
    BY DEF AddTrade, Idle
  <1>2. /\ t \in Trade /\ recentTrades \in Seq(Trade) /\ filled \in Seq(OrderId)
        /\ InHand /\ reportTask.status = "Filled" /\ t.id = reportTask.id
        /\ MaxTrades \in Nat \ {0}
    BY <1>1, ConstantsAssumption DEF TradesInv, MonType, Idle, InHand, Reports, Trade
  <1> DEFINE F == Len(filled)
             d0 == IF L = MaxTrades THEN 1 ELSE 0
  \* The fill in hand is the last one taken, after those shown.
  <1>3. /\ F \in Nat /\ F >= 1 /\ filled[F] = t.id /\ Taking = 1 /\ Taking' = 0
        /\ L = (IF MaxTrades <= F - 1 THEN MaxTrades ELSE F - 1) /\ L \in Nat /\ L <= MaxTrades
        /\ \A i \in 1..L : recentTrades[i].id = filled[(F - 1) - L + i]
    <2>1. Taking = 1 /\ Taking' = 0 /\ F \in Nat
      BY <1>1, <1>2 DEF Taking, InHand
    <2>2. Done = F - 1 /\ F - 1 >= 0 /\ filled[F] = t.id /\ L = Shown
          /\ \A i \in 1..Shown : recentTrades[i].id = filled[Done - Shown + i]
      BY <1>2, <2>1 DEF TradesInv, TradesTaken, Done
    <2>3. L = IF MaxTrades <= F - 1 THEN MaxTrades ELSE F - 1
      BY <2>2 DEF Shown
    <2>4. \A i \in 1..L : recentTrades[i].id = filled[(F - 1) - L + i]
      BY <2>2
    <2> HIDE DEF t, L, F
    <2> QED BY <1>2, <2>1, <2>2, <2>3, <2>4
  <1>4. recentTrades' \in Seq(Trade) /\ TakenIn(recentTrades, t, MaxTrades, recentTrades')
    <2>1. t \in Trade /\ recentTrades \in Seq(Trade) /\ MaxTrades \in Nat \ {0}
      BY <1>2
    <2>2. Len(recentTrades) <= MaxTrades
      BY <1>3
    <2> HIDE DEF t
    <2>3. /\ Pushed(recentTrades, t, MaxTrades) \in Seq(Trade)
          /\ TakenIn(recentTrades, t, MaxTrades, Pushed(recentTrades, t, MaxTrades))
      BY <2>1, <2>2, PushedExact
    <2> QED BY <1>1, <2>3
  <1> HIDE DEF L, M, t, F
  <1>5. /\ M = (IF L = MaxTrades THEN MaxTrades ELSE L + 1) /\ M \in Nat
        /\ recentTrades'[M] = t
        /\ \A i \in 1..M : i # M => recentTrades'[i] = recentTrades[i + d0] /\ i + d0 \in 1..L
    <2>1. /\ M = (IF L = MaxTrades THEN MaxTrades ELSE L + 1) /\ recentTrades'[M] = t
          /\ \E d \in {0, 1} :
               /\ d = 1 <=> L = MaxTrades
               /\ \A i \in 1..M :
                    i # M => recentTrades'[i] = recentTrades[i + d] /\ i + d \in 1..L
      BY <1>4 DEF TakenIn, L, M
    <2>2. M \in Nat
      BY <1>2, <1>3, <2>1
    <2> QED BY <2>1, <2>2
  <1>6. MonType'
    BY <1>1, <1>4 DEF TradesInv, MonType
  <1>7. Reports'
    BY <1>1 DEF TradesInv, Reports, Genuine, InHand
  <1>8. FilledOnce'
    BY <1>1 DEF TradesInv, FilledOnce, Distinct, Filled
  <1>9. TradesTaken'
    <2>1. M = (IF MaxTrades <= F THEN MaxTrades ELSE F) /\ F - M = (F - 1) - L + d0
      BY <1>2, <1>3, <1>5
    <2>2. ASSUME NEW i \in 1..M PROVE recentTrades'[i].id = filled[F - M + i]
      <3>1. CASE i = M
        BY <1>3, <1>5, <3>1
      <3>2. CASE i # M
        <4>1. recentTrades'[i] = recentTrades[i + d0] /\ i + d0 \in 1..L
          BY <1>5, <3>2
        <4>2. (F - 1) - L + (i + d0) = F - M + i
          BY <1>3, <1>5, <2>1
        <4> QED BY <1>3, <4>1, <4>2
      <3> QED BY <3>1, <3>2
    <2>3. Done' = F /\ Shown' = M
      BY <1>1, <1>3, <2>1 DEF Done, Shown, F
    <2>4. fills' = Len(filled') /\ filled' = filled /\ Len(recentTrades') = M /\ F >= 0
      BY <1>1, <1>3 DEF TradesInv, TradesTaken, M
    <2>5. \A i \in 1..Shown' : recentTrades'[i].id = filled'[Done' - Shown' + i]
      BY <2>2, <2>3, <2>4
    <2> QED BY <1>3, <2>3, <2>4, <2>5 DEF TradesTaken
  <1> QED BY <1>6, <1>7, <1>8, <1>9 DEF TradesInv

\* The steps of the risk service and of the order task.
LEMMA OrderTrades == TradesInv /\ (PublishOrder \/ StoreOrder \/ ShowOrder) => TradesInv'
  <1> SUFFICES ASSUME TradesInv, PublishOrder \/ StoreOrder \/ ShowOrder PROVE TradesInv'
    OBVIOUS
  <1>1. UNCHANGED <<reported, reportQueue, reportTask, recentTrades, fills, filled>>
    BY DEF PublishOrder, StoreOrder, ShowOrder, sharedVars
  <1>2. Reports' /\ FilledOnce' /\ TradesTaken'
    BY <1>1 DEF TradesInv, Reports, Genuine, FilledOnce, Distinct, Filled, InHand, TradesTaken,
                Taking, Done, Shown
  <1>3. CASE PublishOrder
    <2>1. published' \in OrderId /\ (orderQueue' = orderQueue \/ orderQueue' = Append(orderQueue, published'))
      BY <1>3, Constants DEF PublishOrder, TradesInv, MonType, OrderId
    <2>2. orderQueue' \in Seq(OrderId) /\ published' \in 0..Orders
      <3>1. orderQueue \in Seq(OrderId)
        BY DEF TradesInv, MonType
      <3>2. Append(orderQueue, published') \in Seq(OrderId)
        BY <2>1, <3>1
      <3>3. published' \in 0..Orders
        BY <2>1, Constants DEF OrderId
      <3> QED BY <2>1, <3>1, <3>2, <3>3
    <2> QED BY <1>1, <1>2, <1>3, <2>2 DEF PublishOrder, TradesInv, MonType, sharedVars
  <1>4. CASE StoreOrder
    <2>1. orderQueue' = Tail(orderQueue) /\ orderTask' = [step |-> "push", id |-> Head(orderQueue)]
          /\ orderQueue \in Seq(OrderId) /\ orderQueue # <<>>
      BY <1>4 DEF StoreOrder, TradesInv, MonType
    <2>2. orderQueue' \in Seq(OrderId) /\ Head(orderQueue) \in OrderId
      BY <2>1, HeadTailProperties
    <2>3. orderTask' \in [step : {"push"}, id : OrderId]
      BY <2>1, <2>2
    <2> QED BY <1>1, <1>2, <1>4, <2>2, <2>3 DEF StoreOrder, TradesInv, MonType
  <1>5. CASE ShowOrder
    <2>1. orderTask' = Idle
      BY <1>5 DEF ShowOrder
    <2>2. recentOrders' \in Seq(Rep) /\ Len(recentOrders') <= MaxRecent
      BY <1>5, Showing DEF TradesInv
    <2> QED BY <1>1, <1>2, <1>5, <2>1, <2>2 DEF ShowOrder, TradesInv, MonType
  <1> QED BY <1>3, <1>4, <1>5

\* Every step keeps the invariant.
LEMMA TradesNext == TradesInv /\ [Next]_vars => TradesInv'
  <1> SUFFICES ASSUME TradesInv, [Next]_vars PROVE TradesInv'
    OBVIOUS
  <1>1. CASE UNCHANGED vars
    <2>1. MonType'
      BY <1>1 DEF vars, sharedVars, TradesInv, MonType
    <2>2. Reports' /\ FilledOnce'
      BY <1>1 DEF vars, sharedVars, TradesInv, Reports, Genuine, FilledOnce, Distinct, Filled, InHand
    <2>3. TradesTaken'
      BY <1>1 DEF vars, sharedVars, TradesInv, TradesTaken, Taking, Done, Shown, InHand
    <2> QED BY <2>1, <2>2, <2>3 DEF TradesInv
  <1>2. CASE \E o \in OrderId : Acknowledge(o) \/ Conclude(o)
    BY <1>2, ReportTrades
  <1> QED BY <1>1, <1>2, LookUpTrades, UpdateTrades, AddTrades, OrderTrades
          DEF Next, Services, OrderTask, ReportTask

\* The initial state.
LEMMA TradesInit == Init => TradesInv
  <1> SUFFICES ASSUME Init PROVE TradesInv
    OBVIOUS
  <1>1. Idle.step = "recv" /\ 0 <= MaxRecent /\ Orders \in Nat /\ ~(MaxTrades <= 0)
    BY Constants DEF Idle
  <1> QED BY <1>1 DEF Init, TradesInv, MonType, Reports, FilledOnce, InHand, TradesTaken, Taking, Done, Shown

\* The trades shown are the newest of the fills taken, in their order, but for
\* the one in hand; each is of an order that was filled, and none is taken twice
\* (monitoring/src/main.rs, the task of the execution reports).
THEOREM TradesStayFills == Spec => []TradesAreFills
  <1>1. TradesInv => TradesAreFills
    <2> SUFFICES ASSUME TradesInv PROVE TradesAreFills
      OBVIOUS
    <2>1. /\ DOMAIN filled = 1..Len(filled) /\ Len(filled) \in Nat
          /\ \A i \in 1..Len(filled) : filled[i] \in OrderId /\ Filled(filled[i])
          /\ \A i, j \in 1..Len(filled) : i # j => filled[i] # filled[j]
      BY Ids DEF TradesInv, MonType, FilledOnce
    <2>2. \A i \in 1..Len(filled) : Outcome(filled[i]) = "Filled"
      BY <2>1 DEF Filled, Outcome
    <2>3. Min({MaxTrades, Done}) = Shown
      <3>1. Done \in Int /\ MaxTrades \in Int
        BY <2>1, Constants DEF Done, Taking
      <3> QED BY <3>1, Lesser DEF Shown
    <2>4. /\ fills = Len(filled) /\ Len(recentTrades) = Shown
          /\ \A i \in 1..Shown : recentTrades[i].id = filled[Done - Shown + i]
      BY DEF TradesInv, TradesTaken
    <2> HIDE DEF Shown
    <2> QED BY <2>1, <2>2, <2>3, <2>4 DEF TradesAreFills, Done, Taking, InHand
  <1> QED BY <1>1, TradesInit, TradesNext, PTL DEF Spec

----------------------------------------------------------------------------
(* The status shown.                                                        *)

\* Orders are received, stored and shown in the order of their numbers.
InLine ==
    /\ \A i \in 1..Len(orderQueue) :
         /\ orderQueue[i] <= published
         /\ \A j \in 1..Len(orderQueue) : i < j => orderQueue[i] < orderQueue[j]
         /\ orderTask.step = "push" => orderTask.id < orderQueue[i]
         /\ \A k \in 1..Len(recentOrders) : recentOrders[k].id < orderQueue[i]
    /\ orderTask.step = "push" =>
         /\ orderTask.id <= published
         /\ \A k \in 1..Len(recentOrders) : recentOrders[k].id < orderTask.id
    /\ \A k \in 1..Len(recentOrders) :
         /\ recentOrders[k].id <= published
         /\ \A l \in 1..Len(recentOrders) : k < l => recentOrders[k].id < recentOrders[l].id

\* What is shown of an order, what is in hand and what is in the queue: after
\* an outcome nothing else comes.
LastWord ==
    /\ \A k \in 1..Len(recentOrders) :
         /\ recentOrders[k].status = "PENDING" \/ Genuine(recentOrders[k])
         /\ \A i \in 1..Len(reportQueue) : Settles(recentOrders[k], reportQueue[i])
         /\ reportTask.step = "status" => Settles(recentOrders[k], reportTask)
    /\ \A i \in 1..Len(reportQueue) :
         /\ reportTask.step = "status" => Settles(reportTask, reportQueue[i])
         /\ \A j \in 1..Len(reportQueue) : i < j => Settles(reportQueue[i], reportQueue[j])

ShownInv == TradesInv /\ InLine /\ LastWord

\* Reports keep the order of what is shown.
LEMMA ReportShown ==
    ASSUME ShownInv, NEW o \in OrderId, Acknowledge(o) \/ Conclude(o)
    PROVE InLine' /\ LastWord'
  <1>1. PICK status \in Status : Report(o, status)
    BY OpenOrder DEF ShownInv
  <1> DEFINE n == Len(reportQueue)
             N == Len(reportQueue')
  <1>2. /\ n \in Nat /\ N \in {n, n + 1}
        /\ N = n + 1 => reportQueue'[n + 1] = [id |-> o, status |-> status]
        /\ \A i \in 1..n : reportQueue'[i] = reportQueue[i] /\ reportQueue'[i] \in Rep
        /\ UNCHANGED <<published, orderQueue, orderTask, reportTask, sharedVars>>
    BY <1>1, Reporting DEF ShownInv, TradesInv
  <1>3. InLine'
    BY <1>2 DEF ShownInv, InLine, sharedVars
  <1>4. \A r : r.id = o /\ Genuine(r) => r.status = "Acknowledged"
    BY OpenOrder DEF ShownInv
  <1>5. \A k \in 1..Len(recentOrders) : recentOrders[k].id \in OrderId
    BY Ids DEF ShownInv, TradesInv
  <1> HIDE DEF n, N
  <1>6. ASSUME NEW k \in 1..Len(recentOrders)
        PROVE \/ recentOrders[k].status = "PENDING"
              \/ recentOrders[k].status = "Acknowledged" /\ Len(reported'[recentOrders[k].id]) >= 1
              \/ recentOrders[k].status = reported'[recentOrders[k].id][2]
                   /\ Len(reported'[recentOrders[k].id]) = 2
    BY <1>5, StaysGenuine DEF ShownInv, LastWord
  <1>7. ASSUME NEW k \in 1..Len(recentOrders), NEW i \in 1..N
        PROVE Settles(recentOrders[k], reportQueue'[i])
    <2>1. CASE i \in 1..n
      BY <1>2, <2>1 DEF ShownInv, LastWord, n
    <2>2. CASE i = n + 1
      <3>1. recentOrders[k].id = o => recentOrders[k].status \in {"PENDING", "Acknowledged"}
        BY <1>4 DEF ShownInv, LastWord
      <3> QED BY <1>2, <2>2, <3>1 DEF Settles
    <2> QED BY <1>2, <2>1, <2>2
  <1>8. ASSUME NEW i \in 1..N, reportTask.step = "status"
        PROVE Settles(reportTask, reportQueue'[i])
    <2>1. CASE i \in 1..n
      BY <1>2, <1>8, <2>1 DEF ShownInv, LastWord, n
    <2>2. CASE i = n + 1
      <3>1. reportTask.id = o => reportTask.status = "Acknowledged"
        BY <1>4, <1>8 DEF ShownInv, TradesInv, Reports, InHand
      <3> QED BY <1>2, <2>2, <3>1 DEF Settles
    <2> QED BY <1>2, <2>1, <2>2
  <1>9. ASSUME NEW i \in 1..N, NEW j \in 1..N, i < j
        PROVE Settles(reportQueue'[i], reportQueue'[j])
    <2>1. i \in 1..n
      BY <1>2, <1>9
    <2>2. CASE j \in 1..n
      BY <1>2, <1>9, <2>1, <2>2 DEF ShownInv, LastWord, n
    <2>3. CASE j = n + 1
      <3>1. reportQueue[i].id = o => reportQueue[i].status = "Acknowledged"
        BY <1>4, <2>1 DEF ShownInv, TradesInv, Reports, n
      <3> QED BY <1>2, <2>1, <2>3, <3>1 DEF Settles
    <2> QED BY <1>2, <2>2, <2>3
  <1>10. LastWord'
    BY <1>2, <1>6, <1>7, <1>8, <1>9 DEF ShownInv, LastWord, Genuine, Settles, sharedVars, N
  <1> QED BY <1>3, <1>10

\* The report task keeps it.
LEMMA TaskShown ==
    ASSUME ShownInv, LookUpOrder \/ UpdateStatus \/ AddTrade
    PROVE InLine' /\ LastWord'
  <1>1. CASE LookUpOrder
    <2> DEFINE n == Len(reportQueue)
               r == reportQueue[1]
    <2>1. n \in Nat /\ reportQueue \in Seq(Rep)
      BY DEF ShownInv, TradesInv, MonType
    <2>2. /\ n >= 1 /\ reportQueue' = RemoveAt(reportQueue, 1)
          /\ reportTask' = [step |-> "status", id |-> r.id, status |-> r.status,
                            found |-> r.id \in ordersById]
          /\ UNCHANGED <<published, reported, orderQueue, orderTask, sharedVars>>
      BY <1>1, <2>1 DEF LookUpOrder, NextReport
    <2>3. /\ Len(reportQueue') = n - 1
          /\ \A i \in 1..(n - 1) : reportQueue'[i] = reportQueue[i + 1]
      BY <2>1, <2>2, FirstOff
    <2>4. reportTask'.id = r.id /\ reportTask'.status = r.status
      BY <2>2
    <2>5. 1 \in 1..n /\ \A i \in 1..(n - 1) : i + 1 \in 1..n /\ 1 < i + 1
      BY <2>1, <2>2
    <2>6. \A i, j \in 1..(n - 1) : i < j => i + 1 < j + 1
      BY <2>1
    <2> HIDE DEF n
    <2>7. InLine'
      BY <2>2 DEF ShownInv, InLine, sharedVars
    <2>8. \A k \in 1..Len(recentOrders) :
            /\ recentOrders[k].status = "PENDING" \/ Genuine(recentOrders[k])
            /\ \A i \in 1..(n - 1) : Settles(recentOrders[k], reportQueue'[i])
            /\ Settles(recentOrders[k], r)
      BY <2>3, <2>5 DEF ShownInv, LastWord, n
    <2>9. \A i \in 1..(n - 1) :
            /\ Settles(r, reportQueue'[i])
            /\ \A j \in 1..(n - 1) : i < j => Settles(reportQueue'[i], reportQueue'[j])
      BY <2>3, <2>5, <2>6 DEF ShownInv, LastWord, n
    <2>10. LastWord'
      BY <2>2, <2>3, <2>4, <2>8, <2>9 DEF LastWord, Settles, Genuine, sharedVars
    <2> QED BY <2>7, <2>10
  <1>2. CASE UpdateStatus
    <2> DEFINE L == Len(recentOrders)
    <2>1. /\ reportTask.step = "status" /\ recentOrders' = Updated(recentOrders, reportTask)
          /\ reportTask'.step # "status"
          /\ UNCHANGED <<published, reported, orderQueue, reportQueue, orderTask>>
      <3>1. /\ reportTask.step = "status" /\ recentOrders' = Updated(recentOrders, reportTask)
            /\ reportTask' = (IF IsTrade(reportTask) THEN [reportTask EXCEPT !.step = "trade"] ELSE Idle)
            /\ UNCHANGED <<published, reported, orderQueue, reportQueue, orderTask>>
        BY <1>2 DEF UpdateStatus
      <3>2. reportTask \in [step : {"status", "trade"}, id : OrderId, status : Status, found : BOOLEAN]
        BY <3>1 DEF ShownInv, TradesInv, MonType, Idle
      <3>3. [reportTask EXCEPT !.step = "trade"].step = "trade" /\ Idle.step = "recv"
        BY <3>2 DEF Idle
      <3>4. reportTask'.step \in {"trade", "recv"}
        BY <3>1, <3>3
      <3> QED BY <3>1, <3>4
    <2>2. recentOrders \in Seq(Rep) /\ reportTask.status \in Status /\ Genuine(reportTask)
      BY <2>1 DEF ShownInv, TradesInv, MonType, Reports, Idle, InHand
    <2>3. /\ Len(recentOrders') = L
          /\ \A k \in 1..L :
               /\ recentOrders'[k].id = recentOrders[k].id
               /\ \/ recentOrders'[k].status = recentOrders[k].status
                  \/ /\ recentOrders'[k].status = reportTask.status
                     /\ recentOrders'[k].id = reportTask.id
      BY <2>1, <2>2, UpdatedExact
    <2> HIDE DEF L
    <2>4. InLine'
      BY <2>1, <2>3 DEF ShownInv, InLine, L
    <2>5. ASSUME NEW k \in 1..L
          PROVE /\ \/ recentOrders'[k].status = "PENDING"
                   \/ recentOrders'[k].status = "Acknowledged" /\ Len(reported[recentOrders'[k].id]) >= 1
                   \/ recentOrders'[k].status = reported[recentOrders'[k].id][2]
                        /\ Len(reported[recentOrders'[k].id]) = 2
                /\ \A i \in 1..Len(reportQueue) : Settles(recentOrders'[k], reportQueue[i])
      <3>1. /\ recentOrders[k].status = "PENDING" \/ Genuine(recentOrders[k])
            /\ \A i \in 1..Len(reportQueue) : /\ Settles(recentOrders[k], reportQueue[i])
                                             /\ Settles(reportTask, reportQueue[i])
        BY <2>1 DEF ShownInv, LastWord, L
      <3>2. CASE recentOrders'[k].status = recentOrders[k].status
        BY <2>3, <3>1, <3>2 DEF Genuine, Settles
      <3>3. CASE recentOrders'[k].status = reportTask.status /\ recentOrders'[k].id = reportTask.id
        BY <2>2, <2>3, <3>1, <3>3 DEF Genuine, Settles
      <3> QED BY <2>3, <3>2, <3>3
    <2>6. LastWord'
      BY <2>1, <2>3, <2>5 DEF ShownInv, LastWord, Settles, Genuine, L
    <2> QED BY <2>4, <2>6
  <1>3. CASE AddTrade
    <2>1. /\ reportTask'.step # "status"
          /\ UNCHANGED <<published, reported, orderQueue, reportQueue, orderTask, recentOrders>>
      BY <1>3 DEF AddTrade, Idle
    <2> QED BY <2>1 DEF ShownInv, InLine, LastWord, Settles, Genuine
  <1> QED BY <1>1, <1>2, <1>3

\* The risk service and the order task keep it.
LEMMA OrderShown ==
    ASSUME ShownInv, PublishOrder \/ StoreOrder \/ ShowOrder
    PROVE InLine' /\ LastWord'
  <1>1. UNCHANGED <<reported, reportQueue, reportTask>>
    BY DEF PublishOrder, StoreOrder, ShowOrder
  <1> DEFINE n == Len(orderQueue)
             L == Len(recentOrders)
  <1>2. /\ orderQueue \in Seq(OrderId) /\ n \in Nat /\ published \in Nat
        /\ recentOrders \in Seq(Rep) /\ L \in Nat
        /\ \A i \in 1..n : orderQueue[i] \in Nat
        /\ \A k \in 1..L : recentOrders[k].id \in Nat
    <2>1. orderQueue \in Seq(OrderId) /\ recentOrders \in Seq(Rep) /\ published \in 0..Orders
      BY DEF ShownInv, TradesInv, MonType
    <2>2. published \in Nat
      BY <2>1, Constants
    <2>3. /\ \A i \in 1..n : orderQueue[i] \in Nat
          /\ \A k \in 1..L : recentOrders[k].id \in Nat
      BY Ids DEF ShownInv, TradesInv
    <2> HIDE DEF n, L
    <2>4. n \in Nat /\ L \in Nat
      BY <2>1 DEF n, L
    <2> QED BY <2>1, <2>2, <2>3, <2>4
  <1> HIDE DEF n, L
  <1>3. CASE PublishOrder
    <2>1. published' = published + 1 /\ UNCHANGED <<orderTask, recentOrders>>
          /\ (orderQueue' = orderQueue \/ orderQueue' = Append(orderQueue, published'))
      BY <1>3 DEF PublishOrder, sharedVars
    <2>2. LastWord'
      BY <1>1, <2>1 DEF ShownInv, LastWord, Settles, Genuine
    <2>3. CASE orderQueue' = orderQueue
      <3>1. orderTask.step = "push" => orderTask.id \in Nat
        BY DEF ShownInv, TradesInv, MonType, Idle, OrderId
      <3>2. /\ \A i \in 1..n : orderQueue[i] <= published + 1
            /\ \A k \in 1..L : recentOrders[k].id <= published + 1
            /\ orderTask.step = "push" => orderTask.id <= published + 1
        BY <1>2, <3>1 DEF ShownInv, InLine, n, L
      <3>3. InLine'
        BY <2>1, <2>3, <3>2 DEF ShownInv, InLine, n, L
      <3> QED BY <2>2, <3>3
    <2>4. CASE orderQueue' = Append(orderQueue, published')
      <3>1. /\ Len(orderQueue') = n + 1 /\ orderQueue'[n + 1] = published + 1
            /\ \A i \in 1..n : orderQueue'[i] = orderQueue[i]
        BY <1>2, <2>1, <2>4 DEF n
      <3>2. orderTask.step = "push" => orderTask.id \in Nat
        BY DEF ShownInv, TradesInv, MonType, Idle, OrderId
      <3>3. /\ \A i \in 1..n : /\ orderQueue[i] <= published
                               /\ \A j \in 1..n : i < j => orderQueue[i] < orderQueue[j]
                               /\ orderTask.step = "push" => orderTask.id < orderQueue[i]
                               /\ \A k \in 1..L : recentOrders[k].id < orderQueue[i]
            /\ orderTask.step = "push" => /\ orderTask.id <= published
                                          /\ \A k \in 1..L : recentOrders[k].id < orderTask.id
            /\ \A k \in 1..L : /\ recentOrders[k].id <= published
                               /\ \A l \in 1..L : k < l => recentOrders[k].id < recentOrders[l].id
        BY DEF ShownInv, InLine, n, L
      <3>4. ASSUME NEW i \in 1..(n + 1)
            PROVE /\ orderQueue'[i] <= published + 1
                  /\ \A j \in 1..(n + 1) : i < j => orderQueue'[i] < orderQueue'[j]
                  /\ orderTask.step = "push" => orderTask.id < orderQueue'[i]
                  /\ \A k \in 1..L : recentOrders[k].id < orderQueue'[i]
        <4>1. CASE i = n + 1
          BY <1>2, <3>1, <3>2, <3>3, <4>1
        <4>2. CASE i \in 1..n
          <5>1. orderQueue'[i] = orderQueue[i] /\ orderQueue[i] \in Nat /\ orderQueue[i] <= published
            BY <1>2, <3>1, <3>3, <4>2
          <5>2. ASSUME NEW j \in 1..(n + 1), i < j PROVE orderQueue'[i] < orderQueue'[j]
            <6>1. CASE j = n + 1
              BY <1>2, <3>1, <5>1, <6>1
            <6>2. CASE j \in 1..n
              BY <3>1, <3>3, <4>2, <5>2, <6>2
            <6> QED BY <1>2, <6>1, <6>2
          <5> QED BY <1>2, <3>3, <4>2, <5>1, <5>2
        <4> QED BY <1>2, <4>1, <4>2
      <3>5. /\ orderTask.step = "push" => orderTask.id <= published + 1
            /\ \A k \in 1..L : recentOrders[k].id <= published + 1
        BY <1>2, <3>2, <3>3
      <3>6. InLine'
        BY <2>1, <3>1, <3>3, <3>4, <3>5 DEF InLine, L
      <3> QED BY <2>2, <3>6
    <2> QED BY <2>1, <2>2, <2>3, <2>4
  <1>4. CASE StoreOrder
    <2>1. /\ n >= 1 /\ orderTask' = [step |-> "push", id |-> orderQueue[1]]
          /\ orderQueue' = Tail(orderQueue) /\ UNCHANGED <<published, recentOrders>>
      BY <1>2, <1>4 DEF StoreOrder, n
    <2>2. /\ Len(orderQueue') = n - 1
          /\ \A i \in 1..(n - 1) : orderQueue'[i] = orderQueue[i + 1]
      BY <1>2, <2>1, FirstOff DEF n
    <2>3. 1 \in 1..n /\ \A i \in 1..(n - 1) : i + 1 \in 1..n /\ 1 < i + 1
      BY <1>2, <2>1
    <2>4. \A i, j \in 1..(n - 1) : i < j => i + 1 < j + 1
      BY <1>2
    <2>5. LastWord'
      BY <1>1, <2>1 DEF ShownInv, LastWord, Settles, Genuine
    <2>6. InLine'
      BY <2>1, <2>2, <2>3, <2>4 DEF ShownInv, InLine, n
    <2> QED BY <2>5, <2>6
  <1>5. CASE ShowOrder
    <2> DEFINE e == [id |-> orderTask.id, status |-> "PENDING"]
               M == Len(recentOrders')
    <2>1. /\ orderTask.step = "push" /\ orderTask' = Idle /\ orderTask'.step = "recv"
          /\ recentOrders' = Pushed(recentOrders, e, MaxRecent)
          /\ UNCHANGED <<published, orderQueue>>
      BY <1>5 DEF ShowOrder, Idle
    <2>2. e \in Rep /\ e.id = orderTask.id /\ e.status = "PENDING" /\ L <= MaxRecent
          /\ MaxRecent \in Nat \ {0} /\ orderTask.id \in Nat
      BY <2>1, Constants DEF ShownInv, TradesInv, MonType, Idle, Rep, Status, L, OrderId
    <2>3. TakenIn(recentOrders, e, MaxRecent, recentOrders')
      BY <1>5, Showing DEF ShownInv, TradesInv
    <2> HIDE DEF e, M
    <2>4. PICK d \in {0, 1} : \A i \in 1..M : i # M => /\ recentOrders'[i] = recentOrders[i + d]
                                                      /\ i + d \in 1..L
      BY <2>3 DEF TakenIn, M, L
    <2>5. M \in Nat /\ recentOrders'[M] = e
      BY <1>2, <2>2, <2>3 DEF TakenIn, M, L
    <2>6. ASSUME NEW k \in 1..M
          PROVE \/ k = M /\ recentOrders'[k] = e
                \/ k # M /\ recentOrders'[k] = recentOrders[k + d] /\ k + d \in 1..L
      BY <2>4, <2>5
    <2>7. LastWord'
      <3>1. ASSUME NEW k \in 1..M
            PROVE /\ recentOrders'[k].status = "PENDING" \/ Genuine(recentOrders'[k])
                  /\ \A i \in 1..Len(reportQueue) : Settles(recentOrders'[k], reportQueue[i])
                  /\ reportTask.step = "status" => Settles(recentOrders'[k], reportTask)
        <4>1. CASE k = M
          BY <2>2, <2>6, <4>1 DEF Settles
        <4>2. CASE k # M
          BY <2>6, <4>2 DEF ShownInv, LastWord, L
        <4> QED BY <4>1, <4>2
      <3> QED BY <1>1, <3>1 DEF ShownInv, LastWord, Settles, Genuine, M
    <2>8. InLine'
      <3>1. ASSUME NEW k \in 1..M
            PROVE /\ recentOrders'[k].id <= published
                  /\ \A i \in 1..n : recentOrders'[k].id < orderQueue[i]
        BY <2>1, <2>2, <2>6 DEF ShownInv, InLine, n, L
      <3>2. ASSUME NEW k \in 1..M, NEW l \in 1..M, k < l
            PROVE recentOrders'[k].id < recentOrders'[l].id
        <4>1. k # M
          BY <2>5, <3>2
        <4>2. CASE l = M
          BY <2>1, <2>2, <2>6, <4>1, <4>2 DEF ShownInv, InLine, L
        <4>3. CASE l # M
          <5>1. k + d < l + d
            BY <2>4, <3>2
          <5> QED BY <2>6, <4>1, <4>3, <5>1 DEF ShownInv, InLine, L
        <4> QED BY <4>2, <4>3
      <3> QED BY <2>1, <3>1, <3>2 DEF ShownInv, InLine, n, M
    <2> QED BY <2>7, <2>8
  <1> QED BY <1>3, <1>4, <1>5

\* Every step keeps it.
LEMMA ShownNext == ShownInv /\ [Next]_vars => ShownInv'
  <1> SUFFICES ASSUME ShownInv, [Next]_vars PROVE ShownInv'
    OBVIOUS
  <1>1. TradesInv'
    BY TradesNext DEF ShownInv
  <1>2. CASE UNCHANGED vars
    <2>1. InLine' /\ LastWord'
      BY <1>2 DEF vars, sharedVars, ShownInv, InLine, LastWord, Settles, Genuine
    <2> QED BY <1>1, <2>1 DEF ShownInv
  <1>3. CASE \E o \in OrderId : Acknowledge(o) \/ Conclude(o)
    BY <1>1, <1>3, ReportShown DEF ShownInv
  <1>4. CASE ReportTask
    BY <1>1, <1>4, TaskShown DEF ShownInv, ReportTask
  <1>5. CASE PublishOrder \/ OrderTask
    BY <1>1, <1>5, OrderShown DEF ShownInv, OrderTask
  <1> QED BY <1>2, <1>3, <1>4, <1>5 DEF Next, Services

\* Once the status shown of an order is its outcome, it stays, whatever
\* reports are still under way and whichever task is in between its steps
\* (monitoring/src/main.rs, update of recent_orders).
THEOREM StatusStays == Spec => StatusNeverBack
  <1> DEFINE Kept == \A e \in ToSet(recentOrders), f \in ToSet(recentOrders') :
                       (e.id = f.id /\ e.status = Outcome(e.id)) => f.status = e.status
  <1>1. Init => ShownInv
    BY TradesInit DEF Init, ShownInv, InLine, LastWord, Idle
  <1>2. ShownInv /\ [Next]_vars => Kept
    <2> SUFFICES ASSUME ShownInv, [Next]_vars,
                        NEW e \in ToSet(recentOrders), NEW f \in ToSet(recentOrders'),
                        e.id = f.id, e.status = Outcome(e.id)
                 PROVE f.status = e.status
      OBVIOUS
    <2> DEFINE L == Len(recentOrders)
    <2>1. /\ recentOrders \in Seq(Rep) /\ L \in Nat /\ DOMAIN recentOrders = 1..L
          /\ \A k \in 1..L : recentOrders[k].id \in OrderId
          /\ \A k, l \in 1..L : recentOrders[k].id = recentOrders[l].id => k = l
      <3>1. /\ recentOrders \in Seq(Rep)
            /\ \A k, l \in 1..L : k < l => recentOrders[k].id < recentOrders[l].id
        BY DEF ShownInv, TradesInv, MonType, InLine
      <3>2. \A k \in 1..L : recentOrders[k].id \in OrderId /\ recentOrders[k].id \in Nat
        BY Ids DEF ShownInv, TradesInv
      <3> QED BY <3>1, <3>2
    <2>2. PICK k \in 1..L : e = recentOrders[k]
      BY <2>1 DEF ToSet
    <2>3. e.status \in Final /\ e.status # "PENDING" /\ Len(reported[e.id]) = 2
      <3>1. e.id \in OrderId /\ (e.status = "PENDING" \/ Genuine(e))
        BY <2>1, <2>2 DEF ShownInv, LastWord
      <3>2. CASE Len(reported[e.id]) = 2
        BY <3>1, <3>2, Constants DEF ShownInv, TradesInv, Reports, Outcome
      <3>3. CASE Len(reported[e.id]) # 2
        BY <3>1, <3>3 DEF Outcome, Genuine
      <3> QED BY <3>2, <3>3
    <2>4. CASE UpdateStatus
      <3>1. /\ reportTask.step = "status" /\ recentOrders' = Updated(recentOrders, reportTask)
            /\ reportTask.status \in Status /\ Genuine(reportTask)
        BY <2>4 DEF UpdateStatus, ShownInv, TradesInv, MonType, Reports, Idle, InHand
      <3>2. /\ recentOrders' \in Seq(Rep) /\ Len(recentOrders') = L
            /\ \A i \in 1..L :
                 /\ recentOrders'[i].id = recentOrders[i].id
                 /\ \/ recentOrders'[i].status = recentOrders[i].status
                    \/ /\ recentOrders'[i].status = reportTask.status
                       /\ recentOrders'[i].id = reportTask.id
        BY <2>1, <3>1, UpdatedExact
      <3>3. PICK l \in 1..L : f = recentOrders'[l]
        BY <3>2 DEF ToSet
      <3>4. l = k
        BY <2>1, <2>2, <3>2, <3>3
      <3>5. Settles(e, reportTask)
        BY <2>2, <3>1 DEF ShownInv, LastWord
      <3>6. reportTask.id = e.id => reportTask.status = e.status
        <4>1. CASE e.status = "Acknowledged"
          BY <2>3, <3>1, <4>1 DEF Genuine, Outcome
        <4>2. CASE e.status # "Acknowledged"
          BY <2>3, <3>5, <4>2 DEF Settles
        <4> QED BY <4>1, <4>2
      <3> QED BY <2>2, <3>2, <3>3, <3>4, <3>6
    <2>5. CASE ShowOrder
      <3>1. /\ orderTask.step = "push"
            /\ recentOrders' = Pushed(recentOrders, [id |-> orderTask.id, status |-> "PENDING"], MaxRecent)
        BY <2>5 DEF ShowOrder
      <3>2. f = [id |-> orderTask.id, status |-> "PENDING"] \/ f \in ToSet(recentOrders)
        <4> DEFINE p == [id |-> orderTask.id, status |-> "PENDING"]
        <4>1. recentOrders' \in Seq(Rep) /\ TakenIn(recentOrders, p, MaxRecent, recentOrders')
          BY <2>5, Showing DEF ShownInv, TradesInv
        <4> HIDE DEF p, L
        <4>2. PICK i \in 1..Len(recentOrders') : f = recentOrders'[i]
          BY <4>1 DEF ToSet
        <4>3. CASE i = Len(recentOrders')
          BY <4>1, <4>2, <4>3 DEF TakenIn, p
        <4>4. CASE i # Len(recentOrders')
          <5>1. PICK d \in {0, 1} : f = recentOrders[i + d] /\ i + d \in 1..Len(recentOrders)
            BY <4>1, <4>2, <4>4 DEF TakenIn
          <5> QED BY <2>1, <5>1 DEF ToSet, L
        <4> QED BY <4>3, <4>4
      <3>3. e.id < orderTask.id /\ e.id \in Nat /\ orderTask.id \in Nat
        BY <2>1, <2>2, <3>1 DEF ShownInv, InLine, TradesInv, MonType, Idle, OrderId
      <3>4. f \in ToSet(recentOrders)
        BY <3>2, <3>3
      <3> QED BY <2>1, <2>2, <3>4 DEF ToSet
    <2>6. CASE UNCHANGED recentOrders
      <3>1. PICK l \in 1..L : f = recentOrders[l]
        BY <2>1, <2>6 DEF ToSet
      <3> QED BY <2>1, <2>2, <3>1
    <2>7. UpdateStatus \/ ShowOrder \/ UNCHANGED recentOrders
      BY DEF Next, Services, OrderTask, ReportTask, PublishOrder, Acknowledge, Conclude, Report,
             StoreOrder, LookUpOrder, AddTrade, vars, sharedVars
    <2> QED BY <2>4, <2>5, <2>6, <2>7
  <1>3. ShownInv /\ [Next]_vars => [Kept]_vars
    BY <1>2
  <1> QED BY <1>1, <1>3, ShownNext, PTL DEF Spec, StatusNeverBack

----------------------------------------------------------------------------
(* Profit and loss.                                                         *)

\* A trade, or what is left of it as a lot.
Lot == [symbol : Symbols, time : Nat, side : {"Buy", "Sell"}, quantity : Int, price : Nat]

\* What a sale works on, with the lots of its symbol, and what the trades do.
Acc  == [lots : Seq(Lot), left : Int, price : Nat, pnl : Int, peak : Int, drawdown : Int]
Book == [lots : [Symbols -> Seq(Lot)], left : Int, price : Nat, pnl : Int, peak : Int,
         drawdown : Int]

LEMMA Greater ==
    ASSUME NEW a \in Int, NEW b \in Int
    PROVE Max({a, b}) = IF a <= b THEN b ELSE a
  <1> DEFINE m == IF a <= b THEN b ELSE a
             Most(x) == \A y \in {a, b} : x >= y
  <1>1. m \in {a, b} /\ Most(m)
    OBVIOUS
  <1>2. \A x \in {a, b} : Most(x) => x = m
    OBVIOUS
  <1> QED BY <1>1, <1>2 DEF Max

\* One turn of the matching, field by field.
Taken(m, lot) == IF lot.quantity <= m.left THEN lot.quantity ELSE m.left

LEMMA MatchIs ==
    ASSUME NEW m \in Acc, NEW lot \in Lot
    PROVE LET n == Taken(m, lot)
              pnl == m.pnl + (m.price - lot.price) * n
              peak == IF m.peak <= pnl THEN pnl ELSE m.peak
              new == Match(m, lot)
          IN /\ new \in Acc /\ n \in Int
             /\ new.left = m.left - n /\ new.price = m.price
             /\ new.pnl = pnl /\ new.peak = peak
             /\ new.drawdown = IF m.drawdown <= peak - pnl THEN peak - pnl ELSE m.drawdown
             /\ new.lots = IF n < lot.quantity
                           THEN Append(m.lots, [lot EXCEPT !.quantity = @ - n]) ELSE m.lots
  <1> DEFINE n == Taken(m, lot)
             pnl == m.pnl + (m.price - lot.price) * n
             peak == IF m.peak <= pnl THEN pnl ELSE m.peak
             fall == IF m.drawdown <= peak - pnl THEN peak - pnl ELSE m.drawdown
             rest == [lot EXCEPT !.quantity = @ - n]
             lots == IF n < lot.quantity THEN Append(m.lots, rest) ELSE m.lots
  <1>1. /\ m.lots \in Seq(Lot) /\ m.left \in Int /\ m.price \in Nat /\ m.pnl \in Int
        /\ m.peak \in Int /\ m.drawdown \in Int
        /\ lot.side \in {"Buy", "Sell"} /\ lot.quantity \in Int /\ lot.price \in Nat
    BY DEF Acc, Lot
  <1>2. n \in Int /\ Min({lot.quantity, m.left}) = n
    BY <1>1, Lesser DEF Taken
  <1> HIDE DEF n
  <1>3. pnl \in Int
    BY <1>1, <1>2
  <1> HIDE DEF pnl
  <1>4. peak \in Int /\ Max({m.peak, pnl}) = peak
    BY <1>1, <1>3, Greater
  <1> HIDE DEF peak
  <1>5. fall \in Int /\ Max({m.drawdown, peak - pnl}) = fall
    BY <1>1, <1>3, <1>4, Greater
  <1>6. rest \in Lot
    <2>1. rest = [symbol |-> lot.symbol, time |-> lot.time, side |-> lot.side,
                  quantity |-> lot.quantity - n, price |-> lot.price]
      BY DEF Lot
    <2>2. lot.quantity - n \in Int
      BY <1>1, <1>2
    <2>3. lot.symbol \in Symbols /\ lot.time \in Nat
      BY DEF Lot
    <2> QED BY <1>1, <2>1, <2>2, <2>3 DEF Lot
  <1> HIDE DEF fall, rest
  <1>7. lots \in Seq(Lot)
    BY <1>1, <1>6
  <1>8. Match(m, lot) = [m EXCEPT !.left = @ - n, !.pnl = pnl, !.peak = peak,
                                  !.drawdown = fall, !.lots = lots]
    BY <1>2, <1>4, <1>5 DEF Match, Keep, pnl, rest
  <1> HIDE DEF lots
  <1>9. Match(m, lot) \in Acc
    <2>1. Match(m, lot) = [lots |-> lots, left |-> m.left - n, price |-> m.price, pnl |-> pnl,
                           peak |-> peak, drawdown |-> fall]
      BY <1>8 DEF Acc
    <2>2. m.left - n \in Int
      BY <1>1, <1>2
    <2> QED BY <1>1, <1>3, <1>4, <1>5, <1>7, <2>1, <2>2 DEF Acc
  <1>10. /\ Match(m, lot).left = m.left - n /\ Match(m, lot).price = m.price
         /\ Match(m, lot).pnl = pnl /\ Match(m, lot).peak = peak
         /\ Match(m, lot).drawdown = fall /\ Match(m, lot).lots = lots
    BY <1>8 DEF Acc
  <1> QED BY <1>2, <1>9, <1>10 DEF n, pnl, peak, fall, rest, lots

\* The matching of all lots, turn by turn.
LEMMA MatchesAre ==
    ASSUME NEW m \in Acc, NEW lots \in Seq(Lot)
    PROVE \E r \in [0..Len(lots) -> Acc] :
            /\ r[0] = m /\ \A k \in 1..Len(lots) : r[k] = Match(r[k - 1], lots[k])
            /\ FoldLeft(Match, m, lots) = r[Len(lots)]
  <1> DEFINE N == Len(lots)
             F == [p \in Acc \X (1..N) |-> Match(p[1], lots[p[2]])]
             step(g) == [X \in SUBSET DOMAIN lots |->
                           IF X = {} THEN m ELSE Match(g[X \ {Max(X)}], lots[Max(X)])]
             h == CHOOSE g : g = step(g)
  <1>1. FoldLeft(Match, m, lots) = h[DOMAIN lots]
    BY DEF FoldLeft, MapThenFoldSet
  <1>2. N \in Nat /\ DOMAIN lots = 1..N /\ \A k \in 1..N : lots[k] \in Lot
    OBVIOUS
  <1>3. \A a \in Acc, k \in 1..N : Match(a, lots[k]) \in Acc
    BY <1>2, MatchIs
  <1>4. F \in [Acc \X (1..N) -> Acc] /\ \A a \in Acc, k \in 1..N : F[<<a, k>>] = Match(a, lots[k])
    BY <1>3
  <1> HIDE DEF F, N
  <1>5. PICK g : FoldOf(g, F, Acc, m, N)
    BY <1>2, <1>4, FoldsExist
  <1>6. \A X \in SUBSET (1..N) : X # {} => Max(X) \in 1..N /\ X \ {Max(X)} \in SUBSET (1..N)
    BY <1>2, GreatestIs
  <1>7. \A X \in SUBSET (1..N) : g[X] = IF X = {} THEN m ELSE Match(g[X \ {Max(X)}], lots[Max(X)])
    BY <1>4, <1>5, <1>6 DEF FoldOf, Folds
  <1>8. h = step(h)
    <2>1. g = step(g)
      BY <1>2, <1>5, <1>7 DEF FoldOf
    <2> HIDE DEF step
    <2> QED BY <2>1
  <1> HIDE DEF h
  <1>9. \A X \in SUBSET (1..N) : h[X] = IF X = {} THEN m ELSE Match(h[X \ {Max(X)}], lots[Max(X)])
    BY <1>2, <1>8
  <1>10. Agree(h, g, N)
    BY <1>7, <1>9 DEF Agree
  <1> HIDE DEF step
  <1>11. PICK r \in [0..N -> Acc] :
           /\ r[0] = m /\ r[N] = h[1..N]
           /\ \A k \in 1..N : r[k] = F[<<r[k - 1], k>>]
    BY <1>5, <1>10, FoldRuns
  <1>12. \A k \in 1..N : r[k - 1] \in Acc
    BY <1>2, <1>11
  <1>13. \A k \in 1..N : r[k] = Match(r[k - 1], lots[k])
    BY <1>4, <1>11, <1>12
  <1> QED BY <1>1, <1>2, <1>11, <1>13 DEF N

\* A sale starts with what it sells and without lots.
Selling(acc, trade) == [acc EXCEPT !.left = trade.quantity, !.price = trade.price, !.lots = <<>>]

LEMMA SellingIs ==
    ASSUME NEW acc \in Book, NEW trade \in Lot
    PROVE LET m == Selling(acc, trade) IN
          /\ m \in Acc /\ acc.lots[trade.symbol] \in Seq(Lot) /\ trade.symbol \in Symbols
          /\ m.lots = <<>> /\ m.left = trade.quantity /\ m.price = trade.price
          /\ m.pnl = acc.pnl /\ m.peak = acc.peak /\ m.drawdown = acc.drawdown
  <1> DEFINE new == Selling(acc, trade)
             none == <<>>
  <1>1. /\ acc = [lots |-> acc.lots, left |-> acc.left, price |-> acc.price, pnl |-> acc.pnl,
                  peak |-> acc.peak, drawdown |-> acc.drawdown]
        /\ acc.lots \in [Symbols -> Seq(Lot)] /\ acc.pnl \in Int
        /\ acc.peak \in Int /\ acc.drawdown \in Int
        /\ trade.quantity \in Int /\ trade.price \in Nat /\ trade.symbol \in Symbols
    BY DEF Book, Lot
  <1>2. none \in Seq(Lot)
    OBVIOUS
  <1>3. new = [lots |-> none, left |-> trade.quantity, price |-> trade.price, pnl |-> acc.pnl,
               peak |-> acc.peak, drawdown |-> acc.drawdown]
    <2>1. new = [acc EXCEPT !.left = trade.quantity, !.price = trade.price, !.lots = none]
      BY DEF Selling
    <2> HIDE DEF new, none
    <2> QED BY <2>1 DEF Book
  <1> HIDE DEF none
  <1>4. /\ new \in Acc /\ new.lots = none /\ new.left = trade.quantity /\ new.price = trade.price
        /\ new.pnl = acc.pnl /\ new.peak = acc.peak /\ new.drawdown = acc.drawdown
    <2> HIDE DEF new
    <2> QED BY <1>1, <1>2, <1>3 DEF Acc
  <1> HIDE DEF new
  <1> QED BY <1>1, <1>4 DEF new, none

\* What a trade does to the lots of its symbol, and a sale to the profit.
LEMMA AccountDoes ==
    ASSUME NEW acc \in Book, NEW trade \in Lot
    PROVE LET x == trade.symbol
              new == Account(acc, trade)
              sale == FoldLeft(Match, Selling(acc, trade), acc.lots[x])
          IN /\ trade.side = "Buy" =>
                  /\ new \in Book /\ new.lots = [acc.lots EXCEPT ![x] = Append(acc.lots[x], trade)]
                  /\ new.pnl = acc.pnl /\ new.peak = acc.peak /\ new.drawdown = acc.drawdown
             /\ (trade.side # "Buy" /\ sale \in Acc) =>
                  /\ new \in Book /\ new.lots = [acc.lots EXCEPT ![x] = sale.lots]
                  /\ new.pnl = sale.pnl /\ new.peak = sale.peak /\ new.drawdown = sale.drawdown
  <1> DEFINE x == trade.symbol
             new == Account(acc, trade)
             sale == FoldLeft(Match, Selling(acc, trade), acc.lots[x])
  <1>1. acc.lots \in [Symbols -> Seq(Lot)] /\ x \in Symbols /\ acc.lots[x] \in Seq(Lot)
    BY DEF Book, Lot
  <1>2. CASE trade.side = "Buy"
    <2> DEFINE more == [acc.lots EXCEPT ![x] = Append(acc.lots[x], trade)]
    <2>1. more \in [Symbols -> Seq(Lot)]
      <3>1. Append(acc.lots[x], trade) \in Seq(Lot)
        BY <1>1
      <3> QED BY <1>1, <3>1
    <2>2. new = [acc EXCEPT !.lots = more]
      BY <1>2 DEF Account
    <2> HIDE DEF more, new
    <2>3. new = [lots |-> more, left |-> acc.left, price |-> acc.price, pnl |-> acc.pnl,
                 peak |-> acc.peak, drawdown |-> acc.drawdown]
      BY <2>2 DEF Book
    <2>4. /\ new \in Book /\ new.lots = more /\ new.pnl = acc.pnl /\ new.peak = acc.peak
          /\ new.drawdown = acc.drawdown
      BY <2>1, <2>3 DEF Book
    <2> QED BY <1>2, <2>4 DEF more, new
  <1>3. CASE trade.side # "Buy" /\ sale \in Acc
    <2> DEFINE more == [acc.lots EXCEPT ![x] = sale.lots]
    <2>1. new = [sale EXCEPT !.lots = more]
      BY <1>3 DEF Account, Selling
    <2>2. sale \in Acc
      BY <1>3
    <2> HIDE DEF sale
    <2>3. more \in [Symbols -> Seq(Lot)]
      <3>1. sale.lots \in Seq(Lot)
        BY <2>2 DEF Acc
      <3> QED BY <1>1, <3>1
    <2> HIDE DEF more, new
    <2>4. new = [lots |-> more, left |-> sale.left, price |-> sale.price, pnl |-> sale.pnl,
                 peak |-> sale.peak, drawdown |-> sale.drawdown]
      BY <2>1, <2>2 DEF Acc
    <2>5. /\ new \in Book /\ new.lots = more /\ new.pnl = sale.pnl /\ new.peak = sale.peak
          /\ new.drawdown = sale.drawdown
      BY <2>2, <2>3, <2>4 DEF Book, Acc
    <2> QED BY <1>3, <2>5 DEF more, new, sale
  <1> QED BY <1>2, <1>3

LEMMA AccountIs ==
    ASSUME NEW acc \in Book, NEW trade \in Lot
    PROVE Account(acc, trade) \in Book
  <1>1. CASE trade.side = "Buy"
    BY <1>1, AccountDoes
  <1>2. CASE trade.side # "Buy"
    <2> DEFINE lots == acc.lots[trade.symbol]
               m == Selling(acc, trade)
    <2>1. m \in Acc /\ lots \in Seq(Lot)
      BY SellingIs
    <2>2. FoldLeft(Match, m, lots) \in Acc
      <3> HIDE DEF lots, m
      <3>1. PICK r \in [0..Len(lots) -> Acc] : FoldLeft(Match, m, lots) = r[Len(lots)]
        BY <2>1, MatchesAre
      <3>2. Len(lots) \in 0..Len(lots)
        BY <2>1
      <3> QED BY <3>1, <3>2
    <2> QED BY <1>2, <2>2, AccountDoes
  <1> QED BY <1>1, <1>2

\* The account of all trades, trade by trade.
LEMMA AccountsAre ==
    ASSUME NEW m \in Book, NEW trades \in Seq(Lot)
    PROVE \E r \in [0..Len(trades) -> Book] :
            /\ r[0] = m /\ \A k \in 1..Len(trades) : r[k] = Account(r[k - 1], trades[k])
            /\ FoldLeft(Account, m, trades) = r[Len(trades)]
  <1> DEFINE N == Len(trades)
             F == [p \in Book \X (1..N) |-> Account(p[1], trades[p[2]])]
             step(g) == [X \in SUBSET DOMAIN trades |->
                           IF X = {} THEN m ELSE Account(g[X \ {Max(X)}], trades[Max(X)])]
             h == CHOOSE g : g = step(g)
  <1>1. FoldLeft(Account, m, trades) = h[DOMAIN trades]
    BY DEF FoldLeft, MapThenFoldSet
  <1>2. N \in Nat /\ DOMAIN trades = 1..N /\ \A k \in 1..N : trades[k] \in Lot
    OBVIOUS
  <1>3. \A a \in Book, k \in 1..N : Account(a, trades[k]) \in Book
    BY <1>2, AccountIs
  <1>4. F \in [Book \X (1..N) -> Book] /\ \A a \in Book, k \in 1..N : F[<<a, k>>] = Account(a, trades[k])
    BY <1>3
  <1> HIDE DEF F, N
  <1>5. PICK g : FoldOf(g, F, Book, m, N)
    BY <1>2, <1>4, FoldsExist
  <1>6. \A X \in SUBSET (1..N) : X # {} => Max(X) \in 1..N /\ X \ {Max(X)} \in SUBSET (1..N)
    BY <1>2, GreatestIs
  <1>7. \A X \in SUBSET (1..N) : g[X] = IF X = {} THEN m ELSE Account(g[X \ {Max(X)}], trades[Max(X)])
    BY <1>4, <1>5, <1>6 DEF FoldOf, Folds
  <1>8. h = step(h)
    <2>1. g = step(g)
      BY <1>2, <1>5, <1>7 DEF FoldOf
    <2> HIDE DEF step
    <2> QED BY <2>1
  <1> HIDE DEF h
  <1>9. \A X \in SUBSET (1..N) : h[X] = IF X = {} THEN m ELSE Account(h[X \ {Max(X)}], trades[Max(X)])
    BY <1>2, <1>8
  <1>10. Agree(h, g, N)
    BY <1>7, <1>9 DEF Agree
  <1> HIDE DEF step
  <1>11. PICK r \in [0..N -> Book] :
           /\ r[0] = m /\ r[N] = h[1..N]
           /\ \A k \in 1..N : r[k] = F[<<r[k - 1], k>>]
    BY <1>5, <1>10, FoldRuns
  <1>12. \A k \in 1..N : r[k - 1] \in Book
    BY <1>2, <1>11
  <1>13. \A k \in 1..N : r[k] = Account(r[k - 1], trades[k])
    BY <1>4, <1>11, <1>12
  <1> QED BY <1>1, <1>2, <1>11, <1>13 DEF N

\* The trades are accounted for in the order of their times.
SortedType == Sorted \in Seq(Lot) /\ \A i \in 1..Len(Sorted) : Sorted[i].quantity > 0

LEMMA SortedIs ==
    ASSUME SortedType, NEW i \in 1..Len(Sorted)
    PROVE /\ Sorted[i] \in Lot /\ Sorted[i].side \in {"Buy", "Sell"} /\ Sorted[i].price \in Nat
          /\ Sorted[i].quantity \in Nat /\ Sorted[i].quantity > 0
  <1> DEFINE lot == Sorted[i]
  <1>1. lot \in Lot /\ lot.quantity > 0
    BY DEF SortedType
  <1> HIDE DEF lot
  <1>2. lot.side \in {"Buy", "Sell"} /\ lot.quantity \in Int /\ lot.price \in Nat
    BY <1>1 DEF Lot
  <1> QED BY <1>1, <1>2 DEF lot

\* What the trades of a set have made after some trade.
LEMMA AmountIs ==
    ASSUME SortedType, NEW set, NEW n \in 0..Len(Sorted)
    PROVE /\ Amount(set, n) \in Nat
          /\ n = 0 => Amount(set, n) = 0
          /\ n > 0 => /\ Amount(set, n - 1) \in Nat
                      /\ Amount(set, n) = Amount(set, n - 1)
                           + (IF n \in set THEN Sorted[n].quantity ELSE 0)
  <1> DEFINE N == Len(Sorted)
             v == [i \in 1..N |-> IF i \in set THEN Sorted[i].quantity ELSE 0]
  <1>1. N \in Nat /\ \A i \in 1..N : Sorted[i].quantity \in Nat /\ v[i] \in Nat
    <2>1. N \in Nat /\ \A i \in 1..N : Sorted[i].quantity \in Nat
      BY SortedIs DEF SortedType
    <2> QED BY <2>1
  <1>2. \A m \in 0..N : Amount(set, m) = Total(v, m)
    <2> SUFFICES ASSUME NEW m \in 0..N PROVE Amount(set, m) = Total(v, m)
      OBVIOUS
    <2>1. \A i \in 1..m : i \in 1..N
      OBVIOUS
    <2>2. [i \in 1..m |-> IF i \in set THEN Sorted[i].quantity ELSE 0] = [i \in 1..m |-> v[i]]
      BY <2>1
    <2> QED BY <2>2 DEF Amount, Total
  <1>3. \A i \in 1..N : v[i] = IF i \in set THEN Sorted[i].quantity ELSE 0
    OBVIOUS
  <1> HIDE DEF v, N
  <1>4. IntOn(v, 1..N)
    BY <1>1 DEF IntOn
  <1>5. ASSUME NEW m \in 0..N
        PROVE /\ Amount(set, m) \in Nat /\ (m = 0 => Amount(set, m) = 0)
              /\ m > 0 => Amount(set, m) = Amount(set, m - 1) + v[m]
    <2>1. /\ Total(v, m) = Sum(v, 1..m) /\ (m = 0 => Total(v, m) = 0)
          /\ m > 0 => Total(v, m) = Total(v, m - 1) + v[m]
      BY <1>1, <1>4, TotalIs
    <2>2. Sum(v, 1..m) \in Nat
      <3>1. 1 \in Int /\ m \in Int /\ \A i \in 1..m : v[i] \in Nat
        BY <1>1
      <3>2. IsFiniteSet(1..m)
        BY <3>1, FS_Interval
      <3> QED BY <3>1, <3>2, SumNat
    <2>3. m > 0 => m - 1 \in 0..N
      BY <1>1
    <2> QED BY <1>2, <2>1, <2>2, <2>3
  <1>6. n \in 0..N /\ (n > 0 => n \in 1..N /\ n - 1 \in 0..N)
    BY <1>1 DEF N
  <1> QED BY <1>3, <1>5, <1>6

\* It never grows less.
LEMMA AmountGrows ==
    ASSUME SortedType, NEW set, NEW j \in 0..Len(Sorted), NEW i \in 0..j
    PROVE Amount(set, i) <= Amount(set, j)
  <1> DEFINE N == Len(Sorted)
             Ok(n) == n <= N => Amount(set, i) <= Amount(set, n)
             T == {n \in Nat : i <= n => Ok(n)}
  <1>1. N \in Nat /\ i \in Nat /\ j \in Nat /\ i <= N /\ j <= N /\ i <= j
    BY DEF SortedType
  <1>2. \A n \in 0..N : Amount(set, n) \in Nat
    BY AmountIs
  <1>3. ASSUME NEW n \in Nat, Ok(n), i <= n PROVE Ok(n + 1)
    <2> SUFFICES ASSUME n + 1 <= N PROVE Amount(set, i) <= Amount(set, n + 1)
      OBVIOUS
    <2>1. n + 1 \in 0..N /\ n \in 0..N /\ (n + 1) - 1 = n /\ n + 1 > 0
      BY <1>1
    <2>2. Amount(set, n + 1) = Amount(set, n)
                + (IF n + 1 \in set THEN Sorted[n + 1].quantity ELSE 0)
      BY <2>1, AmountIs
    <2>3. Sorted[n + 1].quantity \in Nat
      BY <1>1, <2>1, SortedIs
    <2>4. Amount(set, i) <= Amount(set, n)
      BY <1>3, <2>1
    <2>5. Amount(set, i) \in Nat
      BY <1>1, <1>2
    <2>6. Amount(set, n) \in Nat
      BY <1>2, <2>1
    <2> QED BY ONLY <2>2, <2>3, <2>4, <2>5, <2>6
  <1>4. Ok(i)
    BY <1>1, <1>2
  <1> HIDE DEF Ok
  <1>5. 0 \in T
    <2>1. i <= 0 => i = 0
      BY <1>1
    <2> QED BY <1>4, <2>1
  <1>6. ASSUME NEW n \in Nat, n \in T PROVE n + 1 \in T
    <2>1. i <= n + 1 => i <= n \/ i = n + 1
      BY <1>1
    <2> QED BY <1>3, <1>4, <1>6, <2>1
  <1>7. j \in T
    <2> HIDE DEF T
    <2> QED BY <1>1, <1>5, <1>6, EveryNat
  <1> QED BY <1>1, <1>7 DEF Ok

\* The units of a trade have its price.
LEMMA UnitIs ==
    ASSUME SortedType, NEW set, NEW i \in 1..Len(Sorted),
           NEW n \in (Amount(set, i - 1) + 1)..Amount(set, i)
    PROVE TradeOf(set, n) = i /\ UnitPrice(set, n) = Sorted[i].price
  <1> DEFINE N == Len(Sorted)
             Made(k) == Amount(set, k - 1) < n /\ n <= Amount(set, k)
  <1>1. N \in Nat /\ DOMAIN Sorted = 1..N /\ \A k \in 1..N : k \in 0..N /\ k - 1 \in 0..N
    BY DEF SortedType
  <1>2. \A k \in 0..N : Amount(set, k) \in Nat
    BY AmountIs
  <1>3. n \in Nat /\ Made(i)
    BY <1>1, <1>2
  <1>4. ASSUME NEW k \in 1..N, Made(k) PROVE k = i
    <2>1. CASE k < i
      <3>1. k \in 0..(i - 1) /\ i - 1 \in 0..N
        BY <1>1, <2>1
      <3>2. Amount(set, k) <= Amount(set, i - 1)
        BY <3>1, AmountGrows
      <3>3. Amount(set, i) \in Nat /\ Amount(set, i - 1) \in Nat
        BY <1>1, <1>2
      <3>4. Amount(set, k) \in Nat /\ Amount(set, k - 1) \in Nat
        BY <1>1, <1>2
      <3> QED BY ONLY <1>3, <1>4, <3>2, <3>3, <3>4
    <2>2. CASE i < k
      <3>1. i \in 0..(k - 1) /\ k - 1 \in 0..N
        BY <1>1, <2>2
      <3>2. Amount(set, i) <= Amount(set, k - 1)
        BY <3>1, AmountGrows
      <3>3. Amount(set, i) \in Nat /\ Amount(set, i - 1) \in Nat
        BY <1>1, <1>2
      <3>4. Amount(set, k) \in Nat /\ Amount(set, k - 1) \in Nat
        BY <1>1, <1>2
      <3> QED BY ONLY <1>3, <1>4, <3>2, <3>3, <3>4
    <2> QED BY <2>1, <2>2
  <1>5. (CHOOSE k \in DOMAIN Sorted : Made(k)) = i
    <2> HIDE DEF Made
    <2> QED BY <1>1, <1>3, <1>4
  <1> QED BY <1>5 DEF UnitPrice, TradeOf

\* Every unit belongs to a trade.
LEMMA UnitsAre ==
    ASSUME SortedType, NEW set, NEW n \in 1..Amount(set, Len(Sorted))
    PROVE /\ UnitPrice(set, n) \in Nat
          /\ \E i \in 1..Len(Sorted) : i \in set /\ n \in (Amount(set, i - 1) + 1)..Amount(set, i)
  <1> DEFINE N == Len(Sorted)
             T == {i \in 0..N : n <= Amount(set, i)}
  <1>1. N \in Nat /\ N \in 0..N /\ 0 \in 0..N
    BY DEF SortedType
  <1>2. \A k \in 0..N : Amount(set, k) \in Nat
    BY AmountIs
  <1>3. n \in Nat /\ n > 0 /\ N \in T /\ T \in SUBSET Nat
    BY <1>1, <1>2
  <1>4. PICK i \in T : \A k \in T : i <= k
    <2> HIDE DEF T
    <2> QED BY <1>3, LeastNat
  <1>5. i \in 0..N /\ n <= Amount(set, i) /\ \A k \in 0..N : n <= Amount(set, k) => i <= k
    BY <1>4
  <1>6. i # 0
    BY <1>1, <1>3, <1>5, AmountIs
  <1>7. i \in 1..N /\ i - 1 \in 0..N /\ ~(i <= i - 1)
    BY <1>5, <1>6
  <1>8. Amount(set, i - 1) < n
    BY <1>2, <1>3, <1>5, <1>7
  <1>9. n \in (Amount(set, i - 1) + 1)..Amount(set, i)
    BY <1>2, <1>3, <1>5, <1>7, <1>8
  <1>10. UnitPrice(set, n) = Sorted[i].price /\ Sorted[i].price \in Nat
    <2>1. UnitPrice(set, n) = Sorted[i].price
      BY <1>7, <1>9, UnitIs
    <2> QED BY <1>7, <2>1, SortedIs
  <1>11. i \in set
    <2>1. i \in 0..N /\ i > 0
      BY <1>7
    <2>2. i \notin set => Amount(set, i) = Amount(set, i - 1) + 0 /\ Amount(set, i - 1) \in Nat
      BY <2>1, AmountIs
    <2> QED BY <1>2, <1>3, <1>5, <1>8, <2>2
  <1> QED BY <1>7, <1>9, <1>10, <1>11

\* The sales of a symbol are sales.
LEMMA TradeIs ==
    ASSUME SortedType, NEW i \in 1..Len(Sorted)
    PROVE /\ Sorted[i].symbol \in Symbols /\ i \in Of(Sorted[i].side, Sorted[i].symbol)
          /\ i \in Sales <=> Sorted[i].side = "Sell"
          /\ \A side, symbol : i \in Of(side, symbol) <=>
                               Sorted[i].side = side /\ Sorted[i].symbol = symbol
  <1>1. DOMAIN Sorted = 1..Len(Sorted)
    BY DEF SortedType
  <1>2. Sorted[i] \in Lot
    BY SortedIs
  <1> QED BY <1>1, <1>2 DEF Of, Sales, Lot

\* What was sold before a trade, of other symbols.
Others(i) == Amount(Sales, i - 1) - Amount(Of("Sell", Sorted[i].symbol), i - 1)

\* A unit sold cost what the unit bought cost that is as far in its symbol.
LEMMA CostIs ==
    ASSUME SortedType, NeverShort, NEW i \in 1..Len(Sorted), i \in Sales,
           NEW n \in (Amount(Sales, i - 1) + 1)..Amount(Sales, i)
    PROVE /\ Others(i) \in Int
          /\ n - Others(i) \in 1..Amount(Of("Buy", Sorted[i].symbol), Len(Sorted))
          /\ Cost(n) = UnitPrice(Of("Buy", Sorted[i].symbol), n - Others(i))
          /\ Cost(n) \in Nat
  <1> DEFINE N == Len(Sorted)
             x == Sorted[i].symbol
             sold == Of("Sell", x)
             bought == Of("Buy", x)
             q == Sorted[i].quantity
             k == n - Amount(Sales, i - 1) + Amount(sold, i - 1)
  <1>1. N \in Nat /\ i \in 0..N /\ i - 1 \in 0..N /\ i > 0 /\ N \in 0..N /\ i \in 1..N
        /\ DOMAIN Sorted = 1..N
    BY DEF SortedType
  <1>2. x \in Symbols /\ i \in sold /\ q \in Nat
    BY <1>1, TradeIs, SortedIs
  <1> HIDE DEF x, sold, bought, q, N
  <1>3. /\ Amount(Sales, i - 1) \in Nat /\ Amount(Sales, i) = Amount(Sales, i - 1) + q
        /\ Amount(sold, i - 1) \in Nat /\ Amount(sold, i) = Amount(sold, i - 1) + q
    BY <1>1, <1>2, AmountIs DEF N, q
  <1>4. Amount(sold, i) <= Amount(bought, i)
    BY <1>1, <1>2 DEF NeverShort, sold, bought
  <1>5. Amount(bought, i) <= Amount(bought, N)
    BY <1>1, AmountGrows DEF N
  <1>6. Amount(bought, i) \in Nat /\ Amount(bought, N) \in Nat
    BY <1>1, AmountIs DEF N
  <1>7. n \in Nat /\ Amount(Sales, i - 1) < n /\ n <= Amount(Sales, i)
    BY <1>3
  <1>8. k \in 1..Amount(bought, N)
    <2>1. n \in (Amount(Sales, i - 1) + 1)..(Amount(Sales, i - 1) + q)
      BY <1>3
    <2> QED BY ONLY <1>2, <1>3, <1>4, <1>5, <1>6, <1>7
  <1>9. Others(i) \in Int /\ n - Others(i) = k
    BY <1>3, <1>7 DEF Others, sold, x
  <1>10. Cost(n) = UnitPrice(bought, k)
    <2>1. TradeOf(Sales, n) = i
      BY <1>1, UnitIs DEF N
    <2> QED BY <2>1 DEF Cost, bought, sold, x
  <1> HIDE DEF k
  <1>11. UnitPrice(bought, k) \in Nat
    BY <1>8, UnitsAre DEF N
  <1> QED BY <1>8, <1>9, <1>10, <1>11 DEF bought, x, N

\* The profit unit by unit.
LEMMA AfterIs ==
    ASSUME SortedType, NeverShort, NEW n \in 0..Amount(Sales, Len(Sorted))
    PROVE /\ After(n) \in Int
          /\ n = 0 => After(n) = 0
          /\ n > 0 => /\ After(n - 1) \in Int
                      /\ UnitPrice(Sales, n) \in Nat /\ Cost(n) \in Nat
                      /\ After(n) = After(n - 1) + (UnitPrice(Sales, n) - Cost(n))
  <1> DEFINE sold == Amount(Sales, Len(Sorted))
             v == [i \in 1..sold |-> UnitPrice(Sales, i) - Cost(i)]
  <1>1. sold \in Nat
    <2>1. Len(Sorted) \in 0..Len(Sorted)
      BY DEF SortedType
    <2> QED BY <2>1, AmountIs
  <1>3. \A i \in 1..sold : UnitPrice(Sales, i) \in Nat /\ Cost(i) \in Nat
    <2> SUFFICES ASSUME NEW i \in 1..sold PROVE UnitPrice(Sales, i) \in Nat /\ Cost(i) \in Nat
      OBVIOUS
    <2>1. UnitPrice(Sales, i) \in Nat
      BY UnitsAre
    <2>2. PICK j \in 1..Len(Sorted) : j \in Sales /\ i \in (Amount(Sales, j - 1) + 1)..Amount(Sales, j)
      BY UnitsAre
    <2> HIDE DEF sold
    <2> QED BY <2>1, <2>2, CostIs
  <1>4. \A m \in 0..sold : After(m) = Total(v, m)
    <2> SUFFICES ASSUME NEW m \in 0..sold PROVE After(m) = Total(v, m)
      OBVIOUS
    <2>1. \A i \in 1..m : i \in 1..sold
      BY <1>1
    <2>2. [i \in 1..m |-> UnitPrice(Sales, i) - Cost(i)] = [i \in 1..m |-> v[i]]
      BY <2>1
    <2> QED BY <2>2 DEF After, Total
  <1>5. \A i \in 1..sold : v[i] = UnitPrice(Sales, i) - Cost(i)
    OBVIOUS
  <1>6. n \in 0..sold
    OBVIOUS
  <1> HIDE DEF v, sold
  <1>7. IntOn(v, 1..sold)
    BY <1>3, <1>5 DEF IntOn
  <1>8. /\ Total(v, n) \in Int /\ (n = 0 => Total(v, n) = 0)
        /\ n > 0 => Total(v, n) = Total(v, n - 1) + v[n] /\ Total(v, n - 1) \in Int
    BY <1>1, <1>6, <1>7, TotalIs
  <1>9. n > 0 => n \in 1..sold /\ n - 1 \in 0..sold
    BY <1>1, <1>6
  <1> QED BY <1>3, <1>4, <1>5, <1>6, <1>8, <1>9

\* The lots are the units from the a-th to the b-th of some purchases.
Covers(lots, set, a, b) ==
    \E e \in [0..Len(lots) -> Nat] :
      /\ e[0] = a /\ e[Len(lots)] = b
      /\ \A k \in 1..Len(lots) :
           /\ lots[k].quantity > 0 /\ e[k] = e[k - 1] + lots[k].quantity
           /\ \A n \in (e[k - 1] + 1)..e[k] : UnitPrice(set, n) = lots[k].price

LEMMA CoversNone ==
    ASSUME NEW a \in Nat, NEW set
    PROVE Covers(<<>>, set, a, a)
  <1> DEFINE none == <<>>
             e == [k \in 0..0 |-> a]
  <1>1. Len(none) = 0 /\ 1..0 = {} /\ e \in [0..0 -> Nat] /\ e[0] = a
    OBVIOUS
  <1> HIDE DEF none, e
  <1>2. Covers(none, set, a, a)
    BY <1>1 DEF Covers
  <1> QED BY <1>2 DEF none

\* One more lot, of the units bought next.
LEMMA CoversMore ==
    ASSUME NEW lots \in Seq(Lot), NEW set, NEW a, NEW b \in Nat, Covers(lots, set, a, b),
           NEW lot \in Lot, NEW n \in Nat, lot.quantity = n, n > 0,
           \A u \in (b + 1)..(b + n) : UnitPrice(set, u) = lot.price
    PROVE Covers(Append(lots, lot), set, a, b + n)
  <1> DEFINE more == Append(lots, lot)
             N == Len(lots)
  <1>1. /\ N \in Nat /\ Len(more) = N + 1 /\ more[N + 1] = lot
        /\ \A k \in 1..N : more[k] = lots[k]
    OBVIOUS
  <1>2. PICK e \in [0..N -> Nat] :
          /\ e[0] = a /\ e[N] = b
          /\ \A k \in 1..N :
               /\ lots[k].quantity > 0 /\ e[k] = e[k - 1] + lots[k].quantity
               /\ \A u \in (e[k - 1] + 1)..e[k] : UnitPrice(set, u) = lots[k].price
    BY DEF Covers
  <1> DEFINE f == [k \in 0..(N + 1) |-> IF k = N + 1 THEN b + n ELSE e[k]]
  <1>3. \A k \in 0..(N + 1) : k = N + 1 \/ k \in 0..N
    BY <1>1
  <1>4. f \in [0..(N + 1) -> Nat]
    BY <1>2, <1>3
  <1>5. f[N + 1] = b + n /\ \A k \in 0..N : f[k] = e[k]
    BY <1>1
  <1> HIDE DEF f, more, N
  <1>6. 0 \in 0..N /\ N \in 0..N /\ (N + 1) - 1 = N /\ \A k \in 1..N : k \in 0..N /\ k - 1 \in 0..N
    BY <1>1
  <1>7. f[0] = a /\ f[N] = b
    BY <1>2, <1>5, <1>6
  <1>8. ASSUME NEW k \in 1..(N + 1)
        PROVE /\ more[k].quantity > 0 /\ f[k] = f[k - 1] + more[k].quantity
              /\ \A u \in (f[k - 1] + 1)..f[k] : UnitPrice(set, u) = more[k].price
    <2>1. CASE k = N + 1
      BY <1>1, <1>5, <1>6, <1>7, <2>1
    <2>2. CASE k \in 1..N
      BY <1>1, <1>2, <1>5, <1>6, <2>2
    <2> QED BY <1>1, <2>1, <2>2
  <1>9. Covers(more, set, a, b + n)
    <2>1. f \in [0..Len(more) -> Nat] /\ f[0] = a /\ f[Len(more)] = b + n
      BY <1>1, <1>4, <1>5, <1>7
    <2> QED BY <1>1, <1>8, <2>1 DEF Covers
  <1> QED BY <1>9 DEF more

\* The profit after s units sold, its peak and its deepest fall so far.
Tracks(m, s) ==
    /\ m.pnl = After(s)
    /\ \E i \in 0..s : m.peak = After(i)
    /\ \A i \in 0..s : After(i) <= m.peak
    /\ \E i \in 0..s : \E j \in i..s : m.drawdown = After(i) - After(j)
    /\ \A i \in 0..s : \A j \in i..s : After(i) - After(j) <= m.drawdown

\* Units sold one after the other with the same profit make it a straight line.
LEMMA Straight ==
    ASSUME NEW s \in Nat, NEW n \in Nat, NEW d \in Int, After(s) \in Int,
           \A i \in (s + 1)..(s + n) : After(i) = After(i - 1) + d, NEW j \in 0..n
    PROVE After(s + j) = After(s) + d * j
  <1> DEFINE T == {k \in Nat : k <= n => After(s + k) = After(s) + d * k}
  <1>1. 0 \in T
    <2>1. s + 0 = s /\ d * 0 = 0 /\ After(s) + 0 = After(s)
      OBVIOUS
    <2> QED BY <2>1
  <1>2. ASSUME NEW k \in Nat, k \in T PROVE k + 1 \in T
    <2> SUFFICES ASSUME k + 1 <= n PROVE After(s + (k + 1)) = After(s) + d * (k + 1)
      OBVIOUS
    <2>1. s + (k + 1) \in (s + 1)..(s + n) /\ (s + (k + 1)) - 1 = s + k
      OBVIOUS
    <2>2. After(s + (k + 1)) = After(s + k) + d
      BY <2>1
    <2>3. After(s + k) = After(s) + d * k
      BY <1>2
    <2>4. d * (k + 1) = d * k + d /\ d * k \in Int
      OBVIOUS
    <2> QED BY <2>2, <2>3, <2>4
  <1>3. j \in T
    <2> HIDE DEF T
    <2>1. j \in Nat
      OBVIOUS
    <2> QED BY <1>1, <1>2, <2>1, EveryNat
  <1> QED BY <1>3

\* On a straight line the ends are the extremes.
LEMMA Between ==
    ASSUME NEW n \in Nat, NEW d \in Int, NEW i \in 0..n, NEW j \in i..n
    PROVE /\ d * i \in Int /\ d * j \in Int /\ d * n \in Int
          /\ d >= 0 => 0 <= d * i /\ d * i <= d * j /\ d * j <= d * n
          /\ d < 0 => 0 >= d * i /\ d * i >= d * j /\ d * j >= d * n
  <1>1. ASSUME NEW c \in Nat, NEW x \in Nat, NEW y \in Nat, x <= y
        PROVE c * x <= c * y
    <2>1. y - x \in Nat /\ c * (y - x) \in Nat /\ c * y = c * x + c * (y - x) /\ c * x \in Nat
      BY <1>1
    <2> QED BY <2>1
  <1>2. i \in Nat /\ j \in Nat /\ 0 <= i /\ i <= j /\ j <= n
    OBVIOUS
  <1>3. d * 0 = 0 /\ d * i \in Int /\ d * j \in Int /\ d * n \in Int
    BY <1>2
  <1>4. CASE d >= 0
    <2>1. d \in Nat /\ d * 0 <= d * i /\ d * i <= d * j /\ d * j <= d * n
      BY <1>1, <1>2, <1>4
    <2> QED BY <1>3, <1>4, <2>1
  <1>5. CASE d < 0
    <2> DEFINE c == -d
    <2>1. c \in Nat
      BY <1>5
    <2>2. c * i = -(d * i) /\ c * j = -(d * j) /\ c * n = -(d * n) /\ c * 0 = 0
      BY <1>2
    <2> HIDE DEF c
    <2>3. c * 0 <= c * i /\ c * i <= c * j /\ c * j <= c * n
      BY <1>1, <1>2, <2>1
    <2> QED BY <1>3, <1>5, <2>2, <2>3
  <1> QED BY <1>4, <1>5

\* n more units, each with the profit d, in one turn.
LEMMA TracksOn ==
    ASSUME NEW s \in Nat, NEW n \in Nat, NEW d \in Int,
           \A i \in 0..(s + n) : After(i) \in Int,
           \A i \in (s + 1)..(s + n) : After(i) = After(i - 1) + d,
           NEW m \in Acc, Tracks(m, s), NEW new \in Acc,
           new.pnl = m.pnl + d * n,
           new.peak = (IF m.peak <= new.pnl THEN new.pnl ELSE m.peak),
           new.drawdown = (IF m.drawdown <= new.peak - new.pnl THEN new.peak - new.pnl
                           ELSE m.drawdown)
    PROVE Tracks(new, s + n)
  <1> DEFINE t == s + n
             old == After(s)
  <1>1. /\ m.pnl \in Int /\ m.peak \in Int /\ m.drawdown \in Int
        /\ new.pnl \in Int /\ new.peak \in Int /\ new.drawdown \in Int
    BY DEF Acc
  <1>2. /\ s \in 0..t /\ t \in 0..t /\ old \in Int /\ t \in Nat
        /\ \A i \in 0..s : i \in 0..t /\ After(i) \in Int
        /\ \A i \in 0..t : i \in 0..s \/ \E k \in 0..n : i = s + k
    <2>1. \A i \in 0..t : i \in 0..s \/ (i - s \in 0..n /\ i = s + (i - s))
      OBVIOUS
    <2> QED BY <2>1
  <1>3. \A k \in 0..n : After(s + k) = old + d * k
    BY <1>2, Straight
  <1>4. After(t) = old + d * n /\ m.pnl = old /\ new.pnl = After(t)
    BY <1>3 DEF Tracks
  <1>5. /\ \E i \in 0..s : m.peak = After(i)
        /\ \A i \in 0..s : After(i) <= m.peak
        /\ \E i \in 0..s : \E j \in i..s : m.drawdown = After(i) - After(j)
        /\ \A i \in 0..s : \A j \in i..s : After(i) - After(j) <= m.drawdown
    BY DEF Tracks
  <1>6. new.peak >= m.peak /\ new.peak >= new.pnl /\ new.peak \in {m.peak, new.pnl}
    BY <1>1
  <1>7. /\ new.drawdown >= m.drawdown /\ new.drawdown >= new.peak - new.pnl
        /\ new.drawdown = m.drawdown \/ new.drawdown = new.peak - new.pnl
    BY <1>1
  <1>8. old <= m.peak /\ m.drawdown >= 0
    <2>1. s \in 0..s /\ s \in s..s
      OBVIOUS
    <2>2. After(s) <= m.peak /\ After(s) - After(s) <= m.drawdown
      BY <1>5, <2>1
    <2> QED BY <1>1, <1>2, <2>2
  <1> HIDE DEF old
  \* Where a line leads, and how the units on it compare.
  <1>9. ASSUME NEW k \in 0..n, NEW l \in k..n
        PROVE /\ d * k \in Int /\ d * l \in Int /\ d * n \in Int
              /\ d >= 0 => 0 <= d * k /\ d * k <= d * l /\ d * l <= d * n
              /\ d < 0 => 0 >= d * k /\ d * k >= d * l /\ d * l >= d * n
    BY Between
  <1>10. \E i \in 0..t : new.peak = After(i)
    BY <1>2, <1>4, <1>5, <1>6
  <1>11. ASSUME NEW i \in 0..t PROVE After(i) <= new.peak
    <2>1. CASE i \in 0..s
      BY <1>1, <1>2, <1>5, <1>6, <2>1
    <2>2. CASE \E k \in 0..n : i = s + k
      <3>1. PICK k \in 0..n : i = s + k
        BY <2>2
      <3>2. k \in k..n /\ After(i) = old + d * k
        BY <1>3, <3>1
      <3>3. /\ d * k \in Int /\ d * n \in Int
            /\ d >= 0 => d * k <= d * n
            /\ d < 0 => 0 >= d * k
        BY <1>9, <3>2
      <3> QED BY <1>1, <1>2, <1>4, <1>6, <1>8, <3>2, <3>3
    <2> QED BY <1>2, <2>1, <2>2
  <1>12. \E i \in 0..t : \E j \in i..t : new.drawdown = After(i) - After(j)
    <2>1. CASE new.drawdown = m.drawdown
      <3>0. PICK i \in 0..s : \E j \in i..s : m.drawdown = After(i) - After(j)
        BY <1>5
      <3>1. PICK j \in i..s : m.drawdown = After(i) - After(j)
        BY <3>0
      <3>2. i \in 0..t /\ j \in i..t
        OBVIOUS
      <3> QED BY <2>1, <3>1, <3>2
    <2>2. CASE new.drawdown = new.peak - new.pnl
      <3>1. PICK i \in 0..t : new.peak = After(i)
        BY <1>10
      <3>2. t \in i..t
        BY <1>2
      <3> QED BY <1>4, <2>2, <3>1, <3>2
    <2> QED BY <1>7, <2>1, <2>2
  <1>13. ASSUME NEW i \in 0..t, NEW j \in i..t PROVE After(i) - After(j) <= new.drawdown
    <2>0. j \in 0..t /\ After(i) \in Int /\ After(j) \in Int
      BY <1>2
    <2>1. CASE j \in 0..s
      <3>1. i \in 0..s /\ j \in i..s
        BY <1>2, <2>1
      <3>2. After(i) - After(j) <= m.drawdown
        BY <1>5, <3>1
      <3> QED BY <1>1, <1>7, <2>0, <3>2
    <2>2. CASE \E l \in 0..n : j = s + l
      <3>1. PICK l \in 0..n : j = s + l
        BY <2>2
      <3>2. l \in l..n /\ After(j) = old + d * l
        BY <1>3, <3>1
      <3>3. /\ d * l \in Int /\ d * n \in Int
            /\ d >= 0 => 0 <= d * l
            /\ d < 0 => d * l >= d * n
        BY <1>9, <3>2
      <3>4. CASE d >= 0 /\ i \in 0..s
        <4>1. s \in i..s
          BY <3>4
        <4>2. After(i) - After(s) <= m.drawdown
          BY <1>5, <3>4, <4>1
        <4>3. After(s) = old
          BY DEF old
        <4> QED BY <1>1, <1>2, <1>7, <2>0, <3>2, <3>3, <3>4, <4>2, <4>3
      <3>5. CASE d < 0 /\ i \in 0..s
        <4>1. After(i) <= m.peak
          BY <1>5, <3>5
        <4> QED BY <1>1, <1>2, <1>4, <1>6, <1>7, <2>0, <3>2, <3>3, <3>5, <4>1
      <3>6. CASE \E k \in 0..n : i = s + k
        <4>1. PICK k \in 0..n : i = s + k
          BY <3>6
        <4>2. l \in k..n /\ k \in k..n
          BY <3>1, <4>1
        <4>3. After(i) = old + d * k
          BY <1>3, <4>1
        <4>4. /\ d * k \in Int
              /\ d >= 0 => d * k <= d * l
              /\ d < 0 => 0 >= d * k
          BY <1>9, <4>2
        <4>5. d < 0 => After(j) >= new.pnl
          BY <1>1, <1>2, <1>4, <3>2, <3>3
        <4>6. d < 0 => After(i) <= new.peak
          BY <1>1, <1>2, <1>6, <1>8, <4>3, <4>4
        <4>7. d >= 0 => After(i) <= After(j)
          BY <1>2, <3>2, <3>3, <4>3, <4>4
        <4> HIDE DEF t
        <4>8. CASE d < 0
          BY <1>1, <1>7, <2>0, <4>5, <4>6, <4>8
        <4>9. CASE d >= 0
          BY <1>1, <1>7, <1>8, <2>0, <4>7, <4>9
        <4> QED BY <4>8, <4>9
      <3> QED BY <1>2, <3>4, <3>5, <3>6
    <2> QED BY <1>2, <2>0, <2>1, <2>2
  <1> QED BY <1>4, <1>10, <1>11, <1>12, <1>13 DEF Tracks

\* Whoever sells has bought before: the units sold have an After.
Afters(n) ==
    /\ \A i \in 0..n : After(i) \in Int
    /\ \A i \in 1..n : After(i) = After(i - 1) + (UnitPrice(Sales, i) - Cost(i))

\* In a sale at price p, of the units from s to t: of the purchases of its
\* symbol, whose units are o behind those sold, the lots up to the c-th unit have
\* had their turn.
InSale(m, set, p, s, t, o, c) ==
    /\ m \in Acc /\ m.left \in 0..(t - s) /\ m.price = p
    /\ Covers(m.lots, set, (t - m.left) - o, c) /\ Tracks(m, t - m.left)
    /\ m.left > 0 => m.lots = <<>> /\ (t - m.left) - o = c

LEMMA MatchStep ==
    ASSUME NEW s \in Nat, NEW t \in Nat, s <= t, Afters(t), NEW p \in Nat,
           NEW set, NEW o \in Int, o <= s,
           \A u \in (s + 1)..t : UnitPrice(Sales, u) = p /\ Cost(u) = UnitPrice(set, u - o),
           NEW c \in Nat, NEW m, InSale(m, set, p, s, t, o, c),
           NEW lot \in Lot, lot.quantity > 0,
           \A u \in (c + 1)..(c + lot.quantity) : UnitPrice(set, u) = lot.price
    PROVE InSale(Match(m, lot), set, p, s, t, o, c + lot.quantity)
  <1> DEFINE Q == lot.quantity
             n == Taken(m, lot)
             new == Match(m, lot)
             x == t - m.left
             y == t - new.left
             d == p - lot.price
  <1>1. /\ m \in Acc /\ m.left \in Nat /\ m.left <= t - s /\ m.price = p
        /\ Covers(m.lots, set, x - o, c) /\ Tracks(m, x) /\ m.lots \in Seq(Lot)
        /\ m.left > 0 => m.lots = <<>> /\ x - o = c
    BY DEF InSale, Acc
  <1>2. Q \in Nat /\ Q > 0 /\ lot.price \in Nat /\ lot.price \in Int
    BY DEF Lot
  <1>3. /\ n \in Nat /\ n <= m.left /\ n <= Q
        /\ n < Q => n = m.left
    BY <1>1, <1>2 DEF Taken
  <1>4. /\ new \in Acc /\ new.left = m.left - n /\ new.price = p
        /\ new.pnl = m.pnl + d * n
        /\ new.peak = IF m.peak <= new.pnl THEN new.pnl ELSE m.peak
        /\ new.drawdown = IF m.drawdown <= new.peak - new.pnl THEN new.peak - new.pnl ELSE m.drawdown
        /\ new.lots = IF n < Q THEN Append(m.lots, [lot EXCEPT !.quantity = @ - n]) ELSE m.lots
    BY <1>1, MatchIs
  <1> HIDE DEF n, new
  <1>5. /\ x \in Nat /\ y \in Nat /\ d \in Int /\ y = x + n /\ s <= x /\ y <= t
        /\ x - o \in Nat /\ y - o \in Nat /\ y - o = (x - o) + n
        /\ new.left \in 0..(t - s)
    <2>1. new.left = m.left - n /\ m.left \in Nat /\ m.left <= t - s
      BY <1>1, <1>4
    <2>2. o \in Int /\ o <= s /\ s \in Nat /\ t \in Nat /\ p \in Nat /\ s <= t /\ lot.price \in Nat /\ n \in Nat /\ n <= m.left
      BY <1>2, <1>3
    <2> HIDE DEF Q
    <2>3. new.left \in Nat /\ new.left <= m.left /\ m.left - new.left = n
      BY ONLY <2>1, <2>2
    <2> QED BY ONLY <2>1, <2>2, <2>3
  \* The units sold in this turn.
  <1>6. \A i \in 0..(x + n) : After(i) \in Int
    BY <1>5 DEF Afters
  <1>7. \A i \in (x + 1)..(x + n) : After(i) = After(i - 1) + d
    <2> SUFFICES ASSUME NEW i \in (x + 1)..(x + n) PROVE After(i) = After(i - 1) + d
      OBVIOUS
    <2>1. m.left > 0 /\ i - o \in (c + 1)..(c + Q) /\ i \in (s + 1)..t /\ i \in 1..t
      <3>1. i \in (x + 1)..(x + n) /\ s \in Nat /\ t \in Nat /\ n \in Nat /\ x \in Nat /\ Q \in Nat
        BY <1>2, <1>3, <1>5
      <3> HIDE DEF x, y, Q
      <3>2. n > 0 /\ i \in Nat
        BY <3>1
      <3>3. m.left > 0 /\ x - o = c
        BY <1>1, <1>3, <3>2
      <3>4. i \in (s + 1)..t /\ i \in 1..t
        BY <1>5, <3>1
      <3>5. i - o \in (c + 1)..(c + Q)
        BY <1>3, <3>1, <3>3
      <3> QED BY <3>3, <3>4, <3>5
    <2>2. UnitPrice(Sales, i) = p /\ Cost(i) = lot.price
      BY <2>1
    <2> QED BY <2>1, <2>2 DEF Afters
  <1>8. Tracks(new, y)
    <2>1. Tracks(new, x + n)
      <3> HIDE DEF x, y, d
      <3> QED BY <1>1, <1>3, <1>4, <1>5, <1>6, <1>7, TracksOn
    <2> QED BY <1>5, <2>1
  <1>9. Covers(new.lots, set, y - o, c + Q) /\ (new.left > 0 => new.lots = <<>> /\ y - o = c + Q)
    <2>1. CASE n < Q
      <3> DEFINE rest == [lot EXCEPT !.quantity = @ - n]
                 part == Q - n
                 b == c + n
      <3>1. n = m.left /\ new.left = 0 /\ y = t /\ x + n = t
        BY <1>1, <1>3, <1>4, <1>5, <2>1
      <3>2. rest = [symbol |-> lot.symbol, time |-> lot.time, side |-> lot.side,
                    quantity |-> Q - n, price |-> lot.price]
        BY DEF Lot
      <3>3. /\ part \in Nat /\ part > 0 /\ Q - n \in Int /\ lot.side \in {"Buy", "Sell"}
            /\ lot.symbol \in Symbols /\ lot.time \in Nat
        BY <1>2, <1>3, <2>1 DEF Lot
      <3>4. rest \in Lot /\ rest.quantity = part /\ rest.price = lot.price
        <4> HIDE DEF rest, Q
        <4> QED BY <1>2, <3>2, <3>3 DEF Lot, part
      <3>5. new.lots = Append(m.lots, rest)
        BY <1>4, <2>1
      <3> HIDE DEF rest
      <3>6. Covers(m.lots, set, y - o, b) /\ b \in Nat /\ b + part = c + Q
        <4>1. CASE m.left > 0
          <5>1. m.lots = <<>> /\ x - o = c /\ y - o = b /\ y - o \in Nat
            BY <1>1, <1>5, <4>1
          <5> HIDE DEF b, y
          <5>2. Covers(<<>>, set, y - o, y - o)
            BY <5>1, CoversNone
          <5>3. Covers(m.lots, set, y - o, b)
            BY <5>1, <5>2
          <5> QED BY <1>2, <1>3, <5>3 DEF b
        <4>2. CASE m.left = 0
          <5>1. y = x /\ b = c
            BY <1>3, <1>5, <3>1, <4>2
          <5> QED BY <1>1, <1>2, <1>3, <5>1
        <4> QED BY <1>1, <4>1, <4>2
      <3>7. \A u \in (b + 1)..(b + part) : u \in (c + 1)..(c + Q)
        BY <1>2, <1>3
      <3>8. \A u \in (b + 1)..(b + part) : UnitPrice(set, u) = rest.price
        BY <3>4, <3>7
      <3>9. Covers(Append(m.lots, rest), set, y - o, b + part)
        <4> HIDE DEF b, part, y
        <4> QED BY <1>1, <3>3, <3>4, <3>6, <3>8, CoversMore
      <3> QED BY <3>1, <3>5, <3>6, <3>9
    <2>2. CASE n = Q
      <3>1. m.left > 0 /\ m.lots = <<>> /\ new.lots = <<>> /\ y - o = c + Q
        <4> HIDE DEF x, y, Q
        <4>1. m.left > 0 /\ ~(n < Q)
          BY <1>1, <1>2, <1>3, <2>2
        <4>2. m.lots = <<>> /\ x - o = c
          BY <1>1, <4>1
        <4>3. new.lots = m.lots
          BY <1>4, <4>1
        <4> QED BY <1>5, <2>2, <4>1, <4>2, <4>3
      <3>2. Covers(<<>>, set, y - o, y - o)
        <4> HIDE DEF y
        <4> QED BY <1>5, CoversNone
      <3> QED BY <3>1, <3>2
    <2> QED BY <1>2, <1>3, <2>1, <2>2
  <1> QED BY <1>4, <1>5, <1>8, <1>9 DEF InSale, new

\* A sale of units that are held.
LEMMA SaleStep ==
    ASSUME NEW acc \in Book, NEW trade \in Lot, trade.side # "Buy", trade.quantity > 0,
           NEW s \in Nat, NEW t \in Nat, t = s + trade.quantity, Afters(t),
           NEW set, NEW o \in Int, o <= s,
           \A u \in (s + 1)..t : UnitPrice(Sales, u) = trade.price /\ Cost(u) = UnitPrice(set, u - o),
           NEW b \in Nat, t - o <= b, Tracks(acc, s),
           Covers(acc.lots[trade.symbol], set, s - o, b)
    PROVE LET new == Account(acc, trade)
              left == new.lots[trade.symbol]
          IN /\ Tracks(new, t) /\ Covers(left, set, t - o, b)
             /\ \A x \in Symbols : x # trade.symbol => new.lots[x] = acc.lots[x]
  <1> DEFINE lots == acc.lots[trade.symbol]
             N == Len(lots)
             p == trade.price
             m == Selling(acc, trade)
  <1>1. trade.quantity \in Nat /\ p \in Nat /\ t - s = trade.quantity /\ t - trade.quantity = s
        /\ s - o \in Nat
    BY DEF Lot
  <1>2. /\ m \in Acc /\ lots \in Seq(Lot) /\ m.lots = <<>> /\ m.left = trade.quantity /\ m.price = p
        /\ m.pnl = acc.pnl /\ m.peak = acc.peak /\ m.drawdown = acc.drawdown
        /\ trade.symbol \in Symbols
    BY SellingIs
  <1>3. PICK e \in [0..N -> Nat] :
          /\ e[0] = s - o /\ e[N] = b
          /\ \A k \in 1..N :
               /\ lots[k].quantity > 0 /\ e[k] = e[k - 1] + lots[k].quantity
               /\ \A u \in (e[k - 1] + 1)..e[k] : UnitPrice(set, u) = lots[k].price
    BY DEF Covers
  <1> HIDE DEF m
  <1>4. PICK r \in [0..N -> Acc] :
          /\ r[0] = m /\ \A k \in 1..N : r[k] = Match(r[k - 1], lots[k])
          /\ FoldLeft(Match, m, lots) = r[N]
    <2> HIDE DEF lots
    <2> QED BY <1>2, MatchesAre
  <1>5. N \in Nat /\ \A k \in 1..N : lots[k] \in Lot /\ k \in 0..N /\ k - 1 \in 0..N
    BY <1>2
  <1> DEFINE Ok(k) == InSale(r[k], set, p, s, t, o, e[k])
             T == {k \in Nat : k <= N => Ok(k)}
  <1>6. Ok(0)
    <2>1. InSale(m, set, p, s, t, o, s - o)
      <3>1. Tracks(m, s)
        BY <1>2 DEF Tracks
      <3>2. Covers(<<>>, set, s - o, s - o)
        BY <1>1, CoversNone
      <3>3. m.left \in 0..(t - s) /\ t - m.left = s
        BY <1>1, <1>2
      <3>4. Covers(m.lots, set, (t - m.left) - o, s - o) /\ Tracks(m, t - m.left)
        BY <1>2, <3>1, <3>2, <3>3
      <3> QED BY <1>2, <3>3, <3>4 DEF InSale
    <2> QED BY <1>3, <1>4, <2>1
  <1>7. ASSUME NEW k \in Nat, k + 1 <= N, Ok(k) PROVE Ok(k + 1)
    <2> DEFINE lot == lots[k + 1]
               c == e[k]
               y == r[k]
    <2>1. k + 1 \in 1..N /\ (k + 1) - 1 = k /\ k \in 0..N
      BY <1>5, <1>7
    <2>2. /\ lot \in Lot /\ lot.quantity > 0 /\ c \in Nat /\ e[k + 1] = c + lot.quantity
          /\ \A u \in (c + 1)..e[k + 1] : UnitPrice(set, u) = lot.price
          /\ r[k + 1] = Match(y, lot) /\ InSale(y, set, p, s, t, o, c)
      BY <1>3, <1>4, <1>5, <1>7, <2>1
    <2> HIDE DEF lot, c, y, N, lots
    <2>3. \A u \in (c + 1)..(c + lot.quantity) : UnitPrice(set, u) = lot.price
      BY <2>2
    <2>4. s <= t /\ \A u \in (s + 1)..t : UnitPrice(Sales, u) = p /\ Cost(u) = UnitPrice(set, u - o)
      <3>1. s <= t
        <4>1. s \in Nat /\ t \in Nat /\ t - s = trade.quantity /\ trade.quantity \in Nat
          BY <1>1
        <4> QED BY ONLY <4>1
      <3> QED BY <3>1
    <2> HIDE DEF p
    <2>5. InSale(Match(y, lot), set, p, s, t, o, c + lot.quantity)
      BY <1>1, <2>2, <2>3, <2>4, MatchStep
    <2> QED BY <2>2, <2>5
  <1> HIDE DEF Ok, N
  <1>8. N \in T
    <2>1. 0 \in T /\ \A k \in Nat : k \in T => k + 1 \in T
      <3>1. 0 \in T
        BY <1>6
      <3>2. ASSUME NEW k \in Nat, k \in T PROVE k + 1 \in T
        <4>1. k + 1 <= N => k <= N
          BY <1>5
        <4> QED BY <1>7, <3>2, <4>1
      <3> QED BY <3>1, <3>2
    <2> HIDE DEF T
    <2> QED BY <1>5, <2>1, EveryNat
  <1> DEFINE last == r[N]
  <1>9. InSale(last, set, p, s, t, o, b)
    <2>1. Ok(N)
      BY <1>5, <1>8
    <2> QED BY <1>3, <2>1 DEF Ok
  <1>10. last = FoldLeft(Match, m, lots)
    BY <1>4
  <1> HIDE DEF last
  <1>11. last \in Acc /\ last.left \in Nat /\ (last.left > 0 => (t - last.left) - o = b)
    BY <1>1, <1>9 DEF InSale
  <1>12. last.left = 0 /\ t - last.left = t
    BY <1>11
  <1>13. Covers(last.lots, set, t - o, b) /\ Tracks(last, t)
    BY <1>9, <1>12 DEF InSale
  <1> DEFINE new == Account(acc, trade)
  <1>14. /\ new.lots = [acc.lots EXCEPT ![trade.symbol] = last.lots]
         /\ new.pnl = last.pnl /\ new.peak = last.peak /\ new.drawdown = last.drawdown
    BY <1>10, <1>11, AccountDoes DEF m
  <1> HIDE DEF new
  <1>15. acc.lots \in [Symbols -> Seq(Lot)]
    BY DEF Book
  <1>16. new.lots[trade.symbol] = last.lots
         /\ \A x \in Symbols : x # trade.symbol => new.lots[x] = acc.lots[x]
    BY <1>2, <1>14, <1>15
  <1>17. Tracks(new, t)
    BY <1>13, <1>14 DEF Tracks
  <1> QED BY <1>13, <1>16, <1>17 DEF new

\* All trades: the lots left are what was bought of each symbol and not sold.
LEMMA AccountsHold ==
    ASSUME SortedType, NeverShort
    PROVE /\ MetricsData \in Book /\ Tracks(MetricsData, Amount(Sales, Len(Sorted)))
          /\ Amount(Sales, Len(Sorted)) \in Nat /\ Afters(Amount(Sales, Len(Sorted)))
  <1> DEFINE N == Len(Sorted)
             sold == Amount(Sales, N)
             none == [symbol \in Symbols |-> <<>>]
             start == [lots |-> none, left |-> 0, price |-> 0, pnl |-> 0, peak |-> 0, drawdown |-> 0]
  <1>1. N \in Nat /\ N \in 0..N /\ 0 \in 0..N /\ DOMAIN Sorted = 1..N /\ Sorted \in Seq(Lot)
    BY DEF SortedType
  <1>2. \A set : \A n \in 0..N : Amount(set, n) \in Nat /\ (n = 0 => Amount(set, n) = 0)
    BY AmountIs
  <1>3. sold \in Nat
    BY <1>1, <1>2
  <1>4. Afters(sold) /\ After(0) = 0
    <2>1. \A i \in 0..sold : After(i) \in Int /\ (i = 0 => After(i) = 0)
      BY AfterIs
    <2>2. \A i \in 1..sold : After(i) = After(i - 1) + (UnitPrice(Sales, i) - Cost(i))
      <3>1. \A i \in 1..sold : i \in 0..sold /\ i > 0
        BY <1>3
      <3> QED BY <3>1, AfterIs
    <2>3. 0 \in 0..sold
      BY <1>3
    <2> QED BY <2>1, <2>2, <2>3 DEF Afters
  <1>5. start \in Book /\ start.lots = none /\ start.pnl = 0 /\ start.peak = 0 /\ start.drawdown = 0
    <2>1. none \in [Symbols -> Seq(Lot)]
      OBVIOUS
    <2> HIDE DEF none
    <2> QED BY <2>1 DEF Book
  <1> HIDE DEF start
  <1>6. PICK r \in [0..N -> Book] :
          /\ r[0] = start /\ \A k \in 1..N : r[k] = Account(r[k - 1], Sorted[k])
          /\ FoldLeft(Account, start, Sorted) = r[N]
    BY <1>1, <1>5, AccountsAre
  <1>7. MetricsData = r[N]
    BY <1>6 DEF MetricsData, start, none
  <1> DEFINE Left(book, x, k) == Covers(book.lots[x], Of("Buy", x), Amount(Of("Sell", x), k),
                                        Amount(Of("Buy", x), k))
             Ok(k) == Tracks(r[k], Amount(Sales, k)) /\ \A x \in Symbols : Left(r[k], x, k)
             T == {k \in Nat : k <= N => Ok(k)}
  <1>8. Ok(0)
    <2>1. ASSUME NEW x \in Symbols PROVE Left(start, x, 0)
      <3>1. Covers(<<>>, Of("Buy", x), 0, 0)
        BY CoversNone
      <3>2. start.lots[x] = <<>>
        BY <1>5
      <3> QED BY <1>1, <1>2, <3>1, <3>2
    <2>2. Tracks(start, 0)
      <3>1. 0 \in 0..0 /\ \A i \in 0..0 : i = 0 /\ \A j \in i..0 : j = 0
        OBVIOUS
      <3> QED BY <1>4, <1>5, <3>1 DEF Tracks
    <2>3. Amount(Sales, 0) = 0
      BY <1>1, <1>2
    <2> HIDE DEF Left
    <2> QED BY <1>6, <2>1, <2>2, <2>3
  <1>9. ASSUME NEW k \in Nat, k + 1 <= N, Ok(k) PROVE Ok(k + 1)
    <2> DEFINE i == k + 1
               trade == Sorted[i]
               z == trade.symbol
               acc == r[k]
               new == r[i]
               s == Amount(Sales, k)
               q == trade.quantity
               bought == Of("Buy", z)
               gone == Of("Sell", z)
               b == Amount(bought, k)
               g == Amount(gone, k)
    <2>1. i \in 1..N /\ i - 1 = k /\ k \in 0..N /\ i \in 0..N /\ i > 0
      BY <1>1, <1>9
    <2>2. /\ acc \in Book /\ new = Account(acc, trade) /\ Tracks(acc, s)
          /\ \A x \in Symbols : Left(acc, x, k)
      <3> HIDE DEF Left
      <3> QED BY <1>6, <1>9, <2>1
    <2>3. trade \in Lot /\ trade.side \in {"Buy", "Sell"} /\ q \in Nat /\ q > 0 /\ trade.price \in Nat
      BY <2>1, SortedIs
    <2>4. s \in Nat /\ b \in Nat /\ g \in Nat
      BY <1>2, <2>1
    <2>5. \A set : Amount(set, i) = Amount(set, k) + (IF i \in set THEN q ELSE 0)
                    /\ Amount(set, k) \in Nat
      BY <2>1, AmountIs
    <2>6. /\ z \in Symbols /\ (i \in Sales <=> trade.side = "Sell")
          /\ \A side, symbol : i \in Of(side, symbol) <=> trade.side = side /\ z = symbol
      BY <2>1, TradeIs
    <2>7. \A set : \A u \in (Amount(set, k) + 1)..Amount(set, i) : UnitPrice(set, u) = trade.price
      BY <2>1, UnitIs
    <2>8. Amount(Sales, i) <= sold
      BY <1>1, <2>1, AmountGrows
    \* Other symbols keep their lots and amounts.
    <2>9. ASSUME NEW x \in Symbols, x # z, new.lots[x] = acc.lots[x] PROVE Left(new, x, i)
      <3>1. i \notin Of("Buy", x) /\ i \notin Of("Sell", x)
        BY <2>6, <2>9
      <3>2. Amount(Of("Buy", x), i) = Amount(Of("Buy", x), k)
            /\ Amount(Of("Sell", x), i) = Amount(Of("Sell", x), k)
        BY <2>5, <3>1
      <3> HIDE DEF new, acc, i
      <3> QED BY <2>2, <2>9, <3>2
    <2>10. CASE trade.side = "Buy"
      <3>1. Amount(bought, i) = b + q /\ Amount(gone, i) = g /\ Amount(Sales, i) = s
        <4>1. i \in bought /\ i \notin gone /\ i \notin Sales
          BY <2>6, <2>10
        <4> QED BY <2>4, <2>5, <4>1
      <3>2. \A u \in (b + 1)..(b + q) : UnitPrice(bought, u) = trade.price
        BY <2>7, <3>1
      <3>3. /\ new.lots = [acc.lots EXCEPT ![z] = Append(acc.lots[z], trade)]
            /\ new.pnl = acc.pnl /\ new.peak = acc.peak /\ new.drawdown = acc.drawdown
        <4>1. z = trade.symbol
          OBVIOUS
        <4> HIDE DEF acc, new, z, trade
        <4>2. /\ Account(acc, trade).lots = [acc.lots EXCEPT ![z] = Append(acc.lots[z], trade)]
              /\ Account(acc, trade).pnl = acc.pnl /\ Account(acc, trade).peak = acc.peak
              /\ Account(acc, trade).drawdown = acc.drawdown
          BY <2>2, <2>3, <2>10, <4>1, AccountDoes
        <4> QED BY <2>2, <4>2
      <3>4. acc.lots \in [Symbols -> Seq(Lot)] /\ acc.lots[z] \in Seq(Lot)
        BY <2>2, <2>6 DEF Book
      <3> HIDE DEF acc, new, z, trade
      <3>5. new.lots[z] = Append(acc.lots[z], trade)
            /\ \A x \in Symbols : x # z => new.lots[x] = acc.lots[x]
        BY <2>6, <3>3, <3>4
      <3>6. Left(new, z, i)
        <4>1. trade.quantity = q /\ Covers(acc.lots[z], bought, g, b)
          BY <2>2, <2>6
        <4> HIDE DEF b, g, q
        <4>2. Covers(Append(acc.lots[z], trade), bought, g, b + q)
          BY <2>3, <2>4, <3>2, <3>4, <4>1, CoversMore
        <4> QED BY <3>1, <3>5, <4>2
      <3>7. Tracks(new, s)
        BY <2>2, <3>3 DEF Tracks
      <3> HIDE DEF Left
      <3>8. \A x \in Symbols : Left(new, x, i)
        BY <2>9, <3>5, <3>6
      <3> QED BY <3>1, <3>7, <3>8 DEF new
    <2>11. CASE trade.side # "Buy"
      <3> DEFINE t == s + q
                 o == Others(i)
      <3>1. trade.side = "Sell" /\ i \in gone /\ i \notin bought /\ i \in Sales
        BY <2>3, <2>6, <2>11
      <3>2. Amount(bought, i) = b /\ Amount(gone, i) = g + q /\ Amount(Sales, i) = t
        BY <2>4, <2>5, <3>1
      <3>3. t \in Nat /\ t <= sold /\ o = s - g /\ o \in Int /\ o <= s /\ s - o = g /\ t - o = g + q
        BY <1>3, <2>1, <2>3, <2>4, <2>8, <3>2 DEF Others
      <3>4. g + q <= b
        BY <1>1, <2>1, <2>6, <3>2 DEF NeverShort
      <3>5. Afters(t)
        <4>1. (\A j \in 0..t : j \in 0..sold) /\ \A j \in 1..t : j \in 1..sold
          BY <1>3, <3>3
        <4> QED BY <1>4, <4>1 DEF Afters
      <3>6. \A u \in (s + 1)..t : UnitPrice(Sales, u) = trade.price /\ Cost(u) = UnitPrice(bought, u - o)
        <4> SUFFICES ASSUME NEW u \in (s + 1)..t
                     PROVE UnitPrice(Sales, u) = trade.price /\ Cost(u) = UnitPrice(bought, u - o)
          OBVIOUS
        <4>1. u \in (Amount(Sales, i - 1) + 1)..Amount(Sales, i)
          BY <2>1, <3>2
        <4>2. UnitPrice(Sales, u) = trade.price
          BY <2>1, <2>7, <4>1
        <4>3. Cost(u) = UnitPrice(Of("Buy", Sorted[i].symbol), u - Others(i))
          BY <2>1, <3>1, <4>1, CostIs
        <4> QED BY <4>2, <4>3
      <3>7. Covers(acc.lots[z], bought, s - o, b)
        <4>1. Left(acc, z, k)
          <5> HIDE DEF Left
          <5> QED BY <2>2, <2>6
        <4> QED BY <3>3, <4>1
      <3>8. /\ Tracks(new, t) /\ Covers(new.lots[z], bought, t - o, b)
            /\ \A x \in Symbols : x # z => new.lots[x] = acc.lots[x]
        <4>1. t = s + trade.quantity /\ trade.quantity > 0 /\ t - o <= b /\ z = trade.symbol
          BY <2>3, <3>3, <3>4
        <4>2. acc \in Book /\ new = Account(acc, trade) /\ Tracks(acc, s)
          BY <2>2
        <4>0. /\ trade \in Lot /\ trade.side # "Buy" /\ s \in Nat /\ b \in Nat /\ t \in Nat
              /\ o \in Int /\ o <= s /\ Afters(t)
              /\ \A u \in (s + 1)..t : UnitPrice(Sales, u) = trade.price /\ Cost(u) = UnitPrice(bought, u - o)
          BY <2>3, <2>4, <2>11, <3>3, <3>5, <3>6
        <4> HIDE DEF s, b, t, o, z, trade, acc, new, bought, sold, gone, g, q, i
        <4>3. LET y == Account(acc, trade)
                  left == y.lots[trade.symbol]
              IN /\ Tracks(y, t) /\ Covers(left, bought, t - o, b)
                 /\ \A x \in Symbols : x # trade.symbol => y.lots[x] = acc.lots[x]
          <5>1. Covers(acc.lots[trade.symbol], bought, s - o, b)
            BY <3>7, <4>1
          <5> QED BY <4>0, <4>1, <4>2, <5>1, SaleStep
        <4> QED BY <4>1, <4>2, <4>3
      <3>9. Left(new, z, i)
        BY <3>2, <3>3, <3>8
      <3> HIDE DEF Left, new, acc, z
      <3>10. \A x \in Symbols : Left(new, x, i)
        BY <2>9, <3>8, <3>9
      <3> QED BY <3>2, <3>8, <3>10 DEF new
    <2> QED BY <2>10, <2>11
  <1> HIDE DEF Ok
  <1>10. N \in T
    <2>1. 0 \in T /\ \A k \in Nat : k \in T => k + 1 \in T
      <3>1. 0 \in T
        BY <1>8
      <3>2. ASSUME NEW k \in Nat, k \in T PROVE k + 1 \in T
        <4>1. k + 1 <= N => k <= N
          BY <1>1
        <4> QED BY <1>9, <3>2, <4>1
      <3> QED BY <3>1, <3>2
    <2> HIDE DEF T
    <2> QED BY <1>1, <2>1, EveryNat
  <1>11. Tracks(r[N], sold)
    <2>1. Ok(N)
      BY <1>1, <1>10
    <2> QED BY <2>1 DEF Ok
  <1> QED BY <1>1, <1>3, <1>4, <1>6, <1>7, <1>11

\* The trades shown are in positions of their own, by which ties of their times
\* are resolved.
LEMMA SortedHolds == TradesInv => SortedType
  <1> SUFFICES ASSUME TradesInv PROVE SortedType
    OBVIOUS
  <1> DEFINE L == Len(recentTrades)
             R == {x \in Known \X Known : Before(x[1], x[2])}
             n == Cardinality(Known)
  <1>1. /\ L \in Nat /\ DOMAIN recentTrades = 1..L
        /\ \A i \in 1..L : recentTrades[i].id \in OrderId
    <2>1. recentTrades \in Seq(Trade)
      BY DEF TradesInv, MonType
    <2>2. \A i \in 1..L : recentTrades[i] \in Trade
      BY <2>1
    <2> QED BY <2>1, <2>2 DEF Trade
  <1>2. \A o \in OrderId : Detail[o] \in Lot /\ Detail[o].quantity > 0 /\ Detail[o].time \in Nat
    <2> SUFFICES ASSUME NEW o \in OrderId
                 PROVE Detail[o] \in Lot /\ Detail[o].quantity > 0 /\ Detail[o].time \in Nat
      OBVIOUS
    <2> DEFINE lot == Detail[o]
    <2>1. lot \in [symbol : Symbols, time : Nat, side : {"Buy", "Sell"},
                   quantity : Nat \ {0}, price : Nat \ {0}]
      BY ConstantsAssumption
    <2> HIDE DEF lot
    <2>2. lot \in Lot /\ lot.quantity > 0 /\ lot.time \in Nat
      BY <2>1 DEF Lot
    <2> QED BY <2>2 DEF lot
  <1> HIDE DEF L
  <1>3. IsFiniteSet(1..L)
    <2>1. 1 \in Int /\ L \in Int
      BY <1>1
    <2> QED BY <2>1, FS_Interval
  <1>4. Known \in SUBSET (1..L)
    BY <1>1 DEF Known
  <1>5. IsFiniteSet(Known)
    BY <1>3, <1>4, FS_Subset
  <1>6. \A i \in Known : i \in Nat /\ Time(i) \in Nat /\ recentTrades[i].id \in OrderId
    BY <1>1, <1>2, <1>4 DEF Time
  <1>7. \A i, j \in Known : <<i, j>> \in R <=> Before(i, j)
    OBVIOUS
  <1> HIDE DEF R
  <1>8. StrictOrder(Known, R)
    BY <1>6, <1>7 DEF StrictOrder, Before
  <1>9. Sorts(ByTime, Known, R)
    <2>1. PICK g : Sorts(g, Known, R)
      BY <1>5, <1>8, SortExists
    <2>2. /\ g \in [1..n -> Known] /\ DOMAIN g = 1..n
          /\ \A i, j \in 1..n : i < j => Before(g[i], g[j])
      <3>1. g \in [1..n -> Known] /\ \A i, j \in 1..n : i < j => <<g[i], g[j]>> \in R
        BY <2>1 DEF Sorts
      <3> QED BY <1>7, <3>1
    <2>3. /\ ByTime \in [1..n -> Known]
          /\ \A i, j \in DOMAIN ByTime : i < j => Before(ByTime[i], ByTime[j])
      <3>1. \E h \in [1..n -> Known] : \A i, j \in DOMAIN h : i < j => Before(h[i], h[j])
        BY <2>2
      <3> QED BY <3>1 DEF ByTime
    <2>4. \A i \in 1..n : ByTime[i] \in Known
      BY <2>3
    <2> QED BY <1>7, <2>3, <2>4 DEF Sorts
  <1>10. n \in Nat /\ DOMAIN ByTime = 1..n /\ \A i \in 1..n : recentTrades[ByTime[i]].id \in OrderId
    BY <1>5, <1>6, <1>9, FS_CardinalityType DEF Sorts
  <1> HIDE DEF n
  <1>11. Sorted = [i \in 1..n |-> Detail[recentTrades[ByTime[i]].id]]
    BY <1>10 DEF Sorted
  <1>12. Sorted \in [1..n -> Lot] /\ \A i \in 1..n : Sorted[i].quantity > 0
    BY <1>2, <1>10, <1>11
  <1>13. Sorted \in Seq(Lot) /\ Len(Sorted) = n
    BY <1>10, <1>12
  <1> QED BY <1>12, <1>13 DEF SortedType

\* The profit shown is that of the units sold, each taken for the one bought of
\* its symbol as many units after the first, and the drawdown is the deepest fall of the
\* profit on the way: the matching of get_metrics_data, which books a lot at a
\* time, misses no peak and no trough between two units.
THEOREM ProfitStaysFifo == Spec => []ProfitIsFifo
  <1>1. TradesInv => ProfitIsFifo
    <2> SUFFICES ASSUME TradesInv PROVE ProfitIsFifo
      OBVIOUS
    <2> DEFINE sold == Amount(Sales, Len(Sorted))
               falls == UNION {{After(i) - After(j) : j \in i..sold} : i \in 0..sold}
    <2> SUFFICES ASSUME NeverShort
                 PROVE MetricsData.pnl = After(sold) /\ MetricsData.drawdown = Max(falls)
      BY DEF ProfitIsFifo
    <2>1. MetricsData \in Book /\ Tracks(MetricsData, sold) /\ sold \in Nat /\ Afters(sold)
      BY SortedHolds, AccountsHold
    <2> DEFINE d == MetricsData.drawdown
    <2>2. /\ MetricsData.pnl = After(sold) /\ d \in Int
          /\ \E i \in 0..sold : \E j \in i..sold : d = After(i) - After(j)
          /\ \A i \in 0..sold : \A j \in i..sold : After(i) - After(j) <= d
      BY <2>1 DEF Tracks, Book
    <2> HIDE DEF d, sold
    <2>3. \A x : x \in falls <=> \E i \in 0..sold : \E j \in i..sold : x = After(i) - After(j)
      OBVIOUS
    <2> HIDE DEF falls
    <2>4. \A x \in falls : x \in Int /\ x <= d
      <3>1. \A i \in 0..sold : \A j \in i..sold : j \in 0..sold
        BY <2>1
      <3>2. \A i \in 0..sold : After(i) \in Int
        BY <2>1 DEF Afters
      <3> SUFFICES ASSUME NEW x \in falls PROVE x \in Int /\ x <= d
        OBVIOUS
      <3>3. PICK i \in 0..sold : \E j \in i..sold : x = After(i) - After(j)
        BY <2>3
      <3>4. PICK j \in i..sold : x = After(i) - After(j)
        BY <3>3
      <3> QED BY <2>2, <3>1, <3>2, <3>4
    <2>5. d \in falls
      BY <2>2, <2>3
    <2>6. Max(falls) = d
      <3>1. \A y \in falls : d >= y
        BY <2>2, <2>4
      <3>2. \A x \in falls : (\A y \in falls : x >= y) => x = d
        <4> SUFFICES ASSUME NEW x \in falls, x >= d PROVE x = d
          BY <2>5
        <4> QED BY <2>2, <2>4
      <3> QED BY <2>5, <3>1, <3>2 DEF Max
    <2> QED BY <2>2, <2>6 DEF d
  <1> QED BY <1>1, TradesInit, TradesNext, PTL DEF Spec
=============================================================================
