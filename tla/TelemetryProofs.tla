-------------------------- MODULE TelemetryProofs --------------------------
(***************************************************************************)
(* Proofs about the rate tracker of Telemetry, for any window, latencies,  *)
(* streams and clock.                                                      *)
(***************************************************************************)
EXTENDS Telemetry, Induction, SequenceTheorems

\* Popping from the front stops at the first tick that is not too old, at the
\* latest at one that is certainly not.
LEMMA DroppedExact ==
    ASSUME NEW times \in Seq(Nat), NEW last \in 1..Len(times),
           Cutoff \in Nat, times[last] >= Cutoff
    PROVE /\ Dropped(times) \in 0..(last - 1)
          /\ \A i \in 1..Dropped(times) : times[i] < Cutoff
          /\ times[Dropped(times) + 1] >= Cutoff
  <1>1. Len(times) \in Nat /\ \A i \in 1..Len(times) : times[i] \in Nat
    OBVIOUS
  <1> DEFINE Stops == {n \in 0..(Len(times) - 1) : times[n + 1] >= Cutoff}
             Fits(n) == /\ \A i \in 1..n : times[i] < Cutoff
                        /\ n < Len(times) => times[n + 1] >= Cutoff
  <1>2. Stops \in SUBSET Nat /\ Stops # {}
    <2>1. last - 1 \in 0..(Len(times) - 1) /\ (last - 1) + 1 = last
      BY <1>1
    <2>2. last - 1 \in Stops
      BY <2>1
    <2>3. ASSUME NEW k \in Stops PROVE k \in Nat
      BY <1>1
    <2> HIDE DEF Stops
    <2> QED BY <2>2, <2>3
  <1>3. PICK n \in Stops : \A m \in Stops : n <= m
    <2> HIDE DEF Stops
    <2> QED BY <1>2, LeastNat
  <1>4. n \in 0..Len(times) /\ Fits(n)
    <2>1. ASSUME NEW i \in 1..n PROVE times[i] < Cutoff
      <3>1. i - 1 \in 0..(Len(times) - 1) /\ (i - 1) + 1 = i /\ ~(n <= i - 1)
        BY <1>1, <1>3
      <3>2. i - 1 \notin Stops
        <4> HIDE DEF Stops
        <4> QED BY <1>3, <3>1
      <3>3. times[i] \in Nat
        BY <1>1, <1>3
      <3> QED BY <3>1, <3>2, <3>3
    <2> QED BY <1>1, <1>3, <2>1
  <1>5. Dropped(times) \in 0..Len(times) /\ Fits(Dropped(times))
    BY <1>4 DEF Dropped
  <1>6. Dropped(times) < last
    <2> DEFINE d == Dropped(times)
    <2>1. d \in Nat /\ \A i \in 1..d : times[i] < Cutoff
      BY <1>5
    <2> HIDE DEF d
    <2>2. ~(times[last] < Cutoff) /\ last \in Nat /\ last >= 1
      BY <1>1
    <2>3. last \notin 1..d
      BY ONLY <2>1, <2>2
    <2> QED BY ONLY <2>1, <2>2, <2>3 DEF d
  <1> QED BY <1>1, <1>5, <1>6

----------------------------------------------------------------------------
(* The inductive invariant.                                                 *)

Tick == [time : Nat, latency : Int]
Gone == Len(recorded) - Len(tickTimes)
Old(r, i, j) == r[i].time + Window < r[j].time

RateType ==
    /\ clock \in Nat /\ steps \in Nat
    /\ recorded \in Seq(Tick) /\ tickTimes \in Seq(Nat) /\ tickLatencies \in Seq(Int)
    /\ Len(tickLatencies) = Len(tickTimes) /\ Len(tickTimes) <= Len(recorded)

\* The tracker holds the ticks last recorded.
Newest ==
    \A i \in 1..Len(tickTimes) :
        /\ recorded[Gone + i].time = tickTimes[i]
        /\ recorded[Gone + i].latency = tickLatencies[i]

\* A tick is missing only if a later one found it too old.
GoneOld == \A i \in 1..Gone : \E j \in (i + 1)..Len(recorded) : Old(recorded, i, j)

\* While the clock has only gone forward, ticks are in the order of their
\* times, and those that are held are within the window of the last.
InOrder ==
    steps = 0 =>
        /\ \A i, j \in 1..Len(recorded) : i <= j => recorded[i].time <= recorded[j].time
        /\ \A i \in 1..Len(recorded) : recorded[i].time <= clock
        /\ \A i \in (Gone + 1)..Len(recorded) : ~Old(recorded, i, Len(recorded))

RateInv == RateType /\ Newest /\ GoneOld /\ InOrder

\* A tick is recorded.
LEMMA RecordInv == RateInv /\ RecordTick => RateInv'
  <1> SUFFICES ASSUME RateInv, RecordTick PROVE RateInv'
    OBVIOUS
  <1> DEFINE times == Append(tickTimes, clock)
             n == Dropped(times)
             L == Len(recorded)
             K == Len(tickTimes)
  <1>1. PICK latency \in Latency :
          /\ tickTimes' = SubSeq(times, n + 1, Len(times))
          /\ tickLatencies' = SubSeq(Append(tickLatencies, latency), n + 1, Len(times))
          /\ recorded' = Append(recorded, [time |-> clock, latency |-> latency])
    BY DEF RecordTick
  <1>2. UNCHANGED <<clock, steps>> /\ latency \in Int /\ Window \in Nat
    BY ConstantsAssumption DEF RecordTick
  <1>3. /\ clock \in Nat /\ steps \in Nat /\ L \in Nat /\ K \in Nat /\ K <= L
        /\ recorded \in Seq(Tick) /\ tickTimes \in Seq(Nat) /\ tickLatencies \in Seq(Int)
        /\ Len(tickLatencies) = K
    BY DEF RateInv, RateType
  <1> DEFINE lats == Append(tickLatencies, latency)
  <1>4. /\ times \in Seq(Nat) /\ Len(times) = K + 1 /\ times[K + 1] = clock
        /\ \A i \in 1..K : times[i] = tickTimes[i]
        /\ lats \in Seq(Int) /\ Len(lats) = K + 1 /\ lats[K + 1] = latency
        /\ \A i \in 1..K : lats[i] = tickLatencies[i]
    BY <1>2, <1>3
  <1>5. /\ recorded' \in Seq(Tick) /\ Len(recorded') = L + 1
        /\ recorded'[L + 1] = [time |-> clock, latency |-> latency]
        /\ \A i \in 1..L : recorded'[i] = recorded[i] /\ recorded[i] \in Tick
    <2>1. [time |-> clock, latency |-> latency] \in Tick
      BY <1>2, <1>3 DEF Tick
    <2> QED BY <1>1, <1>3, <2>1
  <1>6. Cutoff \in Nat /\ \A x \in Nat : x < Cutoff <=> x + Window < clock
    BY <1>2, <1>3 DEF Cutoff
  <1> HIDE DEF times, lats
  <1>7. /\ n \in 0..K /\ \A i \in 1..n : times[i] < Cutoff
        /\ times[n + 1] >= Cutoff
    <2>1. K + 1 \in 1..Len(times) /\ times[K + 1] >= Cutoff /\ (K + 1) - 1 = K
      BY <1>2, <1>3, <1>4 DEF Cutoff
    <2> HIDE DEF K
    <2>2. /\ n \in 0..((K + 1) - 1) /\ \A i \in 1..n : times[i] < Cutoff
          /\ times[n + 1] >= Cutoff
      BY <1>4, <1>6, <2>1, DroppedExact
    <2> QED BY <2>1, <2>2
  <1> HIDE DEF n
  <1>8. /\ tickTimes' \in Seq(Nat) /\ Len(tickTimes') = K + 1 - n
        /\ \A i \in 1..(K + 1 - n) : tickTimes'[i] = times[n + i]
        /\ tickLatencies' \in Seq(Int) /\ Len(tickLatencies') = K + 1 - n
        /\ \A i \in 1..(K + 1 - n) : tickLatencies'[i] = lats[n + i]
    <2> HIDE DEF K
    <2>1. n + 1 \in 1..(K + 2) /\ (K + 1) - (n + 1) + 1 = K + 1 - n /\ K + 1 - n \in Nat
          /\ \A i \in 1..(K + 1 - n) : (n + 1) + i - 1 = n + i
      BY <1>3, <1>7
    <2>2. tickTimes' = SubSeq(times, n + 1, K + 1) /\ tickLatencies' = SubSeq(lats, n + 1, K + 1)
      BY <1>1, <1>4 DEF lats
    <2>3. /\ tickTimes' \in Seq(Nat) /\ Len(tickTimes') = K + 1 - n
          /\ \A i \in 1..(K + 1 - n) : tickTimes'[i] = times[n + i]
      <3>1. \A i \in (n + 1)..(K + 1) : times[i] \in Nat
        <4>1. \A i \in 1..(K + 1) : times[i] \in Nat
          BY <1>4
        <4>2. \A i \in (n + 1)..(K + 1) : i \in 1..(K + 1)
          BY ONLY <1>3, <1>7
        <4> QED BY ONLY <4>1, <4>2
      <3>2. n + 1 \in Int /\ K + 1 \in Int
        BY <1>3, <1>7
      <3> QED BY <1>3, <1>7, <2>1, <2>2, <3>1, <3>2, SubSeqProperties
    <2>4. /\ tickLatencies' \in Seq(Int) /\ Len(tickLatencies') = K + 1 - n
          /\ \A i \in 1..(K + 1 - n) : tickLatencies'[i] = lats[n + i]
      <3>1. \A i \in (n + 1)..(K + 1) : lats[i] \in Int
        <4>1. \A i \in 1..(K + 1) : lats[i] \in Int
          BY <1>4
        <4>2. \A i \in (n + 1)..(K + 1) : i \in 1..(K + 1)
          BY ONLY <1>3, <1>7
        <4> QED BY ONLY <4>1, <4>2
      <3>2. n + 1 \in Int /\ K + 1 \in Int
        BY <1>3, <1>7
      <3> QED BY <1>3, <1>7, <2>1, <2>2, <3>1, <3>2, SubSeqProperties
    <2> QED BY <2>3, <2>4
  <1>9. RateType'
    BY <1>2, <1>3, <1>5, <1>7, <1>8 DEF RateType
  <1>10. Gone' = Gone + n /\ Gone = L - K /\ Gone \in Nat
    BY <1>3, <1>5, <1>7, <1>8 DEF Gone
  <1> HIDE DEF L, K
  <1>11. \A i \in 1..(K + 1) : /\ recorded'[Gone + i].time = times[i]
                               /\ recorded'[Gone + i].latency = lats[i]
    <2> SUFFICES ASSUME NEW i \in 1..(K + 1)
                 PROVE recorded'[Gone + i].time = times[i] /\ recorded'[Gone + i].latency = lats[i]
      OBVIOUS
    <2>1. CASE i = K + 1
      <3>1. Gone + i = L + 1
        BY <1>3, <1>10, <2>1
      <3> QED BY <1>4, <1>5, <2>1, <3>1
    <2>2. CASE i \in 1..K
      <3>1. Gone + i \in 1..L
        BY <1>3, <1>10, <2>2
      <3>2. recorded[Gone + i].time = tickTimes[i] /\ recorded[Gone + i].latency = tickLatencies[i]
        BY <2>2 DEF RateInv, Newest, K
      <3> QED BY <1>4, <1>5, <2>2, <3>1, <3>2
    <2> QED BY <1>3, <2>1, <2>2
  <1>12. Newest'
    <2> SUFFICES ASSUME NEW i \in 1..(K + 1 - n)
                 PROVE /\ recorded'[Gone + n + i].time = tickTimes'[i]
                       /\ recorded'[Gone + n + i].latency = tickLatencies'[i]
      BY <1>8, <1>10 DEF Newest
    <2>1. n + i \in 1..(K + 1) /\ Gone + n + i = Gone + (n + i)
      BY <1>3, <1>7, <1>10
    <2> QED BY <1>8, <1>11, <2>1
  <1>13. GoneOld'
    <2> SUFFICES ASSUME NEW i \in 1..(Gone + n)
                 PROVE \E j \in (i + 1)..(L + 1) : Old(recorded', i, j)
      BY <1>5, <1>10 DEF GoneOld, Old
    <2>1. CASE i \in 1..Gone
      <3>1. PICK j \in (i + 1)..L : Old(recorded, i, j)
        BY <2>1 DEF RateInv, GoneOld, L
      <3>2. i \in 1..L /\ j \in 1..L /\ j \in (i + 1)..(L + 1)
        BY <1>3, <1>10, <2>1
      <3> QED BY <1>5, <3>1, <3>2 DEF Old
    <2>2. CASE i \in (Gone + 1)..(Gone + n)
      <3>1. i - Gone \in 1..n /\ i - Gone \in 1..(K + 1) /\ Gone + (i - Gone) = i /\ L + 1 \in (i + 1)..(L + 1)
        BY <1>3, <1>7, <1>10, <2>2
      <3>2. recorded'[i].time = times[i - Gone] /\ times[i - Gone] < Cutoff
        BY <1>7, <1>11, <3>1
      <3>3. times[i - Gone] \in Nat
        BY <1>4, <3>1
      <3>4. Old(recorded', i, L + 1)
        BY <1>5, <1>6, <3>2, <3>3 DEF Old
      <3> QED BY <3>1, <3>4
    <2> QED BY <1>7, <1>10, <2>1, <2>2
  <1>14. InOrder'
    <2> SUFFICES ASSUME steps = 0
                 PROVE /\ \A i, j \in 1..(L + 1) : i <= j => recorded'[i].time <= recorded'[j].time
                       /\ \A i \in 1..(L + 1) : recorded'[i].time <= clock
                       /\ \A i \in (Gone + n + 1)..(L + 1) : ~Old(recorded', i, L + 1)
      BY <1>2, <1>5, <1>10 DEF InOrder, Old
    <2>1. /\ \A i, j \in 1..L : i <= j => recorded[i].time <= recorded[j].time
          /\ \A i \in 1..L : recorded[i].time <= clock
      BY DEF RateInv, InOrder, L
    <2>2. \A i \in 1..(L + 1) : recorded'[i].time \in Nat /\ recorded'[i].time <= clock
      <3> SUFFICES ASSUME NEW i \in 1..(L + 1) PROVE recorded'[i].time \in Nat /\ recorded'[i].time <= clock
        OBVIOUS
      <3>1. CASE i = L + 1
        BY <1>3, <1>5, <3>1
      <3>2. CASE i \in 1..L
        BY <1>5, <2>1, <3>2 DEF Tick
      <3> QED BY <1>3, <3>1, <3>2
    <2>3. ASSUME NEW i \in 1..(L + 1), NEW j \in 1..(L + 1), i <= j
          PROVE recorded'[i].time <= recorded'[j].time
      <3>1. CASE j = L + 1
        BY <1>5, <2>2, <3>1
      <3>2. CASE j \in 1..L
        <4>1. i \in 1..L
          BY <1>3, <2>3, <3>2
        <4> QED BY <1>5, <2>1, <2>3, <3>2, <4>1
      <3> QED BY <1>3, <3>1, <3>2
    <2>4. ASSUME NEW i \in (Gone + n + 1)..(L + 1) PROVE ~Old(recorded', i, L + 1)
      <3> DEFINE k == Gone + (n + 1)
      <3>1. n + 1 \in 1..(K + 1) /\ k \in 1..(L + 1) /\ i \in 1..(L + 1) /\ k <= i
        BY <1>3, <1>7, <1>10
      <3>2. recorded'[k].time = times[n + 1] /\ recorded'[k].time <= recorded'[i].time
        BY <1>11, <2>3, <3>1
      <3>3. recorded'[i].time \in Nat /\ recorded'[k].time \in Nat
        BY <2>2, <3>1
      <3> HIDE DEF k
      <3>4. ~(recorded'[i].time < Cutoff)
        BY <1>6, <1>7, <3>2, <3>3
      <3> QED BY <1>5, <1>6, <3>3, <3>4 DEF Old
    <2> QED BY <2>2, <2>3, <2>4
  <1> QED BY <1>9, <1>12, <1>13, <1>14 DEF RateInv

\* Every step of the service keeps the invariant.
LEMMA RateNext == RateInv /\ [Next]_vars => RateInv'
  <1> SUFFICES ASSUME RateInv, [Next]_vars PROVE RateInv'
    OBVIOUS
  <1>1. CASE RecordTick
    BY <1>1, RecordInv
  <1>2. CASE (\E s \in Stream : Connect(s)) \/ EndpointChange \/ UNCHANGED vars
    <2>1. UNCHANGED <<rateVars, clock, steps>>
      BY <1>2 DEF Connect, ConnectSubscriber, RetryConnection, EndpointChange, vars
    <2> QED BY <2>1 DEF rateVars, RateInv, RateType, Newest, GoneOld, InOrder, Gone, Old
  <1>3. CASE ClockChange
    <2>1. /\ UNCHANGED rateVars /\ clock' \in Nat /\ steps' \in Nat
          /\ steps' = 0 => (steps = 0 /\ clock <= clock')
      BY <1>3 DEF ClockChange, RateInv, RateType
    <2>2. RateType' /\ Newest' /\ GoneOld'
      BY <2>1 DEF rateVars, RateInv, RateType, Newest, GoneOld, Gone, Old
    <2>3. InOrder'
      <3> SUFFICES ASSUME steps' = 0
                   PROVE /\ \A i, j \in 1..Len(recorded) : i <= j => recorded[i].time <= recorded[j].time
                         /\ \A i \in 1..Len(recorded) : recorded[i].time <= clock'
                         /\ \A i \in (Gone + 1)..Len(recorded) : ~Old(recorded, i, Len(recorded))
        BY <2>1 DEF rateVars, InOrder, Gone, Old
      <3>1. \A i \in 1..Len(recorded) : recorded[i].time \in Nat /\ recorded[i].time <= clock
        <4>1. steps = 0 /\ recorded \in Seq(Tick)
          BY <2>1 DEF RateInv, RateType
        <4>2. \A i \in 1..Len(recorded) : recorded[i] \in Tick
          BY <4>1
        <4> QED BY <4>1, <4>2 DEF RateInv, InOrder, Tick
      <3> QED BY <2>1, <3>1 DEF RateInv, InOrder, RateType
    <2> QED BY <2>2, <2>3 DEF RateInv
  <1> QED BY <1>1, <1>2, <1>3 DEF Next

\* The tracker's rate is that of the ticks last recorded, each with its own
\* latency: none is missing but those that a later one found too old, and
\* while the clock goes forward none is held that the last one finds so
\* (monitoring/src/main.rs, RateTracker).
THEOREM RateIsOfWindow == Spec => []RateOfWindow
  <1>1. Init => RateInv
    BY DEF Init, RateInv, RateType, Newest, GoneOld, InOrder, Gone, Old
  <1>2. RateInv => RateOfWindow
    <2> SUFFICES ASSUME RateInv PROVE RateOfWindow
      OBVIOUS
    <2>1. /\ DOMAIN tickTimes = 1..Len(tickTimes) /\ Len(tickLatencies) = Len(tickTimes)
          /\ Len(recorded) \in Nat /\ Len(tickTimes) \in Nat /\ Len(tickTimes) <= Len(recorded)
          /\ \A i \in 1..Len(recorded) : recorded[i] \in Tick
      BY DEF RateInv, RateType
    <2>2. ASSUME NEW i \in 1..Len(tickTimes)
          PROVE recorded[Gone + i] = [time |-> tickTimes[i], latency |-> tickLatencies[i]]
      <3>1. Gone + i \in 1..Len(recorded)
        BY <2>1 DEF Gone
      <3>2. recorded[Gone + i] \in Tick
        BY <2>1, <3>1
      <3>3. recorded[Gone + i].time = tickTimes[i] /\ recorded[Gone + i].latency = tickLatencies[i]
        BY DEF RateInv, Newest
      <3> QED BY <3>2, <3>3 DEF Tick
    <2>3. /\ \A i \in 1..Gone : \E j \in (i + 1)..Len(recorded) : recorded[i].time + Window < recorded[j].time
          /\ steps = 0 => \A i \in (Gone + 1)..Len(recorded) :
                             ~(recorded[i].time + Window < recorded[Len(recorded)].time)
      BY DEF RateInv, GoneOld, InOrder, Old
    <2> QED BY <2>1, <2>2, <2>3 DEF RateOfWindow, Gone
  <1> QED BY <1>1, <1>2, RateNext, PTL DEF Spec
=============================================================================
