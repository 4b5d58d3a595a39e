------------------------- MODULE RiskManagerProofs -------------------------
(***************************************************************************)
(* Proofs about RiskManager for every value of its constants: its types,   *)
(* and the safety properties its runs check on small instances.            *)
(***************************************************************************)
EXTENDS RiskManager, TLAPS

\* What a GET of a limit leaves is a number: the key's, or the old one.
LEMMA GotNat ==
    ASSUME NEW ok \in BOOLEAN, NEW key \in Nat \cup {Missing}, NEW old \in Nat
    PROVE  Got(ok, key, old) \in Nat
  BY DEF Got, Missing

\* The order in hand has a symbol and a signed quantity.
LEMMA OrderTyped ==
    ASSUME TypeOK
    PROVE  \A o \in order : o.symbol \in Symbol /\ Signed(o) \in Int
<1> SUFFICES ASSUME NEW o \in order PROVE o.symbol \in Symbol /\ Signed(o) \in Int
    OBVIOUS
<1>1. o.quantity \in Nat /\ o.symbol \in Symbol
    BY ConstantsAssumption DEF TypeOK, Order
<1> QED BY <1>1 DEF Signed

LEMMA AddType ==
    ASSUME NEW f \in [Symbol -> Int], NEW s \in Symbol, NEW n \in Int
    PROVE  /\ Add(f, s, n) \in [Symbol -> Int]
           /\ \A t \in Symbol : Add(f, s, n)[t] = IF t = s THEN f[t] + n ELSE f[t]
  BY DEF Add

----------------------------------------------------------------------------
LEMMA InitType == Init => TypeOK
<1> SUFFICES ASSUME Init PROVE TypeOK OBVIOUS
<1>1. rLimits \in [Field -> LimitValue \cup {Missing}] /\ Missing \in Int
    BY DEF Init, Missing
<1>2. request \in [Handler -> [at : Field \cup {"new", "done"},
                              limits : [Field -> LimitValue \cup {Missing}]]]
    BY <1>1 DEF Init
<1>3. rLimits \in [Field -> Nat \cup {Missing}] /\ bands \in [Symbol -> Nat \cup {Missing}]
    BY DEF Init
<1>4. rDailyLoss \in Nat \cup {Missing} /\ limits \in Limits
    BY ConstantsAssumption DEF Init
<1>5. Zero \in [Symbol -> Int]
    BY DEF Zero
<1>6. /\ windowStart \in 0..MaxClock /\ clock \in 0..MaxClock
      /\ messageCount \in Nat /\ sentSecond \in Nat /\ allowance \in Nat
    BY ConstantsAssumption DEF Init
<1>7. /\ order \in SUBSET Order /\ monitor \in Field \cup {"sleep", "kill"}
      /\ killSwitch \in BOOLEAN /\ rKill \in BOOLEAN /\ up \in BOOLEAN
    BY DEF Init
<1> QED BY <1>2, <1>3, <1>4, <1>5, <1>6, <1>7 DEF Init, TypeOK

LEMMA BootType == TypeOK /\ Boot => TypeOK'
<1> SUFFICES ASSUME TypeOK, Boot PROVE TypeOK' OBVIOUS
<1> PICK ok \in [Field \cup {"kill", "bands"} -> BOOLEAN] :
         /\ RedisCall(\A k \in DOMAIN ok : ok[k])
         /\ killSwitch' = (ok["kill"] /\ rKill)
         /\ limits' = [f \in Field |-> Got(ok[f], rLimits[f], Defaults[f])]
         /\ bands' \in IF ok["bands"] THEN [Symbol -> Price \cup {Missing}]
                      ELSE {[s \in Symbol |-> Missing]}
    BY DEF Boot
<1>1. limits' \in Limits
    BY GotNat, ConstantsAssumption DEF TypeOK, Limits
<1>2. faults' \in Nat
    BY DEF RedisCall, TypeOK
<1>3. bands' \in [Symbol -> Nat \cup {Missing}]
    BY ConstantsAssumption
<1>4. killSwitch' \in BOOLEAN
    BY DEF TypeOK
<1> QED BY <1>1, <1>2, <1>3, <1>4, ConstantsAssumption
    DEF Boot, TypeOK, redisVars, Zero

LEMMA CheckType == TypeOK /\ (BeginCheck \/ Check) => TypeOK'
<1> SUFFICES ASSUME TypeOK, BeginCheck \/ Check PROVE TypeOK' OBVIOUS
<1> USE DEF redisVars, rmVars, timeVars, netVars, bounds
<1>1. CASE BeginCheck
    BY <1>1 DEF BeginCheck, TypeOK, Rejected
<1>2. ASSUME NEW ok \in BOOLEAN, CheckKillSwitch(ok) PROVE TypeOK'
  <2>1. messageCount' \in Nat /\ windowStart' \in 0..MaxClock /\ faults' \in Nat
      BY <1>2 DEF CheckKillSwitch, TypeOK, RedisCall, Counted
  <2>2. killSwitch' \in BOOLEAN
      BY <1>2 DEF CheckKillSwitch, TypeOK
  <2>3. /\ lock' \in {"free", "main", "monitor"} /\ main' \in {"recv", "maxloss"}
        /\ order' \in SUBSET Order /\ watch' \in {"idle", "armed", "blind"}
        /\ UNCHANGED <<up, monitor>>
      BY <1>2 DEF CheckKillSwitch, TypeOK, Rejected, Continue
  <2> QED BY <1>2, <2>1, <2>2, <2>3 DEF CheckKillSwitch, TypeOK
<1>3. ASSUME NEW ok \in BOOLEAN, ReadMaxLoss(ok) PROVE TypeOK'
  <2>1. Got(ok, rLimits["loss"], limits["loss"]) \in Nat
      BY GotNat DEF TypeOK, Limits, Field
  <2>2. limits' \in Limits /\ faults' \in Nat
      BY <1>3, <2>1 DEF ReadMaxLoss, TypeOK, Limits, Field, RedisCall
  <2> QED BY <1>3, <2>2 DEF ReadMaxLoss, TypeOK, Continue
<1>4. ASSUME NEW ok \in BOOLEAN, Book(ok) PROVE TypeOK'
  <2>1. \A o \in order : Add(positions, o.symbol, Signed(o)) \in [Symbol -> Int]
      BY OrderTyped, AddType DEF TypeOK
  <2>2. positions' \in [Symbol -> Int] /\ faults' \in Nat
      BY <1>4, <2>1 DEF Book, TypeOK, RedisCall
  <2> QED BY <1>4, <2>2 DEF Book, TypeOK, Rejected, Continue
<1>5. ASSUME NEW ok \in BOOLEAN, NEW stored \in BOOLEAN, StorePosition(ok, stored)
      PROVE  TypeOK'
  <2>1. \A o \in order : Add(phantom, o.symbol, Signed(o)) \in [Symbol -> Int]
      BY OrderTyped, AddType DEF TypeOK
  <2>2. \A o \in order : StoredValue(o) \in Int
      BY OrderTyped DEF StoredValue, TypeOK
  <2>3. phantom' \in [Symbol -> Int] /\ faults' \in Nat
      BY <1>5, <2>1 DEF StorePosition, TypeOK, RedisCall
  <2>4. rPosition' \in [Symbol -> Int]
      BY <1>5, <2>2 DEF StorePosition, TypeOK
  <2> QED BY <1>5, <2>3, <2>4 DEF StorePosition, TypeOK, Rejected, Continue
<1>6. CASE Publish
  <2>1. \A o \in order : Add(exposure, o.symbol, Signed(o)) \in [Symbol -> Int]
      BY OrderTyped, AddType DEF TypeOK
  <2> QED BY <1>6, <2>1 DEF Publish, TypeOK, Rejected
<1> QED BY <1>1, <1>2, <1>3, <1>4, <1>5, <1>6 DEF Check

LEMMA MonitorType == TypeOK /\ (MonitorTick \/ Monitor) => TypeOK'
<1> SUFFICES ASSUME TypeOK, MonitorTick \/ Monitor PROVE TypeOK' OBVIOUS
<1> USE DEF redisVars, rmVars, timeVars, netVars, bounds
<1>1. CASE MonitorTick
    BY <1>1 DEF MonitorTick, TypeOK
<1>2. ASSUME NEW ok \in BOOLEAN, MonitorKillSwitch(ok) PROVE TypeOK'
    BY <1>2 DEF MonitorKillSwitch, TypeOK, RedisCall, Refreshed, Field
<1>3. ASSUME NEW ok \in BOOLEAN, MonitorLimit(ok) PROVE TypeOK'
  <2>1. monitor \in Field /\ Got(ok, rLimits[monitor], limits[monitor]) \in Nat
      BY <1>3, GotNat DEF MonitorLimit, TypeOK, Limits
  <2>2. limits' \in Limits /\ faults' \in Nat
      BY <1>3, <2>1 DEF MonitorLimit, TypeOK, Limits, RedisCall
  <2>3. monitor' \in Field \cup {"sleep", "kill"} /\ lock' \in {"free", "main", "monitor"}
      BY <1>3 DEF MonitorLimit, LockAfter, TypeOK, AfterLimit, Field
  <2> QED BY <1>3, <2>2, <2>3 DEF MonitorLimit, LockAfter, TypeOK
<1> QED BY <1>1, <1>2, <1>3 DEF Monitor

LEMMA OthersType ==
    TypeOK /\ (\/ Crash \/ RecvSignal \/ SetKillSwitch \/ ClockChange
               \/ \E h \in Handler : RequestLimits(h) \/ Operate(h)) => TypeOK'
<1> SUFFICES ASSUME TypeOK,
                    \/ Crash \/ RecvSignal \/ SetKillSwitch \/ ClockChange
                    \/ \E h \in Handler : RequestLimits(h) \/ Operate(h)
             PROVE  TypeOK'
    OBVIOUS
<1> USE DEF redisVars, rmVars, taskVars, timeVars, netVars, bounds
<1>1. CASE Crash
    BY <1>1 DEF Crash, TypeOK
<1>2. CASE RecvSignal
    BY <1>2 DEF RecvSignal, TypeOK
<1>3. CASE SetKillSwitch
    BY <1>3 DEF SetKillSwitch, TypeOK
<1>4. CASE ClockChange
    BY <1>4, ConstantsAssumption DEF ClockChange, TypeOK
<1>5. ASSUME NEW h \in Handler, RequestLimits(h) PROVE TypeOK'
  <2>1. PICK l \in [Field -> LimitValue \cup {Missing}] :
             request' = [request EXCEPT ![h] = [at |-> "position", limits |-> l]]
      BY <1>5 DEF RequestLimits
  <2>2. request' \in [Handler -> [at : Field \cup {"new", "done"},
                                  limits : [Field -> LimitValue \cup {Missing}]]]
      BY <2>1 DEF TypeOK, Field
  <2> QED BY <1>5, <2>2 DEF RequestLimits, TypeOK
<1>6. ASSUME NEW h \in Handler, NEW ok \in BOOLEAN, NEW stored \in BOOLEAN,
             WriteLimit(h, ok, stored)
      PROVE  TypeOK'
  <2>1. /\ request[h].limits \in [Field -> LimitValue \cup {Missing}]
        /\ request[h].at \in Field
      BY <1>6 DEF TypeOK, WriteLimit
  <2>2. request' \in [Handler -> [at : Field \cup {"new", "done"},
                                  limits : [Field -> LimitValue \cup {Missing}]]]
      BY <1>6, <2>1 DEF WriteLimit, AfterLimit, TypeOK, Field
  <2>3. rLimits' \in [Field -> Nat \cup {Missing}] /\ faults' \in Nat
      BY <1>6, <2>1, ConstantsAssumption DEF WriteLimit, Got, Missing, TypeOK, RedisCall
  <2> QED BY <1>6, <2>2, <2>3 DEF WriteLimit, TypeOK
<1> QED BY <1>1, <1>2, <1>3, <1>4, <1>5, <1>6 DEF Operate

\* The state keeps its types, whatever Redis, operators and restarts do.
THEOREM TypeCorrect == Spec => []TypeOK
<1>1. TypeOK /\ [Next]_vars => TypeOK'
  <2>1. TypeOK /\ UNCHANGED vars => TypeOK'
      BY DEF vars, redisVars, rmVars, taskVars, timeVars, netVars, bounds, TypeOK
  <2> QED BY <2>1, BootType, CheckType, MonitorType, OthersType DEF Next
<1> QED BY <1>1, InitType, PTL DEF Spec

----------------------------------------------------------------------------
\* Who holds the lock, and that an order is in hand while one is checked.
Control ==
    /\ Checking => lock = "main"
    /\ monitor # "sleep" => lock = "monitor"
    /\ main # "recv" => \E o \in Order : order = {o}
    /\ ~up => main = "recv" /\ monitor = "sleep"

LEMMA ControlStep == TypeOK /\ Control /\ [Next]_vars => Control'
<1> SUFFICES ASSUME TypeOK, Control, [Next]_vars PROVE Control' OBVIOUS
<1> USE DEF Control, Checking, redisVars, rmVars, taskVars, timeVars, netVars, bounds
<1>1. CASE Boot
    BY <1>1 DEF Boot
<1>2. CASE Crash
    BY <1>2 DEF Crash
<1>3. CASE RecvSignal
    BY <1>3 DEF RecvSignal
<1>4. CASE BeginCheck
    BY <1>4 DEF BeginCheck, LockFree, Rejected
<1>5. ASSUME NEW ok \in BOOLEAN, CheckKillSwitch(ok) PROVE Control'
    BY <1>5 DEF CheckKillSwitch, Rejected, Continue
<1>6. ASSUME NEW ok \in BOOLEAN, ReadMaxLoss(ok) PROVE Control'
    BY <1>6 DEF ReadMaxLoss, Continue
<1>7. ASSUME NEW ok \in BOOLEAN, Book(ok) PROVE Control'
    BY <1>7 DEF Book, Rejected, Continue
<1>8. ASSUME NEW ok \in BOOLEAN, NEW stored \in BOOLEAN, StorePosition(ok, stored)
      PROVE  Control'
    BY <1>8 DEF StorePosition, Rejected, Continue
<1>9. CASE Publish
    BY <1>9 DEF Publish, Rejected
<1>10. CASE MonitorTick
    BY <1>10 DEF MonitorTick, LockFree
<1>11. ASSUME NEW ok \in BOOLEAN, MonitorKillSwitch(ok) PROVE Control'
    BY <1>11 DEF MonitorKillSwitch
<1>12. ASSUME NEW ok \in BOOLEAN, MonitorLimit(ok) PROVE Control'
    BY <1>12 DEF MonitorLimit, LockAfter, AfterLimit, Field, TypeOK
<1>13. CASE SetKillSwitch
    BY <1>13 DEF SetKillSwitch
<1>14. CASE ClockChange
    BY <1>14 DEF ClockChange
<1>15. ASSUME NEW h \in Handler, RequestLimits(h) PROVE Control'
    BY <1>15 DEF RequestLimits
<1>16. ASSUME NEW h \in Handler, NEW ok \in BOOLEAN, NEW stored \in BOOLEAN,
              WriteLimit(h, ok, stored)
       PROVE  Control'
    BY <1>16 DEF WriteLimit
<1>17. CASE UNCHANGED vars
    BY <1>17 DEF vars
<1> QED BY <1>1, <1>2, <1>3, <1>4, <1>5, <1>6, <1>7, <1>8, <1>9, <1>10, <1>11, <1>12,
           <1>13, <1>14, <1>15, <1>16, <1>17 DEF Next, Check, Monitor, Operate

LEMMA Controlled == Spec => []Control
<1>1. Init => Control
    BY DEF Init, Control, Checking
<1> QED BY <1>1, ControlStep, TypeCorrect, PTL DEF Spec

\* A check sees one switch, one position limit and one size limit: the monitor
\* writes them only while it holds the lock, which the check then does not.
THEOREM DecisionsStable == Spec => StableDuringCheck
<1> DEFINE Stable == /\ UNCHANGED killSwitch
                     /\ limits["position"]' = limits["position"]
                     /\ limits["size"]' = limits["size"]
<1>1. TypeOK /\ Control /\ [Next]_vars => (Checking /\ Checking' => Stable)
  <2> SUFFICES ASSUME TypeOK, Control, [Next]_vars, Checking, Checking' PROVE Stable
      OBVIOUS
  <2>1. lock = "main" /\ monitor = "sleep" /\ up
      BY DEF Control, Checking
  <2>2. CASE Check
    <3>1. ASSUME NEW ok \in BOOLEAN, ReadMaxLoss(ok) PROVE Stable
        BY <3>1 DEF ReadMaxLoss, TypeOK, Limits, Field
    <3> QED BY <2>2, <3>1 DEF Check, CheckKillSwitch, Book, StorePosition, Publish,
               Rejected, Checking, rmVars
  <2>3. ~Boot /\ ~BeginCheck /\ ~MonitorTick /\ ~Monitor /\ ~Crash
      BY <2>1 DEF Boot, BeginCheck, LockFree, MonitorTick, Monitor, MonitorKillSwitch,
                  MonitorLimit, Field, Crash, Checking
  <2>4. CASE RecvSignal \/ SetKillSwitch \/ ClockChange \/ UNCHANGED vars
      BY <2>4 DEF RecvSignal, SetKillSwitch, ClockChange, vars, rmVars
  <2>5. ASSUME NEW h \in Handler, RequestLimits(h) \/ Operate(h) PROVE Stable
      BY <2>5 DEF RequestLimits, Operate, WriteLimit, rmVars
  <2> QED BY <2>2, <2>3, <2>4, <2>5 DEF Next
<1>2. TypeOK /\ Control /\ [Next]_vars => [Checking /\ Checking' => Stable]_vars
    BY <1>1
<1> QED BY <1>2, TypeCorrect, Controlled, PTL DEF Spec, StableDuringCheck

----------------------------------------------------------------------------
\* The switch is on while a check is armed, and only its first GET is to come.
Armed == watch = "armed" => main = "kill" /\ rKill

\* The kill switch stops every check begun after it was set, unless the check's
\* own GET of it fails.
THEOREM KillSwitchSafe == Spec => []KillSwitchHonored
<1>1. Init => Armed
    BY DEF Init, Armed
<1>2. TypeOK /\ Armed /\ [Next]_vars => Armed'
  <2> SUFFICES ASSUME TypeOK, Armed, [Next]_vars PROVE Armed' OBVIOUS
  <2> USE DEF Armed, redisVars, rmVars, taskVars, timeVars, netVars, bounds
  <2>1. CASE Boot \/ Crash \/ RecvSignal
      BY <2>1 DEF Boot, Crash, RecvSignal
  <2>2. CASE BeginCheck
      BY <2>2 DEF BeginCheck, Rejected
  <2>3. ASSUME NEW ok \in BOOLEAN, CheckKillSwitch(ok) PROVE Armed'
    <3>1. CASE Tripped(ok)
        BY <2>3, <3>1 DEF CheckKillSwitch, Rejected
    <3>2. CASE ~Tripped(ok)
        BY <2>3, <3>2 DEF CheckKillSwitch, Tripped, Rejected, Continue, TypeOK
    <3> QED BY <3>1, <3>2
  <2>4. ASSUME NEW ok \in BOOLEAN, NEW stored \in BOOLEAN,
               ReadMaxLoss(ok) \/ Book(ok) \/ StorePosition(ok, stored) \/ Publish
        PROVE  Armed'
      BY <2>4 DEF ReadMaxLoss, Book, StorePosition, Publish, Rejected, Continue
  <2>5. CASE MonitorTick \/ Monitor
      BY <2>5 DEF MonitorTick, Monitor, MonitorKillSwitch, MonitorLimit
  <2>6. CASE SetKillSwitch
      BY <2>6 DEF SetKillSwitch, TypeOK
  <2>7. CASE ClockChange \/ UNCHANGED vars
      BY <2>7 DEF ClockChange, vars
  <2>8. ASSUME NEW h \in Handler, RequestLimits(h) \/ Operate(h) PROVE Armed'
      BY <2>8 DEF RequestLimits, Operate, WriteLimit
  <2> QED BY <2>1, <2>2, <2>3, <2>4, <2>5, <2>6, <2>7, <2>8 DEF Next, Check
<1>3. Armed => KillSwitchHonored
    BY DEF Armed, KillSwitchHonored
<1> QED BY <1>1, <1>2, <1>3, TypeCorrect, PTL DEF Spec

----------------------------------------------------------------------------
\* The exposure proof.  A position is what was published, what was booked for
\* rejected orders, and the order in hand once it is booked.
Hand(at, orders, s) == IF at \in {"set", "publish"} /\ \E o \in orders : o.symbol = s
                       THEN Signed(CHOOSE o \in orders : TRUE) ELSE 0
InHand(s) == Hand(main, order, s)
Balance == up => \A s \in Symbol : positions[s] = Published(s) + phantom[s] + InHand(s)

\* Neither the position, booked order included, nor what is accounted for
\* without it exceeds MaxLimit.
Within(n) == -MaxLimit <= n /\ n <= MaxLimit
Capped ==
    /\ limits["position"] <= MaxLimit /\ rLimits["position"] <= MaxLimit
    /\ \A s \in Symbol : Within(positions[s]) /\ Within(Published(s) + phantom[s])
    /\ main \in {"maxloss", "loss"} => \A o \in order : Within(NewPosition(o))
ExposureInv == Balance /\ Capped

LEMMA HandOf ==
    \A at, o, s : Hand(at, {o}, s) =
        IF at \in {"set", "publish"} /\ o.symbol = s THEN Signed(o) ELSE 0
<1> SUFFICES ASSUME NEW at, NEW o, NEW s
             PROVE  Hand(at, {o}, s) =
                      IF at \in {"set", "publish"} /\ o.symbol = s THEN Signed(o) ELSE 0
    OBVIOUS
<1>1. (CHOOSE x \in {o} : TRUE) = o
    OBVIOUS
<1> QED BY <1>1 DEF Hand

LEMMA HandNone == \A at, c, s : at \notin {"set", "publish"} => Hand(at, c, s) = 0
  BY DEF Hand

\* While nothing is booked for the order in hand, the invariant is about the
\* positions alone.
LEMMA ExposureIdle ==
    ASSUME TypeOK, Control, ExposureInv, UNCHANGED <<positions, netVars, rLimits>>,
           limits'["position"] <= MaxLimit, up' => up,
           main \notin {"set", "publish"}, main' \notin {"set", "publish", "maxloss", "loss"}
    PROVE  ExposureInv'
  BY HandNone DEF ExposureInv, Balance, Capped, InHand, Published, netVars

LEMMA ExposureCheck ==
    ASSUME TypeOK, Control, ExposureInv, Check PROVE ExposureInv'
<1> PICK o \in Order : order = {o}
    BY DEF Check, Publish, CheckKillSwitch, ReadMaxLoss, Book, StorePosition, Control
<1>0. /\ o.symbol \in Symbol /\ Signed(o) \in Int /\ MaxLimit \in Nat
      /\ positions \in [Symbol -> Int] /\ exposure \in [Symbol -> Int]
      /\ before \in [Symbol -> Int] /\ phantom \in [Symbol -> Int]
      /\ limits \in Limits /\ limits["position"] \in Nat
    BY OrderTyped, ConstantsAssumption DEF TypeOK, Limits, Field
<1>00. /\ up => \A s \in Symbol : positions[s] = Published(s) + phantom[s] + InHand(s)
       /\ Capped
    BY DEF ExposureInv, Balance
<1> USE DEF ExposureInv, Balance, Capped, Published, netVars, rmVars
<1>1. ASSUME NEW ok \in BOOLEAN, CheckKillSwitch(ok) PROVE ExposureInv'
  <2>1. main = "kill" /\ main' \in {"recv", "maxloss"}
      BY <1>1 DEF CheckKillSwitch, Rejected, Continue
  <2>2. \A s \in Symbol : InHand(s) = 0 /\ InHand(s)' = 0
      BY <2>1, HandNone DEF InHand
  <2>3. ASSUME main' = "maxloss" PROVE order' = order /\ Within(NewPosition(o))
    <3>1. order' = order /\ Acceptable(o)
        BY <1>1, <2>3 DEF CheckKillSwitch, Rejected, Continue
    <3>2. Abs(NewPosition(o)) <= limits["position"] /\ NewPosition(o) \in Int
        BY <3>1, <1>0 DEF Acceptable, NewPosition
    <3> QED BY <3>1, <3>2, <1>0 DEF Abs, Within
  <2> QED BY <1>1, <2>1, <2>2, <2>3 DEF CheckKillSwitch, redisVars, NewPosition, Rejected, Continue
<1>2. ASSUME NEW ok \in BOOLEAN, ReadMaxLoss(ok) PROVE ExposureInv'
  <2>1. main' = "loss" /\ main = "maxloss" /\ limits'["position"] = limits["position"]
      BY <1>2, <1>0 DEF ReadMaxLoss, Continue, Limits, Field
  <2>2. \A s \in Symbol : InHand(s) = 0 /\ InHand(s)' = 0
      BY <2>1, HandNone DEF InHand
  <2> QED BY <1>2, <2>1, <2>2 DEF ReadMaxLoss, Continue, redisVars, NewPosition
<1>3. ASSUME NEW ok \in BOOLEAN, Book(ok) PROVE ExposureInv'
  <2>1. CASE main' = "recv"
    <3>1. main = "loss" /\ \A s \in Symbol : InHand(s) = 0 /\ InHand(s)' = 0
        BY <1>3, <2>1, HandNone DEF Book, InHand
    <3> QED BY <1>3, <2>1, <3>1 DEF Book, Rejected, Continue, redisVars
  <2>2. CASE main' # "recv"
    <3>1. /\ main = "loss" /\ main' = "set" /\ order' = {o}
          /\ positions' = Add(positions, o.symbol, Signed(o))
        BY <1>3, <2>2 DEF Book, Rejected, Continue
    <3>2. \A s \in Symbol : /\ InHand(s) = 0
                            /\ InHand(s)' = IF o.symbol = s THEN Signed(o) ELSE 0
        BY <3>1, HandOf, HandNone DEF InHand
    <3>3. \A s \in Symbol : positions'[s] = IF s = o.symbol THEN positions[s] + Signed(o)
                                            ELSE positions[s]
        BY <3>1, <1>0 DEF Add
    <3>4. Within(positions[o.symbol] + Signed(o))
        BY <3>1 DEF NewPosition
    <3>5. UNCHANGED <<exposure, before, phantom, up, limits, rLimits>>
        BY <1>3, <2>2 DEF Book, Rejected, Continue, redisVars
    <3>6. Balance'
      <4> SUFFICES ASSUME NEW s \in Symbol, up
                   PROVE  positions'[s] = Published(s)' + phantom'[s] + InHand(s)'
          BY <3>5
      <4>1. positions[s] = Published(s) + phantom[s]
          BY <1>0, <1>00, <3>2
      <4> QED BY <1>0, <3>2, <3>3, <3>5, <4>1
    <3>7. \A s \in Symbol : Within(positions'[s]) /\ Within(Published(s)' + phantom'[s])
        BY <1>0, <3>3, <3>4, <3>5 DEF Within
    <3> QED BY <3>1, <3>5, <3>6, <3>7
  <2> QED BY <2>1, <2>2
<1>4. ASSUME NEW ok \in BOOLEAN, NEW stored \in BOOLEAN, StorePosition(ok, stored)
      PROVE  ExposureInv'
  <2>1. \A s \in Symbol : InHand(s) = IF o.symbol = s THEN Signed(o) ELSE 0
      BY <1>4, HandOf DEF StorePosition, InHand
  <2>5. up
      BY <1>4 DEF StorePosition, Control
  <2>2. CASE ok
    <3>1. \A s \in Symbol : InHand(s)' = InHand(s)
        BY <1>4, <2>1, <2>2, HandOf DEF StorePosition, Continue, InHand
    <3> QED BY <1>4, <2>2, <3>1 DEF StorePosition, Continue
  <2>3. CASE ~ok
    <3>1. \A s \in Symbol : InHand(s)' = 0
        BY <1>4, <2>3, HandNone DEF StorePosition, Rejected, InHand
    <3>2. \A s \in Symbol : phantom'[s] = phantom[s] + InHand(s)
      <4>1. phantom' = Add(phantom, o.symbol, Signed(o))
          BY <1>4, <2>3 DEF StorePosition
      <4> QED BY <4>1, <2>1, <1>0 DEF Add
    <3>3. /\ main' = "recv"
          /\ UNCHANGED <<exposure, before, positions, up, limits, rLimits>>
        BY <1>4, <2>3 DEF StorePosition, Rejected
    <3>4. Balance'
      <4> SUFFICES ASSUME NEW s \in Symbol, up
                   PROVE  positions'[s] = Published(s)' + phantom'[s] + InHand(s)'
          BY <3>3
      <4>1. positions[s] = Published(s) + phantom[s] + InHand(s) /\ InHand(s) \in Int
          BY <1>0, <1>00, <2>1
      <4> QED BY <1>0, <3>1, <3>2, <3>3, <4>1
    <3>5. ASSUME NEW s \in Symbol PROVE Within(Published(s)' + phantom'[s])
      <4>1. positions[s] = Published(s)' + phantom'[s]
          BY <1>0, <1>00, <2>1, <2>3, <3>2, <3>3, <2>5
      <4> QED BY <4>1
    <3> QED BY <1>0, <2>1, <3>1, <3>3, <3>4, <3>5
  <2> QED BY <2>2, <2>3
<1>5. CASE Publish
  <2>1. \A s \in Symbol : /\ InHand(s) = IF o.symbol = s THEN Signed(o) ELSE 0
                          /\ InHand(s)' = 0
      BY <1>5, HandOf, HandNone DEF Publish, Rejected, InHand
  <2>2. \A s \in Symbol : exposure'[s] = exposure[s] + InHand(s)
    <3>1. exposure' = Add(exposure, o.symbol, Signed(o))
        BY <1>5 DEF Publish
    <3> QED BY <3>1, <2>1, <1>0 DEF Add
  <2>3. /\ main' = "recv"
        /\ UNCHANGED <<before, phantom, positions, up, limits, rLimits>>
      BY <1>5 DEF Publish, Rejected, redisVars
  <2>4. Balance'
    <3> SUFFICES ASSUME NEW s \in Symbol, up
                 PROVE  positions'[s] = Published(s)' + phantom'[s] + InHand(s)'
        BY <2>3
    <3>1. positions[s] = Published(s) + phantom[s] + InHand(s) /\ InHand(s) \in Int
        BY <1>0, <1>00, <2>1
    <3> QED BY <1>0, <2>1, <2>2, <2>3, <3>1
  <2>5. ASSUME NEW s \in Symbol PROVE Within(Published(s)' + phantom'[s])
    <3>1. up
        BY <1>5 DEF Publish, Control
    <3>2. positions[s] = Published(s) + phantom[s] + InHand(s) /\ InHand(s) \in Int
        BY <1>0, <1>00, <2>1, <3>1
    <3>3. positions[s] = Published(s)' + phantom'[s]
        BY <1>0, <2>2, <2>3, <3>2
    <3> QED BY <3>3
  <2> QED BY <1>0, <2>1, <2>3, <2>4, <2>5
<1> QED BY <1>1, <1>2, <1>3, <1>4, <1>5 DEF Check

\* Steps that only refresh or write limits.
LEMMA ExposureKept ==
    ASSUME ExposureInv, UNCHANGED <<positions, netVars, up, main, order>>,
           limits'["position"] <= MaxLimit, rLimits'["position"] <= MaxLimit
    PROVE  ExposureInv'
  BY DEF ExposureInv, Balance, Capped, InHand, Published, netVars, NewPosition

LEMMA ExposureBoot == ASSUME TypeOK, Control, ExposureInv, Boot PROVE ExposureInv'
<1>1. limits'["position"] <= MaxLimit
    BY ConstantsAssumption DEF Boot, ExposureInv, Capped, Got, Field
<1>2. \A s \in Symbol : InHand(s)' = 0
    BY HandNone DEF Boot, Control, InHand
<1>3. /\ main' = "recv" /\ rLimits' = rLimits
      /\ \A s \in Symbol : /\ positions'[s] = 0 /\ phantom'[s] = 0
                          /\ before'[s] = exposure[s] /\ exposure'[s] = exposure[s]
    BY DEF Boot, Control, Zero, redisVars
<1>4. \A s \in Symbol : exposure[s] \in Int
    BY DEF TypeOK
<1> QED BY <1>1, <1>2, <1>3, <1>4, ConstantsAssumption
    DEF ExposureInv, Balance, Capped, Published, Within

LEMMA ExposureStep == TypeOK /\ Control /\ ExposureInv /\ [Next]_vars => ExposureInv'
<1> SUFFICES ASSUME TypeOK, Control, ExposureInv, [Next]_vars PROVE ExposureInv' OBVIOUS
<1> USE DEF redisVars, rmVars, taskVars, timeVars, netVars, bounds
<1>0. limits["position"] <= MaxLimit /\ rLimits["position"] <= MaxLimit
    BY DEF ExposureInv, Capped
<1>1. CASE Crash
  <2>1. \A s \in Symbol : InHand(s)' = 0
      BY <1>1, HandNone DEF Crash, InHand
  <2> QED BY <1>1, <2>1 DEF Crash, ExposureInv, Balance, Capped, Published
<1>2. CASE RecvSignal
    BY <1>0, <1>2, ExposureIdle DEF RecvSignal
<1>3. CASE BeginCheck
    BY <1>0, <1>3, ExposureIdle DEF BeginCheck, Rejected
<1>4. CASE MonitorTick \/ SetKillSwitch \/ ClockChange \/ UNCHANGED vars
    BY <1>0, <1>4, ExposureKept DEF MonitorTick, SetKillSwitch, ClockChange, vars
<1>5. CASE Monitor
  <2>1. limits'["position"] <= MaxLimit
      BY <1>0, <1>5 DEF Monitor, MonitorKillSwitch, MonitorLimit, Got, TypeOK, Limits, Field
  <2> QED BY <1>0, <1>5, <2>1, ExposureKept DEF Monitor, MonitorKillSwitch, MonitorLimit
<1>6. ASSUME NEW h \in Handler, RequestLimits(h) PROVE ExposureInv'
    BY <1>0, <1>6, ExposureKept DEF RequestLimits
<1>7. ASSUME NEW h \in Handler, NEW ok \in BOOLEAN, NEW stored \in BOOLEAN,
             WriteLimit(h, ok, stored)
      PROVE  ExposureInv'
  <2>1. /\ request[h].limits \in [Field -> LimitValue \cup {Missing}]
        /\ request[h].at \in Field
      BY <1>7 DEF TypeOK, WriteLimit
  <2>2. rLimits'["position"] <= MaxLimit
      BY <1>0, <1>7, <2>1, ConstantsAssumption DEF WriteLimit, Got, TypeOK, Field
  <2> QED BY <1>0, <1>7, <2>2, ExposureKept DEF WriteLimit
<1> QED BY <1>1, <1>2, <1>3, <1>4, <1>5, <1>6, <1>7, ExposureBoot, ExposureCheck
    DEF Next, Operate

LEMMA Exposure == Spec => []ExposureInv
<1>1. Init => ExposureInv
  <2> SUFFICES ASSUME Init PROVE ExposureInv OBVIOUS
  <2>1. \A s \in Symbol : InHand(s) = 0 /\ positions[s] = 0
      BY HandNone DEF Init, InHand, Zero
  <2>2. limits["position"] <= MaxLimit /\ rLimits["position"] <= MaxLimit
      BY ConstantsAssumption DEF Init, Missing, Field
  <2> QED BY <2>1, <2>2, ConstantsAssumption
      DEF Init, ExposureInv, Balance, Capped, Within, Published, Zero
<1> QED BY <1>1, ExposureStep, TypeCorrect, Controlled, PTL DEF Spec

\* The running process lets out no more of a symbol than the largest limit and
\* what it booked for orders whose position could not be stored, for any
\* number of symbols, signals, operators, faults and restarts.
THEOREM ExposureSafe == Spec => []ExposureCapped
<1>1. TypeOK /\ ExposureInv => ExposureCapped
  <2> SUFFICES ASSUME TypeOK, ExposureInv, NEW s \in Symbol
               PROVE  Abs(Published(s)) <= MaxLimit + Abs(phantom[s])
      BY DEF ExposureCapped
  <2>1. Published(s) \in Int /\ phantom[s] \in Int
      BY DEF TypeOK, Published
  <2> QED BY <2>1, ConstantsAssumption DEF ExposureInv, Capped, Within, Abs
<1> QED BY <1>1, TypeCorrect, Exposure, PTL

----------------------------------------------------------------------------
\* The throttle.  Between two changes of the clock, what has left and what has
\* passed the count is covered by the allowance, with all of MaxMessages to
\* spare when the window is not the current second's.
Passed == IF main \in {"maxloss", "loss", "set", "publish"} THEN 1 ELSE 0
RateInv ==
    /\ sentSecond + Passed <= allowance
    /\ up /\ windowStart = clock => sentSecond + Passed + MaxMessages <= allowance + messageCount
    /\ up /\ windowStart # clock => sentSecond + Passed + MaxMessages <= allowance

\* A count of messages per second bounds what leaves in a second, except for
\* the order checked in an earlier one and what restarts forget.
THEOREM RateSafe == Spec => []RateCapped
<1> USE ConstantsAssumption
<1>1. Init => RateInv
    BY DEF Init, RateInv, Passed
<1>2. TypeOK /\ Control /\ RateInv /\ [Next]_vars => RateInv'
  <2> SUFFICES ASSUME TypeOK, Control, RateInv, [Next]_vars PROVE RateInv' OBVIOUS
  <2> USE DEF redisVars, rmVars, taskVars, timeVars, netVars, bounds
  <2>0. /\ messageCount \in Nat /\ windowStart \in 0..MaxClock /\ clock \in 0..MaxClock
        /\ sentSecond \in Nat /\ allowance \in Nat /\ MaxMessages \in Nat
        /\ up \in BOOLEAN /\ WordSize > MaxClock /\ WordSize \in Nat /\ MaxClock \in Nat
      BY DEF TypeOK
  <2>1. ASSUME UNCHANGED <<sentSecond, allowance, windowStart, clock, messageCount>>,
               Passed' <= Passed, up' => up
        PROVE  RateInv'
    <3>1. Passed \in 0..1 /\ Passed' \in 0..1
        BY DEF Passed
    <3>2. Passed' = Passed \/ (Passed = 1 /\ Passed' = 0)
        BY <2>1, <3>1
    <3>3. CASE Passed' = Passed
        BY <2>1, <3>3 DEF RateInv
    <3>4. CASE Passed = 1 /\ Passed' = 0
        BY <2>0, <2>1, <3>4 DEF RateInv
    <3> QED BY <3>2, <3>3, <3>4
  <2>2. CASE Boot
    <3>1. Passed = 0 /\ Passed' = 0
        BY <2>2 DEF Boot, Control, Passed
    <3>2. /\ windowStart' = clock /\ messageCount' = 0
          /\ allowance' = allowance + MaxMessages /\ UNCHANGED <<clock, sentSecond>>
        BY <2>2 DEF Boot
    <3>3. sentSecond <= allowance
        BY <2>0, <3>1 DEF RateInv
    <3> QED BY <2>0, <3>1, <3>2, <3>3 DEF RateInv
  <2>3. CASE Crash \/ RecvSignal \/ BeginCheck
      BY <2>1, <2>3 DEF Crash, RecvSignal, BeginCheck, Rejected, Passed
  <2>4. ASSUME NEW ok \in BOOLEAN, CheckKillSwitch(ok) PROVE RateInv'
    <3>0. Passed = 0 /\ up /\ UNCHANGED <<sentSecond, allowance, clock, up>>
        BY <2>4 DEF CheckKillSwitch, Control, Passed, Rejected, Continue
    <3>1. CASE Tripped(ok)
        BY <2>1, <2>4, <3>1 DEF CheckKillSwitch, Rejected, Passed
    <3>2. CASE ~Tripped(ok)
      <4>1. /\ messageCount' = Counted
            /\ windowStart' = IF NewWindow THEN clock ELSE windowStart
            /\ Passed' = 0 \/ (Passed' = 1 /\ Counted <= MaxMessages)
          BY <2>4, <3>2 DEF CheckKillSwitch, Rejected, Continue, Passed, Acceptable, Control
      <4>2. NewWindow <=> windowStart # clock
          BY <2>0 DEF NewWindow, WrappingSub
      <4>3. CASE NewWindow
          BY <2>0, <3>0, <4>1, <4>2, <4>3 DEF RateInv, Counted
      <4>4. CASE ~NewWindow
          BY <2>0, <3>0, <4>1, <4>2, <4>4 DEF RateInv, Counted
      <4> QED BY <4>3, <4>4
    <3> QED BY <3>1, <3>2
  <2>5. ASSUME NEW ok \in BOOLEAN, NEW stored \in BOOLEAN,
               ReadMaxLoss(ok) \/ Book(ok) \/ StorePosition(ok, stored)
        PROVE  RateInv'
      BY <2>1, <2>5 DEF ReadMaxLoss, Book, StorePosition, Rejected, Continue, Passed
  <2>6. CASE Publish
    <3>1. Passed = 1 /\ Passed' = 0
        BY <2>6 DEF Publish, Rejected, Passed
    <3> QED BY <2>0, <2>6, <3>1 DEF Publish, Rejected, RateInv
  <2>7. CASE MonitorTick \/ Monitor \/ SetKillSwitch \/ UNCHANGED vars
      BY <2>1, <2>7 DEF MonitorTick, Monitor, MonitorKillSwitch, MonitorLimit,
                        SetKillSwitch, vars, Passed
  <2>8. CASE ClockChange
    <3>1. Passed \in 0..1 /\ Passed' = Passed /\ (~up => Passed = 0)
        BY <2>8 DEF ClockChange, Passed, Control
    <3> QED BY <2>0, <2>8, <3>1 DEF ClockChange, RateInv
  <2>9. ASSUME NEW h \in Handler, RequestLimits(h) \/ Operate(h) PROVE RateInv'
      BY <2>1, <2>9 DEF RequestLimits, Operate, WriteLimit, Passed
  <2> QED BY <2>2, <2>3, <2>4, <2>5, <2>6, <2>7, <2>8, <2>9 DEF Next, Check
<1>3. TypeOK /\ RateInv => RateCapped
    BY DEF RateInv, RateCapped, Passed, TypeOK
<1> QED BY <1>1, <1>2, <1>3, TypeCorrect, Controlled, PTL DEF Spec

----------------------------------------------------------------------------
\* Redis lags the published exposure by the order between its SET and its send.
RedisInv ==
    /\ boots = 0 => ~up /\ \A s \in Symbol : exposure[s] = 0 /\ rPosition[s] = 0
    /\ up /\ boots = 1 /\ faults = 0 =>
         \A s \in Symbol : /\ before[s] = 0 /\ phantom[s] = 0
                           /\ rPosition[s] = exposure[s]
                                + (IF main = "publish" THEN InHand(s) ELSE 0)

\* Without faults or restarts Redis shows, for every symbol, what was published.
THEOREM RedisExact == Spec => []RedisShowsExposure
<1>1. Init => RedisInv
    BY DEF Init, RedisInv, Zero
<1>2. TypeOK /\ Control /\ ExposureInv /\ RedisInv /\ [Next]_vars => RedisInv'
  <2> SUFFICES ASSUME TypeOK, Control, ExposureInv, RedisInv, [Next]_vars PROVE RedisInv'
      OBVIOUS
  <2> USE DEF redisVars, rmVars, taskVars, timeVars, netVars, bounds
  <2>0. /\ rPosition \in [Symbol -> Int] /\ positions \in [Symbol -> Int]
        /\ exposure \in [Symbol -> Int] /\ boots \in Nat /\ faults \in Nat
      BY DEF TypeOK
  <2>1. ASSUME UNCHANGED <<boots, rPosition, netVars, order>>, up' => up,
               faults' = 0 => faults = 0,
               main' = main \/ (main # "publish" /\ main' # "publish")
        PROVE  RedisInv'
    <3>1. CASE main' = main
        BY <2>1, <3>1 DEF RedisInv, InHand
    <3>2. CASE main # "publish" /\ main' # "publish"
        BY <2>1, <3>2 DEF RedisInv
    <3> QED BY <2>1, <3>1, <3>2
  <2>2. CASE Boot
    <3>1. /\ boots' = boots + 1 /\ up' /\ main' = "recv" /\ UNCHANGED <<exposure, rPosition>>
          /\ \A s \in Symbol : before'[s] = exposure[s] /\ phantom'[s] = 0
        BY <2>2 DEF Boot, Control, Zero
    <3> QED BY <2>0, <3>1 DEF RedisInv
  <2>3. CASE Crash
      BY <2>3 DEF Crash, RedisInv
  <2>4. ASSUME ~up' \/ main' # "publish", main # "publish", UNCHANGED <<boots, up, rPosition, netVars>>,
               faults' = 0 => faults = 0
        PROVE  RedisInv'
      BY <2>4 DEF RedisInv
  <2>5. CASE RecvSignal \/ BeginCheck
      BY <2>4, <2>5 DEF RecvSignal, BeginCheck, Rejected
  <2>6. ASSUME NEW ok \in BOOLEAN, CheckKillSwitch(ok) \/ ReadMaxLoss(ok) \/ Book(ok)
        PROVE  RedisInv'
      BY <2>0, <2>4, <2>6 DEF CheckKillSwitch, ReadMaxLoss, Book, Rejected, Continue, RedisCall
  <2>7. ASSUME NEW ok \in BOOLEAN, NEW stored \in BOOLEAN, StorePosition(ok, stored)
        PROVE  RedisInv'
    <3>1. CASE ~ok
        BY <2>0, <2>7, <3>1 DEF StorePosition, RedisCall, RedisInv, Control
    <3>2. CASE ok /\ up /\ boots = 1 /\ faults = 0
      <4>1. PICK o \in Order : order = {o}
          BY <2>7 DEF StorePosition, Control
      <4>2. \A s \in Symbol : /\ InHand(s)' = InHand(s)
                              /\ InHand(s) = IF o.symbol = s THEN Signed(o) ELSE 0
          BY <2>7, <3>2, <4>1, HandOf DEF StorePosition, Continue, InHand
      <4>3. \A s \in Symbol : rPosition[s] = exposure[s] /\ before[s] = 0 /\ phantom[s] = 0
          BY <2>0, <2>7, <3>2 DEF StorePosition, RedisInv
      <4>4. \A s \in Symbol : positions[s] = exposure[s] + InHand(s)
          BY <2>0, <3>2, <4>1, <4>2, <4>3, OrderTyped DEF ExposureInv, Balance, Published
      <4>5. /\ rPosition' = [rPosition EXCEPT ![o.symbol] = positions[o.symbol]]
            /\ main' = "publish" /\ UNCHANGED <<exposure, before, phantom, boots>>
          BY <2>7, <3>2, <4>1 DEF StorePosition, StoredValue, Continue
      <4>6. \A s \in Symbol : rPosition'[s] = exposure'[s] + InHand(s)'
          BY <2>0, <4>1, <4>2, <4>3, <4>4, <4>5
      <4> QED BY <3>2, <4>3, <4>5, <4>6 DEF RedisInv
    <3>3. CASE ok /\ ~(up /\ boots = 1 /\ faults = 0)
        BY <2>0, <2>7, <3>3 DEF StorePosition, Continue, RedisCall, RedisInv, Control
    <3> QED BY <3>1, <3>2, <3>3
  <2>8. CASE Publish
    <3>1. PICK o \in Order : order = {o}
        BY <2>8 DEF Publish, Control
    <3>2. \A s \in Symbol : InHand(s) = IF o.symbol = s THEN Signed(o) ELSE 0
        BY <2>8, <3>1, HandOf DEF Publish, InHand
    <3>3. /\ exposure' = Add(exposure, o.symbol, Signed(o)) /\ main = "publish"
          /\ main' = "recv" /\ up /\ UNCHANGED <<rPosition, before, phantom, boots, up, faults>>
        BY <2>8, <3>1 DEF Publish, Rejected, Control
    <3>4. \A s \in Symbol : exposure'[s] = exposure[s] + InHand(s)
        BY <2>0, <3>1, <3>2, <3>3, OrderTyped DEF Add
    <3>5. \A s \in Symbol : exposure'[s] \in Int
        BY <2>0, <3>1, <3>2, <3>4, OrderTyped
    <3> QED BY <2>0, <3>3, <3>4, <3>5 DEF RedisInv
  <2>9. CASE MonitorTick \/ Monitor \/ SetKillSwitch \/ ClockChange \/ UNCHANGED vars
      BY <2>0, <2>1, <2>9 DEF MonitorTick, Monitor, MonitorKillSwitch, MonitorLimit, RedisCall,
                        SetKillSwitch, ClockChange, vars
  <2>10. ASSUME NEW h \in Handler, RequestLimits(h) \/ Operate(h) PROVE RedisInv'
      BY <2>0, <2>1, <2>10 DEF RequestLimits, Operate, WriteLimit, RedisCall
  <2> QED BY <2>2, <2>3, <2>5, <2>6, <2>7, <2>8, <2>9, <2>10 DEF Next, Check
<1>3. TypeOK /\ RedisInv => RedisShowsExposure
  <2> SUFFICES ASSUME TypeOK, RedisInv, up, boots = 1, faults = 0, main # "publish"
               PROVE  rPosition = exposure
      BY DEF RedisShowsExposure
  <2>1. \A s \in Symbol : rPosition[s] = exposure[s]
      BY DEF RedisInv, TypeOK
  <2> QED BY <2>1 DEF TypeOK
<1> QED BY <1>1, <1>2, <1>3, TypeCorrect, Controlled, Exposure, PTL DEF Spec
=============================================================================
