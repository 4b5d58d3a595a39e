---------------------------- MODULE RiskManager ----------------------------
(***************************************************************************)
(* The risk service, src/risk/src/main.rs: the main loop that turns every  *)
(* signal into an order, checks it and publishes it; the task that         *)
(* refreshes the kill switch and the limits once a second; and what the    *)
(* handlers of src/monitoring/src/main.rs do to the Redis keys it reads.   *)
(*                                                                         *)
(* Both tasks hold rm.write() across their awaits, so a control state      *)
(* names the Redis call a task is about to make, and only Redis itself can *)
(* change under it.  Quantities, limits and prices are integers.           *)
(***************************************************************************)
EXTENDS Integers, FiniteSets

CONSTANTS
    Symbol,         \* traded symbols
    Quantity,       \* quantities a signal may carry
    Price,          \* prices of limit signals and of "price:*" (not written in src/)
    LimitValue,     \* values an operator may write for a limit
    DailyLoss,      \* values of "risk:daily_loss" (no code in src/ writes it)
    Defaults,       \* the fallbacks of RiskManager::new
    MaxLimit,       \* no max_position is ever larger
    MaxMessages,    \* max_messages_per_second (100)
    WordSize,       \* 2^64, the modulus of u64 subtraction
    Handler,        \* the update_risk_limits requests of a behaviour
    \* bounds of a behaviour
    MaxClock, MaxSteps, MaxSignals, MaxToggles, MaxFaults, MaxBoots

Missing == -1                               \* GET of a key that does not exist
Field   == {"position", "size", "loss"}
Limits  == [Field -> Nat]
Order   == [symbol : Symbol, side : {"Buy", "Sell"}, quantity : Quantity,
            price : Price \cup {Missing}]

ASSUME ConstantsAssumption ==
    /\ MaxLimit \in Nat /\ Quantity \subseteq Nat /\ Price \subseteq Nat
    /\ LimitValue \subseteq 0..MaxLimit /\ DailyLoss \subseteq Nat
    /\ Defaults \in Limits /\ Defaults["position"] <= MaxLimit
    /\ MaxMessages \in Nat /\ MaxClock \in Nat
    /\ WordSize \in Nat /\ WordSize > MaxClock
    /\ MaxSteps \in Nat /\ MaxSignals \in Nat /\ MaxToggles \in Nat
    /\ MaxFaults \in Nat /\ MaxBoots \in Nat

VARIABLES
    \* Redis
    rKill, rLimits, rPosition, rDailyLoss,
    request,        \* what each update_risk_limits handler has still to write
    \* struct RiskManager
    positions, limits, messageCount, windowStart, killSwitch, bands,
    \* control
    up, lock, main, monitor, order,
    clock,          \* now_secs()
    \* history
    exposure,       \* net quantity published per symbol, ever
    before,         \* exposure when this process started
    phantom,        \* net quantity booked since then for orders rejected later
    watch,          \* "armed": the switch has been on since this check began;
                    \* "blind": so, and the check's GET of it failed
    sentSecond,     \* orders published since the clock last changed
    allowance,      \* what the throttle concedes for that second
    \* how much of each bound is used up
    signals, toggles, faults, boots, steps

redisVars  == <<rKill, rLimits, rPosition, rDailyLoss, request>>
rmVars     == <<positions, limits, messageCount, windowStart, killSwitch, bands>>
taskVars   == <<up, lock, main, monitor, order>>
timeVars   == <<clock, sentSecond, allowance, steps>>
netVars    == <<exposure, before, phantom>>
bounds     == <<signals, toggles, boots>>
vars == <<redisVars, rmVars, taskVars, timeVars, netVars, watch, faults, bounds>>

Zero == [s \in Symbol |-> 0]
Abs(n) == IF n < 0 THEN -n ELSE n
Signed(o) == IF o.side = "Buy" THEN o.quantity ELSE -o.quantity
Add(f, s, n) == [f EXCEPT ![s] = @ + n]
WrappingSub(a, b) == IF a >= b THEN a - b ELSE a - b + WordSize

\* A Redis command is answered, or fails while the fault bound lasts.
RedisCall(ok) == /\ ok \/ faults < MaxFaults
                 /\ faults' = IF ok THEN faults ELSE faults + 1

\* Bug: a missing key read as a value.
GotUnchecked(ok, key, old) == IF ok THEN key ELSE old

\* Bug: a limit is raised, and never lowered again.
GotIfHigher(ok, key, old) == IF ok /\ key > old THEN key ELSE old

\* What "if let Ok(x) = GET key" leaves in x: the old value on a failed call
\* and on a missing key.
Got(ok, key, old) == IF ok /\ key # Missing THEN key ELSE old

\* The limits are read, and written, in this order.
AfterLimit(at, end) == CASE at = "position" -> "size"
                         [] at = "size"     -> "loss"
                         [] at = "loss"     -> end

\* Bug: the manager shared without a lock.
NoLock == TRUE

\* rm.write() can be granted.
LockFree == lock = "free"

Init ==
    /\ rKill \in BOOLEAN
    /\ rLimits = [f \in Field |-> Missing]
    /\ rPosition = Zero
    /\ rDailyLoss \in DailyLoss \cup {Missing}
    /\ request = [h \in Handler |-> [at |-> "new", limits |-> rLimits]]
    /\ positions = Zero /\ limits = Defaults /\ killSwitch = FALSE
    /\ messageCount = 0 /\ windowStart = 0
    /\ bands = [s \in Symbol |-> Missing]
    /\ up = FALSE /\ lock = "free" /\ main = "recv" /\ monitor = "sleep"
    /\ order = {}
    /\ exposure = Zero /\ before = Zero /\ phantom = Zero
    /\ watch = "idle"
    /\ clock = 0 /\ sentSecond = 0 /\ allowance = 0 /\ steps = 0
    /\ signals = 0 /\ toggles = 0 /\ faults = 0 /\ boots = 0

----------------------------------------------------------------------------
\* main() starts: RiskManager::new reads its keys, each falling back to a
\* default when its GET fails, and begins with no positions.
Boot ==
    /\ ~up /\ boots < MaxBoots
    /\ \E ok \in [Field \cup {"kill", "bands"} -> BOOLEAN] :
         /\ RedisCall(\A k \in DOMAIN ok : ok[k])
         /\ killSwitch' = (ok["kill"] /\ rKill)
         /\ limits' = [f \in Field |-> Got(ok[f], rLimits[f], Defaults[f])]
         /\ bands' \in IF ok["bands"] THEN [Symbol -> Price \cup {Missing}]
                      ELSE {[s \in Symbol |-> Missing]}
    /\ positions' = Zero /\ messageCount' = 0 /\ windowStart' = clock
    /\ up' = TRUE /\ boots' = boots + 1
    /\ before' = exposure /\ phantom' = Zero
    /\ allowance' = allowance + MaxMessages
    /\ UNCHANGED <<redisVars, lock, main, monitor, order, clock, sentSecond,
                   steps, exposure, watch, signals, toggles>>

\* The process ends: a "?" in main() (recv, deserialisation, send), a kill.
Crash ==
    /\ up
    /\ up' = FALSE /\ lock' = "free" /\ main' = "recv" /\ monitor' = "sleep"
    /\ order' = {} /\ watch' = "idle"
    /\ UNCHANGED <<redisVars, rmVars, timeVars, netVars, faults, bounds>>

\* A signal arrives and becomes an order; the loop asks for the write lock.
RecvSignal ==
    /\ up /\ main = "recv" /\ signals < MaxSignals
    /\ \E o \in Order : order' = {o}
    /\ main' = "lock" /\ signals' = signals + 1
    /\ UNCHANGED <<redisVars, rmVars, up, lock, monitor, timeVars, netVars,
                   watch, faults, toggles, boots>>

\* The order is dropped and the write guard with it.
Rejected == /\ main' = "recv" /\ order' = {} /\ lock' = "free"
            /\ watch' = "idle" /\ UNCHANGED <<up, monitor>>
\* The check goes on to its next Redis call.
Continue(at) == /\ main' = at /\ UNCHANGED <<up, lock, monitor, order>>

\* rm.write() is granted; check_order looks at the local flag.
BeginCheck ==
    /\ main = "lock" /\ LockFree
    /\ IF killSwitch THEN Rejected
       ELSE /\ lock' = "main" /\ main' = "kill"
            /\ watch' = IF rKill THEN "armed" ELSE "idle"
            /\ UNCHANGED <<up, monitor, order>>
    /\ UNCHANGED <<redisVars, rmVars, timeVars, netVars, faults, bounds>>

\* Bug: only the local copy of the switch stops an order.
NeverTripped(ok) == FALSE

\* check_order 1: the GET of the switch finds it on.
Tripped(ok) == ok /\ rKill

\* Bug: an off-by-one, so that every message opens a window.
AlwaysNewWindow == WrappingSub(clock, windowStart) >= 0

\* check_order 2: count the message in the window of its second.
NewWindow == WrappingSub(clock, windowStart) >= 1
Counted == (IF NewWindow THEN 0 ELSE messageCount) + 1

\* Bug: the side of the order forgotten.
UnsignedPosition(o) == positions[o.symbol] + o.quantity

\* check_order 5: the position the order would lead to.
NewPosition(o) == positions[o.symbol] + Signed(o)

\* check_order 3, 4 and 5 on an order o.
OutOfBand(o) == /\ o.price # Missing /\ bands[o.symbol] # Missing
                /\ \/ 10 * o.price < 9 * bands[o.symbol]
                   \/ 10 * o.price > 11 * bands[o.symbol]
Acceptable(o) == /\ Counted <= MaxMessages
                 /\ o.quantity <= limits["size"]
                 /\ ~OutOfBand(o)
                 /\ Abs(NewPosition(o)) <= limits["position"]

\* check_order 1 to 5: the GET of the kill switch, and then, with no await
\* between them, the throttle and the checks of size, band and position.
CheckKillSwitch(ok) ==
    /\ main = "kill" /\ RedisCall(ok)
    /\ IF Tripped(ok)
       THEN killSwitch' = TRUE /\ Rejected /\ UNCHANGED <<messageCount, windowStart>>
       ELSE /\ messageCount' = Counted
            /\ windowStart' = IF NewWindow THEN clock ELSE windowStart
            /\ IF \A o \in order : Acceptable(o)
               THEN /\ Continue("maxloss")
                    /\ watch' = IF watch = "armed" /\ ~ok THEN "blind" ELSE watch
               ELSE Rejected
            /\ UNCHANGED killSwitch
    /\ UNCHANGED <<redisVars, positions, limits, bands, timeVars, netVars, bounds>>

\* check_order 6: the GET of max_daily_loss.
ReadMaxLoss(ok) ==
    /\ main = "maxloss" /\ RedisCall(ok)
    /\ limits' = [limits EXCEPT !["loss"] = Got(ok, rLimits["loss"], @)]
    /\ Continue("loss")
    /\ UNCHANGED <<redisVars, positions, messageCount, windowStart, killSwitch,
                   bands, timeVars, netVars, watch, bounds>>

\* check_order 6: the GET of daily_loss.  An order that passes is booked at
\* once, before the position is stored.
Book(ok) ==
    /\ main = "loss" /\ RedisCall(ok)
    /\ IF Got(ok, rDailyLoss, Missing) >= limits["loss"]
       THEN Rejected /\ UNCHANGED positions
       ELSE /\ \E o \in order : positions' = Add(positions, o.symbol, Signed(o))
            /\ Continue("set") /\ UNCHANGED watch
    /\ UNCHANGED <<redisVars, limits, messageCount, windowStart, killSwitch,
                   bands, timeVars, netVars, bounds>>

\* Bug: the position from before the booking is stored.
StoredTooEarly(o) == positions[o.symbol] - Signed(o)

\* What the SET stores.
StoredValue(o) == positions[o.symbol]

\* The SET of the position.  Its failure, whether or not Redis stored the
\* value, rejects the order; the booking stays.
StorePosition(ok, stored) ==
    /\ main = "set" /\ RedisCall(ok) /\ (ok => stored)
    /\ \E o \in order :
         /\ rPosition' = IF stored THEN [rPosition EXCEPT ![o.symbol] = StoredValue(o)]
                         ELSE rPosition
         /\ IF ok THEN Continue("publish") /\ UNCHANGED <<watch, phantom>>
            ELSE Rejected /\ phantom' = Add(phantom, o.symbol, Signed(o))
    /\ UNCHANGED <<rKill, rLimits, rDailyLoss, request, rmVars, timeVars,
                   exposure, before, bounds>>

\* The order is sent, and the write guard dropped at the end of the loop body.
\* (A failed send ends the process: Crash.)
Publish ==
    /\ main = "publish"
    /\ \E o \in order : exposure' = Add(exposure, o.symbol, Signed(o))
    /\ sentSecond' = sentSecond + 1
    /\ Rejected
    /\ UNCHANGED <<redisVars, rmVars, clock, allowance, steps, before, phantom,
                   faults, bounds>>

----------------------------------------------------------------------------
\* The monitor task's interval fires and rm.write() is granted.
MonitorTick ==
    /\ up /\ monitor = "sleep" /\ LockFree
    /\ monitor' = "kill" /\ lock' = "monitor"
    /\ UNCHANGED <<redisVars, rmVars, up, main, order, timeVars, netVars, watch,
                   faults, bounds>>

\* Bug: a switch once on is never seen off.
Latched(ok) == killSwitch \/ (ok /\ rKill)

\* The copy update_daily_loss leaves in the manager.
Refreshed(ok) == IF ok THEN rKill ELSE killSwitch

\* update_daily_loss: it copies the kill switch, and no loss.
MonitorKillSwitch(ok) ==
    /\ monitor = "kill" /\ RedisCall(ok)
    /\ killSwitch' = Refreshed(ok)
    /\ monitor' = "position"
    /\ UNCHANGED <<redisVars, positions, limits, messageCount, windowStart, bands,
                   up, lock, main, order, timeVars, netVars, watch, bounds>>

\* Bug: the guard declared outside the loop, and kept while the task sleeps.
KeptAfter(at) == lock

\* The guard is dropped at the end of the loop body, after the last limit.
LockAfter(at) == IF at = "loss" THEN "free" ELSE lock

\* refresh_limits: one GET per limit.
MonitorLimit(ok) ==
    /\ monitor \in Field /\ RedisCall(ok)
    /\ limits' = [limits EXCEPT ![monitor] = Got(ok, rLimits[monitor], @)]
    /\ monitor' = AfterLimit(monitor, "sleep")
    /\ lock' = LockAfter(monitor)
    /\ UNCHANGED <<redisVars, positions, messageCount, windowStart, killSwitch,
                   bands, up, main, order, timeVars, netVars, watch, bounds>>

----------------------------------------------------------------------------
\* set_kill_switch(active) of the monitoring service.
SetKillSwitch ==
    /\ toggles < MaxToggles
    /\ rKill' = ~rKill /\ toggles' = toggles + 1
    /\ watch' = IF rKill THEN "idle" ELSE watch
    /\ UNCHANGED <<rLimits, rPosition, rDailyLoss, request, rmVars, taskVars,
                   timeVars, netVars, faults, signals, boots>>

\* update_risk_limits: a request carries a value for some of the limits.
RequestLimits(h) ==
    /\ request[h].at = "new"
    /\ \E l \in [Field -> LimitValue \cup {Missing}] :
         request' = [request EXCEPT ![h] = [at |-> "position", limits |-> l]]
    /\ UNCHANGED <<rKill, rLimits, rPosition, rDailyLoss, rmVars, taskVars,
                   timeVars, netVars, watch, faults, bounds>>

\* One SET of the handler, if the request names the limit; a failed one,
\* whether or not Redis stored the value, makes it return before the rest.
WriteLimit(h, ok, stored) ==
    LET r == request[h]
    IN /\ r.at \in Field /\ RedisCall(ok) /\ (ok => stored)
       /\ r.limits[r.at] = Missing => ok
       /\ rLimits' = [rLimits EXCEPT ![r.at] = Got(stored, r.limits[r.at], @)]
       /\ request' = [request EXCEPT ![h].at =
                        IF ok THEN AfterLimit(r.at, "done") ELSE "done"]
       /\ UNCHANGED <<rKill, rPosition, rDailyLoss, rmVars, taskVars, timeVars,
                      netVars, watch, bounds>>

\* now_secs() moves on, or is stepped back by an adjustment of the clock.
ClockChange ==
    /\ \/ clock < MaxClock /\ clock' = clock + 1 /\ UNCHANGED steps
       \/ clock > 0 /\ steps < MaxSteps /\ clock' = clock - 1 /\ steps' = steps + 1
    /\ sentSecond' = 0 /\ allowance' = IF up THEN MaxMessages + 1 ELSE 0
    /\ UNCHANGED <<redisVars, rmVars, taskVars, netVars, watch, faults, bounds>>

----------------------------------------------------------------------------
\* Steps of a task that holds the lock.
Check   == \/ Publish
           \/ \E ok, stored \in BOOLEAN :
                CheckKillSwitch(ok) \/ ReadMaxLoss(ok) \/ Book(ok) \/ StorePosition(ok, stored)
Monitor == \E ok \in BOOLEAN : MonitorKillSwitch(ok) \/ MonitorLimit(ok)
\* Steps of an update_risk_limits request under way.
Operate(h) == \E ok, stored \in BOOLEAN : WriteLimit(h, ok, stored)

Next ==
    \/ Boot \/ Crash \/ RecvSignal \/ BeginCheck \/ Check
    \/ MonitorTick \/ Monitor
    \/ SetKillSwitch \/ ClockChange
    \/ \E h \in Handler : RequestLimits(h) \/ Operate(h)

\* Tokio polls a task whose await is ready, and its RwLock serves waiters in
\* order, so neither loop is starved of the lock.  Signals, operators, clock,
\* faults and restarts owe nothing.
Fairness == /\ WF_vars(Check) /\ WF_vars(Monitor)
            /\ SF_vars(BeginCheck) /\ SF_vars(MonitorTick)
            /\ \A h \in Handler : WF_vars(Operate(h))

Spec == Init /\ [][Next]_vars /\ Fairness

----------------------------------------------------------------------------
TypeOK ==
    /\ rKill \in BOOLEAN /\ killSwitch \in BOOLEAN /\ up \in BOOLEAN
    /\ rLimits \in [Field -> Nat \cup {Missing}] /\ limits \in Limits
    /\ rPosition \in [Symbol -> Int] /\ positions \in [Symbol -> Int]
    /\ bands \in [Symbol -> Nat \cup {Missing}]
    /\ rDailyLoss \in Nat \cup {Missing}
    /\ request \in [Handler -> [at : Field \cup {"new", "done"},
                                limits : [Field -> LimitValue \cup {Missing}]]]
    /\ messageCount \in Nat /\ windowStart \in 0..MaxClock /\ clock \in 0..MaxClock
    /\ lock \in {"free", "main", "monitor"}
    /\ main \in {"recv", "lock", "kill", "maxloss", "loss", "set", "publish"}
    /\ monitor \in Field \cup {"sleep", "kill"}
    /\ order \in SUBSET Order
    /\ exposure \in [Symbol -> Int] /\ before \in [Symbol -> Int]
    /\ phantom \in [Symbol -> Int]
    /\ watch \in {"idle", "armed", "blind"}
    /\ sentSecond \in Nat /\ allowance \in Nat
    /\ signals \in Nat /\ toggles \in Nat /\ faults \in Nat
    /\ boots \in Nat /\ steps \in Nat

Published(s) == exposure[s] - before[s]     \* by the running process

\* What the running process has let out on a symbol stays within the largest
\* limit, plus what it booked for orders it then rejected (check_order 5 and
\* the booking before the SET, main.rs:222-245), whatever the operators, the
\* monitor task and Redis do in between.
ExposureCapped == \A s \in Symbol : Abs(Published(s)) <= MaxLimit + Abs(phantom[s])

\* In a first run without a Redis fault, the position:* keys, which the
\* dashboard shows, are what has been published, but for the order in hand.
RedisShowsExposure ==
    (up /\ boots = 1 /\ faults = 0 /\ main # "publish")
        => rPosition = exposure

\* An order whose check began with the switch on is not approved while it
\* stays on, unless the check's own GET of the switch failed (main.rs:168-182).
KillSwitchHonored == watch = "armed" => main = "kill"

\* No more orders leave between two changes of the clock than the throttle
\* allows, plus one checked before the change, plus an allowance for each
\* restart, which forgets the count (main.rs:184-193, 140-141).
RateCapped == sentSecond <= allowance

\* From the grant of the lock to the decision, a check sees one kill switch,
\* position limit and size limit: the monitor task writes them only between
\* checks.
Checking == main \in {"kill", "maxloss", "loss", "set", "publish"}
StableDuringCheck ==
    [][Checking /\ Checking' => /\ UNCHANGED killSwitch
                               /\ limits["position"]' = limits["position"]
                               /\ limits["size"]' = limits["size"]]_vars

\* When operators and restarts have stopped, the process's copy of the switch
\* comes to agree with Redis, on or off (main.rs:251-258), although a check
\* only ever turns it on.
KillSwitchFollows ==
    \A b \in BOOLEAN : <>[](up /\ rKill = b) => <>[](killSwitch = b)

\* And so do its limits: a refresh torn by a concurrent update_risk_limits, or
\* by a failed GET, is repaired by a later one (main.rs:149-161).
LimitsFollow ==
    <>[]up => <>[](\A f \in Field : rLimits[f] # Missing => limits[f] = rLimits[f])

\* Every signal received is decided, or the process ends: neither the lock nor
\* a failed call leaves the loop waiting.
SignalsDecided == main # "recv" ~> main = "recv"
=============================================================================
