----------------------------- MODULE OMSProofs -----------------------------
(***************************************************************************)
(* Proofs about OMS, for any set of orders and any bounds.                 *)
(***************************************************************************)
EXTENDS OMS, TLAPS

----------------------------------------------------------------------------
(* Types.                                                                   *)

ControlType ==
    /\ up \in BOOLEAN /\ tasks \in SUBSET Task /\ active \in SUBSET Task
    /\ step \in {"idle", "exists", "mark", "persist", "cache", "push", "trim",
                 "send", "insert", "execution", "status"}
    /\ attempt \in 0..MaxRetries
StoreType ==
    /\ idempotency \in SUBSET Order /\ cached \in SUBSET Order /\ audit \in Nat
    /\ status \in [Order -> Status \cup {"none"}] /\ executions \in SUBSET ReportTask
    /\ pending \in SUBSET Order /\ retryQueue \in [Order -> Nat]
MarketType ==
    /\ delivered \in [Order -> 0..MaxCopies]
    /\ exchange \in [Order -> [Sending -> {"unsent", "sent", "acked", "done"}]]
    /\ sent \in [Order -> Nat] /\ doubtful \in [Order -> Nat]
    /\ said \in [Order -> SUBSET Outcome] /\ settled \in SUBSET Order
    /\ misses \in [Order -> Nat]
    /\ faults \in Nat /\ crashes \in Nat /\ expiries \in Nat
FailedType == failed \in [Kind -> SUBSET Order]

\* A handler goes on or returns.
LEMMA Moves ==
    ASSUME ControlType,
           NEW s \in {"mark", "persist", "cache", "push", "trim", "send", "insert", "status"},
           \/ GoTo(s) \/ Release \/ \E ok \in BOOLEAN : Or(ok, s)
    PROVE ControlType'
  <1>1. GoTo(s) \/ Release
    BY DEF Or
  <1>2. CASE GoTo(s)
    BY <1>2 DEF GoTo, ControlType
  <1>3. CASE Release
    BY <1>3, ConstantsAssumption DEF Release, ControlType
  <1> QED BY <1>1, <1>2, <1>3

\* A call uses up a fault, or none.
LEMMA Calls == ASSUME faults \in Nat, NEW ok, NEW applied, Call(ok, applied) PROVE faults' \in Nat
  BY DEF Call

\* The exchange's view of one sending is replaced.
LEMMA Replaced ==
    ASSUME MarketType, NEW o \in Order, NEW n, NEW s \in {"unsent", "sent", "acked", "done"}
    PROVE [exchange EXCEPT ![o][n] = s]
            \in [Order -> [Sending -> {"unsent", "sent", "acked", "done"}]]
  BY DEF MarketType

\* The calls of a handler keep the types.
LEMMA HandleTypes == TypeOK /\ Handle => TypeOK'
  <1> SUFFICES ASSUME ControlType, StoreType, MarketType, FailedType, Handle
               PROVE ControlType' /\ StoreType' /\ MarketType' /\ FailedType'
    BY DEF TypeOK, ControlType, StoreType, MarketType, FailedType
  <1> USE DEF redisVars, dbVars, omsVars, envVars, sentVars, bounds
  <1>1. PICK t \in active, ok \in BOOLEAN, applied \in BOOLEAN :
          /\ \/ t.kind = "order" /\ OrderStep(t, ok, applied)
             \/ t.kind = "report" /\ ReportStep(t, ok, applied)
          /\ failed' = IF active' = {} /\ ~ok
                        THEN [failed EXCEPT ![t.kind] = @ \cup {t.order}] ELSE failed
    BY DEF Handle
  <1> DEFINE o == t.order
  <1>2. t \in Task /\ o \in Order /\ faults \in Nat /\ t.kind \in Kind
    BY DEF ControlType, MarketType, Task, OrderTask, ReportTask, Kind
  <1>14. FailedType'
    <2>1. failed' = failed \/ failed' = [failed EXCEPT ![t.kind] = @ \cup {t.order}]
      BY <1>1
    <2> QED BY <1>2, <2>1 DEF FailedType
  <1>3. CASE CheckIdempotency(o, ok)
    <2>1. ControlType'
      BY <1>3, Moves DEF CheckIdempotency
    <2>2. misses' \in [Order -> Nat]
      BY <1>2, <1>3 DEF CheckIdempotency, MarketType
    <2> QED BY <1>14, <1>2, <1>3, <2>1, <2>2, Calls DEF CheckIdempotency, StoreType, MarketType
  <1>4. CASE MarkProcessed(o, ok, applied)
    <2>1. ControlType'
      BY <1>4, Moves DEF MarkProcessed
    <2> QED BY <1>14, <1>2, <1>4, <2>1, Calls DEF MarkProcessed, StoreType, MarketType
  <1>5. CASE PersistOrder(o, ok, applied)
    <2>1. ControlType'
      BY <1>5, Moves DEF PersistOrder, InsertOrder
    <2> QED BY <1>14, <1>2, <1>5, <2>1, Calls
            DEF PersistOrder, InsertOrder, StoreType, MarketType, Status
  <1>6. CASE CacheOrder(o, ok, applied)
    <2>1. ControlType'
      BY <1>6, Moves DEF CacheOrder
    <2> QED BY <1>14, <1>2, <1>6, <2>1, Calls DEF CacheOrder, StoreType, MarketType
  <1>7. CASE PushAudit(ok, applied)
    <2>1. ControlType'
      BY <1>7, Moves DEF PushAudit
    <2> QED BY <1>14, <1>2, <1>7, <2>1, Calls DEF PushAudit, StoreType, MarketType
  <1>8. ASSUME audit \in Nat PROVE Trimmed(audit) \in Nat
    BY <1>8, ConstantsAssumption DEF Trimmed, Min
  <1>9. CASE TrimOrderAudit(o, ok, applied)
    <2>1. ControlType'
      BY <1>9, Moves DEF TrimOrderAudit
    <2> QED BY <1>14, <1>2, <1>8, <1>9, <2>1, Calls DEF TrimOrderAudit, StoreType, MarketType
  <1>10. CASE t.kind = "report" /\ TrimReportAudit(t, ok, applied)
    <2>1. ControlType'
      BY <1>10, Moves DEF TrimReportAudit
    <2> QED BY <1>14, <1>2, <1>8, <1>10, <2>1, Calls DEF TrimReportAudit, StoreType, MarketType
  <1>11. CASE SendToExecution(o, ok, applied)
    <2>1. ControlType'
      <3>1. \/ Release \/ GoTo("insert")
            \/ CanRetry /\ attempt' = attempt + 1 /\ UNCHANGED <<up, tasks, active, step>>
        BY <1>11 DEF SendToExecution
      <3>2. CASE CanRetry /\ attempt' = attempt + 1 /\ UNCHANGED <<up, tasks, active, step>>
        BY <3>2, ConstantsAssumption DEF CanRetry, ControlType
      <3> QED BY <3>1, <3>2, Moves
    <2>2. StoreType'
      BY <1>2, <1>11 DEF SendToExecution, StoreType
    <2>3. exchange' \in [Order -> [Sending -> {"unsent", "sent", "acked", "done"}]]
      <3>1. exchange' = exchange \/ exchange' = [exchange EXCEPT ![o][sent[o] + 1] = "sent"]
        BY <1>11 DEF SendToExecution, Leave
      <3>2. exchange \in [Order -> [Sending -> {"unsent", "sent", "acked", "done"}]]
        BY DEF MarketType
      <3>3. [exchange EXCEPT ![o][sent[o] + 1] = "sent"]
              \in [Order -> [Sending -> {"unsent", "sent", "acked", "done"}]]
        BY <1>2, Replaced
      <3> QED BY <3>1, <3>2, <3>3
    <2>4. sent' \in [Order -> Nat] /\ doubtful' \in [Order -> Nat]
      <3>1. sent' = sent \/ sent' = [sent EXCEPT ![o] = @ + 1]
        BY <1>11 DEF SendToExecution, Leave
      <3>2. doubtful' = doubtful \/ doubtful' = [doubtful EXCEPT ![o] = @ + 1]
        BY <1>11 DEF SendToExecution, Leave
      <3> QED BY <1>2, <3>1, <3>2 DEF MarketType
    <2>5. MarketType'
      BY <1>2, <1>11, <2>3, <2>4, Calls DEF SendToExecution, MarketType
    <2> QED BY <1>14, <2>1, <2>2, <2>5
  <1>15. CASE InsertPending(o)
    <2>1. ControlType'
      BY <1>15, Moves DEF InsertPending
    <2> QED BY <1>14, <1>2, <1>15, <2>1 DEF InsertPending, StoreType, MarketType
  <1>12. CASE t.kind = "report" /\ PersistExecution(t, ok, applied)
    <2>1. t \in ReportTask
      BY <1>2, <1>12 DEF Task, OrderTask
    <2>2. ControlType'
      BY <1>12, Moves DEF PersistExecution
    <2> QED BY <1>14, <1>2, <1>12, <2>1, <2>2, Calls DEF PersistExecution, StoreType, MarketType
  <1>13. CASE t.kind = "report" /\ UpdateStatus(t, ok, applied)
    <2>1. t.status \in Status
      BY <1>2, <1>13 DEF Task, OrderTask, ReportTask, Status
    <2>2. ControlType'
      BY <1>13, Moves DEF UpdateStatus
    <2> QED BY <1>14, <1>2, <1>13, <2>1, <2>2, Calls DEF UpdateStatus, NewStatus, StoreType, MarketType
  <1> QED BY <1>1, <1>3, <1>4, <1>5, <1>6, <1>7, <1>9, <1>10, <1>11, <1>12, <1>13, <1>14, <1>15
          DEF OrderStep, ReportStep

\* Deliveries, reports and the end and the start of the process keep the types.
LEMMA OtherTypes == TypeOK /\ [Next]_vars /\ ~Handle => TypeOK'
  <1> SUFFICES ASSUME ControlType, StoreType, MarketType, FailedType, [Next]_vars, ~Handle
               PROVE ControlType' /\ StoreType' /\ MarketType' /\ FailedType'
    BY DEF TypeOK, ControlType, StoreType, MarketType, FailedType
  <1> USE DEF taskVars, redisVars, dbVars, omsVars, envVars, sentVars, bounds
  <1>1. ASSUME NEW o \in Order, Deliver(o) PROVE ControlType' /\ StoreType' /\ MarketType' /\ FailedType'
    <2>1. /\ delivered[o] + 1 \in 1..MaxCopies
          /\ delivered' = [delivered EXCEPT ![o] = delivered[o] + 1]
      BY <1>1, ConstantsAssumption DEF Deliver, MarketType
    <2>2. delivered'[o] \in 1..MaxCopies /\ delivered' \in [Order -> 0..MaxCopies]
      BY <2>1 DEF MarketType
    <2>3. [kind |-> "order", order |-> o, copy |-> delivered'[o]] \in Task
      BY <2>2 DEF Task, OrderTask
    <2>4. ControlType'
      BY <1>1, <2>3 DEF Deliver, ControlType
    <2> QED BY <1>1, <2>2, <2>4 DEF Deliver, StoreType, MarketType, FailedType
  <1>2. ASSUME NEW t \in tasks, Acquire(t) PROVE ControlType' /\ StoreType' /\ MarketType' /\ FailedType'
    <2>1. ControlType'
      BY <1>2, ConstantsAssumption DEF Acquire, ControlType
    <2> QED BY <1>2, <2>1 DEF Acquire, StoreType, MarketType, FailedType
  <1>3. ASSUME NEW o \in Order, NEW n \in Sending, NEW final \in BOOLEAN,
               NEW s \in Outcome, Report(o, n, final, s)
        PROVE ControlType' /\ StoreType' /\ MarketType' /\ FailedType'
    <2>1. [kind |-> "report", order |-> o, copy |-> n, final |-> final, status |-> s] \in Task
      BY DEF Task, ReportTask
    <2>2. ControlType'
      BY <1>3, <2>1 DEF Report, Receive, ControlType
    <2>3. exchange' \in [Order -> [Sending -> {"unsent", "sent", "acked", "done"}]]
      BY <1>3 DEF Report, MarketType
    <2>4. said' \in [Order -> SUBSET Outcome]
      BY <1>3 DEF Report, MarketType
    <2> QED BY <1>3, <2>2, <2>3, <2>4 DEF Report, Receive, StoreType, MarketType, FailedType
  <1>5. ASSUME NEW o \in Order, Expire(o) PROVE ControlType' /\ StoreType' /\ MarketType' /\ FailedType'
    <2>1. misses' \in [Order -> Nat]
      BY <1>5 DEF Expire, MarketType
    <2>2. ControlType' /\ StoreType'
      BY <1>5 DEF Expire, ControlType, StoreType
    <2> QED BY <1>5, <2>1, <2>2 DEF Expire, MarketType, FailedType
  <1>6. CASE Crash
    <2>1. ControlType'
      <3>1. up' \in BOOLEAN
        BY <1>6, Zenon DEF Crash
      <3>2. /\ tasks' = {} /\ active' = {} /\ step' = "idle" /\ attempt' = 0
        BY <1>6 DEF Crash
      <3>3. 0 \in 0..MaxRetries
        BY ConstantsAssumption
      <3> QED BY <3>1, <3>2, <3>3 DEF ControlType
    <2> QED BY <1>6, <2>1 DEF Crash, StoreType, MarketType, FailedType
  <1>7. CASE Restart
    BY <1>7 DEF Restart, ControlType, StoreType, MarketType, FailedType
  <1>8. CASE UNCHANGED vars
    BY <1>8 DEF vars, ControlType, StoreType, MarketType, FailedType
  <1>9. "Acknowledged" \in Outcome /\ Final \subseteq Outcome
    BY DEF Outcome
  <1> QED BY <1>1, <1>2, <1>3, <1>5, <1>6, <1>7, <1>8, <1>9
          DEF Next, Grant, Answer, Acknowledge, Conclude

\* The types hold at the start.
LEMMA InitTypes == Init => TypeOK
  BY ConstantsAssumption DEF Init, TypeOK, Status, Kind

\* The types are kept, whatever fails or crashes (main.rs:44-244).
THEOREM TypeCorrect == Spec => []TypeOK
  <1>1. TypeOK /\ [Next]_vars => TypeOK'
    BY HandleTypes, OtherTypes
  <1> QED BY <1>1, InitTypes, PTL DEF Spec

----------------------------------------------------------------------------
(* The inductive invariant.                                                 *)

\* The holder of the lock is the handler of o, at one of these calls.
Holds(o, steps) == step \in steps /\ \E t \in active : t.kind = "order" /\ t.order = o

Marked == {"persist", "cache", "push", "trim", "send"}
Stored == {"cache", "push", "trim", "send"}
UnderWay == Marked \cup {"mark", "insert"}

\* One task at most holds the lock, and no call is under way when none does.
Locked == (\A t, u \in active : t = u) /\ (active = {} => step = "idle")

\* An order has its row before it is cached and sent.
RowsFirst ==
    \A o \in Order : (o \in cached \/ sent[o] > 0 \/ Holds(o, Stored)) => status[o] # "none"

\* Whatever is known of an answer is about an order that was sent.
AnswersSent ==
    /\ \A t \in tasks \cup active :
          t.kind = "report" => sent[t.order] > 0 /\ t.status \in said[t.order]
    /\ \A r \in executions : sent[r.order] > 0
    /\ \A o \in Order : \A n \in Sending : exchange[o][n] # "unsent" => sent[o] > 0
    /\ \A o \in settled : sent[o] > 0

\* What the key of o allows: while it is there one sending more than the misses
\* and the sendings in doubt, while it is not, or the order is on its way, none.
Allowed(o) ==
    /\ sent[o] <= 1 + misses[o] + doubtful[o]
    /\ o \notin idempotency => sent[o] <= misses[o] + doubtful[o]
    /\ Holds(o, {"mark"}) => sent[o] <= misses[o] + doubtful[o]
    /\ Holds(o, Marked) => /\ sent[o] <= misses[o] + doubtful[o]
                           /\ o \notin idempotency => sent[o] < misses[o] + doubtful[o]
Allowance == \A o \in Order : Allowed(o)

\* An order whose key was never missed has it once it is on its way or has left.
Keyed(o) == (misses[o] = 0 /\ (sent[o] > 0 \/ Holds(o, Marked))) => o \in idempotency
\* So its handler gets past EXISTS once, before any report on it is handled.
Fresh(o) == (misses[o] = 0 /\ Holds(o, UnderWay)) => o \notin settled
Unsettled == \A o \in Order : Keyed(o) /\ Fresh(o)

Inv == TypeOK /\ Locked /\ RowsFirst /\ AnswersSent /\ Allowance /\ Unsettled

\* What a handler's call leaves in somebody's hands is its own order.
LEMMA Own ==
    ASSUME Locked, NEW t \in active, active' \subseteq active, NEW o, NEW steps, Holds(o, steps)'
    PROVE t.kind = "order" /\ o = t.order /\ step' \in steps
  BY DEF Locked, Holds

\* What the steps outside the handlers leave alone.
LEMMA Outside ==
    ASSUME Inv, [Next]_vars, ~Handle
    PROVE /\ UNCHANGED <<status, executions, sent, doubtful, audit, faults>>
          /\ cached' \subseteq cached /\ pending' \subseteq pending /\ settled' = settled
          /\ \/ active' = active /\ step' = step /\ crashes' = crashes
             \/ active' = {} /\ step' = "idle" /\ crashes' = crashes + 1
             \/ /\ active = {} /\ step' \in {"exists", "execution"} /\ crashes' = crashes
                /\ \E t \in tasks : active' = {t}
          /\ \/ UNCHANGED <<idempotency, misses>>
             \/ \E o \in Order : /\ idempotency' = idempotency \ {o}
                                 /\ misses' = [misses EXCEPT ![o] = @ + 1]
  <1> USE DEF taskVars, redisVars, dbVars, omsVars, envVars, sentVars, bounds
  <1>1. ASSUME NEW o \in Order, Deliver(o) \/ Expire(o)
        PROVE /\ UNCHANGED <<status, executions, sent, doubtful, settled, audit, faults, active, step,
                             crashes>>
              /\ cached' \subseteq cached /\ pending' = pending
              /\ \/ UNCHANGED <<idempotency, misses>>
                 \/ /\ idempotency' = idempotency \ {o}
                    /\ misses' = [misses EXCEPT ![o] = @ + 1]
    BY <1>1 DEF Deliver, Expire
  <1>2. ASSUME NEW t \in tasks, Acquire(t)
        PROVE /\ UNCHANGED <<redisVars, dbVars, omsVars, sent, doubtful, settled, misses, faults, crashes>>
              /\ active = {} /\ active' = {t} /\ step' \in {"exists", "execution"}
    BY <1>2 DEF Acquire
  <1>3. ASSUME NEW o \in Order, NEW n \in Sending, Acknowledge(o, n) \/ Conclude(o, n)
        PROVE UNCHANGED <<redisVars, dbVars, omsVars, sent, doubtful, settled, misses, faults,
                          crashes, active, step>>
    BY <1>3 DEF Acknowledge, Conclude, Report, Receive
  <1>4. CASE Crash
    BY <1>4 DEF Crash
  <1>5. CASE Restart
    BY <1>5 DEF Restart
  <1>6. CASE UNCHANGED vars
    BY <1>6 DEF vars
  <1> QED BY <1>1, <1>2, <1>3, <1>4, <1>5, <1>6 DEF Next, Grant, Answer

\* The lock has one holder.
LEMMA LockedNext == Inv /\ [Next]_vars => Locked'
  <1> SUFFICES ASSUME Inv, [Next]_vars PROVE Locked'
    OBVIOUS
  <1>1. CASE Handle
    <2>1. PICK t \in active, ok \in BOOLEAN, applied \in BOOLEAN :
            OrderStep(t, ok, applied) \/ ReportStep(t, ok, applied)
      BY <1>1 DEF Handle
    <2>2. active' = active \/ (active' = {} /\ step' = "idle")
      BY <2>1 DEF OrderStep, ReportStep, CheckIdempotency, MarkProcessed, PersistOrder, InsertOrder,
                  CacheOrder, PushAudit, TrimOrderAudit, TrimReportAudit, SendToExecution,
                  InsertPending,
                  PersistExecution, UpdateStatus, Or, GoTo, Release
    <2> QED BY <2>2 DEF Inv, Locked
  <1>2. CASE ~Handle
    BY <1>2, Outside DEF Inv, Locked
  <1> QED BY <1>1, <1>2

\* Rows come first.
LEMMA RowsFirstNext == Inv /\ [Next]_vars => RowsFirst'
  <1> SUFFICES ASSUME Inv, [Next]_vars, NEW p \in Order,
                      p \in cached' \/ sent'[p] > 0 \/ Holds(p, Stored)'
               PROVE status'[p] # "none"
    BY DEF RowsFirst
  <1>1. /\ (p \in cached \/ sent[p] > 0 \/ Holds(p, Stored)) => status[p] # "none"
        /\ status \in [Order -> Status \cup {"none"}] /\ sent \in [Order -> Nat] /\ Locked
    BY DEF Inv, RowsFirst, TypeOK
  <1>2. CASE ~Handle
    <2>1. Holds(p, Stored)' => Holds(p, Stored)
      BY <1>2, Outside DEF Holds, Stored
    <2> QED BY <1>1, <1>2, <2>1, Outside
  <1>3. CASE Handle
    <2>1. PICK t \in active, ok \in BOOLEAN, applied \in BOOLEAN :
            \/ t.kind = "order" /\ OrderStep(t, ok, applied)
            \/ t.kind = "report" /\ ReportStep(t, ok, applied)
      BY <1>3 DEF Handle
    <2> DEFINE o == t.order
    <2> USE DEF redisVars, dbVars, omsVars, envVars, sentVars, bounds
    <2>2. t \in Task /\ o \in Order
      BY DEF Inv, TypeOK, Task, OrderTask, ReportTask
    <2>3. CASE CheckIdempotency(o, ok) \/ MarkProcessed(o, ok, applied)
      <3>1. step' \notin Stored /\ UNCHANGED <<cached, status, sent>>
        BY <2>3 DEF CheckIdempotency, MarkProcessed, Or, GoTo, Release, Stored
      <3> QED BY <1>1, <3>1 DEF Holds
    <2>4. CASE PersistOrder(o, ok, applied)
      <3>1. UNCHANGED <<cached, sent>> /\ active' \subseteq active
        BY <2>4 DEF PersistOrder, InsertOrder, Or, GoTo, Release
      <3>2. status[p] # "none" => status'[p] # "none"
        BY <1>1, <2>2, <2>4 DEF PersistOrder, InsertOrder
      <3>3. step' \in Stored => status'[o] # "none"
        BY <1>1, <2>2, <2>4 DEF PersistOrder, InsertOrder, Call, Or, GoTo, Release, Stored
      <3> QED BY <1>1, <3>1, <3>2, <3>3, Own
    <2>5. CASE t.kind = "order" /\ (CacheOrder(o, ok, applied) \/ TrimOrderAudit(o, ok, applied)
                                    \/ PushAudit(ok, applied))
      <3>1. status[o] # "none"
        BY <2>2, <2>5 DEF CacheOrder, TrimOrderAudit, PushAudit, Inv, RowsFirst, Holds, Stored
      <3>2. /\ UNCHANGED <<status, sent>> /\ active' \subseteq active
            /\ cached' \subseteq cached \cup {o}
        BY <2>5 DEF CacheOrder, TrimOrderAudit, PushAudit, Or, GoTo, Release
      <3> QED BY <1>1, <3>1, <3>2, Own
    <2>8. CASE InsertPending(o)
      <3>1. step' \notin Stored /\ UNCHANGED <<cached, status, sent>>
        BY <2>8 DEF InsertPending, Release, Stored
      <3> QED BY <1>1, <3>1 DEF Holds
    <2>6. CASE t.kind = "order" /\ SendToExecution(o, ok, applied)
      <3>1. status[o] # "none"
        BY <2>2, <2>6 DEF SendToExecution, Inv, RowsFirst, Holds, Stored
      <3>2. UNCHANGED <<status, cached>> /\ active' \subseteq active
        BY <2>6 DEF SendToExecution, Release, GoTo
      <3>3. p # o => sent'[p] = sent[p]
        BY <1>1, <2>2, <2>6 DEF SendToExecution, Leave
      <3> QED BY <1>1, <3>1, <3>2, <3>3, Own
    <2>7. CASE t.kind = "report" /\ ReportStep(t, ok, applied)
      <3>1. UNCHANGED <<cached, sent>> /\ active' \subseteq active
        BY <2>7 DEF ReportStep, PushAudit, TrimReportAudit, PersistExecution, UpdateStatus,
                    Or, GoTo, Release
      <3>2. status[p] # "none" => status'[p] # "none"
        <4>1. t.status # "none"
          BY <2>2, <2>7, ConstantsAssumption DEF Task, OrderTask, ReportTask, Outcome
        <4> QED BY <1>1, <2>2, <2>7, <4>1
                DEF ReportStep, PushAudit, TrimReportAudit, PersistExecution, UpdateStatus, NewStatus
      <3>3. ~Holds(p, Stored)'
        BY <1>1, <2>7, <3>1, Own
      <3> QED BY <1>1, <3>1, <3>2, <3>3
    <2> QED BY <2>1, <2>3, <2>4, <2>5, <2>6, <2>7, <2>8 DEF OrderStep
  <1> QED BY <1>2, <1>3

\* A sending is never taken back.
LEMMA SentGrows ==
    Inv /\ [Next]_vars => \A o \in Order : /\ sent[o] > 0 => sent'[o] > 0
                                          /\ said[o] \subseteq said'[o]
  <1> SUFFICES ASSUME Inv, [Next]_vars, NEW p \in Order
               PROVE (sent[p] > 0 => sent'[p] > 0) /\ said[p] \subseteq said'[p]
    OBVIOUS
  <1>1. sent \in [Order -> Nat] /\ said \in [Order -> SUBSET Outcome]
    BY DEF Inv, TypeOK
  <1>2. CASE ~Handle
    <2>1. said[p] \subseteq said'[p]
      <3>1. ASSUME NEW o \in Order, NEW n \in Sending, NEW final \in BOOLEAN, NEW x,
                   Report(o, n, final, x)
            PROVE said[p] \subseteq said'[p]
        BY <1>1, <3>1 DEF Report
      <3>2. CASE \E o \in Order, n \in Sending : Acknowledge(o, n) \/ Conclude(o, n)
        BY <3>1, <3>2 DEF Acknowledge, Conclude
      <3>3. CASE ~\E o \in Order, n \in Sending : Acknowledge(o, n) \/ Conclude(o, n)
        <4>1. said' = said
          BY <1>2, <3>3 DEF Next, Grant, Answer, Deliver, Expire, Acquire, Crash, Restart, vars,
                            sentVars
        <4> QED BY <4>1
      <3> QED BY <3>2, <3>3
    <2> QED BY <1>2, <2>1, Outside
  <1>3. CASE Handle
    <2>1. PICK t \in active, ok \in BOOLEAN, applied \in BOOLEAN :
            OrderStep(t, ok, applied) \/ ReportStep(t, ok, applied)
      BY <1>3 DEF Handle
    <2>2. CASE SendToExecution(t.order, ok, applied)
      BY <1>1, <2>2 DEF SendToExecution, Leave
    <2>3. CASE ~SendToExecution(t.order, ok, applied)
      BY <2>1, <2>3 DEF OrderStep, ReportStep, CheckIdempotency, MarkProcessed, PersistOrder,
                  CacheOrder, PushAudit, TrimOrderAudit, TrimReportAudit, InsertPending,
                  PersistExecution, UpdateStatus, sentVars
    <2> QED BY <2>2, <2>3
  <1> QED BY <1>2, <1>3

\* Answers come after the sending.
LEMMA AnswersSentNext == Inv /\ [Next]_vars => AnswersSent'
  <1> SUFFICES ASSUME Inv, [Next]_vars PROVE AnswersSent'
    OBVIOUS
  <1> USE DEF taskVars, redisVars, dbVars, omsVars, envVars, sentVars, bounds
  <1>1. /\ TypeOK /\ AnswersSent
        /\ \A o \in Order : (sent[o] > 0 => sent'[o] > 0) /\ said[o] \subseteq said'[o]
    BY SentGrows DEF Inv
  <1>2. /\ \A t \in Task : t.order \in Order
        /\ \A t \in ReportTask : t.order \in Order /\ t.kind = "report"
        /\ \A t \in OrderTask : t.kind = "order"
    BY DEF Task, OrderTask, ReportTask
  <1>3. ASSUME NEW o \in Order, Deliver(o) \/ Expire(o)
        PROVE AnswersSent'
    <2>1. UNCHANGED <<active, executions, exchange, settled>>
      BY <1>3 DEF Deliver, Expire
    <2>2. \A t \in tasks' : t \in tasks \/ t.kind = "order"
      BY <1>3 DEF Deliver, Expire
    <2> QED BY <1>1, <1>2, <2>1, <2>2 DEF AnswersSent, TypeOK
  <1>4. ASSUME NEW t \in tasks, Acquire(t) PROVE AnswersSent'
    <2>1. UNCHANGED <<executions, exchange, settled>> /\ tasks' \cup active' \subseteq tasks
      BY <1>4 DEF Acquire
    <2> QED BY <1>1, <1>2, <2>1 DEF AnswersSent, TypeOK
  <1>5. ASSUME NEW o \in Order, NEW n \in Sending, NEW final \in BOOLEAN, NEW s \in Outcome,
               Report(o, n, final, s)
        PROVE AnswersSent'
    <2>1. exchange[o][n] # "unsent"
      BY <1>5 DEF Report
    <2>2. sent'[o] > 0
      BY <1>1, <2>1 DEF AnswersSent
    <2>3. \A q \in Order : \A k \in Sending :
             exchange'[q][k] # "unsent" => q = o \/ exchange[q][k] # "unsent"
      BY <1>1, <1>5 DEF Report, TypeOK
    <2>4. \A t \in tasks' : t \in tasks \/ (t.order = o /\ t.status = s)
      BY <1>5 DEF Report, Receive
    <2>5. UNCHANGED <<active, executions, settled>> /\ s \in said'[o]
      BY <1>1, <1>5 DEF Report, Receive, TypeOK
    <2> QED BY <1>1, <1>2, <2>2, <2>3, <2>4, <2>5 DEF AnswersSent, TypeOK
  <1>7. CASE Crash \/ Restart \/ UNCHANGED vars
    <2>1. UNCHANGED <<executions, exchange, settled>> /\ tasks' \cup active' \subseteq tasks \cup active
      BY <1>7 DEF Crash, Restart, vars
    <2> QED BY <1>1, <1>2, <2>1 DEF AnswersSent, TypeOK
  <1>8. CASE Handle
    <2>1. PICK t \in active, ok \in BOOLEAN, applied \in BOOLEAN :
            \/ t.kind = "order" /\ OrderStep(t, ok, applied)
            \/ t.kind = "report" /\ ReportStep(t, ok, applied)
      BY <1>8 DEF Handle
    <2>2. t \in Task /\ t.order \in Order
      BY <1>1, <1>2 DEF TypeOK
    <2>3. tasks' = tasks /\ active' \subseteq active
      BY <2>1 DEF OrderStep, ReportStep, CheckIdempotency, MarkProcessed, PersistOrder, InsertOrder,
                  CacheOrder, PushAudit, TrimOrderAudit, TrimReportAudit, SendToExecution,
                  InsertPending,
                  PersistExecution, UpdateStatus, Or, GoTo, Release
    <2>4. CASE t.kind = "order" /\ SendToExecution(t.order, ok, applied)
      <3>1. UNCHANGED <<executions, settled>>
        BY <2>4 DEF SendToExecution
      <3>2. CASE UNCHANGED <<exchange, sent>>
        BY <1>1, <1>2, <2>3, <3>1, <3>2 DEF AnswersSent, TypeOK
      <3>3. CASE Leave(t.order, ok)
        <4>1. sent'[t.order] > 0
          BY <1>1, <2>2, <3>3 DEF Leave, TypeOK
        <4>2. \A q \in Order : q # t.order => exchange'[q] = exchange[q]
          BY <1>1, <2>2, <3>3 DEF Leave, TypeOK
        <4> QED BY <1>1, <1>2, <2>3, <3>1, <4>1, <4>2 DEF AnswersSent, TypeOK
      <3> QED BY <2>4, <3>2, <3>3 DEF SendToExecution
    <2>5. CASE t.kind = "order" /\ ~SendToExecution(t.order, ok, applied)
      <3>1. UNCHANGED <<executions, settled, exchange, sent>>
        BY <2>1, <2>5 DEF OrderStep, CheckIdempotency, MarkProcessed, PersistOrder,
                  CacheOrder, PushAudit, TrimOrderAudit, InsertPending
      <3> QED BY <1>1, <1>2, <2>3, <3>1 DEF AnswersSent, TypeOK
    <2>6. CASE t.kind = "report"
      <3>1. UNCHANGED <<exchange, sent>> /\ executions' \subseteq executions \cup {t}
            /\ settled' \subseteq settled \cup {t.order}
        BY <2>1, <2>6 DEF ReportStep, PushAudit, TrimReportAudit, PersistExecution, UpdateStatus
      <3>2. sent[t.order] > 0
        BY <1>1, <2>6 DEF AnswersSent
      <3> QED BY <1>1, <1>2, <2>3, <3>1, <3>2 DEF AnswersSent, TypeOK
    <2> QED BY <2>1, <2>4, <2>5, <2>6
  <1>9. "Acknowledged" \in Outcome /\ Final \subseteq Outcome
    BY DEF Outcome
  <1> QED BY <1>3, <1>4, <1>5, <1>7, <1>8, <1>9
          DEF Next, Grant, Answer, Acknowledge, Conclude

\* The allowance of every order is kept.
LEMMA AllowanceNext == Inv /\ [Next]_vars => Allowance'
  <1> SUFFICES ASSUME Inv, [Next]_vars, NEW p \in Order PROVE Allowed(p)'
    BY DEF Allowance
  <1>1. /\ Allowed(p) /\ Locked /\ sent \in [Order -> Nat] /\ misses \in [Order -> Nat]
        /\ doubtful \in [Order -> Nat]
        /\ sent[p] \in Nat /\ misses[p] \in Nat /\ doubtful[p] \in Nat
    BY DEF Inv, Allowance, TypeOK
  <1>2. CASE ~Handle
    <2>1. /\ sent' = sent /\ doubtful' = doubtful
          /\ (Holds(p, {"mark"})' => Holds(p, {"mark"}))
          /\ (Holds(p, Marked)' => Holds(p, Marked))
      BY <1>2, Outside DEF Holds, Marked
    <2>2. CASE UNCHANGED <<idempotency, misses>>
      BY <1>1, <2>1, <2>2 DEF Allowed
    <2>3. ASSUME NEW o \in Order, idempotency' = idempotency \ {o},
                 misses' = [misses EXCEPT ![o] = @ + 1]
          PROVE Allowed(p)'
      <3>1. CASE p = o
        <4>1. misses'[p] = misses[p] + 1 /\ p \notin idempotency'
          BY <1>1, <2>3, <3>1
        <4> QED BY <1>1, <2>1, <4>1 DEF Allowed
      <3>2. CASE p # o
        <4>1. misses'[p] = misses[p] /\ (p \in idempotency' <=> p \in idempotency)
          BY <1>1, <2>3, <3>2
        <4> QED BY <1>1, <2>1, <4>1 DEF Allowed
      <3> QED BY <3>1, <3>2
    <2> QED BY <1>2, <2>2, <2>3, Outside
  <1>3. CASE Handle
    <2>1. PICK t \in active, ok \in BOOLEAN, applied \in BOOLEAN :
            \/ t.kind = "order" /\ OrderStep(t, ok, applied)
            \/ t.kind = "report" /\ ReportStep(t, ok, applied)
      BY <1>3 DEF Handle
    <2> DEFINE o == t.order
    <2> USE DEF redisVars, dbVars, omsVars, envVars, sentVars, bounds
    <2>2. o \in Order
      BY DEF Inv, TypeOK, Task, OrderTask, ReportTask
    <2>3. active' \subseteq active
      BY <2>1 DEF OrderStep, ReportStep, CheckIdempotency, MarkProcessed, PersistOrder, InsertOrder,
                  CacheOrder, PushAudit, TrimOrderAudit, TrimReportAudit, SendToExecution,
                  InsertPending,
                  PersistExecution, UpdateStatus, Or, GoTo, Release
    <2>4. CASE t.kind = "order" /\ CheckIdempotency(o, ok)
      <3>1. UNCHANGED <<idempotency, sent, doubtful>> /\ step' \notin Marked
        BY <2>4 DEF CheckIdempotency, GoTo, Release, Marked
      <3>2. misses'[p] \in Nat /\ misses'[p] >= misses[p]
        BY <1>1, <2>4 DEF CheckIdempotency
      <3>3. Holds(p, {"mark"})' => sent[p] <= misses'[p] + doubtful[p]
        <4>1. SUFFICES ASSUME p = o, step' = "mark" PROVE sent[p] <= misses'[p] + doubtful[p]
          BY <1>1, <2>3, Own
        <4>2. ~(ok /\ Known(o))
          BY <2>4, <4>1 DEF CheckIdempotency, Release
        <4>3. CASE p \notin idempotency
          BY <1>1, <3>2, <4>3 DEF Allowed
        <4>4. CASE p \in idempotency
          <5>1. misses'[p] = misses[p] + 1
            BY <1>1, <2>4, <4>1, <4>2, <4>4 DEF CheckIdempotency, Known
          <5> QED BY <1>1, <5>1 DEF Allowed
        <4> QED BY <4>3, <4>4
      <3> QED BY <1>1, <3>1, <3>2, <3>3 DEF Allowed, Holds
    <2>5. CASE t.kind = "order" /\ MarkProcessed(o, ok, applied)
      <3>1. /\ UNCHANGED <<sent, doubtful, misses>> /\ idempotency \subseteq idempotency'
            /\ step' \in {"idle", "persist"} /\ (step' = "persist" => o \in idempotency')
        BY <2>5 DEF MarkProcessed, Call, Or, GoTo, Release
      <3>2. Holds(o, {"mark"})
        BY <2>5 DEF MarkProcessed, Holds
      <3>3. Holds(p, Marked)' => p = o /\ step' = "persist"
        BY <1>1, <2>3, <3>1, Own DEF Marked
      <3>4. ~Holds(p, {"mark"})'
        BY <3>1 DEF Holds
      <3> QED BY <1>1, <3>1, <3>2, <3>3, <3>4 DEF Allowed
    <2>6. CASE t.kind = "order" /\ (PersistOrder(o, ok, applied) \/ CacheOrder(o, ok, applied)
                                    \/ PushAudit(ok, applied) \/ TrimOrderAudit(o, ok, applied))
      <3>1. UNCHANGED <<sent, doubtful, misses, idempotency>> /\ step' # "mark" /\ step \in Marked
        BY <2>6 DEF PersistOrder, InsertOrder, CacheOrder, PushAudit, TrimOrderAudit,
                    Or, GoTo, Release, Marked
      <3>2. Holds(p, Marked)' => Holds(p, Marked)
        BY <1>1, <2>3, <2>6, <3>1, Own DEF Holds
      <3>3. ~Holds(p, {"mark"})'
        BY <3>1 DEF Holds
      <3> QED BY <1>1, <3>1, <3>2, <3>3 DEF Allowed
    <2>7. CASE t.kind = "order" /\ SendToExecution(o, ok, applied)
      <3>1. UNCHANGED <<misses, idempotency>> /\ step = "send" /\ Holds(o, Marked)
        BY <2>7 DEF SendToExecution, Holds, Marked
      <3>2. CASE Leave(o, ok) /\ ok /\ GoTo("insert")
        <4>1. ~Holds(p, {"mark"})' /\ ~Holds(p, Marked)'
          BY <3>2 DEF GoTo, Holds, Marked
        <4>2. /\ sent'[p] = IF p = o THEN sent[p] + 1 ELSE sent[p]
              /\ doubtful' = doubtful
          BY <1>1, <2>2, <3>2 DEF Leave
        <4> QED BY <1>1, <3>1, <4>1, <4>2 DEF Allowed
      <3>3. CASE ~ok /\ (Release \/ UNCHANGED <<active, step>>)
        <4>1. (Holds(p, {"mark"})' => Holds(p, {"mark"})) /\ (Holds(p, Marked)' => Holds(p, Marked))
          BY <3>3 DEF Release, Holds, Marked
        <4>2. CASE UNCHANGED <<sent, doubtful>>
          BY <1>1, <3>1, <4>1, <4>2 DEF Allowed
        <4>3. CASE Leave(o, ok)
          <5>1. /\ p = o => sent'[p] = sent[p] + 1 /\ doubtful'[p] = doubtful[p] + 1
                /\ p # o => sent'[p] = sent[p] /\ doubtful'[p] = doubtful[p]
            BY <1>1, <2>2, <3>3, <4>3 DEF Leave
          <5> QED BY <1>1, <3>1, <4>1, <5>1 DEF Allowed
        <4> QED BY <2>7, <4>2, <4>3 DEF SendToExecution
      <3>4. /\ (Leave(o, ok) \/ UNCHANGED <<sent, doubtful>>) /\ (ok => Leave(o, ok))
            /\ (ok /\ GoTo("insert")) \/ (~ok /\ (Release \/ UNCHANGED <<active, step>>))
        BY <2>7 DEF SendToExecution, Call
      <3> QED BY <3>2, <3>3, <3>4
    <2>8. CASE t.kind = "report" /\ ReportStep(t, ok, applied)
      <3>1. UNCHANGED <<sent, doubtful, misses, idempotency>>
        BY <2>8 DEF ReportStep, PushAudit, TrimReportAudit, PersistExecution, UpdateStatus
      <3>2. ~Holds(p, {"mark"})' /\ ~Holds(p, Marked)'
        BY <1>1, <2>3, <2>8, Own
      <3> QED BY <1>1, <3>1, <3>2 DEF Allowed
    <2>9. CASE InsertPending(o)
      <3>1. UNCHANGED <<sent, doubtful, misses, idempotency>> /\ step' = "idle"
        BY <2>9 DEF InsertPending, Release
      <3>2. ~Holds(p, {"mark"})' /\ ~Holds(p, Marked)'
        BY <3>1 DEF Holds, Marked
      <3> QED BY <1>1, <3>1, <3>2 DEF Allowed
    <2> QED BY <2>1, <2>4, <2>5, <2>6, <2>7, <2>8, <2>9 DEF OrderStep
  <1> QED BY <1>2, <1>3

\* An order with its key is on its way once, and is not settled then.
LEMMA UnsettledNext == Inv /\ [Next]_vars => Unsettled'
  <1> SUFFICES ASSUME Inv, [Next]_vars, NEW p \in Order PROVE (Keyed(p) /\ Fresh(p))'
    BY DEF Unsettled
  <1>1. /\ Keyed(p) /\ Fresh(p) /\ Locked /\ sent \in [Order -> Nat]
        /\ misses \in [Order -> Nat] /\ (p \in settled => sent[p] > 0)
    BY DEF Inv, Unsettled, TypeOK, AnswersSent
  <1>2. CASE ~Handle
    <2>1. /\ sent' = sent /\ settled' = settled
          /\ (Holds(p, Marked)' => Holds(p, Marked)) /\ (Holds(p, UnderWay)' => Holds(p, UnderWay))
      BY <1>2, Outside DEF Holds, Marked, UnderWay
    <2>2. CASE UNCHANGED <<idempotency, misses>>
      BY <1>1, <2>1, <2>2 DEF Keyed, Fresh
    <2>3. ASSUME NEW o \in Order, idempotency' = idempotency \ {o},
                 misses' = [misses EXCEPT ![o] = @ + 1]
          PROVE (Keyed(p) /\ Fresh(p))'
      <3>1. misses'[p] = 0 => misses[p] = 0 /\ p # o
        BY <1>1, <2>3
      <3> QED BY <1>1, <2>1, <2>3, <3>1 DEF Keyed, Fresh
    <2> QED BY <1>2, <2>2, <2>3, Outside
  <1>3. CASE Handle
    <2>1. PICK t \in active, ok \in BOOLEAN, applied \in BOOLEAN :
            \/ t.kind = "order" /\ OrderStep(t, ok, applied)
            \/ t.kind = "report" /\ ReportStep(t, ok, applied)
      BY <1>3 DEF Handle
    <2> DEFINE o == t.order
    <2> USE DEF redisVars, dbVars, omsVars, envVars, sentVars, bounds
    <2>2. o \in Order
      BY DEF Inv, TypeOK, Task, OrderTask, ReportTask
    <2>3. active' \subseteq active
      BY <2>1 DEF OrderStep, ReportStep, CheckIdempotency, MarkProcessed, PersistOrder, InsertOrder,
                  CacheOrder, PushAudit, TrimOrderAudit, TrimReportAudit, SendToExecution,
                  InsertPending, PersistExecution, UpdateStatus, Or, GoTo, Release
    <2>4. CASE t.kind = "order" /\ CheckIdempotency(o, ok)
      <3>1. UNCHANGED <<idempotency, sent, settled>> /\ step' \notin Marked
        BY <2>4 DEF CheckIdempotency, GoTo, Release, Marked
      <3>2. misses'[p] = 0 => misses[p] = 0
        BY <1>1, <2>4 DEF CheckIdempotency
      <3>3. Holds(p, UnderWay)' /\ misses'[p] = 0 => p \notin idempotency
        <4>1. SUFFICES ASSUME p = o, step' \in UnderWay, misses'[p] = 0, p \in idempotency
                       PROVE FALSE
          BY <1>1, <2>3, Own
        <4>2. ~ok
          BY <2>4, <4>1 DEF CheckIdempotency, Release, Known, UnderWay, Marked
        <4>3. misses'[p] = misses[p] + 1
          BY <1>1, <2>4, <4>1, <4>2 DEF CheckIdempotency
        <4> QED BY <1>1, <4>1, <4>3
      <3>4. ~Holds(p, Marked)'
        BY <3>1 DEF Holds
      <3> QED BY <1>1, <3>1, <3>2, <3>3, <3>4 DEF Keyed, Fresh
    <2>5. CASE t.kind = "order" /\ MarkProcessed(o, ok, applied)
      <3>1. /\ UNCHANGED <<sent, misses, settled>> /\ idempotency \subseteq idempotency'
            /\ step' \in {"idle", "persist"} /\ (step' = "persist" => o \in idempotency')
        BY <2>5 DEF MarkProcessed, Call, Or, GoTo, Release
      <3>2. Holds(p, Marked)' => p \in idempotency'
        BY <1>1, <2>3, <3>1, Own DEF Marked
      <3>3. Holds(p, UnderWay)' => Holds(p, UnderWay)
        BY <1>1, <2>3, <2>5, Own DEF MarkProcessed, Holds, UnderWay
      <3> QED BY <1>1, <3>1, <3>2, <3>3 DEF Keyed, Fresh
    <2>6. CASE t.kind = "order" /\ (PersistOrder(o, ok, applied) \/ CacheOrder(o, ok, applied)
                                    \/ PushAudit(ok, applied) \/ TrimOrderAudit(o, ok, applied))
      <3>1. UNCHANGED <<sent, misses, idempotency, settled>> /\ step \in Marked
        BY <2>6 DEF PersistOrder, CacheOrder, PushAudit, TrimOrderAudit, Marked
      <3>2. (Holds(p, Marked)' => Holds(p, Marked)) /\ (Holds(p, UnderWay)' => Holds(p, UnderWay))
        BY <1>1, <2>3, <2>6, <3>1, Own DEF Holds, UnderWay
      <3> QED BY <1>1, <3>1, <3>2 DEF Keyed, Fresh
    <2>7. CASE t.kind = "order" /\ SendToExecution(o, ok, applied)
      <3>1. /\ UNCHANGED <<misses, idempotency, settled>> /\ Holds(o, Marked)
            /\ step \in UnderWay /\ \A q \in Order : q # o => sent'[q] = sent[q]
        BY <1>1, <2>2, <2>7 DEF SendToExecution, Leave, Holds, Marked, UnderWay
      <3>2. misses[o] = 0 => o \in idempotency
        BY <2>2, <3>1 DEF Inv, Unsettled, Keyed
      <3>3. Holds(p, Marked)' => p = o
        BY <1>1, <2>3, Own
      <3>4. Holds(p, UnderWay)' => Holds(p, UnderWay)
        BY <1>1, <2>3, <2>7, <3>1, Own DEF Holds
      <3> QED BY <1>1, <3>1, <3>2, <3>3, <3>4 DEF Keyed, Fresh
    <2>8. CASE t.kind = "report" /\ ReportStep(t, ok, applied)
      <3>1. UNCHANGED <<sent, misses, idempotency>>
        BY <2>8 DEF ReportStep, PushAudit, TrimReportAudit, PersistExecution, UpdateStatus
      <3>2. ~Holds(p, Marked)' /\ ~Holds(p, UnderWay)'
        BY <1>1, <2>3, <2>8, Own
      <3> QED BY <1>1, <3>1, <3>2 DEF Keyed, Fresh
    <2>9. CASE InsertPending(o)
      <3>1. UNCHANGED <<sent, misses, idempotency>> /\ step' = "idle"
        BY <2>9 DEF InsertPending, Release
      <3>2. ~Holds(p, Marked)' /\ ~Holds(p, UnderWay)'
        BY <3>1 DEF Holds, Marked, UnderWay
      <3> QED BY <1>1, <3>1, <3>2 DEF Keyed, Fresh
    <2> QED BY <2>1, <2>4, <2>5, <2>6, <2>7, <2>8, <2>9 DEF OrderStep
  <1> QED BY <1>2, <1>3

----------------------------------------------------------------------------
(* The invariant, and what follows from it.                                 *)

\* The invariant holds at the start.
LEMMA InitInv == Init => Inv /\ SettledNotPending /\ AuditBounded
  <1> SUFFICES ASSUME Init PROVE Inv /\ SettledNotPending /\ AuditBounded
    OBVIOUS
  <1>1. TypeOK
    BY InitTypes
  <1>2. Locked /\ RowsFirst /\ AnswersSent /\ SettledNotPending
    BY DEF Init, Locked, RowsFirst, AnswersSent, Holds, SettledNotPending, Stored
  <1>3. Allowance /\ Unsettled
    BY DEF Init, Allowance, Allowed, Unsettled, Keyed, Fresh, Holds
  <1>4. AuditBounded
    BY ConstantsAssumption DEF Init, AuditBounded
  <1> QED BY <1>1, <1>2, <1>3, <1>4 DEF Inv

\* Every step keeps the invariant.
LEMMA NextInv == Inv /\ [Next]_vars => Inv'
  <1>1. Inv /\ [Next]_vars => TypeOK'
    BY HandleTypes, OtherTypes DEF Inv
  <1> QED BY <1>1, LockedNext, RowsFirstNext, AnswersSentNext, AllowanceNext,
          UnsettledNext DEF Inv

\* The invariant holds throughout.
LEMMA Invariant == Spec => []Inv
  <1>1. Init => Inv
    BY InitInv
  <1> QED BY <1>1, NextInv, PTL DEF Spec

\* An order is sent once, and once more for each time its key could not be
\* found, and for each sending that was answered with an error although it arrived
\* (main.rs:97-189).
THEOREM SentOnceHolds == Spec => []SentOnce
  <1>1. Inv => SentOnce
    BY DEF Inv, Allowance, Allowed, SentOnce
  <1> QED BY <1>1, Invariant, PTL

\* What the cache, the market and the executions know of has a row
\* (main.rs:125-154, 194-205).
THEOREM KnownIsPersistedHolds == Spec => []KnownIsPersisted
  <1>1. Inv => KnownIsPersisted
    BY DEF Inv, RowsFirst, AnswersSent, KnownIsPersisted
  <1> QED BY <1>1, Invariant, PTL

\* An order that its key kept from being processed twice is not pending again
\* once a terminal report on it was handled: the lock is held from the look at the
\* key to the insertion, across every await between them (main.rs:56, 97-189, 236-238).
THEOREM SettledNotPendingHolds == Spec => []SettledNotPending
  <1>1. Inv /\ SettledNotPending /\ [Next]_vars => SettledNotPending'
    <2> SUFFICES ASSUME Inv, SettledNotPending, [Next]_vars, NEW p \in Order,
                        p \in settled', misses'[p] = 0
                 PROVE p \notin pending'
      BY DEF SettledNotPending
    <2>1. /\ (p \in settled /\ misses[p] = 0) => p \notin pending
          /\ misses \in [Order -> Nat] /\ Fresh(p)
      BY DEF SettledNotPending, Inv, Unsettled, TypeOK
    <2>2. CASE ~Handle
      <3>1. misses[p] = 0
        BY <2>1, <2>2, Outside
      <3> QED BY <2>1, <2>2, <3>1, Outside
    <2>3. CASE Handle
      <3>1. PICK t \in active, ok \in BOOLEAN, applied \in BOOLEAN :
              \/ t.kind = "order" /\ OrderStep(t, ok, applied)
              \/ t.kind = "report" /\ ReportStep(t, ok, applied)
        BY <2>3 DEF Handle
      <3>2. t.order \in Order
        BY DEF Inv, TypeOK, Task, OrderTask, ReportTask
      <3>3. CASE TrimReportAudit(t, ok, applied)
        <4>1. misses' = misses /\ pending' \subseteq pending
          BY <3>3 DEF TrimReportAudit
        <4>2. p \notin settled => p \notin pending'
          BY <3>3 DEF TrimReportAudit, Closes
        <4> QED BY <2>1, <4>1, <4>2
      <3>4. CASE t.kind = "order" /\ InsertPending(t.order)
        <4>1. settled' = settled /\ misses' = misses /\ Holds(t.order, UnderWay)
          BY <3>4 DEF InsertPending, Holds, UnderWay
        <4>2. p # t.order
          BY <2>1, <4>1 DEF Fresh
        <4>3. p \in pending' => p \in pending
          BY <3>4, <4>2 DEF InsertPending
        <4> QED BY <2>1, <4>1, <4>3
      <3>5. CASE ~TrimReportAudit(t, ok, applied) /\ ~(t.kind = "order" /\ InsertPending(t.order))
        <4>1. /\ UNCHANGED <<settled, pending>>
              /\ misses' = misses \/ misses' = [misses EXCEPT ![t.order] = @ + 1]
          BY <3>1, <3>5
             DEF OrderStep, ReportStep, CheckIdempotency, MarkProcessed, PersistOrder,
                 CacheOrder, PushAudit, TrimOrderAudit, SendToExecution, PersistExecution,
                 UpdateStatus, omsVars
        <4>2. misses'[p] = 0 => misses[p] = 0
          BY <2>1, <3>2, <4>1
        <4> QED BY <2>1, <4>1, <4>2
      <3> QED BY <3>3, <3>4, <3>5
    <2> QED BY <2>2, <2>3
  <1>2. Init => SettledNotPending
    BY InitInv
  <1> QED BY <1>1, <1>2, Invariant, PTL DEF Spec

\* More faults leave more room.
LEMMA Room ==
    ASSUME NEW a \in Nat, NEW k \in Nat, NEW f \in Nat, NEW g \in Nat, NEW c \in Nat,
           a <= k + 1 + f + c, g >= f
    PROVE a <= k + 1 + g + c
  OBVIOUS

\* Only trims that failed or were cut off let the audit list outgrow its bound
\* (main.rs:147-148, 231-232).
THEOREM AuditBoundedHolds == Spec => []AuditBounded
  <1>1. Inv /\ AuditBounded /\ [Next]_vars => AuditBounded'
    <2> SUFFICES ASSUME Inv, AuditBounded, [Next]_vars PROVE AuditBounded'
      OBVIOUS
    <2>1. /\ audit \in Nat /\ faults \in Nat /\ crashes \in Nat /\ AuditKeep \in Nat
          /\ audit <= AuditKeep + 1 + faults + crashes + (IF step = "trim" THEN 1 ELSE 0)
      BY ConstantsAssumption DEF Inv, TypeOK, AuditBounded
    <2>2. CASE ~Handle
      <3>1. audit' = audit /\ faults' = faults
        BY <2>2, Outside
      <3>2. (step' = step /\ crashes' = crashes) \/ crashes' = crashes + 1
            \/ (step # "trim" /\ crashes' = crashes)
        BY <2>2, Outside DEF Inv, Locked
      <3> QED BY <2>1, <3>1, <3>2 DEF AuditBounded
    <2>3. CASE Handle
      <3>1. PICK t \in active, ok \in BOOLEAN, applied \in BOOLEAN :
              OrderStep(t, ok, applied) \/ ReportStep(t, ok, applied)
        BY <2>3 DEF Handle
      <3>2. crashes' = crashes
        BY <3>1 DEF OrderStep, ReportStep, CheckIdempotency, MarkProcessed, PersistOrder,
                  CacheOrder, PushAudit, TrimOrderAudit, TrimReportAudit, SendToExecution,
                  InsertPending,
                  PersistExecution, UpdateStatus, bounds
      <3>3. ASSUME Call(ok, applied)
            PROVE /\ faults' = IF ok THEN faults ELSE faults + 1
                  /\ faults' \in Nat /\ faults' >= faults
        BY <2>1, <3>3 DEF Call
      <3>4. CASE PushAudit(ok, applied)
        <4>1. /\ step = "push" /\ Call(ok, applied)
              /\ audit' = IF applied THEN audit + 1 ELSE audit
              /\ step' = IF ok THEN "trim" ELSE "idle"
          BY <3>4 DEF PushAudit, Or, GoTo, Release
        <4>2. CASE ok
          <5>1. step' = "trim" /\ audit' = audit + 1
            BY <4>1, <4>2 DEF Call
          <5> QED BY <2>1, <3>2, <3>3, <4>1, <5>1 DEF AuditBounded
        <4>3. CASE ~ok
          <5>1. step' # "trim" /\ audit' <= audit + 1 /\ audit' \in Nat /\ faults' = faults + 1
            BY <2>1, <3>3, <4>1, <4>3
          <5> QED BY <2>1, <3>2, <4>1, <5>1 DEF AuditBounded
        <4> QED BY <4>2, <4>3
      <3>5. CASE TrimOrderAudit(t.order, ok, applied) \/ TrimReportAudit(t, ok, applied)
        <4>1. /\ step = "trim" /\ Call(ok, applied) /\ step' # "trim"
              /\ audit' = IF applied THEN Trimmed(audit) ELSE audit
          BY <3>5 DEF TrimOrderAudit, TrimReportAudit, Or, GoTo, Release
        <4>2. Trimmed(audit) \in Nat /\ Trimmed(audit) <= AuditKeep + 1
          BY <2>1 DEF Trimmed, Min
        <4>3. CASE applied
          BY <2>1, <3>2, <3>3, <4>1, <4>2, <4>3 DEF AuditBounded
        <4>4. CASE ~applied
          <5>1. faults' = faults + 1 /\ audit' = audit
            BY <3>3, <4>1, <4>4 DEF Call
          <5> QED BY <2>1, <3>2, <4>1, <5>1 DEF AuditBounded
        <4> QED BY <4>3, <4>4
      <3>7. CASE InsertPending(t.order)
        <4>1. /\ audit' = audit /\ faults' = faults /\ step' # "trim" /\ step # "trim"
          BY <3>7 DEF InsertPending, Release, redisVars
        <4> QED BY <2>1, <3>2, <4>1 DEF AuditBounded
      <3>6. CASE CheckIdempotency(t.order, ok) \/ MarkProcessed(t.order, ok, applied)
                 \/ PersistOrder(t.order, ok, applied) \/ CacheOrder(t.order, ok, applied)
                 \/ SendToExecution(t.order, ok, applied)
                 \/ PersistExecution(t, ok, applied) \/ UpdateStatus(t, ok, applied)
        <4>1. /\ audit' = audit /\ step # "trim" /\ step' # "trim"
              /\ Call(ok, applied) \/ Call(ok, TRUE)
          BY <3>6 DEF CheckIdempotency, MarkProcessed, PersistOrder, InsertOrder,
                  CacheOrder, SendToExecution, PersistExecution, UpdateStatus, redisVars,
                  Or, GoTo, Release
        <4>2. faults' \in Nat /\ faults' >= faults
          BY <2>1, <4>1 DEF Call
        <4>3. audit <= AuditKeep + 1 + faults + crashes
          BY <2>1, <4>1
        <4>4. /\ audit \in Nat /\ faults \in Nat /\ crashes \in Nat /\ AuditKeep \in Nat
              /\ audit' = audit /\ crashes' = crashes
          BY <2>1, <3>2, <4>1
        <4>5. audit' <= AuditKeep + 1 + faults' + crashes'
          BY <4>2, <4>3, <4>4, Room
        <4>6. (IF step' = "trim" THEN 1 ELSE 0) = 0
          BY <4>1
        <4>7. AuditKeep + 1 + faults' + crashes' + 0 = AuditKeep + 1 + faults' + crashes'
          BY <4>2, <4>4
        <4> QED BY <4>5, <4>6, <4>7 DEF AuditBounded
      <3> QED BY <3>1, <3>4, <3>5, <3>6, <3>7 DEF OrderStep, ReportStep
    <2> QED BY <2>2, <2>3
  <1>2. Init => AuditBounded
    BY InitInv
  <1> QED BY <1>1, <1>2, Invariant, PTL DEF Spec

----------------------------------------------------------------------------
(* The refinement of the ledger.                                            *)

\* What the ledger allows o.
Entitled == [o \in Order |-> 1 + misses[o]]

\* A miss of the key of o is Forget(o).
LEMMA Forgets ==
    ASSUME TypeOK, NEW o \in Order, misses' = [misses EXCEPT ![o] = @ + 1], UNCHANGED <<status, sentVars>>
    PROVE Ledger!Next
  <1>1. Entitled' = [Entitled EXCEPT ![o] = @ + 1]
    <2>1. misses \in [Order -> Nat]
      BY DEF TypeOK
    <2>2. \A q \in Order : 1 + misses'[q] = IF q = o THEN (1 + misses[o]) + 1 ELSE 1 + misses[q]
      BY <2>1
    <2>3. [Entitled EXCEPT ![o] = @ + 1]
            = [q \in Order |-> IF q = o THEN (1 + misses[o]) + 1 ELSE 1 + misses[q]]
      BY DEF Entitled
    <2> QED BY <2>2, <2>3 DEF Entitled
  <1> QED BY <1>1 DEF Ledger!Next, Ledger!Forget, Entitled, sentVars

\* Nothing the ledger knows of changes.
LEMMA Quiet == UNCHANGED <<status, sentVars, misses>> => UNCHANGED Ledger!vars
  BY DEF Ledger!vars, sentVars

\* Every step of the service is one of the ledger, or none.
LEMMA StepRefines == Inv /\ [Next]_vars => [Ledger!Next]_(Ledger!vars)
  <1> SUFFICES ASSUME Inv, [Next]_vars PROVE Ledger!Next \/ UNCHANGED Ledger!vars
    OBVIOUS
  <1>1. TypeOK
    BY DEF Inv
  <1>2. CASE ~Handle
    <2>1. UNCHANGED <<status, sent, doubtful>>
      BY <1>2, Outside
    <2>2. UNCHANGED misses \/ \E o \in Order : misses' = [misses EXCEPT ![o] = @ + 1]
      BY <1>2, Outside
    <2>3. ASSUME NEW o \in Order, NEW n \in Sending, NEW final \in BOOLEAN, NEW x \in Outcome,
                 Report(o, n, final, x)
          PROVE Ledger!Next
      <3>1. exchange[o][n] # "unsent" /\ misses' = misses
        BY <2>3 DEF Report
      <3>2. sent[o] > 0
        BY <3>1 DEF Inv, AnswersSent
      <3>3. said' = [said EXCEPT ![o] = @ \cup {x}]
        BY <2>3 DEF Report
      <3> QED BY <2>1, <3>1, <3>2, <3>3 DEF Ledger!Next, Ledger!Say
    <2>4. CASE \E o \in Order, n \in Sending : Acknowledge(o, n) \/ Conclude(o, n)
      BY <2>3, <2>4 DEF Acknowledge, Conclude, Outcome
    <2>5. CASE ~\E o \in Order, n \in Sending : Acknowledge(o, n) \/ Conclude(o, n)
      <3>1. said' = said
        BY <1>2, <2>5 DEF Next, Grant, Answer, Deliver, Expire, Acquire, Crash, Restart, vars,
                          sentVars
      <3>2. UNCHANGED <<status, sentVars>>
        BY <2>1, <3>1 DEF sentVars
      <3> QED BY <1>1, <2>2, <3>2, Forgets, Quiet
    <2> QED BY <2>4, <2>5
  <1>3. CASE Handle
    <2>1. PICK t \in active, ok \in BOOLEAN, applied \in BOOLEAN :
            \/ t.kind = "order" /\ OrderStep(t, ok, applied)
            \/ t.kind = "report" /\ ReportStep(t, ok, applied)
      BY <1>3 DEF Handle
    <2> DEFINE o == t.order
    <2> USE DEF redisVars, dbVars, omsVars, envVars, sentVars, bounds
    <2>8. CASE InsertPending(o)
      <3>1. UNCHANGED <<status, sentVars, misses>>
        BY <2>8 DEF InsertPending
      <3> QED BY <3>1, Quiet
    <2>2. t \in Task /\ o \in Order
      BY <1>1 DEF TypeOK, Task, OrderTask, ReportTask
    <2>3. CASE CheckIdempotency(o, ok)
      <3>1. UNCHANGED <<status, sentVars>> /\ (UNCHANGED misses \/ misses' = [misses EXCEPT ![o] = @ + 1])
        BY <2>3 DEF CheckIdempotency
      <3> QED BY <1>1, <2>2, <3>1, Forgets, Quiet
    <2>4. CASE MarkProcessed(o, ok, applied) \/ CacheOrder(o, ok, applied)
               \/ PushAudit(ok, applied) \/ TrimOrderAudit(o, ok, applied)
               \/ TrimReportAudit(t, ok, applied) \/ PersistExecution(t, ok, applied)
      <3>1. UNCHANGED <<status, sentVars, misses>>
        BY <2>4 DEF MarkProcessed, CacheOrder, PushAudit, TrimOrderAudit, TrimReportAudit, PersistExecution
      <3> QED BY <3>1, Quiet
    <2>5. CASE PersistOrder(o, ok, applied)
      <3>1. UNCHANGED <<sentVars, misses>>
        BY <2>5 DEF PersistOrder
      <3>2. status' = status \/ (status[o] = "none" /\ status' = [status EXCEPT ![o] = "NEW"])
        BY <2>5 DEF PersistOrder, InsertOrder
      <3>3. CASE status[o] = "none" /\ status' = [status EXCEPT ![o] = "NEW"]
        BY <2>2, <3>1, <3>3 DEF Ledger!Next, Ledger!Store, sentVars
      <3> QED BY <3>1, <3>2, <3>3, Quiet
    <2>6. CASE t.kind = "order" /\ SendToExecution(o, ok, applied)
      <3>1. UNCHANGED <<status, misses, said>> /\ step = "send"
        BY <2>6 DEF SendToExecution
      <3>2. Holds(o, Stored) /\ Holds(o, Marked)
        BY <2>6, <3>1 DEF Holds, Stored, Marked
      <3>3. status[o] # "none"
        BY <2>2, <3>2 DEF Inv, RowsFirst
      <3>7. sent[o] <= misses[o] + doubtful[o]
        BY <2>2, <3>2 DEF Inv, Allowance, Allowed
      <3>4. sent[o] < Entitled[o] + doubtful[o]
        BY <1>1, <2>2, <3>7 DEF TypeOK, Entitled
      <3>5. CASE Leave(o, ok)
        BY <2>2, <3>1, <3>3, <3>4, <3>5 DEF Leave, Ledger!Next, Ledger!Send, Entitled
      <3>6. Leave(o, ok) \/ UNCHANGED <<sent, doubtful>>
        BY <2>6 DEF SendToExecution
      <3> QED BY <3>1, <3>5, <3>6, Quiet DEF sentVars
    <2>7. CASE t.kind = "report" /\ UpdateStatus(t, ok, applied)
      <3>1. UNCHANGED <<sentVars, misses>>
        BY <2>7 DEF UpdateStatus
      <3>2. t.status \in said[o]
        BY <2>2, <2>7 DEF Inv, AnswersSent
      <3>3. status' = status \/ (status[o] # "none" /\ status' = [status EXCEPT ![o] = t.status])
        BY <2>7 DEF UpdateStatus, NewStatus
      <3>4. CASE status[o] # "none" /\ status' = [status EXCEPT ![o] = t.status]
        BY <2>2, <3>1, <3>2, <3>4 DEF Ledger!Next, Ledger!Learn, sentVars
      <3> QED BY <3>1, <3>3, <3>4, Quiet
    <2> QED BY <2>1, <2>3, <2>4, <2>5, <2>6, <2>7, <2>8 DEF OrderStep, ReportStep
  <1> QED BY <1>2, <1>3

\* The service implements the ledger, for any number of orders, deliveries,
\* failing calls and crashes (main.rs:97-244).
THEOREM Refinement == Spec => KeepsLedger
  <1>1. Init => Ledger!Init
    BY DEF Init, Ledger!Init
  <1> QED BY <1>1, StepRefines, Invariant, PTL DEF Spec, KeepsLedger, Ledger!Spec
=============================================================================
