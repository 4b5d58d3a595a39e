-------------------------------- MODULE OMS --------------------------------
(***************************************************************************)
(* The order management service, src/oms/src/main.rs.  The main loop       *)
(* spawns a task for every order and every execution report it receives;   *)
(* a task holds oms.write() for the whole of its handler.  The runtime is  *)
(* free to poll the spawned tasks in any order.  "step" names the call to  *)
(* Redis, PostgreSQL or the publisher that the lock's holder is about to   *)
(* make; each may fail, and a failed write or send may have taken effect   *)
(* or not.                                                                 *)
(*                                                                         *)
(* The execution service is the environment: a sending is answered by an   *)
(* acknowledgement and then by one more report, or by neither if it or the *)
(* answer is lost.                                                         *)
(***************************************************************************)
EXTENDS Integers, FiniteSets

CONSTANTS
    Order,          \* the orders the risk service publishes
    MaxRetries,     \* resends of send_to_execution (3)
    AuditKeep,      \* the 10000 of LTRIM
    Final,          \* statuses execute_order may conclude with
    MaxCopies,      \* deliveries of one order
    \* bounds of a behaviour
    MaxFaults, MaxCrashes, MaxExpiries

ASSUME ConstantsAssumption ==
    /\ MaxRetries \in Nat /\ AuditKeep \in Nat /\ MaxCopies \in Nat
    /\ MaxFaults \in Nat /\ MaxCrashes \in Nat /\ MaxExpiries \in Nat
    /\ Final \subseteq {"Filled", "PartiallyFilled", "Rejected", "Acknowledged"}

Terminal == {"Filled", "Cancelled", "Rejected"}
Outcome  == Final \cup {"Acknowledged"}
Status   == Outcome \cup {"NEW"}

\* What leaves of one order: at most all the attempts for each of its copies.
Sending == 1..(MaxCopies * (MaxRetries + 1))

\* A task is one delivery of an order, or one report on its n-th sending.
OrderTask  == [kind : {"order"}, order : Order, copy : 1..MaxCopies]
ReportTask == [kind : {"report"}, order : Order, copy : Sending,
               final : BOOLEAN, status : Outcome]
Task == OrderTask \cup ReportTask
Kind == {"order", "report"}

VARIABLES
    up,
    tasks,          \* spawned, waiting for the lock
    active,         \* the holder of the lock: {} or a singleton
    step, attempt,  \* where it is
    idempotency,    \* orders with an order:idempotency key
    cached,         \* orders with an order:cache key
    audit,          \* length of the audit:trail list
    status,         \* the orders table: "none", or the status of the row
    executions,     \* the executions table
    pending,        \* pending_orders
    retryQueue,     \* per order, its entries in retry_queue
    delivered,      \* copies of each order received
    exchange,       \* per order, the execution service's view of each sending
    \* history
    sent,           \* sendings of each order that left
    doubtful,       \* those of them that were answered with an error
    said,           \* per order, the statuses it was reported with
    settled,        \* orders one of whose terminal reports was handled to its end
    failed,         \* orders, per kind of task, a handler of which returned an error
    misses,         \* times the key of a marked order was not there, or not read
    \* how much of each bound is used up
    faults, crashes, expiries

taskVars  == <<up, tasks, active, step, attempt>>
redisVars == <<idempotency, cached, audit>>
dbVars    == <<status, executions>>
omsVars   == <<pending, retryQueue>>
envVars   == <<delivered, exchange>>
bounds    == <<crashes, expiries>>
sentVars  == <<sent, doubtful, said>>
vars == <<taskVars, redisVars, dbVars, omsVars, envVars, sentVars, settled, failed,
          misses, faults, bounds>>

Min(a, b) == IF a < b THEN a ELSE b

Init ==
    /\ up = TRUE /\ tasks = {} /\ active = {} /\ step = "idle" /\ attempt = 0
    /\ idempotency = {} /\ cached = {} /\ audit = 0
    /\ status = [o \in Order |-> "none"] /\ executions = {}
    /\ pending = {} /\ retryQueue = [o \in Order |-> 0]
    /\ delivered = [o \in Order |-> 0]
    /\ exchange = [o \in Order |-> [n \in Sending |-> "unsent"]]
    /\ sent = [o \in Order |-> 0] /\ doubtful = [o \in Order |-> 0]
    /\ said = [o \in Order |-> {}] /\ settled = {} /\ failed = [k \in Kind |-> {}]
    /\ misses = [o \in Order |-> 0]
    /\ faults = 0 /\ crashes = 0 /\ expiries = 0

\* A call is answered, or fails while the fault bound lasts; "applied" is
\* whether a write or a send took effect.
Call(ok, applied) == /\ ok \/ faults < MaxFaults
                     /\ ok => applied
                     /\ faults' = IF ok THEN faults ELSE faults + 1

\* The main loop: an order arrives from the risk service.
Deliver(o) ==
    /\ up /\ delivered[o] < MaxCopies
    /\ delivered' = [delivered EXCEPT ![o] = @ + 1]
    /\ tasks' = tasks \cup {[kind |-> "order", order |-> o, copy |-> delivered'[o]]}
    /\ UNCHANGED <<up, active, step, attempt, redisVars, dbVars, omsVars, exchange,
                   sentVars, settled, failed, misses, faults, bounds>>

\* A spawned task is granted oms.write().
Acquire(t) ==
    /\ t \in tasks /\ active = {}
    /\ tasks' = tasks \ {t} /\ active' = {t} /\ attempt' = 0
    /\ step' = IF t.kind = "order" THEN "exists" ELSE "execution"
    /\ UNCHANGED <<up, redisVars, dbVars, omsVars, envVars, sentVars, settled, failed, misses,
                   faults, bounds>>

\* Bug: a handler that returns early keeps the guard.
Leaked == step' = "idle" /\ attempt' = 0 /\ UNCHANGED <<up, tasks, active>>

\* The handler returns, with or without an error, and its guard is dropped.
Release == /\ step' = "idle" /\ attempt' = 0 /\ active' = {}
           /\ UNCHANGED <<up, tasks>>
\* The handler goes on to its next call.
GoTo(s) == step' = s /\ UNCHANGED <<up, tasks, active, attempt>>
\* "?": go on, or return the error.
Or(ok, s) == IF ok THEN GoTo(s) ELSE Release

----------------------------------------------------------------------------
\* Bug: the presence of the key forgotten, or its test turned round.
NeverKnown(o) == FALSE
NotKnown(o) == o \notin idempotency

\* EXISTS finds the key.
Known(o) == o \in idempotency

\* process_order 1: an order whose key exists is a duplicate; when EXISTS
\* fails the order is taken for a new one.
CheckIdempotency(o, ok) ==
    /\ step = "exists" /\ Call(ok, TRUE)
    /\ IF ok /\ Known(o) THEN Release ELSE GoTo("mark")
    /\ misses' = IF ~ok /\ o \in idempotency THEN [misses EXCEPT ![o] = @ + 1] ELSE misses
    /\ UNCHANGED <<redisVars, dbVars, omsVars, envVars, sentVars, settled, bounds>>

\* SETEX of the key, before anything is done with the order.
MarkProcessed(o, ok, applied) ==
    /\ step = "mark" /\ Call(ok, applied)
    /\ idempotency' = idempotency \cup (IF applied THEN {o} ELSE {})
    /\ Or(ok, "persist")
    /\ UNCHANGED <<cached, audit, dbVars, omsVars, envVars, sentVars, settled, misses, bounds>>

\* Bug: an error of the INSERT ignored.
InsertIgnored(o, ok, applied) ==
    /\ status' = IF applied /\ status[o] = "none" THEN [status EXCEPT ![o] = "NEW"]
                 ELSE status
    /\ GoTo("cache")

\* persist_order: INSERT ... ON CONFLICT DO NOTHING.
InsertOrder(o, ok, applied) ==
    /\ status' = IF applied /\ status[o] = "none" THEN [status EXCEPT ![o] = "NEW"]
                 ELSE status
    /\ Or(ok, "cache")

PersistOrder(o, ok, applied) ==
    /\ step = "persist" /\ Call(ok, applied)
    /\ InsertOrder(o, ok, applied)
    /\ UNCHANGED <<redisVars, executions, omsVars, envVars, sentVars, settled, misses, bounds>>

\* process_order 4: SETEX of the cached order.
CacheOrder(o, ok, applied) ==
    /\ step = "cache" /\ Call(ok, applied)
    /\ cached' = cached \cup (IF applied THEN {o} ELSE {})
    /\ Or(ok, "push")
    /\ UNCHANGED <<idempotency, audit, dbVars, omsVars, envVars, sentVars, settled, misses, bounds>>

\* process_order 5 and process_execution 4: LPUSH of an audit entry.
PushAudit(ok, applied) ==
    /\ step = "push" /\ Call(ok, applied)
    /\ audit' = IF applied THEN audit + 1 ELSE audit
    /\ Or(ok, "trim")
    /\ UNCHANGED <<idempotency, cached, dbVars, omsVars, envVars, sentVars, settled, misses,
                   bounds>>

\* Bug: the list trimmed one entry too late.
TrimmedLate(n) == Min(n, AuditKeep + 2)

\* LTRIM 0 AuditKeep: both ends are inclusive.
Trimmed(n) == Min(n, AuditKeep + 1)

\* The LTRIM, after which the handler of an order goes on to send it ...
TrimOrderAudit(o, ok, applied) ==
    /\ step = "trim" /\ Call(ok, applied)
    /\ audit' = IF applied THEN Trimmed(audit) ELSE audit
    /\ Or(ok, "send")
    /\ UNCHANGED <<idempotency, cached, dbVars, omsVars, envVars, sentVars, settled, misses,
                   bounds>>

\* Bug: a filled order only leaves pending_orders if it was cancelled before.
ClosesOnCancel(r) == r.status = "Cancelled"

\* process_execution 5: the report ends the order.
Closes(r) == r.status \in Terminal

\* ... and the handler of a report removes a finished order from pending_orders.
TrimReportAudit(r, ok, applied) ==
    /\ step = "trim" /\ Call(ok, applied)
    /\ audit' = IF applied THEN Trimmed(audit) ELSE audit
    /\ pending' = IF ok /\ Closes(r) THEN pending \ {r.order} ELSE pending
    /\ settled' = IF ok /\ r.status \in Terminal THEN settled \cup {r.order} ELSE settled
    /\ Release
    /\ UNCHANGED <<idempotency, cached, dbVars, retryQueue, envVars, sentVars, misses, bounds>>

\* Bug: one resend too many.
RetriesLate == attempt <= MaxRetries

\* The failed attempt is not the last.
CanRetry == attempt < MaxRetries

\* The order leaves for the execution service; the answer may be an error all
\* the same, as where one of the publisher's connections broke.
Leave(o, ok) ==
    /\ exchange' = [exchange EXCEPT ![o][sent[o] + 1] = "sent"]
    /\ sent' = [sent EXCEPT ![o] = @ + 1]
    /\ doubtful' = IF ok THEN doubtful ELSE [doubtful EXCEPT ![o] = @ + 1]

\* send_to_execution, one attempt of its loop: a failed one is repeated after
\* a sleep, the last one puts the order on retry_queue and is an error.
SendToExecution(o, ok, applied) ==
    /\ step = "send" /\ Call(ok, applied)
    /\ IF applied THEN Leave(o, ok) ELSE UNCHANGED <<exchange, sent, doubtful>>
    /\ \/ ok /\ GoTo("insert") /\ UNCHANGED retryQueue
       \/ /\ ~ok /\ CanRetry
          /\ attempt' = attempt + 1
          /\ UNCHANGED <<up, tasks, active, step, retryQueue>>
       \/ /\ ~ok /\ ~CanRetry
          /\ retryQueue' = [retryQueue EXCEPT ![o] = @ + 1]
          /\ Release
    /\ UNCHANGED <<redisVars, dbVars, pending, delivered, said, settled, misses, bounds>>

\* The order is noted as pending, after the send was awaited.
InsertPending(o) ==
    /\ step = "insert" /\ pending' = pending \cup {o} /\ Release
    /\ UNCHANGED <<redisVars, dbVars, retryQueue, envVars, sentVars, settled, misses,
                   faults, bounds>>

\* process_execution 1: INSERT of the report, ON CONFLICT DO NOTHING.
PersistExecution(r, ok, applied) ==
    /\ step = "execution" /\ Call(ok, applied)
    /\ executions' = executions \cup (IF applied THEN {r} ELSE {})
    /\ Or(ok, "status")
    /\ UNCHANGED <<redisVars, status, omsVars, envVars, sentVars, settled, misses, bounds>>

\* Bug: whatever is not a rejection is stored as a fill.
FilledUnlessRejected(r) == IF r.status = "Rejected" THEN "Rejected" ELSE "Filled"

\* The status that update_order_status stores.
NewStatus(r) == r.status

\* process_execution 2 and 3: the UPDATE, whatever the status was; then the
\* cached order is stored again, errors ignored, which only renews its expiry.
UpdateStatus(r, ok, applied) ==
    /\ step = "status" /\ Call(ok, applied)
    /\ status' = IF applied /\ status[r.order] # "none"
                 THEN [status EXCEPT ![r.order] = NewStatus(r)] ELSE status
    /\ Or(ok, "push")
    /\ UNCHANGED <<redisVars, executions, omsVars, envVars, sentVars, settled, misses, bounds>>

OrderStep(t, ok, applied) ==
    \/ CheckIdempotency(t.order, ok)      \/ MarkProcessed(t.order, ok, applied)
    \/ PersistOrder(t.order, ok, applied) \/ CacheOrder(t.order, ok, applied)
    \/ PushAudit(ok, applied)             \/ TrimOrderAudit(t.order, ok, applied)
    \/ SendToExecution(t.order, ok, applied) \/ InsertPending(t.order)

ReportStep(t, ok, applied) ==
    \/ PersistExecution(t, ok, applied)   \/ UpdateStatus(t, ok, applied)
    \/ PushAudit(ok, applied)             \/ TrimReportAudit(t, ok, applied)

\* The next call of the task that holds the lock; a handler that returns on a
\* failed call returns its error.
Handle == \E t \in active, ok, applied \in BOOLEAN :
             /\ \/ t.kind = "order" /\ OrderStep(t, ok, applied)
                \/ t.kind = "report" /\ ReportStep(t, ok, applied)
             /\ failed' = IF active' = {} /\ ~ok
                           THEN [failed EXCEPT ![t.kind] = @ \cup {t.order}] ELSE failed

----------------------------------------------------------------------------
\* Bug: the main loop handles a terminal report itself, without the lock.
ReceiveUnlocked(r) ==
    IF up /\ r.status \in Terminal
    THEN /\ pending' = pending \ {r.order} /\ settled' = settled \cup {r.order}
         /\ UNCHANGED tasks
    ELSE UNCHANGED <<tasks, pending, settled>>

\* The main loop spawns a task for every report it is up to receive.
Receive(r) ==
    /\ tasks' = IF up THEN tasks \cup {r} ELSE tasks
    /\ UNCHANGED <<pending, settled>>

\* The execution service acknowledges the n-th sending of o, and then reports
\* what became of it.
Report(o, n, final, s) ==
    /\ exchange[o][n] = (IF final THEN "acked" ELSE "sent")
    /\ exchange' = [exchange EXCEPT ![o][n] = IF final THEN "done" ELSE "acked"]
    /\ said' = [said EXCEPT ![o] = @ \cup {s}]
    /\ Receive([kind |-> "report", order |-> o, copy |-> n, final |-> final, status |-> s])
    /\ UNCHANGED <<up, active, step, attempt, redisVars, dbVars, retryQueue, delivered,
                   sent, doubtful, failed, misses, faults, bounds>>

Acknowledge(o, n) == Report(o, n, FALSE, "Acknowledged")
Conclude(o, n) == \E s \in Final : Report(o, n, TRUE, s)

\* A key of Redis reaches the end of its life.
Expire(o) ==
    /\ expiries < MaxExpiries /\ expiries' = expiries + 1
    /\ \/ /\ o \in idempotency /\ idempotency' = idempotency \ {o}
          /\ misses' = [misses EXCEPT ![o] = @ + 1]
          /\ UNCHANGED cached
       \/ o \in cached /\ cached' = cached \ {o} /\ UNCHANGED <<idempotency, misses>>
    /\ UNCHANGED <<taskVars, audit, dbVars, omsVars, envVars, sentVars, settled, failed,
                   faults, crashes>>

\* The process ends (a "?" in main() on a message it cannot decode, a kill),
\* and with it every spawned task and the two collections.
Crash ==
    /\ up /\ crashes < MaxCrashes /\ crashes' = crashes + 1
    /\ up' = FALSE /\ tasks' = {} /\ active' = {} /\ step' = "idle" /\ attempt' = 0
    /\ pending' = {} /\ retryQueue' = [o \in Order |-> 0]
    /\ UNCHANGED <<redisVars, dbVars, envVars, sentVars, settled, failed, misses, faults, expiries>>

\* main() starts again: init_database creates nothing anew, and nothing is
\* read back.
Restart ==
    /\ ~up /\ up' = TRUE
    /\ UNCHANGED <<tasks, active, step, attempt, redisVars, dbVars, omsVars, envVars,
                   sentVars, settled, failed, misses, faults, bounds>>

Grant  == \E t \in tasks : Acquire(t)
Answer == \E o \in Order, n \in Sending : Acknowledge(o, n) \/ Conclude(o, n)

Next ==
    \/ Handle \/ Grant \/ Answer \/ Crash \/ Restart
    \/ \E o \in Order : Deliver(o) \/ Expire(o)

\* The runtime polls a task whose call has returned, and a free lock is granted to
\* some waiter.  Messages, answers, faults, crashes and restarts owe nothing.
Fairness == WF_vars(Handle) /\ WF_vars(Grant)

Spec == Init /\ [][Next]_vars /\ Fairness

----------------------------------------------------------------------------
TypeOK ==
    /\ up \in BOOLEAN /\ tasks \in SUBSET Task /\ active \in SUBSET Task
    /\ step \in {"idle", "exists", "mark", "persist", "cache", "push", "trim",
                 "send", "insert", "execution", "status"}
    /\ attempt \in 0..MaxRetries
    /\ idempotency \in SUBSET Order /\ cached \in SUBSET Order /\ audit \in Nat
    /\ status \in [Order -> Status \cup {"none"}] /\ executions \in SUBSET ReportTask
    /\ pending \in SUBSET Order /\ retryQueue \in [Order -> Nat]
    /\ delivered \in [Order -> 0..MaxCopies]
    /\ exchange \in [Order -> [Sending -> {"unsent", "sent", "acked", "done"}]]
    /\ sent \in [Order -> Nat] /\ doubtful \in [Order -> Nat]
    /\ said \in [Order -> SUBSET Outcome] /\ settled \in SUBSET Order
    /\ failed \in [Kind -> SUBSET Order] /\ misses \in [Order -> Nat]
    /\ faults \in Nat /\ crashes \in Nat /\ expiries \in Nat

\* An order leaves for the market once, however often it is delivered and
\* wherever the service crashes, but for the times its idempotency key had
\* expired or could not be read, and for each sending that arrived although it
\* was answered with an error, and was repeated (main.rs:104-116, 170-189).
SentOnce == \A o \in Order : sent[o] <= 1 + misses[o] + doubtful[o]

\* Whatever the cache, the market or the executions table knows of, the orders
\* table has (main.rs:125-134, 154): so the UPDATE of a report finds its row.
KnownIsPersisted ==
    \A o \in Order :
        (o \in cached \/ sent[o] > 0 \/ \E r \in executions : r.order = o) => status[o] # "none"

\* An order that was processed once is not pending again after a terminal
\* report on it was handled.  Its reports may be there before it is inserted into
\* pending_orders, and so may those of a sending before its repetition: they wait,
\* as the lock is held across the send, its retries and the insertion
\* (main.rs:56, 154-156, 170-189, 236-238).
SettledNotPending ==
    \A o \in Order : (o \in settled /\ misses[o] = 0) => o \notin pending

\* The audit list outgrows LTRIM's bound only by the entries whose trimming
\* failed or was cut off by a crash (main.rs:147-148, 231-232).
AuditBounded ==
    audit <= AuditKeep + 1 + faults + crashes + (IF step = "trim" THEN 1 ELSE 0)

\* Every task that has been spawned ends, unless the process does.
TasksEnd == \A t \in Task : (t \in tasks) ~> (t \notin tasks \cup active)

\* Every order that is delivered is sent, in whatever order the tasks get the
\* lock, unless its handler returns an error or the process ends: an EXISTS that
\* fails and sends that fail while there are retries do not stop it
\* (main.rs:97-189).
DeliveredIsSent ==
    \A o \in Order : delivered[o] > 0 ~> (sent[o] > 0 \/ o \in failed["order"] \/ crashes > 0)

\* An order on which a terminal report arrives does not stay pending, although
\* its acknowledgement may be handled after that report, unless the handler of a
\* report on it returns an error (main.rs:236-241).
TerminalClears ==
    \A o \in Order :
        (\E r \in tasks : r.kind = "report" /\ r.order = o /\ r.status \in Terminal)
            ~> (o \notin pending \/ o \in failed["report"])

Ledger == INSTANCE OrderLedger
            WITH row <- status, allowed <- [o \in Order |-> 1 + misses[o]]

\* The service, its tasks, its failing calls and its crashes implement the
\* ledger of orders: no order leaves, be it in doubt, without a row or beyond what
\* its key allows, and its row takes only statuses that the market reported of it,
\* however late and in whatever order (main.rs:97-244).
KeepsLedger == Ledger!Spec

\* README.md:290 "Order state machine (NEW -> ACKNOWLEDGED -> FILLED/CANCELLED/
\* REJECTED)": a terminal status is not left again.
TerminalIsFinal ==
    [][\A o \in Order : status[o] \in Terminal => status'[o] = status[o]]_vars
=============================================================================
