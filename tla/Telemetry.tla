----------------------------- MODULE Telemetry -----------------------------
(***************************************************************************)
(* The monitoring service, src/monitoring/src/main.rs: how it connects to  *)
(* the streams it follows, and the RateTracker that counts the ticks of    *)
(* the last second.  (Signals and orders are counted the same way.)        *)
(*                                                                         *)
(* The main task tries the streams one after another, a few times each;    *)
(* those that fail are given to a background task, or to nobody.  The      *)
(* sleeps between attempts only take time.                                 *)
(***************************************************************************)
EXTENDS Integers, Sequences, SequencesExt

CONSTANTS
    Streams,        \* the streams in the order in which they are tried
    Retried,        \* the ones with a background task: ticks and books
    Retries,        \* attempts at the start (5)
    Window,         \* window_seconds (1)
    Latency,        \* latencies of a tick
    \* bounds of a behaviour
    MaxChanges,     \* endpoints that come up or go down
    MaxTimeouts,    \* attempts at a live endpoint that fail all the same
    MaxTicks, MaxClock, MaxSteps

Stream == ToSet(Streams)
Ticks  == Streams[1]

ASSUME ConstantsAssumption ==
    /\ Streams # <<>> /\ Ticks \in Retried /\ Retried \subseteq Stream
    /\ Retries \in Nat \ {0} /\ Window \in Nat /\ Latency \subseteq Int
    /\ MaxChanges \in Nat /\ MaxTimeouts \in Nat
    /\ MaxTicks \in Nat /\ MaxClock \in Nat /\ MaxSteps \in Nat

VARIABLES
    alive,          \* per stream, whether its publisher runs
    link,           \* per stream: "waiting", "connected", "retrying" or "absent"
    attempt,        \* attempts made at the first stream that waits
    tickTimes, tickLatencies,   \* of RateTracker
    clock,          \* now, in whole seconds
    \* history
    recorded,       \* every tick recorded
    changes, timeouts, steps    \* how much of each bound is used up

linkVars == <<link, attempt, timeouts>>
rateVars == <<tickTimes, tickLatencies, recorded>>
vars == <<alive, linkVars, rateVars, clock, changes, steps>>

Init ==
    /\ alive \in [Stream -> BOOLEAN]
    /\ link = [s \in Stream |-> "waiting"] /\ attempt = 0
    /\ tickTimes = <<>> /\ tickLatencies = <<>> /\ clock = 0
    /\ recorded = <<>> /\ changes = 0 /\ timeouts = 0 /\ steps = 0

----------------------------------------------------------------------------
(* Connections.                                                             *)

\* Every stream has been tried: the tasks and the HTTP server are started.
Started == \A s \in Stream : link[s] # "waiting"

\* Bug: a stream waits for the connection of those before it.
TryingInChain(s) ==
    /\ link[s] = "waiting"
    /\ \E i \in DOMAIN Streams : Streams[i] = s /\ \A j \in 1..(i - 1) : link[Streams[j]] = "connected"

\* The stream that main() is at.
Trying(s) ==
    /\ link[s] = "waiting"
    /\ \E i \in DOMAIN Streams : Streams[i] = s /\ \A j \in 1..(i - 1) : link[Streams[j]] # "waiting"

\* connect() and subscribe() within their timeouts.
Connects(s) == alive[s] /\ link' = [link EXCEPT ![s] = "connected"] /\ UNCHANGED timeouts

\* Either fails, or takes too long.
Fails(s) ==
    IF alive[s] THEN timeouts < MaxTimeouts /\ timeouts' = timeouts + 1 ELSE UNCHANGED timeouts

\* The last attempt of connect_subscriber.
GivesUp == attempt + 1 >= Retries

\* Bug: a background task for the orders and reports, none for the books.
OnlyTicks(s) == IF s = Ticks THEN "retrying" ELSE "absent"

\* The else branch of the stream's `if let Some(..)`, if it has one.
Abandoned(s) == IF s \in Retried THEN "retrying" ELSE "absent"

\* An attempt of connect_subscriber.
ConnectSubscriber(s) ==
    /\ Trying(s)
    /\ \/ Connects(s) /\ attempt' = 0
       \/ /\ Fails(s)
          /\ IF GivesUp
             THEN attempt' = 0 /\ link' = [link EXCEPT ![s] = Abandoned(s)]
             ELSE attempt' = attempt + 1 /\ UNCHANGED link
    /\ UNCHANGED <<alive, rateVars, clock, changes, steps>>

\* An attempt of connect_subscriber_with_retry, whose task is spawned with the
\* others.
RetryConnection(s) ==
    /\ Started /\ link[s] = "retrying"
    /\ Connects(s) \/ (Fails(s) /\ UNCHANGED link)
    /\ UNCHANGED <<alive, attempt, rateVars, clock, changes, steps>>

\* A publisher starts or stops.
EndpointChange ==
    /\ changes < MaxChanges /\ changes' = changes + 1
    /\ \E s \in Stream : alive' = [alive EXCEPT ![s] = ~@]
    /\ UNCHANGED <<linkVars, rateVars, clock, steps>>

----------------------------------------------------------------------------
(* The rate tracker.                                                        *)

Cutoff == IF clock < Window THEN 0 ELSE clock - Window

\* Bug: one tick at most is dropped for each that is recorded.
DroppedOne(times) == IF times # <<>> /\ times[1] < Cutoff THEN 1 ELSE 0

\* The number of ticks popped from the front: up to the first that is not
\* older than the window.
Dropped(times) ==
    CHOOSE n \in 0..Len(times) :
        /\ \A i \in 1..n : times[i] < Cutoff
        /\ n < Len(times) => times[n + 1] >= Cutoff

\* record_tick: the task of the ticks has received one.
RecordTick ==
    /\ Started /\ link[Ticks] = "connected" /\ alive[Ticks] /\ Len(recorded) < MaxTicks
    /\ \E latency \in Latency :
         LET times == Append(tickTimes, clock)
             n == Dropped(times)
         IN /\ tickTimes' = SubSeq(times, n + 1, Len(times))
            /\ tickLatencies' = SubSeq(Append(tickLatencies, latency), n + 1, Len(times))
            /\ recorded' = Append(recorded, [time |-> clock, latency |-> latency])
    /\ UNCHANGED <<alive, linkVars, clock, changes, steps>>

\* Time passes, or the wall clock is stepped back.
ClockChange ==
    /\ \/ clock < MaxClock /\ clock' = clock + 1 /\ UNCHANGED steps
       \/ clock > 0 /\ steps < MaxSteps /\ clock' = clock - 1 /\ steps' = steps + 1
    /\ UNCHANGED <<alive, linkVars, rateVars, changes>>

Connect(s) == ConnectSubscriber(s) \/ RetryConnection(s)

Next == (\E s \in Stream : Connect(s)) \/ EndpointChange \/ RecordTick \/ ClockChange

\* The main task and the background tasks are polled.
Spec == Init /\ [][Next]_vars /\ \A s \in Stream : WF_vars(Connect(s))

----------------------------------------------------------------------------
(* Properties.                                                              *)

\* The tracker holds the ticks last recorded, each with its own latency, and
\* none is missing but those a later tick found too old.  While the clock only
\* goes forward, these are the ticks of the last one's second and the window
\* before it, so that the rate is of up to two seconds.
RateOfWindow ==
    LET dropped == Len(recorded) - Len(tickTimes)
        old(i, j) == recorded[i].time + Window < recorded[j].time
    IN /\ Len(tickLatencies) = Len(tickTimes)
       /\ \A i \in DOMAIN tickTimes :
            recorded[dropped + i] = [time |-> tickTimes[i], latency |-> tickLatencies[i]]
       /\ \A i \in 1..dropped : \E j \in (i + 1)..Len(recorded) : old(i, j)
       /\ steps = 0 => \A i \in (dropped + 1)..Len(recorded) : ~old(i, Len(recorded))

\* Whatever publishers are down, the tasks and the server are started.
StartsAnyway == <>Started

\* A stream with a background task is followed at last, if its publisher stays.
RetriedConnects == \A s \in Retried : <>[]alive[s] => <>(link[s] = "connected")
=============================================================================
