---------------------------- MODULE OrderLedger ----------------------------
(***************************************************************************)
(* What the order management service promises of an order, whatever its    *)
(* tasks, its caches and its failures: the order has a row before it       *)
(* leaves; it leaves once, once more for each time it was forgotten that   *)
(* it had, and again while it is in doubt whether it did; and its row      *)
(* takes the statuses the market gave it, in any order and any number of   *)
(* times, and no other.                                                    *)
(***************************************************************************)
EXTENDS Integers

CONSTANTS Order, Outcome

VARIABLES
    row,            \* status of each order's row, or "none"
    sent,           \* times it left
    doubtful,       \* those of them that are not known of
    said,           \* the statuses the market has given it
    allowed         \* times it may have left and be known to have

vars == <<row, sent, doubtful, said, allowed>>

Init ==
    /\ row = [o \in Order |-> "none"] /\ said = [o \in Order |-> {}]
    /\ sent = [o \in Order |-> 0] /\ doubtful = [o \in Order |-> 0]
    /\ allowed = [o \in Order |-> 1]

Store(o) ==
    /\ row[o] = "none" /\ row' = [row EXCEPT ![o] = "NEW"]
    /\ UNCHANGED <<sent, doubtful, said, allowed>>

\* An order that is in doubt may leave again, one that is known to have left not.
Send(o) ==
    /\ row[o] # "none" /\ sent[o] < allowed[o] + doubtful[o]
    /\ sent' = [sent EXCEPT ![o] = @ + 1]
    /\ doubtful' \in {doubtful, [doubtful EXCEPT ![o] = @ + 1]}
    /\ UNCHANGED <<row, said, allowed>>

Say(o) ==
    /\ sent[o] > 0
    /\ \E s \in Outcome : said' = [said EXCEPT ![o] = @ \cup {s}]
    /\ UNCHANGED <<row, sent, doubtful, allowed>>

\* A report, be it early, late or repeated.
Learn(o) ==
    /\ row[o] # "none"
    /\ \E s \in said[o] : row' = [row EXCEPT ![o] = s]
    /\ UNCHANGED <<sent, doubtful, said, allowed>>

Forget(o) ==
    /\ allowed' = [allowed EXCEPT ![o] = @ + 1]
    /\ UNCHANGED <<row, sent, doubtful, said>>

Next == \E o \in Order : Store(o) \/ Send(o) \/ Say(o) \/ Learn(o) \/ Forget(o)

Spec == Init /\ [][Next]_vars
=============================================================================
