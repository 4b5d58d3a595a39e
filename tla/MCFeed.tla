------------------------------- MODULE MCFeed -------------------------------
(* Prices of Feed in fixed-point units, not quite the float's.              *)
EXTENDS Feed

CONSTANT Scale

MCFixed == [p \in Price |-> Scale * p - 1]
=============================================================================
