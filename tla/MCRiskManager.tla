--------------------------- MODULE MCRiskManager ---------------------------
(* Values for the structured constants of RiskManager and the symmetry of   *)
(* its symbols; the numbers are in the .cfg files.                          *)
EXTENDS RiskManager, TLC

CONSTANTS DefaultPosition, DefaultSize, DefaultLoss

Interchangeable == Permutations(Symbol)

MCDefaults == [position |-> DefaultPosition, size |-> DefaultSize, loss |-> DefaultLoss]
=============================================================================
