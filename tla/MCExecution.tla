---------------------------- MODULE MCExecution ----------------------------
(* Execution with interchangeable orders; values are in the .cfg files.     *)
EXTENDS Execution, TLC

Interchangeable == Permutations(Order)
=============================================================================
