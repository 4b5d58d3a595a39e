------------------------------- MODULE MCOMS -------------------------------
(* OMS with interchangeable orders; values are in the .cfg files.           *)
EXTENDS OMS, TLC

Interchangeable == Permutations(Order)
=============================================================================
