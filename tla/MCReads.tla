------------------------------ MODULE MCReads ------------------------------
(***************************************************************************)
(* The instance of Reads for TLC.                                          *)
(***************************************************************************)
EXTENDS Reads, TLC

Symmetry == Permutations(Employee)
=============================================================================
