----------------------------- MODULE MCMailQueue -----------------------------
(***************************************************************************)
(* The instance of MailQueue for TLC. No symmetry, for a liveness property *)
(* is checked.                                                             *)
(***************************************************************************)
EXTENDS MailQueue, TLC
=============================================================================
