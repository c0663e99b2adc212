---------------------------- MODULE MCAttendance ----------------------------
(***************************************************************************)
(* Instances of Attendance for TLC. A day has four ticks of half a second, *)
(* in a time zone one second ahead of UTC. Instant 1 is the last half second  *)
(* of day 0: the column rounds it into day 1. Instant 4 is in day 1.       *)
(***************************************************************************)
EXTENDS Attendance, TLC

MCInstant == {0, 1, 4}

Symmetry == Permutations(Request)
=============================================================================
