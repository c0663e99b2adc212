----------------------- MODULE MCAttendanceRefinement -----------------------
(* Instances of AttendanceRefinement for TLC: see MCAttendance. *)
EXTENDS AttendanceRefinement, TLC

MCInstant == {1, 4}

Symmetry == Permutations(Request)
=============================================================================
