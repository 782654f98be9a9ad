-------------------------- MODULE MCAttendanceDay ---------------------------
(* AttendanceDay on small instances. *)
EXTENDS AttendanceDay, TLC

Symmetry == Permutations(Workers)
=============================================================================
