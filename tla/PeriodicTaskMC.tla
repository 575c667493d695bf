--------------------------- MODULE PeriodicTaskMC ---------------------------
(* A small instance of PeriodicTask for TLC. *)
EXTENDS PeriodicTask

MCIntervals == {1, 2}
=============================================================================
