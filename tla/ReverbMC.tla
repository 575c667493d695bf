------------------------------- MODULE ReverbMC -------------------------------
(* A small instance of Reverb for TLC. *)
EXTENDS Reverb
=============================================================================
