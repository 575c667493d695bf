------------------------------ MODULE InstanceMC ------------------------------
(* Small instances of Instance for TLC: nothing goes wrong, or everything. *)
EXTENDS Instance

Behaviours == {{}, {"late", "panic", "race"}}
=============================================================================
