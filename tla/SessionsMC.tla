----------------------------- MODULE SessionsMC -----------------------------
(* Small instances of Sessions for TLC.                                    *)
EXTENDS Sessions, TLC

Symmetry == Permutations(Users) \cup Permutations(Ids) \cup Permutations(Conns)
=============================================================================
