----------------------------- MODULE MCCrtSem -----------------------------
(* Instances of CrtSem for TLC. *)
EXTENDS CrtSem, TLC

Symmetry == Permutations(Coros) \cup Permutations(Sems)

=============================================================================
