---------------------------- MODULE MCSlowCalls ----------------------------
(* Instances of SlowCalls for TLC. *)
EXTENDS SlowCalls, TLC

Symmetry == Permutations(Tasks) \cup Permutations(Workers)

=============================================================================
