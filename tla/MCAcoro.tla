------------------------------ MODULE MCAcoro ------------------------------
(* Instances of Acoro for TLC. *)
EXTENDS Acoro, TLC

Symmetry == Permutations(Coros)

=============================================================================
