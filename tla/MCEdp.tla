------------------------------- MODULE MCEdp -------------------------------
(* Edp for TLC. *)
EXTENDS Edp, TLC

Symmetry == Permutations(Emits)
=============================================================================
