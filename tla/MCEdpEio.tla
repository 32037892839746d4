------------------------------ MODULE MCEdpEio ------------------------------
(****************************************************************************)
(* Instances of EdpEio for TLC.                                             *)
(****************************************************************************)
EXTENDS EdpEio, TLC

\* Objects of the cache are interchangeable; descriptors are numbers.
Symmetry == Permutations(Ioes)
=============================================================================
