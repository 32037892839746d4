------------------------------ MODULE MCEdpEmit ------------------------------
(****************************************************************************)
(* Instances of EdpEmit for TLC.                                            *)
(****************************************************************************)
EXTENDS EdpEmit, TLC

\* Events, emits and clients are interchangeable.
Symmetry == Permutations(Events) \cup Permutations(Emits) \cup Permutations(Clients)
=============================================================================
