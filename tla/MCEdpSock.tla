------------------------------ MODULE MCEdpSock ------------------------------
(****************************************************************************)
(* Instances of EdpSock for TLC.                                            *)
(****************************************************************************)
EXTENDS EdpSock, TLC

\* Events and ios are interchangeable.
Symmetry == Permutations(Events) \cup Permutations(Ios)
=============================================================================
