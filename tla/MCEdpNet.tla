------------------------------ MODULE MCEdpNet ------------------------------
(****************************************************************************)
(* Instances of EdpNet for TLC.                                             *)
(****************************************************************************)
EXTENDS EdpNet, TLC

\* Every flag of a sock becomes an event alike: one is enough.
ReportsOne == {{"OUT"}}

\* Socks, servs, descriptors, objects of the caches are interchangeable.
Symmetry == Permutations(Socks) \cup Permutations(Fds)
            \cup Permutations(Ioes) \cup Permutations(Events)
=============================================================================
