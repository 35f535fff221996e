------------------------------- MODULE MCServer -------------------------------
(* stream::Server on a small instance: the constants are in the .cfg.      *)
EXTENDS StreamServer, TLC

\* Nothing tells one server from another, or one number from another.
Symmetry == Permutations(Servers) \cup Permutations(Numbers)
=============================================================================
