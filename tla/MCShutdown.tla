----------------------------- MODULE MCShutdown -----------------------------
(***************************************************************************)
(* Shutdown on small instances.                                            *)
(***************************************************************************)
EXTENDS Shutdown, TLC

Symmetry == Permutations(Sessions) \cup Permutations(Sockets) \cup Permutations(Chains)
=============================================================================
