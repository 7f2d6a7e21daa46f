--------------------------- MODULE MCTextSnapshots ---------------------------
(***************************************************************************)
(* TextSnapshots on small instances.                                       *)
(***************************************************************************)
EXTENDS TextSnapshots, TLC

Symmetry == Permutations(Browsers) \cup Permutations(Texts)
=============================================================================
