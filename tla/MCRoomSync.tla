----------------------------- MODULE MCRoomSync -----------------------------
(***************************************************************************)
(* RoomSync on small instances.                                            *)
(***************************************************************************)
EXTENDS RoomSync, TLC

Symmetry == Permutations(Browsers) \cup Permutations(Sessions) \cup Permutations(Edits)
=============================================================================
