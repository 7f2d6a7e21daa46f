---------------------------- MODULE MCRoomServer ----------------------------
(***************************************************************************)
(* RoomServer on small instances.                                          *)
(***************************************************************************)
EXTENDS RoomServer, TLC

Symmetry ==
  Permutations(Sessions) \cup Permutations(Sockets) \cup
  Permutations(Edits) \cup Permutations(Chains)
=============================================================================
