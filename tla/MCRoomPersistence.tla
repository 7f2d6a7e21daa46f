------------------------- MODULE MCRoomPersistence -------------------------
(***************************************************************************)
(* RoomPersistence on small instances.  The sessions, edits and chains of  *)
(* a safety run are interchangeable; the liveness run uses no symmetry.    *)
(***************************************************************************)
EXTENDS RoomPersistence, TLC

Symmetry ==
  Permutations(Sessions) \cup Permutations(Edits) \cup Permutations(Chains)
=============================================================================
