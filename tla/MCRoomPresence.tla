--------------------------- MODULE MCRoomPresence ---------------------------
(***************************************************************************)
(* RoomPresence on small instances.                                        *)
(***************************************************************************)
EXTENDS RoomPresence, TLC

Symmetry == Permutations(Clients) \cup Permutations(Nodes)
=============================================================================
