----------------------------- MODULE MCRoomRelay -----------------------------
(***************************************************************************)
(* RoomRelay on a small instance: two nodes, and two sessions of the room  *)
(* on the first of them, which may change places.                          *)
(***************************************************************************)
EXTENDS RoomRelay, TLC

CONSTANTS n1, n2, s1, s2, s3

MCNodes == {n1, n2}
MCSessions == {s1, s2, s3}
MCHome == (s1 :> n1) @@ (s2 :> n1) @@ (s3 :> n2)
MCSymmetry == Permutations({s1, s2})
=============================================================================
