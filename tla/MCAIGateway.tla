----------------------------- MODULE MCAIGateway -----------------------------
(***************************************************************************)
(* AIGateway on small instances.                                           *)
(***************************************************************************)
EXTENDS AIGateway
=============================================================================
