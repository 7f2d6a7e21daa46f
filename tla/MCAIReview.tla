----------------------------- MODULE MCAIReview -----------------------------
(***************************************************************************)
(* AIReview on small instances.  There is no symmetry: the run checks      *)
(* liveness, too.                                                          *)
(***************************************************************************)
EXTENDS AIReview
=============================================================================
