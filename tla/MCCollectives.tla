--------------------------- MODULE MCCollectives ----------------------------
(***************************************************************************)
(* Three endpoints with one-lane buffers of three values, so that two      *)
(* buffers can wrap and three can wrap twice; every tuple of up to three   *)
(* members, well formed or not, and every set of buffers present.          *)
(***************************************************************************)
EXTENDS Collectives
=============================================================================
