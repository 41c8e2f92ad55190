----------------------------- MODULE MCPresence -----------------------------
(***************************************************************************)
(* Instances of Presence for TLC: the constants are model values that the  *)
(* configurations give. No symmetry, because the main run checks liveness. *)
(***************************************************************************)
EXTENDS Presence
=============================================================================
