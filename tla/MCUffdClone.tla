---------------------------- MODULE MCUffdClone ----------------------------
(* An instance of UffdClone for TLC; the constants are in UffdClone.cfg. *)
EXTENDS UffdClone
=============================================================================
