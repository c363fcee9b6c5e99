----------------------------- MODULE MCReclaim -----------------------------
(* Instances of Reclaim for TLC; the constants are in the .cfg files. *)
EXTENDS Reclaim, TLC

CONSTANTS v1, v2, b1, b2
=============================================================================
