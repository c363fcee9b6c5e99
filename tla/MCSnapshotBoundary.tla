------------------------- MODULE MCSnapshotBoundary -------------------------
(* Instances of SnapshotBoundary for TLC; the constants are in the .cfg files. *)
EXTENDS SnapshotBoundary, TLC

CONSTANTS s1, s2

(* Exec sessions are interchangeable. *)
Symmetry == Permutations({s1, s2})
=============================================================================
