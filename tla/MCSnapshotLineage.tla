------------------------- MODULE MCSnapshotLineage -------------------------
(* Instances of SnapshotLineage for TLC; the constants are in the .cfg files. *)
EXTENDS SnapshotLineage, TLC

CONSTANTS c1, c2, pg1, pg2

(* `snapshot create` processes are interchangeable, and so are pages; names are
   ordered and VMs own their job. *)
Symmetry == Permutations({c1, c2}) \union Permutations({pg1, pg2})
=============================================================================
