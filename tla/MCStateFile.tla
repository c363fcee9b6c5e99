---------------------------- MODULE MCStateFile ----------------------------
(* Instances of StateFile for TLC; the constants are in the .cfg files. *)
EXTENDS StateFile, TLC

CONSTANTS c1, c2, i1, i2, i3, i4, i5

(* Clients are interchangeable and so are inodes; the monitor and the owner
   are not. *)
Symmetry == Permutations({c1, c2}) \union Permutations({i1, i2, i3, i4, i5})
=============================================================================
