---------------------------- MODULE MCLocalBlobs ----------------------------
(* Small instances of LocalBlobs for TLC. *)
EXTENDS LocalBlobs, TLC

CONSTANTS c1, c2, r1, r2, i1, i2, i3

Symmetry == Permutations(Contents) \cup Permutations(Requests) \cup Permutations(Inodes)
=============================================================================
