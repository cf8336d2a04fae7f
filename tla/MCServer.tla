------------------------------ MODULE MCServer ------------------------------
(* Small instances of Server for TLC. *)
EXTENDS Server, TLC

CONSTANTS u1, v1, h1, k1, k2

MCOneUser == {u1}
RefSymmetry == Permutations({k1, k2})

\* Everything but Revert, whose path form stores nodes late.
NoRevertOps == AllOps \ {"RevertWip"}
=============================================================================
