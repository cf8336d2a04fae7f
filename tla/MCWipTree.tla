----------------------------- MODULE MCWipTree -----------------------------
(***************************************************************************)
(* Instances of WipTree.  Name 2 begins with name 1 (say "lib" and "lib2").*)
(***************************************************************************)
EXTENDS WipTree, TLC

CONSTANTS b1, b2

BlobSymmetry == Permutations({b1, b2})

\* No guard reads the last answer, and neither does a step of FlatTree: states
\* that differ in it alone have the same steps, and every step is still checked.
Unanswered == <<rows, cur, base, pending>>

MCPaths       == {<<2>>, <<1>>, <<1, 1>>, <<1, 2>>}
MCRevertPaths == {<<1>>, <<2>>, <<1, 1>>}
MCNameStarts  == {<<1, 1>>, <<2, 2>>, <<2, 1>>}
=============================================================================
