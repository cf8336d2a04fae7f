---------------------------- MODULE MCTreeMerge ----------------------------
(***************************************************************************)
(* Instances of TreeMerge: every three trees of files at four paths, one of*)
(* them the directory of two others, and criss-cross merges of two files.  *)
(***************************************************************************)
EXTENDS TreeMerge

CONSTANTS b1, b2

TreesOver(P) ==
    {TreeHash(f) : f \in {g \in UNION {[D -> Blobs] : D \in SUBSET P} :
                             \A p, q \in DOMAIN g : ~IsStrictPrefix(p, q)}}

MCTriples ==
    LET T == TreesOver({<<1>>, <<2>>, <<1, 1>>, <<1, 2>>})
    IN  [base : T, source : T, target : T]

MCCrosses ==
    LET T == TreesOver({<<1, 1>>, <<2>>})
    IN  [base : T, one : T, two : T, source : T, target : T]
=============================================================================
