\* Every three-way merge of small trees, criss-cross merges included.
SPECIFICATION Spec
CONSTANTS
    b1 = b1
    b2 = b2
    Blobs = {b1, b2}
    MaxDepth = 2
    Triples <- MCTriples
    Crosses <- MCCrosses
INVARIANTS TypeOK DiffIsPlain MergeKeepsBothSides FailsForAReason
\* A merge ends.
CHECK_DEADLOCK FALSE
