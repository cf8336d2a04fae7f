\* Expected to be violated: files renamed within a directory are reported as a
\* modification of the directory.
SPECIFICATION Spec
CONSTANTS
    b1 = b1
    b2 = b2
    Blobs = {b1, b2}
    MaxDepth = 2
    Triples <- MCTriples
    Crosses <- MCCrosses
INVARIANT ChangesNameFiles
CHECK_DEADLOCK FALSE
