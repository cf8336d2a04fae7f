\* Edits of one wip with files, a directory, and file and directory in turn.
SPECIFICATION Spec
CONSTANTS
    b1 = b1
    b2 = b2
    Blobs = {b1, b2}
    MaxDepth = 2
    Paths <- MCPaths
    RevertPaths <- MCRevertPaths
    NameStarts <- MCNameStarts
    MaxRows = 6
INVARIANTS NodesSound SameFilesSameHash
PROPERTY ActsOnFiles
SYMMETRY BlobSymmetry
VIEW Unanswered
