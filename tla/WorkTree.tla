------------------------------ MODULE WorkTree ------------------------------
(***************************************************************************)
(* The file tree of a commit or a wip: versionmgr/worktree.go and          *)
(* tree_node.go over the rows of models/tree.go, as operators on the table *)
(* of tree nodes and a root.                                               *)
(*                                                                         *)
(* Nodes are never changed: an edit of a path writes new nodes from the    *)
(* leaf up to a new root.  A node's key is the hash of its children's      *)
(* names and hashes (not of their kinds), so the hash of a directory is    *)
(* modelled as the function from names to the children's hashes, and that  *)
(* of a file as its content.  The insert ignores a row whose key is there. *)
(* Names are numbers, to have an order.                                    *)
(***************************************************************************)
EXTENDS Naturals, Sequences, FiniteSets, SequencesExt

CONSTANTS
    Blobs,    \* file contents
    MaxDepth  \* length of the longest path

ASSUME WorkTreeAssumption == MaxDepth \in Nat \ {0}

Empty    == <<>>                                \* hash.Empty, and no children
NoEntry  == [isDir |-> FALSE, hash |-> Empty]   \* EmptyDirEntry; also: nothing there
File(b)  == [isDir |-> FALSE, hash |-> b]
Dir(h)   == [isDir |-> TRUE, hash |-> h]

TreeRow(kids) == [type |-> "tree", kids |-> kids]

BlobRow == [type |-> "blob", kids |-> Empty]

\* calculateHash of a node with these children.
HashOf(kids) == [n \in DOMAIN kids |-> kids[n].hash]

\* The children of the node NewTreeNode opens; the empty tree has no row.
Opens(rows, h) == h = Empty \/ h \in DOMAIN rows
Kids(rows, h)  == IF h = Empty THEN Empty ELSE rows[h].kids

\* findNodeByPath: the entries from the root (0) along the path, NoEntry from
\* where it is missing.
Along(rows, root, p) ==
    LET at[i \in 0 .. Len(p)] ==
            IF i = 0 THEN Dir(root)
            ELSE LET kids == IF at[i - 1].isDir THEN Kids(rows, at[i - 1].hash) ELSE Empty
                 IN  IF p[i] \in DOMAIN kids THEN kids[p[i]] ELSE NoEntry
    IN  at
EntryAt(rows, root, p) == Along(rows, root, p)[Len(p)]

\* A file stands where the path needs a directory: ErrBlobMustBeLeaf.
BlobInTheWay(rows, root, p) ==
    \E i \in 1 .. Len(p) - 1 :
        LET e == Along(rows, root, p)[i] IN e # NoEntry /\ ~e.isDir

\* The entry of a directory with these children; without any it is dropped.
EntryOf(kids) == IF kids = Empty THEN NoEntry ELSE Dir(HashOf(kids))
WithKid(kids, n, e) == [m \in DOMAIN kids \cup {n} |-> IF m = n THEN e ELSE kids[m]]
Without(kids, n)    == [m \in DOMAIN kids \ {n} |-> kids[m]]

\* Mutant: a directory left empty stays.
RebuiltKeepEmpty(rows, root, p, e) ==
    LET at == Along(rows, root, p)
        new[i \in 0 .. Len(p) - 1] ==
            LET kids  == Kids(rows, at[i].hash)
                below == IF i = Len(p) - 1 THEN e ELSE Dir(HashOf(new[i + 1]))
            IN  IF below = NoEntry THEN Without(kids, p[i + 1]) ELSE WithKid(kids, p[i + 1], below)
    IN  new

\* The children of the nodes on the path (0 is the root) once the entry e, or
\* nothing, is at its end: AppendDirectEntry and ReplaceSubTreeEntry on the way
\* up, DeleteDirectEntry for as long as a directory is left empty.
Rebuilt(rows, root, p, e) ==
    LET at == Along(rows, root, p)
        new[i \in 0 .. Len(p) - 1] ==
            LET kids  == Kids(rows, at[i].hash)
                below == IF i = Len(p) - 1 THEN e ELSE EntryOf(new[i + 1])
            IN  IF below = NoEntry THEN Without(kids, p[i + 1]) ELSE WithKid(kids, p[i + 1], below)
    IN  new

\* Mutant: the root first, what it lists after it.
EditedTopDown(rows, root, p, e) ==
    LET new  == Rebuilt(rows, root, p, e)
        blob == IF e = NoEntry THEN <<>> ELSE <<[hash |-> e.hash, row |-> BlobRow]>>
        dirs == [j \in 1 .. Len(p) |-> [hash |-> HashOf(new[j - 1]), row |-> TreeRow(new[j - 1])]]
    IN  [root |-> HashOf(new[0]),
         adds |-> SelectSeq(dirs, LAMBDA d : d.hash # Empty) \o blob]

\* An edit: the new root and the rows it inserts, in their order: a new file's
\* first, then the directories, the deepest first, of which only the first so many
\* from the root have children left.
Edited(rows, root, p, e) ==
    LET new  == Rebuilt(rows, root, p, e)
        left == CHOOSE k \in 0 .. Len(p) : \A i \in 0 .. Len(p) - 1 : new[i] # Empty <=> i < k
        blob == IF e = NoEntry THEN <<>> ELSE <<[hash |-> e.hash, row |-> BlobRow]>>
        dirs == [j \in 1 .. left |-> [hash |-> HashOf(new[left - j]), row |-> TreeRow(new[left - j])]]
    IN  [root |-> HashOf(new[0]), adds |-> blob \o dirs]

\* Insert of a row; one with the same key stays as it is.
Insert(rows, add) ==
    [h \in DOMAIN rows \cup {add.hash} |-> IF h \in DOMAIN rows THEN rows[h] ELSE add.row]
InsertAll(rows, adds) ==
    LET after[i \in 0 .. Len(adds)] == IF i = 0 THEN rows ELSE Insert(after[i - 1], adds[i])
    IN  after[Len(adds)]

\* What the three edits of a path answer: done, with the edit, or an error.
Fails(why) == [answer |-> why, root |-> Empty, adds |-> <<>>]
Does(edit) == [answer |-> "ok", root |-> edit.root, adds |-> edit.adds]

AddLeaf(rows, root, p, b) ==
    IF BlobInTheWay(rows, root, p) THEN Fails("blob must be leaf")
    ELSE IF EntryAt(rows, root, p) # NoEntry THEN Fails("entry exit")
    ELSE Does(Edited(rows, root, p, File(b)))

ReplaceLeaf(rows, root, p, b) ==
    IF BlobInTheWay(rows, root, p) THEN Fails("blob must be leaf")
    ELSE IF EntryAt(rows, root, p) = NoEntry THEN Fails("path not found")
    ELSE Does(Edited(rows, root, p, File(b)))

RemoveEntry(rows, root, p) ==
    IF BlobInTheWay(rows, root, p) THEN Fails("blob must be leaf")
    ELSE IF EntryAt(rows, root, p) = NoEntry THEN Fails("path not found")
    ELSE Does(Edited(rows, root, p, NoEntry))

\* FindBlob answers a file; a directory is not found.
HasBlob(rows, root, p) ==
    LET h == EntryAt(rows, root, p).hash
    IN  ~BlobInTheWay(rows, root, p) /\ h # Empty /\ rows[h].type = "blob"

----------------------------------------------------------------------------
\* The paths of a tree's entries, directories included.
PathsIn(rows, root) ==
    LET level[k \in 0 .. MaxDepth] ==
            IF k = 0 THEN {<<>>}
            ELSE UNION {{Append(p, n) : n \in DOMAIN Kids(rows, EntryAt(rows, root, p).hash)} :
                        p \in {q \in level[k - 1] : EntryAt(rows, root, q).isDir}}
    IN  UNION {level[k] : k \in 1 .. MaxDepth}

\* FileWalk: a tree as a map from the paths of its files to their contents.
Files(rows, root) ==
    [p \in {q \in PathsIn(rows, root) : ~EntryAt(rows, root, q).isDir} |->
        EntryAt(rows, root, p).hash]

\* The hash of the tree of these files, whatever edits led to it.
TreeHash(files) ==
    LET dirs == {<<>>} \cup UNION {{SubSeq(p, 1, i) : i \in 0 .. Len(p) - 1} : p \in DOMAIN files}
        hash[d \in dirs] ==
            [n \in {p[Len(d) + 1] : p \in {q \in DOMAIN files : IsStrictPrefix(d, q)}} |->
                IF Append(d, n) \in DOMAIN files THEN files[Append(d, n)] ELSE hash[Append(d, n)]]
    IN  hash[<<>>]

\* Every row is the node its key is the hash of, kinds of the children
\* included, and the rows of its children are there.
SoundRow(rows, h) ==
    \/ h \in Blobs /\ rows[h] = BlobRow
    \/ /\ rows[h].type = "tree" /\ rows[h].kids # Empty
       /\ h = HashOf(rows[h].kids)
       /\ \A n \in DOMAIN rows[h].kids :
             LET e == rows[h].kids[n]
             IN  e.hash \in DOMAIN rows /\ e.isDir = (rows[e.hash].type = "tree")
=============================================================================
