------------------------------ MODULE WipTree ------------------------------
(***************************************************************************)
(* One user's wip as a tree of nodes: UploadObject and DeleteObject        *)
(* (controller/object_ctl.go), Revert and CommitChanges (work_repo.go),    *)
(* one request after the other.  The edits of an upload and of a deletion  *)
(* are stored node by node, each insert a statement of its own (the work   *)
(* tree holds a connection outside of the transaction), and the wip's root *)
(* last; the server may stop between any two of them.                      *)
(***************************************************************************)
EXTENDS TreeDiff

CONSTANTS
    Paths,       \* paths clients name
    RevertPaths, \* prefixes clients revert
    NameStarts,  \* pairs of names of which the first begins with the second
    MaxRows      \* bound on the nodes of a run

ASSUME WipTreeAssumption ==
    /\ \A p \in Paths : p \in Seq(Nat \ {0}) /\ Len(p) \in 1 .. MaxDepth
    /\ \A prefix \in RevertPaths : prefix \in Seq(Nat \ {0})
    /\ MaxRows \in Nat

VARIABLES
    rows,      \* the table trees: key -> row
    cur,       \* the wip's current tree
    base,      \* the tree of the wip's base commit
    pending,   \* the request that is storing its edit
    answered   \* the request answered last

vars == <<rows, cur, base, pending, answered>>

Nothing == [op |-> "none", path |-> <<>>, root |-> Empty, adds |-> <<>>]
Idle    == pending = Nothing
Answer(op, p, a) == answered' = [op |-> op, path |-> p, answer |-> a]

Refuse(op, p, a) == Answer(op, p, a) /\ UNCHANGED <<rows, cur, base, pending>>

\* strings.HasPrefix on paths: the last name of the prefix may be cut short.
HasPrefix(p, prefix) ==
    LET k == Len(prefix)
    IN  /\ k <= Len(p)
        /\ \A i \in 1 .. k - 1 : p[i] = prefix[i]
        /\ k > 0 => <<p[k], prefix[k]>> \in NameStarts

\* An edit that succeeds is stored from now on; one that fails is answered.
Begin(op, p, edit) ==
    IF edit.answer = "ok"
    THEN /\ pending' = [op |-> op, path |-> p, root |-> edit.root, adds |-> edit.adds]
         /\ UNCHANGED <<rows, cur, base, answered>>
    ELSE Refuse(op, p, edit.answer)

\* UploadObject of content b: a new file, or, if the request says so, another
\* content for the one that is there.
Upload(p, b, isReplace) ==
    /\ Idle
    /\ IF BlobInTheWay(rows, cur, p) THEN Refuse("upload", p, "blob must be leaf")
       ELSE IF ~HasBlob(rows, cur, p) THEN Begin("upload", p, AddLeaf(rows, cur, p, b))
       ELSE IF EntryAt(rows, cur, p).hash = b THEN Refuse("upload", p, "ok")
       ELSE IF ~isReplace THEN Refuse("upload", p, "conflict")
       ELSE Begin("upload", p, ReplaceLeaf(rows, cur, p, b))

\* DeleteObject: of RemoveEntry's errors only "path not found" is answered.
Delete(p) ==
    LET edit == RemoveEntry(rows, cur, p)
    IN  /\ Idle
        /\ IF edit.answer = "blob must be leaf" THEN Refuse("delete", p, "ok")
           ELSE Begin("delete", p, edit)

\* The next node is inserted; after the last one the wip gets the root.
StoreNode ==
    /\ ~Idle /\ pending.adds # <<>>
    /\ rows' = Insert(rows, Head(pending.adds))
    /\ pending' = [pending EXCEPT !.adds = Tail(@)]
    /\ UNCHANGED <<cur, base, answered>>

StoreRoot ==
    /\ ~Idle /\ pending.adds = <<>>
    /\ cur' = pending.root
    /\ Answer(pending.op, pending.path, "ok")
    /\ pending' = Nothing
    /\ UNCHANGED <<rows, base>>

\* The server stops: what was inserted stays, the client gets no answer.
Stop ==
    /\ ~Idle
    /\ pending' = Nothing
    /\ UNCHANGED <<rows, cur, base, answered>>

\* Revert of a prefix: every change from the base to the wip is undone, one by
\* one in the order of their paths, in one transaction.
Undo(t, root, c) ==
    LET b == EntryAt(t, base, c.path).hash
    IN  IF Action(c) = "Insert" THEN RemoveEntry(t, root, c.path)
        ELSE IF ~HasBlob(t, base, c.path) THEN Fails("path not found")
        ELSE IF Action(c) = "Modify" THEN ReplaceLeaf(t, root, c.path, b)
        ELSE AddLeaf(t, root, c.path, b)

RevertOf(cs) ==
    LET undone[i \in 0 .. Len(cs)] ==
            IF i = 0 THEN [answer |-> "ok", root |-> cur, rows |-> rows]
            ELSE LET u == undone[i - 1]
                     e == Undo(u.rows, u.root, cs[i])
                 IN  IF u.answer # "ok" THEN u
                     ELSE [answer |-> e.answer, root |-> e.root, rows |-> InsertAll(u.rows, e.adds)]
    IN  undone[Len(cs)]

RevertChanges(prefix, cs) ==
    LET end == RevertOf(cs)
    IN  /\ Idle
        /\ IF cs = <<>> THEN Refuse("revert", prefix, "not found")
           ELSE IF end.answer # "ok" THEN Refuse("revert", prefix, end.answer)
           ELSE /\ rows' = end.rows
                /\ cur' = end.root
                /\ Answer("revert", prefix, "ok")
                /\ UNCHANGED <<base, pending>>

\* Mutant: only the changes of the path itself are undone.
RevertExactly(prefix) ==
    RevertChanges(prefix, SelectSeq(Changes(rows, base, cur), LAMBDA c : c.path = prefix))

\* The changes of paths that start with the prefix.
Under(prefix, cs) ==
    LET kept[i \in 0 .. Len(cs)] ==
            IF i = 0 THEN <<>>
            ELSE IF HasPrefix(cs[i].path, prefix) THEN Append(kept[i - 1], cs[i])
            ELSE kept[i - 1]
    IN  kept[Len(cs)]
Changed(prefix) == InOrder(Under(prefix, DiffTree(rows, base, cur)))
Revert(prefix) == RevertChanges(prefix, Changed(prefix))

RevertAll ==
    /\ Idle
    /\ cur' = base
    /\ Answer("revert", <<>>, "ok")
    /\ UNCHANGED <<rows, base, pending>>

Commit ==
    /\ Idle
    /\ base' = cur
    /\ Answer("commit", <<>>, "ok")
    /\ UNCHANGED <<rows, cur, pending>>

Init ==
    /\ rows = <<>> /\ cur = Empty /\ base = Empty
    /\ pending = Nothing
    /\ answered = [op |-> "commit", path |-> <<>>, answer |-> "ok"]

Next ==
    \/ \E p \in Paths, b \in Blobs, isReplace \in BOOLEAN : Upload(p, b, isReplace)
    \/ \E p \in Paths : Delete(p)
    \/ StoreNode \/ StoreRoot \/ Stop
    \/ \E prefix \in RevertPaths : Revert(prefix)
    \/ RevertAll \/ Commit

Bounded == Cardinality(DOMAIN rows') <= MaxRows
Spec == Init /\ [][Next /\ Bounded]_vars

----------------------------------------------------------------------------
\* Wherever the server stops, every stored node is the one its key names and has
\* its children stored: no directory is ever there without what it lists.
NodesSound == \A h \in DOMAIN rows : SoundRow(rows, h)

\* The wip and its base can be opened, and the hash of a tree says what its files
\* are, whatever edits led to it: the same files never have two hashes.
SameFilesSameHash ==
    \A h \in {cur, base} : Opens(rows, h) /\ h = TreeHash(Files(rows, h))

\* A wip is a plain set of files.
Flat == INSTANCE FlatTree WITH
    files    <- Files(rows, cur),
    base     <- Files(rows, base),
    answered <- answered,
    Starts   <- HasPrefix
ActsOnFiles == Flat!Spec
=============================================================================
