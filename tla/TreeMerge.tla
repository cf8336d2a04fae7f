----------------------------- MODULE TreeMerge -----------------------------
(***************************************************************************)
(* The three-way merge of file trees: merge and findBestAncestor           *)
(* (versionmgr/work_repo.go) with the iterators of versionmgr/changes.go   *)
(* and the resolvers of versionmgr/conflict.go.                            *)
(*                                                                         *)
(* The changes from the base to the source (left) and to the target        *)
(* (right), each in the order of their paths, are walked side by side and  *)
(* applied to the base one at a time.  Where two commits have two best     *)
(* common ancestors, these are merged first, without resolving conflicts,  *)
(* and the result is the base.                                             *)
(***************************************************************************)
EXTENDS TreeDiff

CONSTANTS
    Triples,  \* the trees [base, source, target] to merge
    Crosses   \* the trees [base, one, two, source, target] of criss-cross merges

\* The hashes found so many levels below the roots of trees.
LevelsOf(roots) ==
    LET below[k \in 0 .. MaxDepth] ==
            IF k = 0 THEN roots \ {Empty}
            ELSE UNION {{h[n] : n \in DOMAIN h} : h \in below[k - 1] \ Blobs}
    IN  below

\* The hashes of trees: no deeper than paths are long, with no empty directory
\* below the root.
AreTrees(roots) ==
    /\ roots \cap Blobs = {}
    /\ \A k \in 0 .. MaxDepth : \A h \in LevelsOf(roots)[k] \ Blobs :
          /\ k < MaxDepth
          /\ h = [n \in DOMAIN h |-> h[n]] /\ h # Empty
          /\ DOMAIN h \subseteq Nat \ {0} /\ IsFiniteSet(DOMAIN h)

ASSUME TreeMergeAssumption ==
    /\ \A x \in Triples : AreTrees({x.base, x.source, x.target})
    /\ \A x \in Crosses : AreTrees({x.base, x.one, x.two, x.source, x.target})

VARIABLES
    rows,     \* the table trees
    merging,  \* [base, source, target]: what is merged now
    after,    \* source and target of the merge a virtual commit is made for
    phase,    \* "start", "apply", "done", or why the merge failed
    left,     \* the changes still to come from the source ...
    right,    \* ... and from the target
    cur       \* the root of the tree they are applied to

vars == <<rows, merging, after, phase, left, right, cur>>

Phases == {"start", "apply", "done", "conflict", "action not match", "path not found",
           "entry exit", "blob must be leaf"}

Stay == UNCHANGED <<merging, after>>
Rest(s, takes) == IF takes THEN Tail(s) ELSE s

----------------------------------------------------------------------------
Start ==
    /\ phase = "start" /\ phase' = "apply"
    /\ left'  = Changes(rows, merging.base, merging.source)
    /\ right' = Changes(rows, merging.base, merging.target)
    /\ cur' = merging.base
    /\ UNCHANGED rows /\ Stay

\* ApplyOneChange.
Edit(c) ==
    CASE Action(c) = "Insert" -> AddLeaf(rows, cur, c.path, c.to.hash)
      [] Action(c) = "Delete" -> RemoveEntry(rows, cur, c.path)
      [] OTHER                -> ReplaceLeaf(rows, cur, c.path, c.to.hash)

\* Mutant: the new nodes are not stored.
ApplyUnstored(c, takesLeft, takesRight) ==
    LET e == Edit(c)
    IN  /\ IF e.answer = "ok" THEN cur' = e.root /\ UNCHANGED <<rows, phase>>
           ELSE phase' = e.answer /\ UNCHANGED <<cur, rows>>
        /\ left' = Rest(left, takesLeft)
        /\ right' = Rest(right, takesRight)
        /\ Stay

\* The change c is applied; the next one is looked at, on one side or on both.
Apply(c, takesLeft, takesRight) ==
    LET e == Edit(c)
    IN  /\ IF e.answer = "ok"
           THEN cur' = e.root /\ rows' = InsertAll(rows, e.adds) /\ UNCHANGED phase
           ELSE phase' = e.answer /\ UNCHANGED <<cur, rows>>
        /\ left' = Rest(left, takesLeft)
        /\ right' = Rest(right, takesRight)
        /\ Stay

Fail(why) == phase' = why /\ UNCHANGED <<rows, left, right, cur>> /\ Stay

\* The next change of s comes before that of t.
Leads(s, t) == s # <<>> /\ (t # <<>> => Before(Head(s).path, Head(t).path))
SamePath    == left # <<>> /\ right # <<>> /\ Head(left).path = Head(right).path

\* isConflict: an insertion meets anything but an insertion ("must be a bug"), or
\* two changes do differently.  Mutant: two changes of a path always conflict.
Mismatch(l, r) == (Action(l) = "Insert") # (Action(r) = "Insert")
ConflictWhenever(l, r) == l.path = r.path
Conflict(l, r) == Action(l) # Action(r) \/ l.to.hash # r.to.hash

\* Mutant: the change of the side that is ahead is dropped.
TakeLeftSkipping  ==
    phase = "apply" /\ Leads(left, right) /\ Apply(Head(left), TRUE, right # <<>>)
TakeLeft  == phase = "apply" /\ Leads(left, right) /\ Apply(Head(left), TRUE, FALSE)
TakeRight == phase = "apply" /\ Leads(right, left) /\ Apply(Head(right), FALSE, TRUE)

\* Both sides did the same.
TakeBoth ==
    /\ phase = "apply" /\ SamePath
    /\ ~Mismatch(Head(left), Head(right)) /\ ~Conflict(Head(left), Head(right))
    /\ Apply(Head(left), TRUE, TRUE)

\* ResolveFromSelector: the client's choice, for either side; ForbidResolver while
\* a virtual commit is made.
Resolve ==
    /\ phase = "apply" /\ SamePath
    /\ ~Mismatch(Head(left), Head(right)) /\ Conflict(Head(left), Head(right))
    /\ IF after = <<>>
       THEN Apply(Head(left), TRUE, TRUE) \/ Apply(Head(right), TRUE, TRUE)
       ELSE Fail("conflict")

Refuse ==
    /\ phase = "apply" /\ SamePath /\ Mismatch(Head(left), Head(right))
    /\ Fail("action not match")

Finish ==
    /\ phase = "apply" /\ left = <<>> /\ right = <<>>
    /\ phase' = "done"
    /\ UNCHANGED <<rows, left, right, cur>> /\ Stay

\* The merged ancestors are a virtual commit: the base of the merge proper.
VirtualCommit ==
    /\ phase = "done" /\ after # <<>>
    /\ phase' = "start"
    /\ merging' = [base |-> cur, source |-> after[1], target |-> after[2]]
    /\ after' = <<>>
    /\ UNCHANGED <<rows, left, right, cur>>

\* The rows of trees, each the node its hash stands for.
NodeOf(h) == [n \in DOMAIN h |-> IF h[n] \in Blobs THEN File(h[n]) ELSE Dir(h[n])]
RowsOf(roots) ==
    LET below == LevelsOf(roots)
    IN  [h \in UNION {below[k] : k \in 0 .. MaxDepth} |->
            IF h \in Blobs THEN BlobRow ELSE TreeRow(NodeOf(h))]

Init ==
    /\ \/ merging \in Triples /\ after = <<>>
       \/ \E x \in Crosses :
             /\ merging = [base |-> x.base, source |-> x.one, target |-> x.two]
             /\ after = <<x.source, x.target>>
    /\ rows = RowsOf({merging.base, merging.source, merging.target}
                         \cup {after[i] : i \in DOMAIN after})
    /\ phase = "start"
    /\ left = <<>> /\ right = <<>> /\ cur = Empty

Next == Start \/ TakeLeft \/ TakeRight \/ TakeBoth \/ Resolve \/ Refuse \/ Finish \/ VirtualCommit

Spec == Init /\ [][Next]_vars

----------------------------------------------------------------------------
TypeOK ==
    /\ phase \in Phases
    /\ Opens(rows, cur)
    /\ \A h \in {merging.base, merging.source, merging.target} : Opens(rows, h)

\* A directory in which files were only renamed on the way from the base.
Renamed == OnlyRenamed(rows, merging.base, merging.source) # {}
           \/ OnlyRenamed(rows, merging.base, merging.target) # {}

BaseFiles   == Files(rows, merging.base)
SourceFiles == Files(rows, merging.source)
TargetFiles == Files(rows, merging.target)
At(f, p)    == IF p \in DOMAIN f THEN f[p] ELSE Empty
AllPaths    == DOMAIN BaseFiles \cup DOMAIN SourceFiles \cup DOMAIN TargetFiles

\* The tree comparison finds the insertions, deletions and modifications of
\* files, each once, in the order of their paths, unless files were only renamed
\* within a directory.
DiffIsPlain ==
    phase = "start" =>
        \A to \in {merging.source, merging.target} :
            OnlyRenamed(rows, merging.base, to) = {} =>
                LET cs == Changes(rows, merging.base, to)
                IN  /\ {cs[i] : i \in DOMAIN cs} = PlainChanges(BaseFiles, Files(rows, to))
                    /\ Len(cs) = Cardinality({cs[i].path : i \in DOMAIN cs})

\* A merged tree has every file as the side that changed it has it, and where
\* both did differently as one of them has it (none of them, for a virtual
\* commit); it is the tree of its files as any other.
MergeKeepsBothSides ==
    phase = "done" /\ ~Renamed =>
        LET merged == Files(rows, cur)
            Allowed(p) ==
                LET b == At(BaseFiles, p)
                    s == At(SourceFiles, p)
                    t == At(TargetFiles, p)
                IN  IF s = b \/ s = t THEN {t}
                    ELSE IF t = b THEN {s}
                    ELSE IF after = <<>> THEN {s, t} ELSE {}
        IN  /\ DOMAIN merged \subseteq AllPaths
            /\ \A p \in AllPaths : At(merged, p) \in Allowed(p)
            /\ cur = TreeHash(merged)

\* Merging fails only over a conflict that may not be resolved, or where a path
\* is a file in one of the trees and a directory in another (or files were only
\* renamed within a directory).
FailsForAReason ==
    /\ phase = "conflict" =>
           \E p \in AllPaths : Cardinality({At(f, p) : f \in {BaseFiles, SourceFiles, TargetFiles}}) = 3
    /\ phase \in Phases \ {"start", "apply", "done", "conflict"} /\ ~Renamed =>
           \E p, q \in AllPaths : IsStrictPrefix(p, q)

\* A change is the insertion, deletion or modification of a file.
ChangesNameFiles ==
    \A s \in {left, right} : \A i \in DOMAIN s : ~s[i].from.isDir /\ ~s[i].to.isDir
=============================================================================
