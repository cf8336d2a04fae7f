------------------------------ MODULE WorkRepo ------------------------------
(***************************************************************************)
(* The wip requests of the server: controller/wip_ctl.go and the two       *)
(* writing requests of controller/object_ctl.go, with the WorkRepository   *)
(* methods they call (versionmgr/work_repo.go).                            *)
(*                                                                         *)
(* A wip (working in process) is a user's private tree on a branch, with   *)
(* the commit it started from.  Every request runs in its own goroutine:   *)
(* it reads the branch row, then the wip row, then works on what it read   *)
(* for as long as it takes (an upload streams the file in between), and    *)
(* finally writes.  A handler here is such a goroutine; its record holds   *)
(* the operation, how far it got, and what it read.                        *)
(***************************************************************************)
EXTENDS RepoStore

CONSTANTS
    Handlers,      \* request goroutines (a bound on the requests in flight)
    Ops,           \* the requests clients send
    SerialClients  \* TRUE: a user waits for an answer before the next request

AllOps == {"GetWip", "UploadObject", "DeleteObject", "RevertWip", "CommitWip",
           "UpdateWip", "DeleteWip"}
InWipOps == AllOps \ {"GetWip", "DeleteWip"}  \* requests that CheckOut(InWip)

ASSUME WorkRepoAssumption == Ops \subseteq AllOps /\ SerialClients \in BOOLEAN

VARIABLES
    wreq,   \* handler -> the request it serves
    edits   \* history variable: wip -> the paths its user edited since its base
            \* was set; no action reads it

vars == <<storeVars, wreq, edits>>

Request == [op : AllOps, pc : {"idle", "branch", "new", "wip", "save", "tx"},
            user : Users, branch : BranchIds \cup {NoId}, tip : CommitIds \cup {NoCommit},
            wip : WipIds \cup {NoId}, base : CommitIds \cup {NoCommit},
            tree : Tree, scope : SUBSET Paths, next : Tree]

Idle == [op |-> "GetWip", pc |-> "idle", user |-> Owner, branch |-> NoId, tip |-> NoCommit,
         wip |-> NoId, base |-> NoCommit, tree |-> EmptyTree, scope |-> {}, next |-> EmptyTree]

\* A request keeps of the commits it reads those it will look at again.
TipOps  == {"GetWip", "CommitWip"}
BaseOps == {"RevertWip", "CommitWip"}
Used(op, some, c) == IF op \in some THEN c ELSE NoCommit

Busy(u)   == \E h \in Handlers : wreq[h].pc # "idle" /\ wreq[h].user = u
At(h, op, pc) == wreq[h].op = op /\ wreq[h].pc = pc
Finish(h) == wreq' = [wreq EXCEPT ![h] = Idle]

\* The request has computed a new tree t, which changes the paths in X: of what
\* it read it still needs the wip's id.
Computed(h, pc, X, t) ==
    wreq' = [wreq EXCEPT ![h] = [Idle EXCEPT !.op = wreq[h].op, !.pc = pc, !.user = wreq[h].user,
                                             !.wip = wreq[h].wip, !.scope = X, !.next = t]]

Init ==
    /\ StoreInit
    /\ wreq = [h \in Handlers |-> Idle]
    /\ edits = [w \in WipIds |-> {}]

----------------------------------------------------------------------------
\* The first half of CheckOut: the branch row is found by its name.
CheckOutBranch(h, u, op, b) ==
    /\ wreq[h].pc = "idle"
    /\ SerialClients => ~Busy(u)
    /\ b \in DOMAIN branches
    /\ wreq' = [wreq EXCEPT ![h] = [Idle EXCEPT !.op = op, !.pc = "branch", !.user = u,
                                                !.branch = b,
                                                !.tip = Used(op, TipOps, branches[b].commit)]]
    /\ UNCHANGED <<storeVars, edits>>

\* The second half of CheckOut(InWip): one of the wip rows W is read.
ReadWip(h, W) ==
    /\ wreq[h].pc = "branch" /\ wreq[h].op \in InWipOps
    /\ \E w \in W :
           wreq' = [wreq EXCEPT ![h] =
                       [@ EXCEPT !.pc = "wip", !.wip = w,
                                 !.base = Used(wreq[h].op, BaseOps, wips[w].base),
                                 !.tree = IF wreq[h].op = "UpdateWip" THEN EmptyTree
                                          ELSE wips[w].tree]]
    /\ UNCHANGED <<storeVars, edits>>

\* Mutant: the query forgets the creator and finds any wip on the branch.
CheckOutAnyWip(h) == ReadWip(h, {w \in DOMAIN wips : wips[w].ref = wreq[h].branch})

\* The row is the requesting user's wip on the branch.
CheckOutWip(h) == ReadWip(h, WipsOf(wreq[h].user, wreq[h].branch))

\* GetOrCreateWip looks for the user's wip and finds none.  (A wip that is
\* found is answered without a write: the request ends as in Abort.)
MissWip(h) ==
    /\ At(h, "GetWip", "branch")
    /\ WipsOf(wreq[h].user, wreq[h].branch) = {}
    /\ wreq' = [wreq EXCEPT ![h] = [@ EXCEPT !.pc = "new"]]
    /\ UNCHANGED <<storeVars, edits>>

\* The insert of a wip with base commit c; the unique key on creator,
\* repository and ref refuses a second one.
InsertWip(h, c) ==
    LET r == wreq[h]
        w == NewId(WipIds)
    IN  /\ At(h, "GetWip", "new")
        /\ Known(r.tip)
        /\ WipsOf(r.user, r.branch) = {}
        /\ HasId(WipIds)
        /\ wips' = AddRow(wips, w, [creator |-> r.user, ref |-> r.branch,
                                    base |-> c, tree |-> TreeOf(r.tip)])
        /\ spent' = spent \cup {w}
        /\ Finish(h)
        /\ UNCHANGED <<head, branches, commits, trees, edits>>

\* Mutant: the base is the branch's tip by now, the tree that of the tip read.
CreateWipOnTip(h) ==
    wreq[h].branch \in DOMAIN branches /\ InsertWip(h, branches[wreq[h].branch].commit)

\* GetOrCreateWip inserts a wip at the branch tip it read.
CreateWip(h) == InsertWip(h, wreq[h].tip)

\* UploadObject: AddLeaf, or ReplaceLeaf if the request allows it, on the
\* tree that was checked out.  The new tree nodes are stored by statements
\* of their own, ahead of the transaction that updates the wip.
WriteObject(h, x, v, isReplace) ==
    LET r == wreq[h]
        t == [r.tree EXCEPT ![x] = v]
    IN  /\ At(h, "UploadObject", "wip")
        /\ Stored(r.tree)
        /\ r.tree[x] # v                          \* same checksum: nothing to do
        /\ r.tree[x] = NoBlob \/ isReplace        \* else "object exit"
        /\ Computed(h, "save", {x}, t)
        /\ UNCHANGED <<head, branches, commits, wips, spent, edits>>

\* Mutant: the wip is updated and the new nodes are never stored.
UploadUnstored(h, x, v, isReplace) == WriteObject(h, x, v, isReplace) /\ UNCHANGED trees

UploadObject(h, x, v, isReplace) ==
    /\ WriteObject(h, x, v, isReplace)
    /\ trees' = trees \cup {[wreq[h].tree EXCEPT ![x] = v]}

\* DeleteObject: RemoveEntry takes the files X, one file or all those below a
\* directory, from the tree that was read.
DeleteObject(h, X) ==
    LET r == wreq[h]
        t == [x \in Paths |-> IF x \in X THEN NoBlob ELSE r.tree[x]]
    IN  /\ At(h, "DeleteObject", "wip")
        /\ Stored(r.tree)
        /\ t # r.tree                             \* else ErrPathNotFound
        /\ trees' = trees \cup {t}
        /\ Computed(h, "save", X, t)
        /\ UNCHANGED <<head, branches, commits, wips, spent, edits>>

\* RemoveEntry fails in any other way: DeleteObject looks for ErrPathNotFound
\* only, goes on, and saves the tree it read.
DeleteObjectFails(h) ==
    /\ At(h, "DeleteObject", "wip")
    /\ Stored(wreq[h].tree)
    /\ Computed(h, "save", {}, wreq[h].tree)
    /\ UNCHANGED <<storeVars, edits>>

\* The last statement of both: the wip's current tree becomes the new tree.
SaveWipTree(h) ==
    LET r == wreq[h]
    IN  /\ r.pc = "save"
        /\ wips' = SetWipTree(wips, r.wip, r.next)
        /\ edits' = [edits EXCEPT ![r.wip] = @ \cup r.scope]
        /\ Finish(h)
        /\ UNCHANGED <<head, branches, commits, trees, spent>>

\* Revert of the whole wip: its tree becomes the tree of its base commit.
RevertAll(h) ==
    LET r == wreq[h]
    IN  /\ At(h, "RevertWip", "wip") /\ r.user = Owner
        /\ Known(r.base)
        /\ wips' = SetWipTree(wips, r.wip, TreeOf(r.base))
        /\ edits' = [edits EXCEPT ![r.wip] = {}]
        /\ Finish(h)
        /\ UNCHANGED <<head, branches, commits, trees, spent>>

\* Revert of the files X under a path to what they are in the tree from: inside
\* a transaction, which will store the nodes of the reverted tree, the wip is
\* updated through the repository's own connection (repository.repo, not repo)
\* and so at once.
RevertTo(h, X, from) ==
    LET r == wreq[h]
        t == [x \in Paths |-> IF x \in X THEN from[x] ELSE r.tree[x]]
    IN  /\ At(h, "RevertWip", "wip") /\ r.user = Owner
        /\ Known(r.base) /\ Stored(TreeOf(r.base)) /\ Stored(r.tree)
        /\ t # r.tree                             \* else ErrNotFound
        /\ wips' = SetWipTree(wips, r.wip, t)
        /\ Computed(h, "tx", X, t)
        /\ UNCHANGED <<head, branches, commits, trees, spent, edits>>

\* Mutant: the files go back to the tip of the branch.
RevertPathsToTip(h, X) ==
    /\ wreq[h].branch \in DOMAIN branches /\ Known(branches[wreq[h].branch].commit)
    /\ RevertTo(h, X, TreeOf(branches[wreq[h].branch].commit))

RevertPaths(h, X) == Known(wreq[h].base) /\ RevertTo(h, X, TreeOf(wreq[h].base))

\* The transaction of that Revert commits: the nodes become visible.
RevertCommit(h) ==
    /\ wreq[h].pc = "tx"
    /\ trees' = trees \cup {wreq[h].next}
    /\ Finish(h)
    /\ UNCHANGED <<head, branches, commits, wips, spent, edits>>

\* One transaction inserts a commit of the tree that was read, and moves the
\* branch and the wip's base to it.
CommitOn(h, parents) ==
    LET r == wreq[h]
        c == NewCommit
    IN  /\ At(h, "CommitWip", "wip")
        /\ HasNewCommit
        /\ commits' = AddRow(commits, c, [tree |-> r.tree, parents |-> parents])
        /\ branches' = SetBranchCommit(branches, r.branch, c)
        /\ wips' = SetWipBase(wips, r.wip, c)
        /\ edits' = [edits EXCEPT ![r.wip] =
                        {x \in @ : r.wip \in DOMAIN wips /\ wips[r.wip].tree[x] # r.tree[x]}]
        /\ Finish(h)
        /\ UNCHANGED <<head, trees, spent>>

ParentsOf(c) == IF c = NoCommit THEN <<>> ELSE <<c>>

\* Mutants: the base is not compared with the branch; a first commit names the
\* empty hash as its parent.
CommitUnchecked(h)  == CommitOn(h, ParentsOf(wreq[h].tip))
CommitEmptyHash(h)  == wreq[h].tip = wreq[h].base /\ CommitOn(h, <<wreq[h].tip>>)

\* CommitChanges: refused unless the branch stood at the wip's base when the
\* two rows were read ("base commit not equal with branch, please update wip").
CommitChanges(h) ==
    /\ wreq[h].tip = wreq[h].base
    /\ CommitOn(h, ParentsOf(wreq[h].tip))

\* UpdateWip: the user sets the base commit, the tree or both by hand, to any
\* that exist; this is how a wip that fell behind its branch is brought up.
SetWip(h, fields, c, t) ==
    LET r     == wreq[h]
        based == IF "base" \in fields THEN SetWipBase(wips, r.wip, c) ELSE wips
    IN  /\ At(h, "UpdateWip", "wip")
        /\ Stored(t)
        /\ wips' = IF "tree" \in fields THEN SetWipTree(based, r.wip, t) ELSE based
        /\ edits' = [edits EXCEPT ![r.wip] = Paths]
        /\ Finish(h)
        /\ UNCHANGED <<head, branches, commits, trees, spent>>

\* Mutant: the base commit is not looked up.
UpdateWipUnchecked(h, fields, c, t) == SetWip(h, fields, c, t)

UpdateWip(h, fields, c, t) == Known(c) /\ SetWip(h, fields, c, t)

\* DeleteWip: by branch and creator, so also a wip created after the check-out.
DeleteWip(h) ==
    LET gone == WipsOf(wreq[h].user, wreq[h].branch)
    IN  /\ At(h, "DeleteWip", "branch")
        /\ gone # {}                   \* else ErrNotFound
        /\ wips' = DropRows(wips, gone)
        /\ Finish(h)
        /\ UNCHANGED <<head, branches, commits, trees, spent, edits>>

\* The request ends without (further) effect: an early return, a failed
\* statement, a transaction rolled back, a client that went away, a crash.
Abort(h) ==
    /\ wreq[h].pc # "idle"
    /\ Finish(h)
    /\ UNCHANGED <<storeVars, edits>>

\* What a handler does once it has the rows it works on, request by request.
GetWip(h)    == MissWip(h) \/ CreateWip(h)
PutObject(h) == \E x \in Paths, v \in Blobs, isReplace \in BOOLEAN :
                   UploadObject(h, x, v, isReplace)
RemoveObject(h) == DeleteObjectFails(h) \/ \E X \in SUBSET Paths : DeleteObject(h, X)
RevertWip(h) == RevertAll(h) \/ RevertCommit(h) \/ \E X \in SUBSET Paths : RevertPaths(h, X)
CommitWip(h) == CommitChanges(h)
PatchWip(h)  == \E fields \in {{"base"}, {"tree"}, {"base", "tree"}},
                   c \in CommitIds \cup {NoCommit}, t \in Tree : UpdateWip(h, fields, c, t)

Step(h) ==
    \/ CheckOutWip(h)
    \/ GetWip(h) \/ DeleteWip(h) \/ PatchWip(h)
    \/ PutObject(h) \/ RemoveObject(h) \/ SaveWipTree(h)
    \/ RevertWip(h) \/ CommitWip(h)
    \/ Abort(h)

Next == \E h \in Handlers :
           \/ \E u \in Users, op \in Ops, b \in BranchIds : CheckOutBranch(h, u, op, b)
           \/ Step(h)

Spec == Init /\ [][Next]_vars

----------------------------------------------------------------------------
\* The rows and the requests on wips, whichever ids others spend.
RowsOK ==
    /\ StoreTypeOK
    /\ wreq \in [Handlers -> Request]
    /\ edits \in [WipIds -> SUBSET Paths]

TypeOK == RowsOK /\ spent \subseteq BranchIds \cup WipIds

\* No row names a commit that is not stored: not a branch, not a wip, not the
\* parent links of a commit.  No foreign key guards this; it rests on the order
\* of the writes in CommitChanges and on nothing ever deleting a commit.
RefIntegrity ==
    /\ \A b \in DOMAIN branches : Known(branches[b].commit)
    /\ \A w \in DOMAIN wips : Known(wips[w].base)
    /\ \A c \in DOMAIN commits : Parents(commits, c) \subseteq DOMAIN commits

\* What a request in flight has read stays good: a branch row it found had an
\* id, and the commits it read are still stored.  With RowsOK and RefIntegrity
\* this is inductive.
ReadSound(q) ==
    /\ q.pc \in {"branch", "new"} => q.branch \in BranchIds
    /\ Known(q.tip) /\ Known(q.base)
IInv == RowsOK /\ RefIntegrity /\ \A h \in Handlers : ReadSound(wreq[h])

\* Every tree a commit or a wip names can be opened, at every moment.
\* UpdateWip asserts it of the trees it is given ("unable to get tree root",
\* wip_ctl.go); the other requests must not break it by the order in which
\* they store nodes and update the wip.
TreesResolve ==
    /\ \A c \in DOMAIN commits : Stored(commits[c].tree)
    /\ \A w \in DOMAIN wips : Stored(wips[w].tree)

\* A wip is its base commit plus the edits of its own user: the base, the tree
\* and the snapshots the user's requests work on never drift apart.
WipIsBasePlusEdits ==
    \A w \in DOMAIN wips : Differ(wips[w].tree, TreeOf(wips[w].base)) \subseteq edits[w]

\* A commit undoes nobody's work: it differs from its parent only at paths its
\* author edited in the wip it was made from.
CommitsOwnEditsOnly ==
    [][\A c \in DOMAIN commits' \ DOMAIN commits :
          \E h \in Handlers : wreq[h] # wreq'[h] /\ \A x \in Paths :
             \/ x \in edits[wreq[h].wip]
             \/ commits'[c].parents = <<>> /\ commits'[c].tree[x] = NoBlob
             \/ \E p \in Parents(commits', c) : commits'[c].tree[x] = commits[p].tree[x]]_vars

\* A branch only moves forward: the commit it pointed to stays in its history,
\* so no commit that was acknowledged on a branch disappears from it.
BranchAdvances ==
    [][\A b \in DOMAIN branches \cap DOMAIN branches' :
          Since(commits', branches[b].commit, branches'[b].commit)]_vars

\* The commit a wip started from stays in the history of the wip's branch:
\* the wip can be told apart from the branch by walking back from the tip.
WipBaseInHistory ==
    \A w \in DOMAIN wips :
       wips[w].ref \in DOMAIN branches =>
          Since(commits, wips[w].base, branches[wips[w].ref].commit)

\* Every request takes effect on the wip as it is at that moment, although it
\* wrote what it computed from an earlier read.
Wips == INSTANCE AtomicWips WITH
    wips    <- wips,
    commits <- commits,
    setting <- {wreq[h].wip : h \in {k \in Handlers : At(k, "UpdateWip", "wip")}}
TakesEffectAtOnce == Wips!Spec
=============================================================================
