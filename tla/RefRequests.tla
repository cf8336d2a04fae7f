---------------------------- MODULE RefRequests ----------------------------
(***************************************************************************)
(* The requests that create, delete and choose refs: branches              *)
(* (controller/branch_ctl.go), tags (controller/tag_ctl.go) and the        *)
(* repository's HEAD (UpdateRepository in controller/repository_ctl.go).   *)
(*                                                                         *)
(* Each checks what it read and writes later, without a transaction around *)
(* both: a name that was free may be taken by then, a branch that existed  *)
(* may be gone.  Branch names carry no unique key; tag names do.           *)
(***************************************************************************)
EXTENDS RepoStore

CONSTANTS
    RefHandlers,  \* goroutines that serve ref requests
    RefOps,       \* the ref requests clients send
    TagNames,     \* names of tags
    TagIds        \* pool of tag row ids

AllRefOps == {"CreateBranch", "DeleteBranch", "CreateTag", "DeleteTag", "SetHead"}

ASSUME RefAssumption == NoId \notin TagIds /\ RefOps \subseteq AllRefOps

VARIABLES
    tags,   \* tags: tag id -> [name, target]
    rreq    \* handler -> the ref request it serves

refVars == <<tags, rreq>>

TagRow == [name : TagNames, target : CommitIds]

RefRequest == [op : AllRefOps \cup {"none"}, pc : {"idle", "read", "checked"}, name : Names \cup TagNames,
               row : BranchIds \cup TagIds \cup {NoId}, target : CommitIds \cup {NoCommit}]
RefIdle == [op |-> "none", pc |-> "idle", name |-> MainName, row |-> NoId, target |-> NoCommit]

RefAt(k, op, pc) == rreq[k].op = op /\ rreq[k].pc = pc
RefStart(k, op, pc, n, i, c) ==
    /\ rreq[k].pc = "idle" /\ op \in RefOps
    /\ rreq' = [rreq EXCEPT ![k] = [op |-> op, pc |-> pc, name |-> n, row |-> i, target |-> c]]
    /\ UNCHANGED <<storeVars, tags>>
RefFinish(k) == rreq' = [rreq EXCEPT ![k] = RefIdle]

TagsNamed(n) == {t \in DOMAIN tags : tags[t].name = n}

RefInit == /\ tags = [t \in {} |-> [name |-> CHOOSE n \in TagNames : TRUE, target |-> NoCommit]]
           /\ rreq = [k \in RefHandlers |-> RefIdle]

----------------------------------------------------------------------------
\* CreateBranch reads its source branch and checks out that branch's commit.
ReadSource(k, b) ==
    /\ b \in DOMAIN branches /\ Known(branches[b].commit)
    /\ RefStart(k, "CreateBranch", "read", MainName, NoId, branches[b].commit)

\* Mutant: the name is not looked up.
SkipBranchName(k, n) ==
    /\ RefAt(k, "CreateBranch", "read")
    /\ rreq' = [rreq EXCEPT ![k].pc = "checked", ![k].name = n]
    /\ UNCHANGED <<storeVars, tags>>

\* WorkRepository.CreateBranch finds no branch of the new name ...
CheckBranchName(k, n) ==
    /\ RefAt(k, "CreateBranch", "read")
    /\ NamedRows(n) = {}
    /\ rreq' = [rreq EXCEPT ![k].pc = "checked", ![k].name = n]
    /\ UNCHANGED <<storeVars, tags>>

\* ... and inserts one.
InsertBranch(k) ==
    LET b == NewId(BranchIds)
    IN  /\ RefAt(k, "CreateBranch", "checked")
        /\ HasId(BranchIds)
        /\ branches' = AddRow(branches, b, [name |-> rreq[k].name, commit |-> rreq[k].target])
        /\ spent' = spent \cup {b}
        /\ RefFinish(k)
        /\ UNCHANGED <<head, commits, trees, wips, tags>>

\* Mutant: the name of HEAD is not refused.
NameAny(k, n) == RefStart(k, "DeleteBranch", "read", n, NoId, NoCommit)

\* DeleteBranch refuses the name of HEAD ...
NameDoomed(k, n) == n # head /\ RefStart(k, "DeleteBranch", "read", n, NoId, NoCommit)

\* ... and checks out a branch of the name.
CheckOutDoomed(k, b) ==
    /\ RefAt(k, "DeleteBranch", "read")
    /\ b \in NamedRows(rreq[k].name) /\ Known(branches[b].commit)
    /\ rreq' = [rreq EXCEPT ![k].pc = "checked", ![k].row = b]
    /\ UNCHANGED <<storeVars, tags>>

\* The transaction of DeleteBranch: the branches of the NAME go, and wips W.
DropBranch(k, W) ==
    /\ RefAt(k, "DeleteBranch", "checked")
    /\ branches' = DropRows(branches, NamedRows(rreq[k].name))
    /\ wips' = DropRows(wips, W)
    /\ RefFinish(k)
    /\ UNCHANGED <<head, commits, trees, spent, tags>>

\* Mutant: only the deleting account's wips go.
DeleteBranchKeepWips(k) ==
    DropBranch(k, {w \in DOMAIN wips : wips[w].ref = rreq[k].row /\ wips[w].creator # Owner})

\* WorkRepository.DeleteBranch deletes the wips on the branch ID that was
\* checked out.
DeleteBranch(k) == DropBranch(k, {w \in DOMAIN wips : wips[w].ref = rreq[k].row})

\* Mutant: a commit hash is taken as it is given.
ReadAnyTarget(k, c) == RefStart(k, "CreateTag", "read", MainName, NoId, c)

\* CreateTag resolves its target, a branch or a commit hash, to a commit.
ReadTarget(k, c) == c \in DOMAIN commits /\ RefStart(k, "CreateTag", "read", MainName, NoId, c)

CheckTagName(k, n) ==
    /\ RefAt(k, "CreateTag", "read")
    /\ TagsNamed(n) = {}
    /\ rreq' = [rreq EXCEPT ![k].pc = "checked", ![k].name = n]
    /\ UNCHANGED <<storeVars, tags>>

\* The insert fails on the unique key of repository and name.
InsertTag(k) ==
    LET t == NewId(TagIds)
    IN  /\ RefAt(k, "CreateTag", "checked")
        /\ TagsNamed(rreq[k].name) = {}
        /\ HasId(TagIds)
        /\ tags' = AddRow(tags, t, [name |-> rreq[k].name, target |-> rreq[k].target])
        /\ spent' = spent \cup {t}
        /\ RefFinish(k)
        /\ UNCHANGED <<head, branches, commits, trees, wips>>

\* DeleteTag checks the tag out by name and deletes it by id.
CheckOutTag(k, t) ==
    /\ t \in DOMAIN tags /\ Known(tags[t].target)
    /\ RefStart(k, "DeleteTag", "checked", tags[t].name, t, NoCommit)

DropTags(k, T) ==
    /\ RefAt(k, "DeleteTag", "checked")
    /\ tags' = DropRows(tags, T)
    /\ RefFinish(k)
    /\ UNCHANGED storeVars

\* Mutant: the tag of that name is deleted, whichever it is by now.
DeleteTagByName(k) == DropTags(k, TagsNamed(rreq[k].name))

DeleteTag(k) == DropTags(k, {rreq[k].row})

\* UpdateRepository finds the branch that is to be HEAD, then sets HEAD.
CheckHead(k, b) ==
    /\ b \in DOMAIN branches
    /\ RefStart(k, "SetHead", "checked", branches[b].name, NoId, NoCommit)

SetHead(k) ==
    /\ RefAt(k, "SetHead", "checked")
    /\ head' = rreq[k].name
    /\ RefFinish(k)
    /\ UNCHANGED <<branches, commits, trees, wips, spent, tags>>

RefAbort(k) ==
    /\ rreq[k].pc # "idle"
    /\ RefFinish(k)
    /\ UNCHANGED <<storeVars, tags>>

RefBegin(k) ==
    \/ \E b \in BranchIds : ReadSource(k, b) \/ CheckHead(k, b)
    \/ \E n \in Names : NameDoomed(k, n)
    \/ \E c \in CommitIds : ReadTarget(k, c)
    \/ \E t \in TagIds : CheckOutTag(k, t)

RefStep(k) ==
    \/ \E b \in BranchIds : CheckOutDoomed(k, b)
    \/ \E n \in Names : CheckBranchName(k, n)
    \/ \E n \in TagNames : CheckTagName(k, n)
    \/ InsertBranch(k) \/ DeleteBranch(k) \/ InsertTag(k) \/ DeleteTag(k) \/ SetHead(k)
    \/ RefAbort(k)

RefNext == \E k \in RefHandlers : RefBegin(k) \/ RefStep(k)

RefTypeOK ==
    /\ IsTable(tags, TagIds, TagRow)
    /\ rreq \in [RefHandlers -> RefRequest]
=============================================================================
