# jiaozifs in TLA+

jiaozifs is a version-controlled file store: repositories with branches, tags
and commits as in git, kept in PostgreSQL, with file contents in a block store,
behind an HTTP API. This directory holds its specifications: TLA+ modules
translated from the Go source, TLC configurations that check them on small
instances, and proofs of theorems about them that TLAPS checks. File names
below are relative to the repository (`src/`).

    tlc -workers 2 -config Wips.cfg MCWorkRepo.tla
    tlapm Requests_proofs.tla

The theorems are in the modules whose names end in `_proofs`; `tlapm` checks each
in a few minutes.

## 1. The system

| part | state | operations | who uses it |
|---|---|---|---|
| rows (`models/`) | tables branches, commits, trees, wips, tags, merge_requests, repositories, users, members, aksks | insert, get, list, delete, update by id; `Transaction` | every controller |
| wip requests (`controller/wip_ctl.go`, `controller/object_ctl.go`, `versionmgr/work_repo.go`) | a wip: a user's private tree on a branch, with its base commit | get or create, upload, delete object, revert, commit, update by hand, delete | clients, the `uploadfiles` command |
| ref requests (`branch_ctl.go`, `tag_ctl.go`, `repository_ctl.go`) | branch and tag rows, the repository's HEAD | create and delete branch, create and delete tag, set HEAD | clients |
| merge requests (`merge_request_ctl.go`, `models/merge_request.go`) | a request's sequence number, branches, state | create, list, get with its merge state, update, merge | clients |
| three-way merge (`versionmgr/changes.go`, `conflict.go`, `work_repo.go`) | none | merge bases, pair up both sides' changes, resolve conflicts, apply | Merge, GetMergeState |
| merge base and history (`merge_base.go`, `commit_walker*.go`) | none | best common ancestors, independents, walks in four orders | merge, commit listings |
| tree difference (`versionmgr/merkletrie/`) | none | changes between two hashed trees | merge, revert, listings of changes |
| work tree (`worktree.go`, `tree_node.go`) | stored nodes, a root | add, replace, remove, find; copy on write | uploads, deletes, revert, merge |
| repositories (`repository_ctl.go`) | a repository row | create, delete, update | clients |
| block storage (`block/`) | objects by address; for uploads in parts, chunks and lists of them | put, get, range, remove, upload a part, complete | WriteBlob, ReadBlob, DeleteRepository |
| permissions (`auth/rbac/`, `member_ctl.go`) | members, groups, policies | authorize; invite, change, remove | every controller |
| accounts (`auth/`, `user_ctl.go`, `aksk_ctl.go`) | users, sessions, access keys | register, log in, sign, create and delete keys | clients |
| API, configuration, command line | files and flags | routing, encoding | people |

### How the parts interact, and what is hard about it

Every HTTP request is served by its own goroutine. It reads the rows it needs
one statement at a time (repository, branch, wip, commit), works on what it read
- an upload streams a whole file in between - and then writes. The only shared
state is the database. There are no locks, no row is re-read in the transaction
that writes it, an update by id neither compares what it replaces nor counts the
rows it hits (`models/wip.go:252`), there are no foreign keys, and of the tables
that matter here only wips and tags have a unique key. Transactions run at
PostgreSQL's default isolation. So whatever two requests must agree on rests on
the order of single statements, and that is what the models of requests are about.

Below the requests, a tree is a graph of nodes that are written once and named by
their hashes, and an edit writes new nodes from a leaf up to a new root. What is
hard there is data, not interleaving: directories that come and go, files in the
place of directories, two sides of a merge walked in step. And below the rows are
the contents, in files or objects no transaction covers, where a stop between two
steps stays visible.

What makes each part correct:

- **wip requests**: a wip is its base commit plus its user's edits; a commit
  undoes nobody's work; a branch never loses a commit; every tree and commit a
  row names is stored.
- **ref requests**: HEAD names a branch, a name names one branch, no wip outlives
  its branch, a tag moves only when a request that saw it says so.
- **merge requests**: one open request per pair of branches, distinct numbers, a
  merged request is merged once and its target holds both histories.
- **three-way merge**: a path changed on one side gets that side's content; one
  changed on both is a conflict; nothing else changes. Several best common
  ancestors are merged first.
- **merge base**: exactly the maximal common ancestors, whatever the dates say.
- **tree difference**: applying the difference of two trees to one gives the other.
- **work tree**: nested copy-on-write edits are edits of a flat map; a directory
  is stored after what it lists.
- **block storage**: content is stored before a row names it; a read answers the
  range that was asked for; a part is accepted only when all that was read of it is
  stored; an error, a full pool or a retry loses nothing and hangs nobody.
- **repositories, permissions, accounts**: deletion leaves nothing behind that a
  later repository sees; permissions are decided on the member's current group.

The hazards, each at its line and with the properties that cover it or the reason
why none does, are listed in `PROJECT.json`.

## 2. The modules

    RepoStore <- WorkRepo ----- Server <- MergeRequests      requests
    RepoStore <- RefRequests --/
    CommitHistory                                            histories
    WorkTree <- TreeDiff <- WipTree                          nested trees
                TreeDiff <- TreeMerge
    BlockCopy <- AzureUpload          LocalBlobs             contents

    WorkRepo implements AtomicWips, WipTree implements FlatTree

    Requests_proofs <- InTurn_proofs                         theorems
    TreeDiff_proofs <- WipTree_proofs
    TreeDiff_proofs <- TreeMerge_proofs
    CommitHistory_proofs    LocalBlobs_proofs    AzureUpload_proofs

(`<-`: extended by.) The modules MC* hold the small instances; CommitHistory and
AzureUpload need none. The three groups meet where one takes the other for
granted: RepoStore's trees are flat maps because WipTree shows that a tree of
nodes behaves as one, `MergedTrees` is what TreeMerge shows of a merge, and a
stored tree's contents can be read as far as LocalBlobs says.

**RepoStore**: the rows of one repository and the row operations. A table is a
function from primary keys to rows. `AddRow`, `DropRows`, `SetBranchCommit`,
`SetWipBase`, `SetWipTree` are Insert, Delete and UpdateByID; an update of a row
that is gone changes nothing, as in the code. A tree is a flat map from paths to
blobs and stands for its own hash (hashes are taken to be free of collisions);
`trees` is the set of trees whose nodes are stored, so that a row naming a tree
and the tree being there are different things. Ids are drawn from finite pools
and never reused; `spent` remembers them. `StoreInit` is `CreateRepository`.

**WorkRepo**: the requests on wips. `wreq[h]` is the request a goroutine serves:
its operation, how far it got (`pc`), and what it read. The steps of a request
are the statements between which others may run:

| action | code | step |
|---|---|---|
| CheckOutBranch, CheckOutWip | `WorkRepository.CheckOut` | read the branch row; read the wip row |
| MissWip, CreateWip | `GetOrCreateWip` | find no wip; insert one at the tip that was read |
| UploadObject, SaveWipTree | `ObjectController.UploadObject` | compute the new tree on the one checked out and store its nodes; update the wip |
| DeleteObject, DeleteObjectFails, SaveWipTree | `ObjectController.DeleteObject` | the same for RemoveEntry; an error other than "not found" is ignored and the old tree saved |
| RevertAll | `Revert`, no path | update the wip |
| RevertPaths, RevertCommit | `Revert`, with a path | the wip, updated at once through the outer connection; the transaction with the nodes |
| CommitChanges | `CommitChanges`, `commitChangeRoot` | the check on what was read, then one transaction: commit, branch, wip |
| UpdateWip | `WipController.UpdateWip` | base, tree or both set by hand |
| DeleteWip | `DeleteWip` | delete by branch and creator |
| Abort | every early return, error, rollback, disconnect or crash | the request is gone, what it wrote stays |

The record keeps of each row only what a later step uses (`Used`, `Computed`),
which is the Go code's liveness of variables and keeps the state space small.
`edits` is a history variable: the paths a wip's user edited since the base was
set. No action reads it.

**AtomicWips**: what the wip requests promise, without requests in flight: each
takes effect at once on the wip as it is. `WorkRepo!TakesEffectAtOnce` is
`AtomicWips!Spec` with `wips` and `commits` as they are and `setting`, the wips
whose users are about to set them by hand, read off the requests in flight: only
for these may base and tree become anything.

**RefRequests**: creating and deleting branches and tags and setting HEAD, with
the reads, the check and the write of each as steps of their own, as in the code:
DeleteBranch compares the name with a HEAD it has read (`NameDoomed`), checks the
branch out (`CheckOutDoomed`) and deletes (`DeleteBranch`). `ReadTarget` takes a commit
hash directly; that a branch name is resolved to one first adds nothing, as a
branch's commit is a commit.

**Server**: WorkRepo and RefRequests on the shared tables. `ServerSpec` lets
everything interleave; `SerialSpec` has the same handlers, of which at most one
serves a request at a time.

**MergeRequests**: merge requests beside everything in Server, and what a merge
does. `mreq[k]` is the request a goroutine serves; a row of `mrs` is named by its
sequence number.

| action | code | step |
|---|---|---|
| FindSource, FindTarget | `CreateMergeRequest` | find the source branch by name, then the target by another |
| CheckOpen, InsertRequest | `CreateMergeRequest` | find no open request between them; insert one with the next number |
| UpdateRequest | `UpdateMergeRequest` | set any state, from any state: whatever integer the client sends |
| ReadRequest | `Merge` | read the merge request, whatever its state |
| ReadSourceBranch, ReadTargetBranch, CheckOutTarget | `Merge`, `CheckOut` | read the source by id; the target by id; then a branch of the name the target had |
| FastForward | `WorkRepository.Merge`, `merge` | one side is in the other's history: move the target to the one ahead |
| MergeCommit | `merge`, `findBestAncestor` | a merge commit and the virtual commits it takes: nodes, commits, target branch and state in one transaction |
| MergeAbort | early returns, errors | nothing, or the rolled back transaction |

`AllSpec` lets everything interleave, with any number of handlers of each kind;
`AllSerialSpec` has as many handlers and at most one request in flight on the
whole server.

`MergedTrees` is the contract of the three-way merge on flat trees: a file one
side left alone is as on the other side, and a conflict is resolved for either
side, as the request asks. `took` is a history variable, the source commit the
last merge of a request took. With several best common ancestors the code merges
two of them into a virtual commit first, whose own base it finds the same way, and
stores each of these commits: `MergedPairs` are the pairs of commits that are
merged, from the two of the request inwards, and `AreMerges` their trees. Which two
of three or more ancestors come first is up to their dates, and any two here. A
conflict ends a virtual merge (`NoConflict`, the code's `ForbidResolver`) and the
request with it. What TreeMerge has of these merges is their nested trees.

**CommitHistory**: commits as a graph that only grows, and what the code computes
on it: the walks (`Visit` with a rule where parents join the line gives three of
the four), `IsAncestor`, `Independents`, `MergeBase`, and the list of a ref's
commits page by page. Commits carry dates that need not follow the parent links.
Where the code sorts by date, the model tries every order the sort may leave
equal dates in, so `MergeBase` is the set of its possible answers, each of them a
set of commits, as nobody asks for the order of several.

**WorkTree**: the tree of nodes, as operators on the table of nodes and a root:
`AddLeaf`, `ReplaceLeaf`, `RemoveEntry`, `HasBlob`, each answering the new root
and the nodes to insert, in order, or the code's error. A node's hash is modelled
as what the code hashes, its children's names and hashes, so that equal hashes
are equal trees by construction of the code's hash and not by decree - and so
that what the code leaves out of the hash (whether a child is a directory) is
left out here. Names are numbers, as the code orders them.

**TreeDiff**: the comparison of two trees (`merkletrie/`): two iterators in step
(`First`, `StepIn`, `NextIn` are `NewIter`, `Step`, `Next`), the decision at each
pair of entries (`DiffTree`), and the list of changes sorted by path. The code
sorts whole path strings (`changes.go:58-60`), the model names in turn (`InOrder`):
they differ where a name continues with a character below "/", and no merge depends
on which of two such paths comes first.

**WipTree**: one wip over these operators. `Upload` and `Delete` compute an edit;
`StoreNode` inserts its nodes one by one, as the code does outside of its
transaction, and `StoreRoot` moves the wip; `Stop` is the server going down
in between. `Revert` undoes the changes below a prefix one by one, where a prefix
is a string prefix, as in the code (`HasPrefix`: "lib" is one of "lib2"), in one
step. **FlatTree** says the same of a set of files; WipTree implements it (section 4) with
`files` and `base` read off the roots.

**TreeMerge**: `merge` and `findBestAncestor`. `Start` lists both sides' changes;
`TakeLeft`, `TakeRight`, `TakeBoth`, `Resolve` and `Refuse` are the branches of
`ChangesMergeIter.Next`, each applying at most one change to the tree so far;
`VirtualCommit` turns the merge of two best ancestors into the base of the merge
proper. Initial states are all the merges of the instance.

**BlockCopy** and **AzureUpload**: an upload of one part to Azure. The reading
goroutine (`Acquire`, `Check`, `ReadChunk`, `ReadEnd`, `Wait`, `StageIds`,
`StageSizes`, `Free`: `copyFromReader`, `sendChunk`, `close`, `CommitBlockList`)
and a goroutine per chunk (`StartWrite`, `Stage`, `SendErr`, `ReleaseBuffer`,
`FinishWrite`: `write` and its deferred calls) share the buffer pool, the wait
group, a context and a channel that holds one error. AzureUpload puts
`completeMultipart` behind it, whose every call may be refused and which a client
may try again. The code takes a body that is cut off for one that ends
(`chunkwriting.go:169`), and a download of the list that breaks off for the whole
list (`multipart_block_writer.go:132`); so do the models (`BreakOff`, `ReadIds`),
with a history variable `cut` that says which of the two has happened and `part`
for what the client meant to send.

**LocalBlobs**: WriteBlob, ReadBlob and DeleteRepository over files. A file is an
inode, its name a content's checksum; contents are written block by block, and
have at least one. Each has a directory of its own, where the code puts those whose
checksums begin with the same byte into one (`Mkdir`): an upload finds a shared
directory missing more seldom, and no property speaks of directories.
`maybeMkdir` and `os.RemoveAll` work in the steps they have. `Fail` ends one
request anywhere, `Crash` all of them. `torn`, `late` and `calm` are history
variables: contents that a failed upload left in pieces, contents stored after
the repository's deletion, reads that no upload disturbed.

A definition whose comment begins with "Mutant" is a plausible slip in the code
next to it; `PROJECT.json` pairs it with the property that catches it. No
specification uses it, except as the part of the real action it is.

## 3. What is checked

| run | instance | holds |
|---|---|---|
| wips | 2 users, 2 requests in flight, every wip request, 2 commits | TypeOK, RefIntegrity, WipIsBasePlusEdits, TakesEffectAtOnce, CommitsOwnEditsOnly |
| refs_concurrent | 2 ref requests and 1 wip request in flight | ServerTypeOK, RefsResolve, TreesResolve, TagsDeletedKnowingly |
| merge_bases | every history of 6 commits, 2 dates | MergeBaseIsBest, WalksVisitHistory, PagesListLine |
| merges_serial | 2 branches, 2 merge requests, 4 commits, one request at a time | HeadExists, BranchNamesUnique, WipsHaveBranches, OneOpenRequest, MergedIsInTarget, WipBaseInHistory, BranchAdvances |
| merge_trees | merges in every forked or criss-cross repository with 2 paths, up to 8 commits, one request at a time | TreesResolve, MergeUndoesNothing |
| merges_any_order | 1 merge, 1 ref and 1 wip request in flight, 4 commits | AllTypeOK, RefsResolve |
| wip_tree | paths of 2 names, a file in a directory's place, 2 contents, 6 nodes | NodesSound, SameFilesSameHash, ActsOnFiles |
| tree_merges | every merge of small trees, criss-cross merges | TypeOK, DiffIsPlain, MergeKeepsBothSides, FailsForAReason |
| azure_upload | parts of up to 4 chunks, 1 buffer, 3 failing writes | UploadTypeOK, ListedIsStaged, BuffersBalance, AcceptedIsStored, ObjectIsPart, CopyReturns |
| local_blobs | 2 contents of 2 blocks, 2 requests, 3 files | TypeOK, ObjectsHaveContent, ReadsWhatIsAsked, DeletedIsGone |

| run | violated | what happens |
|---|---|---|
| lost_commit | BranchAdvances | two commits on one branch pass the base check on rows read earlier; the later one takes the earlier one off the branch |
| renamed_files | ChangesNameFiles | files renamed within a directory so that the hashes keep their order: the comparison answers a modification of the directory, as it compares the children's hashes and not their names (`difftree.go:465`) |

The two tables say where the line runs. A wip holds its meaning under any number
of users as long as each user waits for an answer (`SerialClients`), which is
what the shipped client does: `cmd/uploadfiles.go` uploads one file after the
other. With two requests of one user in flight each computes on the tree it read,
and the later one undoes the earlier. The branch's history is safe while requests
do not overlap, and lost_commit when they do.

The rules of refs and merge requests that merges_serial checks rest on a check
and a write in two statements, so each is lost once requests overlap; the run shows
what the check achieves, not that the race is harmless: HEAD set to
a branch that is being deleted, two branches of one name from two CreateBranch, a
wip inserted on a branch deleted meanwhile, two open merge requests between the
same branches, and a merge whose target a concurrent commit moves back
(`work_repo.go:774` updates by id, without comparing). To see one of them, take
that run's cfg, replace `AllSerialSpec` by `AllSpec`, and where both requests are
of one kind give its handlers two elements.

UpdateMergeRequest casts any integer to a state (`merge_request_ctl.go:336`), and
neither the API's schema nor the table refuses one. So a row's state is one of the
code's three or whatever a client set: `SetStates` is any set, merges_any_order
sets a state that no constant names, and AllTypeOK says no more of that field than
this. OneOpenRequest and the rest speak of rows in state "init", which such a
state is not.

What holds under every interleaving is what rests on the order of writes alone:
RefIntegrity, TreesResolve without revert, RefsResolve with merges, branch
deletion and abandoned requests, and TagsDeletedKnowingly, because DeleteTag
deletes by the id it was shown.

The trees: a wip is a set of files whatever edits lead to it, with one hash per
set of files, and no stop of the server leaves a directory without what it lists
(nodes are inserted bottom up, `worktree.go:208`). A merge keeps what both sides
did, with the exceptions the properties name: renames within a directory that
keep the order of hashes (renamed_files), and paths that are a file in one tree
and a directory in another, over which a merge may fail (FailsForAReason) but
never goes wrong. Among the commits this reads: where a merge commit differs from
one of its parents, a commit that only the other parent's history has changed that
file (MergeUndoesNothing), against all of its own parents as long as every merge in
the history was over one best common ancestor. After a merge over several this may
be a merge commit that has the file from one of its parents, for the code takes two
of three or more ancestors and drops what the others hold. In merge_trees, where at
most two ancestors are best, the stronger form holds throughout; it is the weaker
one that is proved.

The contents: an object's content is whole but for what later uploads of the
same content do to it. That exception is the code's: `Put` empties the file it
writes, so an upload of a content that is stored already makes it unreadable for
a while, and for good if it fails (`local/adapter.go:163`). A part is accepted
only if no write failed, and the copy returns whatever fails: `UploadPart` has one
buffer (`azure/adapter.go:28,512`), so a writer starts when the one before has given
its buffer back, and the reader meets an error before it goes on. (With more buffers
two writers could fail together, and one of them would wait for ever for room in the
channel, which holds one error; nothing in the program sets more.) The object is the
whole part only if nothing broke off unnoticed. Otherwise it is the part's first
chunks, down to none: that is the code's, and ObjectIsPart says where it ends.

`refs_concurrent` and `merges_any_order` do not check for deadlock: the HEAD race
can delete every branch, after which nothing can be checked out, and that is the
system's own dead end. `merges_serial`, `merge_trees`, CommitHistory and
TreeMerge stop when the pools are used up or the merge is done, a copied and
completed upload is at its end, and a deleted repository serves no requests. The
other passing runs do check it.

### Fairness

Requests wait for nothing: each ends after its last statement, and no fairness is
assumed of them, nor of WipTree, TreeMerge and LocalBlobs. Only the copy to Azure
waits: for a free buffer and for the wait group.
`UploadFairness` is weak fairness of the reading goroutine and of each writer:
the Go scheduler runs every goroutine that can go on, and a call to the service
ends, with an answer or with an error (the client's own retries and timeouts end
it). A step that waits is not enabled, so weak fairness does not free it; whether
another goroutine does is what `CopyReturns` asks. The caller's
cancellation, the failures and the completion are not fair: they may never come.

### Bounds

One repository. Two users suffice for a conflict between a wip's owner and
someone who moves the branch; two requests in flight for every race of a read
and a write above. Two paths (merge_trees) tell the path that was
edited from the path that was not; the wips run, with every request, has room for
one, where an edit is told from none, and leaves several paths to WipTree; one
blob besides "no file" where content is not compared. Two commits give a branch
that moved since a wip's base; four give two branches that went apart from a common
commit and a merge of them; eight a criss-cross, two branches that merged each
other's commits and went on, and their merge with its virtual commit. Each id pool
has one id more than the rows that exist at once where a row must be recreated (two
tags for one name). When a pool is used up the inserts that need it are disabled;
`Abort` always lets a request end. Handlers, ref handlers and, in merge_trees,
paths are symmetric and the runs say so.

`Ops` and `RefOps` are the requests clients send in a run: merges_serial commits
without edits, since histories alone matter there, and leaves the tags to
refs_concurrent. merge_trees starts from repositories that clients reach by commits
and merges (`MergeTreesSpec`): two branches gone apart from a first commit (`Forked`),
and the same after they were merged and worked on, on one side or crosswise
(`Crossed`), with any files in every commit but, in the latter, the first, which
has none. From there it merges, again and again. `MaxNumber` bounds the
merge requests, `SetStates` the states that UpdateMergeRequest is asked for: a state
unknown to the code in merges_any_order; "closed" in
merges_serial, as setting "init" by hand can reopen a
request beside another open one, which nothing forbids.

Six commits are what it takes for two commits with several common ancestors of
which one is in another's history but not in the first's; two dates for equal
dates, and for dates that go against the parent links. Dates count milliseconds
(`Times`), the unit the pages are cut by; `Amounts` are page lengths. The pages
are checked on lines, histories without merges (section 5).

WipTree's paths are a directory with two files, the same name as a file, and a
name that begins with the directory's; `MaxRows` nodes suffice for each of these
next to the wip's base and the nodes of edits that a stop left behind. The run's
VIEW leaves out the last answer, which no guard and no step of FlatTree reads: TLC
visits the states that differ in it alone once, and checks every step's answer. TreeMerge
starts from every triple of trees over the paths of MCTreeMerge, with two contents,
so that both sides can change a file differently, and from criss-cross merges of
two files. Depth 2 has
every case of the code's loops: root, directory in the middle, leaf.

Four chunks and one buffer: a chunk waits for the buffer of the one before, first,
middle and last. `MaxChunks` and
`MaxFailures` bound what is endless in the code; `Concurrency` is its parameter,
with the value of its only caller. The theorems hold for every value.
Of LocalBlobs' three inodes at most two are open or named beside the one that is
made. Two blocks tell a whole content from a piece of it, and a range from the
whole.

## 4. What is proved

Every theorem is for all values of the constants that satisfy the modules'
`ASSUME`s: any number of users, handlers, paths, contents, commits and ids, any
mix of requests. The assumptions are that the owner is a user, the main branch's
name is a name, null values are outside of their pools, there is a branch id for
the first branch, the commit pool is finite (however large), bounds are numbers, the paths and
prefixes of requests are sequences of names, and the trees to be merged are trees as
`worktree.go` makes them: no deeper than paths are long, with no empty directory
below the root. What a theorem supposes beyond that is
in its statement and in the last column.

| theorem | of | states | supposes |
|---|---|---|---|
| TypeCorrect, RefsStay | Spec (wip requests, any interleaving) | TypeOK, RefIntegrity | |
| TreesStay | Spec | TreesResolve | no revert of paths |
| CommitsKeepToEdits, WipsKeepEdits | Spec | CommitsOwnEditsOnly, WipIsBasePlusEdits | users wait for answers |
| RequestsTakeEffectAtOnce | Spec | TakesEffectAtOnce: Spec implements AtomicWips | users wait for answers |
| ServerTypeCorrect, ServerRefsResolve, TagsStay | ServerSpec (ref requests beside them) | ServerTypeOK, RefsResolve, TagsDeletedKnowingly | |
| ServerTreesStay | ServerSpec | TreesResolve | no revert of paths |
| ServerCommitsKeepToEdits | ServerSpec | CommitsOwnEditsOnly | users wait for answers |
| AllTypeCorrect, AllRefsResolve | AllSpec (merges beside both) | AllTypeOK, RefsResolve | |
| AllTreesStay | AllSpec | TreesResolve | no revert of paths |
| MergesKeepWork | AllSpec, merges over any number of best common ancestors | MergeUndoesNothing | |
| AllWipsKeepEdits | AllSpec | WipIsBasePlusEdits | users wait for answers |
| HeadStays, NamesStayUnique, WipsStayOnBranches | AllSerialSpec (one request at a time) | HeadExists, BranchNamesUnique, WipsHaveBranches | |
| BranchesAdvance, MergesLast | AllSerialSpec | BranchAdvances, MergedIsInTarget | |
| OneStaysOpen | AllSerialSpec | OneOpenRequest | no request is set back to "init" |
| WipBasesLast | AllSerialSpec | WipBaseInHistory | no base is set by hand |
| MergeBaseAnswersBest, WalksVisit, PagesListHistory | HistorySpec (histories of every shape and length, all dates) | MergeBaseIsBest, WalksVisitHistory, PagesListLine | |
| NodesStaySound, HashesFollowFiles | WipTree's Spec (paths of every length, trees of every size) | NodesSound, SameFilesSameHash | no collisions |
| EditsActOnFiles | WipTree's Spec | ActsOnFiles: Spec implements FlatTree | no collisions |
| MergesStayTyped, DiffsArePlain, MergedTreesKeepBothSides, MergesFailForAReason | TreeMerge's Spec (trees of every depth and width, all choices) | TypeOK, DiffIsPlain, MergeKeepsBothSides, FailsForAReason | no collisions, plain crosses |
| BlobsTypeCorrect, RowsHaveContent, ReadsAreWhole, DeletedStaysGone | LocalBlobs' Spec | TypeOK, ObjectsHaveContent, ReadsWhatIsAsked, DeletedIsGone | |
| UploadTypeCorrect, ListsAreStaged, BuffersAlwaysBalance, NoErrorIsLost, ObjectsArePrefixes | UploadSpec | UploadTypeOK, ListedIsStaged, BuffersBalance, AcceptedIsStored, ObjectIsPart | |

Why the code justifies what is supposed:

- *No revert of paths* (`"RevertWip" \notin Ops`): with it TreesResolve is false,
  a fault of the code (section 5).
- *Users wait for answers* (`SerialClients`): the shipped client does; without it
  the properties are false, as two requests of one user on one wip undo each
  other (section 3). It says nothing of different users, who interleave freely.
- *One request at a time* is no promise of the server. These theorems say what the
  check before each write achieves, and that only overlapping requests defeat it.
- *"init" not set, no base by hand*: UpdateMergeRequest and UpdateWip let a client
  write these fields directly, and then the client decides what holds.
- *No collisions* (`NoCollision`): the hash of a file's content is no directory's.
- *Plain crosses* (`PlainCrosses`): where two ancestors are merged first, no
  directory has its files only renamed on the way to them. Otherwise the virtual
  commit may hold a directory's hash as a file's, the fault that renamed_files
  shows, and it is no tree of files any more that the merge proper starts from. Of
  that merge nothing is supposed: the properties themselves leave out such
  directories, and MergesStayTyped covers them. The run's criss-cross merges have
  none.

### The arguments

**Requests in any order** (Requests_proofs).
RefIntegrity alone is not inductive: `CreateWip` and `CommitChanges` write the
commit a request read earlier, so the invariant needs that what a request
remembers is still good. `IInv` is that the rows are of their types (`RowsOK`),
RefIntegrity, and `ReadSound` of every request: a request that found its branch
has the branch's id, and the commits it read are stored. `RequestStep` is the one
place that uses that commits only grow; every action's lemma first says what the
tables become, then what the request becomes, and `NewWips` and `SameStore` put
the two together. `CommitChangesStep` is where a commit appears: the row is new
(`NewCommitFresh`), its parent is the tip that was read, and branch and wip name
it in the same step. `ServerInv` and `MergeInv` add what the ref and the merge
requests remember; a wip's step keeps their part because commits only grow, and
theirs keeps the wips' part because an id is drawn once. That every id in a table
was drawn (`spent`) is proved apart (`IdsStep`): it is what TagsStay rests on, as
a tag that is deleted by id is the tag that was shown. For TreesResolve the
invariant says in addition that a tree that a request is about to save is stored
(`TreeInv`).

**What a merge keeps** (Requests_proofs). MergeUndoesNothing asks where a
content came from, which takes an induction along the history. `CommitsOrdered`
stands in for it: of any stored commits one comes after none of the others and one
before none. It is kept because a new commit is behind nothing yet, and of a set of
commits with some property it gives the first. A step of MergeCommit is described
once (`Made`, `MergeMade`): the pairs it merges, a tree for each, the new commits.
A merged file is as on a side that changed it or as on both, and the base of a pair
has it from one of the pair's best ancestors, over a virtual commit as without
(`MadePairs`). Where a side differs from a best ancestor, the first commit that
only this side has, comes after the ancestor and differs from it has touched the
file (`SideTouched`). Over one base there is more: every common ancestor is in that
base's history (`BaseIsLast`), and either all of the commit's parents differ from
it, and it made the change, or it is an earlier merge that took the content from
the side away from the base, and MergeUndoesNothing, which held of that merge, names
the commit (`SideChanged`). Which of the two is asked of a commit does not change as
others are stored (`PlainStays`). `CommitsKeepWork` says what is asked of the new
commits; the merge commit and its virtual ones have it (`MergeKeepsWork`). Other
commits have one parent, and nothing to undo.

**Wips and their edits** (InTurn_proofs). A request writes a tree it computed
from an older read; that this is the wip as it is rests on nobody having touched
the wip since. `EditsInv` says so: the requests in flight are of different users
(`Alone`), a user has one wip on a branch (`OneWip`), and what a request read of
its wip and computed from it still fits (`WipRead`). The refinement maps
every step to one of AtomicWips or to a stutter; `CommitChanges` is the one step
that takes the effect of a whole request, and an upload takes effect when the wip
gets its tree, not when the nodes are stored. `Live` is what it needs besides: the
wip a request found is there, as long as no branch is deleted under it.

**One request at a time** (InTurn_proofs). `SerialInv` says that the one request
in flight finds everything as it left it: the branch it checked out is there and
at the tip it read, the name it is to create is free, the wip is the one on the
branch (`WipFresh`, `RefFresh`, `MergeFresh`). From there each check still holds
when its write comes. Histories are least sets closed under parents
(`RepoStore!History`), so that what is needed of them - they grow, a parent is in
its child's, a history's histories are in it - needs no induction. `MergeMoves`
shows that a fast-forward and a merge commit both leave source and target in the
target's history, and `HistoryKept` that what is in a branch's history stays.

**Nodes** (TreeDiff_proofs, WipTree_proofs). The operators on trees are recursive functions over
paths and lists of nodes. What they compute is proved by induction on numbers,
which the library states with an operator as parameter, where it cannot be used;
`SetInduction` states it with a set and proves it from the pigeonhole principle
(`FS_PigeonHole`): were n not in the set, the numbers up to n would fit among those
below n. `AlongEntries`, `RebuiltLevels`, `InsertsOneByOne` and `RevertsOneByOne`
are the equations the four recursions satisfy. `EditFits` is the heart: of the
directories on an edited path those left empty are at its end (`Threshold`), and
what is inserted for the others comes after the file and after what it lists. The
invariant `WipInv` then says that the rows are sound, the wip's tree and its base
can be opened and are no deeper than the paths (`Deep`), and the rest of the edit
under way can be stored in its order, after which its root can be opened.
NodesSound alone is not inductive: it says nothing of the nodes still to come.
A revert edits at the paths the comparison lists. That they are paths of files or
directories, never the root, needs that the comparison ends: every turn moves an
iterator on, so the entries still ahead of the two grow fewer (`DiffIn`); keeping
those under a prefix and sorting them add no others (`UnderIn`, `InOrderIn`).
For HashesFollowFiles every directory but the root has a file below it
(`FileBelow`: a sound row lists no empty directory), so the names in a directory
are the first names of its files' paths (`WayDown`), and its hash is that of its
files if its children's are of theirs (`HashFromFiles`, from the deepest up).

**A wip as a set of files** (WipTree_proofs). EditsActOnFiles is a refinement: the
map reads the files off the roots, and each step is one of FlatTree or changes no
file (`StepsFlat`). The inserts of an edit change none (`TreeExtends`), so an upload
or a deletion takes effect when the wip gets its root. What that will be is the
invariant `PendingDoes`: the files as they are, with or without those at the path.
It holds because the edit was computed from a tree that no other request can
replace (`EditPuts`, `EditDrops`). A revert is one step of many edits. `Reverting`
is what holds between two of them: at the paths already undone the tree has the
base's files, elsewhere the wip's. `RevertEnds` carries it through the recursion to
the end, or to the change that cannot be undone. At the end the files under the
prefix are the base's, since no changed file is hidden below a directory that was
only renamed in (`HitsUndone`). A revert that ends early says why, and each answer
is one FlatTree allows: "path not found" only at such a directory (`UndoRenamed`),
where files have moved and as many of each content are left (`RenamedMoves`);
"entry exit" and "blob must be leaf" only at a file of the base (`EndsAtFile`). In
the second case the file in the way is outside of the prefix, because the changes
are undone in the order of their paths, those above first (`EarlierUndone`).

**Comparison and merge** (TreeDiff_proofs, TreeMerge_proofs). The comparison is a
loop over two iterators (`DiffIn`). `LoopHolds` carries a fact back from its end to
its beginning: what it lists from two positions on is what is `Noted` among the
entries ahead of the two, each once. Of the whole trees that is `DiffLists`;
`InOrderSorts` says that NewChanges only puts it in the order of paths, and
`ChangesArePlain` that without renamed directories only files are noted. An edit
changes the file at its path and no other (`EditedFiles`), and a change is refused
only where its path leads on to another file's or is below one (`ChangeApplies`).
Nodes stored on the way change no tree that was there (`RootsStay`). The merge's
invariant (`MergeInv`) says of a half-done merge (`Halfway`) that a path both sides
changed is still to come from both or from none, that at the paths still to come the
merged tree holds what the base does, and elsewhere what it may (`Wanted`). None of
the four properties speaks of a merge that is half done. With it, the heads of the
two lists can be compared as if the lists were sets (`OnlyHere`): a path at the head
of one list only is nowhere in the other. Where both have it at their head the two
changes are of actions that can meet (`HeadsMeet`), so that what the code calls a
bug (`Refuse`) does not happen. A change that fails is
barred by a path of the base or of a side, which is FailsForAReason. With renamed
directories the invariant is that the trees can be opened, and no more.

**Histories** (CommitHistory_proofs). The properties hold of every history whose
commits come after their parents, and `HistoryOK` says that this is all that
InsertCommit makes; what remains is about the operators. A walk is a loop
(`IsLoop`) whose turns make a measure smaller: three for each commit not seen and
one for each in line. `LoopEnds` shows, once, that the recursive function of such a
loop exists, and `WalkEnds` what comes out of one that picks commits: each once,
and the smallest set that has the first and, of each that is no limit, the parents
(`Reaches`). Breadth-first, preorder and postorder differ only in where the parents
join the line (`TheyJoin`); the walk by time is the same loop over a heap. A
history is the smallest closed set too (`HistoryIsLeast`), which gives
WalksVisitHistory. MergeBase rests on `BehindLimits`: what a walk with limits
leaves out is in the history of a limit it came to. So every common ancestor is in
the history of one that the second walk finds, and the best of those found are the
best of all. That Independents leaves just them (`IndependentsAreTop`) is an
invariant of its loop (`Pruned`): no commit that is left is in the history of
another candidate that has had its turn, even though each walk stops at what
earlier ones have seen. A stop can hide a candidate only if that candidate is
behind another one already, and no two commits are in each other's history
(`HistoryNests`). For the pages, the walk of a line falls in date
(`LineNewestFirst`), a page has the newest of what is older than its date
(`PageShows`), and the next begins at its last.

**Local contents** (LocalBlobs_proofs). Two uploads of one content write one file,
and the later empties it under the earlier. What makes the file whole in the end
is the upload that emptied it last: all it has copied is there, whatever the
others do (`Fresh`, `Mended`). Around it the invariant says whose an inode is
(`InodesOwned`), that names are in directories that are there (`InDirs`), and what
may still happen to a repository that is going or gone (`Life`); what a reader has
got so far agrees with the file as long as nobody disturbed it (`Reads`).

**The copy to Azure** (AzureUpload_proofs). That a list is staged only
when all chunks are needs to know why a writer may be done without having stored
its chunk (`WritersHaveReasons`: it failed, or its context was cancelled), and
where its failure is until the reader hears of it (`FailureIsKnown`: with the
writer, in the channel, or in the reader's error). `WaitStep` puts the two
together: at the end of the part, with all writers done, an empty channel and a
live context, nothing failed and everything is stored. What follows only has to
keep that (`AllStored`, `Listed`, `CompletionSound`), since no writer runs any
more (`WriterRuns`). The object is short of the part only for a reason that `cut`
names: what was read is the part unless the body broke off (`ReadsThePart`), what is
listed is what was read, and the object what is listed unless the list broke off.
That the pool never overflows needs the exact count (`Balance`): whoever gives a buffer back is counted as holding it
(`PoolHasRoom`). `WriterStep` has what the five steps of a writer share.

The invariants `EditsInv`, `SerialInv`, LocalBlobs' `IInv` and that of the copy
were checked with TLC before they were proved, on instances like those of section
3 or smaller (SerialInv with two merge handlers, the copy with 3 chunks, 2 writers
and 2 failures). `MergeInv` of TreeMerge_proofs speaks of all paths and all earlier
tables, which TLC cannot enumerate; the properties it implies were.

### Model-checked only

- CopyReturns: liveness, which the provers do not do under fairness.
- That a merge's content comes from a commit that differs from all of its parents
  also after merges over several best common ancestors: so it is in merge_trees
  (section 3).
- BranchAdvances under AllSpec is false (lost_commit).

## 5. What is not modelled, and what does not hold

Left out:

- Times, messages, authors; hash collisions, and two equal commits within one
  second.
- Permissions: a request is one that passed. Revert's own check, that the
  operator owns the repository, is kept. Members, groups, accounts, sessions and
  access keys: their rows are written by one statement per request, and only
  unique keys relate them.
- The answers clients get: CreateMergeRequest may report an error with
  its row in place.
- Requests that only read (listings, GetMergeState): they change nothing.
  GetMergeState merges in a transaction that it rolls back (`work_repo.go:738`), and
  then reads the tree of a virtual commit that went with it. The
  list of commits is modelled for its pages, differences as TreeDiff, downloads
  in LocalBlobs.
- The tables of DeleteRepository one by one: its rows go in one transaction.
- Of block storage: S3, GS and IPFS, whose behaviour is their services'; copying
  between objects, and uploads in parts elsewhere than Azure, which no request of
  the server uses.
- Configuration, routing, command line, and generated code. `api/jiaozifs.gen.go`
  alone is a third of the implementation's lines, all of it encoding and routing.

Met while modelling, without a run of its own:

- Revert of a path inserts its nodes in a transaction but updates the wip through
  the connection outside of it (`work_repo.go:315`): until the transaction
  commits, and for good if it does not, the wip names a tree that is not there.
  WorkRepo has both steps (`RevertPaths`, `RevertCommit`); TreesResolve fails in
  any run of it with "RevertWip" in `Ops`, and is checked without.
- The pages of a commit list are cut by date from a walk in the order of visits
  (`repository_ctl.go:497`). After a merge, or with dates that go against the
  parent links, commits are missing or shown twice. PagesListLine speaks of
  histories without merges.
- The completion of an upload to Azure does not ask whether the download of the
  list of chunks broke off (`multipart_block_writer.go:131-136` never looks at
  `scanner.Err`): the object is made of as many chunks as came, and the list is
  removed. A part whose body is cut off is accepted as far as it came
  (`chunkwriting.go:169,174`). ObjectIsPart allows for both. An empty part is
  accepted, but its completion fails: the list of no chunks reads as a list of
  one empty name.
- Of three or more best common ancestors a merge takes two (`work_repo.go:893-905`)
  and counts what only another one holds as changed on both sides, or on neither.
- The in-memory adapter completes an upload from a list of zeros
  (`mem/adapter.go:43`) and waits for its own lock in UploadCopyPart; the GS
  adapter lists a namespace by delimiter instead of prefix when it removes one
  (`gs/adapter.go:248`), which deleting a repository uses where GS is the
  configured storage. No request completes or copies parts in memory.

## 6. Plan

Done: wip, ref and merge requests, merge bases, nested trees, their comparison
and merge, local contents, parts to Azure; theorems about all requests,
the stored nodes, the hashes and the files of trees, their comparison and merge,
histories, local contents and the copy to Azure. Next: permissions, that is, members
and groups beside the requests they allow.
