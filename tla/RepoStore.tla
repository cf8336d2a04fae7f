----------------------------- MODULE RepoStore -----------------------------
(***************************************************************************)
(* The database rows of one repository (package models) and the row        *)
(* operations the request handlers are built from.  Every statement the    *)
(* handlers run outside a transaction is atomic by itself; a transaction   *)
(* runs at PostgreSQL's default isolation and takes no row locks before    *)
(* it writes, so it appears here as one atomic write of everything it      *)
(* updates, while the reads that led to it are earlier steps.              *)
(*                                                                         *)
(* A table is a function from the primary keys of its rows to the rows.    *)
(* UUID keys are drawn from finite pools and never drawn twice.  A file    *)
(* tree is named by its content hash, so a tree IS its hash here: a flat   *)
(* map from paths to blobs, the map without files being hash.Empty.        *)
(***************************************************************************)
EXTENDS Naturals, Sequences, FiniteSets

CONSTANTS
    Users,      \* accounts that send requests
    Owner,      \* the account that owns the repository
    Names,      \* branch names
    MainName,   \* DefaultBranchName, the branch a new repository starts with
    Paths,      \* paths of files in a work tree
    Blobs,      \* file contents
    NoBlob,     \* what a tree holds at a path where there is no file
    CommitIds,  \* pool of commit hashes (a bound on the commits of a run)
    NoCommit,   \* the empty commit hash
    BranchIds,  \* pool of branch row ids
    WipIds,     \* pool of wip row ids
    NoId        \* the nil row id

ASSUME ConstantsAssumption ==
    /\ Owner \in Users
    /\ MainName \in Names
    /\ NoBlob \notin Blobs
    /\ NoCommit \notin CommitIds
    /\ NoId \notin BranchIds \cup WipIds
    /\ BranchIds \cap WipIds = {}
    /\ BranchIds # {}

VARIABLES
    head,       \* repositories.head: the name of the repository's HEAD branch
    branches,   \* branches: branch id -> [name, commit]
    commits,    \* commits: commit hash -> [tree, parents]
    trees,      \* file_tree: the trees whose nodes are stored
    wips,       \* wips: wip id -> [creator, ref, base, tree]
    spent       \* row ids that were given to a row at some time

storeVars == <<head, branches, commits, trees, wips, spent>>

----------------------------------------------------------------------------
Tree      == [Paths -> Blobs \cup {NoBlob}]
EmptyTree == [x \in Paths |-> NoBlob]

BranchRow == [name : Names, commit : CommitIds \cup {NoCommit}]
CommitRow == [tree : Tree, parents : Seq(CommitIds)]
WipRow    == [creator : Users, ref : BranchIds,
              base : CommitIds \cup {NoCommit}, tree : Tree]

\* A table: some of the keys, each with a row.
IsTable(table, Keys, Rows) ==
    /\ DOMAIN table \subseteq Keys
    /\ \A k \in DOMAIN table : table[k] \in Rows
    /\ table = [k \in DOMAIN table |-> table[k]]

\* Insert of a row with a new key.
AddRow(table, key, row) ==
    [k \in DOMAIN table \cup {key} |-> IF k = key THEN row ELSE table[k]]

\* Delete of the rows whose keys are in keys.
DropRows(table, keys) == [k \in DOMAIN table \ keys |-> table[k]]

\* UpdateByID of a branch or a wip: the affected rows are not counted, so an
\* update of a row that is gone changes nothing and reports no error.
SetBranchCommit(table, id, c) ==
    [k \in DOMAIN table |-> IF k = id THEN [table[k] EXCEPT !.commit = c] ELSE table[k]]
SetWipBase(table, id, c) ==
    [k \in DOMAIN table |-> IF k = id THEN [table[k] EXCEPT !.base = c] ELSE table[k]]
SetWipTree(table, id, t) ==
    [k \in DOMAIN table |-> IF k = id THEN [table[k] EXCEPT !.tree = t] ELSE table[k]]

\* A key no row has or had; a commit hash no stored commit has, and n of those.
NewId(pool)  == CHOOSE i \in pool : i \notin spent
HasId(pool)  == pool \ spent # {}
NewCommit    == CHOOSE c \in CommitIds : c \notin DOMAIN commits
HasNewCommit == CommitIds \ DOMAIN commits # {}
NewCommits(n) == CHOOSE f \in [1 .. n -> CommitIds \ DOMAIN commits] :
                    \A i, j \in 1 .. n : f[i] = f[j] => i = j

\* Wip rows of a creator on a branch; the table's unique key allows one.
WipsOf(u, b) == {w \in DOMAIN wips : wips[w].creator = u /\ wips[w].ref = b}
NamedRows(n) == {b \in DOMAIN branches : branches[b].name = n}

\* A commit hash that Commit() finds, or that is empty.
Known(c)  == c = NoCommit \/ c \in DOMAIN commits
\* A tree NewWorkTree can open: empty, or its nodes are stored.
Stored(t) == t = EmptyTree \/ t \in trees
\* The tree of a commit hash, hash.Empty for the empty hash.
TreeOf(c) == IF c = NoCommit THEN EmptyTree ELSE commits[c].tree

\* The parents of a commit.
Parents(cs, c) == {cs[c].parents[i] : i \in 1 .. Len(cs[c].parents)}

\* A commit with every commit its parent links lead to, in a commits table cs:
\* what every set of commits holds that holds c and, with a commit, its parents.
Closed(cs, S) == \A d \in S \cap DOMAIN cs : Parents(cs, d) \subseteq S
History(cs, c) ==
    LET holding == {S \in SUBSET CommitIds : c \in S /\ Closed(cs, S)}
    IN  IF c = NoCommit THEN {} ELSE {d \in CommitIds : \A S \in holding : d \in S}
\* c is d or comes after it; everything comes after the empty hash.
Since(cs, d, c) == d \in {c, NoCommit} \/ d \in History(cs, c)

\* The paths where two trees differ.
Differ(s, t) == {x \in Paths : s[x] # t[x]}

----------------------------------------------------------------------------
\* CreateRepository: one branch without commits, which is HEAD.
StoreInit ==
    LET main == CHOOSE b \in BranchIds : TRUE
    IN  /\ head = MainName
        /\ branches = [b \in {main} |-> [name |-> MainName, commit |-> NoCommit]]
        /\ commits = [c \in {} |-> [tree |-> EmptyTree, parents |-> <<>>]]
        /\ trees = {}
        /\ wips = [w \in {} |-> [creator |-> Owner, ref |-> main,
                                 base |-> NoCommit, tree |-> EmptyTree]]
        /\ spent = {main}

StoreTypeOK ==
    /\ head \in Names
    /\ IsTable(branches, BranchIds, BranchRow)
    /\ IsTable(commits, CommitIds, CommitRow)
    /\ trees \subseteq Tree
    /\ IsTable(wips, WipIds, WipRow)
=============================================================================
