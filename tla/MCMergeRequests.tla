-------------------------- MODULE MCMergeRequests --------------------------
(* Small instances of MergeRequests for TLC. *)
EXTENDS MergeRequests, TLC

CONSTANTS u1, v1, v2, h1, k1, m1, m2

MCOneUser == {u1}
PathSymmetry == Permutations(Paths)
\* The requests that move branches, without edits in between.
EmptyCommitOps == {"GetWip", "CommitWip"}

----------------------------------------------------------------------------
\* Repositories that clients reach, with whatever files, to merge in: row i of rows
\* is commit i, main is at commit m and dev at d, the wips they were made from are
\* deleted.  Commit 1 was made on main, 2 on dev, which began at 1, and 3 on main.
\* Request n asks to merge requests[n]; took[n] is the commit it took before.
Reached(rows, m, d, requests, lasts) ==
    /\ head = "main"
    /\ branches = [b1 |-> [name |-> "main", commit |-> m], b2 |-> [name |-> "dev", commit |-> d]]
    /\ commits = rows
    /\ trees = {rows[i].tree : i \in DOMAIN rows} \ {EmptyTree}
    /\ wips = [w \in {} |-> Idle]
    /\ spent = BranchIds \cup WipIds
    /\ wreq = [h \in Handlers |-> Idle]
    /\ edits = [w \in WipIds |-> {}]
    /\ RefInit
    /\ mrs = requests
    /\ mreq = [k \in MergeHandlers |-> MergeIdle]
    /\ took = lasts

Row(t, parents) == [tree |-> t, parents |-> parents]
DevToMain(s)    == [source |-> "b2", target |-> "b1", state |-> s]
\* The request from a branch that was made at commit 3 and is deleted.
OldToDev        == [source |-> "b3", target |-> "b2", state |-> "merged"]

\* Commits 2 and 3 are to be merged.
Forked == \E a, s, t \in Tree :
    Reached(<<Row(a, <<>>), Row(s, <<1>>), Row(t, <<1>>)>>, 3, 2, <<DevToMain("init")>>,
            <<NoCommit, NoCommit>>)

\* They were, in commit 4, and one more commit was made on dev: on commit 2, or on a
\* merge of 3 into dev.  The first merge request is merged again.  (Commit 1 has no
\* files here.)
Crossed == \E s, t, u \in Tree : \E m, n \in MergedTrees(EmptyTree, s, t) :
    LET rows == <<Row(EmptyTree, <<>>), Row(s, <<1>>), Row(t, <<1>>), Row(m, <<2, 3>>)>>
    IN  \/ Reached(rows \o <<Row(u, <<2>>)>>, 4, 5, <<DevToMain("merged")>>, <<2, NoCommit>>)
        \/ Reached(rows \o <<Row(n, <<3, 2>>), Row(u, <<5>>)>>, 4, 6,
                   <<DevToMain("merged"), OldToDev>>, <<2, 3>>)

MergeTreesSpec == (Forked \/ Crossed) /\ [][AllOneByOne]_AllVars
=============================================================================
