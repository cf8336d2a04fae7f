--------------------------- MODULE MergeRequests ---------------------------
(***************************************************************************)
(* Merge requests (controller/merge_request_ctl.go,                        *)
(* models/merge_request.go) beside the ref and wip requests of Server, and *)
(* the merge itself (Merge and merge in versionmgr/work_repo.go).          *)
(*                                                                         *)
(* Merge runs in one transaction, but reads the source branch, the target  *)
(* branch and the commits in it by statements of their own, and others may *)
(* commit between them; its writes become visible together.  It never      *)
(* looks at the state the merge request is in.  Where two commits have     *)
(* several best common ancestors, two of these are merged first, into a    *)
(* virtual commit that is stored like any other.                           *)
(***************************************************************************)
EXTENDS Server

CONSTANTS
    MergeHandlers,  \* goroutines that serve merge requests
    MaxNumber,      \* bound on the merge requests of a run
    SetStates       \* the states clients set by UpdateMergeRequest

VARIABLES
    mrs,   \* merge_requests: sequence number -> [source, target, state]
    mreq,  \* handler -> the request it serves
    took   \* history variable: number -> the source commit its last merge took

mergeVars == <<mrs, mreq, took>>

MergeStates == {"init", "merged", "closed"}
ASSUME MergeAssumption == MaxNumber \in Nat /\ IsFiniteSet(CommitIds)

Numbers    == 1 .. MaxNumber
MrRow      == [source : BranchIds, target : BranchIds, state : MergeStates \cup SetStates]
MergeCall  == [pc : {"idle", "find", "open", "insert", "read", "source", "target", "merge"},
               number : 0 .. MaxNumber, name : Names,
               source : BranchIds \cup {NoId}, target : BranchIds \cup {NoId},
               s : CommitIds \cup {NoCommit}, t : CommitIds \cup {NoCommit}]
MergeIdle  == [pc |-> "idle", number |-> 0, name |-> MainName, source |-> NoId, target |-> NoId,
               s |-> NoCommit, t |-> NoCommit]

MergeInit ==
    /\ mrs = [n \in {} |-> [source |-> NoId, target |-> NoId, state |-> "init"]]
    /\ mreq = [k \in MergeHandlers |-> MergeIdle]
    /\ took = [n \in Numbers |-> NoCommit]

OpenRequests(s, t) ==
    {n \in DOMAIN mrs : mrs[n] = [source |-> s, target |-> t, state |-> "init"]}

Advance(k, call) == mreq' = [mreq EXCEPT ![k] = call] /\ UNCHANGED <<serverVars, mrs, took>>
MergeDone(k)     == mreq' = [mreq EXCEPT ![k] = MergeIdle]

----------------------------------------------------------------------------
\* CreateMergeRequest finds its two branches by two different names, the source
\* and then the target.
FindSource(k, b) ==
    /\ mreq[k].pc = "idle"
    /\ b \in DOMAIN branches
    /\ Advance(k, [MergeIdle EXCEPT !.pc = "find", !.source = b, !.name = branches[b].name])

FindTarget(k, b) ==
    /\ mreq[k].pc = "find"
    /\ b \in DOMAIN branches /\ branches[b].name # mreq[k].name
    /\ Advance(k, [mreq[k] EXCEPT !.pc = "open", !.target = b, !.name = MainName])

\* Mutant: the merge requests are looked up with the branches swapped.
CheckSwapped(k) ==
    /\ mreq[k].pc = "open"
    /\ OpenRequests(mreq[k].target, mreq[k].source) = {}
    /\ Advance(k, [mreq[k] EXCEPT !.pc = "insert"])

\* It finds no merge request in state init between them ...
CheckOpen(k) ==
    /\ mreq[k].pc = "open"
    /\ OpenRequests(mreq[k].source, mreq[k].target) = {}
    /\ Advance(k, [mreq[k] EXCEPT !.pc = "insert"])

\* ... and inserts one with the next number.  Whatever fails after that fails
\* with the row in place.
InsertRequest(k) ==
    LET n == Cardinality(DOMAIN mrs) + 1
    IN  /\ mreq[k].pc = "insert" /\ n <= MaxNumber
        /\ mrs' = AddRow(mrs, n, [source |-> mreq[k].source, target |-> mreq[k].target,
                                  state |-> "init"])
        /\ MergeDone(k)
        /\ UNCHANGED <<serverVars, took>>

\* UpdateMergeRequest sets whatever state the client names, from any state, in one
\* statement.
UpdateRequest(n, state) ==
    /\ n \in DOMAIN mrs
    /\ mrs' = [mrs EXCEPT ![n].state = state]
    /\ UNCHANGED <<serverVars, mreq, took>>

\* Merge reads the merge request, in whatever state it is ...
ReadRequest(k, n) ==
    /\ mreq[k].pc = "idle"
    /\ n \in DOMAIN mrs
    /\ Advance(k, [MergeIdle EXCEPT !.pc = "read", !.number = n, !.source = mrs[n].source,
                                    !.target = mrs[n].target])

\* ... the source branch by its id, and the target branch by its id ...
ReadSourceBranch(k) ==
    LET b == mreq[k].source
    IN  /\ mreq[k].pc = "read"
        /\ b \in DOMAIN branches
        /\ Advance(k, [mreq[k] EXCEPT !.pc = "source", !.source = NoId, !.s = branches[b].commit])

ReadTargetBranch(k) ==
    LET b == mreq[k].target
    IN  /\ mreq[k].pc = "source"
        /\ b \in DOMAIN branches
        /\ Advance(k, [mreq[k] EXCEPT !.pc = "target", !.target = NoId, !.name = branches[b].name])

\* ... and then, to check it out, a branch by the target's name.
CheckOutTarget(k, b) ==
    /\ mreq[k].pc = "target"
    /\ b \in NamedRows(mreq[k].name)
    /\ Advance(k, [mreq[k] EXCEPT !.pc = "merge", !.target = b, !.name = MainName,
                                  !.t = branches[b].commit])

----------------------------------------------------------------------------
\* Mutant: the target stands in for the ancestor.
TargetAsAncestor(s, t) == {t}

\* The common ancestors of two commits that are in no other's history; see
\* CommitHistory for how they are found.
BestAncestors(s, t) ==
    LET shared == History(commits, s) \cap History(commits, t)
    IN  {c \in shared : \A d \in shared \ {c} : c \notin History(commits, d)}

\* The pairs of commits that a merge of s and t merges, n of them: s and t and, as
\* long as a pair has several best common ancestors, two of these
\* (findBestAncestor takes the first two; which ones are first is up to dates).
\* All are in the history of both, and the last pair has one best ancestor.
MergedPairs(n, s, t) ==
    LET shared == History(commits, s) \cap History(commits, t)
    IN  {ps \in [1 .. n -> {<<s, t>>} \cup {p \in shared \X shared : p[1] # p[2]}] :
            /\ ps[1] = <<s, t>>
            /\ \A i \in 1 .. n - 1 :
                  {ps[i + 1][1], ps[i + 1][2]} \subseteq BestAncestors(ps[i][1], ps[i][2])
            /\ \E a \in CommitIds : BestAncestors(ps[n][1], ps[n][2]) = {a}}

\* The trees a merge of s and t over the base a may produce: a file that one
\* side left alone is as on the other side; a conflict is resolved path by path,
\* from what the request says, for either side.
MergedTrees(a, s, t) ==
    {m \in Tree : \A x \in Paths : m[x] \in IF s[x] = a[x] THEN {t[x]}
                                             ELSE IF t[x] = a[x] THEN {s[x]} ELSE {s[x], t[x]}}

\* What ForbidResolver lets pass: no file is changed on both sides in two ways.
NoConflict(a, s, t) == \A x \in Paths : a[x] \in {s[x], t[x]} \/ s[x] = t[x]

\* Of two commit hashes, the one whose history holds the other, if any.
Ahead(s, t) ==
    {c \in {s, t} \ {NoCommit} : {s, t} \subseteq History(commits, c) \cup {NoCommit}}

\* The writes of the transaction: the target's commit and the state.
MoveTarget(k, c) ==
    LET r == mreq[k]
    IN  /\ branches' = SetBranchCommit(branches, r.target, c)
        /\ mrs' = [mrs EXCEPT ![r.number].state = "merged"]
        /\ took' = [took EXCEPT ![r.number] = r.s]
        /\ MergeDone(k)
        /\ UNCHANGED <<head, wips, spent, wreq, edits, refVars>>

\* Mutant: the target goes to the source's commit whenever one side is ahead.
FastForwardToSource(k) ==
    /\ mreq[k].pc = "merge"
    /\ Ahead(mreq[k].s, mreq[k].t) # {} /\ mreq[k].s # NoCommit
    /\ MoveTarget(k, mreq[k].s)
    /\ UNCHANGED <<commits, trees>>

\* One side has no commits or is in the other's history: no new commit.
FastForward(k) ==
    /\ mreq[k].pc = "merge"
    /\ \E c \in Ahead(mreq[k].s, mreq[k].t) : MoveTarget(k, c)
    /\ UNCHANGED <<commits, trees>>

\* The trees ms are merges of the pairs ps of commits, each over the merge of the
\* next pair, the last over their one best ancestor.
AreMerges(ms, ps) ==
    LET n == Len(ps)
    IN  \E a \in BestAncestors(ps[n][1], ps[n][2]) :
           /\ \A i \in 1 .. n :
                 LET base == IF i = n THEN TreeOf(a) ELSE ms[i + 1]
                     s    == TreeOf(ps[i][1])
                     t    == TreeOf(ps[i][2])
                 IN  /\ ms[i] \in MergedTrees(base, s, t) /\ Stored(s) /\ Stored(t)
                     /\ i > 1 => NoConflict(base, s, t)
           /\ Stored(TreeOf(a))

\* Otherwise a commit on the merged tree, with parents, and the virtual commits it
\* took.
MergeOver(k, parents) ==
    LET s == mreq[k].s
        t == mreq[k].t
    IN  /\ mreq[k].pc = "merge"
        /\ NoCommit \notin {s, t} /\ Ahead(s, t) = {}
        /\ \E n \in 1 .. Cardinality(CommitIds \ DOMAIN commits) :
              \E ps \in MergedPairs(n, s, t), ms \in [1 .. n -> Tree] :
                 LET new == NewCommits(n)
                     row(i) == [tree |-> ms[i], parents |-> IF i = 1 THEN parents ELSE ps[i]]
                 IN  /\ AreMerges(ms, ps)
                     /\ commits' = [c \in DOMAIN commits \cup {new[i] : i \in 1 .. n} |->
                                       IF c \in DOMAIN commits THEN commits[c]
                                       ELSE row(CHOOSE i \in 1 .. n : new[i] = c)]
                     /\ MoveTarget(k, new[1])
StoreMerge ==
    trees' = trees \cup {commits'[c].tree : c \in DOMAIN commits' \ DOMAIN commits}

\* Mutants: only the target becomes a parent; the merged nodes are not stored; the
\* new commit is not inserted.
SquashMerge(k) == MergeOver(k, <<mreq[k].t>>) /\ StoreMerge
MergeUnstored(k) == MergeOver(k, <<mreq[k].s, mreq[k].t>>) /\ UNCHANGED trees

MergeNoCommit(k) ==
    /\ mreq[k].pc = "merge" /\ HasNewCommit
    /\ NoCommit \notin {mreq[k].s, mreq[k].t} /\ Ahead(mreq[k].s, mreq[k].t) = {}
    /\ MoveTarget(k, NewCommit)
    /\ UNCHANGED <<commits, trees>>

MergeCommit(k) == MergeOver(k, <<mreq[k].s, mreq[k].t>>) /\ StoreMerge

MergeAbort(k) == mreq[k].pc # "idle" /\ Advance(k, MergeIdle)

CreateMergeRequest(k) ==
    \/ \E b \in BranchIds : FindSource(k, b) \/ FindTarget(k, b)
    \/ CheckOpen(k) \/ InsertRequest(k)
MergeRequest(k) ==
    \/ \E n \in Numbers : ReadRequest(k, n)
    \/ \E b \in BranchIds : CheckOutTarget(k, b)
    \/ ReadSourceBranch(k) \/ ReadTargetBranch(k) \/ FastForward(k) \/ MergeCommit(k)
UpdateMergeRequest == \E n \in Numbers, state \in SetStates : UpdateRequest(n, state)

MergeNext ==
    \/ \E k \in MergeHandlers : CreateMergeRequest(k) \/ MergeRequest(k) \/ MergeAbort(k)
    \/ UpdateMergeRequest

----------------------------------------------------------------------------
AllVars == <<serverVars, mergeVars>>

AllInit == ServerInit /\ MergeInit
AllNext == MergeNext \/ (ServerNext /\ UNCHANGED mergeVars)
AllSpec == AllInit /\ [][AllNext]_AllVars

\* One request at a time on the whole server.
MergeQuiet  == \A k \in MergeHandlers : mreq[k].pc = "idle"
OneMerge    == \A k, i \in MergeHandlers : mreq[k].pc # "idle" /\ mreq[i].pc # "idle" => k = i
AllOneByOne ==
    \/ MergeNext /\ OneMerge' /\ Quiet /\ RefQuiet
    \/ OneByOne /\ MergeQuiet /\ UNCHANGED mergeVars
AllSerialSpec == AllInit /\ [][AllOneByOne]_AllVars

----------------------------------------------------------------------------
AllTypeOK ==
    /\ ServerTypeOK
    /\ IsTable(mrs, Numbers, MrRow)
    /\ mreq \in [MergeHandlers -> MergeCall]
    /\ took \in [Numbers -> CommitIds \cup {NoCommit}]

\* Two branches have one open merge request ("merge request between %s and %s
\* already exists", merge_request_ctl.go).
OneOpenRequest == \A n, m \in DOMAIN mrs :
    mrs[n].state = "init" /\ mrs[n] = mrs[m] => n = m

\* A commit with no merge over several best common ancestors in its history.
Plain(c) ==
    \A d \in History(commits, c) : \A p, q \in Parents(commits, d) :
        p # q => \E a \in CommitIds : BestAncestors(p, q) = {a}

\* A merge undoes nobody's work: where it differs from one of its parents, a
\* commit that only the other parent's history has changed that file: from every
\* parent it has itself, if all merges so far were over one best common ancestor.
\* Over several, of which the code merges two without the others, that commit may
\* be a merge that has the file from one of its parents.
MergeUndoesNothing ==
    \A c \in DOMAIN commits : \A p, q \in Parents(commits, c) : p # q =>
        \A x \in Differ(commits[c].tree, commits[p].tree) :
            \E d \in History(commits, q) \ History(commits, p) :
                LET from == {e \in Parents(commits, d) :
                                 commits[d].tree[x] # commits[e].tree[x]}
                IN  \/ from = Parents(commits, d)
                    \/ from # {} /\ ~Plain(c)

\* What was merged stays merged: the source's commit is in the target's history
\* for as long as the target exists.
MergedIsInTarget ==
    \A n \in DOMAIN mrs :
        mrs[n].target \in DOMAIN branches =>
            Since(commits, took[n], branches[mrs[n].target].commit)
=============================================================================
