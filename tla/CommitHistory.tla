--------------------------- MODULE CommitHistory ---------------------------
(***************************************************************************)
(* The commits of a repository as a history: the walks over it             *)
(* (versionmgr/commit_walker*.go), the merge base of two commits           *)
(* (versionmgr/merge_base.go) and the paged list of a ref's commits        *)
(* (controller/repository_ctl.go).                                         *)
(*                                                                         *)
(* Commits are numbered in the order they are inserted.  A commit's date   *)
(* is its committer's clock in milliseconds, the unit clients see; nothing *)
(* makes the dates follow the parent links.  Where the code sorts by date, *)
(* commits of one millisecond come in any order.                           *)
(***************************************************************************)
EXTENDS Naturals, Sequences, SequencesExt, FiniteSets

CONSTANTS
    MaxCommits,  \* bound on the commits of a history
    Times,       \* the dates clocks show
    Amounts      \* page lengths clients ask for

ASSUME HistoryAssumption ==
    MaxCommits \in Nat /\ Times \subseteq Nat /\ Amounts \subseteq Nat \ {0}

VARIABLES
    parents,  \* commit -> the sequence of its parents
    when      \* commit -> its date

historyVars == <<parents, when>>

Commits == 1 .. Len(parents)
Newest  == Len(parents)

----------------------------------------------------------------------------
\* A walk visits each commit once.  It takes the next commit from the front of
\* a line, and the parents of a commit that is no limit join the line where
\* join(line, parents) puts them.
Lines == [line : Seq(Commits), seen : SUBSET Commits]
More(c, limit) == IF c \in limit THEN <<>> ELSE parents[c]
Visit(join(_, _), from, limit) ==
    LET walk[w \in Lines] ==
            IF w.line = <<>> THEN <<>>
            ELSE LET c    == Head(w.line)
                     rest == Tail(w.line)
                 IN  IF c \in w.seen THEN walk[[line |-> rest, seen |-> w.seen]]
                     ELSE <<c>> \o walk[[line |-> join(rest, More(c, limit)),
                                         seen |-> w.seen \cup {c}]]
    IN  walk[[line |-> <<from>>, seen |-> {}]]

BreadthFirst(from, limit) == Visit(LAMBDA line, ps : line \o ps, from, limit)

\* Mutant: parents take the place of what is left of the stack.
PreorderOnePath(from) ==
    Visit(LAMBDA line, ps : IF ps = <<>> THEN line ELSE ps, from, {})

Preorder(from) == Visit(LAMBDA line, ps : ps \o line, from, {})

Postorder(from) == Visit(LAMBDA line, ps : Reverse(ps) \o line, from, {})

\* The walk by time takes one of the newest commits from a heap, which a seen
\* commit never joins.
Heaps == {w \in [heap : SUBSET Commits, seen : SUBSET Commits] : w.heap \cap w.seen = {}}
ByTime(from) ==
    LET walk[w \in Heaps] ==
            IF w.heap = {} THEN <<>>
            ELSE LET c    == CHOOSE d \in w.heap : \A e \in w.heap : when[d] >= when[e]
                     seen == w.seen \cup {c}
                 IN  <<c>> \o walk[[heap |-> (w.heap \cup ToSet(parents[c])) \ seen, seen |-> seen]]
    IN  walk[[heap |-> {from}, seen |-> {}]]

IsAncestor(a, c) == a \in ToSet(Preorder(c))

----------------------------------------------------------------------------
\* The orders sort.Slice may give to a set of commits: newest first.
NewestFirst(s) == \A i, j \in DOMAIN s : i < j => when[s[i]] >= when[s[j]]
SortedByDate(S) == {s \in SetToSeqs(S) : NewestFirst(s)}

\* Mutant: the history of the first candidate only is taken away.
IndependentsOnce(sorted) ==
    {c \in ToSet(sorted) : c = sorted[1] \/ ~IsAncestor(c, sorted[1])}

\* Independents: each candidate that is left, in turn, walks its history, up to
\* what earlier candidates have walked, and takes the other candidates it meets
\* off the list.  What it answers is modelled as a set: nobody asks for its order.
Prune(p, from) ==
    LET history == ToSet(BreadthFirst(from, p.seen))
    IN  IF from \notin p.left THEN p
        ELSE [left |-> (p.left \ history) \cup {from}, seen |-> p.seen \cup history]
Independents(sorted) ==
    LET after[i \in 0 .. Len(sorted)] ==
            IF i = 0 THEN [left |-> ToSet(sorted), seen |-> {}] ELSE Prune(after[i - 1], sorted[i])
    IN  after[Len(sorted)].left

\* MergeBase of two commits that the sort has put in this order.
MergeBaseOf(newer, older) ==
    LET index  == ToSet(BreadthFirst(newer, {}))
        shared == ToSet(BreadthFirst(older, index)) \cap index
    IN  IF older \in index THEN {{older}}
        ELSE {Independents(s) : s \in SortedByDate(shared)}

\* All that MergeBase may answer for two commits.
MergeBase(a, b) ==
    UNION {MergeBaseOf(s[1], s[2]) : s \in {t \in {<<a, b>>, <<b, a>>} : NewestFirst(t)}}

----------------------------------------------------------------------------
\* Mutant: the page is cut to its length before the dates are compared.
PageCutFirst(tip, after, amount) ==
    LET walk == Preorder(tip)
    IN  SelectSeq(SubSeq(walk, 1, IF Len(walk) < amount THEN Len(walk) ELSE amount),
                  LAMBDA c : when[c] < after)

\* One page of the list of a ref's commits: the commits of the walk that are
\* older than the date after, the first amount of them.
Shown(page, c, after, amount) ==
    IF when[c] < after /\ Len(page) < amount THEN Append(page, c) ELSE page
Page(tip, after, amount) ==
    LET walk == Preorder(tip)
        page[i \in 0 .. Len(walk)] ==
            IF i = 0 THEN <<>> ELSE Shown(page[i - 1], walk[i], after, amount)
    IN  page[Len(walk)]

\* What a client gets that asks for page after page, each after the date of
\* the last commit it was shown.  Never is a date after all dates.
Never == 1 + CHOOSE t \in ToSet(when) : \A u \in ToSet(when) : u <= t
AllPages(tip, amount) ==
    LET pages[after \in Nat] ==
            LET page == Page(tip, after, amount)
            IN  IF page = <<>> THEN <<>> ELSE page \o pages[when[Last(page)]]
    IN  pages[Never]

----------------------------------------------------------------------------
HistoryInit == parents = <<>> /\ when = <<>>

InsertCommit(ps, t) ==
    /\ Len(parents) < MaxCommits
    /\ parents' = Append(parents, ps)
    /\ when' = Append(when, t)

\* commitChangeRoot: a first commit, or a commit on the tip of a branch, which
\* may have been created at any commit.
Commit(t) == \E ps \in {<<>>} \cup {<<c>> : c \in Commits} : InsertCommit(ps, t)

\* merge: two commits neither of which is in the other's history, but with a
\* common ancestor; else it fails or moves the branch without a new commit.
Merge(a, b, t) ==
    /\ ~IsAncestor(a, b) /\ ~IsAncestor(b, a)
    /\ {} \notin MergeBase(a, b)
    /\ InsertCommit(<<a, b>>, t)

HistoryNext == \E t \in Times : Commit(t) \/ \E a, b \in Commits : Merge(a, b, t)

HistorySpec == HistoryInit /\ [][HistoryNext]_historyVars

----------------------------------------------------------------------------
\* What the operators are measured against: the history of a commit, the
\* common ancestors of two commits, and the best of those.
History[c \in Commits] == {c} \cup UNION {History[p] : p \in ToSet(parents[c])}
Shared(a, b) == History[a] \cap History[b]
Best(a, b)   == {c \in Shared(a, b) : \A d \in Shared(a, b) \ {c} : c \notin History[d]}
Once(s)      == \A i, j \in DOMAIN s : s[i] = s[j] => i = j

\* Rows of commits never change: it is enough to look at the newest commit, and
\* at the pairs it is in, in every state.

\* MergeBase answers exactly the best common ancestors, "the best common
\* ancestors can not be reached from other common ancestors" (merge_base.go),
\* whatever the clocks of the committers showed.
MergeBaseIsBest ==
    \A c \in Commits : \A bases \in MergeBase(Newest, c) \cup MergeBase(c, Newest) :
        bases = Best(Newest, c)

\* Every walk visits the commits of a history and each of them once; so
\* IsAncestor, which is a walk, is right.  The walk by time is newest first
\* wherever children are not dated before their parents.
WalksVisitHistory ==
    Newest > 0 =>
        /\ \A walk \in {BreadthFirst(Newest, {}), Preorder(Newest), Postorder(Newest),
                        ByTime(Newest)} : Once(walk) /\ ToSet(walk) = History[Newest]
        /\ (\A c \in History[Newest] : \A p \in ToSet(parents[c]) : when[p] <= when[c])
              => NewestFirst(ByTime(Newest))

\* Dates that tell commits apart and follow the parent links.
Dated(c) ==
    /\ \A d, e \in History[c] : when[d] = when[e] => d = e
    /\ \A d \in History[c] : \A p \in ToSet(parents[d]) : when[p] < when[d]

\* Page by page a client gets a ref's commits, each once: amount is "how many
\* items to return" and after asks for the "items after this value"
\* (api/swagger.yml).  The walk is in the order of dates only where nothing was
\* merged, so this is said of such histories; after a merge, a page can begin
\* at a date that other commits of the line still lie after.
PagesListLine ==
    Newest > 0 /\ Dated(Newest) /\ (\A c \in History[Newest] : Len(parents[c]) < 2) =>
        \A n \in Amounts : /\ Once(AllPages(Newest, n))
                           /\ ToSet(AllPages(Newest, n)) = History[Newest]
=============================================================================
