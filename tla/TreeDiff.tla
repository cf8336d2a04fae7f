------------------------------ MODULE TreeDiff ------------------------------
(***************************************************************************)
(* The difference of two file trees: package versionmgr/merkletrie (a fork *)
(* of go-git's) and the change lists of versionmgr/changes.go.             *)
(*                                                                         *)
(* Two iterators walk the trees side by side, depth first and by name; a   *)
(* position is the path of the entry an iterator is at, or End.  Step goes *)
(* into a directory, Next past it.                                         *)
(***************************************************************************)
EXTENDS WorkTree

End == <<0>>   \* no more entries (names are positive)

\* Path.Compare: by the first name that differs, a directory before what is in it.
Before(p, q) ==
    \/ IsStrictPrefix(p, q)
    \/ \E i \in 1 .. Len(p) : /\ i <= Len(q)
                              /\ p[i] < q[i]
                              /\ \A j \in 1 .. i - 1 : p[j] = q[j]

First(S)   == IF S = {} THEN End ELSE CHOOSE p \in S : \A q \in S \ {p} : Before(p, q)
StepIn(S, p) == First({q \in S : Before(p, q)})
NextIn(S, p) == First({q \in S : Before(p, q) /\ ~IsStrictPrefix(p, q)})

\* The paths of S in their order.
Sorted(S) ==
    [i \in 1 .. Cardinality(S) |->
        CHOOSE p \in S : Cardinality({q \in S : Before(q, p)}) = i - 1]

\* A change: the entry before (NoEntry for an insertion) and after (NoEntry for
\* a deletion).
Change(p, from, to) == [path |-> p, from |-> from, to |-> to]
Action(c) == IF c.from = NoEntry THEN "Insert" ELSE IF c.to = NoEntry THEN "Delete" ELSE "Modify"

\* AddRecursiveDelete and AddRecursiveInsert: one change per file at or below p.
FilesUnder(rows, root, S, p) ==
    Sorted({q \in S : IsPrefix(p, q) /\ ~EntryAt(rows, root, q).isDir})
Deletes(rows, root, S, p) ==
    LET fs == FilesUnder(rows, root, S, p)
    IN  [i \in 1 .. Len(fs) |-> Change(fs[i], EntryAt(rows, root, fs[i]), NoEntry)]
Inserts(rows, root, S, p) ==
    LET fs == FilesUnder(rows, root, S, p)
    IN  [i \in 1 .. Len(fs) |-> Change(fs[i], NoEntry, EntryAt(rows, root, fs[i]))]

\* isDiffChildrenSame: the children's hashes, in the order of their names.
ChildHashes(rows, h) ==
    LET kids == Kids(rows, h)
        ps   == Sorted({<<n>> : n \in DOMAIN kids})
    IN  [i \in 1 .. Len(ps) |-> kids[ps[i][1]].hash]
SameChildren(rows, h, g) == ChildHashes(rows, h) = ChildHashes(rows, g)

\* DiffTreeContext: the loop over the two iterators, at positions f and g.
DiffTree(rows, from, to) ==
    LET F == PathsIn(rows, from)
        T == PathsIn(rows, to)
        diff[c \in (F \cup {End}) \X (T \cup {End})] ==
            LET f == c[1]
                g == c[2]
                a == EntryAt(rows, from, f)
                b == EntryAt(rows, to, g)
            IN  IF f = End /\ g = End THEN <<>>
                ELSE IF g = End \/ (f # End /\ Before(f, g))
                THEN Deletes(rows, from, F, f) \o diff[<<NextIn(F, f), g>>]
                ELSE IF f = End \/ Before(g, f)
                THEN Inserts(rows, to, T, g) \o diff[<<f, NextIn(T, g)>>]
                ELSE IF a.hash = b.hash THEN diff[<<NextIn(F, f), NextIn(T, g)>>]
                ELSE IF a.isDir # b.isDir
                THEN Deletes(rows, from, F, f) \o Inserts(rows, to, T, g)
                         \o diff[<<NextIn(F, f), NextIn(T, g)>>]
                ELSE IF a.isDir /\ ~SameChildren(rows, a.hash, b.hash)
                THEN diff[<<StepIn(F, f), StepIn(T, g)>>]
                ELSE <<Change(f, a, b)>> \o diff[<<NextIn(F, f), NextIn(T, g)>>]
    IN  diff[<<First(F), First(T)>>]

\* NewChanges: each change goes behind those whose paths come before its own.
InOrder(cs) ==
    LET sorted[i \in 0 .. Len(cs)] ==
            IF i = 0 THEN <<>>
            ELSE LET s == sorted[i - 1]
                     k == Cardinality({j \in 1 .. Len(s) : Before(s[j].path, cs[i].path)})
                 IN  SubSeq(s, 1, k) \o <<cs[i]>> \o SubSeq(s, k + 1, Len(s))
    IN  sorted[Len(cs)]
Changes(rows, from, to) == InOrder(DiffTree(rows, from, to))

----------------------------------------------------------------------------
\* The plain difference of two file maps, path by path.
PlainChanges(f, g) ==
    {Change(p, IF p \in DOMAIN f THEN File(f[p]) ELSE NoEntry,
               IF p \in DOMAIN g THEN File(g[p]) ELSE NoEntry) :
        p \in {q \in DOMAIN f \cup DOMAIN g :
                  ~(q \in DOMAIN f /\ q \in DOMAIN g /\ f[q] = g[q])}}

\* The directories that hold the same children's hashes in the same order in
\* both trees, but not under the same names.
OnlyRenamed(rows, from, to) ==
    {p \in PathsIn(rows, from) \cap PathsIn(rows, to) :
        LET a == EntryAt(rows, from, p)
            b == EntryAt(rows, to, p)
        IN  a.isDir /\ b.isDir /\ a # b /\ SameChildren(rows, a.hash, b.hash)}
=============================================================================
