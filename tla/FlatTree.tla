------------------------------ MODULE FlatTree ------------------------------
(***************************************************************************)
(* What a wip promises its user, without nodes and hashes: a set of files, *)
(* each at a path, none below another; and the files of the base commit.   *)
(* Every request is answered by what the files are, and changes the files  *)
(* it names at once and no others.                                         *)
(***************************************************************************)
EXTENDS Naturals, Sequences, FiniteSets, SequencesExt

CONSTANTS Paths, Blobs, RevertPaths, Starts(_, _)

VARIABLES
    files,    \* path -> content
    base,     \* the same of the base commit
    answered  \* the request answered last: [op, path, answer]

Answer(op, p, a) == answered' = [op |-> op, path |-> p, answer |-> a]

Above(p) == \E q \in DOMAIN files : IsStrictPrefix(q, p)   \* a file in the way
Below(p) == \E q \in DOMAIN files : IsStrictPrefix(p, q)   \* p is a directory

Put(p, b) ==
    /\ Answer("upload", p, "ok")
    /\ ~Above(p) /\ ~Below(p)
    /\ files' = [q \in DOMAIN files \cup {p} |-> IF q = p THEN b ELSE files[q]]
    /\ UNCHANGED base

RefusePut(p) ==
    /\ \/ Answer("upload", p, "blob must be leaf") /\ Above(p)
       \/ Answer("upload", p, "entry exit") /\ Below(p)
       \/ Answer("upload", p, "conflict") /\ p \in DOMAIN files
    /\ UNCHANGED <<files, base>>

\* A file, or a directory with everything in it.  Below a file there is nothing
\* to remove, and yet the answer is that it was.
Delete(p) ==
    /\ \/ Answer("delete", p, "ok") /\ (p \in DOMAIN files \/ Below(p) \/ Above(p))
       \/ Answer("delete", p, "path not found") /\ ~(p \in DOMAIN files \/ Below(p) \/ Above(p))
    /\ files' = [q \in {r \in DOMAIN files : ~IsPrefix(p, r)} |-> files[q]]
    /\ UNCHANGED base

\* The changed files whose paths start with the prefix.
Differ(f, g) ==
    {p \in DOMAIN f \cup DOMAIN g : ~(p \in DOMAIN f /\ p \in DOMAIN g /\ f[p] = g[p])}
Hit(prefix) == {p \in Differ(files, base) : Starts(p, prefix)}

\* They go back to the base.
Kept(prefix) == {p \in DOMAIN files : ~Starts(p, prefix)}
Back(prefix) == {p \in DOMAIN base : Starts(p, prefix)}
Revert(prefix) ==
    /\ Answer("revert", prefix, "ok")
    /\ Hit(prefix) # {}
    /\ files' = [p \in Kept(prefix) \cup Back(prefix) |-> IF p \in Back(prefix) THEN base[p] ELSE files[p]]
    /\ UNCHANGED base

\* The files below d were only moved about: the same contents as often.
Copies(f, d, b) == Cardinality({p \in DOMAIN f : IsStrictPrefix(d, p) /\ f[p] = b})
Moved(d) == \A b \in Blobs : Copies(files, d, b) = Copies(base, d, b)
MovedWithin(P) == \E p \in P : \E i \in 1 .. Len(p) - 1 : Moved(SubSeq(p, 1, i))

\* Nothing changed under the prefix; or within a directory files were only
\* renamed; or a directory took the place of a file; or a file outside of the
\* prefix that of a directory.
RefuseRevert(prefix) ==
    /\ \/ /\ Answer("revert", prefix, "not found")
          /\ Hit(prefix) = {} \/ MovedWithin(Hit(prefix))
       \/ Answer("revert", prefix, "path not found") /\ MovedWithin(Hit(prefix))
       \/ /\ Answer("revert", prefix, "entry exit")
          /\ \E p \in Hit(prefix) \cap DOMAIN base : Below(p)
       \/ /\ Answer("revert", prefix, "blob must be leaf")
          /\ \E p \in Hit(prefix) \cap DOMAIN base :
                 \E q \in DOMAIN files \ Hit(prefix) : IsStrictPrefix(q, p)
    /\ UNCHANGED <<files, base>>

RevertAll ==
    /\ Answer("revert", <<>>, "ok")
    /\ files' = base
    /\ UNCHANGED base

Commit ==
    /\ Answer("commit", <<>>, "ok")
    /\ base' = files
    /\ UNCHANGED files

Init ==
    /\ files = <<>> /\ base = <<>>
    /\ answered = [op |-> "commit", path |-> <<>>, answer |-> "ok"]

Next ==
    \/ \E p \in Paths : Delete(p) \/ RefusePut(p) \/ (\E b \in Blobs : Put(p, b))
    \/ \E prefix \in RevertPaths : Revert(prefix) \/ RefuseRevert(prefix)
    \/ RevertAll \/ Commit

Spec == Init /\ [][Next]_<<files, base, answered>>
=============================================================================
