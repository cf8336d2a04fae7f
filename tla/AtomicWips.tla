----------------------------- MODULE AtomicWips -----------------------------
(***************************************************************************)
(* What the wip requests promise a user: each one takes effect at once, on *)
(* the wip as it is at that moment.  A wip is opened on a commit, files are*)
(* put and removed, it is reverted, committed, dropped.  There are no      *)
(* requests in flight here and no snapshots; WorkRepo, where a request     *)
(* writes a tree it computed from an older read, is shown to implement     *)
(* this for users who wait for their answers.                              *)
(***************************************************************************)
CONSTANTS Paths, NoBlob, NoCommit

VARIABLES
    wips,     \* wip -> [base, tree, ...]
    commits,  \* commit -> [tree, ...]; a wip request adds commits, never changes one
    setting   \* wips whose user is setting base or tree by hand

Base(w) == IF wips[w].base = NoCommit THEN [x \in Paths |-> NoBlob]
           ELSE commits[wips[w].base].tree

Open(w) ==
    /\ DOMAIN wips' = DOMAIN wips \cup {w}
    /\ \A o \in DOMAIN wips : wips'[o] = wips[o]
    /\ wips'[w].tree = IF wips'[w].base = NoCommit THEN [x \in Paths |-> NoBlob]
                       ELSE commits[wips'[w].base].tree
    /\ UNCHANGED commits

\* One path gets or changes its file.
Put(w, x) ==
    /\ wips' = [wips EXCEPT ![w].tree[x] = wips'[w].tree[x]]
    /\ UNCHANGED commits

\* Some paths lose their files.
Remove(w, X) ==
    /\ wips' = [wips EXCEPT ![w].tree =
                   [x \in Paths |-> IF x \in X THEN NoBlob ELSE wips[w].tree[x]]]
    /\ UNCHANGED commits

\* Some paths go back to their content in the base commit.
Revert(w, X) ==
    /\ wips' = [wips EXCEPT ![w].tree =
                   [x \in Paths |-> IF x \in X THEN Base(w)[x] ELSE wips[w].tree[x]]]
    /\ UNCHANGED commits

\* A new commit of exactly the wip's tree becomes the wip's base.
Commit(w, c) ==
    /\ DOMAIN commits' = DOMAIN commits \cup {c}
    /\ \A d \in DOMAIN commits : commits'[d] = commits[d]
    /\ commits'[c].tree = wips[w].tree
    /\ wips' = [wips EXCEPT ![w].base = c]

Drop(w) ==
    /\ wips' = [o \in DOMAIN wips \ {w} |-> wips[o]]
    /\ UNCHANGED commits

\* A user sets the base, the tree or both by hand, to any there are.
Ask(w)    == setting' = setting \cup {w} /\ UNCHANGED <<wips, commits>>
GiveUp(w) == setting' = setting \ {w} /\ UNCHANGED <<wips, commits>>
Set(w) ==
    /\ w \in setting /\ setting' = setting \ {w}
    /\ DOMAIN wips' = DOMAIN wips
    /\ \A o \in DOMAIN wips \ {w} : wips'[o] = wips[o]
    /\ UNCHANGED commits

Init == wips = [w \in {} |-> 0] /\ commits = [c \in {} |-> 0] /\ setting = {}

WipStep ==
    \/ \E w \in DOMAIN wips' \ DOMAIN wips : Open(w)
    \/ \E w \in DOMAIN wips \cap DOMAIN wips' :
          (\E x \in Paths : Put(w, x)) \/ (\E X \in SUBSET Paths : Remove(w, X) \/ Revert(w, X))
    \/ \E w \in DOMAIN wips \ DOMAIN wips' : Drop(w)
    \/ \E w \in DOMAIN wips, c \in DOMAIN commits' \ DOMAIN commits : Commit(w, c)

Next ==
    \/ WipStep /\ UNCHANGED setting
    \/ \E w \in setting \cup setting' : Ask(w) \/ GiveUp(w) \/ Set(w)

Spec == Init /\ [][Next]_<<wips, commits, setting>>
=============================================================================
