---------------------------- MODULE InTurn_proofs ---------------------------
(***************************************************************************)
(* Theorems about requests that take turns, for every number of users,     *)
(* branches, commits, wips and merge requests.                             *)
(*                                                                         *)
(* First, every user waits for an answer before the next request           *)
(* (SerialClients): a wip is its base commit plus its user's edits, a      *)
(* commit holds these edits and no others, and the wip requests implement  *)
(* AtomicWips.  A request writes a tree it computed from an older read;    *)
(* that this is the wip as it is rests on nobody else having touched the   *)
(* wip since, and so on two facts that are invariants: the requests in     *)
(* flight are of different users, and work on different wips.              *)
(*                                                                         *)
(* Then, the server takes the requests of a repository one at a time       *)
(* (AllSerialSpec).  What these theorems state fails when requests         *)
(* overlap; what makes the difference is that a request finds what it read *)
(* earlier as it left it, which is the invariant there.                    *)
(***************************************************************************)
EXTENDS Requests_proofs

----------------------------------------------------------------------------
(* Users that wait.  The inductive invariant.                              *)

InFlight(q) == q.pc # "idle"
HasWip(q)   == q.pc \in {"wip", "save", "tx"}

\* The requests in flight are of different users, and work on different wips.
Alone ==
    \A h, k \in Handlers : h # k =>
        /\ InFlight(wreq[h]) /\ InFlight(wreq[k]) => wreq[h].user # wreq[k].user
        /\ HasWip(wreq[h]) /\ HasWip(wreq[k]) => wreq[h].wip # wreq[k].wip

\* Tree t is s with one file put at a path, or with files removed, all in X.
Edit(t, s, X) ==
    \/ \E x \in Paths : X = {x} /\ t = [s EXCEPT ![x] = t[x]]
    \/ \E Y \in SUBSET X : t = [x \in Paths |-> IF x \in Y THEN NoBlob ELSE s[x]]

\* What a request read of its wip is how the wip still is, if it is there.
UpToDate(q, w) ==
    /\ w.creator = q.user
    /\ q.pc = "wip" /\ q.op # "UpdateWip" => q.tree = w.tree
    /\ q.pc = "wip" /\ q.op \in BaseOps   => q.base = w.base
    /\ q.pc = "save"                      => Edit(q.next, w.tree, q.scope)

WipRead(q) ==
    HasWip(q) =>
        /\ q.wip \in WipIds \cap spent
        /\ q.wip \in DOMAIN wips => UpToDate(q, wips[q.wip])
        /\ q.pc = "wip" /\ q.op = "CommitWip" =>
              Differ(q.tree, TreeOf(q.base)) \subseteq edits[q.wip]

\* A user has one wip on a branch (the unique key), and its id was drawn.
OneWip == /\ DOMAIN wips \subseteq spent
          /\ \A v, w \in DOMAIN wips :
                wips[v].creator = wips[w].creator /\ wips[v].ref = wips[w].ref => v = w

EditsInv == Alone /\ OneWip /\ WipIsBasePlusEdits /\ \A h \in Handlers : WipRead(wreq[h])

----------------------------------------------------------------------------
(* What the steps have in common.                                          *)

\* Commits stay what they are, ids stay drawn.
Grown == /\ spent \subseteq spent'
         /\ DOMAIN commits \subseteq DOMAIN commits'
         /\ \A c \in DOMAIN commits : commits'[c] = commits[c]

\* The step leaves the wip and its edits as they are, or deletes it.
Untouched(w) == /\ w \in DOMAIN wips' => w \in DOMAIN wips /\ wips'[w] = wips[w]
                /\ edits'[w] = edits[w]

\* The tables of the store, row by row.
LEMMA StoreRows ==
    ASSUME IInv
    PROVE  /\ \A w \in DOMAIN wips : w \in WipIds /\ wips[w] \in WipRow /\ Known(wips[w].base)
                                     /\ TreeOf(wips[w].base) \in Tree
           /\ \A c \in DOMAIN commits : c \in CommitIds /\ commits[c] \in CommitRow
           /\ \A h \in Handlers : wreq[h] \in Request /\ ReadSound(wreq[h])
<1>1. \A w \in DOMAIN wips : w \in WipIds /\ wips[w] \in WipRow /\ Known(wips[w].base)
    BY DEF IInv, RowsOK, StoreTypeOK, IsTable, RefIntegrity
<1> QED
    BY <1>1, TreeOfType DEF IInv, RowsOK, StoreTypeOK, IsTable

\* The tree of a known commit does not change.
LEMMA SameTreeOf == ASSUME Grown PROVE \A c : Known(c) => TreeOf(c)' = TreeOf(c) /\ Known(c)'
BY DEF Grown, Known, TreeOf

\* A wip the step left alone, and a request on such a wip.
LEMMA UntouchedWip ==
    ASSUME IInv, EditsInv, Grown, NEW w, Untouched(w), w \in DOMAIN wips'
    PROVE  (Differ(wips[w].tree, TreeOf(wips[w].base)) \subseteq edits[w])'
<1>1. w \in DOMAIN wips /\ wips'[w] = wips[w] /\ edits'[w] = edits[w] /\ Known(wips[w].base)
    BY StoreRows DEF Untouched
<1>2. TreeOf(wips[w].base)' = TreeOf(wips[w].base)
    BY <1>1 DEF Grown, Known, TreeOf
<1> QED
    BY <1>1, <1>2 DEF EditsInv, WipIsBasePlusEdits, Differ

\* A request whose wip no other request wrote still knows the wip as it is.
LEMMA UntouchedRead ==
    ASSUME IInv, EditsInv, Grown, NEW k \in Handlers, wreq'[k] = wreq[k],
           HasWip(wreq[k]) => Untouched(wreq[k].wip)
    PROVE  WipRead(wreq[k])'
<1> SUFFICES ASSUME HasWip(wreq[k]) PROVE WipRead(wreq[k])'
    BY DEF WipRead, HasWip
<1> DEFINE q == wreq[k]
<1>1. WipRead(q) /\ Known(q.base)
    BY StoreRows DEF EditsInv, ReadSound
<1>2. TreeOf(wreq[k].base)' = TreeOf(wreq[k].base)
    BY <1>1 DEF Grown, Known, TreeOf
<1>3. wreq'[k].wip \in WipIds \cap spent'
    BY <1>1 DEF WipRead, Grown
<1>4. q.wip \in DOMAIN wips' => UpToDate(q, wips'[q.wip])
    BY <1>1 DEF WipRead, Untouched
<1>5. q.pc = "wip" /\ q.op = "CommitWip" => Differ(q.tree, TreeOf(q.base)) \subseteq edits'[q.wip]
    BY <1>1 DEF WipRead, Untouched
<1> QED
    BY <1>2, <1>3, <1>4, <1>5 DEF WipRead, UpToDate, Differ, HasWip

\* A step of handler h that touches the wips in T, on which nobody else works.
LEMMA TouchStep ==
    ASSUME IInv, EditsInv, Grown, NEW h \in Handlers, NEW q, wreq' = [wreq EXCEPT ![h] = q],
           \A k \in Handlers \ {h} :
              /\ InFlight(q) /\ InFlight(wreq[k]) => wreq[k].user # q.user
              /\ HasWip(q) /\ HasWip(wreq[k])     => wreq[k].wip # q.wip,
           NEW T, \A w : w \notin T => Untouched(w),
           \A k \in Handlers \ {h} : HasWip(wreq[k]) => wreq[k].wip \notin T,
           \A w \in T : (w \in DOMAIN wips => Differ(wips[w].tree, TreeOf(wips[w].base)) \subseteq edits[w])',
           OneWip', WipRead(wreq[h])'
    PROVE  EditsInv'
<1>1. Alone'
  <2>1. wreq'[h] = q /\ \A k \in Handlers \ {h} : wreq'[k] = wreq[k]
      BY DEF IInv, RowsOK
  <2> QED
      BY <2>1 DEF EditsInv, Alone
<1>2. WipIsBasePlusEdits'
    BY UntouchedWip DEF WipIsBasePlusEdits
<1>3. \A k \in Handlers \ {h} : WipRead(wreq[k])'
  <2> SUFFICES ASSUME NEW k \in Handlers \ {h} PROVE WipRead(wreq[k])'
      OBVIOUS
  <2>1. wreq'[k] = wreq[k]
      BY DEF IInv, RowsOK
  <2> QED
      BY <2>1, UntouchedRead
<1> QED
    BY <1>1, <1>2, <1>3 DEF EditsInv

\* Steps of others: they add commits, and delete wips.
LEMMA OthersStep ==
    ASSUME IInv, EditsInv, Grown, UNCHANGED <<wreq, edits>>, DOMAIN wips' \subseteq DOMAIN wips,
           \A w \in DOMAIN wips' : wips'[w] = wips[w]
    PROVE  EditsInv'
<1>1. \A w : Untouched(w)
    BY DEF Untouched
<1>2. WipIsBasePlusEdits'
    BY <1>1, UntouchedWip DEF WipIsBasePlusEdits
<1>3. \A k \in Handlers : WipRead(wreq[k])'
    BY <1>1, UntouchedRead
<1> QED
    BY <1>2, <1>3 DEF EditsInv, Alone, OneWip, Grown

\* Wips keep their creators and branches.
LEMMA SameOwners ==
    ASSUME OneWip, Grown, DOMAIN wips' \subseteq DOMAIN wips,
           \A w \in DOMAIN wips' : wips'[w].creator = wips[w].creator /\ wips'[w].ref = wips[w].ref
    PROVE  OneWip'
BY DEF OneWip, Grown

\* The request ends, and no wip was touched.
LEMMA EndStep ==
    ASSUME IInv, EditsInv, Grown, NEW h \in Handlers, Finish(h), \A w : Untouched(w)
    PROVE  EditsInv'
<1>1. wreq' = [wreq EXCEPT ![h] = Idle] /\ ~InFlight(Idle) /\ ~HasWip(Idle)
    BY DEF Finish, Idle, InFlight, HasWip
<1>2. WipRead(wreq[h])'
    BY <1>1 DEF WipRead, HasWip, IInv, RowsOK
<1>3. OneWip'
    BY SameOwners DEF EditsInv, Untouched
<1> DEFINE T == {}
<1>4. \A w : w \notin T /\ Untouched(w)
    OBVIOUS
<1> HIDE DEF T
<1> QED
    BY <1>1, <1>2, <1>3, <1>4, TouchStep

\* The request ends with a write to its own wip.
LEMMA EndOnWip ==
    ASSUME IInv, EditsInv, Grown, NEW h \in Handlers, Finish(h), HasWip(wreq[h]),
           \A w : w # wreq[h].wip => Untouched(w),
           DOMAIN wips' = DOMAIN wips,
           wreq[h].wip \in DOMAIN wips =>
              /\ wips'[wreq[h].wip].creator = wips[wreq[h].wip].creator
              /\ wips'[wreq[h].wip].ref = wips[wreq[h].wip].ref,
           \A w : w = wreq[h].wip =>
              (w \in DOMAIN wips => Differ(wips[w].tree, TreeOf(wips[w].base)) \subseteq edits[w])'
    PROVE  EditsInv'
<1> DEFINE T == {wreq[h].wip}
<1>1. wreq' = [wreq EXCEPT ![h] = Idle] /\ ~InFlight(Idle) /\ ~HasWip(Idle)
    BY DEF Finish, Idle, InFlight, HasWip
<1>2. WipRead(wreq[h])'
    BY <1>1 DEF WipRead, HasWip, IInv, RowsOK
<1>3. OneWip'
    BY SameOwners DEF EditsInv, Untouched
<1>4. \A k \in Handlers \ {h} : HasWip(wreq[k]) => wreq[k].wip \notin T
    BY DEF EditsInv, Alone
<1>5. \A w : w \notin T => Untouched(w)
    OBVIOUS
<1>6. \A w \in T : (w \in DOMAIN wips => Differ(wips[w].tree, TreeOf(wips[w].base)) \subseteq edits[w])'
    OBVIOUS
<1> HIDE DEF T
<1> QED
    BY <1>1, <1>2, <1>3, <1>4, <1>5, <1>6, TouchStep

\* A step that only reads: the record becomes q.
LEMMA ReadStep ==
    ASSUME IInv, EditsInv, NEW h \in Handlers, NEW q, wreq' = [wreq EXCEPT ![h] = q],
           UNCHANGED <<wips, commits, edits>>, spent \subseteq spent',
           \A k \in Handlers \ {h} :
              /\ InFlight(q) /\ InFlight(wreq[k]) => wreq[k].user # q.user
              /\ HasWip(q) /\ HasWip(wreq[k])     => wreq[k].wip # q.wip,
           WipRead(wreq[h])'
    PROVE  EditsInv'
<1>1. Grown /\ \A w : Untouched(w)
    BY DEF Grown, Untouched
<1>2. OneWip'
    BY <1>1, SameOwners DEF EditsInv
<1> DEFINE T == {}
<1>3. \A w : w \notin T /\ Untouched(w)
    BY <1>1
<1> HIDE DEF T
<1> QED
    BY <1>1, <1>2, <1>3, TouchStep

\* What a record says of tables that do not change.
LEMMA SameRead ==
    ASSUME NEW h, NEW q, wreq'[h] = q, WipRead(q), UNCHANGED <<wips, commits, edits>>,
           spent \subseteq spent'
    PROVE  WipRead(wreq[h])'
BY DEF WipRead, UpToDate, Differ, TreeOf, HasWip

----------------------------------------------------------------------------
(* One lemma per kind of step.                                             *)

\* A client that waits for answers has nothing in flight when it starts.
LEMMA CheckOutBranchEdits ==
    ASSUME SerialClients, IInv, EditsInv, NEW h \in Handlers, NEW u \in Users, NEW op \in Ops,
           NEW b \in BranchIds, CheckOutBranch(h, u, op, b)
    PROVE  EditsInv'
<1> DEFINE c == Used(op, TipOps, branches[b].commit)
           q == [Idle EXCEPT !.op = op, !.pc = "branch", !.user = u, !.branch = b, !.tip = c]
<1>1. q.pc = "branch" /\ q.user = u
    BY DEF Idle
<1>2. wreq' = [wreq EXCEPT ![h] = q] /\ UNCHANGED <<wips, commits, edits, spent>>
    BY DEF CheckOutBranch, storeVars
<1>3. \A k \in Handlers : InFlight(wreq[k]) => wreq[k].user # u
    BY DEF CheckOutBranch, Busy, InFlight
<1> HIDE DEF q
<1>4. WipRead(wreq[h])'
    BY <1>1, <1>2 DEF WipRead, HasWip, IInv, RowsOK
<1> QED
    BY <1>1, <1>2, <1>3, <1>4, ReadStep DEF HasWip

\* The wip is the user's, so no one else works on it.
LEMMA CheckOutWipEdits ==
    ASSUME IInv, EditsInv, NEW h \in Handlers, CheckOutWip(h)
    PROVE  EditsInv'
<1>1. PICK w \in WipsOf(wreq[h].user, wreq[h].branch) :
        wreq' = [wreq EXCEPT ![h] =
                    [@ EXCEPT !.pc = "wip", !.wip = w,
                              !.base = Used(wreq[h].op, BaseOps, wips[w].base),
                              !.tree = IF wreq[h].op = "UpdateWip" THEN EmptyTree
                                       ELSE wips[w].tree]]
    BY DEF CheckOutWip, ReadWip
<1> DEFINE c == Used(wreq[h].op, BaseOps, wips[w].base)
           t == IF wreq[h].op = "UpdateWip" THEN EmptyTree ELSE wips[w].tree
           q == [wreq[h] EXCEPT !.pc = "wip", !.wip = w, !.base = c, !.tree = t]
<1>2. w \in DOMAIN wips /\ w \in WipIds /\ w \in spent /\ wips[w].creator = wreq[h].user
    BY StoreRows DEF WipsOf, EditsInv, OneWip
<1>3. wreq[h] \in Request /\ wreq[h].pc = "branch"
    BY StoreRows DEF CheckOutWip, ReadWip
<1>4. q.pc = "wip" /\ q.op = wreq[h].op /\ q.user = wreq[h].user /\ q.wip = w /\ q.base = c /\ q.tree = t
    BY <1>3 DEF Request
<1>5. wreq' = [wreq EXCEPT ![h] = q] /\ UNCHANGED <<wips, commits, edits, spent>>
    BY <1>1 DEF CheckOutWip, ReadWip, storeVars
<1>6. q.op # "UpdateWip" => q.tree = wips[w].tree
    BY <1>4
<1>7. q.op \in BaseOps => q.base = wips[w].base
    BY <1>4 DEF Used
<1> HIDE DEF q
<1>8. ASSUME NEW k \in Handlers \ {h}, InFlight(wreq[k])
      PROVE  wreq[k].user # q.user /\ (HasWip(wreq[k]) => wreq[k].wip # w)
  <2>1. wreq[k].user # wreq[h].user
      BY <1>3, <1>8 DEF EditsInv, Alone, InFlight
  <2>2. HasWip(wreq[k]) /\ wreq[k].wip = w => wips[w].creator = wreq[k].user
      BY <1>2 DEF EditsInv, WipRead, UpToDate
  <2> QED
      BY <1>2, <1>4, <2>1, <2>2
<1>9. WipRead(q)
  <2>1. UpToDate(q, wips[w])
      BY <1>2, <1>4, <1>6, <1>7 DEF UpToDate
  <2>2. q.op = "CommitWip" => Differ(q.tree, TreeOf(q.base)) \subseteq edits[w]
      BY <1>2, <1>6, <1>7 DEF BaseOps, EditsInv, WipIsBasePlusEdits
  <2> QED
      BY <1>2, <1>4, <2>1, <2>2 DEF WipRead
<1>10. wreq'[h] = q
    BY <1>5 DEF IInv, RowsOK
<1>11. WipRead(wreq[h])'
    BY <1>5, <1>9, <1>10, SameRead
<1> QED
    BY <1>4, <1>5, <1>8, <1>11, ReadStep DEF InFlight, HasWip

\* GetOrCreateWip finds no wip, and writes nothing.
LEMMA MissWipEdits ==
    ASSUME IInv, EditsInv, NEW h \in Handlers, MissWip(h)
    PROVE  EditsInv'
<1> DEFINE q == [wreq[h] EXCEPT !.pc = "new"]
<1>1. wreq[h] \in Request /\ wreq[h].pc = "branch"
    BY StoreRows DEF MissWip, At
<1>2. q.pc = "new" /\ q.user = wreq[h].user
    BY <1>1 DEF Request
<1>3. wreq' = [wreq EXCEPT ![h] = q] /\ UNCHANGED <<wips, commits, edits, spent>>
    BY DEF MissWip, storeVars
<1> HIDE DEF q
<1>4. WipRead(wreq[h])'
    BY <1>2, <1>3 DEF WipRead, HasWip, IInv, RowsOK
<1>5. \A k \in Handlers \ {h} : InFlight(wreq[k]) => wreq[k].user # q.user
    BY <1>1, <1>2 DEF EditsInv, Alone, InFlight
<1>6. ~HasWip(q)
    BY <1>2 DEF HasWip
<1> QED
    BY <1>3, <1>4, <1>5, <1>6, ReadStep

\* A new wip is on its commit, under an id no request in flight can hold.
LEMMA CreateWipEdits ==
    ASSUME IInv, EditsInv, NEW h \in Handlers, CreateWip(h)
    PROVE  EditsInv'
<1> DEFINE r   == wreq[h]
           w   == NewId(WipIds)
           row == [creator |-> r.user, ref |-> r.branch, base |-> r.tip, tree |-> TreeOf(r.tip)]
<1>1. /\ wips' = AddRow(wips, w, row) /\ spent' = spent \cup {w}
      /\ Finish(h) /\ UNCHANGED <<commits, edits>>
    BY DEF CreateWip, InsertWip
<1>2. w \in WipIds /\ w \notin spent /\ WipsOf(r.user, r.branch) = {}
    BY NewIdFresh DEF CreateWip, InsertWip
<1>3. /\ row.creator = r.user /\ row.ref = r.branch
      /\ row.base = r.tip /\ row.tree = TreeOf(r.tip)
    OBVIOUS
<1> HIDE DEF w, row
<1>4. Grown
    BY <1>1 DEF Grown
<1> DEFINE T == {w}
<1>5. \A v : v \notin T => Untouched(v)
    BY <1>1 DEF Untouched, AddRow
<1>6. \A k \in Handlers \ {h} : HasWip(wreq[k]) => wreq[k].wip \notin T
    BY <1>2 DEF EditsInv, WipRead
<1>7. \A v \in T : (v \in DOMAIN wips => Differ(wips[v].tree, TreeOf(wips[v].base)) \subseteq edits[v])'
  <2> SUFFICES ASSUME NEW v, v = w
               PROVE  (Differ(wips[v].tree, TreeOf(wips[v].base)) \subseteq edits[v])'
      OBVIOUS
  <2>1. wips'[v].base = r.tip /\ wips'[v].tree = TreeOf(r.tip)
      BY <1>1, <1>3 DEF AddRow
  <2>2. TreeOf(wips[v].base)' = TreeOf(r.tip)
      BY <1>1, <2>1 DEF TreeOf
  <2> QED
      BY <2>1, <2>2 DEF Differ
<1>8. OneWip'
    BY <1>1, <1>2, <1>3 DEF EditsInv, OneWip, AddRow, WipsOf
<1>9. wreq' = [wreq EXCEPT ![h] = Idle] /\ ~InFlight(Idle) /\ ~HasWip(Idle)
    BY <1>1 DEF Finish, Idle, InFlight, HasWip
<1>10. WipRead(wreq[h])'
    BY <1>9 DEF WipRead, HasWip, IInv, RowsOK
<1> HIDE DEF T
<1> QED
    BY <1>4, <1>5, <1>6, <1>7, <1>8, <1>9, <1>10, TouchStep

\* A request goes on with the tree it computed; it may have written it.
LEMMA ComputedEdits ==
    ASSUME IInv, EditsInv, NEW h \in Handlers, NEW pc \in {"save", "tx"}, NEW X, NEW t,
           Computed(h, pc, X, t), HasWip(wreq[h]), UNCHANGED <<wips, commits, edits, spent>>,
           wreq[h].wip \in DOMAIN wips /\ pc = "save" => Edit(t, wips[wreq[h].wip].tree, X)
    PROVE  EditsInv'
<1> DEFINE q == [Idle EXCEPT !.op = wreq[h].op, !.pc = pc, !.user = wreq[h].user,
                             !.wip = wreq[h].wip, !.scope = X, !.next = t]
<1>1. q.pc = pc /\ q.user = wreq[h].user /\ q.wip = wreq[h].wip /\ q.scope = X /\ q.next = t
    BY DEF Idle
<1>2. wreq' = [wreq EXCEPT ![h] = q]
    BY DEF Computed
<1> HIDE DEF q
<1>3. WipRead(q)
    BY <1>1 DEF EditsInv, WipRead, UpToDate, HasWip
<1>4. wreq'[h] = q
    BY <1>2 DEF IInv, RowsOK
<1>5. WipRead(wreq[h])'
    BY <1>3, <1>4, SameRead
<1>6. \A k \in Handlers \ {h} :
         /\ InFlight(wreq[k])  => wreq[k].user # q.user
         /\ HasWip(wreq[k]) => wreq[k].wip # q.wip
    BY <1>1 DEF EditsInv, Alone, HasWip, InFlight
<1> QED
    BY <1>2, <1>5, <1>6, ReadStep

\* UploadObject computes the tree with one file set.
LEMMA UploadObjectEdits ==
    ASSUME IInv, EditsInv, NEW h \in Handlers, NEW x \in Paths, NEW v \in Blobs,
           NEW isReplace \in BOOLEAN, UploadObject(h, x, v, isReplace)
    PROVE  EditsInv'
<1> DEFINE t == [wreq[h].tree EXCEPT ![x] = v]
<1>1. Computed(h, "save", {x}, t) /\ HasWip(wreq[h]) /\ UNCHANGED <<wips, commits, edits, spent>>
    BY DEF UploadObject, WriteObject, At, HasWip
<1>2. wreq[h].wip \in DOMAIN wips => wreq[h].tree = wips[wreq[h].wip].tree
    BY <1>1 DEF UploadObject, WriteObject, At, EditsInv, WipRead, UpToDate
<1>3. t = [wreq[h].tree EXCEPT ![x] = t[x]]
    BY StoreRows DEF Request, Tree
<1>4. wreq[h].wip \in DOMAIN wips => Edit(t, wips[wreq[h].wip].tree, {x})
    BY <1>2, <1>3 DEF Edit
<1> HIDE DEF t
<1> QED
    BY <1>1, <1>4, ComputedEdits

\* DeleteObject computes the tree without the file.
LEMMA DeleteObjectEdits ==
    ASSUME IInv, EditsInv, NEW h \in Handlers,
           DeleteObjectFails(h) \/ \E X \in SUBSET Paths : DeleteObject(h, X)
    PROVE  EditsInv'
<1>1. HasWip(wreq[h]) /\ UNCHANGED <<wips, commits, edits, spent>>
    BY DEF DeleteObject, DeleteObjectFails, At, HasWip, storeVars
<1>2. wreq[h].wip \in DOMAIN wips => wreq[h].tree = wips[wreq[h].wip].tree
    BY <1>1 DEF DeleteObject, DeleteObjectFails, At, EditsInv, WipRead, UpToDate
<1>3. PICK X \in SUBSET Paths, Y \in SUBSET Paths :
         /\ Y \subseteq X
         /\ Computed(h, "save", X, [x \in Paths |-> IF x \in Y THEN NoBlob ELSE wreq[h].tree[x]])
  <2>1. CASE DeleteObjectFails(h)
    <3>1. wreq[h].tree = [x \in Paths |-> IF x \in {} THEN NoBlob ELSE wreq[h].tree[x]]
        BY StoreRows DEF Request, Tree
    <3>2. Computed(h, "save", {}, wreq[h].tree)
        BY <2>1 DEF DeleteObjectFails
    <3>3. Computed(h, "save", {}, [x \in Paths |-> IF x \in {} THEN NoBlob ELSE wreq[h].tree[x]])
        BY <3>1, <3>2
    <3> WITNESS {} \in SUBSET Paths, {} \in SUBSET Paths
    <3> QED BY <3>3
  <2>2. CASE \E X \in SUBSET Paths : DeleteObject(h, X)
      BY <2>2 DEF DeleteObject
  <2> QED BY <2>1, <2>2
<1> DEFINE t == [x \in Paths |-> IF x \in Y THEN NoBlob ELSE wreq[h].tree[x]]
<1>4. wreq[h].wip \in DOMAIN wips => Edit(t, wips[wreq[h].wip].tree, X)
    BY <1>2, <1>3 DEF Edit
<1>5. Computed(h, "save", X, t)
    BY <1>3
<1> HIDE DEF t
<1> QED
    BY <1>1, <1>4, <1>5, ComputedEdits

\* Rows of a wip that is written: the others stay.
LEMMA SetWipTreeRows ==
    ASSUME IInv, NEW id, NEW t, wips' = SetWipTree(wips, id, t)
    PROVE  /\ DOMAIN wips' = DOMAIN wips
           /\ \A w \in DOMAIN wips : w # id => wips'[w] = wips[w]
           /\ \A w \in DOMAIN wips : w = id =>
                 /\ wips'[w].tree = t /\ wips'[w].base = wips[w].base
                 /\ wips'[w].creator = wips[w].creator /\ wips'[w].ref = wips[w].ref
BY StoreRows DEF SetWipTree, WipRow

\* CommitChanges writes one wip's base.
LEMMA SetWipBaseRows ==
    ASSUME IInv, NEW id, NEW c, wips' = SetWipBase(wips, id, c)
    PROVE  /\ DOMAIN wips' = DOMAIN wips
           /\ \A w \in DOMAIN wips : w # id => wips'[w] = wips[w]
           /\ \A w \in DOMAIN wips : w = id =>
                 /\ wips'[w].base = c /\ wips'[w].tree = wips[w].tree
                 /\ wips'[w].creator = wips[w].creator /\ wips'[w].ref = wips[w].ref
BY StoreRows DEF SetWipBase, WipRow

\* An edit differs from the tree only in what it edits.
LEMMA EditDiffers ==
    ASSUME NEW t \in Tree, NEW s \in Tree, NEW X, Edit(t, s, X)
    PROVE  Differ(t, s) \subseteq X
BY DEF Edit, Differ, Tree

\* The tree that is saved is an edit of the tree the wip has.
LEMMA SaveWipTreeEdits ==
    ASSUME IInv, EditsInv, NEW h \in Handlers, SaveWipTree(h)
    PROVE  EditsInv'
<1> DEFINE r == wreq[h]
<1>1. /\ r.pc = "save" /\ wips' = SetWipTree(wips, r.wip, r.next)
      /\ edits' = [edits EXCEPT ![r.wip] = @ \cup r.scope]
      /\ Finish(h) /\ UNCHANGED <<commits, spent>>
    BY DEF SaveWipTree
<1>2. r \in Request /\ r.wip \in WipIds /\ r.next \in Tree
    BY <1>1, StoreRows DEF EditsInv, WipRead, HasWip, Request
<1>3. edits'[r.wip] = edits[r.wip] \cup r.scope
    BY <1>1, <1>2 DEF IInv, RowsOK
<1>4. ASSUME r.wip \in DOMAIN wips PROVE Differ(r.next, TreeOf(wips[r.wip].base)) \subseteq edits'[r.wip]
  <2>1. Edit(r.next, wips[r.wip].tree, r.scope) /\ wips[r.wip].tree \in Tree
      BY <1>1, <1>4, StoreRows DEF EditsInv, WipRead, UpToDate, HasWip, WipRow
  <2>2. Differ(r.next, wips[r.wip].tree) \subseteq r.scope
      BY <1>2, <2>1, EditDiffers
  <2>3. Differ(wips[r.wip].tree, TreeOf(wips[r.wip].base)) \subseteq edits[r.wip]
      BY <1>4 DEF EditsInv, WipIsBasePlusEdits
  <2> QED
      BY <1>3, <2>2, <2>3 DEF Differ
<1>5. Grown /\ \A c : TreeOf(c)' = TreeOf(c)
    BY <1>1 DEF Grown, TreeOf
<1>6. \A w : w # r.wip => Untouched(w)
    BY <1>1, SetWipTreeRows DEF Untouched, IInv, RowsOK
<1>7. \A w : w = wreq[h].wip =>
         (w \in DOMAIN wips => Differ(wips[w].tree, TreeOf(wips[w].base)) \subseteq edits[w])'
  <2> SUFFICES ASSUME NEW w, w = r.wip, w \in DOMAIN wips'
               PROVE  (Differ(wips[w].tree, TreeOf(wips[w].base)) \subseteq edits[w])'
      OBVIOUS
  <2>1. w \in DOMAIN wips /\ wips'[w].tree = r.next /\ wips'[w].base = wips[w].base
      BY <1>1, SetWipTreeRows
  <2>2. TreeOf(wips[w].base)' = TreeOf(wips[w].base)
      BY <1>1, <2>1 DEF TreeOf
  <2> QED
      BY <1>4, <2>1, <2>2 DEF Differ
<1>8. HasWip(wreq[h])
    BY <1>1 DEF HasWip
<1> QED
    BY <1>1, <1>5, <1>6, <1>7, <1>8, SetWipTreeRows, EndOnWip

\* The base commit that was read is the wip's: reverted, the wip has no edits.
LEMMA RevertAllEdits ==
    ASSUME IInv, EditsInv, NEW h \in Handlers, RevertAll(h)
    PROVE  EditsInv'
<1> DEFINE r == wreq[h]
<1>1. /\ r.pc = "wip" /\ r.op = "RevertWip" /\ wips' = SetWipTree(wips, r.wip, TreeOf(r.base))
      /\ edits' = [edits EXCEPT ![r.wip] = {}]
      /\ Finish(h) /\ UNCHANGED <<commits, spent>>
    BY DEF RevertAll, At
<1>2. HasWip(wreq[h])
    BY <1>1 DEF HasWip
<1>3. Grown /\ \A w : w # r.wip => Untouched(w)
    BY <1>1, SetWipTreeRows DEF Untouched, IInv, RowsOK, Grown
<1>4. \A w : w = wreq[h].wip =>
         (w \in DOMAIN wips => Differ(wips[w].tree, TreeOf(wips[w].base)) \subseteq edits[w])'
  <2> SUFFICES ASSUME NEW w, w = r.wip, w \in DOMAIN wips'
               PROVE  (Differ(wips[w].tree, TreeOf(wips[w].base)) \subseteq edits[w])'
      OBVIOUS
  <2>1. w \in DOMAIN wips /\ wips'[w].tree = TreeOf(r.base) /\ wips'[w].base = wips[w].base
      BY <1>1, SetWipTreeRows
  <2>2. r.base = wips[w].base
      BY <1>1, <1>2, <2>1 DEF EditsInv, WipRead, UpToDate, BaseOps
  <2>3. TreeOf(wips[w].base)' = TreeOf(r.base)
      BY <1>1, <2>1, <2>2 DEF TreeOf
  <2> QED
      BY <2>1, <2>3 DEF Differ
<1> QED
    BY <1>1, <1>2, <1>3, <1>4, SetWipTreeRows, EndOnWip

\* Reverted at some paths, it has no more edits than before.
LEMMA RevertPathsEdits ==
    ASSUME IInv, EditsInv, NEW h \in Handlers, NEW X \in SUBSET Paths, RevertPaths(h, X)
    PROVE  EditsInv'
<1> DEFINE r == wreq[h]
           t == [x \in Paths |-> IF x \in X THEN TreeOf(r.base)[x] ELSE r.tree[x]]
           q == [Idle EXCEPT !.op = r.op, !.pc = "tx", !.user = r.user,
                             !.wip = r.wip, !.scope = X, !.next = t]
<1>1. /\ r.pc = "wip" /\ r.op = "RevertWip" /\ wips' = SetWipTree(wips, r.wip, t)
      /\ wreq' = [wreq EXCEPT ![h] = q] /\ UNCHANGED <<commits, spent, edits>>
    BY DEF RevertPaths, RevertTo, At, Computed
<1>2. HasWip(wreq[h])
    BY <1>1 DEF HasWip
<1>3. q.pc = "tx" /\ q.user = r.user /\ q.wip = r.wip /\ HasWip(q)
    BY DEF Idle, HasWip
<1>4. \A x \in Paths : t[x] = TreeOf(r.base)[x] \/ t[x] = r.tree[x]
    OBVIOUS
<1> HIDE DEF t, q
<1>5. Grown /\ (\A w : w # r.wip => Untouched(w)) /\ DOMAIN wips' = DOMAIN wips
    BY <1>1, SetWipTreeRows DEF Untouched, IInv, RowsOK, Grown
<1>6. ASSUME r.wip \in DOMAIN wips
      PROVE  r.base = wips[r.wip].base /\ r.tree = wips[r.wip].tree /\ wips[r.wip].creator = r.user
             /\ Differ(r.tree, TreeOf(r.base)) \subseteq edits[r.wip]
    BY <1>1, <1>2, <1>6 DEF EditsInv, WipRead, UpToDate, BaseOps, WipIsBasePlusEdits
<1> DEFINE T == {r.wip}
<1>7. \A w \in T : (w \in DOMAIN wips => Differ(wips[w].tree, TreeOf(wips[w].base)) \subseteq edits[w])'
  <2> SUFFICES ASSUME NEW w, w = r.wip, w \in DOMAIN wips'
               PROVE  (Differ(wips[w].tree, TreeOf(wips[w].base)) \subseteq edits[w])'
      OBVIOUS
  <2>1. w \in DOMAIN wips /\ wips'[w].tree = t /\ wips'[w].base = wips[w].base
      BY <1>1, SetWipTreeRows
  <2>2. TreeOf(wips[w].base)' = TreeOf(r.base)
      BY <1>1, <1>6, <2>1 DEF TreeOf
  <2> QED
      BY <1>1, <1>4, <1>6, <2>1, <2>2 DEF Differ
<1>8. OneWip'
    BY <1>1, <1>5, SetWipTreeRows, SameOwners DEF EditsInv
<1>9. \A k \in Handlers \ {h} :
         /\ InFlight(wreq[k]) => wreq[k].user # q.user
         /\ HasWip(wreq[k])   => wreq[k].wip # q.wip /\ wreq[k].wip \notin T
    BY <1>2, <1>3 DEF EditsInv, Alone, HasWip, InFlight
<1>10. WipRead(wreq[h])'
  <2>1. wreq'[h] = q
      BY <1>1 DEF IInv, RowsOK
  <2>2. r.wip \in WipIds \cap spent'
      BY <1>1, <1>2 DEF EditsInv, WipRead
  <2>3. r.wip \in DOMAIN wips' => wips'[r.wip].creator = r.user
      BY <1>1, <1>6, SetWipTreeRows
  <2>4. r.wip \in DOMAIN wips' => UpToDate(q, wips'[r.wip])
      BY <1>3, <2>3 DEF UpToDate
  <2> QED
      BY <1>3, <2>1, <2>2, <2>4 DEF WipRead, UpToDate, HasWip
<1>11. \A w : w \notin T => Untouched(w)
    BY <1>5
<1> HIDE DEF T
<1> QED
    BY <1>1, <1>5, <1>7, <1>8, <1>9, <1>10, <1>11, TouchStep

\* A commit of the tree as it is: the wip has no edits on its new base.
LEMMA CommitChangesEdits ==
    ASSUME IInv, EditsInv, NEW h \in Handlers, CommitChanges(h)
    PROVE  EditsInv'
<1> DEFINE r == wreq[h]
           c == NewCommit
<1>1. PICK row : commits' = AddRow(commits, c, row) /\ row.tree = r.tree
    BY DEF CommitChanges, CommitOn
<1>2. /\ r.pc = "wip" /\ r.op = "CommitWip" /\ wips' = SetWipBase(wips, r.wip, c)
      /\ edits' = [edits EXCEPT ![r.wip] =
                      {x \in @ : r.wip \in DOMAIN wips /\ wips[r.wip].tree[x] # r.tree[x]}]
      /\ Finish(h) /\ UNCHANGED spent
    BY DEF CommitChanges, CommitOn, At
<1>3. c \in CommitIds /\ c \notin DOMAIN commits /\ c # NoCommit
    BY NewCommitFresh, ConstantsAssumption DEF CommitChanges, CommitOn
<1>4. HasWip(wreq[h])
    BY <1>2 DEF HasWip
<1> HIDE DEF c
<1>5. Grown /\ (\A w : w # r.wip => Untouched(w)) /\ commits'[c] = row
    BY <1>1, <1>2, <1>3, SetWipBaseRows DEF Untouched, IInv, RowsOK, Grown, AddRow
<1>6. \A w : w = wreq[h].wip =>
         (w \in DOMAIN wips => Differ(wips[w].tree, TreeOf(wips[w].base)) \subseteq edits[w])'
  <2> SUFFICES ASSUME NEW w, w = r.wip, w \in DOMAIN wips'
               PROVE  (Differ(wips[w].tree, TreeOf(wips[w].base)) \subseteq edits[w])'
      OBVIOUS
  <2>1. w \in DOMAIN wips /\ wips'[w].base = c /\ wips'[w].tree = wips[w].tree
      BY <1>2, SetWipBaseRows
  <2>2. r.tree = wips[w].tree
      BY <1>2, <1>4, <2>1 DEF EditsInv, WipRead, UpToDate
  <2>3. TreeOf(wips[w].base)' = r.tree
      BY <1>1, <1>3, <1>5, <2>1 DEF TreeOf
  <2> QED
      BY <2>1, <2>2, <2>3 DEF Differ
<1> QED
    BY <1>2, <1>4, <1>5, <1>6, SetWipBaseRows, EndOnWip

\* Base and tree set by hand: every path counts as edited.
LEMMA UpdateWipEdits ==
    ASSUME IInv, EditsInv, NEW h \in Handlers, NEW fields, NEW c \in CommitIds \cup {NoCommit},
           NEW t \in Tree, UpdateWip(h, fields, c, t)
    PROVE  EditsInv'
<1> DEFINE r     == wreq[h]
           based == IF "base" \in fields THEN SetWipBase(wips, r.wip, c) ELSE wips
<1>1. /\ r.pc = "wip" /\ wips' = IF "tree" \in fields THEN SetWipTree(based, r.wip, t) ELSE based
      /\ edits' = [edits EXCEPT ![r.wip] = Paths]
      /\ Finish(h) /\ UNCHANGED <<commits, spent>>
    BY DEF UpdateWip, SetWip, At
<1>2. HasWip(wreq[h])
    BY <1>1 DEF HasWip
<1>3. /\ DOMAIN based = DOMAIN wips
      /\ \A w \in DOMAIN wips : based[w] \in WipRow
      /\ \A w \in DOMAIN wips : w # r.wip => based[w] = wips[w]
      /\ \A w \in DOMAIN wips : based[w].creator = wips[w].creator /\ based[w].ref = wips[w].ref
    BY StoreRows DEF SetWipBase, WipRow
<1> HIDE DEF based
<1>4. /\ DOMAIN wips' = DOMAIN wips
      /\ \A w \in DOMAIN wips : w # r.wip => wips'[w] = wips[w]
      /\ \A w \in DOMAIN wips : wips'[w].creator = wips[w].creator /\ wips'[w].ref = wips[w].ref
    BY <1>1, <1>3 DEF SetWipTree, WipRow
<1>5. Grown /\ \A w : w # r.wip => Untouched(w)
    BY <1>1, <1>4 DEF Untouched, IInv, RowsOK, Grown
<1>6. \A w : w = wreq[h].wip =>
         (w \in DOMAIN wips => Differ(wips[w].tree, TreeOf(wips[w].base)) \subseteq edits[w])'
  <2>1. r.wip \in WipIds
      BY <1>2 DEF EditsInv, WipRead
  <2> QED
      BY <1>1, <2>1 DEF Differ, IInv, RowsOK
<1> QED
    BY <1>1, <1>2, <1>4, <1>5, <1>6, EndOnWip

\* Requests that end without an edit: a rolled back or committed revert, the
\* deletion of the wip, an error.
LEMMA OtherEndsEdits ==
    ASSUME IInv, EditsInv, NEW h \in Handlers, RevertCommit(h) \/ DeleteWip(h) \/ Abort(h)
    PROVE  EditsInv'
<1>1. Finish(h) /\ UNCHANGED <<commits, spent, edits>>
    BY DEF RevertCommit, DeleteWip, Abort, storeVars
<1>2. \A w \in DOMAIN wips' : w \in DOMAIN wips /\ wips'[w] = wips[w]
    BY DEF RevertCommit, DeleteWip, DropRows, Abort, storeVars
<1> QED
    BY <1>1, <1>2, EndStep DEF Grown, Untouched

\* Every step of a wip request keeps edits and wips together.
LEMMA NextEdits == ASSUME SerialClients, IInv, EditsInv, [Next]_vars PROVE EditsInv'
<1>1. CASE UNCHANGED vars
    BY <1>1, OthersStep DEF vars, storeVars, Grown
<1>2. ASSUME NEW h \in Handlers, Step(h) PROVE EditsInv'
  <2>1. CASE GetWip(h)
      BY <2>1, MissWipEdits, CreateWipEdits DEF GetWip
  <2>2. CASE PutObject(h) \/ RemoveObject(h)
      BY <2>2, UploadObjectEdits, DeleteObjectEdits DEF PutObject, RemoveObject
  <2>3. CASE RevertWip(h)
      BY <2>3, RevertAllEdits, RevertPathsEdits, OtherEndsEdits DEF RevertWip
  <2>4. CASE CommitWip(h) \/ PatchWip(h)
      BY <2>4, CommitChangesEdits, UpdateWipEdits DEF CommitWip, PatchWip
  <2> QED
      BY <1>2, <2>1, <2>2, <2>3, <2>4, CheckOutWipEdits, SaveWipTreeEdits, OtherEndsEdits DEF
          Step
<1> QED
    BY <1>1, <1>2, CheckOutBranchEdits DEF Next

\* A new repository has no wip.
LEMMA InitEdits == Init => EditsInv
BY DEF Init, StoreInit, Idle, EditsInv, Alone, InFlight, HasWip, OneWip, WipIsBasePlusEdits,
    WipRead

\* Ref requests delete wips, merges add commits; neither touches a wip.
LEMMA ServerEdits ==
    ASSUME SerialClients, IInv, EditsInv, [ServerNext]_serverVars PROVE EditsInv'
<1>1. CASE WorkStep \/ UNCHANGED serverVars
    BY <1>1, NextEdits DEF WorkStep, serverVars
<1>2. CASE RefsStep
    BY <1>2, RefRowsStep, OthersStep DEF RefsStep, Grown
<1> QED
    BY <1>1, <1>2 DEF ServerNext

\* A merge writes no wip: the edits stay what they are.
LEMMA MergeEdits == ASSUME MergeInv, EditsInv, MergeNext PROVE EditsInv'
BY MergeRows, OthersStep DEF Grown, MergeInv, ServerInv

----------------------------------------------------------------------------
(* A wip is its base plus its edits.                                       *)

\* The invariant behind WipIsBasePlusEdits, for users who wait for their answers
\* (UploadObject, DeleteObject, Revert, CommitChanges, UpdateWip, DeleteWip).
THEOREM EditsInvariance == ASSUME SerialClients PROVE Spec => []EditsInv
<1>1. IInv /\ EditsInv /\ [Next]_vars => EditsInv'
    BY NextEdits
<1> QED
    BY Invariance, InitEdits, <1>1, PTL DEF Spec

\* A wip is its base commit plus the edits of its user, as long as every user
\* waits for an answer before the next request (UploadObject, DeleteObject,
\* Revert, CommitChanges, UpdateWip, DeleteWip).
THEOREM WipsKeepEdits == ASSUME SerialClients PROVE Spec => []WipIsBasePlusEdits
<1>1. EditsInv => WipIsBasePlusEdits
    BY DEF EditsInv
<1> QED
    BY EditsInvariance, <1>1, PTL

\* The same with branches deleted, and merges, at any moment (DeleteBranch,
\* Merge): those who do not wait are the other controllers' clients.
THEOREM AllWipsKeepEdits == ASSUME SerialClients PROVE AllSpec => []WipIsBasePlusEdits
<1>1. MergeInv /\ EditsInv /\ [AllNext]_AllVars => EditsInv'
  <2> SUFFICES ASSUME MergeInv, EditsInv, [AllNext]_AllVars PROVE EditsInv'
      OBVIOUS
  <2>1. IInv
      BY DEF MergeInv, ServerInv
  <2>2. CASE MergeNext
      BY <2>2, MergeEdits
  <2>3. CASE [ServerNext]_serverVars
      BY <2>1, <2>3, ServerEdits
  <2> QED
      BY <2>2, <2>3 DEF AllNext, AllVars
<1>2. AllInit => EditsInv
    BY InitEdits DEF AllInit, ServerInit
<1>3. EditsInv => WipIsBasePlusEdits
    BY DEF EditsInv
<1> QED
    BY AllInvariance, <1>1, <1>2, <1>3, PTL DEF AllSpec

----------------------------------------------------------------------------
(* A commit holds the edits of its wip and no others.                      *)

OwnEditsOnly(c) ==
    \E h \in Handlers : wreq[h] # wreq'[h] /\ \A x \in Paths :
       \/ x \in edits[wreq[h].wip]
       \/ commits'[c].parents = <<>> /\ commits'[c].tree[x] = NoBlob
       \/ \E p \in Parents(commits', c) : commits'[c].tree[x] = commits[p].tree[x]

\* Only CommitChanges adds a commit, and the tree it takes was an edit of the
\* commit that becomes the parent.
LEMMA CommitOwnEdits ==
    ASSUME IInv, EditsInv, [Next]_vars, NEW c \in DOMAIN commits' \ DOMAIN commits
    PROVE  OwnEditsOnly(c)
<1>1. PICK h \in Handlers : CommitChanges(h)
  <2>1. ~UNCHANGED commits
      OBVIOUS
  <2> QED
      BY <2>1 DEF Next, Step, CheckOutBranch, CheckOutWip, ReadWip, GetWip, MissWip, CreateWip,
          InsertWip, DeleteWip, PatchWip, UpdateWip, SetWip, PutObject, UploadObject,
          WriteObject, RemoveObject, DeleteObject, DeleteObjectFails, SaveWipTree, RevertWip,
          RevertAll, RevertPaths, RevertTo, RevertCommit, CommitWip, Abort, vars, storeVars
<1> DEFINE r == wreq[h]
<1>2. /\ r.pc = "wip" /\ r.op = "CommitWip" /\ r.tip = r.base /\ Finish(h)
      /\ commits' = AddRow(commits, NewCommit, [tree |-> r.tree, parents |-> ParentsOf(r.tip)])
    BY <1>1 DEF CommitChanges, CommitOn, At
<1>3. commits'[c].tree = r.tree /\ commits'[c].parents = ParentsOf(r.base)
    BY <1>2 DEF AddRow
<1>4. Differ(r.tree, TreeOf(r.base)) \subseteq edits[r.wip]
    BY <1>2 DEF EditsInv, WipRead, HasWip
<1>5. r # wreq'[h]
    BY <1>2 DEF Finish, Idle, IInv, RowsOK
<1>6. ASSUME NEW x \in Paths, x \notin edits[r.wip]
      PROVE  \/ commits'[c].parents = <<>> /\ commits'[c].tree[x] = NoBlob
             \/ \E p \in Parents(commits', c) : commits'[c].tree[x] = commits[p].tree[x]
  <2>1. r.tree[x] = TreeOf(r.base)[x]
      BY <1>4, <1>6 DEF Differ
  <2>2. CASE r.base = NoCommit
      BY <1>3, <2>1, <2>2 DEF TreeOf, EmptyTree, ParentsOf
  <2>3. CASE r.base # NoCommit
    <3>1. commits'[c].parents = <<r.base>>
        BY <1>3, <2>3 DEF ParentsOf
    <3>2. r.base \in Parents(commits', c)
        BY <3>1 DEF Parents
    <3>3. r.tree[x] = commits[r.base].tree[x]
        BY <2>1, <2>3 DEF TreeOf
    <3> QED BY <1>3, <3>2, <3>3
  <2> QED
      BY <2>2, <2>3
<1> QED
    BY <1>5, <1>6 DEF OwnEditsOnly

\* A commit differs from its parent only at paths its author edited in the wip
\* (CommitChanges: the base is compared with the tip that was read, the tree is
\* that of the wip).
THEOREM CommitsKeepToEdits == ASSUME SerialClients PROVE Spec => CommitsOwnEditsOnly
<1>1. IInv /\ EditsInv /\ [Next]_vars => \A c \in DOMAIN commits' \ DOMAIN commits : OwnEditsOnly(c)
    BY CommitOwnEdits
<1> QED
    BY Invariance, EditsInvariance, <1>1, PTL DEF Spec, CommitsOwnEditsOnly, OwnEditsOnly

\* The same beside ref requests: a branch deleted meanwhile takes the wip away,
\* but not what the request read of it.
THEOREM ServerCommitsKeepToEdits == ASSUME SerialClients PROVE ServerSpec => CommitsOwnEditsOnly
<1>1. ServerInv /\ EditsInv /\ [ServerNext]_serverVars => EditsInv'
    BY ServerEdits DEF ServerInv
<1>2. ServerInv /\ EditsInv /\ [ServerNext]_serverVars =>
         \A c \in DOMAIN commits' \ DOMAIN commits : OwnEditsOnly(c)
    BY CommitOwnEdits, RefRowsStep DEF ServerInv, ServerNext, WorkStep, RefsStep, serverVars,
        vars, storeVars
<1>3. ServerInit => EditsInv
    BY InitEdits DEF ServerInit
<1> QED
    BY ServerInvariance, <1>1, <1>2, <1>3, PTL DEF ServerSpec, CommitsOwnEditsOnly,
        OwnEditsOnly

----------------------------------------------------------------------------
(* The wip requests implement AtomicWips: what a request writes at its end *)
(* is what the operation does to the wip as it is then, and its other      *)
(* steps are stutters.                                                     *)

\* Without ref requests, the wip a request works on stays.
Live == \A h \in Handlers : HasWip(wreq[h]) => wreq[h].wip \in DOMAIN wips

Sets(h) == At(h, "UpdateWip", "wip")
Setting == {wreq[h].wip : h \in {k \in Handlers : Sets(k)}}

\* The request finds one of its user's wips on the branch.
LEMMA CheckedOut ==
    ASSUME IInv, NEW h \in Handlers, CheckOutWip(h)
    PROVE  \E w \in WipsOf(wreq[h].user, wreq[h].branch) : \E q :
              wreq' = [wreq EXCEPT ![h] = q] /\ q.pc = "wip" /\ q.op = wreq[h].op /\ q.wip = w
<1>1. PICK w \in WipsOf(wreq[h].user, wreq[h].branch) :
        wreq' = [wreq EXCEPT ![h] =
                    [@ EXCEPT !.pc = "wip", !.wip = w,
                              !.base = Used(wreq[h].op, BaseOps, wips[w].base),
                              !.tree = IF wreq[h].op = "UpdateWip" THEN EmptyTree
                                       ELSE wips[w].tree]]
    BY DEF CheckOutWip, ReadWip
<1> DEFINE c == Used(wreq[h].op, BaseOps, wips[w].base)
           t == IF wreq[h].op = "UpdateWip" THEN EmptyTree ELSE wips[w].tree
           q == [wreq[h] EXCEPT !.pc = "wip", !.wip = w, !.base = c, !.tree = t]
<1>2. q.pc = "wip" /\ q.op = wreq[h].op /\ q.wip = w
    BY StoreRows DEF Request
<1>3. wreq' = [wreq EXCEPT ![h] = q]
    BY <1>1
<1> HIDE DEF q
<1> QED
    BY <1>2, <1>3

\* What a step of handler h does to its own record: it keeps the wip it has, or
\* finds one.
LEMMA OwnRecord ==
    ASSUME IInv, Live, NEW h \in Handlers,
           (\E u \in Users, op \in Ops, b \in BranchIds : CheckOutBranch(h, u, op, b)) \/ Step(h)
    PROVE  /\ \A k \in Handlers \ {h} : wreq'[k] = wreq[k]
           /\ HasWip(wreq'[h]) => wreq'[h].wip \in DOMAIN wips
<1>1. wreq[h] \in Request /\ wreq \in [Handlers -> Request]
    BY StoreRows DEF IInv, RowsOK
<1>2. CASE CheckOutWip(h)
  <2>1. PICK q : wreq' = [wreq EXCEPT ![h] = q] /\ q.wip \in DOMAIN wips
      BY <1>2, CheckedOut DEF WipsOf
  <2> QED
      BY <1>1, <2>1
<1>3. CASE \E u \in Users, op \in Ops, b \in BranchIds : CheckOutBranch(h, u, op, b)
    BY <1>1, <1>3 DEF CheckOutBranch, Idle, HasWip
<1>4. CASE MissWip(h)
    BY <1>1, <1>4 DEF MissWip, HasWip, Request
<1>5. CASE Finish(h)
    BY <1>1, <1>5 DEF Finish, Idle, HasWip
<1>6. CASE HasWip(wreq[h]) /\ \E pc, X, t : Computed(h, pc, X, t)
  <2>1. PICK q : wreq' = [wreq EXCEPT ![h] = q] /\ q.wip = wreq[h].wip
      BY <1>6 DEF Computed, Idle
  <2> QED
      BY <1>1, <1>6, <2>1 DEF Live
<1>7. \/ CheckOutWip(h) \/ MissWip(h) \/ Finish(h)
      \/ HasWip(wreq[h]) /\ \E pc, X, t : Computed(h, pc, X, t)
      \/ \E u \in Users, op \in Ops, b \in BranchIds : CheckOutBranch(h, u, op, b)
    BY DEF Step, GetWip, CreateWip, InsertWip, DeleteWip, PatchWip, UpdateWip, SetWip,
        PutObject, UploadObject, WriteObject, RemoveObject, DeleteObject, DeleteObjectFails,
        SaveWipTree, RevertWip, RevertAll, RevertPaths, RevertTo, RevertCommit, CommitWip,
        CommitChanges, CommitOn, Abort, At, HasWip
<1> QED
    BY <1>2, <1>3, <1>4, <1>5, <1>6, <1>7

\* A wip is deleted by its own user only, who works on no other request then.
LEMMA LiveStep == ASSUME SerialClients, IInv, EditsInv, Live, [Next]_vars PROVE Live'
<1>1. CASE UNCHANGED vars
    BY <1>1 DEF vars, storeVars, Live
<1>2. CASE Next
  <2>1. PICK h \in Handlers :
          (\E u \in Users, op \in Ops, b \in BranchIds : CheckOutBranch(h, u, op, b)) \/ Step(h)
      BY <1>2 DEF Next
  <2>2. /\ \A k \in Handlers \ {h} : wreq'[k] = wreq[k]
        /\ HasWip(wreq'[h]) => wreq'[h].wip \in DOMAIN wips
      BY <2>1, OwnRecord
  <2>3. CASE DeleteWip(h)
    <3>1. DOMAIN wips' = DOMAIN wips \ WipsOf(wreq[h].user, wreq[h].branch) /\ InFlight(wreq[h])
        BY <2>3 DEF DeleteWip, DropRows, At, InFlight
    <3>2. \A k \in Handlers \ {h} : HasWip(wreq[k]) => wreq[k].wip \in DOMAIN wips'
      <4> SUFFICES ASSUME NEW k \in Handlers \ {h}, HasWip(wreq[k]) PROVE wreq[k].wip \in DOMAIN wips'
          OBVIOUS
      <4>1. wreq[k].wip \in DOMAIN wips /\ wips[wreq[k].wip].creator = wreq[k].user
          BY DEF Live, EditsInv, WipRead, UpToDate
      <4>2. wreq[k].user # wreq[h].user
          BY <3>1 DEF EditsInv, Alone, InFlight, HasWip
      <4> QED
          BY <3>1, <4>1, <4>2 DEF WipsOf
    <3>3. ~HasWip(wreq'[h])
        BY <2>3 DEF DeleteWip, Finish, Idle, HasWip, IInv, RowsOK
    <3> QED
        BY <2>2, <3>2, <3>3 DEF Live, HasWip
  <2>4. CASE ~DeleteWip(h)
    <3>1. DOMAIN wips \subseteq DOMAIN wips'
        BY <2>1, <2>4
           DEF Step, CheckOutBranch, CheckOutWip, ReadWip, GetWip, MissWip, CreateWip,
               InsertWip, AddRow, PatchWip, UpdateWip, SetWip, PutObject, UploadObject,
               WriteObject, RemoveObject, DeleteObject, DeleteObjectFails, SaveWipTree,
               RevertWip, RevertAll, RevertPaths, RevertTo, RevertCommit, CommitWip,
               CommitChanges, CommitOn, Abort, storeVars, SetWipTree, SetWipBase
    <3> QED
        BY <2>2, <3>1 DEF Live, HasWip
  <2> QED
      BY <2>3, <2>4
<1> QED
    BY <1>1, <1>2

\* The wips that are being set by hand, before and after a step of handler h.
LEMMA SettingSame ==
    ASSUME IInv, NEW h \in Handlers, \A k \in Handlers \ {h} : wreq'[k] = wreq[k],
           ~Sets(h), ~Sets(h)'
    PROVE  Setting' = Setting
<1>1. \A k \in Handlers : Sets(k)' <=> Sets(k)
    BY DEF Sets, At
<1>2. \A k \in Handlers : Sets(k) => wreq'[k].wip = wreq[k].wip
    OBVIOUS
<1> QED
    BY <1>1, <1>2 DEF Setting

\* A request that sets a wip by hand ends: nobody else was setting it.
LEMMA SettingDone ==
    ASSUME IInv, EditsInv, NEW h \in Handlers, Finish(h), Sets(h)
    PROVE  wreq[h].wip \in Setting /\ Setting' = Setting \ {wreq[h].wip}
<1>1. wreq'[h] = Idle /\ \A k \in Handlers \ {h} : wreq'[k] = wreq[k]
    BY DEF Finish, IInv, RowsOK
<1>2. ~Sets(h)'
    BY <1>1 DEF Sets, At, Idle
<1>3. \A k \in Handlers \ {h} : Sets(k) => wreq[k].wip # wreq[h].wip
    BY DEF Sets, At, EditsInv, Alone, HasWip
<1>4. \A k \in Handlers \ {h} : (Sets(k)' <=> Sets(k)) /\ wreq'[k].wip = wreq[k].wip
    BY <1>1 DEF Sets, At
<1> QED
    BY <1>2, <1>3, <1>4 DEF Setting

\* A step that changes no wip and no commit: reading, computing, giving up.
LEMMA QuietSteps ==
    ASSUME IInv, EditsInv, NEW h \in Handlers, UNCHANGED <<wips, commits>>,
           Setting' = Setting \/ (\E w : Setting' = Setting \cup {w})
                              \/ (\E w \in Setting : Setting' = Setting \ {w})
    PROVE  Wips!Next \/ UNCHANGED <<wips, commits, Setting>>
<1>1. CASE Setting' = Setting
    BY <1>1
<1>2. CASE \E w : Setting' = Setting \cup {w}
    BY <1>2 DEF Wips!Next, Wips!Ask, Setting, Sets
<1>3. CASE \E w \in Setting : Setting' = Setting \ {w}
    BY <1>3 DEF Wips!Next, Wips!GiveUp, Setting, Sets
<1> QED
    BY <1>1, <1>2, <1>3

\* A step that ends a request on its wip, or leaves it to its transaction, while
\* no one asks to set a wip by hand.
LEMMA EndsSetting ==
    ASSUME IInv, NEW h \in Handlers, wreq[h].op # "UpdateWip" \/ wreq[h].pc # "wip",
           Finish(h) \/ \E X, t : Computed(h, "save", X, t) \/ Computed(h, "tx", X, t)
    PROVE  Setting' = Setting
<1>1. PICK q : wreq' = [wreq EXCEPT ![h] = q] /\ q.pc # "wip"
  <2>1. CASE Finish(h)
    <3>1. Idle.pc # "wip"
        BY DEF Idle
    <3> QED BY <2>1, <3>1 DEF Finish
  <2>2. CASE \E X, t : Computed(h, "save", X, t)
      BY <2>2 DEF Computed, Idle
  <2>3. CASE \E X, t : Computed(h, "tx", X, t)
      BY <2>3 DEF Computed, Idle
  <2> QED BY <2>1, <2>2, <2>3
<1>2. ~Sets(h) /\ ~Sets(h)' /\ \A k \in Handlers \ {h} : wreq'[k] = wreq[k]
    BY <1>1 DEF Sets, At, IInv, RowsOK
<1> QED
    BY <1>2, SettingSame

\* CreateWip opens a wip on the commit it read.
LEMMA OpenRefines ==
    ASSUME IInv, EditsInv, NEW h \in Handlers, CreateWip(h)
    PROVE  Wips!Next
<1> DEFINE r   == wreq[h]
           w   == NewId(WipIds)
           row == [creator |-> r.user, ref |-> r.branch, base |-> r.tip, tree |-> TreeOf(r.tip)]
<1>1. wips' = AddRow(wips, w, row) /\ UNCHANGED commits /\ Finish(h) /\ At(h, "GetWip", "new")
    BY DEF CreateWip, InsertWip
<1>2. w \notin DOMAIN wips
    BY NewIdFresh DEF CreateWip, InsertWip, EditsInv, OneWip
<1>3. row.base = r.tip /\ row.tree = TreeOf(r.tip)
    OBVIOUS
<1> HIDE DEF w, row
<1>4. Setting' = Setting
    BY <1>1, EndsSetting DEF At
<1>5. w \in DOMAIN wips' \ DOMAIN wips /\ Wips!Open(w)
    BY <1>1, <1>2, <1>3 DEF AddRow, TreeOf, EmptyTree, Wips!Open
<1> QED
    BY <1>4, <1>5 DEF Wips!Next, Wips!WipStep, Setting, Sets

\* The step writes tree t to the wip w that is there.
LEMMA TreeWritten ==
    ASSUME IInv, NEW w \in DOMAIN wips, NEW t, wips' = SetWipTree(wips, w, t)
    PROVE  wips' = [wips EXCEPT ![w].tree = t] /\ DOMAIN wips' = DOMAIN wips
BY DEF SetWipTree, IInv, RowsOK, StoreTypeOK, IsTable

\* SaveWipTree puts or removes files, of the tree the wip has.
LEMMA SaveRefines ==
    ASSUME IInv, EditsInv, Live, NEW h \in Handlers, SaveWipTree(h)
    PROVE  Wips!Next
<1> DEFINE r == wreq[h]
           w == wreq[h].wip
<1>1. r.pc = "save" /\ wips' = SetWipTree(wips, w, r.next) /\ UNCHANGED commits /\ Finish(h)
    BY DEF SaveWipTree
<1>2. w \in DOMAIN wips /\ Edit(r.next, wips[w].tree, r.scope) /\ r.scope \subseteq Paths
    BY <1>1, StoreRows DEF Live, HasWip, EditsInv, WipRead, UpToDate, Request
<1>3. Setting' = Setting
    BY <1>1, EndsSetting
<1>4. wips' = [wips EXCEPT ![w].tree = r.next] /\ DOMAIN wips' = DOMAIN wips
    BY <1>1, <1>2, TreeWritten
<1>5. wips[w] \in WipRow
    BY <1>2, StoreRows
<1>6. CASE \E x \in Paths : r.next = [wips[w].tree EXCEPT ![x] = r.next[x]]
  <2>1. PICK x \in Paths : r.next = [wips[w].tree EXCEPT ![x] = r.next[x]]
      BY <1>6
  <2>2. wips'[w].tree = r.next
      BY <1>2, <1>4, <1>5 DEF WipRow
  <2>3. Wips!Put(w, x)
      BY <1>1, <1>4, <2>1, <2>2 DEF Wips!Put
  <2> QED
      BY <1>2, <1>3, <1>4, <2>3 DEF Wips!Next, Wips!WipStep, Setting, Sets
<1>7. CASE \E Y \in SUBSET r.scope : r.next = [x \in Paths |-> IF x \in Y THEN NoBlob ELSE wips[w].tree[x]]
  <2>1. PICK Y \in SUBSET Paths : r.next = [x \in Paths |-> IF x \in Y THEN NoBlob ELSE wips[w].tree[x]]
      BY <1>2, <1>7
  <2>2. Wips!Remove(w, Y)
      BY <1>1, <1>4, <2>1 DEF Wips!Remove
  <2> QED
      BY <1>2, <1>3, <1>4, <2>2 DEF Wips!Next, Wips!WipStep, Setting, Sets
<1> QED
    BY <1>2, <1>6, <1>7 DEF Edit

\* Revert takes files from the base the wip has.
LEMMA RevertRefines ==
    ASSUME IInv, EditsInv, Live, NEW h \in Handlers,
           RevertAll(h) \/ \E X \in SUBSET Paths : RevertPaths(h, X)
    PROVE  Wips!Next
<1> DEFINE r == wreq[h]
           w == wreq[h].wip
<1>1. r.pc = "wip" /\ r.op = "RevertWip" /\ UNCHANGED commits
    BY DEF RevertAll, RevertPaths, RevertTo, At
<1>2. /\ w \in DOMAIN wips /\ r.base = wips[w].base /\ r.tree = wips[w].tree
      /\ TreeOf(r.base) \in Tree
    BY <1>1, StoreRows DEF Live, HasWip, EditsInv, WipRead, UpToDate, BaseOps
<1>3. PICK X \in SUBSET Paths :
         wips' = SetWipTree(wips, w, [x \in Paths |-> IF x \in X THEN TreeOf(r.base)[x] ELSE r.tree[x]])
  <2>1. CASE RevertAll(h)
    <3>1. TreeOf(r.base) = [x \in Paths |-> IF x \in Paths THEN TreeOf(r.base)[x] ELSE r.tree[x]]
        BY <1>2 DEF Tree
    <3> WITNESS Paths \in SUBSET Paths
    <3>2. wips' = SetWipTree(wips, w, TreeOf(r.base))
        BY <2>1 DEF RevertAll
    <3> QED BY <3>1, <3>2
  <2>2. CASE \E X \in SUBSET Paths : RevertPaths(h, X)
      BY <2>2 DEF RevertPaths, RevertTo
  <2> QED BY <2>1, <2>2
<1>4. Setting' = Setting
    BY <1>1, EndsSetting DEF RevertAll, RevertPaths, RevertTo
<1> DEFINE t == [x \in Paths |-> IF x \in X THEN TreeOf(r.base)[x] ELSE r.tree[x]]
<1>5. wips' = [wips EXCEPT ![w].tree = t] /\ DOMAIN wips' = DOMAIN wips
    BY <1>2, <1>3, TreeWritten
<1>6. Wips!Base(w) = TreeOf(r.base)
    BY <1>2 DEF Wips!Base, TreeOf, EmptyTree
<1>7. Wips!Revert(w, X)
    BY <1>1, <1>2, <1>5, <1>6 DEF Wips!Revert
<1> QED
    BY <1>2, <1>4, <1>5, <1>7 DEF Wips!Next, Wips!WipStep, Setting, Sets

\* CommitChanges commits the tree the wip has.
LEMMA CommitRefines ==
    ASSUME IInv, EditsInv, Live, NEW h \in Handlers, CommitChanges(h)
    PROVE  Wips!Next
<1> DEFINE r == wreq[h]
           w == wreq[h].wip
           c == NewCommit
<1>1. PICK row : commits' = AddRow(commits, c, row) /\ row.tree = r.tree
    BY DEF CommitChanges, CommitOn
<1>2. r.pc = "wip" /\ r.op = "CommitWip" /\ wips' = SetWipBase(wips, w, c) /\ Finish(h)
    BY DEF CommitChanges, CommitOn, At
<1>3. c \notin DOMAIN commits
    BY NewCommitFresh DEF CommitChanges, CommitOn
<1> HIDE DEF c
<1>4. w \in DOMAIN wips /\ r.tree = wips[w].tree
    BY <1>2 DEF Live, HasWip, EditsInv, WipRead, UpToDate
<1>5. Setting' = Setting
    BY <1>2, EndsSetting
<1>6. wips' = [wips EXCEPT ![w].base = c]
    BY <1>2, <1>4 DEF SetWipBase, IInv, RowsOK, StoreTypeOK, IsTable
<1>7. Wips!Commit(w, c) /\ c \in DOMAIN commits' \ DOMAIN commits
    BY <1>1, <1>3, <1>4, <1>6 DEF AddRow, Wips!Commit
<1> QED
    BY <1>4, <1>5, <1>7 DEF Wips!Next, Wips!WipStep, Setting, Sets

\* UpdateWip sets the wip of a user who asked for it.
LEMMA SetRefines ==
    ASSUME IInv, EditsInv, NEW h \in Handlers, NEW fields, NEW c, NEW t, UpdateWip(h, fields, c, t)
    PROVE  Wips!Next
<1> DEFINE w     == wreq[h].wip
           based == IF "base" \in fields THEN SetWipBase(wips, w, c) ELSE wips
<1>1. /\ Sets(h) /\ wips' = IF "tree" \in fields THEN SetWipTree(based, w, t) ELSE based
      /\ Finish(h) /\ UNCHANGED commits
    BY DEF UpdateWip, SetWip, Sets
<1>2. DOMAIN based = DOMAIN wips /\ \A o \in DOMAIN wips : o # w => based[o] = wips[o]
    BY DEF SetWipBase
<1> HIDE DEF based
<1>3. DOMAIN wips' = DOMAIN wips /\ \A o \in DOMAIN wips \ {w} : wips'[o] = wips[o]
    BY <1>1, <1>2 DEF SetWipTree
<1>4. w \in Setting /\ Setting' = Setting \ {w}
    BY <1>1, SettingDone
<1> QED
    BY <1>1, <1>3, <1>4 DEF Wips!Next, Wips!Set, Setting, Sets

\* DeleteWip drops the one wip the user has on the branch.
LEMMA DropRefines ==
    ASSUME IInv, EditsInv, NEW h \in Handlers, DeleteWip(h)
    PROVE  Wips!Next
<1> DEFINE gone == WipsOf(wreq[h].user, wreq[h].branch)
<1>1. gone # {} /\ wips' = DropRows(wips, gone) /\ Finish(h) /\ UNCHANGED commits /\ wreq[h].op = "DeleteWip"
    BY DEF DeleteWip, At
<1>2. PICK w \in DOMAIN wips : gone = {w}
    BY <1>1 DEF WipsOf, EditsInv, OneWip
<1>3. Setting' = Setting
    BY <1>1, EndsSetting
<1>4. Wips!Drop(w) /\ w \in DOMAIN wips \ DOMAIN wips'
    BY <1>1, <1>2 DEF DropRows, Wips!Drop
<1> QED
    BY <1>3, <1>4 DEF Wips!Next, Wips!WipStep, Setting, Sets

\* Every step of a wip request is a step of AtomicWips or changes nothing there.
LEMMA NextRefines ==
    ASSUME SerialClients, IInv, EditsInv, Live, [Next]_vars
    PROVE  Wips!Next \/ UNCHANGED <<wips, commits, Setting>>
<1>1. CASE UNCHANGED vars
    BY <1>1 DEF vars, storeVars, Setting, Sets, At
<1>2. ASSUME NEW h \in Handlers, NEW u \in Users, NEW op \in Ops, NEW b \in BranchIds,
             CheckOutBranch(h, u, op, b)
      PROVE  UNCHANGED <<wips, commits, Setting>>
  <2>1. wreq'[h].pc = "branch" /\ \A k \in Handlers \ {h} : wreq'[k] = wreq[k]
      BY <1>2 DEF CheckOutBranch, Idle, IInv, RowsOK
  <2>2. ~Sets(h) /\ ~Sets(h)'
      BY <1>2, <2>1 DEF Sets, At, CheckOutBranch
  <2> QED
      BY <1>2, <2>1, <2>2, SettingSame DEF CheckOutBranch, storeVars
<1>3. ASSUME NEW h \in Handlers, CheckOutWip(h)
      PROVE  Wips!Next \/ UNCHANGED <<wips, commits, Setting>>
  <2>1. PICK w, q : wreq' = [wreq EXCEPT ![h] = q] /\ q.pc = "wip" /\ q.op = wreq[h].op /\ q.wip = w
      BY <1>3, CheckedOut
  <2>2. UNCHANGED <<wips, commits>> /\ ~Sets(h)
      BY <1>3 DEF CheckOutWip, ReadWip, storeVars, Sets, At
  <2>3. wreq'[h] = q /\ \A k \in Handlers \ {h} : wreq'[k] = wreq[k]
      BY <2>1 DEF IInv, RowsOK
  <2>4. CASE wreq[h].op = "UpdateWip"
    <3>1. Sets(h)' /\ \A k \in Handlers \ {h} : (Sets(k)' <=> Sets(k)) /\ wreq'[k].wip = wreq[k].wip
        BY <2>1, <2>3, <2>4 DEF Sets, At
    <3>2. Setting' = Setting \cup {w}
        BY <2>1, <2>2, <2>3, <3>1 DEF Setting
    <3> QED BY <2>2, <3>2, QuietSteps
  <2>5. CASE wreq[h].op # "UpdateWip"
    <3>1. ~Sets(h)'
        BY <2>1, <2>3, <2>5 DEF Sets, At
    <3>2. Setting' = Setting
        BY <2>2, <2>3, <3>1, SettingSame
    <3> QED BY <2>2, <3>2
  <2> QED BY <2>4, <2>5
<1>4. ASSUME NEW h \in Handlers, MissWip(h)
      PROVE  UNCHANGED <<wips, commits, Setting>>
  <2>1. wreq'[h].pc = "new" /\ \A k \in Handlers \ {h} : wreq'[k] = wreq[k]
      BY <1>4, StoreRows DEF MissWip, Request, IInv, RowsOK
  <2>2. ~Sets(h) /\ ~Sets(h)'
      BY <1>4, <2>1 DEF Sets, At, MissWip
  <2> QED
      BY <1>4, <2>1, <2>2, SettingSame DEF MissWip, storeVars
<1>5. ASSUME NEW h \in Handlers, PutObject(h) \/ RemoveObject(h)
      PROVE  UNCHANGED <<wips, commits, Setting>>
  <2>1. UNCHANGED <<wips, commits>> /\ wreq[h].op # "UpdateWip" /\ \E X, t : Computed(h, "save", X, t)
      BY <1>5 DEF PutObject, UploadObject, WriteObject, RemoveObject, DeleteObject,
                  DeleteObjectFails, At, storeVars
  <2> QED
      BY <2>1, EndsSetting
<1>6. ASSUME NEW h \in Handlers, RevertCommit(h)
      PROVE  UNCHANGED <<wips, commits, Setting>>
    BY <1>6, EndsSetting DEF RevertCommit
<1>7. ASSUME NEW h \in Handlers, Abort(h)
      PROVE  Wips!Next \/ UNCHANGED <<wips, commits, Setting>>
  <2>1. UNCHANGED <<wips, commits>> /\ Finish(h)
      BY <1>7 DEF Abort, storeVars
  <2>2. CASE Sets(h)
      BY <2>1, <2>2, SettingDone, QuietSteps
  <2>3. CASE ~Sets(h)
      BY <2>1, <2>3, EndsSetting DEF Sets, At
  <2> QED BY <2>2, <2>3
<1>8. ASSUME NEW h \in Handlers, Step(h)
      PROVE  Wips!Next \/ UNCHANGED <<wips, commits, Setting>>
    BY <1>3, <1>4, <1>5, <1>6, <1>7, <1>8, OpenRefines, SaveRefines, RevertRefines,
        CommitRefines, SetRefines, DropRefines DEF Step, GetWip, RevertWip, CommitWip, PatchWip
<1> QED
    BY <1>1, <1>2, <1>8 DEF Next

\* The wip requests implement AtomicWips: for users who wait for their answers,
\* each request takes effect at once on the wip as it is (UploadObject,
\* DeleteObject, Revert, CommitChanges, UpdateWip, DeleteWip), though it writes
\* what it computed from an earlier read.
THEOREM RequestsTakeEffectAtOnce == ASSUME SerialClients PROVE Spec => TakesEffectAtOnce
<1>1. Init => Live /\ Wips!Init
    BY DEF Init, StoreInit, Idle, Live, HasWip, Wips!Init, At
<1>2. IInv /\ EditsInv /\ Live /\ [Next]_vars => Live'
    BY LiveStep
<1>3. IInv /\ EditsInv /\ Live /\ [Next]_vars =>
         [Wips!Next]_<<wips, commits, {wreq[h].wip : h \in {k \in Handlers : At(k, "UpdateWip", "wip")}}>>
    BY NextRefines DEF Setting, Sets
<1> QED
    BY Invariance, EditsInvariance, <1>1, <1>2, <1>3, PTL DEF Spec, TakesEffectAtOnce,
        Wips!Spec

----------------------------------------------------------------------------
(* One request at a time.  What the one in flight has read.                *)

\* A wip request: one that clients send; the branch it checked out, its tip, and
\* the wip on it.
WipFresh(q) ==
    /\ q.pc # "idle" => q.op \in Ops
    /\ q.pc \in {"branch", "new"} =>
          /\ q.branch \in DOMAIN branches
          /\ q.op \in TipOps => q.tip = branches[q.branch].commit
    /\ q.pc = "wip" =>
          /\ q.wip \in DOMAIN wips /\ wips[q.wip].ref = q.branch
          /\ q.op = "CommitWip" => q.tip = branches[q.branch].commit

\* A ref request: the name it takes is free, the branch it deletes is there and
\* not HEAD, the name HEAD is to have is a branch's.
RefFresh(q) ==
    /\ q.op = "DeleteBranch" /\ q.pc # "idle" => q.name # head
    /\ q.pc = "checked" =>
          /\ q.op = "CreateBranch" => NamedRows(q.name) = {}
          /\ q.op = "DeleteBranch" => q.row \in DOMAIN branches /\ branches[q.row].name = q.name
          /\ q.op = "SetHead"      => NamedRows(q.name) # {}

\* A merge request: its branches had rows at some time; a merge knows the row it
\* merges, the name of its target and then the tip of the target.
MergeFresh(q) ==
    /\ q.pc \in {"find", "open", "insert"} => q.source \in spent
    /\ q.pc \in {"open", "insert"} => q.target \in spent
    /\ q.pc \in {"read", "source", "target", "merge"} => q.number \in DOMAIN mrs
    /\ q.pc \in {"read", "source", "merge"} => q.target = mrs[q.number].target
    /\ q.pc = "target" => LET b == mrs[q.number].target
                          IN  b \in DOMAIN branches /\ branches[b].name = q.name
    /\ q.pc = "merge" => q.target \in DOMAIN branches /\ q.t = branches[q.target].commit

\* One request at a time, of any kind.
OneAtATime == OneRequest /\ OneMerge /\ (MergeQuiet \/ (Quiet /\ RefQuiet))

\* The branches and the wips on them.
RefsInv ==
    /\ OneAtATime
    /\ HeadExists /\ BranchNamesUnique /\ WipsHaveBranches
    /\ \A h \in Handlers : WipFresh(wreq[h])
    /\ \A k \in RefHandlers : RefFresh(rreq[k])

\* The merge requests: numbered from one, between branches that had rows.
MergesInv ==
    /\ DOMAIN mrs = 1 .. Cardinality(DOMAIN mrs)
    /\ \A n \in Numbers \ DOMAIN mrs : took[n] = NoCommit
    /\ \A n \in DOMAIN mrs : mrs[n].target \in spent
    /\ \A k \in MergeHandlers : MergeFresh(mreq[k])

SerialInv == MergeInv /\ ServerIdsSpent /\ RefsInv /\ MergesInv

----------------------------------------------------------------------------
(* The wip requests.                                                       *)

\* The steps of the handler h.
WipStep(h) ==
    \/ \E u \in Users, op \in Ops, b \in BranchIds : CheckOutBranch(h, u, op, b)
    \/ Step(h)

\* A step that leaves the server with one request at most was taken with no
\* other request in flight.
LEMMA OnlyWipRequest ==
    ASSUME RowsOK, OneAtATime, NEW h \in Handlers, WipStep(h), UNCHANGED refVars, OneRequest'
    PROVE  /\ RefQuiet
           /\ \A i \in Handlers : i # h => wreq[i].pc = "idle" /\ wreq'[i] = wreq[i]
<1>1. PICK q : wreq' = [wreq EXCEPT ![h] = q]
    BY DEF WipStep, CheckOutBranch, Step, CheckOutWip, ReadWip, GetWip, MissWip, CreateWip,
        InsertWip, DeleteWip, PatchWip, UpdateWip, SetWip, PutObject, UploadObject,
        WriteObject, RemoveObject, DeleteObject, DeleteObjectFails, SaveWipTree, RevertWip,
        RevertAll, RevertPaths, RevertTo, RevertCommit, CommitWip, CommitChanges, CommitOn,
        Abort, Computed, Finish
<1>2. \A i \in Handlers : i # h => wreq'[i] = wreq[i]
    BY <1>1 DEF RowsOK
<1>3. CASE wreq[h].pc # "idle"
    BY <1>2, <1>3 DEF OneAtATime, OneRequest, Quiet
<1>4. CASE wreq[h].pc = "idle"
  <2>1. wreq'[h].pc = "branch"
      BY <1>4 DEF WipStep, CheckOutBranch, Step, CheckOutWip, ReadWip, GetWip, MissWip,
          CreateWip, InsertWip, DeleteWip, PatchWip, UpdateWip, SetWip, PutObject,
          UploadObject, WriteObject, RemoveObject, DeleteObject, DeleteObjectFails,
          SaveWipTree, RevertWip, RevertAll, RevertPaths, RevertTo, RevertCommit, CommitWip,
          CommitChanges, CommitOn, Abort, At, RowsOK, Idle
  <2>2. RefQuiet' /\ \A i \in Handlers : i # h => wreq'[i].pc = "idle"
      BY <2>1 DEF OneRequest, Quiet
  <2> QED
      BY <1>2, <2>2 DEF RefQuiet, refVars
<1> QED
    BY <1>3, <1>4

\* What a step of a wip request does to branches and wips.  A branch moves to a
\* child of the commit it was at; a wip that is new, or that was committed, is
\* at the tip of its branch.
WipMoves(h) ==
    /\ head' = head /\ DOMAIN branches' = DOMAIN branches
    /\ \A b \in DOMAIN branches :
          /\ branches'[b].name = branches[b].name
          /\ \/ branches'[b].commit = branches[b].commit
             \/ /\ branches'[b].commit \in DOMAIN commits'
                /\ branches[b].commit \in Parents(commits', branches'[b].commit) \cup {NoCommit}
    /\ \A w \in DOMAIN wips' :
          \/ /\ w \in DOMAIN wips /\ wips'[w].ref = wips[w].ref
             /\ ~At(h, "UpdateWip", "wip") => wips'[w].base = wips[w].base
          \/ wips'[w].ref \in DOMAIN branches /\ wips'[w].base = branches'[wips'[w].ref].commit

\* Writes of a wip's tree or base leave the rest of its row.
LEMMA WipTreeWrite ==
    ASSUME RowsOK, NEW id, NEW x, wips' = SetWipTree(wips, id, x)
    PROVE  /\ DOMAIN wips' = DOMAIN wips
           /\ \A w \in DOMAIN wips : wips'[w].ref = wips[w].ref /\ wips'[w].base = wips[w].base
BY DEF SetWipTree, WipRow, RowsOK, StoreTypeOK, IsTable

\* UpdateByID of a wip's base: one row's base changes, and no wip's branch.
LEMMA WipBaseWrite ==
    ASSUME RowsOK, NEW id, NEW x, wips' = SetWipBase(wips, id, x)
    PROVE  /\ DOMAIN wips' = DOMAIN wips
           /\ \A w \in DOMAIN wips : /\ wips'[w].ref = wips[w].ref
                                    /\ wips'[w].base = IF w = id THEN x ELSE wips[w].base
BY DEF SetWipBase, WipRow, RowsOK, StoreTypeOK, IsTable

\* A step that writes no branch.
LEMMA SameBranches ==
    ASSUME NEW h \in Handlers, UNCHANGED <<head, branches>>,
           \A w \in DOMAIN wips' :
              \/ /\ w \in DOMAIN wips /\ wips'[w].ref = wips[w].ref
                 /\ ~At(h, "UpdateWip", "wip") => wips'[w].base = wips[w].base
              \/ wips'[w].ref \in DOMAIN branches /\ wips'[w].base = branches'[wips'[w].ref].commit
    PROVE  WipMoves(h)
BY DEF WipMoves

\* CommitChanges moves the branch and the wip to the commit it made.
LEMMA CommitMoves ==
    ASSUME MergeInv, WipsHaveBranches, NEW h \in Handlers, WipFresh(wreq[h]), CommitChanges(h)
    PROVE  WipMoves(h)
<1> DEFINE r == wreq[h]
           c == NewCommit
           d == branches[r.branch].commit
<1>1. /\ At(h, "CommitWip", "wip") /\ HasNewCommit /\ UNCHANGED head
      /\ commits' = AddRow(commits, c, [tree |-> r.tree, parents |-> ParentsOf(r.tip)])
      /\ branches' = SetBranchCommit(branches, r.branch, c)
      /\ wips' = SetWipBase(wips, r.wip, c)
    BY DEF CommitChanges, CommitOn
<1>2. RowsOK
    BY DEF MergeInv, ServerInv, IInv
<1>3. \A b \in DOMAIN branches : branches[b] \in BranchRow
    BY <1>2 DEF RowsOK, StoreTypeOK, IsTable
<1>4. /\ DOMAIN branches' = DOMAIN branches
      /\ \A b \in DOMAIN branches :
            /\ branches'[b].name = branches[b].name
            /\ branches'[b].commit = IF b = r.branch THEN c ELSE branches[b].commit
    BY <1>1, <1>3 DEF SetBranchCommit, BranchRow
<1>5. r.branch \in DOMAIN branches => r.tip = d
    BY <1>1 DEF WipFresh, At
<1>6. c \in DOMAIN commits' /\ r.tip \in Parents(commits', c) \cup {NoCommit}
    BY <1>1 DEF AddRow, Parents, ParentsOf
<1>7. r.wip \in DOMAIN wips /\ wips[r.wip].ref = r.branch
    BY <1>1 DEF WipFresh, At
<1>8. r.branch \in DOMAIN branches
    BY <1>7 DEF WipsHaveBranches
<1> HIDE DEF c, d, r
<1>9. \A b \in DOMAIN branches :
         \/ branches'[b].commit = branches[b].commit
         \/ /\ branches'[b].commit \in DOMAIN commits'
            /\ branches[b].commit \in Parents(commits', branches'[b].commit) \cup {NoCommit}
    BY <1>4, <1>5, <1>6 DEF d
<1>10. /\ DOMAIN wips' = DOMAIN wips
       /\ \A w \in DOMAIN wips : /\ wips'[w].ref = wips[w].ref
                                /\ wips'[w].base = IF w = r.wip THEN c ELSE wips[w].base
    BY <1>1, <1>2, WipBaseWrite
<1>11. ASSUME NEW w \in DOMAIN wips'
      PROVE  \/ /\ w \in DOMAIN wips /\ wips'[w].ref = wips[w].ref
                /\ ~At(h, "UpdateWip", "wip") => wips'[w].base = wips[w].base
             \/ wips'[w].ref \in DOMAIN branches /\ wips'[w].base = branches'[wips'[w].ref].commit
  <2>1. CASE w = r.wip
      BY <1>4, <1>7, <1>8, <1>10, <2>1
  <2>2. CASE w # r.wip
      BY <1>10, <2>2
  <2> QED
      BY <2>1, <2>2
<1> QED
    BY <1>1, <1>4, <1>9, <1>11 DEF WipMoves

\* Of the wip requests only CommitChanges moves a branch, and only GetOrCreateWip
\* adds a wip, at its branch's tip.
LEMMA WipMovesStep ==
    ASSUME MergeInv, WipsHaveBranches, NEW h \in Handlers, WipFresh(wreq[h]), WipStep(h)
    PROVE  WipMoves(h)
<1>0. RowsOK
    BY DEF MergeInv, ServerInv, IInv
<1>1. CASE CommitChanges(h)
    BY <1>1, CommitMoves
<1>2. CASE CreateWip(h)
    BY <1>2, SameBranches DEF CreateWip, InsertWip, At, AddRow, WipFresh, TipOps
<1>3. CASE DeleteWip(h)
    BY <1>3, SameBranches DEF DeleteWip, DropRows
<1>4. CASE SaveWipTree(h) \/ RevertAll(h) \/ \E X \in SUBSET Paths : RevertPaths(h, X)
  <2>1. PICK id, t : wips' = SetWipTree(wips, id, t) /\ UNCHANGED <<head, branches>>
      BY <1>4 DEF SaveWipTree, RevertAll, RevertPaths, RevertTo
  <2> QED
      BY <1>0, <2>1, WipTreeWrite, SameBranches
<1>5. CASE PatchWip(h)
  <2>1. PICK fields, c, t : SetWip(h, fields, c, t)
      BY <1>5 DEF PatchWip, UpdateWip
  <2>2. DOMAIN wips' = DOMAIN wips /\ \A w \in DOMAIN wips : wips'[w].ref = wips[w].ref
      BY <1>0, <2>1 DEF SetWip, SetWipTree, SetWipBase, RowsOK, StoreTypeOK, IsTable, WipRow
  <2> QED
      BY <2>1, <2>2, SameBranches DEF SetWip, At
<1>6. CASE ~CommitChanges(h) /\ ~CreateWip(h) /\ ~DeleteWip(h) /\ ~SaveWipTree(h) /\ ~RevertAll(h)
           /\ ~(\E X \in SUBSET Paths : RevertPaths(h, X)) /\ ~PatchWip(h)
  <2>1. UNCHANGED <<head, branches, wips>>
      BY <1>6 DEF WipStep, CheckOutBranch, Step, CheckOutWip, ReadWip, GetWip, MissWip,
          PutObject, UploadObject, WriteObject, RemoveObject, DeleteObject, DeleteObjectFails,
          RevertWip, RevertCommit, CommitWip, Abort, storeVars
  <2> QED
      BY <2>1, SameBranches
<1> QED
    BY <1>1, <1>2, <1>3, <1>4, <1>5, <1>6

\* The request keeps what it read up to date, until it has computed a tree.
LEMMA WipFreshStep ==
    ASSUME RowsOK, NEW h \in Handlers, WipFresh(wreq[h]), WipStep(h)
    PROVE  WipFresh(wreq[h])'
<1>0. wreq[h] \in Request /\ wreq \in [Handlers -> Request]
    BY DEF RowsOK
<1>1. ASSUME NEW u \in Users, NEW op \in Ops, NEW b \in BranchIds, CheckOutBranch(h, u, op, b)
      PROVE  WipFresh(wreq[h])'
    BY <1>0, <1>1 DEF CheckOutBranch, WipFresh, Idle, Used, storeVars
<1>2. CASE CheckOutWip(h)
  <2>1. PICK w \in WipsOf(wreq[h].user, wreq[h].branch) :
            wreq' = [wreq EXCEPT ![h] =
                       [@ EXCEPT !.pc = "wip", !.wip = w,
                                 !.base = Used(wreq[h].op, BaseOps, wips[w].base),
                                 !.tree = IF wreq[h].op = "UpdateWip" THEN EmptyTree
                                          ELSE wips[w].tree]]
      BY <1>2 DEF CheckOutWip, ReadWip
  <2>2. /\ wreq'[h].pc = "wip" /\ wreq'[h].wip = w /\ wreq'[h].branch = wreq[h].branch
        /\ wreq'[h].op = wreq[h].op /\ wreq'[h].tip = wreq[h].tip
      BY <1>0, <2>1 DEF Request
  <2>3. w \in DOMAIN wips /\ wips[w].ref = wreq[h].branch
      BY DEF WipsOf
  <2>4. UNCHANGED <<branches, wips>> /\ wreq[h].pc = "branch"
      BY <1>2 DEF CheckOutWip, ReadWip, storeVars
  <2>5. wreq[h].op \in Ops /\ (wreq[h].op = "CommitWip" => wreq[h].tip = branches[wreq[h].branch].commit)
      BY <2>4 DEF WipFresh, TipOps
  <2> QED
      BY <2>2, <2>3, <2>4, <2>5 DEF WipFresh
<1>3. CASE MissWip(h)
    BY <1>0, <1>3 DEF MissWip, At, WipFresh, Request, storeVars
<1>4. CASE ~(\E u \in Users, op \in Ops, b \in BranchIds : CheckOutBranch(h, u, op, b))
           /\ ~CheckOutWip(h) /\ ~MissWip(h)
  <2>1. \/ Finish(h)
        \/ /\ wreq[h].pc # "idle"
           /\ \E pc \in {"save", "tx"} : \E X, t : Computed(h, pc, X, t)
      BY <1>4 DEF WipStep, Step, GetWip, CreateWip, InsertWip, DeleteWip, PatchWip, UpdateWip,
          SetWip, PutObject, UploadObject, WriteObject, RemoveObject, DeleteObject,
          DeleteObjectFails, SaveWipTree, RevertWip, RevertAll, RevertPaths, RevertTo,
          RevertCommit, CommitWip, CommitChanges, CommitOn, Abort, At
  <2>2. CASE Finish(h)
      BY <1>0, <2>2 DEF Finish, Idle, WipFresh
  <2>3. ASSUME wreq[h].pc # "idle", NEW pc \in {"save", "tx"}, NEW X, NEW t, Computed(h, pc, X, t)
        PROVE  WipFresh(wreq[h])'
    <3>1. wreq'[h].pc = pc /\ wreq'[h].op = wreq[h].op
        BY <1>0, <2>3 DEF Computed, Idle
    <3> QED
        BY <2>3, <3>1 DEF WipFresh
  <2> QED
      BY <2>1, <2>2, <2>3
<1> QED
    BY <1>1, <1>2, <1>3, <1>4 DEF WipStep

\* A step of a wip request, while it is the only request.
LEMMA WipRefsInv ==
    ASSUME MergeInv, RefsInv, WorkStep, OneRequest', MergeQuiet, UNCHANGED mergeVars
    PROVE  /\ RefsInv'
           /\ \E h \in Handlers : WipFresh(wreq[h]) /\ WipStep(h) /\ WipMoves(h)
<1>1. PICK h \in Handlers : WipStep(h)
    BY DEF WorkStep, Next, WipStep
<1>2. UNCHANGED refVars /\ RowsOK /\ OneAtATime /\ WipFresh(wreq[h]) /\ WipsHaveBranches
    BY DEF WorkStep, MergeInv, ServerInv, IInv, RefsInv
<1>3. /\ RefQuiet
      /\ \A i \in Handlers : i # h => wreq[i].pc = "idle" /\ wreq'[i] = wreq[i]
    BY <1>1, <1>2, OnlyWipRequest
<1>4. WipMoves(h) /\ WipFresh(wreq[h])'
    BY <1>1, <1>2, WipMovesStep, WipFreshStep
<1>5. OneAtATime'
    BY DEF OneAtATime, OneMerge, MergeQuiet, mergeVars
<1>6. HeadExists' /\ BranchNamesUnique' /\ WipsHaveBranches'
    BY <1>4 DEF WipMoves, RefsInv, HeadExists, NamedRows, BranchNamesUnique, WipsHaveBranches
<1>7. \A i \in Handlers : WipFresh(wreq[i])'
    BY <1>3, <1>4 DEF WipFresh
<1>8. \A k \in RefHandlers : RefFresh(rreq[k])'
    BY <1>2, <1>3 DEF RefFresh, RefQuiet, refVars
<1> QED
    BY <1>1, <1>2, <1>4, <1>5, <1>6, <1>7, <1>8 DEF RefsInv

----------------------------------------------------------------------------
(* The ref requests.                                                       *)

\* With one request at a time, no other is in flight while a ref request works.
LEMMA OnlyRefRequest ==
    ASSUME RefTypeOK, OneAtATime, NEW k \in RefHandlers, RefBegin(k) \/ RefStep(k),
           UNCHANGED wreq, OneRequest'
    PROVE  /\ Quiet
           /\ \A i \in RefHandlers : i # k => rreq[i].pc = "idle" /\ rreq'[i] = rreq[i]
<1>1. PICK q : rreq' = [rreq EXCEPT ![k] = q]
    BY DEF RefBegin, ReadSource, NameDoomed, CheckOutDoomed, CheckHead, ReadTarget,
        CheckOutTag, RefStart, RefStep, CheckBranchName, CheckTagName, InsertBranch,
        DeleteBranch, DropBranch, InsertTag, DeleteTag, DropTags, SetHead, RefAbort, RefFinish
<1>2. \A i \in RefHandlers : i # k => rreq'[i] = rreq[i]
    BY <1>1 DEF RefTypeOK
<1>3. CASE rreq[k].pc # "idle"
    BY <1>2, <1>3 DEF OneAtATime, OneRequest, RefQuiet
<1>4. CASE rreq[k].pc = "idle"
  <2>1. RefBegin(k)
      BY <1>4 DEF RefStep, CheckOutDoomed, CheckBranchName, CheckTagName, InsertBranch,
          DeleteBranch, DropBranch, InsertTag, DeleteTag, DropTags, SetHead, RefAbort, RefAt
  <2>2. rreq'[k].pc # "idle"
      BY <2>1 DEF RefBegin, ReadSource, NameDoomed, CheckHead, ReadTarget,
          CheckOutTag, RefStart, RefTypeOK
  <2>3. Quiet' /\ \A i \in RefHandlers : i # k => rreq'[i].pc = "idle"
      BY <2>2 DEF OneRequest, RefQuiet
  <2> QED
      BY <1>2, <2>3 DEF Quiet
<1> QED
    BY <1>3, <1>4

\* The request keeps what it read up to date.
LEMMA RefFreshStep ==
    ASSUME RefTypeOK, NEW k \in RefHandlers, RefFresh(rreq[k]), RefBegin(k) \/ RefStep(k)
    PROVE  RefFresh(rreq[k])'
<1>1. rreq \in [RefHandlers -> RefRequest]
    BY DEF RefTypeOK
<1>2. ASSUME NEW n \in Names, NameDoomed(k, n)
      PROVE  RefFresh(rreq[k])'
    BY <1>1, <1>2 DEF NameDoomed, RefStart, RefFresh, storeVars
<1>3. ASSUME NEW b \in BranchIds, CheckOutDoomed(k, b)
      PROVE  RefFresh(rreq[k])'
    BY <1>1, <1>3 DEF CheckOutDoomed, RefAt, RefRequest, RefFresh, NamedRows, storeVars
<1>4. ASSUME NEW b \in BranchIds, CheckHead(k, b)
      PROVE  RefFresh(rreq[k])'
    BY <1>1, <1>4 DEF CheckHead, RefStart, RefFresh, NamedRows, storeVars
<1>5. ASSUME NEW n \in Names, CheckBranchName(k, n)
      PROVE  RefFresh(rreq[k])'
    BY <1>1, <1>5 DEF CheckBranchName, RefAt, RefRequest, RefFresh, NamedRows, storeVars
<1>6. CASE \/ \E b \in BranchIds : ReadSource(k, b)
           \/ \E c \in CommitIds : ReadTarget(k, c)
           \/ \E t \in TagIds : CheckOutTag(k, t)
    BY <1>1, <1>6 DEF ReadSource, ReadTarget, CheckOutTag, RefStart, RefFresh
<1>7. CASE \E n \in TagNames : CheckTagName(k, n)
    BY <1>1, <1>7 DEF CheckTagName, RefAt, RefRequest, RefFresh
<1>8. CASE InsertBranch(k) \/ DeleteBranch(k) \/ InsertTag(k) \/ DeleteTag(k) \/ SetHead(k) \/ RefAbort(k)
  <2>1. rreq'[k].pc = "idle"
      BY <1>1, <1>8 DEF InsertBranch, DeleteBranch, DropBranch, InsertTag, DeleteTag, DropTags,
          SetHead, RefAbort, RefFinish, RefIdle
  <2> QED
      BY <2>1 DEF RefFresh
<1> QED
    BY <1>2, <1>3, <1>4, <1>5, <1>6, <1>7, <1>8 DEF RefBegin, RefStep

\* The branch names and the wips on branches, step by step.
LEMMA RefNamesStep ==
    ASSUME MergeInv, ServerIdsSpent, HeadExists, BranchNamesUnique, WipsHaveBranches,
           NEW k \in RefHandlers, RefFresh(rreq[k]), RefBegin(k) \/ RefStep(k)
    PROVE  HeadExists' /\ BranchNamesUnique' /\ WipsHaveBranches'
<1>1. CASE InsertBranch(k)
  <2> DEFINE b == NewId(BranchIds)
             n == rreq[k].name
  <2>1. /\ b \notin DOMAIN branches /\ NamedRows(n) = {} /\ UNCHANGED <<head, wips>>
        /\ branches' = AddRow(branches, b, [name |-> n, commit |-> rreq[k].target])
      BY <1>1, NewIdFresh DEF InsertBranch, RefAt, RefFresh, ServerIdsSpent, IdsSpent
  <2> HIDE DEF b, n
  <2>2. /\ DOMAIN branches' = DOMAIN branches \cup {b} /\ branches'[b].name = n
        /\ \A d \in DOMAIN branches : branches'[d] = branches[d] /\ branches[d].name # n
      BY <2>1 DEF AddRow, NamedRows
  <2>3. HeadExists'
      BY <2>1, <2>2 DEF HeadExists, NamedRows
  <2>4. BranchNamesUnique'
      BY <2>2 DEF BranchNamesUnique
  <2>5. WipsHaveBranches'
      BY <2>1, <2>2 DEF WipsHaveBranches
  <2> QED
      BY <2>3, <2>4, <2>5
<1>2. CASE DeleteBranch(k)
  <2> DEFINE b == rreq[k].row
             n == rreq[k].name
  <2>1. b \in DOMAIN branches /\ branches[b].name = n /\ n # head
      BY <1>2 DEF DeleteBranch, DropBranch, RefAt, RefFresh
  <2>2. NamedRows(n) = {b}
      BY <2>1 DEF NamedRows, BranchNamesUnique
  <2>3. /\ branches' = DropRows(branches, {b}) /\ UNCHANGED head
        /\ wips' = DropRows(wips, {w \in DOMAIN wips : wips[w].ref = b})
      BY <1>2, <2>2 DEF DeleteBranch, DropBranch
  <2> QED
      BY <2>1, <2>3 DEF DropRows, HeadExists, NamedRows, BranchNamesUnique, WipsHaveBranches
<1>3. CASE SetHead(k)
    BY <1>3 DEF SetHead, RefAt, RefFresh, HeadExists, NamedRows, BranchNamesUnique,
        WipsHaveBranches
<1>4. CASE ~InsertBranch(k) /\ ~DeleteBranch(k) /\ ~SetHead(k)
  <2>1. UNCHANGED <<head, branches, wips>>
      BY <1>4 DEF RefBegin, ReadSource, NameDoomed, CheckOutDoomed, CheckHead, ReadTarget,
                  CheckOutTag, RefStart, RefStep, CheckBranchName, CheckTagName, InsertTag,
                  DeleteTag, DropTags, RefAbort, storeVars
  <2> QED
      BY <2>1 DEF HeadExists, NamedRows, BranchNamesUnique, WipsHaveBranches
<1> QED
    BY <1>1, <1>2, <1>3, <1>4

\* A step of a ref request, while it is the only request.
LEMMA RefRefsInv ==
    ASSUME MergeInv, ServerIdsSpent, RefsInv, RefsStep, OneRequest', MergeQuiet, UNCHANGED mergeVars
    PROVE  RefsInv'
<1>1. PICK k \in RefHandlers : RefBegin(k) \/ RefStep(k)
    BY DEF RefsStep, RefNext
<1>2. UNCHANGED wreq /\ RefTypeOK /\ OneAtATime /\ RefFresh(rreq[k])
    BY DEF RefsStep, MergeInv, ServerInv, RefsInv
<1>3. /\ Quiet
      /\ \A i \in RefHandlers : i # k => rreq[i].pc = "idle" /\ rreq'[i] = rreq[i]
    BY <1>1, <1>2, OnlyRefRequest
<1>4. HeadExists' /\ BranchNamesUnique' /\ WipsHaveBranches'
    BY <1>1, <1>2, RefNamesStep DEF RefsInv
<1>5. RefFresh(rreq[k])'
    BY <1>1, <1>2, RefFreshStep
<1>6. OneAtATime'
    BY DEF OneAtATime, OneMerge, MergeQuiet, mergeVars
<1>7. \A h \in Handlers : WipFresh(wreq[h])'
    BY <1>2, <1>3 DEF WipFresh, Quiet
<1>8. \A i \in RefHandlers : RefFresh(rreq[i])'
    BY <1>3, <1>5 DEF RefFresh
<1> QED
    BY <1>4, <1>6, <1>7, <1>8 DEF RefsInv

----------------------------------------------------------------------------
(* The merge requests.                                                     *)

\* With one request at a time, the other merge handlers are idle.
LEMMA OnlyMergeRequest ==
    ASSUME MergeTypeOK, OneAtATime, NEW k \in MergeHandlers, OneMerge',
           CreateMergeRequest(k) \/ MergeRequest(k) \/ MergeAbort(k)
    PROVE  \A i \in MergeHandlers : i # k => mreq[i].pc = "idle" /\ mreq'[i] = mreq[i]
<1>1. PICK q : mreq' = [mreq EXCEPT ![k] = q]
    BY DEF CreateMergeRequest, FindSource, FindTarget, CheckOpen, InsertRequest, MergeRequest,
        ReadRequest, ReadSourceBranch, ReadTargetBranch, CheckOutTarget, FastForward,
        MergeCommit, MergeOver, MoveTarget, MergeDone, MergeAbort, Advance
<1>2. \A i \in MergeHandlers : i # k => mreq'[i] = mreq[i]
    BY <1>1 DEF MergeTypeOK
<1>3. CASE mreq[k].pc # "idle"
    BY <1>2, <1>3 DEF OneAtATime, OneMerge
<1>4. CASE mreq[k].pc = "idle"
  <2>1. \/ \E b \in BranchIds : FindSource(k, b)
        \/ \E n \in Numbers : ReadRequest(k, n)
      BY <1>4 DEF CreateMergeRequest, FindTarget, CheckOpen, InsertRequest, MergeRequest,
          ReadSourceBranch, ReadTargetBranch, CheckOutTarget, FastForward, MergeCommit,
          MergeOver, MergeAbort
  <2>2. mreq'[k].pc # "idle"
      BY <2>1 DEF FindSource, ReadRequest, Advance, MergeIdle, MergeTypeOK
  <2> QED
      BY <1>2, <2>2 DEF OneMerge
<1> QED
    BY <1>3, <1>4

\* The transaction of a merge: the target goes to a commit whose history holds
\* both commits that were read, or all of them that are not empty.
Merged(k) ==
    \E c \in CommitIds \cap DOMAIN commits' :
        /\ mreq[k].pc = "merge" /\ MoveTarget(k, c)
        /\ {mreq[k].s, mreq[k].t} \subseteq History(commits', c) \cup {NoCommit}

\* What a merge moves the target to has both sides in its history (merge).
LEMMA MergeMoves ==
    ASSUME MergeInv, NEW k \in MergeHandlers, FastForward(k) \/ MergeCommit(k)
    PROVE  Merged(k)
<1> DEFINE s == mreq[k].s
           t == mreq[k].t
<1>1. Known(s) /\ Known(t) /\ DOMAIN commits \subseteq CommitIds
    BY DEF MergeInv, MergeReadSound, ServerInv, IInv, RowsOK, StoreTypeOK, IsTable
<1>2. CASE FastForward(k)
  <2>1. PICK c \in Ahead(s, t) : MoveTarget(k, c)
      BY <1>2 DEF FastForward
  <2>2. c \in DOMAIN commits /\ {s, t} \subseteq History(commits, c) \cup {NoCommit}
      BY <1>1 DEF Ahead, Known
  <2> QED
      BY <1>1, <1>2, <2>1, <2>2 DEF FastForward, Merged
<1>3. CASE MergeCommit(k)
  <2>1. PICK n, ps, ms, new, a : Made(k, n, ps, ms, new, a)
      BY <1>3, MergeMade
  <2> DEFINE c == new[1]
  <2>2. MoveTarget(k, c) /\ mreq[k].pc = "merge" /\ {s, t} \subseteq CommitIds
      BY <1>1, <1>3, <2>1 DEF Made, MergeCommit, MergeOver, Known
  <2>3. c \in CommitIds /\ c \in DOMAIN commits'
      BY <2>1, MadeCommits
  <2>4. c \in DOMAIN commits' /\ {s, t} \subseteq Parents(commits', c)
    <3>1. n \in Nat \ {0} /\ ps[1] = <<s, t>>
          /\ \A i \in 1 .. n : commits'[new[i]] = [tree |-> ms[i], parents |-> ps[i]]
        BY <2>1 DEF Made
    <3>2. 1 \in 1 .. n
        BY <3>1
    <3>3. commits'[c] = [tree |-> ms[1], parents |-> <<s, t>>]
        BY <3>1, <3>2
    <3>4. commits'[c].parents = <<s, t>>
      <4> HIDE DEF c, s, t
      <4> QED
          BY <3>3
    <3> HIDE DEF c, s, t
    <3> QED
        BY <2>3, <3>4 DEF Parents
  <2> HIDE DEF c, s, t
  <2>5. {s, t} \subseteq History(commits', c)
      BY <2>2, <2>3, <2>4, HistoryParent
  <2> QED
      BY <2>2, <2>3, <2>4, <2>5 DEF Merged, s, t
<1> QED
    BY <1>2, <1>3

\* A merge request keeps what it read up to date.
LEMMA MergeFreshStep ==
    ASSUME MergeInv, ServerIdsSpent, BranchNamesUnique, NEW k \in MergeHandlers,
           MergeFresh(mreq[k]), CreateMergeRequest(k) \/ MergeRequest(k) \/ MergeAbort(k)
    PROVE  MergeFresh(mreq[k])'
<1>1. mreq \in [MergeHandlers -> MergeCall]
    BY DEF MergeInv, MergeTypeOK
<1>2. ASSUME NEW q, Advance(k, q)
      PROVE  mreq'[k] = q /\ UNCHANGED <<spent, branches, mrs>>
    BY <1>1, <1>2 DEF Advance, serverVars, vars, storeVars
<1>3. ASSUME NEW b \in BranchIds, FindSource(k, b)
      PROVE  MergeFresh(mreq[k])'
  <2> DEFINE q == [MergeIdle EXCEPT !.pc = "find", !.source = b, !.name = branches[b].name]
  <2>1. q.pc = "find" /\ q.source = b
      BY DEF MergeIdle
  <2>2. b \in spent /\ Advance(k, q)
      BY <1>3 DEF FindSource, ServerIdsSpent, IdsSpent
  <2> HIDE DEF q
  <2> QED
      BY <1>2, <2>1, <2>2 DEF MergeFresh
<1>4. ASSUME NEW b \in BranchIds, FindTarget(k, b)
      PROVE  MergeFresh(mreq[k])'
  <2> DEFINE q == [mreq[k] EXCEPT !.pc = "open", !.target = b, !.name = MainName]
  <2>1. q.pc = "open" /\ q.source = mreq[k].source /\ q.target = b
      BY <1>1 DEF MergeCall
  <2>2. b \in spent /\ Advance(k, q) /\ mreq[k].pc = "find"
      BY <1>4 DEF FindTarget, ServerIdsSpent, IdsSpent
  <2> HIDE DEF q
  <2> QED
      BY <1>2, <2>1, <2>2 DEF MergeFresh
<1>5. CASE CheckOpen(k)
    BY <1>1, <1>2, <1>5 DEF CheckOpen, MergeFresh, MergeCall
<1>6. ASSUME NEW n \in Numbers, ReadRequest(k, n)
      PROVE  MergeFresh(mreq[k])'
  <2> DEFINE q == [MergeIdle EXCEPT !.pc = "read", !.number = n, !.source = mrs[n].source,
                                    !.target = mrs[n].target]
  <2>1. q.pc = "read" /\ q.number = n /\ q.target = mrs[n].target
      BY DEF MergeIdle
  <2> QED
      BY <1>2, <1>6, <2>1 DEF ReadRequest, MergeFresh
<1>7. CASE ReadSourceBranch(k)
  <2> DEFINE q == [mreq[k] EXCEPT !.pc = "source", !.source = NoId,
                                  !.s = branches[mreq[k].source].commit]
  <2>1. q.pc = "source" /\ q.number = mreq[k].number /\ q.target = mreq[k].target
      BY <1>1 DEF MergeCall
  <2>2. Advance(k, q) /\ mreq[k].pc = "read"
      BY <1>7 DEF ReadSourceBranch
  <2> HIDE DEF q
  <2> QED
      BY <1>2, <2>1, <2>2 DEF MergeFresh
<1>8. CASE ReadTargetBranch(k)
  <2> DEFINE b == mreq[k].target
             q == [mreq[k] EXCEPT !.pc = "target", !.target = NoId, !.name = branches[b].name]
  <2>1. q.pc = "target" /\ q.number = mreq[k].number /\ q.name = branches[b].name
      BY <1>1 DEF MergeCall
  <2>2. /\ Advance(k, q) /\ b \in DOMAIN branches /\ mreq[k].number \in DOMAIN mrs
        /\ b = mrs[mreq[k].number].target
      BY <1>8 DEF ReadTargetBranch, MergeFresh
  <2> HIDE DEF q, b
  <2> QED
      BY <1>2, <2>1, <2>2 DEF MergeFresh
<1>9. ASSUME NEW b \in BranchIds, CheckOutTarget(k, b)
      PROVE  MergeFresh(mreq[k])'
  <2> DEFINE q == [mreq[k] EXCEPT !.pc = "merge", !.target = b, !.name = MainName,
                                  !.t = branches[b].commit]
  <2>1. /\ q.pc = "merge" /\ q.number = mreq[k].number /\ q.target = b
        /\ q.t = branches[b].commit
      BY <1>1 DEF MergeCall
  <2>2. /\ Advance(k, q) /\ b \in DOMAIN branches /\ branches[b].name = mreq[k].name
        /\ mreq[k].pc = "target"
      BY <1>9 DEF CheckOutTarget, NamedRows
  <2>3. mreq[k].number \in DOMAIN mrs /\ b = mrs[mreq[k].number].target
      BY <2>2 DEF MergeFresh, BranchNamesUnique
  <2> HIDE DEF q
  <2> QED
      BY <1>2, <2>1, <2>2, <2>3 DEF MergeFresh
<1>10. CASE InsertRequest(k) \/ FastForward(k) \/ MergeCommit(k) \/ MergeAbort(k)
  <2>1. mreq'[k] = MergeIdle
      BY <1>1, <1>2, <1>10 DEF InsertRequest, FastForward, MergeCommit, MergeOver, MoveTarget,
                              MergeAbort, MergeDone
  <2> QED
      BY <2>1 DEF MergeFresh, MergeIdle
<1> QED
    BY <1>3, <1>4, <1>5, <1>6, <1>7, <1>8, <1>9, <1>10 DEF CreateMergeRequest, MergeRequest

\* The merge requests stay numbered from one, and what was merged is recorded of
\* those that exist.
LEMMA NumbersStep ==
    ASSUME MergeInv, MergesInv, NEW k \in MergeHandlers,
           CreateMergeRequest(k) \/ MergeRequest(k) \/ MergeAbort(k)
    PROVE  /\ DOMAIN mrs' = 1 .. Cardinality(DOMAIN mrs')
           /\ \A n \in Numbers \ DOMAIN mrs' : took'[n] = NoCommit
           /\ \A n \in DOMAIN mrs' : mrs'[n].target \in spent'
           /\ spent' = spent
<1>0. MergeFresh(mreq[k])
    BY DEF MergesInv
<1>1. CASE InsertRequest(k)
  <2> DEFINE m == Cardinality(DOMAIN mrs)
  <2>1. IsFiniteSet(DOMAIN mrs)
      BY FS_Interval, FS_Subset, MergeAssumption DEF MergeInv, MergeTypeOK, IsTable, Numbers
  <2>2. m \in Nat
      BY <2>1, FS_CardinalityType
  <2>3. /\ mrs' = AddRow(mrs, m + 1, [source |-> mreq[k].source, target |-> mreq[k].target,
                                      state |-> "init"])
        /\ mreq[k].target \in spent /\ took' = took /\ spent' = spent
      BY <1>0, <1>1 DEF InsertRequest, MergeFresh, serverVars, vars, storeVars
  <2>4. DOMAIN mrs = 1 .. m
      BY DEF MergesInv
  <2> HIDE DEF m
  <2>5. DOMAIN mrs' = 1 .. m + 1
      BY <2>2, <2>3, <2>4 DEF AddRow
  <2>6. Cardinality(1 .. m + 1) = m + 1
      BY <2>2, FS_Interval
  <2>7. \A n \in DOMAIN mrs' : mrs'[n].target \in spent'
      BY <2>3 DEF AddRow, MergesInv
  <2> QED
      BY <2>3, <2>5, <2>6, <2>7 DEF AddRow, MergesInv
<1>2. CASE FastForward(k) \/ MergeCommit(k)
  <2>1. PICK c : MoveTarget(k, c)
      BY <1>2 DEF FastForward, MergeCommit, MergeOver
  <2>2. mreq[k].number \in DOMAIN mrs
      BY <1>0, <1>2 DEF FastForward, MergeCommit, MergeOver, MergeFresh
  <2>3. /\ mrs' = [mrs EXCEPT ![mreq[k].number].state = "merged"]
        /\ took' = [took EXCEPT ![mreq[k].number] = mreq[k].s] /\ spent' = spent
      BY <2>1 DEF MoveTarget
  <2>4. \A n \in DOMAIN mrs : mrs[n] \in MrRow
      BY DEF MergeInv, MergeTypeOK, IsTable
  <2>5. DOMAIN mrs' = DOMAIN mrs /\ \A n \in DOMAIN mrs : mrs'[n].target = mrs[n].target
      BY <2>3, <2>4 DEF MrRow
  <2>6. took \in [Numbers -> CommitIds \cup {NoCommit}]
      BY DEF MergeInv, MergeTypeOK
  <2> QED
      BY <2>2, <2>3, <2>5, <2>6 DEF MergesInv
<1>3. CASE ~InsertRequest(k) /\ ~FastForward(k) /\ ~MergeCommit(k)
  <2>1. UNCHANGED <<mrs, took, spent>>
      BY <1>3 DEF CreateMergeRequest, FindSource, FindTarget, CheckOpen, MergeRequest,
          ReadRequest, ReadSourceBranch, ReadTargetBranch, CheckOutTarget, MergeAbort, Advance,
          serverVars, vars, storeVars
  <2> QED
      BY <2>1 DEF MergesInv
<1> QED
    BY <1>1, <1>2, <1>3

\* A state set by hand changes nothing a merge in flight has read.
LEMMA UpdateMerges ==
    ASSUME MergeInv, MergesInv, NEW n, NEW state, UpdateRequest(n, state)
    PROVE  MergesInv'
<1>1. /\ mrs' = [mrs EXCEPT ![n].state = state] /\ UNCHANGED <<mreq, took, spent, branches>>
    BY DEF UpdateRequest, serverVars, vars, storeVars
<1>2. \A m \in DOMAIN mrs : mrs[m] \in MrRow
    BY DEF MergeInv, MergeTypeOK, IsTable
<1>3. DOMAIN mrs' = DOMAIN mrs /\ \A m \in DOMAIN mrs : mrs'[m].target = mrs[m].target
    BY <1>1, <1>2 DEF MrRow
<1> QED
    BY <1>1, <1>3 DEF MergesInv, MergeFresh

\* Branches keep their names under a merge.
LEMMA MergeNames ==
    MergeInv /\ MergeNext => \A b \in DOMAIN branches : branches'[b].name = branches[b].name
<1> SUFFICES ASSUME MergeInv, MergeNext, NEW b \in DOMAIN branches
             PROVE  branches'[b].name = branches[b].name
    OBVIOUS
<1>1. CASE UNCHANGED branches
    BY <1>1
<1>2. CASE ~UNCHANGED branches
  <2>1. PICK k \in MergeHandlers : FastForward(k) \/ MergeCommit(k)
      BY <1>2 DEF MergeNext, CreateMergeRequest, FindSource, FindTarget, CheckOpen,
          InsertRequest, MergeRequest, ReadRequest, ReadSourceBranch, ReadTargetBranch,
          CheckOutTarget, MergeAbort, UpdateMergeRequest, UpdateRequest, Advance, serverVars,
          vars, storeVars
  <2>2. PICK c : branches' = SetBranchCommit(branches, mreq[k].target, c)
      BY <2>1 DEF FastForward, MergeCommit, MergeOver, MoveTarget
  <2>3. branches[b] \in BranchRow
      BY RowsKnown DEF MergeInv
  <2> QED
      BY <2>2, <2>3 DEF SetBranchCommit, BranchRow
<1> QED
    BY <1>1, <1>2

\* A step of a merge request, while it is the only request, apart from states
\* that are set by hand.
LEMMA MergeSerialInv ==
    ASSUME SerialInv, MergeNext, OneMerge', Quiet, RefQuiet
    PROVE  RefsInv' /\ MergesInv'
<1>1. /\ UNCHANGED <<head, wips, spent, wreq, refVars>> /\ DOMAIN branches' = DOMAIN branches
      /\ \A b \in DOMAIN branches : branches'[b].name = branches[b].name
    BY MergeRows, MergeNames DEF SerialInv
<1>2. Quiet' /\ RefQuiet'
    BY <1>1 DEF Quiet, RefQuiet, refVars
<1>3. OneAtATime'
    BY <1>2 DEF OneAtATime, OneRequest, Quiet, RefQuiet
<1>4. HeadExists' /\ BranchNamesUnique' /\ WipsHaveBranches'
    BY <1>1 DEF SerialInv, RefsInv, HeadExists, NamedRows, BranchNamesUnique, WipsHaveBranches
<1>5. RefsInv'
    BY <1>2, <1>3, <1>4 DEF RefsInv, WipFresh, RefFresh, Quiet, RefQuiet
<1>6. ASSUME NEW k \in MergeHandlers, CreateMergeRequest(k) \/ MergeRequest(k) \/ MergeAbort(k)
      PROVE  MergesInv'
  <2>1. \A i \in MergeHandlers : i # k => mreq[i].pc = "idle" /\ mreq'[i] = mreq[i]
      BY <1>6, OnlyMergeRequest DEF SerialInv, MergeInv, RefsInv
  <2>2. MergeFresh(mreq[k])'
      BY <1>6, MergeFreshStep DEF SerialInv, RefsInv, MergesInv
  <2>3. \A i \in MergeHandlers : MergeFresh(mreq[i])'
      BY <2>1, <2>2 DEF MergeFresh
  <2> QED
      BY <1>6, <2>3, NumbersStep DEF SerialInv, MergesInv
<1>7. CASE UpdateMergeRequest
    BY <1>5, <1>7, UpdateMerges DEF UpdateMergeRequest, SerialInv
<1> QED
    BY <1>5, <1>6, <1>7 DEF MergeNext

\* Every step of a server that serves one request at a time keeps the invariant.
LEMMA SerialNextInv == SerialInv /\ [AllOneByOne]_AllVars => SerialInv'
<1> SUFFICES ASSUME SerialInv, [AllOneByOne]_AllVars PROVE SerialInv'
    OBVIOUS
<1>1. CASE UNCHANGED AllVars
    BY <1>1, AllNextInv DEF AllVars, serverVars, vars, storeVars, refVars, mergeVars,
        SerialInv, RefsInv, MergesInv, ServerIdsSpent, IdsSpent, OneAtATime, OneRequest,
        OneMerge, Quiet, RefQuiet, MergeQuiet, HeadExists, NamedRows, BranchNamesUnique,
        WipsHaveBranches, WipFresh, RefFresh, MergeFresh
<1>2. CASE MergeNext /\ OneMerge' /\ Quiet /\ RefQuiet
  <2>1. MergeInv'
      BY <1>2, MergeNextInv DEF SerialInv
  <2>2. ServerIdsSpent'
      BY <1>2, MergeRows DEF SerialInv, ServerIdsSpent, IdsSpent, refVars
  <2> QED
      BY <1>2, <2>1, <2>2, MergeSerialInv DEF SerialInv
<1>3. CASE OneByOne /\ MergeQuiet /\ UNCHANGED mergeVars
  <2>1. MergeInv'
      BY <1>3, AllNextInv DEF SerialInv, OneByOne, AllNext
  <2>2. ServerIdsSpent'
      BY <1>3, ServerIdsStep DEF SerialInv, OneByOne
  <2>3. RefsInv'
      BY <1>3, WipRefsInv, RefRefsInv DEF SerialInv, OneByOne, ServerNext
  <2>4. spent \subseteq spent'
      BY <1>3, IdsStep, RefRowsStep DEF OneByOne, ServerNext, WorkStep, RefsStep
  <2>5. MergesInv'
      BY <1>3, <2>4 DEF SerialInv, MergesInv, MergeFresh, MergeQuiet, mergeVars
  <2> QED
      BY <2>1, <2>2, <2>3, <2>5 DEF SerialInv
<1> QED
    BY <1>1, <1>2, <1>3 DEF AllOneByOne

\* A new repository: HEAD names its one branch, nobody has a wip.
LEMMA SerialInitInv == AllInit => SerialInv
<1> SUFFICES ASSUME AllInit PROVE SerialInv
    OBVIOUS
<1>1. MergeInv
    BY AllInitInv
<1>2. /\ \A h \in Handlers : wreq[h] = Idle
      /\ \A k \in RefHandlers : rreq[k] = RefIdle
      /\ \A k \in MergeHandlers : mreq[k] = MergeIdle
      /\ DOMAIN mrs = {} /\ DOMAIN wips = {} /\ DOMAIN tags = {}
      /\ \A n \in Numbers : took[n] = NoCommit
    BY DEF AllInit, ServerInit, Init, StoreInit, RefInit, MergeInit
<1>3. \E b : /\ DOMAIN branches = {b} /\ branches[b].name = head /\ spent = {b}
    BY DEF AllInit, ServerInit, Init, StoreInit
<1>4. ServerIdsSpent /\ HeadExists /\ BranchNamesUnique /\ WipsHaveBranches
    BY <1>2, <1>3 DEF ServerIdsSpent, IdsSpent, HeadExists, NamedRows, BranchNamesUnique,
        WipsHaveBranches
<1>5. RefsInv
    BY <1>2, <1>4 DEF RefsInv, OneAtATime, OneRequest, OneMerge, Quiet, RefQuiet, MergeQuiet,
        WipFresh, RefFresh, Idle, RefIdle, MergeIdle
<1>6. MergesInv
    BY <1>2, FS_EmptySet DEF MergesInv, MergeFresh, MergeIdle
<1> QED
    BY <1>1, <1>4, <1>5, <1>6 DEF SerialInv

----------------------------------------------------------------------------
(* Refs, one request at a time.                                            *)

\* One request at a time on the whole server finds what it read as it left it.
THEOREM SerialInvariance == AllSerialSpec => []SerialInv
BY SerialInitInv, SerialNextInv, PTL DEF AllSerialSpec

\* HEAD names a branch, whatever requests come one after the other: DeleteBranch
\* refuses HEAD, UpdateRepository looks the new HEAD up (branch_ctl.go,
\* repository_ctl.go).
THEOREM HeadStays == AllSerialSpec => []HeadExists
<1>1. SerialInv => HeadExists
    BY DEF SerialInv, RefsInv
<1> QED
    BY SerialInvariance, <1>1, PTL

\* A name stays the name of one branch: CreateBranch looks it up before the
\* insert, and without overlapping requests that is enough (work_repo.go).
THEOREM NamesStayUnique == AllSerialSpec => []BranchNamesUnique
<1>1. SerialInv => BranchNamesUnique
    BY DEF SerialInv, RefsInv
<1> QED
    BY SerialInvariance, <1>1, PTL

\* No wip is left behind on a branch that is gone: DeleteBranch deletes the
\* branch by name and its wips by id, and both are of the branch it checked out.
THEOREM WipsStayOnBranches == AllSerialSpec => []WipsHaveBranches
<1>1. SerialInv => WipsHaveBranches
    BY DEF SerialInv, RefsInv
<1> QED
    BY SerialInvariance, <1>1, PTL

----------------------------------------------------------------------------
(* Open merge requests, for clients that do not open one by hand.          *)

OpenInv ==
    /\ OneOpenRequest
    /\ \A k \in MergeHandlers :
          mreq[k].pc = "insert" => OpenRequests(mreq[k].source, mreq[k].target) = {}

\* A state other than init that is set leaves fewer merge requests open.
LEMMA ClosesRequest ==
    ASSUME MergeInv, OpenInv, NEW n, NEW state, state # "init",
           mrs' = [mrs EXCEPT ![n].state = state]
    PROVE  /\ OneOpenRequest'
           /\ \A s, t : OpenRequests(s, t)' \subseteq OpenRequests(s, t)
<1>1. \A m \in DOMAIN mrs : mrs[m] \in MrRow
    BY DEF MergeInv, MergeTypeOK, IsTable
<1>2. DOMAIN mrs' = DOMAIN mrs /\ \A m \in DOMAIN mrs : mrs'[m].state = "init" => mrs'[m] = mrs[m]
    BY <1>1 DEF MrRow
<1>3. \A s, t : OpenRequests(s, t)' \subseteq OpenRequests(s, t)
    BY <1>2 DEF OpenRequests
<1>4. ASSUME NEW i \in DOMAIN mrs', NEW j \in DOMAIN mrs', mrs'[i].state = "init", mrs'[i] = mrs'[j]
      PROVE  i = j
  <2>1. mrs'[i] = mrs[i] /\ mrs'[j] = mrs[j] /\ mrs[i].state = "init"
      BY <1>2, <1>4
  <2> QED
      BY <1>2, <1>4, <2>1 DEF OpenInv, OneOpenRequest
<1> QED
    BY <1>3, <1>4 DEF OneOpenRequest

\* No merge request step opens a second one between two branches, if none is set
\* back to init by hand.
LEMMA OpenStep ==
    ASSUME SerialInv, OpenInv, "init" \notin SetStates, MergeNext, OneMerge'
    PROVE  OpenInv'
<1>0. mreq \in [MergeHandlers -> MergeCall]
    BY DEF SerialInv, MergeInv, MergeTypeOK
<1>1. ASSUME NEW n, NEW state \in SetStates, UpdateRequest(n, state) PROVE OpenInv'
  <2>1. state # "init" /\ mrs' = [mrs EXCEPT ![n].state = state] /\ mreq' = mreq
      BY <1>1 DEF UpdateRequest
  <2>2. OneOpenRequest' /\ \A s, t : OpenRequests(s, t)' \subseteq OpenRequests(s, t)
      BY <2>1, ClosesRequest DEF SerialInv
  <2> QED
      BY <2>1, <2>2 DEF OpenInv
<1>2. ASSUME NEW k \in MergeHandlers, CreateMergeRequest(k) \/ MergeRequest(k) \/ MergeAbort(k)
      PROVE  OpenInv'
  <2>1. \A i \in MergeHandlers : i # k => mreq[i].pc = "idle" /\ mreq'[i] = mreq[i]
      BY <1>2, OnlyMergeRequest DEF SerialInv, MergeInv, RefsInv
  <2>2. CASE InsertRequest(k)
    <3> DEFINE n   == Cardinality(DOMAIN mrs) + 1
               row == [source |-> mreq[k].source, target |-> mreq[k].target, state |-> "init"]
    <3>1. mrs' = AddRow(mrs, n, row) /\ MergeDone(k)
        BY <2>2 DEF InsertRequest
    <3>2. \A m \in DOMAIN mrs : mrs[m] # row
        BY <2>2 DEF InsertRequest, OpenInv, OpenRequests
    <3> HIDE DEF n, row
    <3>3. OneOpenRequest'
        BY <3>1, <3>2 DEF AddRow, OpenInv, OneOpenRequest
    <3>4. \A i \in MergeHandlers : mreq'[i].pc = "idle"
        BY <1>0, <2>1, <3>1 DEF MergeDone, MergeIdle
    <3> QED
        BY <3>3, <3>4 DEF OpenInv
  <2>3. CASE FastForward(k) \/ MergeCommit(k)
    <3>1. PICK c : MoveTarget(k, c)
        BY <2>3 DEF FastForward, MergeCommit, MergeOver
    <3>2. OneOpenRequest'
        BY <3>1, ClosesRequest DEF MoveTarget, SerialInv
    <3>3. \A i \in MergeHandlers : mreq'[i].pc = "idle"
        BY <1>0, <2>1, <3>1 DEF MoveTarget, MergeDone, MergeIdle
    <3> QED
        BY <3>2, <3>3 DEF OpenInv
  <2>4. CASE CheckOpen(k)
    <3>1. mrs' = mrs /\ mreq' = [mreq EXCEPT ![k] = [mreq[k] EXCEPT !.pc = "insert"]]
        BY <2>4 DEF CheckOpen, Advance
    <3>2. mreq'[k].source = mreq[k].source /\ mreq'[k].target = mreq[k].target
        BY <1>0, <3>1 DEF MergeCall
    <3> QED
        BY <2>1, <2>4, <3>1, <3>2 DEF CheckOpen, OpenInv, OneOpenRequest, OpenRequests
  <2>5. CASE ~InsertRequest(k) /\ ~FastForward(k) /\ ~MergeCommit(k) /\ ~CheckOpen(k)
    <3>1. mrs' = mrs
        BY <1>2, <2>5
           DEF CreateMergeRequest, FindSource, FindTarget, MergeRequest, ReadRequest,
               ReadSourceBranch, ReadTargetBranch, CheckOutTarget, MergeAbort, Advance
    <3>2. ReadSourceBranch(k) \/ ReadTargetBranch(k) => mreq'[k].pc # "insert"
        BY <1>0 DEF ReadSourceBranch, ReadTargetBranch, Advance, MergeCall
    <3>3. MergeAbort(k) => mreq'[k].pc # "insert"
        BY <1>0 DEF MergeAbort, Advance, MergeIdle
    <3>4. ASSUME NEW b \in BranchIds, FindSource(k, b) \/ FindTarget(k, b) \/ CheckOutTarget(k, b)
          PROVE  mreq'[k].pc # "insert"
        BY <1>0, <3>4 DEF FindSource, FindTarget, CheckOutTarget, Advance, MergeIdle, MergeCall
    <3>5. (\E n \in Numbers : ReadRequest(k, n)) => mreq'[k].pc # "insert"
        BY <1>0 DEF ReadRequest, Advance, MergeIdle
    <3>6. mreq'[k].pc # "insert"
        BY <1>2, <2>5, <3>2, <3>3, <3>4, <3>5 DEF CreateMergeRequest, MergeRequest
    <3> QED
        BY <2>1, <3>1, <3>6 DEF OpenInv, OneOpenRequest
  <2> QED
      BY <2>2, <2>3, <2>4, <2>5
<1> QED
    BY <1>1, <1>2 DEF MergeNext, UpdateMergeRequest

\* Two branches have one open merge request, if no client sets a merge request
\* back to init: CreateMergeRequest finds the open ones before it inserts one
\* (merge_request_ctl.go).
THEOREM OneStaysOpen == ASSUME "init" \notin SetStates PROVE AllSerialSpec => []OneOpenRequest
<1>1. AllInit => OpenInv
    BY DEF AllInit, MergeInit, MergeIdle, OpenInv, OneOpenRequest
<1>2. SerialInv /\ OpenInv /\ [AllOneByOne]_AllVars => OpenInv'
  <2>1. ASSUME OpenInv, UNCHANGED mergeVars PROVE OpenInv'
      BY <2>1 DEF mergeVars, OpenInv, OneOpenRequest, OpenRequests
  <2> QED
      BY <2>1, OpenStep DEF AllOneByOne, AllVars
<1>3. OpenInv => OneOpenRequest
    BY DEF OpenInv
<1> QED
    BY SerialInvariance, <1>1, <1>2, <1>3, PTL DEF AllSerialSpec

----------------------------------------------------------------------------
(* What stays in the history of a branch.                                  *)

\* Commits of every table are in the pool, and those named by rows too.
LEMMA InPool ==
    ASSUME MergeInv
    PROVE  /\ DOMAIN commits \subseteq CommitIds
           /\ \A b \in DOMAIN branches : /\ branches[b].commit \in CommitIds \cup {NoCommit}
                                       /\ branches[b] \in BranchRow
           /\ \A w \in DOMAIN wips : wips[w].base \in CommitIds \cup {NoCommit}
BY DEF MergeInv, ServerInv, IInv, RowsOK, StoreTypeOK, IsTable, BranchRow, WipRow

\* Whatever the step, stored commits stay, and a branch that appears has an id
\* that no row has had.
LEMMA SerialRows ==
    ASSUME SerialInv, [AllOneByOne]_AllVars
    PROVE  /\ DOMAIN commits \subseteq DOMAIN commits'
           /\ \A c \in DOMAIN commits : commits'[c] = commits[c]
           /\ DOMAIN branches' \subseteq DOMAIN branches \cup (spent' \ spent)
<1>1. CASE UNCHANGED AllVars
    BY <1>1 DEF AllVars, serverVars, vars, storeVars
<1>2. CASE MergeNext
    BY <1>2, MergeRows DEF SerialInv
<1>3. CASE ServerNext
    BY <1>3, ServerCommitsStep, IdsStep, RefRowsStep DEF ServerNext, WorkStep, RefsStep
<1> QED
    BY <1>1, <1>2, <1>3 DEF AllOneByOne, OneByOne

\* A ref request moves no branch.
LEMMA RefMovesNone ==
    ASSUME ServerIdsSpent, RefNext, NEW b \in DOMAIN branches \cap DOMAIN branches'
    PROVE  branches'[b] = branches[b]
<1>1. PICK k \in RefHandlers : RefBegin(k) \/ RefStep(k)
    BY DEF RefNext
<1>2. CASE InsertBranch(k)
    BY <1>2, NewIdFresh DEF InsertBranch, AddRow, ServerIdsSpent, IdsSpent
<1>3. CASE DeleteBranch(k)
    BY <1>3 DEF DeleteBranch, DropBranch, DropRows
<1>4. CASE ~InsertBranch(k) /\ ~DeleteBranch(k)
  <2>1. UNCHANGED branches
      BY <1>1, <1>4
         DEF RefBegin, ReadSource, NameDoomed, CheckOutDoomed, CheckHead, ReadTarget,
             CheckOutTag, RefStart, RefStep, CheckBranchName, CheckTagName, InsertTag,
             DeleteTag, DropTags, SetHead, RefAbort, storeVars
  <2> QED BY <2>1
<1> QED
    BY <1>1, <1>2, <1>3, <1>4

\* A merge moves its target, and no other branch.
LEMMA MergeMovesTarget ==
    ASSUME SerialInv, NEW k \in MergeHandlers, Merged(k)
    PROVE  \E c \in CommitIds \cap DOMAIN commits' :
              /\ {mreq[k].s, mreq[k].t} \subseteq History(commits', c) \cup {NoCommit}
              /\ mreq[k].number \in DOMAIN mrs /\ mrs[mreq[k].number].target = mreq[k].target
              /\ mreq[k].target \in DOMAIN branches
              /\ branches[mreq[k].target].commit = mreq[k].t
              /\ DOMAIN branches' = DOMAIN branches
              /\ \A b \in DOMAIN branches :
                    branches'[b].commit = IF b = mreq[k].target THEN c ELSE branches[b].commit
              /\ mrs' = [mrs EXCEPT ![mreq[k].number].state = "merged"]
              /\ took' = [took EXCEPT ![mreq[k].number] = mreq[k].s]
<1>1. PICK c \in CommitIds \cap DOMAIN commits' :
          /\ mreq[k].pc = "merge" /\ MoveTarget(k, c)
          /\ {mreq[k].s, mreq[k].t} \subseteq History(commits', c) \cup {NoCommit}
    BY DEF Merged
<1>2. MergeFresh(mreq[k])
    BY DEF SerialInv, MergesInv
<1>3. /\ DOMAIN branches' = DOMAIN branches
      /\ \A b \in DOMAIN branches :
            branches'[b].commit = IF b = mreq[k].target THEN c ELSE branches[b].commit
    BY <1>1, InPool DEF MoveTarget, SetBranchCommit, BranchRow, SerialInv
<1> QED
    BY <1>1, <1>2, <1>3 DEF MergeFresh, MoveTarget

\* The commit a branch was at stays in its history.
LEMMA BranchStep ==
    ASSUME SerialInv, SerialInv', [AllOneByOne]_AllVars, NEW b \in DOMAIN branches \cap DOMAIN branches'
    PROVE  Since(commits', branches[b].commit, branches'[b].commit)
<1>1. /\ branches[b].commit \in CommitIds \cup {NoCommit}
      /\ branches'[b].commit \in CommitIds \cup {NoCommit} /\ DOMAIN commits' \subseteq CommitIds
    BY DEF SerialInv, MergeInv, ServerInv, IInv, RowsOK, StoreTypeOK, IsTable, BranchRow
<1>2. CASE branches'[b].commit = branches[b].commit
    BY <1>2 DEF Since
<1>3. CASE MergeNext /\ branches'[b].commit # branches[b].commit
  <2>1. PICK k \in MergeHandlers : FastForward(k) \/ MergeCommit(k)
      BY <1>3 DEF MergeNext, CreateMergeRequest, FindSource, FindTarget, CheckOpen,
          InsertRequest, MergeRequest, ReadRequest, ReadSourceBranch, ReadTargetBranch,
          CheckOutTarget, MergeAbort, UpdateMergeRequest, UpdateRequest, Advance, serverVars,
          vars, storeVars
  <2>2. Merged(k)
      BY <2>1, MergeMoves DEF SerialInv
  <2> QED
      BY <1>3, <2>2, MergeMovesTarget DEF Since
<1>4. CASE WorkStep /\ OneRequest' /\ MergeQuiet /\ UNCHANGED mergeVars
  <2>1. PICK h \in Handlers : WipMoves(h)
      BY <1>4, WipRefsInv DEF SerialInv
  <2>2. \/ branches'[b].commit = branches[b].commit
        \/ /\ branches'[b].commit \in DOMAIN commits'
           /\ branches[b].commit \in Parents(commits', branches'[b].commit) \cup {NoCommit}
      BY <2>1 DEF WipMoves
  <2> QED
      BY <1>1, <2>2, HistoryParent DEF Since
<1>5. CASE RefsStep
    BY <1>2, <1>5, RefMovesNone DEF RefsStep, SerialInv
<1>6. CASE UNCHANGED AllVars
    BY <1>2, <1>6 DEF AllVars, serverVars, vars, storeVars
<1> QED
    BY <1>2, <1>3, <1>4, <1>5, <1>6 DEF AllOneByOne, OneByOne, ServerNext

\* And so does all that was in its history.
LEMMA HistoryKept ==
    ASSUME SerialInv, SerialInv', [AllOneByOne]_AllVars, NEW b \in DOMAIN branches \cap DOMAIN branches',
           NEW c, Since(commits, c, branches[b].commit)
    PROVE  Since(commits', c, branches'[b].commit)
<1> DEFINE d == branches[b].commit
           e == branches'[b].commit
<1>1. /\ d \in CommitIds \cup {NoCommit} /\ e \in CommitIds \cup {NoCommit}
      /\ Since(commits', d, e)
    BY BranchStep DEF SerialInv, MergeInv, ServerInv, IInv, RowsOK, StoreTypeOK, IsTable,
        BranchRow
<1>2. History(commits, d) \subseteq History(commits', d)
    BY SerialRows, HistoryGrows
<1>3. ASSUME d \in History(commits', e) PROVE History(commits', d) \subseteq History(commits', e)
    BY <1>1, <1>3, HistoryDeep DEF History
<1> HIDE DEF d, e
<1>4. Since(commits, c, d)
    BY DEF d
<1>5. Since(commits', c, e)
    BY <1>1, <1>2, <1>3, <1>4 DEF Since, History
<1> QED
    BY <1>5 DEF e

\* What a step does to the merge requests: a new one has taken nothing, a merge
\* takes the source's commit, the others stay what they are.
LEMMA TookStep ==
    ASSUME SerialInv, [AllOneByOne]_AllVars, NEW n \in DOMAIN mrs'
    PROVE  \/ n \in DOMAIN mrs /\ mrs'[n].target = mrs[n].target /\ took'[n] = took[n]
           \/ took'[n] = NoCommit
           \/ \E k \in MergeHandlers : Merged(k) /\ n = mreq[k].number
<1>0. /\ \A m \in DOMAIN mrs : mrs[m] \in MrRow /\ m \in Numbers
      /\ took \in [Numbers -> CommitIds \cup {NoCommit}]
    BY DEF SerialInv, MergeInv, MergeTypeOK, IsTable
<1>1. ASSUME NEW k \in MergeHandlers, FastForward(k) \/ MergeCommit(k)
      PROVE  \/ n \in DOMAIN mrs /\ mrs'[n].target = mrs[n].target /\ took'[n] = took[n]
             \/ \E i \in MergeHandlers : Merged(i) /\ n = mreq[i].number
  <2>1. Merged(k)
      BY <1>1, MergeMoves DEF SerialInv
  <2>2. CASE n = mreq[k].number
      BY <2>1, <2>2
  <2>3. CASE n # mreq[k].number
    <3>1. /\ mrs' = [mrs EXCEPT ![mreq[k].number].state = "merged"]
          /\ took' = [took EXCEPT ![mreq[k].number] = mreq[k].s]
        BY <2>1 DEF Merged, MoveTarget
    <3> QED
        BY <1>0, <2>3, <3>1
  <2> QED
      BY <2>2, <2>3
<1>2. ASSUME NEW k \in MergeHandlers, InsertRequest(k)
      PROVE  \/ n \in DOMAIN mrs /\ mrs'[n].target = mrs[n].target /\ took'[n] = took[n]
             \/ took'[n] = NoCommit
  <2> DEFINE m == Cardinality(DOMAIN mrs)
  <2>1. IsFiniteSet(DOMAIN mrs)
      BY <1>0, FS_Interval, FS_Subset, MergeAssumption DEF Numbers
  <2>2. m \in Nat
      BY <2>1, FS_CardinalityType
  <2>3. /\ DOMAIN mrs' = DOMAIN mrs \cup {m + 1} /\ took' = took /\ m + 1 <= MaxNumber
        /\ \A i \in DOMAIN mrs : i # m + 1 => mrs'[i] = mrs[i]
      BY <1>2 DEF InsertRequest, AddRow
  <2>4. DOMAIN mrs = 1 .. m /\ \A i \in Numbers \ DOMAIN mrs : took[i] = NoCommit
      BY DEF SerialInv, MergesInv
  <2> HIDE DEF m
  <2>5. m + 1 \in Numbers \ DOMAIN mrs
      BY <2>2, <2>3, <2>4, MergeAssumption DEF Numbers
  <2> QED
      BY <2>3, <2>4, <2>5
<1>3. ASSUME NEW m, NEW state, UpdateRequest(m, state)
      PROVE  n \in DOMAIN mrs /\ mrs'[n].target = mrs[n].target /\ took'[n] = took[n]
    BY <1>0, <1>3 DEF UpdateRequest, MrRow
<1>4. CASE UNCHANGED <<mrs, took>>
    BY <1>4
<1> QED
  <2>1. CASE MergeNext
      BY <1>1, <1>2, <1>3, <1>4, <2>1
         DEF MergeNext, CreateMergeRequest, FindSource, FindTarget, CheckOpen, MergeRequest,
             ReadRequest, ReadSourceBranch, ReadTargetBranch, CheckOutTarget, MergeAbort,
             UpdateMergeRequest, Advance
  <2>2. CASE UNCHANGED mergeVars
      BY <1>4, <2>2 DEF mergeVars
  <2> QED
      BY <2>1, <2>2 DEF AllOneByOne, AllVars

\* Also for the wips: what a step leaves as it was, or puts at its branch's tip.
LEMMA WipRowsStep ==
    ASSUME SerialInv, [AllOneByOne]_AllVars, "UpdateWip" \notin Ops, NEW w \in DOMAIN wips'
    PROVE  \/ w \in DOMAIN wips /\ wips'[w].ref = wips[w].ref /\ wips'[w].base = wips[w].base
           \/ /\ wips'[w].ref \in DOMAIN branches'
              /\ wips'[w].base = branches'[wips'[w].ref].commit
<1>1. CASE UNCHANGED wips
    BY <1>1
<1>2. CASE MergeNext
    BY <1>1, <1>2, MergeRows DEF SerialInv
<1>3. CASE WorkStep /\ OneRequest' /\ MergeQuiet /\ UNCHANGED mergeVars
  <2>1. PICK h \in Handlers : WipFresh(wreq[h]) /\ WipMoves(h)
      BY <1>3, WipRefsInv DEF SerialInv
  <2>2. ~At(h, "UpdateWip", "wip")
      BY <2>1 DEF WipFresh, At
  <2> QED
      BY <2>1, <2>2 DEF WipMoves
<1>4. CASE RefsStep
    BY <1>4, RefRowsStep DEF RefsStep
<1> QED
    BY <1>1, <1>2, <1>3, <1>4
       DEF AllOneByOne, OneByOne, ServerNext, AllVars, serverVars, vars, storeVars

\* A branch only moves forward, one request at a time: the commit it was at stays
\* in its history, through CommitChanges and Merge alike (work_repo.go).
THEOREM BranchesAdvance == AllSerialSpec => BranchAdvances
<1> DEFINE Stays(b) == Since(commits', branches[b].commit, branches'[b].commit)
<1>1. SerialInv /\ SerialInv' /\ [AllOneByOne]_AllVars
         => [\A b \in DOMAIN branches \cap DOMAIN branches' : Stays(b)]_vars
    BY BranchStep
<1> QED
    BY SerialInvariance, <1>1, PTL DEF AllSerialSpec, BranchAdvances

\* What was merged stays in the target's history for as long as the target is
\* there, through later commits and merges (Merge in work_repo.go).
THEOREM MergesLast == AllSerialSpec => []MergedIsInTarget
<1>1. AllInit => MergedIsInTarget
    BY DEF AllInit, MergeInit, MergedIsInTarget
<1>2. ASSUME SerialInv, SerialInv', MergedIsInTarget, [AllOneByOne]_AllVars
      PROVE  MergedIsInTarget'
  <2> SUFFICES ASSUME NEW n \in DOMAIN mrs', mrs'[n].target \in DOMAIN branches'
               PROVE  Since(commits', took'[n], branches'[mrs'[n].target].commit)
      BY DEF MergedIsInTarget
  <2>1. CASE n \in DOMAIN mrs /\ mrs'[n].target = mrs[n].target /\ took'[n] = took[n]
    <3>1. mrs[n].target \in spent
        BY <1>2, <2>1 DEF SerialInv, MergesInv
    <3>2. mrs[n].target \in DOMAIN branches \cap DOMAIN branches'
        BY <1>2, <2>1, <3>1, SerialRows
    <3>3. Since(commits, took[n], branches[mrs[n].target].commit)
        BY <1>2, <2>1, <3>2 DEF MergedIsInTarget
    <3> QED
        BY <1>2, <2>1, <3>2, <3>3, HistoryKept
  <2>2. ASSUME NEW k \in MergeHandlers, Merged(k), n = mreq[k].number
        PROVE  Since(commits', took'[n], branches'[mrs'[n].target].commit)
    <3>1. took \in [Numbers -> CommitIds \cup {NoCommit}] /\ \A m \in DOMAIN mrs : mrs[m] \in MrRow /\ m \in Numbers
        BY <1>2 DEF SerialInv, MergeInv, MergeTypeOK, IsTable
    <3>2. PICK c \in CommitIds \cap DOMAIN commits' :
              /\ {mreq[k].s, mreq[k].t} \subseteq History(commits', c) \cup {NoCommit}
              /\ n \in DOMAIN mrs /\ mrs[n].target = mreq[k].target
              /\ mreq[k].target \in DOMAIN branches
              /\ \A b \in DOMAIN branches :
                    branches'[b].commit = IF b = mreq[k].target THEN c ELSE branches[b].commit
              /\ mrs' = [mrs EXCEPT ![n].state = "merged"]
              /\ took' = [took EXCEPT ![n] = mreq[k].s]
        BY <1>2, <2>2, MergeMovesTarget
    <3>3. mrs'[n].target = mreq[k].target /\ took'[n] = mreq[k].s
        BY <3>1, <3>2 DEF MrRow
    <3> QED
        BY <3>2, <3>3 DEF Since
  <2> QED
      BY <1>2, <2>1, <2>2, TookStep DEF Since
<1> QED
    BY SerialInvariance, SerialInitInv, <1>1, <1>2, PTL DEF AllSerialSpec

\* The commit a wip started from stays in the history of its branch, if no user
\* sets a base by hand: the branch moves on only past it (CommitChanges, Merge),
\* and the wip is moved to the commit that was made from it (UpdateByID).
THEOREM WipBasesLast == ASSUME "UpdateWip" \notin Ops PROVE AllSerialSpec => []WipBaseInHistory
<1>1. AllInit => WipBaseInHistory
    BY DEF AllInit, ServerInit, Init, StoreInit, WipBaseInHistory
<1>2. ASSUME SerialInv, SerialInv', WipBaseInHistory, [AllOneByOne]_AllVars
      PROVE  WipBaseInHistory'
  <2> SUFFICES ASSUME NEW w \in DOMAIN wips', wips'[w].ref \in DOMAIN branches'
               PROVE  Since(commits', wips'[w].base, branches'[wips'[w].ref].commit)
      BY DEF WipBaseInHistory
  <2>1. CASE w \in DOMAIN wips /\ wips'[w].ref = wips[w].ref /\ wips'[w].base = wips[w].base
    <3>1. wips[w].ref \in DOMAIN branches
        BY <1>2, <2>1 DEF SerialInv, RefsInv, WipsHaveBranches
    <3>2. Since(commits, wips[w].base, branches[wips[w].ref].commit)
        BY <1>2, <2>1, <3>1 DEF WipBaseInHistory
    <3> QED
        BY <1>2, <2>1, <3>1, <3>2, HistoryKept
  <2>2. CASE wips'[w].base = branches'[wips'[w].ref].commit
      BY <2>2 DEF Since
  <2> QED
      BY <1>2, <2>1, <2>2, WipRowsStep
<1> QED
    BY SerialInvariance, <1>1, <1>2, PTL DEF AllSerialSpec
=============================================================================
