--------------------------- MODULE Requests_proofs --------------------------
(***************************************************************************)
(* Theorems about requests in any order: about WorkRepo, the wip requests  *)
(* alone, in every mix (Ops, SerialClients); about Server, ref requests    *)
(* beside them; and about MergeRequests, merges beside both.  For every    *)
(* number of users, requests, paths, branches, tags, commits, wips and     *)
(* merge requests.                                                         *)
(***************************************************************************)
EXTENDS MergeRequests, FiniteSetTheorems, TLAPS

----------------------------------------------------------------------------
(* The row operations of RepoStore keep a table a table.                   *)

\* An inserted row leaves a table of the same kind.
LEMMA AddRowTable ==
    ASSUME NEW table, NEW Keys, NEW Rows, IsTable(table, Keys, Rows),
           NEW key \in Keys, NEW row \in Rows
    PROVE  IsTable(AddRow(table, key, row), Keys, Rows)
BY DEF IsTable, AddRow

\* Deleted rows leave a table of the same kind.
LEMMA DropRowsTable ==
    ASSUME NEW table, NEW Keys, NEW Rows, IsTable(table, Keys, Rows), NEW keys
    PROVE  IsTable(DropRows(table, keys), Keys, Rows)
BY DEF IsTable, DropRows

\* UpdateByID of a branch's commit.
LEMMA SetBranchCommitTable ==
    ASSUME NEW table, IsTable(table, BranchIds, BranchRow), NEW id,
           NEW c \in CommitIds \cup {NoCommit}
    PROVE  IsTable(SetBranchCommit(table, id, c), BranchIds, BranchRow)
BY DEF IsTable, SetBranchCommit, BranchRow

\* UpdateByID of a wip's base.
LEMMA SetWipBaseTable ==
    ASSUME NEW table, IsTable(table, WipIds, WipRow), NEW id,
           NEW c \in CommitIds \cup {NoCommit}
    PROVE  IsTable(SetWipBase(table, id, c), WipIds, WipRow)
BY DEF IsTable, SetWipBase, WipRow

\* UpdateByID of a wip's tree.
LEMMA SetWipTreeTable ==
    ASSUME NEW table, IsTable(table, WipIds, WipRow), NEW id, NEW t \in Tree
    PROVE  IsTable(SetWipTree(table, id, t), WipIds, WipRow)
BY DEF IsTable, SetWipTree, WipRow

\* The tree of a known commit is a tree.
LEMMA TreeOfType ==
    ASSUME IsTable(commits, CommitIds, CommitRow), NEW c, Known(c)
    PROVE  TreeOf(c) \in Tree
BY DEF IsTable, Known, TreeOf, CommitRow, Tree, EmptyTree

\* A drawn key comes from its pool, and no stored commit has the new hash.
LEMMA NewIdFresh == ASSUME NEW pool, HasId(pool) PROVE NewId(pool) \in pool \ spent
BY DEF HasId, NewId

\* The next commit's id is not in use.
LEMMA NewCommitFresh == ASSUME HasNewCommit PROVE NewCommit \in CommitIds \ DOMAIN commits
BY DEF HasNewCommit, NewCommit

----------------------------------------------------------------------------
(* The records of the requests in flight.                                  *)

\* A handler that serves no request.
LEMMA IdleType == Idle \in Request
BY ConstantsAssumption DEF Idle, Request, AllOps, Tree, EmptyTree


\* A handler's record becomes q while no commit disappears.
LEMMA RequestStep ==
    ASSUME wreq \in [Handlers -> Request], \A h \in Handlers : ReadSound(wreq[h]),
           NEW h \in Handlers, NEW q \in Request, ReadSound(q),
           wreq' = [wreq EXCEPT ![h] = q], DOMAIN commits \subseteq DOMAIN commits'
    PROVE  wreq' \in [Handlers -> Request] /\ \A k \in Handlers : ReadSound(wreq[k])'
BY DEF ReadSound, Known

\* The request ends.
LEMMA FinishStep ==
    ASSUME IInv, NEW h \in Handlers, Finish(h), DOMAIN commits \subseteq DOMAIN commits'
    PROVE  wreq' \in [Handlers -> Request] /\ \A k \in Handlers : ReadSound(wreq[k])'
<1>1. Idle \in Request /\ ReadSound(Idle)
    BY IdleType DEF Idle, ReadSound, Known
<1> QED
    BY <1>1, RequestStep DEF Finish, IInv, RowsOK

\* The request goes on with a tree it computed.
LEMMA ComputedStep ==
    ASSUME IInv, NEW h \in Handlers, NEW pc \in {"save", "tx"}, NEW X \in SUBSET Paths,
           NEW t \in Tree, Computed(h, pc, X, t),
           DOMAIN commits \subseteq DOMAIN commits'
    PROVE  wreq' \in [Handlers -> Request] /\ \A k \in Handlers : ReadSound(wreq[k])'
<1> DEFINE q == [Idle EXCEPT !.op = wreq[h].op, !.pc = pc, !.user = wreq[h].user,
                             !.wip = wreq[h].wip, !.scope = X, !.next = t]
<1>1. wreq[h] \in Request
    BY DEF IInv, RowsOK
<1>2. q \in Request
    BY <1>1, IdleType DEF Request, Idle
<1>3. ReadSound(q)
    BY DEF ReadSound, Known, Idle
<1> QED
    BY <1>2, <1>3, RequestStep DEF Computed, IInv, RowsOK

----------------------------------------------------------------------------
(* The inductive invariant: the initial states, then one lemma per kind of *)
(* action, each showing first what the step does to the tables, then what  *)
(* it does to the requests.                                                *)

\* A new repository satisfies the invariant.
LEMMA InitInv == Init => IInv
<1> SUFFICES ASSUME Init PROVE IInv
    OBVIOUS
<1> DEFINE main == CHOOSE b \in BranchIds : TRUE
<1>1. main \in BranchIds
    BY ConstantsAssumption
<1>2. wreq \in [Handlers -> Request] /\ edits \in [WipIds -> SUBSET Paths]
    BY IdleType DEF Init
<1>3. \A h \in Handlers : ReadSound(wreq[h])
    BY DEF Init, Idle, ReadSound, Known
<1>4. IsTable(branches, BranchIds, BranchRow)
    BY <1>1, ConstantsAssumption DEF Init, StoreInit, IsTable, BranchRow
<1>5. IsTable(commits, CommitIds, CommitRow)
    BY DEF Init, StoreInit, IsTable
<1>6. IsTable(wips, WipIds, WipRow)
    BY DEF Init, StoreInit, IsTable
<1>7. RowsOK
    BY <1>1, <1>2, <1>4, <1>5, <1>6, ConstantsAssumption DEF Init, StoreInit, StoreTypeOK,
        RowsOK
<1>8. RefIntegrity
    BY DEF Init, StoreInit, RefIntegrity, Known
<1> QED
    BY <1>3, <1>7, <1>8 DEF IInv

\* The tables as they were.
LEMMA SameStore ==
    ASSUME IInv, UNCHANGED <<storeVars, edits>>,
           wreq' \in [Handlers -> Request], \A h \in Handlers : ReadSound(wreq[h])'
    PROVE  IInv'
BY DEF IInv, RowsOK, StoreTypeOK, storeVars, RefIntegrity, Known, Parents

\* Only the wips changed, and their bases are known: the invariant is kept.
LEMMA NewWips ==
    ASSUME IInv, IsTable(wips', WipIds, WipRow), \A w \in DOMAIN wips' : Known(wips'[w].base),
           UNCHANGED <<head, branches, commits>>, trees' \subseteq Tree,
           edits' \in [WipIds -> SUBSET Paths],
           wreq' \in [Handlers -> Request], \A h \in Handlers : ReadSound(wreq[h])'
    PROVE  IInv'
BY DEF IInv, RowsOK, StoreTypeOK, RefIntegrity, Known, Parents

\* The steps that only read.
LEMMA CheckOutBranchStep ==
    ASSUME IInv, NEW h \in Handlers, NEW u \in Users, NEW op \in Ops, NEW b \in BranchIds,
           CheckOutBranch(h, u, op, b)
    PROVE  IInv'
<1> DEFINE c == Used(op, TipOps, branches[b].commit)
           q == [Idle EXCEPT !.op = op, !.pc = "branch", !.user = u, !.branch = b, !.tip = c]
<1>1. c \in CommitIds \cup {NoCommit} /\ Known(c)
    BY DEF IInv, RowsOK, StoreTypeOK, RefIntegrity, IsTable, BranchRow, CheckOutBranch, Used,
        Known
<1>2. q \in Request
  <2> HIDE DEF c
  <2> QED BY <1>1, IdleType, WorkRepoAssumption DEF Request, Idle
<1>3. ReadSound(q)
  <2> HIDE DEF c
  <2> QED BY <1>1 DEF ReadSound, Idle, Known
<1>4. wreq' \in [Handlers -> Request] /\ \A k \in Handlers : ReadSound(wreq[k])'
    BY <1>2, <1>3, RequestStep DEF CheckOutBranch, storeVars, IInv, RowsOK
<1> QED
    BY <1>4, SameStore DEF CheckOutBranch

\* CheckOut reads a wip and writes nothing.
LEMMA CheckOutWipStep ==
    ASSUME IInv, NEW h \in Handlers, CheckOutWip(h)
    PROVE  IInv'
<1>1. PICK w \in WipsOf(wreq[h].user, wreq[h].branch) :
        wreq' = [wreq EXCEPT ![h] =
                    [@ EXCEPT !.pc = "wip", !.wip = w,
                              !.base = Used(wreq[h].op, BaseOps, wips[w].base),
                              !.tree = IF wreq[h].op = "UpdateWip" THEN EmptyTree
                                       ELSE wips[w].tree]]
    BY DEF CheckOutWip, ReadWip
<1> DEFINE c == Used(wreq[h].op, BaseOps, wips[w].base)
           t == IF wreq[h].op = "UpdateWip" THEN EmptyTree ELSE wips[w].tree
           q == [wreq[h] EXCEPT !.pc = "wip", !.wip = w, !.base = c, !.tree = t]
<1>2. w \in WipIds /\ wips[w] \in WipRow /\ Known(wips[w].base)
    BY <1>1 DEF WipsOf, IInv, RowsOK, StoreTypeOK, IsTable, RefIntegrity
<1>3. c \in CommitIds \cup {NoCommit} /\ Known(c) /\ t \in Tree
    BY <1>2 DEF WipRow, Used, Known, Tree, EmptyTree
<1>4. wreq[h] \in Request /\ Known(wreq[h].tip)
    BY DEF IInv, RowsOK, ReadSound
<1>5. q \in Request /\ ReadSound(q)
  <2> HIDE DEF c, t
  <2>1. q \in Request
      BY <1>2, <1>3, <1>4 DEF Request
  <2>2. q.pc = "wip" /\ q.tip = wreq[h].tip /\ q.base = c
      BY <1>4 DEF Request
  <2> HIDE DEF q
  <2> QED BY <1>3, <1>4, <2>1, <2>2 DEF ReadSound
<1>6. wreq' = [wreq EXCEPT ![h] = q]
    BY <1>1
<1> HIDE DEF q
<1>7. UNCHANGED <<storeVars, edits>>
    BY DEF CheckOutWip, ReadWip
<1>8. wreq' \in [Handlers -> Request] /\ \A k \in Handlers : ReadSound(wreq[k])'
    BY <1>5, <1>6, <1>7, RequestStep DEF storeVars, IInv, RowsOK
<1> QED
    BY <1>7, <1>8, SameStore

\* GetOrCreateWip finds no wip, and writes nothing.
LEMMA MissWipStep ==
    ASSUME IInv, NEW h \in Handlers, MissWip(h)
    PROVE  IInv'
<1> DEFINE q == [wreq[h] EXCEPT !.pc = "new"]
<1>1. wreq[h] \in Request /\ wreq[h].pc = "branch" /\ ReadSound(wreq[h])
    BY DEF IInv, RowsOK, MissWip, At
<1>2. q \in Request /\ ReadSound(q)
    BY <1>1 DEF Request, ReadSound
<1>3. wreq' \in [Handlers -> Request] /\ \A k \in Handlers : ReadSound(wreq[k])'
    BY <1>2, RequestStep DEF MissWip, storeVars, IInv, RowsOK
<1> QED
    BY <1>3, SameStore DEF MissWip

\* A request ends in an error, with its transaction rolled back.
LEMMA AbortStep ==
    ASSUME IInv, NEW h \in Handlers, Abort(h)
    PROVE  IInv'
BY FinishStep, SameStore DEF Abort, storeVars

\* The steps that write wips.
LEMMA CreateWipStep ==
    ASSUME IInv, NEW h \in Handlers, CreateWip(h)
    PROVE  IInv'
<1> DEFINE r == wreq[h]
           w == NewId(WipIds)
           row == [creator |-> r.user, ref |-> r.branch, base |-> r.tip, tree |-> TreeOf(r.tip)]
<1>1. r \in Request /\ r.branch \in BranchIds /\ Known(r.tip)
    BY DEF CreateWip, InsertWip, At, IInv, RowsOK, ReadSound
<1>2. w \in WipIds
    BY NewIdFresh DEF CreateWip, InsertWip
<1>3. row \in WipRow /\ row.base = r.tip
    BY <1>1, TreeOfType DEF IInv, RowsOK, StoreTypeOK, WipRow, Request
<1>4. wips' = AddRow(wips, w, row)
    BY DEF CreateWip, InsertWip
<1> HIDE DEF row, w
<1>5. IsTable(wips', WipIds, WipRow)
    BY <1>2, <1>3, <1>4, AddRowTable DEF IInv, RowsOK, StoreTypeOK
<1>6. \A o \in DOMAIN wips' : Known(wips'[o].base)
    BY <1>1, <1>3, <1>4 DEF AddRow, IInv, RefIntegrity
<1>7. spent' = spent \cup {w} /\ Finish(h) /\ UNCHANGED <<head, branches, commits, trees, edits>>
    BY DEF CreateWip, InsertWip, w
<1>8. wreq' \in [Handlers -> Request] /\ \A k \in Handlers : ReadSound(wreq[k])'
    BY <1>7, FinishStep
<1> QED
    BY <1>2, <1>5, <1>6, <1>7, <1>8, NewWips DEF IInv, RowsOK, StoreTypeOK

\* New trees, and a request that goes on to save one of them.
LEMMA TreeStep ==
    ASSUME IInv, NEW h \in Handlers, NEW X \in SUBSET Paths,
           NEW t \in Tree, Computed(h, "save", X, t), trees' = trees \cup {t},
           UNCHANGED <<head, branches, commits, wips, spent, edits>>
    PROVE  IInv'
<1>1. wreq' \in [Handlers -> Request] /\ \A k \in Handlers : ReadSound(wreq[k])'
    BY ComputedStep
<1> QED
    BY <1>1, NewWips DEF IInv, RowsOK, StoreTypeOK, RefIntegrity

\* UploadObject stores the nodes of its tree, before the wip names it.
LEMMA UploadObjectStep ==
    ASSUME IInv, NEW h \in Handlers, NEW x \in Paths, NEW v \in Blobs,
           NEW isReplace \in BOOLEAN, UploadObject(h, x, v, isReplace)
    PROVE  IInv'
<1> DEFINE t == [wreq[h].tree EXCEPT ![x] = v]
<1>1. t \in Tree
    BY DEF IInv, RowsOK, Request, Tree
<1>2. Computed(h, "save", {x}, t) /\ trees' = trees \cup {t}
    BY DEF UploadObject, WriteObject
<1> QED
    BY <1>1, <1>2, TreeStep DEF UploadObject, WriteObject

\* DeleteObject stores the nodes of its tree, before the wip names it.
LEMMA DeleteObjectStep ==
    ASSUME IInv, NEW h \in Handlers, NEW X \in SUBSET Paths, DeleteObject(h, X)
    PROVE  IInv'
<1> DEFINE t == [x \in Paths |-> IF x \in X THEN NoBlob ELSE wreq[h].tree[x]]
<1>1. t \in Tree
    BY DEF IInv, RowsOK, Request, Tree
<1>2. Computed(h, "save", X, t) /\ trees' = trees \cup {t}
    BY DEF DeleteObject
<1> QED
    BY <1>1, <1>2, TreeStep DEF DeleteObject

\* DeleteObject goes on with the tree it read when RemoveEntry fails.
LEMMA DeleteObjectFailsStep ==
    ASSUME IInv, NEW h \in Handlers, DeleteObjectFails(h)
    PROVE  IInv'
<1>1. wreq[h].tree \in Tree
    BY DEF IInv, RowsOK, Request
<1>2. wreq' \in [Handlers -> Request] /\ \A k \in Handlers : ReadSound(wreq[k])'
    BY <1>1, ComputedStep DEF DeleteObjectFails, storeVars
<1> QED
    BY <1>2, SameStore DEF DeleteObjectFails

\* A wip's tree is replaced by another: bases stay as they are.
LEMMA SetWipTreeKnown ==
    ASSUME IInv, NEW id, NEW t \in Tree
    PROVE  /\ IsTable(SetWipTree(wips, id, t), WipIds, WipRow)
           /\ \A w \in DOMAIN SetWipTree(wips, id, t) : Known(SetWipTree(wips, id, t)[w].base)
<1>1. IsTable(SetWipTree(wips, id, t), WipIds, WipRow)
    BY SetWipTreeTable DEF IInv, RowsOK, StoreTypeOK
<1>2. \A w \in DOMAIN wips : wips[w] \in WipRow /\ Known(wips[w].base)
    BY DEF IInv, RowsOK, StoreTypeOK, IsTable, RefIntegrity
<1> QED
    BY <1>1, <1>2 DEF SetWipTree, WipRow

\* UpdateByID sets the wip's tree to the one computed.
LEMMA SaveWipTreeStep ==
    ASSUME IInv, NEW h \in Handlers, SaveWipTree(h)
    PROVE  IInv'
<1>1. wreq[h] \in Request
    BY DEF IInv, RowsOK
<1>2. wreq[h].next \in Tree /\ wreq[h].scope \subseteq Paths
    BY <1>1 DEF Request
<1>3. wips' = SetWipTree(wips, wreq[h].wip, wreq[h].next)
    BY DEF SaveWipTree
<1>4. edits' \in [WipIds -> SUBSET Paths]
    BY <1>2 DEF SaveWipTree, IInv, RowsOK
<1>5. wreq' \in [Handlers -> Request] /\ \A k \in Handlers : ReadSound(wreq[k])'
    BY FinishStep DEF SaveWipTree
<1> QED
    BY <1>2, <1>3, <1>4, <1>5, SetWipTreeKnown, NewWips DEF SaveWipTree, IInv, RowsOK,
        StoreTypeOK

\* Revert of everything sets the wip's tree to its base's.
LEMMA RevertAllStep ==
    ASSUME IInv, NEW h \in Handlers, RevertAll(h)
    PROVE  IInv'
<1>1. TreeOf(wreq[h].base) \in Tree
    BY TreeOfType DEF RevertAll, IInv, RowsOK, StoreTypeOK
<1>2. wips' = SetWipTree(wips, wreq[h].wip, TreeOf(wreq[h].base))
    BY DEF RevertAll
<1>3. edits' \in [WipIds -> SUBSET Paths]
    BY DEF RevertAll, IInv, RowsOK
<1>4. wreq' \in [Handlers -> Request] /\ \A k \in Handlers : ReadSound(wreq[k])'
    BY FinishStep DEF RevertAll
<1> QED
    BY <1>1, <1>2, <1>3, <1>4, SetWipTreeKnown, NewWips DEF RevertAll, IInv, RowsOK,
        StoreTypeOK

\* Revert of paths updates the wip outside of its transaction.
LEMMA RevertPathsStep ==
    ASSUME IInv, NEW h \in Handlers, NEW X \in SUBSET Paths, RevertPaths(h, X)
    PROVE  IInv'
<1> DEFINE t == [x \in Paths |-> IF x \in X THEN TreeOf(wreq[h].base)[x] ELSE wreq[h].tree[x]]
<1>1. TreeOf(wreq[h].base) \in Tree /\ wreq[h].tree \in Tree
    BY TreeOfType DEF RevertPaths, IInv, RowsOK, StoreTypeOK, Request
<1>2. t \in Tree
    BY <1>1 DEF Tree
<1>3. wips' = SetWipTree(wips, wreq[h].wip, t) /\ Computed(h, "tx", X, t)
    BY DEF RevertPaths, RevertTo
<1>4. UNCHANGED <<head, branches, commits, trees, spent, edits>>
    BY DEF RevertPaths, RevertTo
<1> HIDE DEF t
<1>5. wreq' \in [Handlers -> Request] /\ \A k \in Handlers : ReadSound(wreq[k])'
    BY <1>2, <1>3, <1>4, ComputedStep
<1> QED
    BY <1>2, <1>3, <1>4, <1>5, SetWipTreeKnown, NewWips DEF IInv, RowsOK, StoreTypeOK

\* The transaction of a revert commits.
LEMMA RevertCommitStep ==
    ASSUME IInv, NEW h \in Handlers, RevertCommit(h)
    PROVE  IInv'
<1>1. wreq[h].next \in Tree
    BY DEF IInv, RowsOK, Request
<1>2. wreq' \in [Handlers -> Request] /\ \A k \in Handlers : ReadSound(wreq[k])'
    BY FinishStep DEF RevertCommit
<1> QED
    BY <1>1, <1>2, NewWips DEF RevertCommit, IInv, RowsOK, StoreTypeOK, RefIntegrity

\* UpdateWip sets base and tree by hand, to commits and trees that exist.
LEMMA UpdateWipStep ==
    ASSUME IInv, NEW h \in Handlers, NEW fields, NEW c \in CommitIds \cup {NoCommit},
           NEW t \in Tree, UpdateWip(h, fields, c, t)
    PROVE  IInv'
<1> DEFINE id    == wreq[h].wip
           based == IF "base" \in fields THEN SetWipBase(wips, id, c) ELSE wips
<1>1. Known(c) /\ wips' = IF "tree" \in fields THEN SetWipTree(based, id, t) ELSE based
    BY DEF UpdateWip, SetWip
<1>2. IsTable(based, WipIds, WipRow)
    BY SetWipBaseTable DEF IInv, RowsOK, StoreTypeOK
<1>3. \A w \in DOMAIN based : Known(based[w].base)
  <2>1. \A w \in DOMAIN wips : wips[w] \in WipRow /\ Known(wips[w].base)
      BY DEF IInv, RowsOK, StoreTypeOK, IsTable, RefIntegrity
  <2> QED
      BY <1>1, <2>1 DEF SetWipBase, WipRow
<1> HIDE DEF based
<1>4. IsTable(wips', WipIds, WipRow)
    BY <1>1, <1>2, SetWipTreeTable
<1>5. \A w \in DOMAIN wips' : Known(wips'[w].base)
  <2>1. \A w \in DOMAIN based : based[w] \in WipRow
      BY <1>2 DEF IsTable
  <2> QED
      BY <1>1, <1>3, <2>1 DEF SetWipTree, WipRow
<1>6. edits' \in [WipIds -> SUBSET Paths]
    BY DEF UpdateWip, SetWip, IInv, RowsOK
<1>7. wreq' \in [Handlers -> Request] /\ \A k \in Handlers : ReadSound(wreq[k])'
    BY FinishStep DEF UpdateWip, SetWip
<1> QED
    BY <1>4, <1>5, <1>6, <1>7, NewWips DEF UpdateWip, SetWip, IInv, RowsOK, StoreTypeOK

\* DeleteWip drops the row.
LEMMA DeleteWipStep ==
    ASSUME IInv, NEW h \in Handlers, DeleteWip(h)
    PROVE  IInv'
<1>1. PICK gone : wips' = DropRows(wips, gone)
    BY DEF DeleteWip
<1>2. IsTable(wips', WipIds, WipRow)
    BY <1>1, DropRowsTable DEF IInv, RowsOK, StoreTypeOK
<1>3. \A w \in DOMAIN wips' : Known(wips'[w].base)
    BY <1>1 DEF DropRows, IInv, RefIntegrity
<1>4. wreq' \in [Handlers -> Request] /\ \A k \in Handlers : ReadSound(wreq[k])'
    BY FinishStep DEF DeleteWip
<1> QED
    BY <1>2, <1>3, <1>4, NewWips DEF DeleteWip, IInv, RowsOK, StoreTypeOK

\* CommitChanges, the one step that adds a commit: the new row is stored by the
\* transaction that makes a branch and a wip name it, its parent is the tip that
\* was read, and every commit known before is known after.
LEMMA CommitChangesStep ==
    ASSUME IInv, NEW h \in Handlers, CommitChanges(h)
    PROVE  IInv'
<1> DEFINE r   == wreq[h]
           c   == NewCommit
           row == [tree |-> r.tree, parents |-> ParentsOf(r.tip)]
<1>1. r \in Request /\ Known(r.tip)
    BY DEF IInv, RowsOK, ReadSound
<1>2. c \in CommitIds /\ c \notin DOMAIN commits
    BY NewCommitFresh DEF CommitChanges, CommitOn
<1>3. row \in CommitRow /\ {row.parents[i] : i \in 1 .. Len(row.parents)} \subseteq DOMAIN commits
  <2>1. CASE r.tip = NoCommit
      BY <1>1, <2>1 DEF ParentsOf, CommitRow, Request
  <2>2. CASE r.tip # NoCommit
      BY <1>1, <2>2 DEF ParentsOf, CommitRow, Request, Known
  <2> QED
      BY <2>1, <2>2
<1>4. /\ commits' = AddRow(commits, c, row)
      /\ branches' = SetBranchCommit(branches, r.branch, c)
      /\ wips' = SetWipBase(wips, r.wip, c)
      /\ Finish(h) /\ UNCHANGED <<head, trees, spent>>
    BY DEF CommitChanges, CommitOn
<1>5. edits' \in [WipIds -> SUBSET Paths]
    BY DEF CommitChanges, CommitOn, IInv, RowsOK
<1> HIDE DEF c, row
<1>6. /\ IsTable(commits', CommitIds, CommitRow)
      /\ IsTable(branches', BranchIds, BranchRow)
      /\ IsTable(wips', WipIds, WipRow)
    BY <1>2, <1>3, <1>4, AddRowTable, SetBranchCommitTable, SetWipBaseTable
       DEF IInv, RowsOK, StoreTypeOK
<1>7. DOMAIN commits' = DOMAIN commits \cup {c}
    BY <1>4 DEF AddRow
<1>8. wreq' \in [Handlers -> Request] /\ \A k \in Handlers : ReadSound(wreq[k])'
    BY <1>4, <1>7, FinishStep
<1>9. \A b \in DOMAIN branches' : Known(branches[b].commit)'
  <2>1. \A b \in DOMAIN branches : branches[b] \in BranchRow /\ Known(branches[b].commit)
      BY DEF IInv, RowsOK, StoreTypeOK, IsTable, RefIntegrity
  <2> QED
      BY <1>4, <1>7, <2>1 DEF SetBranchCommit, BranchRow, Known
<1>10. \A w \in DOMAIN wips' : Known(wips[w].base)'
  <2>1. \A w \in DOMAIN wips : wips[w] \in WipRow /\ Known(wips[w].base)
      BY DEF IInv, RowsOK, StoreTypeOK, IsTable, RefIntegrity
  <2> QED
      BY <1>4, <1>7, <2>1 DEF SetWipBase, WipRow, Known
<1>11. \A d \in DOMAIN commits' : Parents(commits', d) \subseteq DOMAIN commits'
  <2> SUFFICES ASSUME NEW d \in DOMAIN commits' PROVE Parents(commits', d) \subseteq DOMAIN commits'
      OBVIOUS
  <2>1. CASE d = c
      BY <1>3, <1>4, <1>7, <2>1 DEF AddRow, Parents
  <2>2. CASE d # c
    <3>1. d \in DOMAIN commits /\ commits'[d] = commits[d]
        BY <1>4, <2>2 DEF AddRow
    <3>2. Parents(commits, d) \subseteq DOMAIN commits
        BY <3>1 DEF IInv, RefIntegrity
    <3> QED
        BY <1>7, <3>1, <3>2 DEF Parents
  <2> QED
      BY <2>1, <2>2
<1> QED
    BY <1>4, <1>5, <1>6, <1>8, <1>9, <1>10, <1>11 DEF IInv, RowsOK, StoreTypeOK, RefIntegrity

\* Every step of every request.
LEMMA NextInv == IInv /\ [Next]_vars => IInv'
<1> SUFFICES ASSUME IInv, [Next]_vars PROVE IInv'
    OBVIOUS
<1>1. CASE UNCHANGED vars
    BY <1>1, SameStore DEF vars, IInv, RowsOK, ReadSound, Known, storeVars
<1>2. CASE Next
  <2>1. PICK h \in Handlers :
            \/ \E u \in Users, op \in Ops, b \in BranchIds : CheckOutBranch(h, u, op, b)
            \/ Step(h)
      BY <1>2 DEF Next
  <2>2. CASE \E u \in Users, op \in Ops, b \in BranchIds : CheckOutBranch(h, u, op, b)
      BY <2>2, CheckOutBranchStep
  <2>3. CASE CheckOutWip(h) \/ SaveWipTree(h) \/ DeleteWip(h) \/ Abort(h)
      BY <2>3, CheckOutWipStep, SaveWipTreeStep, DeleteWipStep, AbortStep
  <2>4. CASE GetWip(h)
      BY <2>4, MissWipStep, CreateWipStep DEF GetWip
  <2>5. CASE PutObject(h)
      BY <2>5, UploadObjectStep DEF PutObject
  <2>6. CASE RemoveObject(h)
      BY <2>6, DeleteObjectStep, DeleteObjectFailsStep DEF RemoveObject
  <2>7. CASE RevertWip(h)
      BY <2>7, RevertAllStep, RevertPathsStep, RevertCommitStep DEF RevertWip
  <2>8. CASE CommitWip(h)
      BY <2>8, CommitChangesStep DEF CommitWip
  <2>9. CASE PatchWip(h)
      BY <2>9, UpdateWipStep DEF PatchWip
  <2> QED
      BY <2>1, <2>2, <2>3, <2>4, <2>5, <2>6, <2>7, <2>8, <2>9 DEF Step
<1> QED
    BY <1>1, <1>2

----------------------------------------------------------------------------
(* Trees are stored before rows name them.  Reverting paths is the one     *)
(* request that does it the other way round, so the argument is about      *)
(* servers that get no RevertWip.                                          *)

\* The tree a request works on, and the one it is about to save, are stored.
Holds(q, T) ==
    /\ q.pc # "idle" => q.op \in Ops
    /\ q.pc = "wip"  => q.tree \in T \cup {EmptyTree}
    /\ q.pc = "save" => q.next \in T \cup {EmptyTree}
HoldsStored(q) == Holds(q, trees)

TreeInv == TreesResolve /\ \A h \in Handlers : HoldsStored(wreq[h])

\* A known commit's tree is stored.
LEMMA TreeOfStored == ASSUME TreesResolve, NEW c, Known(c) PROVE Stored(TreeOf(c))
BY DEF TreesResolve, Known, TreeOf, Stored

\* A new repository names the empty tree alone.
LEMMA InitTrees == Init => TreeInv
BY DEF Init, StoreInit, Idle, TreeInv, TreesResolve, HoldsStored, Holds

\* A handler's record becomes q while no tree disappears.
LEMMA HoldsStep ==
    ASSUME IInv, TreeInv, NEW h \in Handlers, NEW q, Holds(q, trees'),
           wreq' = [wreq EXCEPT ![h] = q], trees \subseteq trees'
    PROVE  \A k \in Handlers : HoldsStored(wreq[k])'
BY DEF IInv, RowsOK, TreeInv, HoldsStored, Holds

\* The request ends: nothing to hold any more.
LEMMA FinishHolds ==
    ASSUME IInv, TreeInv, NEW h \in Handlers, Finish(h), trees \subseteq trees'
    PROVE  \A k \in Handlers : HoldsStored(wreq[k])'
<1>1. Holds(Idle, trees')
    BY DEF Holds, Idle
<1> QED
    BY <1>1, HoldsStep DEF Finish

\* The steps that read, and those that only compute a tree and store it.
LEMMA ReadTrees ==
    ASSUME IInv, TreeInv, "RevertWip" \notin Ops, NEW h \in Handlers,
           \/ \E u \in Users, op \in Ops, b \in BranchIds : CheckOutBranch(h, u, op, b)
           \/ CheckOutWip(h) \/ MissWip(h) \/ PutObject(h) \/ RemoveObject(h)
    PROVE  TreeInv'
<1>0. wreq[h] \in Request /\ HoldsStored(wreq[h])
    BY DEF IInv, RowsOK, TreeInv
<1>1. trees \subseteq trees' /\ UNCHANGED <<commits, wips>>
    BY DEF CheckOutBranch, CheckOutWip, ReadWip, MissWip, PutObject, UploadObject, WriteObject,
           RemoveObject, DeleteObject, DeleteObjectFails, storeVars
<1>2. \A k \in Handlers : HoldsStored(wreq[k])'
  <2>1. ASSUME NEW u \in Users, NEW op \in Ops, NEW b \in BranchIds, CheckOutBranch(h, u, op, b)
        PROVE  \A k \in Handlers : HoldsStored(wreq[k])'
    <3> DEFINE c == Used(op, TipOps, branches[b].commit)
               q == [Idle EXCEPT !.op = op, !.pc = "branch", !.user = u, !.branch = b, !.tip = c]
    <3>1. q.pc = "branch" /\ q.op = op
        BY DEF Idle
    <3>2. wreq' = [wreq EXCEPT ![h] = q]
        BY <2>1 DEF CheckOutBranch
    <3> HIDE DEF q
    <3>3. Holds(q, trees')
        BY <3>1 DEF Holds
    <3> QED BY <1>1, <3>2, <3>3, HoldsStep
  <2>2. CASE CheckOutWip(h)
    <3>1. PICK w \in DOMAIN wips :
             wreq' = [wreq EXCEPT ![h] =
                    [@ EXCEPT !.pc = "wip", !.wip = w,
                              !.base = Used(wreq[h].op, BaseOps, wips[w].base),
                              !.tree = IF wreq[h].op = "UpdateWip" THEN EmptyTree
                                       ELSE wips[w].tree]]
        BY <2>2 DEF CheckOutWip, ReadWip, WipsOf
    <3> DEFINE c == Used(wreq[h].op, BaseOps, wips[w].base)
               t == IF wreq[h].op = "UpdateWip" THEN EmptyTree ELSE wips[w].tree
               q == [wreq[h] EXCEPT !.pc = "wip", !.wip = w, !.base = c, !.tree = t]
    <3>2. t \in trees' \cup {EmptyTree}
        BY <1>1 DEF TreeInv, TreesResolve, Stored
    <3> HIDE DEF t, c
    <3>3. q.pc = "wip" /\ q.op = wreq[h].op /\ q.tree = t /\ wreq[h].op \in Ops
        BY <1>0, <2>2 DEF Request, HoldsStored, Holds, CheckOutWip, ReadWip
    <3>4. wreq' = [wreq EXCEPT ![h] = q]
        BY <3>1 DEF c, t
    <3> HIDE DEF q
    <3>5. Holds(q, trees')
        BY <3>2, <3>3 DEF Holds
    <3> QED BY <1>1, <3>4, <3>5, HoldsStep
  <2>3. CASE MissWip(h)
    <3> DEFINE q == [wreq[h] EXCEPT !.pc = "new"]
    <3>1. Holds(q, trees')
        BY <1>0, <2>3 DEF MissWip, At, Request, HoldsStored, Holds
    <3> QED BY <1>1, <2>3, <3>1, HoldsStep DEF MissWip
  <2>4. CASE PutObject(h) \/ RemoveObject(h)
    <3>1. PICK X, t : Computed(h, "save", X, t) /\ t \in trees' \cup {EmptyTree}
        BY <1>0, <1>1, <2>4 DEF PutObject, UploadObject, WriteObject, RemoveObject,
            DeleteObject, DeleteObjectFails, Stored, Computed
    <3> DEFINE q == [Idle EXCEPT !.op = wreq[h].op, !.pc = "save", !.user = wreq[h].user,
                                 !.wip = wreq[h].wip, !.scope = X, !.next = t]
    <3>2. wreq[h].op \in Ops
        BY <1>0, <2>4 DEF HoldsStored, Holds, PutObject, UploadObject, WriteObject,
            RemoveObject, DeleteObject, DeleteObjectFails, At
    <3>3. q.pc = "save" /\ q.op = wreq[h].op /\ q.next = t
        BY DEF Idle
    <3>4. wreq' = [wreq EXCEPT ![h] = q]
        BY <3>1 DEF Computed
    <3> HIDE DEF q
    <3>5. Holds(q, trees')
        BY <3>1, <3>2, <3>3 DEF Holds
    <3> QED BY <1>1, <3>4, <3>5, HoldsStep
  <2> QED
      BY <2>1, <2>2, <2>3, <2>4
<1> QED
    BY <1>1, <1>2 DEF TreeInv, TreesResolve, Stored

\* The steps that end a request: what they write into a row was stored before.
LEMMA WriteTrees ==
    ASSUME IInv, TreeInv, "RevertWip" \notin Ops, NEW h \in Handlers,
           \/ CreateWip(h) \/ SaveWipTree(h) \/ DeleteWip(h) \/ Abort(h)
           \/ RevertWip(h) \/ CommitWip(h) \/ PatchWip(h)
    PROVE  TreeInv'
<1>0. wreq[h] \in Request /\ HoldsStored(wreq[h]) /\ ReadSound(wreq[h])
    BY DEF IInv, RowsOK, TreeInv
<1>1. trees \subseteq trees' /\ Finish(h)
    BY <1>0 DEF CreateWip, InsertWip, SaveWipTree, DeleteWip, Abort, RevertWip, RevertAll,
        RevertPaths, RevertTo, RevertCommit, CommitWip, CommitChanges, CommitOn, PatchWip,
        UpdateWip, SetWip, At, HoldsStored, Holds, Stored, storeVars
<1>2. \A k \in Handlers : HoldsStored(wreq[k])'
    BY <1>1, FinishHolds
<1>3. \A t : Stored(t) => Stored(t)'
    BY <1>1 DEF Stored
<1>4. /\ \A c \in DOMAIN commits : Stored(commits[c].tree)
      /\ \A w \in DOMAIN wips : Stored(wips[w].tree) /\ wips[w] \in WipRow
    BY DEF TreeInv, TreesResolve, IInv, RowsOK, StoreTypeOK, IsTable
<1>5. CASE CommitWip(h)
  <2>1. Stored(wreq[h].tree)
      BY <1>0, <1>5 DEF CommitWip, CommitChanges, CommitOn, At, HoldsStored, Holds, Stored
  <2>2. \A c \in DOMAIN commits' : Stored(commits'[c].tree)
      BY <1>4, <1>5, <2>1 DEF CommitWip, CommitChanges, CommitOn, AddRow
  <2>3. \A w \in DOMAIN wips' : Stored(wips'[w].tree)
      BY <1>4, <1>5 DEF CommitWip, CommitChanges, CommitOn, SetWipBase, WipRow
  <2> QED
      BY <1>2, <1>3, <2>2, <2>3 DEF TreeInv, TreesResolve
<1>6. CASE ~CommitWip(h)
  <2>1. UNCHANGED commits
      BY <1>6 DEF CreateWip, InsertWip, SaveWipTree, DeleteWip, Abort, RevertWip, RevertAll,
                  RevertPaths, RevertTo, RevertCommit, PatchWip, UpdateWip, SetWip, storeVars
  <2>2. \A w \in DOMAIN wips' : Stored(wips'[w].tree)
    <3>1. CASE CreateWip(h)
      <4>1. Stored(TreeOf(wreq[h].tip))
          BY <3>1, TreeOfStored DEF CreateWip, InsertWip, TreeInv
      <4> QED BY <1>4, <3>1, <4>1 DEF CreateWip, InsertWip, AddRow
    <3>2. CASE SaveWipTree(h)
        BY <1>0, <1>4, <3>2 DEF SaveWipTree, SetWipTree, HoldsStored, Holds, Stored, WipRow
    <3>3. CASE PatchWip(h)
      <4>1. PICK c, fields, t : t \in Tree /\ Stored(t) /\ UpdateWip(h, fields, c, t)
          BY <3>3 DEF PatchWip, UpdateWip, SetWip
      <4> DEFINE based == IF "base" \in fields THEN SetWipBase(wips, wreq[h].wip, c) ELSE wips
      <4>2. DOMAIN based = DOMAIN wips /\ \A w \in DOMAIN based :
               Stored(based[w].tree) /\ based[w] = [based[w] EXCEPT !.tree = based[w].tree]
          BY <1>4 DEF SetWipBase, WipRow
      <4>3. \A w \in DOMAIN based : [based[w] EXCEPT !.tree = t].tree = t
        <5>1. \A w \in DOMAIN based : "tree" \in DOMAIN based[w]
            BY <1>4 DEF SetWipBase, WipRow
        <5> QED BY <5>1
      <4>4. wips' = IF "tree" \in fields THEN SetWipTree(based, wreq[h].wip, t) ELSE based
          BY <4>1 DEF UpdateWip, SetWip
      <4> HIDE DEF based
      <4> QED
          BY <4>1, <4>2, <4>3, <4>4 DEF SetWipTree
    <3>4. CASE DeleteWip(h)
        BY <1>4, <3>4 DEF DeleteWip, DropRows
    <3>5. CASE Abort(h) \/ RevertWip(h)
        BY <1>0, <1>4, <3>5 DEF Abort, storeVars, RevertWip, RevertAll, RevertPaths, RevertTo,
                                RevertCommit, At, HoldsStored, Holds, Stored
    <3> QED
        BY <1>6, <3>1, <3>2, <3>3, <3>4, <3>5
  <2> QED
      BY <1>2, <1>3, <1>4, <2>1, <2>2 DEF TreeInv, TreesResolve
<1> QED
    BY <1>5, <1>6

\* Every step of a wip request, but a revert of paths, keeps the named trees
\* stored.
LEMMA NextTrees ==
    ASSUME IInv, TreeInv, "RevertWip" \notin Ops, [Next]_vars PROVE TreeInv'
<1>1. CASE UNCHANGED vars
    BY <1>1 DEF vars, storeVars, TreeInv, TreesResolve, HoldsStored, Holds, Stored
<1>2. CASE Next
    BY <1>2, ReadTrees, WriteTrees DEF Next, Step, GetWip
<1> QED
    BY <1>1, <1>2

----------------------------------------------------------------------------
\* The inductive invariant holds in every reachable state.
THEOREM Invariance == Spec => []IInv
BY InitInv, NextInv, PTL DEF Spec

\* Every id a row has was drawn: an id that is drawn later is new.
IdsSpent == DOMAIN branches \cup DOMAIN wips \subseteq spent

\* What a step does to ids: new rows draw theirs from the pool of wip ids, and
\* nothing else gets a row.
LEMMA IdsStep ==
    [Next]_vars => /\ spent \subseteq spent' /\ spent' \subseteq spent \cup WipIds
                   /\ DOMAIN branches' = DOMAIN branches
                   /\ DOMAIN wips' \subseteq DOMAIN wips \cup (spent' \ spent)
<1> DEFINE Ids == /\ spent \subseteq spent' /\ spent' \subseteq spent \cup WipIds
                  /\ DOMAIN branches' = DOMAIN branches
                  /\ DOMAIN wips' \subseteq DOMAIN wips \cup (spent' \ spent)
<1> SUFFICES ASSUME Next PROVE Ids
    BY DEF vars, storeVars
<1>1. PICK h \in Handlers :
          \/ \E u \in Users, op \in Ops, b \in BranchIds : CheckOutBranch(h, u, op, b)
          \/ Step(h)
    BY DEF Next
<1>2. CASE CreateWip(h)
    BY <1>2, NewIdFresh DEF CreateWip, InsertWip, AddRow
<1>3. CASE ~CreateWip(h)
  <2>1. UNCHANGED spent
      BY <1>1, <1>3
         DEF Step, CheckOutBranch, CheckOutWip, ReadWip, GetWip, MissWip, DeleteWip, PatchWip,
             UpdateWip, SetWip, PutObject, UploadObject, WriteObject, RemoveObject,
             DeleteObject, DeleteObjectFails, SaveWipTree, RevertWip, RevertAll, RevertPaths,
             RevertTo, RevertCommit, CommitWip, CommitChanges, CommitOn, Abort, storeVars
  <2>2. DOMAIN branches' = DOMAIN branches
      BY <1>1, <1>3
         DEF Step, CheckOutBranch, CheckOutWip, ReadWip, GetWip, MissWip, DeleteWip, PatchWip,
             UpdateWip, SetWip, PutObject, UploadObject, WriteObject, RemoveObject,
             DeleteObject, DeleteObjectFails, SaveWipTree, RevertWip, RevertAll, RevertPaths,
             RevertTo, RevertCommit, CommitWip, CommitChanges, CommitOn, Abort, storeVars,
             SetBranchCommit
  <2>3. DOMAIN wips' \subseteq DOMAIN wips
      BY <1>1, <1>3
         DEF Step, CheckOutBranch, CheckOutWip, ReadWip, GetWip, MissWip, DeleteWip, PatchWip,
             UpdateWip, SetWip, PutObject, UploadObject, WriteObject, RemoveObject,
             DeleteObject, DeleteObjectFails, SaveWipTree, RevertWip, RevertAll, RevertPaths,
             RevertTo, RevertCommit, CommitWip, CommitChanges, CommitOn, Abort, storeVars,
             SetWipTree, SetWipBase, DropRows
  <2> QED BY <2>1, <2>2, <2>3
<1> QED
    BY <1>2, <1>3

\* Only CommitChanges stores a commit.
LEMMA CommitsElse == Next => UNCHANGED commits \/ \E h \in Handlers : CommitChanges(h)
<1> SUFFICES ASSUME NEW h \in Handlers, ~CommitChanges(h),
                    \/ \E u \in Users, op \in Ops, b \in BranchIds : CheckOutBranch(h, u, op, b)
                    \/ Step(h)
             PROVE  UNCHANGED commits
    BY DEF Next
<1> QED
    BY DEF Step, CheckOutBranch, CheckOutWip, ReadWip, GetWip, MissWip, CreateWip, InsertWip,
           DeleteWip, PatchWip, UpdateWip, SetWip, PutObject, UploadObject, WriteObject,
           RemoveObject, DeleteObject, DeleteObjectFails, SaveWipTree, RevertWip, RevertAll,
           RevertPaths, RevertTo, RevertCommit, CommitWip, Abort, storeVars

\* A stored commit stays as it is: a commit hash always names the same commit.
LEMMA CommitsStep ==
    [Next]_vars => /\ DOMAIN commits \subseteq DOMAIN commits'
                   /\ \A c \in DOMAIN commits : commits'[c] = commits[c]
<1> SUFFICES ASSUME Next
             PROVE  /\ DOMAIN commits \subseteq DOMAIN commits'
                    /\ \A c \in DOMAIN commits : commits'[c] = commits[c]
    BY DEF vars, storeVars
<1>1. ASSUME NEW h \in Handlers, CommitChanges(h)
      PROVE  DOMAIN commits \subseteq DOMAIN commits' /\ \A c \in DOMAIN commits : commits'[c] = commits[c]
    BY <1>1, NewCommitFresh DEF CommitChanges, CommitOn, AddRow
<1> QED
    BY <1>1, CommitsElse

\* Type correctness of the wip requests (wip_ctl.go, object_ctl.go).
THEOREM TypeCorrect == Spec => []TypeOK
<1>1. Init => TypeOK
    BY InitInv, ConstantsAssumption DEF Init, StoreInit, IInv, TypeOK
<1>2. TypeOK /\ IInv' /\ [Next]_vars => TypeOK'
    BY IdsStep DEF TypeOK, IInv
<1> QED
    BY Invariance, <1>1, <1>2, PTL DEF Spec

\* Whatever requests interleave, fail or repeat, no branch, wip or commit ever
\* names a commit that is not stored (commitChangeRoot, CommitChanges).
THEOREM RefsStay == Spec => []RefIntegrity
<1>1. IInv => RefIntegrity
    BY DEF IInv
<1> QED
    BY Invariance, <1>1, PTL

\* Without RevertWip, every tree a commit or a wip names can be opened in every
\* reachable state: nodes are stored before the row that names them
\* (UploadObject, DeleteObject, CommitChanges).
THEOREM TreesStay == ASSUME "RevertWip" \notin Ops PROVE Spec => []TreesResolve
<1>1. IInv /\ TreeInv /\ [Next]_vars => TreeInv'
    BY NextTrees
<1>2. TreeInv => TreesResolve
    BY DEF TreeInv
<1> QED
    BY InitTrees, Invariance, <1>1, <1>2, PTL DEF Spec

----------------------------------------------------------------------------
(* Ref requests (Server).  The invariant: that of the wip requests, and    *)
(* what the ref requests in flight have read.                              *)

\* What a ref request has read stays good: the commit it resolved is stored, and
\* the name it will write is of the right kind.
RefReadSound(q) ==
    /\ Known(q.target)
    /\ q.op = "CreateTag" => q.target \in DOMAIN commits
    /\ q.op = "CreateTag" /\ q.pc = "checked" => q.name \in TagNames
    /\ q.op \in {"CreateBranch", "SetHead"} => q.name \in Names

TagsResolve == \A t \in DOMAIN tags : tags[t].target \in DOMAIN commits

ServerInv ==
    /\ IInv /\ RefTypeOK /\ TagsResolve
    /\ \A k \in RefHandlers : RefReadSound(rreq[k])

\* A ref handler that serves no request.
LEMMA RefIdleType == RefIdle \in RefRequest /\ RefReadSound(RefIdle)
BY ConstantsAssumption DEF RefIdle, RefRequest, RefReadSound, Known

\* A ref handler's record becomes q; commits stay.
LEMMA RefRequestStep ==
    ASSUME ServerInv, NEW k \in RefHandlers, NEW q \in RefRequest, RefReadSound(q),
           rreq' = [rreq EXCEPT ![k] = q], UNCHANGED commits
    PROVE  rreq' \in [RefHandlers -> RefRequest] /\ \A i \in RefHandlers : RefReadSound(rreq[i])'
BY DEF ServerInv, RefTypeOK, RefReadSound, Known

\* The end of a ref request.
LEMMA RefFinishStep ==
    ASSUME ServerInv, NEW k \in RefHandlers, RefFinish(k), UNCHANGED commits
    PROVE  rreq' \in [RefHandlers -> RefRequest] /\ \A i \in RefHandlers : RefReadSound(rreq[i])'
BY RefIdleType, RefRequestStep DEF RefFinish

\* Only the requests changed.
LEMMA RefSameRows ==
    ASSUME ServerInv, UNCHANGED <<storeVars, tags, wreq, edits>>,
           rreq' \in [RefHandlers -> RefRequest], \A i \in RefHandlers : RefReadSound(rreq[i])'
    PROVE  ServerInv'
<1>1. IInv'
    BY SameStore DEF ServerInv, IInv, RowsOK, ReadSound, Known, storeVars
<1> QED
    BY <1>1 DEF ServerInv, RefTypeOK, TagsResolve, storeVars

\* Branches, wips or HEAD changed, and what they name is known.
LEMMA RefNewRows ==
    ASSUME ServerInv, UNCHANGED <<commits, trees, wreq, edits>>, head' \in Names,
           IsTable(branches', BranchIds, BranchRow), IsTable(wips', WipIds, WipRow),
           \A b \in DOMAIN branches' : Known(branches'[b].commit),
           \A w \in DOMAIN wips' : Known(wips'[w].base)
    PROVE  IInv'
BY DEF ServerInv, IInv, RowsOK, StoreTypeOK, RefIntegrity, ReadSound, Known, Parents

\* What the steps of the ref requests have in common.
LEMMA RowsKnown ==
    ASSUME ServerInv
    PROVE  /\ head \in Names
           /\ IsTable(branches, BranchIds, BranchRow) /\ IsTable(wips, WipIds, WipRow)
           /\ IsTable(tags, TagIds, TagRow)
           /\ \A b \in DOMAIN branches :
                 b \in BranchIds /\ branches[b] \in BranchRow /\ Known(branches[b].commit)
           /\ \A w \in DOMAIN wips : Known(wips[w].base)
           /\ \A t \in DOMAIN tags : t \in TagIds /\ tags[t] \in TagRow /\ tags[t].target \in DOMAIN commits
           /\ \A k \in RefHandlers : rreq[k] \in RefRequest /\ RefReadSound(rreq[k])
BY DEF ServerInv, IInv, RowsOK, StoreTypeOK, RefIntegrity, RefTypeOK, TagsResolve, IsTable

----------------------------------------------------------------------------
(* One lemma per kind of step.                                             *)

\* A request begins with what it read.
LEMMA RefStartStep ==
    ASSUME ServerInv, NEW k \in RefHandlers, NEW op, NEW pc \in {"read", "checked"},
           NEW n \in Names \cup TagNames, NEW i \in BranchIds \cup TagIds \cup {NoId},
           NEW c \in CommitIds \cup {NoCommit}, Known(c),
           RefStart(k, op, pc, n, i, c), UNCHANGED <<wreq, edits>>,
           op = "CreateTag" => c \in DOMAIN commits /\ pc = "read",
           op \in {"CreateBranch", "SetHead"} => n \in Names
    PROVE  ServerInv'
<1> DEFINE q == [op |-> op, pc |-> pc, name |-> n, row |-> i, target |-> c]
<1>1. q \in RefRequest
    BY RefAssumption DEF RefStart, RefRequest
<1>2. RefReadSound(q)
    BY DEF RefReadSound
<1>3. rreq' = [rreq EXCEPT ![k] = q] /\ UNCHANGED <<storeVars, tags>>
    BY DEF RefStart
<1> HIDE DEF q
<1> QED
    BY <1>1, <1>2, <1>3, RefRequestStep, RefSameRows DEF storeVars

\* The reads a ref request starts with: each finds its row.
LEMMA RefBeginStep ==
    ASSUME ServerInv, NEW k \in RefHandlers, RefBegin(k), UNCHANGED <<wreq, edits>>
    PROVE  ServerInv'
<1>1. MainName \in Names /\ NoCommit \in CommitIds \cup {NoCommit} /\ Known(NoCommit)
    BY ConstantsAssumption DEF Known
<1>2. ASSUME NEW b \in BranchIds, ReadSource(k, b) PROVE ServerInv'
    BY <1>1, <1>2, RowsKnown, RefStartStep DEF ReadSource, BranchRow
<1>3. ASSUME NEW n \in Names, NameDoomed(k, n) PROVE ServerInv'
    BY <1>1, <1>3, RefStartStep DEF NameDoomed
<1>4. ASSUME NEW b \in BranchIds, CheckHead(k, b) PROVE ServerInv'
    BY <1>1, <1>4, RowsKnown, RefStartStep DEF CheckHead, BranchRow
<1>5. ASSUME NEW c \in CommitIds, ReadTarget(k, c) PROVE ServerInv'
    BY <1>1, <1>5, RefStartStep DEF ReadTarget, Known
<1>6. ASSUME NEW t \in TagIds, CheckOutTag(k, t) PROVE ServerInv'
    BY <1>1, <1>6, RowsKnown, RefStartStep DEF CheckOutTag, TagRow
<1> QED
    BY <1>2, <1>3, <1>4, <1>5, <1>6 DEF RefBegin

\* The name was found to be free.
LEMMA CheckNameStep ==
    ASSUME ServerInv, NEW k \in RefHandlers, UNCHANGED <<wreq, edits>>,
           \/ \E n \in Names : CheckBranchName(k, n)
           \/ \E n \in TagNames : CheckTagName(k, n)
    PROVE  ServerInv'
<1> PICK n \in Names \cup TagNames :
        \/ n \in Names /\ CheckBranchName(k, n)
        \/ n \in TagNames /\ CheckTagName(k, n)
    OBVIOUS
<1> DEFINE q == [rreq[k] EXCEPT !.pc = "checked", !.name = n]
<1>1. rreq[k] \in RefRequest /\ RefReadSound(rreq[k])
    BY RowsKnown
<1>2. q \in RefRequest /\ RefReadSound(q)
    BY <1>1 DEF RefRequest, RefReadSound, CheckBranchName, CheckTagName, RefAt
<1>3. rreq' = [rreq EXCEPT ![k] = q] /\ UNCHANGED <<storeVars, tags>>
    BY DEF CheckBranchName, CheckTagName
<1> HIDE DEF q
<1> QED
    BY <1>2, <1>3, RefRequestStep, RefSameRows DEF storeVars

\* DeleteBranch checks the branch out that it found by name.
LEMMA CheckOutDoomedStep ==
    ASSUME ServerInv, NEW k \in RefHandlers, UNCHANGED <<wreq, edits>>, NEW b \in BranchIds,
           CheckOutDoomed(k, b)
    PROVE  ServerInv'
<1> DEFINE q == [rreq[k] EXCEPT !.pc = "checked", !.row = b]
<1>1. rreq[k] \in RefRequest /\ RefReadSound(rreq[k])
    BY RowsKnown
<1>2. q \in RefRequest /\ RefReadSound(q)
    BY <1>1 DEF RefRequest, RefReadSound, CheckOutDoomed, RefAt
<1>3. rreq' = [rreq EXCEPT ![k] = q] /\ UNCHANGED <<storeVars, tags>>
    BY DEF CheckOutDoomed
<1> HIDE DEF q
<1> QED
    BY <1>2, <1>3, RefRequestStep, RefSameRows DEF storeVars

\* The new branch stands at the commit its source had when it was read.
LEMMA InsertBranchStep ==
    ASSUME ServerInv, NEW k \in RefHandlers, InsertBranch(k), UNCHANGED <<wreq, edits>>
    PROVE  ServerInv'
<1> DEFINE b   == NewId(BranchIds)
           row == [name |-> rreq[k].name, commit |-> rreq[k].target]
<1>1. b \in BranchIds
    BY NewIdFresh DEF InsertBranch
<1>2. row \in BranchRow /\ Known(row.commit)
    BY RowsKnown DEF InsertBranch, RefAt, RefRequest, RefReadSound, BranchRow
<1>3. branches' = AddRow(branches, b, row) /\ RefFinish(k) /\ UNCHANGED <<head, commits, trees, wips, tags>>
    BY DEF InsertBranch
<1> HIDE DEF b, row
<1>4. IsTable(branches', BranchIds, BranchRow)
    BY <1>1, <1>2, <1>3, RowsKnown, AddRowTable
<1>5. \A d \in DOMAIN branches' : Known(branches'[d].commit)
    BY <1>2, <1>3, RowsKnown DEF AddRow
<1>6. IInv'
    BY <1>3, <1>4, <1>5, RowsKnown, RefNewRows
<1> QED
    BY <1>3, <1>6, RefFinishStep DEF ServerInv, RefTypeOK, TagsResolve

\* Rows of branches and wips go.
LEMMA DeleteBranchStep ==
    ASSUME ServerInv, NEW k \in RefHandlers, DeleteBranch(k), UNCHANGED <<wreq, edits>>
    PROVE  ServerInv'
<1>1. PICK B, W : branches' = DropRows(branches, B) /\ wips' = DropRows(wips, W)
    BY DEF DeleteBranch, DropBranch
<1>2. RefFinish(k) /\ UNCHANGED <<head, commits, trees, tags>>
    BY DEF DeleteBranch, DropBranch
<1>3. IsTable(branches', BranchIds, BranchRow) /\ IsTable(wips', WipIds, WipRow)
    BY <1>1, RowsKnown, DropRowsTable
<1>4. /\ \A b \in DOMAIN branches' : Known(branches'[b].commit)
      /\ \A w \in DOMAIN wips' : Known(wips'[w].base)
    BY <1>1, RowsKnown DEF DropRows
<1>5. IInv'
    BY <1>2, <1>3, <1>4, RowsKnown, RefNewRows
<1> QED
    BY <1>2, <1>5, RefFinishStep DEF ServerInv, RefTypeOK, TagsResolve

\* A tag is inserted at the commit that was resolved, or one is deleted.
LEMMA TagStep ==
    ASSUME ServerInv, NEW k \in RefHandlers, InsertTag(k) \/ DeleteTag(k), UNCHANGED <<wreq, edits>>
    PROVE  ServerInv'
<1>1. IInv'
    BY RowsKnown, RefNewRows DEF InsertTag, DeleteTag, DropTags, storeVars
<1>2. IsTable(tags', TagIds, TagRow) /\ TagsResolve'
  <2>1. CASE InsertTag(k)
    <3> DEFINE t   == NewId(TagIds)
               row == [name |-> rreq[k].name, target |-> rreq[k].target]
    <3>1. rreq[k] \in RefRequest /\ rreq[k].name \in TagNames /\ rreq[k].target \in DOMAIN commits
        BY <2>1, RowsKnown DEF InsertTag, RefAt, RefReadSound
    <3>2. t \in TagIds
        BY <2>1, NewIdFresh DEF InsertTag
    <3>3. row \in TagRow /\ row.target \in DOMAIN commits
        BY <3>1 DEF TagRow, ServerInv, IInv, RowsOK, StoreTypeOK, IsTable
    <3>4. tags' = AddRow(tags, t, row) /\ UNCHANGED commits
        BY <2>1 DEF InsertTag
    <3> HIDE DEF t, row
    <3> QED
        BY <3>2, <3>3, <3>4, RowsKnown, AddRowTable DEF TagsResolve, AddRow
  <2>2. CASE DeleteTag(k)
    <3>1. tags' = DropRows(tags, {rreq[k].row}) /\ UNCHANGED commits
        BY <2>2 DEF DeleteTag, DropTags, storeVars
    <3> QED
        BY <3>1, RowsKnown, DropRowsTable DEF TagsResolve, DropRows
  <2> QED
      BY <2>1, <2>2
<1>3. rreq' \in [RefHandlers -> RefRequest] /\ \A i \in RefHandlers : RefReadSound(rreq[i])'
    BY RefFinishStep DEF InsertTag, DeleteTag, DropTags, storeVars
<1> QED
    BY <1>1, <1>2, <1>3 DEF ServerInv, RefTypeOK

\* HEAD becomes the name that was looked up.
LEMMA SetHeadStep ==
    ASSUME ServerInv, NEW k \in RefHandlers, SetHead(k), UNCHANGED <<wreq, edits>>
    PROVE  ServerInv'
<1>1. head' \in Names
    BY RowsKnown DEF SetHead, RefAt, RefReadSound
<1>2. IInv'
    BY <1>1, RowsKnown, RefNewRows DEF SetHead
<1> QED
    BY <1>2, RefFinishStep DEF SetHead, ServerInv, RefTypeOK, TagsResolve

\* Every step of a ref request keeps the invariant.
LEMMA RefsStepInv == ServerInv /\ RefsStep => ServerInv'
<1> SUFFICES ASSUME ServerInv, RefsStep PROVE ServerInv'
    OBVIOUS
<1>1. PICK k \in RefHandlers : RefBegin(k) \/ RefStep(k)
    BY DEF RefsStep, RefNext
<1>2. UNCHANGED <<wreq, edits>>
    BY DEF RefsStep
<1>3. CASE RefAbort(k)
    BY <1>2, <1>3, RefFinishStep, RefSameRows DEF RefAbort, storeVars
<1> QED
    BY <1>1, <1>2, <1>3, RefBeginStep, CheckOutDoomedStep, CheckNameStep, InsertBranchStep,
       DeleteBranchStep, TagStep, SetHeadStep DEF RefStep

\* A step of the wip requests: what is new to the proof is that the commits tags
\* and ref requests name are still there.
LEMMA WorkStepInv == ServerInv /\ [Next]_vars /\ UNCHANGED refVars => ServerInv'
<1> SUFFICES ASSUME ServerInv, [Next]_vars, UNCHANGED refVars PROVE ServerInv'
    OBVIOUS
<1>1. IInv'
    BY NextInv DEF ServerInv
<1>2. DOMAIN commits \subseteq DOMAIN commits'
    BY CommitsStep
<1>3. \A k \in RefHandlers : RefReadSound(rreq[k])'
    BY <1>2, RowsKnown DEF RefReadSound, Known, refVars
<1> QED
    BY <1>1, <1>2, <1>3 DEF ServerInv, RefTypeOK, TagsResolve, refVars

\* A new repository has no tag, and its branch no commit.
LEMMA ServerInitInv == ServerInit => ServerInv
<1> SUFFICES ASSUME ServerInit PROVE ServerInv
    OBVIOUS
<1>1. IInv
    BY InitInv DEF ServerInit
<1>2. \A k \in RefHandlers : rreq[k] = RefIdle
    BY DEF ServerInit, RefInit
<1>3. RefTypeOK
    BY RefIdleType DEF ServerInit, RefInit, RefTypeOK, IsTable
<1> QED
    BY <1>1, <1>2, <1>3, RefIdleType DEF ServerInv, TagsResolve, ServerInit, RefInit

\* Every step of a ref or wip request keeps the invariant.
LEMMA ServerNextInv == ServerInv /\ [ServerNext]_serverVars => ServerInv'
<1> SUFFICES ASSUME ServerInv, [ServerNext]_serverVars PROVE ServerInv'
    OBVIOUS
<1>1. CASE WorkStep \/ UNCHANGED serverVars
    BY <1>1, WorkStepInv DEF WorkStep, serverVars, vars
<1> QED
    BY <1>1, RefsStepInv DEF ServerNext

\* What a step of a ref request does to the rows that wip requests use: it draws
\* ids for branches and tags, and deletes wips.
LEMMA RefRowsStep ==
    RefNext => /\ spent \subseteq spent' /\ spent' \subseteq spent \cup BranchIds \cup TagIds
               /\ DOMAIN branches' \subseteq DOMAIN branches \cup (spent' \ spent)
               /\ DOMAIN wips' \subseteq DOMAIN wips
               /\ \A w \in DOMAIN wips' : wips'[w] = wips[w]
               /\ UNCHANGED <<commits, trees>>
<1> DEFINE Rows == /\ spent \subseteq spent' /\ spent' \subseteq spent \cup BranchIds \cup TagIds
                   /\ DOMAIN branches' \subseteq DOMAIN branches \cup (spent' \ spent)
                   /\ DOMAIN wips' \subseteq DOMAIN wips
                   /\ \A w \in DOMAIN wips' : wips'[w] = wips[w]
                   /\ UNCHANGED <<commits, trees>>
<1> SUFFICES ASSUME NEW k \in RefHandlers, RefBegin(k) \/ RefStep(k)
             PROVE  Rows
    BY DEF RefNext
<1>1. CASE InsertBranch(k)
    BY <1>1, NewIdFresh DEF InsertBranch, AddRow
<1>2. CASE InsertTag(k)
    BY <1>2, NewIdFresh DEF InsertTag
<1>3. CASE DeleteBranch(k)
    BY <1>3 DEF DeleteBranch, DropBranch, DropRows
<1>4. CASE ~InsertBranch(k) /\ ~InsertTag(k) /\ ~DeleteBranch(k)
  <2>1. UNCHANGED <<spent, branches, wips, commits, trees>>
      BY <1>4 DEF RefBegin, ReadSource, NameDoomed, CheckOutDoomed, CheckHead, ReadTarget,
                  CheckOutTag, RefStart, RefStep, CheckBranchName, CheckTagName, DeleteTag,
                  DropTags, SetHead, RefAbort, storeVars
  <2> QED BY <2>1
<1> QED
    BY <1>1, <1>2, <1>3, <1>4

\* Every id a row has was drawn.
ServerIdsSpent == IdsSpent /\ DOMAIN tags \subseteq spent

\* A tag is inserted under a new id, and one that goes is the one a request was
\* shown.
LEMMA TagSteps ==
    ASSUME DOMAIN tags \subseteq spent, [ServerNext]_serverVars
    PROVE  /\ DOMAIN tags' \subseteq DOMAIN tags \cup (spent' \ spent)
           /\ \A t \in DOMAIN tags :
                 \/ t \in DOMAIN tags' /\ tags'[t] = tags[t]
                 \/ \E k \in RefHandlers : rreq[k].op = "DeleteTag" /\ rreq[k].row = t
<1>1. CASE UNCHANGED tags
    BY <1>1
<1>2. CASE ~UNCHANGED tags
  <2>1. PICK k \in RefHandlers : RefBegin(k) \/ RefStep(k)
      BY <1>2 DEF ServerNext, WorkStep, RefsStep, RefNext, serverVars, refVars
  <2>2. CASE InsertTag(k)
      BY <2>2, NewIdFresh DEF InsertTag, AddRow
  <2>3. CASE DeleteTag(k)
      BY <2>3 DEF DeleteTag, DropTags, RefAt, DropRows
  <2>4. CASE ~InsertTag(k) /\ ~DeleteTag(k)
      BY <1>2, <2>1, <2>4
         DEF RefBegin, ReadSource, NameDoomed, CheckOutDoomed, CheckHead, ReadTarget,
             CheckOutTag, RefStart, RefStep, CheckBranchName, CheckTagName, InsertBranch,
             DeleteBranch, DropBranch, SetHead, RefAbort
  <2> QED
      BY <2>2, <2>3, <2>4
<1> QED
    BY <1>1, <1>2

\* The ids of branches, wips and tags in use are spent, so none is given out twice.
LEMMA ServerIdsStep == ServerIdsSpent /\ [ServerNext]_serverVars => ServerIdsSpent'
<1> SUFFICES ASSUME ServerIdsSpent, [ServerNext]_serverVars PROVE ServerIdsSpent'
    OBVIOUS
<1>1. spent \subseteq spent' /\ DOMAIN branches' \cup DOMAIN wips' \subseteq DOMAIN branches \cup DOMAIN wips \cup spent'
    BY IdsStep, RefRowsStep DEF ServerNext, WorkStep, RefsStep, serverVars, vars, storeVars
<1> QED
    BY <1>1, TagSteps DEF ServerIdsSpent, IdsSpent

SpentOK == spent \subseteq BranchIds \cup WipIds \cup TagIds

\* Spent ids are ids of branches, wips or tags.
LEMMA ServerSpentStep == SpentOK /\ [ServerNext]_serverVars => SpentOK'
BY IdsStep, RefRowsStep DEF SpentOK, ServerNext, WorkStep, RefsStep, serverVars, vars,
    storeVars

\* Commits stay what they are, whatever the request.
LEMMA ServerCommitsStep ==
    [ServerNext]_serverVars => /\ DOMAIN commits \subseteq DOMAIN commits'
                               /\ \A c \in DOMAIN commits : commits'[c] = commits[c]
BY CommitsStep, RefRowsStep DEF ServerNext, WorkStep, RefsStep, serverVars, vars, storeVars

\* Ref requests neither store trees nor name any.
LEMMA ServerTrees ==
    ASSUME IInv, TreeInv, "RevertWip" \notin Ops, [ServerNext]_serverVars PROVE TreeInv'
<1>1. CASE WorkStep \/ UNCHANGED serverVars
    BY <1>1, NextTrees DEF WorkStep, serverVars
<1>2. CASE RefsStep
    BY <1>2, RefRowsStep DEF RefsStep, TreeInv, TreesResolve, HoldsStored, Stored
<1> QED
    BY <1>1, <1>2 DEF ServerNext

----------------------------------------------------------------------------

\* The invariant of ref and wip requests together, in any interleaving.
THEOREM ServerInvariance == ServerSpec => []ServerInv
BY ServerInitInv, ServerNextInv, PTL DEF ServerSpec

\* Type correctness of the ref and wip requests together (branch_ctl.go,
\* tag_ctl.go, repository_ctl.go, wip_ctl.go, object_ctl.go).
THEOREM ServerTypeCorrect == ServerSpec => []ServerTypeOK
<1>1. ServerInit => SpentOK
    BY ConstantsAssumption DEF ServerInit, Init, StoreInit, SpentOK
<1>2. ServerInv /\ SpentOK => ServerTypeOK
    BY DEF ServerInv, IInv, SpentOK, ServerTypeOK
<1> QED
    BY ServerInvariance, ServerSpentStep, <1>1, <1>2, PTL DEF ServerSpec

\* Whatever ref and wip requests interleave, every branch, tag, wip and parent
\* link names a stored commit (CreateBranch, CreateTag, CommitChanges).
THEOREM ServerRefsResolve == ServerSpec => []RefsResolve
<1>1. ServerInv => RefsResolve
    BY DEF ServerInv, IInv, RefsResolve, TagsResolve
<1> QED
    BY ServerInvariance, <1>1, PTL

\* A tag keeps its commit until a request that was shown this very tag deletes
\* it, whatever was created and deleted under its name meanwhile (DeleteTag).
THEOREM TagsStay == ServerSpec => TagsDeletedKnowingly
<1> DEFINE Kept(t) == \/ t \in DOMAIN tags' /\ tags'[t] = tags[t]
                      \/ \E k \in RefHandlers : rreq[k].op = "DeleteTag" /\ rreq[k].row = t
<1>1. ServerIdsSpent /\ [ServerNext]_serverVars => \A t \in DOMAIN tags : Kept(t)
    BY TagSteps DEF ServerIdsSpent
<1>2. ServerInit => ServerIdsSpent
    BY DEF ServerInit, Init, StoreInit, RefInit, ServerIdsSpent, IdsSpent
<1> QED
    BY <1>1, <1>2, ServerIdsStep, PTL DEF ServerSpec, TagsDeletedKnowingly

\* Without RevertWip, every tree a commit or a wip names can be opened, whatever
\* ref requests and wip requests interleave (UploadObject, DeleteBranch).
THEOREM ServerTreesStay == ASSUME "RevertWip" \notin Ops PROVE ServerSpec => []TreesResolve
<1>1. ServerInit => TreeInv
    BY InitTrees DEF ServerInit
<1>2. ServerInv /\ TreeInv /\ [ServerNext]_serverVars => TreeInv'
    BY ServerTrees DEF ServerInv
<1>3. TreeInv => TreesResolve
    BY DEF TreeInv
<1> QED
    BY ServerInvariance, <1>1, <1>2, <1>3, PTL DEF ServerSpec

----------------------------------------------------------------------------
(* The history of a commit.                                                *)

\* A commit is in its own history.
LEMMA HistorySelf == ASSUME NEW cs, NEW c \in CommitIds PROVE c \in History(cs, c)
BY ConstantsAssumption DEF History

\* What is in the history of a commit that is in a history is in that history.
LEMMA HistoryDeep ==
    ASSUME NEW cs, NEW c \in CommitIds, NEW d \in History(cs, c)
    PROVE  History(cs, d) \subseteq History(cs, c)
BY ConstantsAssumption DEF History

\* More commits leave more history.
LEMMA HistoryGrows ==
    ASSUME NEW cs, NEW ds, DOMAIN cs \subseteq DOMAIN ds, \A c \in DOMAIN cs : ds[c] = cs[c], NEW c
    PROVE  History(cs, c) \subseteq History(ds, c)
<1>1. \A S : Closed(ds, S) => Closed(cs, S)
    BY DEF Closed, Parents
<1> QED
    BY <1>1 DEF History

\* A commit's parents are in its history.
LEMMA HistoryParent ==
    ASSUME NEW cs, NEW c \in DOMAIN cs \cap CommitIds, NEW p \in Parents(cs, c) \cap CommitIds
    PROVE  p \in History(cs, c)
BY ConstantsAssumption DEF History, Closed

\* Commits whose parents are all stored.
Rooted(cs) == DOMAIN cs \subseteq CommitIds /\ \A c \in DOMAIN cs : Parents(cs, c) \subseteq DOMAIN cs

\* A history holds the parents of the commits in it.
LEMMA HistoryClosed == ASSUME NEW cs, Rooted(cs), NEW c PROVE Closed(cs, History(cs, c))
BY DEF Rooted, History, Closed

\* A commit's history is the commit and the histories of its parents.
LEMMA HistoryParts ==
    ASSUME NEW cs, Rooted(cs), NEW c \in DOMAIN cs, NEW d \in History(cs, c), d # c
    PROVE  \E p \in Parents(cs, c) : d \in History(cs, p)
<1> DEFINE S == {c} \cup UNION {History(cs, p) : p \in Parents(cs, c)}
<1>1. Parents(cs, c) \subseteq S
    BY HistorySelf DEF Rooted
<1>2. \A p \in Parents(cs, c) : \A e \in History(cs, p) \cap DOMAIN cs : Parents(cs, e) \subseteq S
    BY HistoryClosed DEF Closed
<1>3. Closed(cs, S)
    BY <1>1, <1>2 DEF Closed
<1>4. S \subseteq CommitIds /\ c \in CommitIds
    BY DEF History, Rooted
<1>5. d \in S
    BY <1>3, <1>4, ConstantsAssumption DEF History
<1> QED
    BY <1>5

\* New commits are in no stored commit's history.
LEMMA HistoryStays ==
    ASSUME NEW cs, Rooted(cs), NEW ds, DOMAIN cs \subseteq DOMAIN ds,
           \A c \in DOMAIN cs : ds[c] = cs[c], NEW c \in DOMAIN cs
    PROVE  History(ds, c) = History(cs, c) /\ History(cs, c) \subseteq DOMAIN cs
<1>0. c \in CommitIds /\ c # NoCommit
    BY ConstantsAssumption DEF Rooted
<1>1. \A e \in DOMAIN cs : Parents(ds, e) = Parents(cs, e)
    BY DEF Parents
<1>2. ASSUME NEW S \in SUBSET CommitIds, c \in S, Closed(cs, S)
      PROVE  c \in S \cap DOMAIN cs /\ Closed(ds, S \cap DOMAIN cs)
    BY <1>1, <1>2 DEF Closed, Rooted
<1>3. History(ds, c) \subseteq History(cs, c)
    BY <1>0, <1>2 DEF History
<1>4. DOMAIN cs \in SUBSET CommitIds /\ Closed(cs, DOMAIN cs)
    BY DEF Rooted, Closed
<1>5. History(cs, c) \subseteq DOMAIN cs
    BY <1>0, <1>4 DEF History
<1>6. History(cs, c) \subseteq History(ds, c)
    BY HistoryGrows
<1> QED
    BY <1>3, <1>5, <1>6

----------------------------------------------------------------------------
(* Merges.  The invariant: that of Server, and what the merges in flight   *)
(* have read.                                                              *)

MergeReadSound(q) ==
    /\ Known(q.s) /\ Known(q.t)
    /\ q.pc \in {"find", "open", "insert"} => q.source \in BranchIds
    /\ q.pc \in {"open", "insert"} => q.target \in BranchIds

MergeTypeOK ==
    /\ IsTable(mrs, Numbers, MrRow)
    /\ mreq \in [MergeHandlers -> MergeCall]
    /\ took \in [Numbers -> CommitIds \cup {NoCommit}]

MergeInv == ServerInv /\ MergeTypeOK /\ \A k \in MergeHandlers : MergeReadSound(mreq[k])

\* A merge handler that serves no request.
LEMMA MergeIdleType == MergeIdle \in MergeCall /\ MergeReadSound(MergeIdle)
BY MergeAssumption, ConstantsAssumption DEF MergeIdle, MergeCall, MergeReadSound, Known

\* A merge handler's record becomes q; commits stay or grow.
LEMMA MergeRequestStep ==
    ASSUME MergeInv, NEW k \in MergeHandlers, NEW q \in MergeCall, MergeReadSound(q),
           mreq' = [mreq EXCEPT ![k] = q], DOMAIN commits \subseteq DOMAIN commits'
    PROVE  mreq' \in [MergeHandlers -> MergeCall] /\ \A i \in MergeHandlers : MergeReadSound(mreq[i])'
BY DEF MergeInv, MergeTypeOK, MergeReadSound, Known

\* Nothing but merge requests changed.
LEMMA SameServer ==
    ASSUME ServerInv, UNCHANGED serverVars
    PROVE  ServerInv'
BY WorkStepInv DEF serverVars

\* A step that only reads.
LEMMA AdvanceStep ==
    ASSUME MergeInv, NEW k \in MergeHandlers, NEW q \in MergeCall, MergeReadSound(q), Advance(k, q)
    PROVE  MergeInv'
<1>1. DOMAIN commits \subseteq DOMAIN commits' /\ mreq' = [mreq EXCEPT ![k] = q]
    BY DEF Advance, serverVars, vars, storeVars
<1>2. mreq' \in [MergeHandlers -> MergeCall] /\ \A i \in MergeHandlers : MergeReadSound(mreq[i])'
    BY <1>1, MergeRequestStep
<1>3. ServerInv'
    BY SameServer DEF MergeInv, Advance
<1> QED
    BY <1>2, <1>3 DEF MergeInv, MergeTypeOK, Advance

\* The branches of the store are rows.
LEMMA BranchRows ==
    ASSUME MergeInv
    PROVE  \A b \in DOMAIN branches :
              /\ b \in BranchIds /\ branches[b].name \in Names
              /\ branches[b].commit \in CommitIds \cup {NoCommit} /\ Known(branches[b].commit)
BY RowsKnown DEF MergeInv, BranchRow

----------------------------------------------------------------------------
(* One lemma per kind of step.                                             *)

\* CreateMergeRequest reads its source branch by name and writes nothing.
LEMMA FindSourceStep ==
    ASSUME MergeInv, NEW k \in MergeHandlers, NEW b \in BranchIds, FindSource(k, b)
    PROVE  MergeInv'
<1> DEFINE n == branches[b].name
           q == [MergeIdle EXCEPT !.pc = "find", !.source = b, !.name = n]
<1>1. n \in Names
    BY BranchRows DEF FindSource
<1>2. Advance(k, q)
    BY DEF FindSource
<1> HIDE DEF n
<1>3. q \in MergeCall /\ MergeReadSound(q)
    BY <1>1, MergeIdleType DEF MergeIdle, MergeCall, MergeReadSound, Known
<1> QED
    BY <1>2, <1>3, AdvanceStep

\* It reads its target branch by another name.
LEMMA FindTargetStep ==
    ASSUME MergeInv, NEW k \in MergeHandlers, NEW b \in BranchIds, FindTarget(k, b)
    PROVE  MergeInv'
<1> DEFINE q == [mreq[k] EXCEPT !.pc = "open", !.target = b, !.name = MainName]
<1>1. mreq[k] \in MergeCall /\ MergeReadSound(mreq[k])
    BY DEF MergeInv, MergeTypeOK
<1>2. q \in MergeCall /\ MergeReadSound(q)
    BY <1>1, ConstantsAssumption DEF MergeCall, MergeReadSound, FindTarget
<1> QED
    BY <1>2, AdvanceStep DEF FindTarget

\* CreateMergeRequest looks for an open merge request and writes nothing.
LEMMA CheckOpenStep ==
    ASSUME MergeInv, NEW k \in MergeHandlers, CheckOpen(k)
    PROVE  MergeInv'
<1> DEFINE q == [mreq[k] EXCEPT !.pc = "insert"]
<1>1. q \in MergeCall /\ MergeReadSound(q)
    BY DEF MergeInv, MergeTypeOK, MergeCall, MergeReadSound, CheckOpen
<1> QED
    BY <1>1, AdvanceStep DEF CheckOpen

\* CreateMergeRequest inserts a row with the next number.
LEMMA InsertRequestStep ==
    ASSUME MergeInv, NEW k \in MergeHandlers, InsertRequest(k)
    PROVE  MergeInv'
<1> DEFINE n   == Cardinality(DOMAIN mrs) + 1
           row == [source |-> mreq[k].source, target |-> mreq[k].target, state |-> "init"]
<1>1. IsFiniteSet(DOMAIN mrs)
    BY FS_Interval, FS_Subset, MergeAssumption DEF MergeInv, MergeTypeOK, IsTable, Numbers
<1>2. n \in Numbers
    BY <1>1, FS_CardinalityType, MergeAssumption DEF InsertRequest, Numbers
<1>3. row \in MrRow
    BY DEF MergeInv, MergeTypeOK, MergeReadSound, MergeCall, InsertRequest, MrRow, MergeStates
<1>4. mrs' = AddRow(mrs, n, row) /\ MergeDone(k) /\ UNCHANGED <<serverVars, took>>
    BY DEF InsertRequest
<1> HIDE DEF n, row
<1>5. IsTable(mrs', Numbers, MrRow)
    BY <1>2, <1>3, <1>4, AddRowTable DEF MergeInv, MergeTypeOK
<1>6. mreq' \in [MergeHandlers -> MergeCall] /\ \A i \in MergeHandlers : MergeReadSound(mreq[i])'
    BY <1>4, MergeIdleType, MergeRequestStep DEF MergeDone, serverVars, vars, storeVars
<1> QED
    BY <1>4, <1>5, <1>6, SameServer DEF MergeInv, MergeTypeOK

\* A state set by hand or by a merge.
LEMMA SetStateTable ==
    ASSUME IsTable(mrs, Numbers, MrRow), NEW n, NEW state \in MergeStates \cup SetStates
    PROVE  IsTable([mrs EXCEPT ![n].state = state], Numbers, MrRow)
BY DEF IsTable, MrRow

\* UpdateMergeRequest sets the state of a row (merge_request.go, UpdateByID).
LEMMA UpdateRequestStep ==
    ASSUME MergeInv, NEW n, NEW state \in SetStates, UpdateRequest(n, state)
    PROVE  MergeInv'
<1>1. IsTable(mrs', Numbers, MrRow)
    BY SetStateTable DEF UpdateRequest, MergeInv, MergeTypeOK
<1>2. \A i \in MergeHandlers : MergeReadSound(mreq[i])'
    BY DEF UpdateRequest, MergeInv, MergeReadSound, Known, serverVars, vars, storeVars
<1> QED
    BY <1>1, <1>2, SameServer DEF UpdateRequest, MergeInv, MergeTypeOK

\* Merge reads the merge request, its source branch and its target branch, and checks
\* out a branch of the target's name.
LEMMA MergeReadStep ==
    ASSUME MergeInv, NEW k \in MergeHandlers,
           \/ \E n \in Numbers : ReadRequest(k, n)
           \/ \E b \in BranchIds : CheckOutTarget(k, b)
           \/ ReadSourceBranch(k) \/ ReadTargetBranch(k)
    PROVE  MergeInv'
<1>0. mreq[k] \in MergeCall /\ MergeReadSound(mreq[k])
    BY DEF MergeInv, MergeTypeOK
<1>1. ASSUME NEW n \in Numbers, ReadRequest(k, n) PROVE MergeInv'
  <2> DEFINE q == [MergeIdle EXCEPT !.pc = "read", !.number = n, !.source = mrs[n].source,
                                    !.target = mrs[n].target]
  <2>1. mrs[n] \in MrRow
      BY <1>1 DEF ReadRequest, MergeInv, MergeTypeOK, IsTable
  <2>2. {mrs[n].source, mrs[n].target} \subseteq BranchIds /\ n \in 0 .. MaxNumber
      BY <2>1, MergeAssumption DEF MrRow, Numbers
  <2>3. q \in MergeCall
      BY <2>2, MergeIdleType DEF MergeIdle, MergeCall
  <2>4. q.s = NoCommit /\ q.t = NoCommit /\ q.pc = "read"
      BY DEF MergeIdle
  <2>5. MergeReadSound(q)
      BY <2>4 DEF MergeReadSound, Known
  <2> QED
      BY <1>1, <2>3, <2>5, AdvanceStep DEF ReadRequest
<1>2. CASE ReadSourceBranch(k)
  <2> DEFINE q == [mreq[k] EXCEPT !.pc = "source", !.source = NoId,
                                  !.s = branches[mreq[k].source].commit]
  <2>1. q \in MergeCall /\ MergeReadSound(q)
      BY <1>0, <1>2, BranchRows DEF ReadSourceBranch, MergeCall, MergeReadSound
  <2> QED
      BY <1>2, <2>1, AdvanceStep DEF ReadSourceBranch
<1>3. CASE ReadTargetBranch(k)
  <2> DEFINE n == branches[mreq[k].target].name
             q == [mreq[k] EXCEPT !.pc = "target", !.target = NoId, !.name = n]
  <2>1. n \in Names
      BY <1>3, BranchRows DEF ReadTargetBranch
  <2>2. Advance(k, q)
      BY <1>3 DEF ReadTargetBranch
  <2> HIDE DEF n
  <2>3. q \in MergeCall /\ MergeReadSound(q)
      BY <1>0, <2>1 DEF MergeCall, MergeReadSound
  <2> QED
      BY <2>2, <2>3, AdvanceStep
<1>4. ASSUME NEW b \in BranchIds, CheckOutTarget(k, b) PROVE MergeInv'
  <2> DEFINE c == branches[b].commit
             q == [mreq[k] EXCEPT !.pc = "merge", !.target = b, !.name = MainName, !.t = c]
  <2>1. c \in CommitIds \cup {NoCommit} /\ Known(c)
      BY <1>4, BranchRows DEF CheckOutTarget, NamedRows
  <2>2. Advance(k, q)
      BY <1>4 DEF CheckOutTarget
  <2> HIDE DEF c
  <2>3. q \in MergeCall /\ MergeReadSound(q)
      BY <1>0, <2>1, ConstantsAssumption DEF MergeCall, MergeReadSound
  <2> QED
      BY <2>2, <2>3, AdvanceStep
<1> QED
    BY <1>1, <1>2, <1>3, <1>4

\* The transaction of a merge moves the target to a stored commit; it may add
\* commits, whose parents are stored, and trees.
LEMMA MoveTargetStep ==
    ASSUME MergeInv, NEW k \in MergeHandlers, NEW c \in CommitIds, MoveTarget(k, c),
           IsTable(commits', CommitIds, CommitRow), DOMAIN commits \subseteq DOMAIN commits',
           \A d \in DOMAIN commits' : Parents(commits', d) \subseteq DOMAIN commits',
           c \in DOMAIN commits', trees' \subseteq Tree
    PROVE  MergeInv'
<1> DEFINE r == mreq[k]
<1>1. /\ branches' = SetBranchCommit(branches, r.target, c)
      /\ mrs' = [mrs EXCEPT ![r.number].state = "merged"]
      /\ took' = [took EXCEPT ![r.number] = r.s]
      /\ MergeDone(k) /\ UNCHANGED <<head, wips, spent, wreq, edits, refVars>>
    BY DEF MoveTarget
<1>2. IsTable(branches', BranchIds, BranchRow)
    BY <1>1, SetBranchCommitTable DEF MergeInv, ServerInv, IInv, RowsOK, StoreTypeOK
<1>3. \A b \in DOMAIN branches' : Known(branches[b].commit)'
  <2>1. \A b \in DOMAIN branches : branches[b] \in BranchRow /\ Known(branches[b].commit)
      BY RowsKnown DEF MergeInv
  <2> QED
      BY <1>1, <2>1 DEF SetBranchCommit, BranchRow, Known
<1>4. \A w \in DOMAIN wips' : Known(wips[w].base)'
    BY <1>1, RowsKnown DEF MergeInv, Known
<1>5. RowsOK' /\ RefIntegrity'
    BY <1>1, <1>2, <1>3, <1>4 DEF MergeInv, ServerInv, IInv, RowsOK, StoreTypeOK, RefIntegrity
<1>6. \A h \in Handlers : ReadSound(wreq[h])'
    BY <1>1 DEF MergeInv, ServerInv, IInv, ReadSound, Known
<1>7. ServerInv'
  <2>1. RefTypeOK' /\ TagsResolve'
      BY <1>1 DEF MergeInv, ServerInv, RefTypeOK, TagsResolve, refVars
  <2>2. \A i \in RefHandlers : RefReadSound(rreq[i])'
      BY <1>1 DEF MergeInv, ServerInv, RefReadSound, Known, refVars
  <2> QED
      BY <1>5, <1>6, <2>1, <2>2 DEF ServerInv, IInv
<1>8. r.s \in CommitIds \cup {NoCommit}
    BY DEF MergeInv, MergeTypeOK, MergeCall
<1>9. IsTable(mrs', Numbers, MrRow) /\ took' \in [Numbers -> CommitIds \cup {NoCommit}]
    BY <1>1, <1>8, SetStateTable DEF MergeInv, MergeTypeOK, MergeStates
<1>10. mreq' \in [MergeHandlers -> MergeCall] /\ \A i \in MergeHandlers : MergeReadSound(mreq[i])'
    BY <1>1, MergeIdleType, MergeRequestStep DEF MergeDone
<1> QED
    BY <1>7, <1>9, <1>10 DEF MergeInv, MergeTypeOK

\* One of two commits the request read, when it is one of them that is stored.
LEMMA FastForwardStep ==
    ASSUME MergeInv, NEW k \in MergeHandlers, FastForward(k)
    PROVE  MergeInv'
<1>1. PICK c \in Ahead(mreq[k].s, mreq[k].t) : MoveTarget(k, c)
    BY DEF FastForward
<1>2. MergeReadSound(mreq[k])
    BY DEF MergeInv
<1>3. c \in DOMAIN commits /\ c \in CommitIds
    BY <1>2 DEF Ahead, MergeReadSound, Known, MergeInv, ServerInv, IInv, RowsOK, StoreTypeOK,
        IsTable
<1> QED
    BY <1>1, <1>3, MoveTargetStep
       DEF FastForward, MergeInv, ServerInv, IInv, RowsOK, StoreTypeOK, RefIntegrity

\* The hashes of the new commits of a merge are new, and differ.
LEMMA NewCommitsFresh ==
    ASSUME NEW n \in 1 .. Cardinality(CommitIds \ DOMAIN commits)
    PROVE  /\ NewCommits(n) \in [1 .. n -> CommitIds \ DOMAIN commits]
           /\ \A i, j \in 1 .. n : NewCommits(n)[i] = NewCommits(n)[j] => i = j
<1> DEFINE S == CommitIds \ DOMAIN commits
           N == Cardinality(S)
<1>1. IsFiniteSet(S)
    BY MergeAssumption, FS_Subset
<1>2. N \in Nat /\ ExistsBijection(1 .. N, S)
    BY <1>1, FS_CardinalityType
<1>3. PICK f \in [1 .. N -> S] : \A i, j \in 1 .. N : f[i] = f[j] => i = j
    BY <1>2 DEF ExistsBijection, Bijection, Injection, IsInjective
<1> DEFINE g == [i \in 1 .. n |-> f[i]]
<1>4. 1 .. n \subseteq 1 .. N
    BY <1>2
<1>5. g \in [1 .. n -> S] /\ \A i, j \in 1 .. n : g[i] = g[j] => i = j
    BY <1>3, <1>4
<1> HIDE DEF g
<1> QED
    BY <1>5 DEF NewCommits

\* What a merge commit's step does: the pairs ps of stored commits are merged into
\* trees ms, each over the tree of the next or, the last, over that of a, and
\* stored as the commits new.
Made(k, n, ps, ms, new, a) ==
    /\ n \in Nat \ {0} /\ ms \in [1 .. n -> Tree]
    /\ new \in [1 .. n -> CommitIds \ DOMAIN commits]
    /\ \A i, j \in 1 .. n : new[i] = new[j] => i = j
    /\ ps[1] = <<mreq[k].s, mreq[k].t>>
    /\ \A i \in 1 .. n : /\ ps[i] = <<ps[i][1], ps[i][2]>>
                         /\ {ps[i][1], ps[i][2]} \subseteq DOMAIN commits
    /\ ps[1][1] \notin History(commits, ps[1][2]) /\ ps[1][2] \notin History(commits, ps[1][1])
    /\ \A i \in 1 .. n - 1 : /\ {ps[i + 1][1], ps[i + 1][2]} \subseteq BestAncestors(ps[i][1], ps[i][2])
                             /\ ps[i + 1][1] # ps[i + 1][2]
    /\ a \in DOMAIN commits /\ BestAncestors(ps[n][1], ps[n][2]) = {a}
    /\ \A i \in 1 .. n :
          ms[i] \in MergedTrees(IF i = n THEN commits[a].tree ELSE ms[i + 1],
                                commits[ps[i][1]].tree, commits[ps[i][2]].tree)
    /\ DOMAIN commits' = DOMAIN commits \cup {new[i] : i \in 1 .. n}
    /\ \A c \in DOMAIN commits : commits'[c] = commits[c]
    /\ \A i \in 1 .. n : commits'[new[i]] = [tree |-> ms[i], parents |-> ps[i]]
    /\ commits' = [c \in DOMAIN commits' |-> commits'[c]]
    /\ MoveTarget(k, new[1])

\* The step of MergeCommit in these terms.
LEMMA MergeMade ==
    ASSUME MergeInv, NEW k \in MergeHandlers, MergeCommit(k)
    PROVE  \E n, ps, ms, new, a : Made(k, n, ps, ms, new, a)
<1> DEFINE s      == mreq[k].s
           t      == mreq[k].t
           shared == History(commits, s) \cap History(commits, t)
           fresh  == CommitIds \ DOMAIN commits
           row(ps, ms, i) == [tree |-> ms[i], parents |-> IF i = 1 THEN <<s, t>> ELSE ps[i]]
           Merge(n, ps, ms) ==
             /\ AreMerges(ms, ps)
             /\ commits' = [c \in DOMAIN commits \cup {NewCommits(n)[i] : i \in 1 .. n} |->
                               IF c \in DOMAIN commits THEN commits[c]
                               ELSE row(ps, ms, CHOOSE i \in 1 .. n : NewCommits(n)[i] = c)]
             /\ MoveTarget(k, NewCommits(n)[1])
<1>0. \E n \in 1 .. Cardinality(fresh) :
         \E ps \in MergedPairs(n, s, t), ms \in [1 .. n -> Tree] : Merge(n, ps, ms)
    BY DEF MergeCommit, MergeOver
<1> HIDE DEF Merge
<1>a. PICK n \in 1 .. Cardinality(fresh) :
         \E ps \in MergedPairs(n, s, t), ms \in [1 .. n -> Tree] : Merge(n, ps, ms)
    BY <1>0
<1>1. PICK ps \in MergedPairs(n, s, t), ms \in [1 .. n -> Tree] : Merge(n, ps, ms)
    BY <1>a
<1>2. /\ ps \in [1 .. n -> {<<s, t>>} \cup {p \in shared \X shared : p[1] # p[2]}]
      /\ ps[1] = <<s, t>>
      /\ \A i \in 1 .. n - 1 :
            {ps[i + 1][1], ps[i + 1][2]} \subseteq BestAncestors(ps[i][1], ps[i][2])
      /\ \E a \in CommitIds : BestAncestors(ps[n][1], ps[n][2]) = {a}
    BY DEF MergedPairs
<1>3. /\ s \in DOMAIN commits /\ t \in DOMAIN commits /\ DOMAIN commits \subseteq CommitIds
      /\ s # NoCommit /\ t # NoCommit /\ Ahead(s, t) = {} /\ Rooted(commits)
    BY DEF MergeCommit, MergeOver, MergeInv, MergeReadSound, Known, ServerInv, IInv, RowsOK,
           StoreTypeOK, IsTable, Rooted, RefIntegrity
<1>4. \A c \in DOMAIN commits : History(commits, c) \subseteq DOMAIN commits
    BY <1>3, HistoryStays
<1>5. s \notin History(commits, t) /\ t \notin History(commits, s) /\ s # t
    BY <1>3, HistorySelf DEF Ahead
<1>6. IsFiniteSet(fresh) /\ n \in Nat \ {0}
    BY MergeAssumption, FS_Subset, FS_CardinalityType
<1>7. shared \subseteq DOMAIN commits
    BY <1>3, <1>4
<1>8. \A i \in 1 .. n : /\ ps[i] = <<ps[i][1], ps[i][2]>> /\ ps[i][1] # ps[i][2]
                        /\ {ps[i][1], ps[i][2]} \subseteq DOMAIN commits
  <2> HIDE DEF shared, s, t
  <2> SUFFICES ASSUME NEW i \in 1 .. n
               PROVE  /\ ps[i] = <<ps[i][1], ps[i][2]>> /\ ps[i][1] # ps[i][2]
                      /\ {ps[i][1], ps[i][2]} \subseteq DOMAIN commits
      OBVIOUS
  <2>1. ps[i] \in {<<s, t>>} \cup {p \in shared \X shared : p[1] # p[2]}
      BY <1>2
  <2> QED
      BY <1>3, <1>5, <1>7, <2>1
<1>9. PICK a \in CommitIds : BestAncestors(ps[n][1], ps[n][2]) = {a}
    BY <1>2
<1>10. a \in DOMAIN commits /\ a # NoCommit
  <2>1. a \in History(commits, ps[n][1])
      BY <1>9 DEF BestAncestors
  <2>2. ps[n][1] \in DOMAIN commits
      BY <1>6, <1>8
  <2> QED
      BY <1>3, <1>4, <2>1, <2>2, ConstantsAssumption
<1>11. /\ AreMerges(ms, ps) /\ MoveTarget(k, NewCommits(n)[1])
       /\ commits' = [c \in DOMAIN commits \cup {NewCommits(n)[i] : i \in 1 .. n} |->
                         IF c \in DOMAIN commits THEN commits[c]
                         ELSE row(ps, ms, CHOOSE i \in 1 .. n : NewCommits(n)[i] = c)]
    BY <1>1 DEF Merge
<1>12. Len(ps) = n
    BY <1>2, <1>6
<1>13. \A c \in DOMAIN commits : TreeOf(c) = commits[c].tree
    BY <1>3, ConstantsAssumption DEF TreeOf
<1>14. \A i \in 1 .. n :
          ms[i] \in MergedTrees(IF i = n THEN commits[a].tree ELSE ms[i + 1],
                                commits[ps[i][1]].tree, commits[ps[i][2]].tree)
  <2>1. \A i \in 1 .. n : ms[i] \in MergedTrees(IF i = n THEN TreeOf(a) ELSE ms[i + 1],
                                               TreeOf(ps[i][1]), TreeOf(ps[i][2]))
      BY <1>9, <1>11, <1>12 DEF AreMerges
  <2> QED
      BY <1>8, <1>10, <1>13, <2>1
<1> DEFINE new == NewCommits(n)
<1>15. /\ new \in [1 .. n -> fresh]
       /\ \A i, j \in 1 .. n : new[i] = new[j] => i = j
    BY NewCommitsFresh
<1> HIDE DEF new
<1>16. commits' = [c \in DOMAIN commits \cup {new[i] : i \in 1 .. n} |->
                     IF c \in DOMAIN commits THEN commits[c]
                     ELSE row(ps, ms, CHOOSE i \in 1 .. n : new[i] = c)]
    BY <1>11 DEF new
<1>17. \A i \in 1 .. n : commits'[new[i]] = [tree |-> ms[i], parents |-> ps[i]]
  <2> SUFFICES ASSUME NEW i \in 1 .. n
               PROVE  commits'[new[i]] = [tree |-> ms[i], parents |-> ps[i]]
      OBVIOUS
  <2>1. (CHOOSE j \in 1 .. n : new[j] = new[i]) = i
      BY <1>15
  <2>2. row(ps, ms, i) = [tree |-> ms[i], parents |-> ps[i]]
      BY <1>2
  <2>3. new[i] \notin DOMAIN commits
      BY <1>15
  <2> HIDE DEF row
  <2> QED
      BY <1>16, <2>1, <2>2, <2>3
<1>18. /\ DOMAIN commits' = DOMAIN commits \cup {new[i] : i \in 1 .. n}
       /\ \A c \in DOMAIN commits : commits'[c] = commits[c]
       /\ commits' = [c \in DOMAIN commits' |-> commits'[c]]
  <2> HIDE DEF row
  <2> QED
      BY <1>16
<1>19. \A i \in 1 .. n - 1 : /\ {ps[i + 1][1], ps[i + 1][2]} \subseteq BestAncestors(ps[i][1], ps[i][2])
                             /\ ps[i + 1][1] # ps[i + 1][2]
  <2> HIDE DEF shared, s, t
  <2> QED
      BY <1>2, <1>6, <1>8
<1>20. MoveTarget(k, new[1])
    BY <1>11 DEF new
<1> HIDE DEF row, shared
<1>21. Made(k, n, ps, ms, new, a)
    BY <1>2, <1>5, <1>6, <1>8, <1>9, <1>10, <1>14, <1>15, <1>17, <1>18, <1>19, <1>20 DEF Made
<1> QED
    BY <1>21

\* What the new commits are: merged trees, and pairs of stored commits.
LEMMA MadeCommits ==
    ASSUME MergeInv, NEW k, NEW n, NEW ps, NEW ms, NEW new, NEW a, Made(k, n, ps, ms, new, a)
    PROVE  /\ new[1] \in CommitIds /\ new[1] \in DOMAIN commits'
           /\ \A c \in DOMAIN commits' \ DOMAIN commits : \E i \in 1 .. n :
                 /\ c = new[i] /\ commits'[c].tree = ms[i]
                 /\ Parents(commits', c) = {ps[i][1], ps[i][2]}
           /\ \A c \in DOMAIN commits' : Parents(commits', c) \subseteq DOMAIN commits
           /\ IsTable(commits', CommitIds, CommitRow)
<1>1. DOMAIN commits \subseteq CommitIds /\ \A c \in DOMAIN commits : commits[c] \in CommitRow
    BY DEF MergeInv, ServerInv, IInv, RowsOK, StoreTypeOK, IsTable
<1>2. \A i \in 1 .. n : /\ new[i] \in CommitIds \ DOMAIN commits /\ ms[i] \in Tree
                        /\ commits'[new[i]] = [tree |-> ms[i], parents |-> ps[i]]
                        /\ ps[i] = <<ps[i][1], ps[i][2]>> /\ ps[i][1] \in DOMAIN commits
                        /\ ps[i][2] \in DOMAIN commits
    BY DEF Made
<1>3. /\ DOMAIN commits' = DOMAIN commits \cup {new[i] : i \in 1 .. n} /\ 1 \in 1 .. n
      /\ \A c \in DOMAIN commits : commits'[c] = commits[c]
      /\ commits' = [c \in DOMAIN commits' |-> commits'[c]]
    BY DEF Made
<1>4. ASSUME NEW i \in 1 .. n
      PROVE  /\ commits'[new[i]] \in CommitRow /\ commits'[new[i]].tree = ms[i]
             /\ Parents(commits', new[i]) = {ps[i][1], ps[i][2]}
  <2> DEFINE p == ps[i][1]
             q == ps[i][2]
             row == [tree |-> ms[i], parents |-> <<p, q>>]
  <2>1. p \in CommitIds /\ q \in CommitIds /\ ms[i] \in Tree /\ commits'[new[i]] = row
      BY <1>1, <1>2
  <2> HIDE DEF p, q
  <2>2. row \in CommitRow /\ {row.parents[j] : j \in 1 .. Len(row.parents)} = {p, q}
    <3>1. row.parents = <<p, q>> /\ row.tree = ms[i]
        OBVIOUS
    <3>2. <<p, q>> \in Seq(CommitIds) /\ Len(<<p, q>>) = 2
        BY <2>1
    <3>3. {<<p, q>>[j] : j \in 1 .. 2} = {p, q}
        OBVIOUS
    <3>4. 1 .. Len(row.parents) = 1 .. 2
        BY <3>1, <3>2
    <3> QED
        BY <2>1, <3>1, <3>2, <3>3, <3>4 DEF CommitRow
  <2> QED
      BY <2>1, <2>2 DEF Parents, p, q
<1>5. \A c \in DOMAIN commits : Parents(commits', c) = Parents(commits, c) /\ Parents(commits, c) \subseteq DOMAIN commits
    BY <1>3 DEF Parents, MergeInv, ServerInv, IInv, RefIntegrity
<1>6. \A c \in DOMAIN commits' : c \in DOMAIN commits \/ \E i \in 1 .. n : c = new[i]
    BY <1>3
<1>7. ASSUME NEW c \in DOMAIN commits'
      PROVE  /\ Parents(commits', c) \subseteq DOMAIN commits
             /\ c \in CommitIds /\ commits'[c] \in CommitRow
  <2>1. CASE c \in DOMAIN commits
      BY <1>1, <1>3, <1>5, <2>1
  <2>2. CASE c \notin DOMAIN commits
    <3>1. PICK i \in 1 .. n : c = new[i]
        BY <1>6, <2>2
    <3>2. commits'[new[i]] \in CommitRow /\ Parents(commits', new[i]) = {ps[i][1], ps[i][2]}
        BY <1>4
    <3> QED
        BY <1>2, <3>1, <3>2
  <2> QED
      BY <2>1, <2>2
<1>8. ASSUME NEW c \in DOMAIN commits' \ DOMAIN commits
      PROVE  \E i \in 1 .. n : /\ c = new[i] /\ commits'[c].tree = ms[i]
                              /\ Parents(commits', c) = {ps[i][1], ps[i][2]}
  <2>1. PICK i \in 1 .. n : c = new[i]
      BY <1>6
  <2>2. commits'[new[i]].tree = ms[i] /\ Parents(commits', new[i]) = {ps[i][1], ps[i][2]}
      BY <1>4
  <2> QED
      BY <2>1, <2>2
<1> QED
    BY <1>2, <1>3, <1>7, <1>8 DEF IsTable

\* The merge commit and the virtual ones are stored with the transaction that makes
\* the target name the first; their parents are commits that were stored before.
LEMMA MergeCommitStep ==
    ASSUME MergeInv, NEW k \in MergeHandlers, MergeCommit(k)
    PROVE  MergeInv'
<1>1. PICK n, ps, ms, new, a : Made(k, n, ps, ms, new, a)
    BY MergeMade
<1>2. /\ MoveTarget(k, new[1]) /\ DOMAIN commits \subseteq DOMAIN commits'
    BY <1>1 DEF Made
<1>3. trees' = trees \cup {commits'[c].tree : c \in DOMAIN commits' \ DOMAIN commits}
    BY DEF MergeCommit, StoreMerge
<1>4. /\ IsTable(commits', CommitIds, CommitRow)
      /\ \A c \in DOMAIN commits' : Parents(commits', c) \subseteq DOMAIN commits'
      /\ new[1] \in CommitIds /\ new[1] \in DOMAIN commits'
    BY <1>1, <1>2, MadeCommits
<1>5. trees' \subseteq Tree
    BY <1>3, <1>4 DEF IsTable, CommitRow, MergeInv, ServerInv, IInv, RowsOK, StoreTypeOK
<1> HIDE DEF Made
<1> QED
    BY <1>2, <1>4, <1>5, MoveTargetStep

\* Every step of a merge request keeps the invariant.
LEMMA MergeNextInv == MergeInv /\ MergeNext => MergeInv'
<1> SUFFICES ASSUME MergeInv, MergeNext PROVE MergeInv'
    OBVIOUS
<1>1. ASSUME NEW k \in MergeHandlers, CreateMergeRequest(k) PROVE MergeInv'
    BY <1>1, FindSourceStep, FindTargetStep, CheckOpenStep, InsertRequestStep DEF
        CreateMergeRequest
<1>2. ASSUME NEW k \in MergeHandlers, MergeRequest(k) PROVE MergeInv'
    BY <1>2, MergeReadStep, FastForwardStep, MergeCommitStep DEF MergeRequest
<1>3. ASSUME NEW k \in MergeHandlers, MergeAbort(k) PROVE MergeInv'
    BY <1>3, MergeIdleType, AdvanceStep DEF MergeAbort
<1>4. CASE UpdateMergeRequest
    BY <1>4, UpdateRequestStep DEF UpdateMergeRequest
<1> QED
    BY <1>1, <1>2, <1>3, <1>4 DEF MergeNext

\* So does every step of the server, with ref and wip requests.
LEMMA AllNextInv == MergeInv /\ [AllNext]_AllVars => MergeInv'
<1> SUFFICES ASSUME MergeInv, [AllNext]_AllVars PROVE MergeInv'
    OBVIOUS
<1>1. CASE [ServerNext]_serverVars /\ UNCHANGED mergeVars
  <2>1. ServerInv'
      BY <1>1, ServerNextInv DEF MergeInv
  <2>2. \A k \in MergeHandlers : MergeReadSound(mreq[k])'
      BY <1>1, ServerCommitsStep DEF MergeInv, MergeReadSound, Known, mergeVars
  <2> QED
      BY <1>1, <2>1, <2>2 DEF MergeInv, MergeTypeOK, mergeVars
<1>2. CASE MergeNext
    BY <1>2, MergeNextInv
<1> QED
    BY <1>1, <1>2 DEF AllNext, AllVars

\* A new repository has no merge request.
LEMMA AllInitInv == AllInit => MergeInv
<1> SUFFICES ASSUME AllInit PROVE MergeInv
    OBVIOUS
<1>1. ServerInv
    BY ServerInitInv DEF AllInit
<1>2. \A k \in MergeHandlers : mreq[k] = MergeIdle
    BY DEF AllInit, MergeInit
<1>3. MergeTypeOK
    BY MergeIdleType DEF AllInit, MergeInit, MergeTypeOK, IsTable
<1> QED
    BY <1>1, <1>2, <1>3, MergeIdleType DEF MergeInv

\* A merge changes no wip and no wip request; the tree of the commit it adds is
\* stored with it.
LEMMA MergeRows ==
    MergeInv /\ MergeNext =>
        /\ UNCHANGED <<head, wips, spent, wreq, edits, refVars>>
        /\ DOMAIN branches' = DOMAIN branches
        /\ trees \subseteq trees'
        /\ DOMAIN commits \subseteq DOMAIN commits'
        /\ \A c \in DOMAIN commits : commits'[c] = commits[c]
        /\ \A c \in DOMAIN commits' \ DOMAIN commits : commits'[c].tree \in trees'
<1> DEFINE Rows == /\ UNCHANGED <<head, wips, spent, wreq, edits, refVars>>
                   /\ DOMAIN branches' = DOMAIN branches
                   /\ trees \subseteq trees'
                   /\ DOMAIN commits \subseteq DOMAIN commits'
                   /\ \A c \in DOMAIN commits : commits'[c] = commits[c]
                   /\ \A c \in DOMAIN commits' \ DOMAIN commits : commits'[c].tree \in trees'
<1> SUFFICES ASSUME MergeInv, MergeNext PROVE Rows
    OBVIOUS
<1>1. ASSUME NEW k \in MergeHandlers, MergeCommit(k) PROVE Rows
  <2>1. PICK n, ps, ms, new, a : Made(k, n, ps, ms, new, a)
      BY <1>1, MergeMade
  <2>2. trees' = trees \cup {commits'[c].tree : c \in DOMAIN commits' \ DOMAIN commits}
      BY <1>1 DEF MergeCommit, StoreMerge
  <2>3. /\ DOMAIN commits \subseteq DOMAIN commits'
        /\ \A c \in DOMAIN commits : commits'[c] = commits[c]
        /\ UNCHANGED <<head, wips, spent, wreq, edits, refVars>>
        /\ branches' = SetBranchCommit(branches, mreq[k].target, new[1])
      BY <2>1 DEF Made, MoveTarget
  <2> QED
      BY <2>2, <2>3 DEF SetBranchCommit
<1>2. ASSUME NEW k \in MergeHandlers, FastForward(k) PROVE Rows
    BY <1>2 DEF FastForward, MoveTarget, SetBranchCommit
<1>3. CASE UNCHANGED serverVars
    BY <1>3 DEF serverVars, vars, storeVars
<1> QED
    BY <1>1, <1>2, <1>3
       DEF MergeNext, CreateMergeRequest, FindSource, FindTarget, CheckOpen, InsertRequest,
           MergeRequest, ReadRequest, ReadSourceBranch, ReadTargetBranch, CheckOutTarget,
           MergeAbort, UpdateMergeRequest, UpdateRequest, Advance

\* Spent ids are ids of branches, wips or tags; merges spend none.
LEMMA AllSpentStep == MergeInv /\ SpentOK /\ [AllNext]_AllVars => SpentOK'
BY ServerSpentStep, MergeRows DEF SpentOK, AllNext, AllVars

\* A merge stores the merged tree with the commit that names it.
LEMMA MergeTrees == ASSUME MergeInv, TreeInv, MergeNext PROVE TreeInv'
<1>1. \A c \in DOMAIN commits' : Stored(commits[c].tree)'
    BY MergeRows DEF TreeInv, TreesResolve, Stored
<1>2. \A w \in DOMAIN wips' : Stored(wips[w].tree)'
    BY MergeRows DEF TreeInv, TreesResolve, Stored
<1>3. \A h \in Handlers : HoldsStored(wreq[h])'
    BY MergeRows DEF TreeInv, HoldsStored, Holds
<1> QED
    BY <1>1, <1>2, <1>3 DEF TreeInv, TreesResolve

----------------------------------------------------------------------------

\* The invariant of all requests together, in any interleaving.
THEOREM AllInvariance == AllSpec => []MergeInv
BY AllInitInv, AllNextInv, PTL DEF AllSpec

\* Type correctness of all requests together (merge_request_ctl.go beside the
\* other controllers).
THEOREM AllTypeCorrect == AllSpec => []AllTypeOK
<1>1. AllInit => SpentOK
    BY ConstantsAssumption DEF AllInit, ServerInit, Init, StoreInit, SpentOK
<1>2. MergeInv /\ SpentOK => AllTypeOK
    BY DEF MergeInv, MergeTypeOK, ServerInv, IInv, SpentOK, AllTypeOK, ServerTypeOK
<1> QED
    BY AllInvariance, AllSpentStep, <1>1, <1>2, PTL DEF AllSpec

\* Whatever merges, ref requests and wip requests interleave, every ref, wip and
\* parent link names a stored commit (WorkRepository.Merge, merge).
THEOREM AllRefsResolve == AllSpec => []RefsResolve
<1>1. MergeInv => RefsResolve
    BY DEF MergeInv, ServerInv, IInv, RefsResolve, TagsResolve
<1> QED
    BY AllInvariance, <1>1, PTL

\* Without RevertWip, every tree a commit or a wip names can be opened, whatever
\* else interleaves: a merge stores the merged tree with its commit (merge).
THEOREM AllTreesStay == ASSUME "RevertWip" \notin Ops PROVE AllSpec => []TreesResolve
<1>1. AllInit => TreeInv
    BY InitTrees DEF AllInit, ServerInit
<1>2. MergeInv /\ TreeInv /\ [AllNext]_AllVars => TreeInv'
    BY MergeTrees, ServerTrees DEF MergeInv, ServerInv, AllNext, AllVars
<1>3. TreeInv => TreesResolve
    BY DEF TreeInv
<1> QED
    BY AllInvariance, <1>1, <1>2, <1>3, PTL DEF AllSpec

----------------------------------------------------------------------------
(* What a merge keeps of its parents.  The invariant: of any commits some  *)
(* come first and some last, and MergeUndoesNothing.                       *)

\* What a commit comes after.
Behind(c) == UNION {History(commits, p) : p \in Parents(commits, c)}

CommitsOrdered ==
    \A S \in SUBSET DOMAIN commits : S # {} => /\ \E c \in S : \A d \in S : d \notin Behind(c)
                                               /\ \E c \in S : \A d \in S : c \notin Behind(d)
UndoInv == CommitsOrdered /\ MergeUndoesNothing

\* A commit of which a stored commit's history has more than that commit itself
\* is behind it.
LEMMA BehindParts ==
    ASSUME Rooted(commits), NEW c \in DOMAIN commits
    PROVE  /\ History(commits, c) \subseteq {c} \cup Behind(c)
           /\ Behind(c) \subseteq History(commits, c) /\ c \in History(commits, c)
<1>1. History(commits, c) \subseteq {c} \cup Behind(c)
    BY HistoryParts DEF Behind
<1>2. c \in CommitIds /\ Parents(commits, c) \subseteq CommitIds
    BY DEF Rooted
<1>3. \A p \in Parents(commits, c) : History(commits, p) \subseteq History(commits, c)
    BY <1>2, HistoryParent, HistoryDeep
<1> QED
    BY <1>1, <1>2, <1>3, HistorySelf DEF Behind

\* Of some stored commits one comes after none of them, and one before none.
LEMMA SomeFirst ==
    ASSUME CommitsOrdered, NEW S, S \subseteq DOMAIN commits, NEW z \in S
    PROVE  /\ \E c \in S : \A d \in S : d \notin Behind(c)
           /\ \E c \in S : \A d \in S : c \notin Behind(d)
<1>1. S \in SUBSET DOMAIN commits /\ S # {}
    OBVIOUS
<1> QED
    BY <1>1 DEF CommitsOrdered

\* No two commits are in each other's history.
LEMMA OneIsLater ==
    ASSUME Rooted(commits), CommitsOrdered, NEW c \in DOMAIN commits,
           NEW d \in History(commits, c) \cap DOMAIN commits, c \in History(commits, d)
    PROVE  c = d
<1> DEFINE S == {c, d}
<1>1. S \subseteq DOMAIN commits /\ c \in S
    OBVIOUS
<1>2. PICK e \in S : \A f \in S : f \notin Behind(e)
  <2> HIDE DEF S
  <2> QED
      BY <1>1, SomeFirst
<1> QED
    BY <1>2, BehindParts

\* With one best common ancestor, every common ancestor is in its history.
LEMMA BaseIsLast ==
    ASSUME Rooted(commits), CommitsOrdered, NEW s \in DOMAIN commits, NEW t \in DOMAIN commits,
           NEW a, BestAncestors(s, t) = {a}
    PROVE  /\ a \in History(commits, s) \cap History(commits, t) \cap DOMAIN commits
           /\ History(commits, s) \cap History(commits, t) \subseteq History(commits, a)
<1> DEFINE shared == History(commits, s) \cap History(commits, t)
<1>1. a \in shared /\ shared \subseteq DOMAIN commits
    BY HistoryStays DEF BestAncestors
<1>2. ASSUME NEW z \in shared PROVE z \in History(commits, a)
  <2> DEFINE S == {y \in shared : z \in History(commits, y)}
  <2>1. z \in S /\ S \subseteq DOMAIN commits
      BY <1>1, <1>2, BehindParts
  <2>2. PICK y \in S : \A d \in S : y \notin Behind(d)
    <3> HIDE DEF S
    <3> QED
        BY <2>1, SomeFirst
  <2>3. ASSUME NEW d \in shared \ {y} PROVE y \notin History(commits, d)
    <3> SUFFICES ASSUME y \in History(commits, d) PROVE FALSE
        OBVIOUS
    <3>1. d \in DOMAIN commits /\ d \in CommitIds
        BY <1>1 DEF Rooted
    <3>2. z \in History(commits, d)
        BY <2>2, <3>1, HistoryDeep
    <3>3. d \in S /\ y \in Behind(d)
        BY <2>3, <3>1, <3>2, BehindParts
    <3> QED
        BY <2>2, <3>3
  <2>4. y \in BestAncestors(s, t)
      BY <2>2, <2>3 DEF BestAncestors
  <2> QED
      BY <2>2, <2>4
<1> QED
    BY <1>1, <1>2

\* A commit that changes a file from all of its parents, and from one of them.
Changes(d, x) == \A e \in Parents(commits, d) : commits[d].tree[x] # commits[e].tree[x]
Touches(d, x) == \E e \in Parents(commits, d) : commits[d].tree[x] # commits[e].tree[x]

\* MergeUndoesNothing in these terms.
KeepsWork ==
    \A c \in DOMAIN commits : \A p, q \in Parents(commits, c) : p # q =>
        \A x \in Differ(commits[c].tree, commits[p].tree) :
            \E d \in History(commits, q) \ History(commits, p) :
                Changes(d, x) \/ (Touches(d, x) /\ ~Plain(c))
LEMMA UndoesNothing == MergeUndoesNothing <=> KeepsWork
<1> DEFINE From(d, x) == {e \in Parents(commits, d) : commits[d].tree[x] # commits[e].tree[x]}
<1>1. \A d, x : From(d, x) = Parents(commits, d) <=> Changes(d, x)
    BY DEF Changes
<1>2. \A d, x : From(d, x) # {} <=> Touches(d, x)
    BY DEF Touches
<1>3. MergeUndoesNothing <=>
        \A c \in DOMAIN commits : \A p, q \in Parents(commits, c) : p # q =>
            \A x \in Differ(commits[c].tree, commits[p].tree) :
                \E d \in History(commits, q) \ History(commits, p) :
                    From(d, x) = Parents(commits, d) \/ (From(d, x) # {} /\ ~Plain(c))
    BY DEF MergeUndoesNothing
<1> HIDE DEF From
<1> QED
    BY <1>1, <1>2, <1>3 DEF KeepsWork

\* Where q is not as some best common ancestor of p and q, a commit that only q's
\* history has touched the file.
LEMMA SideTouched ==
    ASSUME Rooted(commits), CommitsOrdered, NEW p \in DOMAIN commits, NEW q \in DOMAIN commits,
           q \notin History(commits, p), NEW b \in BestAncestors(p, q),
           NEW x \in Paths, commits[q].tree[x] # commits[b].tree[x]
    PROVE  \E d \in History(commits, q) \ History(commits, p) : Touches(d, x)
<1> DEFINE H(c) == History(commits, c)
           B    == {f \in H(q) \ H(p) : b \in H(f) /\ commits[f].tree[x] # commits[b].tree[x]}
<1>1. /\ b \in H(p) \cap H(q)
      /\ \A d \in (H(p) \cap H(q)) \ {b} : b \notin H(d)
    BY DEF BestAncestors
<1>2. /\ q \in H(q) /\ H(q) \subseteq DOMAIN commits
      /\ \A f \in H(q) : H(f) \subseteq H(q)
    BY HistoryStays, BehindParts, HistoryDeep DEF Rooted
<1>3. q \in B
    BY <1>1, <1>2
<1>4. PICK f \in B : \A g \in B : g \notin Behind(f)
  <2>1. B \subseteq DOMAIN commits
      BY <1>2
  <2> HIDE DEF B
  <2> QED
      BY <1>3, <2>1, SomeFirst
<1>5. f \in DOMAIN commits /\ b \in Behind(f)
    BY <1>2, <1>4, BehindParts
<1>6. PICK u \in Parents(commits, f) : b \in H(u)
    BY <1>5 DEF Behind
<1>7. u \in H(u) /\ u \in Behind(f) /\ u \in H(q)
  <2>1. u \in DOMAIN commits /\ u \in CommitIds
      BY <1>5, <1>6 DEF Rooted
  <2>2. u \in H(u) /\ u \in Behind(f)
      BY <1>6, <2>1, HistorySelf DEF Behind
  <2> QED
      BY <1>2, <1>4, <1>5, <2>2, BehindParts
<1>8. CASE commits[u].tree[x] # commits[f].tree[x]
    BY <1>4, <1>6, <1>8 DEF Touches
<1>9. CASE commits[u].tree[x] = commits[f].tree[x]
  <2>1. u # b
      BY <1>4, <1>9
  <2>2. u \notin H(p)
      BY <1>1, <1>6, <1>7, <2>1
  <2> QED
      BY <1>4, <1>6, <1>7, <1>9, <2>2
<1> QED
    BY <1>8, <1>9

\* Where t is not as the one best common ancestor of s and t, a commit that only
\* t's history has changed the file, if all merges in that were over one.
LEMMA SideChanged ==
    ASSUME Rooted(commits), UndoInv, NEW s \in DOMAIN commits, NEW t \in DOMAIN commits,
           t \notin History(commits, s), NEW a, BestAncestors(s, t) = {a}, Plain(t),
           NEW x \in Paths, commits[t].tree[x] # commits[a].tree[x]
    PROVE  \E d \in History(commits, t) \ History(commits, s) : Changes(d, x)
<1> DEFINE H(c) == History(commits, c)
           B    == {f \in H(t) \ H(s) : a \in H(f) /\ commits[f].tree[x] # commits[a].tree[x]}
<1>1. /\ a \in H(s) \cap H(t) \cap DOMAIN commits
      /\ H(s) \cap H(t) \subseteq H(a)
    BY BaseIsLast DEF UndoInv
<1>2. /\ t \in CommitIds /\ t \in H(t) /\ H(t) \subseteq DOMAIN commits
      /\ \A f \in H(t) : H(f) \subseteq H(t)
    BY HistoryStays, BehindParts, HistoryDeep DEF Rooted
<1>3. t \in B
    BY <1>1, <1>2
<1>4. PICK f \in B : \A g \in B : g \notin Behind(f)
  <2>1. B \subseteq DOMAIN commits
      BY <1>2
  <2> HIDE DEF B
  <2> QED
      BY <1>3, <2>1, SomeFirst DEF UndoInv
<1>5. CASE Changes(f, x)
    BY <1>4, <1>5
<1>6. CASE ~Changes(f, x)
  <2>1. f \in DOMAIN commits /\ a \in Behind(f)
      BY <1>2, <1>4, BehindParts
  <2>2. PICK u \in Parents(commits, f) : a \in H(u)
      BY <2>1 DEF Behind
  <2>3. u \in H(u) /\ u \in Behind(f) /\ u \in H(t) /\ u \in DOMAIN commits
    <3>1. u \in DOMAIN commits /\ u \in CommitIds
        BY <2>1 DEF Rooted
    <3>2. u \in H(u) /\ u \in Behind(f)
        BY <3>1, HistorySelf DEF Behind
    <3> QED
        BY <1>2, <1>4, <2>1, <3>1, <3>2, BehindParts
  <2>4. CASE commits[u].tree[x] = commits[f].tree[x]
    <3>1. u # a
        BY <1>4, <2>4
    <3>2. u \notin H(s)
        BY <1>1, <2>2, <2>3, <3>1, OneIsLater DEF UndoInv
    <3> QED
        BY <1>4, <2>2, <2>3, <2>4, <3>2
  <2>5. CASE commits[u].tree[x] # commits[f].tree[x]
    <3>1. PICK v \in Parents(commits, f) : commits[f].tree[x] = commits[v].tree[x]
        BY <1>6 DEF Changes
    <3>2. v # u /\ x \in Differ(commits[f].tree, commits[u].tree)
        BY <2>5, <3>1 DEF Differ
    <3>3. PICK d \in H(v) \ H(u) : Changes(d, x)
      <4>1. Plain(f)
        <5>1. History(commits, f) \subseteq History(commits, t)
            BY <1>2, <1>4
        <5> QED
            BY <5>1 DEF Plain
      <4> QED
          BY <2>1, <3>1, <3>2, <4>1, UndoesNothing DEF UndoInv, KeepsWork
    <3>4. d \in H(t)
        BY <1>2, <1>4, <2>1, <3>1, <3>3, BehindParts DEF Behind
    <3>5. H(a) \subseteq H(u)
        BY <2>2, <2>3, HistoryDeep DEF Rooted
    <3>6. d \notin H(s)
        BY <1>1, <3>3, <3>4, <3>5
    <3> QED
        BY <3>3, <3>4, <3>6
  <2> QED
      BY <2>4, <2>5
<1> QED
    BY <1>5, <1>6

\* BestAncestors in a commits table cs.
BestOf(cs, s, t) ==
    LET shared == History(cs, s) \cap History(cs, t)
    IN  {c \in shared : \A d \in shared \ {c} : c \notin History(cs, d)}

\* Commits that are stored stay Plain or not, whatever is stored with them.
LEMMA PlainStays ==
    ASSUME Rooted(commits), DOMAIN commits \subseteq DOMAIN commits',
           \A d \in DOMAIN commits : commits'[d] = commits[d]
    PROVE  /\ \A p, q \in DOMAIN commits : BestAncestors(p, q)' = BestAncestors(p, q)
           /\ \A c \in DOMAIN commits : Plain(c)' <=> Plain(c)
<1>1. \A d \in DOMAIN commits : /\ History(commits', d) = History(commits, d)
                               /\ History(commits, d) \subseteq DOMAIN commits
                               /\ Parents(commits', d) = Parents(commits, d)
                               /\ Parents(commits, d) \subseteq DOMAIN commits
    BY HistoryStays DEF Parents, Rooted
<1>2. ASSUME NEW p \in DOMAIN commits, NEW q \in DOMAIN commits
      PROVE  BestAncestors(p, q)' = BestAncestors(p, q)
    BY <1>1 DEF BestAncestors
<1>3. ASSUME NEW c \in DOMAIN commits
      PROVE  Plain(c)' <=> Plain(c)
  <2>1. \A d \in History(commits, c) : \A p, q \in Parents(commits, d) :
            BestAncestors(p, q)' = BestAncestors(p, q)
      BY <1>1, <1>2
  <2>2. /\ History(commits', c) = History(commits, c)
        /\ \A d \in History(commits, c) : Parents(commits', d) = Parents(commits, d)
      BY <1>1
  <2> QED
      BY <2>1, <2>2 DEF Plain
<1> QED
    BY <1>2, <1>3

\* New commits keep the invariant if what each has from one parent only is a change
\* that the other parent's history lacks.
LEMMA CommitsKeepWork ==
    ASSUME Rooted(commits), UndoInv,
           DOMAIN commits \subseteq DOMAIN commits',
           \A d \in DOMAIN commits : commits'[d] = commits[d],
           \A c \in DOMAIN commits' : Parents(commits', c) \subseteq DOMAIN commits,
           \A c \in DOMAIN commits' \ DOMAIN commits : \A p, q \in Parents(commits', c) : p # q =>
              \A x \in Differ(commits'[c].tree, commits[p].tree) :
                 \E d \in History(commits, q) \ History(commits, p) :
                    Changes(d, x) \/ (Touches(d, x) /\ ~Plain(c)')
    PROVE  UndoInv'
<1>1. \A d \in DOMAIN commits : /\ History(commits', d) = History(commits, d)
                               /\ History(commits, d) \subseteq DOMAIN commits
                               /\ Parents(commits', d) = Parents(commits, d)
    BY HistoryStays DEF Parents
<1>2. \A c \in DOMAIN commits' : Behind(c)' \subseteq DOMAIN commits
    BY <1>1 DEF Behind
<1>3. \A d \in DOMAIN commits : Behind(d)' = Behind(d)
    BY <1>1 DEF Behind, Rooted
<1>4. CommitsOrdered'
  <2> SUFFICES ASSUME NEW S \in SUBSET DOMAIN commits', S # {}
               PROVE  /\ \E f \in S : \A g \in S : g \notin Behind(f)'
                      /\ \E f \in S : \A g \in S : f \notin Behind(g)'
      BY DEF CommitsOrdered
  <2> DEFINE T == S \cap DOMAIN commits
  <2>1. CASE T = {}
      BY <1>2, <2>1
  <2>2. CASE T # {}
    <3>1. PICK z : z \in T
        BY <2>2
    <3>2. /\ \E f \in T : \A g \in T : g \notin Behind(f)
          /\ \E f \in T : \A g \in T : f \notin Behind(g)
      <4>1. T \subseteq DOMAIN commits
          OBVIOUS
      <4> HIDE DEF T
      <4> QED
          BY <3>1, <4>1, SomeFirst DEF UndoInv
    <3>3. \E f \in S : \A g \in S : g \notin Behind(f)'
        BY <1>2, <1>3, <3>2
    <3>4. CASE S \subseteq DOMAIN commits
        BY <1>3, <3>2, <3>4
    <3>5. ASSUME NEW c \in S \ DOMAIN commits PROVE \A g \in S : c \notin Behind(g)'
        BY <1>2
    <3> QED
        BY <3>3, <3>4, <3>5
  <2> QED
      BY <2>1, <2>2
<1>5. ASSUME NEW d \in DOMAIN commits, NEW x
      PROVE  (Changes(d, x) => Changes(d, x)') /\ (Touches(d, x) => Touches(d, x)')
    BY <1>1 DEF Changes, Touches, Rooted
<1>6. ASSUME NEW c \in DOMAIN commits', NEW p \in Parents(commits', c), NEW q \in Parents(commits', c),
             p # q, NEW x \in Differ(commits'[c].tree, commits'[p].tree)
      PROVE  \E e \in History(commits', q) \ History(commits', p) :
                 Changes(e, x)' \/ (Touches(e, x)' /\ ~Plain(c)')
  <2>1. p \in DOMAIN commits /\ q \in DOMAIN commits
      BY <1>6
  <2>2. \E e \in History(commits, q) \ History(commits, p) :
           Changes(e, x) \/ (Touches(e, x) /\ ~Plain(c)')
    <3>1. CASE c \in DOMAIN commits
      <4>1. p \in Parents(commits, c) /\ q \in Parents(commits, c)
          BY <1>1, <1>6, <3>1
      <4>2. x \in Differ(commits[c].tree, commits[p].tree)
          BY <1>6, <2>1, <3>1
      <4>3. \E e \in History(commits, q) \ History(commits, p) :
               Changes(e, x) \/ (Touches(e, x) /\ ~Plain(c))
          BY <1>6, <3>1, <4>1, <4>2, UndoesNothing DEF UndoInv, KeepsWork
      <4> QED
          BY <3>1, <4>3, PlainStays
    <3>2. CASE c \notin DOMAIN commits
        BY <1>6, <2>1, <3>2
    <3> QED
        BY <3>1, <3>2
  <2> QED
      BY <1>1, <1>5, <2>1, <2>2
<1>7. KeepsWork'
    BY <1>6 DEF KeepsWork
<1>8. MergeUndoesNothing'
    BY <1>7, UndoesNothing, PTL
<1> QED
    BY <1>4, <1>8 DEF UndoInv

\* What the trees of a merge have: where one is not as one side's, the other side's
\* is not as the base.
LEMMA MergedFiles ==
    ASSUME NEW base, NEW s, NEW t, NEW m \in MergedTrees(base, s, t), NEW x \in Paths
    PROVE  /\ m[x] \in {s[x], t[x]}
           /\ m[x] # s[x] => t[x] # base[x]
           /\ m[x] # t[x] => s[x] # base[x]
BY DEF MergedTrees

\* The pairs a merge merges are of commits of which neither is in the other's
\* history, and the base of each has every file from one of their best common
\* ancestors.
LEMMA MadePairs ==
    ASSUME MergeInv, NEW k, NEW n, NEW ps, NEW ms, NEW new, NEW a, Made(k, n, ps, ms, new, a),
           NEW i \in 1 .. n
    PROVE  /\ ps[i][1] \notin History(commits, ps[i][2]) /\ ps[i][2] \notin History(commits, ps[i][1])
           /\ \A x \in Paths : \E b \in BestAncestors(ps[i][1], ps[i][2]) :
                 /\ ms[i][x] # commits[ps[i][1]].tree[x] => commits[ps[i][2]].tree[x] # commits[b].tree[x]
                 /\ ms[i][x] # commits[ps[i][2]].tree[x] => commits[ps[i][1]].tree[x] # commits[b].tree[x]
<1>1. n \in Nat \ {0}
    BY DEF Made
<1>2. /\ ps[i][1] \notin History(commits, ps[i][2])
      /\ ps[i][2] \notin History(commits, ps[i][1])
  <2>1. CASE i = 1
      BY <2>1 DEF Made
  <2>2. CASE i # 1
    <3> DEFINE j == i - 1
    <3>1. j \in 1 .. n - 1 /\ j + 1 = i
        BY <1>1, <2>2
    <3> HIDE DEF j
    <3>2. /\ {ps[j + 1][1], ps[j + 1][2]} \subseteq BestAncestors(ps[j][1], ps[j][2])
          /\ ps[j + 1][1] # ps[j + 1][2]
        BY <3>1 DEF Made
    <3> QED
        BY <3>1, <3>2 DEF BestAncestors
  <2> QED
      BY <2>1, <2>2
<1> DEFINE p == ps[i][1]
           q == ps[i][2]
<1>3. ASSUME NEW x \in Paths
      PROVE  \E b \in BestAncestors(p, q) :
                /\ ms[i][x] # commits[p].tree[x] => commits[q].tree[x] # commits[b].tree[x]
                /\ ms[i][x] # commits[q].tree[x] => commits[p].tree[x] # commits[b].tree[x]
  <2>1. CASE i = n
    <3>1. /\ BestAncestors(p, q) = {a}
          /\ ms[i] \in MergedTrees(commits[a].tree, commits[p].tree, commits[q].tree)
        BY <2>1 DEF Made
    <3> QED
        BY <3>1, MergedFiles
  <2>2. CASE i # n
    <3> DEFINE j == i + 1
    <3>1. i \in 1 .. n - 1 /\ j \in 1 .. n
        BY <1>1, <2>2
    <3>2. /\ {ps[j][1], ps[j][2]} \subseteq BestAncestors(p, q)
          /\ ms[i] \in MergedTrees(ms[j], commits[p].tree, commits[q].tree)
        BY <2>2, <3>1 DEF Made
    <3> HIDE DEF j
    <3>3. PICK base : ms[j] \in MergedTrees(base, commits[ps[j][1]].tree, commits[ps[j][2]].tree)
        BY <3>1 DEF Made
    <3>4. ms[j][x] \in {commits[ps[j][1]].tree[x], commits[ps[j][2]].tree[x]}
        BY <3>3, MergedFiles
    <3>5. PICK b \in BestAncestors(p, q) : ms[j][x] = commits[b].tree[x]
        BY <3>2, <3>4
    <3> QED
        BY <3>2, <3>5, MergedFiles
  <2> QED
      BY <2>1, <2>2
<1> QED
    BY <1>2, <1>3

\* The merge commit and the virtual ones: each file is as in the side that changed
\* it since the base.  A virtual merge over one base, or the merge itself over one,
\* takes changes from all parents; over several bases, which have the file from one
\* of them, there is a change from one.
LEMMA MergeKeepsWork ==
    ASSUME MergeInv, UndoInv, NEW k \in MergeHandlers, MergeCommit(k)
    PROVE  UndoInv'
<1>1. PICK n, ps, ms, new, a : Made(k, n, ps, ms, new, a)
    BY MergeMade
<1>2. Rooted(commits)
    BY DEF MergeInv, ServerInv, IInv, RowsOK, StoreTypeOK, IsTable, RefIntegrity, Rooted
<1>3. /\ DOMAIN commits \subseteq DOMAIN commits' /\ n \in Nat \ {0}
      /\ \A d \in DOMAIN commits : commits'[d] = commits[d]
    BY <1>1 DEF Made
<1>4. \A d \in DOMAIN commits : /\ History(commits', d) = History(commits, d)
                               /\ History(commits, d) \subseteq DOMAIN commits
                               /\ Parents(commits', d) = Parents(commits, d)
    BY <1>2, <1>3, HistoryStays DEF Parents
<1>5. ASSUME NEW c \in DOMAIN commits' \ DOMAIN commits,
             NEW p \in Parents(commits', c), NEW q \in Parents(commits', c), p # q,
             NEW x \in Differ(commits'[c].tree, commits[p].tree)
      PROVE  \E d \in History(commits, q) \ History(commits, p) :
                Changes(d, x) \/ (Touches(d, x) /\ ~Plain(c)')
  <2>1. PICK i \in 1 .. n : /\ c = new[i] /\ commits'[c].tree = ms[i]
                            /\ Parents(commits', c) = {ps[i][1], ps[i][2]}
      BY <1>1, MadeCommits
  <2>2. /\ ps[i][1] \in DOMAIN commits /\ ps[i][2] \in DOMAIN commits
        /\ \A j \in 1 .. n - 1 : /\ {ps[j + 1][1], ps[j + 1][2]} \subseteq BestAncestors(ps[j][1], ps[j][2])
                                 /\ ps[j + 1][1] # ps[j + 1][2]
        /\ BestAncestors(ps[n][1], ps[n][2]) = {a}
      BY <1>1 DEF Made
  <2>3. p \in DOMAIN commits /\ q \in DOMAIN commits /\ {p, q} = {ps[i][1], ps[i][2]}
      BY <1>5, <2>1, <2>2
  <2>4. BestAncestors(p, q) = BestAncestors(ps[i][1], ps[i][2])
      BY <2>3 DEF BestAncestors
  <2>5. /\ q \notin History(commits, p) /\ x \in Paths
        /\ \E b \in BestAncestors(p, q) : commits[q].tree[x] # commits[b].tree[x]
    <3>1. x \in Paths /\ ms[i][x] # commits[p].tree[x]
        BY <1>5, <2>1 DEF Differ
    <3> HIDE DEF Made
    <3> QED
        BY <1>1, <1>5, <2>3, <2>4, <3>1, MadePairs
  <2>6. PICK b \in BestAncestors(p, q) : commits[q].tree[x] # commits[b].tree[x]
      BY <2>5
  <2>7. PICK d \in History(commits, q) \ History(commits, p) : Touches(d, x)
      BY <1>2, <2>3, <2>5, <2>6, SideTouched DEF UndoInv
  <2>8. ASSUME Plain(c)'
        PROVE  Plain(q) /\ BestAncestors(p, q) = {b}
    <3>1. c \in CommitIds /\ c \in History(commits', c) /\ p \in CommitIds /\ q \in CommitIds
      <4>1. c \in CommitIds
          BY <1>1, MadeCommits DEF IsTable
      <4> QED
          BY <1>2, <2>3, <4>1, HistorySelf DEF Rooted
    <3>2. PICK e : BestOf(commits', p, q) = {e}
      <4>1. \A f \in History(commits', c) : \A y, z \in Parents(commits', f) :
                y # z => \E e \in CommitIds : BestOf(commits', y, z) = {e}
          BY <2>8 DEF Plain, BestAncestors, BestOf
      <4>2. p \in Parents(commits', c) /\ q \in Parents(commits', c) /\ p # q
          BY <1>5
      <4>3. \A y, z \in Parents(commits', c) :
                y # z => \E e \in CommitIds : BestOf(commits', y, z) = {e}
          BY <3>1, <4>1
      <4> QED
          BY <4>2, <4>3
    <3>3. BestAncestors(p, q) = {b}
      <4>1. BestOf(commits', p, q) = BestAncestors(p, q)
          BY <1>4, <2>3 DEF BestOf, BestAncestors
      <4> QED
          BY <2>6, <3>2, <4>1
    <3>4. History(commits', q) \subseteq History(commits', c)
        BY <1>5, <3>1, HistoryParent, HistoryDeep
    <3>5. Plain(q)'
        BY <2>8, <3>4 DEF Plain
    <3> QED
        BY <1>2, <1>3, <2>3, <3>3, <3>5, PlainStays
  <2>9. CASE Plain(c)'
      BY <1>2, <2>3, <2>5, <2>6, <2>8, <2>9, SideChanged
  <2> QED
      BY <2>7, <2>9
<1>6. \A c \in DOMAIN commits' : Parents(commits', c) \subseteq DOMAIN commits
    BY <1>1, MadeCommits
<1> HIDE DEF Made
<1> QED
    BY <1>2, <1>3, <1>5, <1>6, CommitsKeepWork

\* A wip's commit has one parent at most.
LEMMA CommitChangesKeepsWork ==
    ASSUME MergeInv, UndoInv, NEW h \in Handlers, CommitChanges(h)
    PROVE  UndoInv'
<1> DEFINE r   == wreq[h]
           row == [tree |-> r.tree, parents |-> ParentsOf(r.tip)]
<1>1. Known(r.tip) /\ Rooted(commits)
    BY DEF MergeInv, ServerInv, IInv, RowsOK, ReadSound, StoreTypeOK, IsTable, RefIntegrity,
        Rooted
<1>2. commits' = AddRow(commits, NewCommit, row) /\ NewCommit \in CommitIds \ DOMAIN commits
    BY NewCommitFresh DEF CommitChanges, CommitOn
<1>3. \A i \in 1 .. Len(row.parents) : row.parents[i] = r.tip /\ r.tip \in DOMAIN commits
  <2>1. CASE r.tip = NoCommit
      BY <2>1 DEF ParentsOf
  <2>2. CASE r.tip # NoCommit
      BY <1>1, <2>2 DEF ParentsOf, Known
  <2> QED
      BY <2>1, <2>2
<1> HIDE DEF row
<1>4. /\ DOMAIN commits' = DOMAIN commits \cup {NewCommit}
      /\ \A d \in DOMAIN commits : commits'[d] = commits[d]
      /\ commits'[NewCommit] = row
    BY <1>2 DEF AddRow
<1>5. \A c \in DOMAIN commits' : Parents(commits', c) \subseteq DOMAIN commits
  <2>1. Parents(commits', NewCommit) \subseteq DOMAIN commits
      BY <1>3, <1>4 DEF Parents
  <2>2. \A c \in DOMAIN commits : Parents(commits', c) = Parents(commits, c)
      BY <1>4 DEF Parents
  <2> QED
      BY <1>1, <1>4, <2>1, <2>2 DEF Rooted
<1>6. \A c \in DOMAIN commits' \ DOMAIN commits : \A p, q \in Parents(commits', c) : p = q
    BY <1>3, <1>4 DEF Parents
<1> QED
    BY <1>1, <1>4, <1>5, <1>6, CommitsKeepWork

\* Whatever merges and edits interleave, a merge has a file otherwise than one of its
\* parents only where the other parent's history changed it: from all parents, as long
\* as no merge so far had several best common ancestors; after that, from one of them
\* (Merge and merge in work_repo.go, with the virtual commits of findBestAncestor).
THEOREM MergesKeepWork == AllSpec => []MergeUndoesNothing
<1>1. AllInit => UndoInv
    BY DEF AllInit, ServerInit, Init, StoreInit, UndoInv, CommitsOrdered, MergeUndoesNothing
<1>2. MergeInv /\ UndoInv /\ [AllNext]_AllVars => UndoInv'
  <2> SUFFICES ASSUME MergeInv, UndoInv, [AllNext]_AllVars PROVE UndoInv'
      OBVIOUS
  <2>1. CASE UNCHANGED commits
    <3>1. \A c : History(commits', c) = History(commits, c) /\ Parents(commits', c) = Parents(commits, c)
        BY <2>1
    <3>2. \A c : Behind(c)' = Behind(c)
        BY <3>1 DEF Behind
    <3>3. CommitsOrdered'
        BY <2>1, <3>2 DEF UndoInv, CommitsOrdered
    <3>4. MergeUndoesNothing'
      <4>1. \A p, q : BestAncestors(p, q)' = BestAncestors(p, q)
          BY <2>1 DEF BestAncestors
      <4>2. \A c : Plain(c)' <=> Plain(c)
          BY <2>1, <4>1 DEF Plain
      <4> QED
          BY <2>1, <4>2 DEF UndoInv, MergeUndoesNothing
    <3> QED
        BY <3>3, <3>4 DEF UndoInv
  <2>2. UNCHANGED commits \/ (\E h \in Handlers : CommitChanges(h)) \/ MergeNext
      BY CommitsElse, RefRowsStep
         DEF AllNext, ServerNext, WorkStep, RefsStep, AllVars, serverVars, vars, storeVars
  <2>3. CASE MergeNext
    <3>1. UNCHANGED commits \/ \E k \in MergeHandlers : MergeCommit(k)
        BY <2>3 DEF MergeNext, CreateMergeRequest, FindSource, FindTarget, CheckOpen,
            InsertRequest, MergeRequest, ReadRequest, ReadSourceBranch, ReadTargetBranch,
            CheckOutTarget, FastForward, MergeAbort, UpdateMergeRequest, UpdateRequest,
            Advance, serverVars, vars, storeVars
    <3> QED
        BY <2>1, <3>1, MergeKeepsWork
  <2> QED
      BY <2>1, <2>2, <2>3, CommitChangesKeepsWork
<1>3. UndoInv => MergeUndoesNothing
    BY DEF UndoInv
<1> QED
    BY AllInvariance, <1>1, <1>2, <1>3, PTL DEF AllSpec
=============================================================================
