--------------------------- MODULE WipTree_proofs ---------------------------
(***************************************************************************)
(* Every stored node is whole (NodesSound), the same files never have two  *)
(* hashes (SameFilesSameHash), and to its user a wip is a plain set of     *)
(* files: WipTree implements FlatTree (ActsOnFiles).                       *)
(***************************************************************************)
EXTENDS WipTree, TreeDiff_proofs

\* Sound rows in this sense are what NodesSound asks for.
LEMMA SoundRows == ASSUME NoCollision, RowsSound(rows) PROVE NodesSound
<1> SUFFICES ASSUME NEW h \in DOMAIN rows PROVE SoundRow(rows, h)
    BY DEF NodesSound
<1>1. NodeRow(h, rows[h]) /\ Listed(rows[h].kids) \subseteq DOMAIN rows
    BY DEF RowsSound
<1>2. \A g \in DOMAIN rows : g \notin Blobs <=> rows[g].type = "tree"
    BY DEF RowsSound, NodeRow, NoCollision, BlobRow
<1>3. DOMAIN rows[h].kids # {} => rows[h].kids # Empty
    BY DEF Empty
<1>4. CASE h \in Blobs
    BY <1>1, <1>4 DEF SoundRow, NodeRow, NoCollision
<1>5. CASE h \notin Blobs
  <2> DEFINE kids == rows[h].kids
  <2>1. rows[h].type = "tree" /\ h = HashOf(kids) /\ kids # Empty /\ KidsRight(kids)
      BY <1>1, <1>3, <1>5 DEF NodeRow
  <2>2. ASSUME NEW n \in DOMAIN kids
        PROVE  kids[n].hash \in DOMAIN rows /\ kids[n].isDir = (rows[kids[n].hash].type = "tree")
    <3>1. kids[n].hash \in DOMAIN rows
        BY <1>1 DEF Listed
    <3>2. EntryRight(kids[n])
        BY <2>1 DEF KidsRight
    <3>3. kids[n].isDir = (kids[n].hash \notin Blobs)
      <4>1. CASE kids[n].hash \in Blobs
        <5>1. PICK b : kids[n] = File(b)
            BY <3>2, <4>1 DEF EntryRight
        <5>2. kids[n].isDir = FALSE
            BY <5>1 DEF File
        <5> QED
            BY <4>1, <5>2
      <4>2. CASE kids[n].hash \notin Blobs
        <5>1. PICK g : kids[n] = Dir(g)
            BY <3>2, <4>2 DEF EntryRight
        <5>2. kids[n].isDir = TRUE
            BY <5>1 DEF Dir
        <5> QED
            BY <4>2, <5>2
      <4> QED
          BY <4>1, <4>2
    <3> QED
        BY <1>2, <3>1, <3>3
  <2> QED
      BY <2>1, <2>2 DEF SoundRow
<1> QED
    BY <1>4, <1>5

----------------------------------------------------------------------------
(* The changes that a revert undoes.                                       *)

\* The change c kept, or not.
Keep(s, c, prefix) == IF HasPrefix(c.path, prefix) THEN Append(s, c) ELSE s

LEMMA KeepIn ==
    ASSUME NEW V, NEW s \in Seq(V), NEW c \in V, NEW prefix
    PROVE  Keep(s, c, prefix) \in Seq(V)
<1>1. Append(s, c) \in Seq(V)
    OBVIOUS
<1> QED
    BY <1>1 DEF Keep

\* The changes under a prefix are kept one after the other.
LEMMA UnderSteps ==
    ASSUME NEW V, NEW cs \in Seq(V), NEW prefix
    PROVE  \E w : /\ Under(prefix, cs) = w[Len(cs)] /\ w[0] = <<>>
                  /\ \A i \in 1 .. Len(cs) : w[i] = Keep(w[i - 1], cs[i], prefix)
                  /\ \A i \in 0 .. Len(cs) : w[i] \in Seq(V)
<1> DEFINE n == Len(cs)
           g == [x \in Seq(V) \X V |-> Keep(x[1], x[2], prefix)]
           F(v) == [i \in 0 .. n |-> IF i = 0 THEN <<>> ELSE Keep(v[i - 1], cs[i], prefix)]
           w == CHOOSE v : v = F(v)
<1>1. n \in Nat /\ \A i \in 1 .. n : cs[i] \in V
    OBVIOUS
<1>2. g \in [Seq(V) \X V -> Seq(V)]
  <2>1. \A x \in Seq(V) \X V : x[1] \in Seq(V) /\ x[2] \in V
      OBVIOUS
  <2>2. \A x \in Seq(V) \X V : Keep(x[1], x[2], prefix) \in Seq(V)
      BY <2>1, KeepIn
  <2> QED
      BY <2>2
<1>3. \E f : f = F(f)
  <2>1. \A s \in Seq(V) : \A c \in V : g[<<s, c>>] = Keep(s, c, prefix)
      OBVIOUS
  <2> HIDE DEF g
  <2>0. PICK f : Gathers(V, cs, g, f)
      BY <1>2, Gathered
  <2>2. /\ f \in [0 .. n -> Seq(V)] /\ f[0] = <<>>
        /\ \A i \in 1 .. n : f[i] = g[<<f[i - 1], cs[i]>>]
      BY <2>0 DEF Gathers
  <2>3. ASSUME NEW i \in 0 .. n PROVE f[i] = IF i = 0 THEN <<>> ELSE Keep(f[i - 1], cs[i], prefix)
    <3>1. CASE i = 0
        BY <2>2, <3>1
    <3>2. CASE i # 0
      <4>1. i \in 1 .. n /\ i - 1 \in 0 .. n
          BY <1>1, <3>2
      <4>2. f[i - 1] \in Seq(V) /\ cs[i] \in V
          BY <1>1, <2>2, <4>1
      <4>3. f[i] = g[<<f[i - 1], cs[i]>>]
          BY <2>2, <4>1
      <4> QED
          BY <2>1, <3>2, <4>2, <4>3
    <3> QED
        BY <3>1, <3>2
  <2>4. f = [i \in 0 .. n |-> f[i]]
      BY <2>2
  <2>5. f = F(f)
      BY <2>3, <2>4
  <2> QED
      BY <2>5
<1>4. w = F(w)
    BY <1>3
<1>5. Under(prefix, cs) = w[n]
    BY DEF Under, Keep
<1> HIDE DEF w
<1>6. /\ w[0] = <<>> /\ <<>> \in Seq(V)
      /\ \A i \in 1 .. n : w[i] = Keep(w[i - 1], cs[i], prefix)
  <2>1. 0 \in 0 .. n /\ \A i \in 1 .. n : i \in 0 .. n /\ i # 0
      BY <1>1
  <2> QED
      BY <1>4, <2>1
<1> HIDE DEF F
<1>7. \A i \in 1 .. n : w[i - 1] \in Seq(V) => w[i] \in Seq(V)
    BY <1>1, <1>6, KeepIn
<1>8. \A i \in 0 .. n : w[i] \in Seq(V)
    BY <1>1, <1>6, <1>7, StaysIn
<1> QED
    BY <1>5, <1>6, <1>8

\* They are of those looked through,
LEMMA UnderIn ==
    ASSUME NEW V, NEW cs \in Seq(V), NEW prefix PROVE Under(prefix, cs) \in Seq(V)
<1>1. Len(cs) \in 0 .. Len(cs)
    OBVIOUS
<1> QED
    BY <1>1, UnderSteps

\* at paths of entries of the wip or of its base.
LEMMA ChangedIn ==
    ASSUME NoCollision, RowsSound(rows), DirIn(DOMAIN rows, cur), DirIn(DOMAIN rows, base), NEW prefix
    PROVE  Changed(prefix) \in Seq(ChangesOf(rows, base, cur))
<1> DEFINE V == ChangesOf(rows, base, cur)
<1>1. DiffTree(rows, base, cur) \in Seq(V)
    BY DiffIn
<1> HIDE DEF V
<1>2. Under(prefix, DiffTree(rows, base, cur)) \in Seq(V)
    BY <1>1, UnderIn
<1>3. InOrder(Under(prefix, DiffTree(rows, base, cur))) \in Seq(V)
    BY <1>2, InOrderIn
<1> QED
    BY <1>3 DEF Changed, V

----------------------------------------------------------------------------
(* Revert.                                                                 *)

\* The undoing of one change is an edit that fits.
LEMMA UndoFits ==
    ASSUME NoCollision, NEW t, RowsSound(t), NEW root, DirIn(DOMAIN t, root),
           root \in Deep[MaxDepth], DirIn(DOMAIN t, base), NEW c, IsPath(c.path)
    PROVE  Fits(DOMAIN t, Undo(t, root, c))
<1> DEFINE b == EntryAt(t, base, c.path).hash
<1>1. CASE Action(c) = "Insert"
    BY <1>1, RemoveFits DEF Undo
<1>2. CASE Action(c) # "Insert" /\ ~HasBlob(t, base, c.path)
  <2>1. Undo(t, root, c) = Fails("path not found")
      BY <1>2 DEF Undo
  <2> QED
      BY <2>1, NothingFits
<1>3. CASE Action(c) # "Insert" /\ HasBlob(t, base, c.path)
  <2>1. b # Empty /\ t[b].type = "blob"
      BY <1>3 DEF HasBlob
  <2>2. EntryIn(DOMAIN t, EntryAt(t, base, c.path))
    <3>1. Len(c.path) \in Nat /\ Len(c.path) \in 0 .. Len(c.path)
        BY DEF IsPath
    <3> QED
        BY <3>1, PathIn DEF EntryAt
  <2>3. b \in Blobs
      BY <2>1, <2>2 DEF EntryIn, DirIn, RowsSound, NodeRow, NoEntry
  <2>4. /\ Fits(DOMAIN t, AddLeaf(t, root, c.path, b))
        /\ Fits(DOMAIN t, ReplaceLeaf(t, root, c.path, b))
      BY <2>3, LeavesFit
  <2> QED
      BY <1>3, <2>4 DEF Undo
<1> QED
    BY <1>1, <1>2, <1>3

\* The tree after so many changes are undone.
Undone(u, c) ==
    LET e == Undo(u.rows, u.root, c)
    IN  IF u.answer # "ok" THEN u
        ELSE [answer |-> e.answer, root |-> e.root, rows |-> InsertAll(u.rows, e.adds)]
AsItIs == [answer |-> "ok", root |-> cur, rows |-> rows]

\* A revert undoes its changes one after the other, each on what the one before left.
LEMMA RevertsOneByOne ==
    ASSUME NEW cs, Len(cs) \in Nat
    PROVE  \E undone : /\ undone[0] = AsItIs
                       /\ \A i \in 1 .. Len(cs) : undone[i] = Undone(undone[i - 1], cs[i])
                       /\ RevertOf(cs) = undone[Len(cs)]
<1> DEFINE F(n, f) == [i \in 0 .. n |-> IF i = 0 THEN AsItIs ELSE Undone(f[i - 1], cs[i])]
           T == {n \in Nat : \E f : f = F(n, f)}
<1>1. 0 \in T
  <2> DEFINE f == [i \in 0 .. 0 |-> AsItIs]
  <2>1. f = F(0, f)
      OBVIOUS
  <2> QED
      BY <2>1
<1>2. ASSUME NEW n \in T PROVE n + 1 \in T
  <2>1. PICK f : f = F(n, f)
      BY <1>2
  <2> DEFINE g == [i \in 0 .. n + 1 |-> IF i \in 0 .. n THEN f[i] ELSE Undone(f[n], cs[n + 1])]
  <2>2. g = F(n + 1, g)
    <3>1. ASSUME NEW i \in 0 .. n + 1, i # 0 PROVE i - 1 \in 0 .. n /\ g[i - 1] = f[i - 1]
        BY <3>1
    <3>2. ASSUME NEW i \in 0 .. n PROVE f[i] = IF i = 0 THEN AsItIs ELSE Undone(f[i - 1], cs[i])
        BY <2>1
    <3> QED
        BY <3>1, <3>2
  <2> HIDE DEF g
  <2>3. \E h : h = F(n + 1, h)
      BY <2>2
  <2>4. n + 1 \in Nat
      OBVIOUS
  <2> HIDE DEF F
  <2> QED
      BY <2>3, <2>4
<1>3. Len(cs) \in T
  <2> HIDE DEF T
  <2> QED
      BY <1>1, <1>2, SetInduction
<1> DEFINE undone == CHOOSE f : f = F(Len(cs), f)
<1>4. undone = F(Len(cs), undone)
    BY <1>3
<1>5. RevertOf(cs) = undone[Len(cs)]
    BY DEF RevertOf, Undone, AsItIs
<1> HIDE DEF undone
<1>6. undone[0] = AsItIs /\ \A i \in 1 .. Len(cs) : undone[i] = Undone(undone[i - 1], cs[i])
    BY <1>4
<1> QED
    BY <1>5, <1>6

\* A revert leaves sound rows, no fewer, and a tree that can be opened.
LEMMA RevertSound ==
    ASSUME NoCollision, RowsSound(rows), DirIn(DOMAIN rows, cur), DirIn(DOMAIN rows, base),
           cur \in Deep[MaxDepth], NEW cs, Len(cs) \in Nat, \A i \in 1 .. Len(cs) : IsPath(cs[i].path)
    PROVE  LET u == RevertOf(cs)
           IN  /\ RowsSound(u.rows) /\ DOMAIN rows \subseteq DOMAIN u.rows
               /\ DirIn(DOMAIN u.rows, u.root) /\ u.root \in Deep[MaxDepth]
<1> DEFINE Good(u) == /\ RowsSound(u.rows) /\ DOMAIN rows \subseteq DOMAIN u.rows
                      /\ DirIn(DOMAIN u.rows, u.root) /\ u.root \in Deep[MaxDepth]
           n == Len(cs)
<1>1. PICK undone : /\ undone[0] = AsItIs
                    /\ \A i \in 1 .. n : undone[i] = Undone(undone[i - 1], cs[i])
                    /\ RevertOf(cs) = undone[n]
    BY RevertsOneByOne
<1> DEFINE T == {i \in Nat : i <= n => Good(undone[i])}
<1>2. 0 \in T
    BY <1>1 DEF AsItIs
<1>3. ASSUME NEW u, Good(u), NEW c, IsPath(c.path) PROVE Good(Undone(u, c))
  <2> DEFINE e == Undo(u.rows, u.root, c)
             t == InsertAll(u.rows, e.adds)
  <2>1. DirIn(DOMAIN u.rows, base)
      BY <1>3 DEF DirIn
  <2>2. Fits(DOMAIN u.rows, e)
      BY <1>3, <2>1, UndoFits
  <2> HIDE DEF e
  <2>3. RowsSound(t) /\ DOMAIN t = DOMAIN u.rows \cup Keys(e.adds, Len(e.adds))
      BY <1>3, <2>2, InsertAllSound DEF Fits
  <2> HIDE DEF t
  <2>4. DirIn(DOMAIN t, e.root) /\ e.root \in Deep[MaxDepth]
      BY <2>2, <2>3 DEF Fits
  <2>5. Undone(u, c) = IF u.answer # "ok" THEN u ELSE [answer |-> e.answer, root |-> e.root, rows |-> t]
      BY DEF Undone, e, t
  <2> QED
      BY <1>3, <2>3, <2>4, <2>5
<1>4. ASSUME NEW i \in Nat, i \in T PROVE i + 1 \in T
  <2> SUFFICES ASSUME i + 1 <= n PROVE Good(undone[i + 1])
      OBVIOUS
  <2>1. Good(undone[i])
      BY <1>4
  <2>2. i + 1 \in 1 .. n /\ (i + 1) - 1 = i
      OBVIOUS
  <2>3. undone[i + 1] = Undone(undone[i], cs[i + 1])
      BY <1>1, <2>2
  <2> HIDE DEF Good
  <2> QED
      BY <1>3, <2>1, <2>2, <2>3
<1> HIDE DEF T, n
<1>5. n \in T
    BY <1>2, <1>4, SetInduction DEF n
<1> QED
    BY <1>1, <1>5 DEF T, n

----------------------------------------------------------------------------
(* The wip.                                                                *)

\* What is stored is sound, the wip's tree and its base can be opened, and so can
\* the root that a request is storing, once the rest of its nodes are there.
WipInv ==
    /\ RowsSound(rows) /\ DirIn(DOMAIN rows, cur) /\ DirIn(DOMAIN rows, base)
    /\ cur \in Deep[MaxDepth] /\ base \in Deep[MaxDepth]
    /\ pending = [op   |-> pending.op,   path |-> pending.path,
                  root |-> pending.root, adds |-> pending.adds]
    /\ Fits(DOMAIN rows, pending)

\* No request has nothing to store.
LEMMA NoneFits == ASSUME NEW D PROVE Fits(D, Nothing)
<1>1. <<>> \in Seq({}) /\ Len(<<>>) = 0
    OBVIOUS
<1> QED
    BY <1>1, EmptyRoot DEF Fits, Nothing, Storable, DirIn

\* A request that begins to store an edit that fits.
LEMMA BeginInv ==
    ASSUME WipInv, NEW op, NEW p, NEW edit, Fits(DOMAIN rows, edit), Begin(op, p, edit)
    PROVE  WipInv'
<1>1. CASE edit.answer = "ok"
  <2>1. UNCHANGED <<rows, cur, base>>
      BY <1>1 DEF Begin
  <2>2. pending' = [op |-> op, path |-> p, root |-> edit.root, adds |-> edit.adds]
      BY <1>1 DEF Begin
  <2>3. Fits(DOMAIN rows, pending')
      BY <2>2 DEF Fits
  <2> QED
      BY <2>1, <2>2, <2>3 DEF WipInv
<1>2. CASE edit.answer # "ok"
    BY <1>2 DEF Begin, Refuse, WipInv
<1> QED
    BY <1>1, <1>2

\* UploadObject (object_ctl.go).
LEMMA UploadInv ==
    ASSUME NoCollision, WipInv, NEW p \in Paths, NEW b \in Blobs, NEW isReplace, Upload(p, b, isReplace)
    PROVE  WipInv'
<1>1. IsPath(p)
    BY WipTreeAssumption, WorkTreeAssumption DEF Names, IsPath
<1>2. /\ Fits(DOMAIN rows, AddLeaf(rows, cur, p, b))
      /\ Fits(DOMAIN rows, ReplaceLeaf(rows, cur, p, b))
    BY <1>1, LeavesFit DEF WipInv
<1>3. ASSUME NEW a, Refuse("upload", p, a) PROVE WipInv'
    BY <1>3 DEF Refuse, WipInv
<1> QED
    BY <1>2, <1>3, BeginInv DEF Upload

\* DeleteObject (object_ctl.go).
LEMMA DeleteInv ==
    ASSUME NoCollision, WipInv, NEW p \in Paths, Delete(p)
    PROVE  WipInv'
<1>1. IsPath(p)
    BY WipTreeAssumption, WorkTreeAssumption DEF Names, IsPath
<1>2. Fits(DOMAIN rows, RemoveEntry(rows, cur, p))
    BY <1>1, RemoveFits DEF WipInv
<1>3. ASSUME NEW a, Refuse("delete", p, a) PROVE WipInv'
    BY <1>3 DEF Refuse, WipInv
<1> QED
    BY <1>2, <1>3, BeginInv DEF Delete

\* The next node of an edit is stored: what it lists is there, and the nodes after
\* it fit.
LEMMA StoreNodeInv == ASSUME WipInv, StoreNode PROVE WipInv'
<1> DEFINE adds == pending.adds
           next == Head(adds)
           rest == Tail(adds)
           D == DOMAIN rows
           E == D \cup {next.hash}
<1>1. PICK S : adds \in Seq(S)
    BY DEF WipInv, Fits, Storable
<1>2. adds # <<>> /\ rows' = Insert(rows, next) /\ UNCHANGED <<cur, base>>
    BY DEF StoreNode
<1>3. pending' = [op   |-> pending.op,   path |-> pending.path,
                  root |-> pending.root, adds |-> rest]
    BY DEF StoreNode, WipInv
<1>4. /\ Storable(D, adds) /\ DirIn(D \cup Keys(adds, Len(adds)), pending.root)
      /\ pending.root \in Deep[MaxDepth]
    BY DEF WipInv, Fits
<1> HIDE DEF adds
<1>5. /\ Len(adds) \in Nat \ {0} /\ rest \in Seq(S) /\ Len(rest) = Len(adds) - 1
      /\ \A i \in 1 .. Len(rest) : rest[i] = adds[i + 1]
      /\ next = adds[1] /\ 1 \in 1 .. Len(adds)
    BY <1>1, <1>2
<1> HIDE DEF next, rest
<1>6. NodeRow(next.hash, next.row) /\ Listed(next.row.kids) \subseteq D
  <2>1. Keys(adds, 1 - 1) = {}
      BY DEF Keys
  <2> QED
      BY <1>4, <1>5, <2>1 DEF Storable
<1>7. RowsSound(rows') /\ DOMAIN rows' = E
    BY <1>2, <1>6, InsertSound DEF WipInv
<1>8. ASSUME NEW i \in 0 .. Len(rest)
      PROVE  D \cup Keys(adds, i + 1) = E \cup Keys(rest, i)
  <2>1. ASSUME NEW j \in 1 .. i + 1 PROVE adds[j].hash \in {next.hash} \cup Keys(rest, i)
    <3>1. CASE j = 1
        BY <1>5, <3>1
    <3>2. CASE j # 1
      <4>1. j - 1 \in 1 .. i /\ j - 1 \in 1 .. Len(rest) /\ (j - 1) + 1 = j
          BY <1>5, <3>2
      <4>2. rest[j - 1] = adds[j]
          BY <1>5, <4>1
      <4> QED
          BY <4>1, <4>2 DEF Keys
    <3> QED
        BY <3>1, <3>2
  <2>2. ASSUME NEW j \in 1 .. i PROVE rest[j].hash \in Keys(adds, i + 1)
    <3>1. j \in 1 .. Len(rest) /\ j + 1 \in 1 .. i + 1
        BY <1>5
    <3>2. rest[j] = adds[j + 1]
        BY <1>5, <3>1
    <3> QED
        BY <3>1, <3>2 DEF Keys
  <2>3. next.hash \in Keys(adds, i + 1)
    <3>1. 1 \in 1 .. i + 1
        BY <1>5
    <3> QED
        BY <1>5, <3>1 DEF Keys
  <2> QED
      BY <2>1, <2>2, <2>3 DEF Keys
<1>9. Storable(E, rest)
  <2> SUFFICES ASSUME NEW i \in 1 .. Len(rest)
               PROVE  /\ NodeRow(rest[i].hash, rest[i].row)
                      /\ Listed(rest[i].row.kids) \subseteq E \cup Keys(rest, i - 1)
      BY <1>5 DEF Storable
  <2>1. i + 1 \in 1 .. Len(adds) /\ i - 1 \in 0 .. Len(rest) /\ (i + 1) - 1 = (i - 1) + 1
      BY <1>5
  <2>2. /\ NodeRow(adds[i + 1].hash, adds[i + 1].row)
        /\ Listed(adds[i + 1].row.kids) \subseteq D \cup Keys(adds, (i + 1) - 1)
      BY <1>4, <2>1 DEF Storable
  <2>3. D \cup Keys(adds, (i + 1) - 1) = E \cup Keys(rest, i - 1)
      BY <1>8, <2>1
  <2> QED
      BY <1>5, <2>2, <2>3
<1>10. DirIn(E \cup Keys(rest, Len(rest)), pending.root)
  <2>1. Len(rest) \in 0 .. Len(rest) /\ Len(rest) + 1 = Len(adds)
      BY <1>5
  <2>2. D \cup Keys(adds, Len(adds)) = E \cup Keys(rest, Len(rest))
      BY <1>8, <2>1
  <2> QED
      BY <1>4, <2>2
<1>11. DirIn(E, cur') /\ DirIn(E, base')
    BY <1>2 DEF WipInv, DirIn
<1> HIDE DEF D, E
<1> QED
    BY <1>2, <1>3, <1>4, <1>7, <1>9, <1>10, <1>11 DEF WipInv, Fits

\* The wip gets its new root when all of its nodes are stored.
LEMMA StoreRootInv == ASSUME WipInv, StoreRoot PROVE WipInv'
<1>1. pending.adds = <<>> /\ cur' = pending.root /\ pending' = Nothing /\ UNCHANGED <<rows, base>>
    BY DEF StoreRoot
<1>2. DirIn(DOMAIN rows, pending.root) /\ pending.root \in Deep[MaxDepth]
  <2>1. Keys(pending.adds, Len(pending.adds)) = {}
      BY <1>1 DEF Keys
  <2> QED
      BY <2>1 DEF WipInv, Fits
<1>3. Fits(DOMAIN rows, Nothing)
    BY NoneFits
<1> QED
    BY <1>1, <1>2, <1>3 DEF WipInv, Nothing

\* Revert of a prefix (work_repo.go).
LEMMA RevertInv ==
    ASSUME NoCollision, WipInv, NEW prefix \in RevertPaths, Revert(prefix)
    PROVE  WipInv'
<1> DEFINE cs == Changed(prefix)
           end == RevertOf(cs)
<1>1. Len(cs) \in Nat /\ \A i \in 1 .. Len(cs) : IsPath(cs[i].path)
  <2>1. cs \in Seq(ChangesOf(rows, base, cur))
      BY ChangedIn DEF WipInv
  <2>2. \A c \in ChangesOf(rows, base, cur) : c.path \in PathsIn(rows, base) \cup PathsIn(rows, cur)
      BY DEF ChangesOf
  <2>3. \A p \in PathsIn(rows, base) \cup PathsIn(rows, cur) : IsPath(p)
    <3>1. /\ PathsIn(rows, base) \subseteq {p \in Seq(Names) : Len(p) \in 1 .. MaxDepth}
          /\ PathsIn(rows, cur) \subseteq {p \in Seq(Names) : Len(p) \in 1 .. MaxDepth}
        BY PathsAre DEF WipInv
    <3> QED
        BY <3>1 DEF IsPath
  <2> QED
      BY <2>1, <2>2, <2>3
<1>2. RevertChanges(prefix, cs)
    BY DEF Revert
<1> HIDE DEF cs
<1>3. /\ RowsSound(end.rows) /\ DOMAIN rows \subseteq DOMAIN end.rows
      /\ DirIn(DOMAIN end.rows, end.root) /\ end.root \in Deep[MaxDepth]
    BY <1>1, RevertSound DEF WipInv
<1>4. ASSUME NEW a, Refuse("revert", prefix, a) PROVE WipInv'
    BY <1>4 DEF Refuse, WipInv
<1>5. CASE Idle /\ rows' = end.rows /\ cur' = end.root /\ UNCHANGED <<base, pending>>
  <2>1. DirIn(DOMAIN end.rows, base)
      BY <1>3 DEF WipInv, DirIn
  <2>2. pending' = Nothing
      BY <1>5 DEF Idle
  <2>3. Fits(DOMAIN end.rows, Nothing)
      BY NoneFits
  <2> HIDE DEF end
  <2> QED
      BY <1>3, <1>5, <2>1, <2>2, <2>3 DEF WipInv, Nothing
<1> QED
    BY <1>2, <1>4, <1>5 DEF RevertChanges

\* Every step keeps the invariant.
LEMMA WipStep ==
    ASSUME NoCollision, WipInv, [Next /\ Bounded]_vars
    PROVE  WipInv'
<1>1. CASE Stop
    BY <1>1, NoneFits DEF Stop, WipInv, Nothing
<1>2. CASE RevertAll \/ Commit
    BY <1>2 DEF RevertAll, Commit, WipInv
<1>3. CASE UNCHANGED vars
    BY <1>3 DEF vars, WipInv
<1> QED
    BY <1>1, <1>2, <1>3, UploadInv, DeleteInv, StoreNodeInv, StoreRootInv, RevertInv DEF Next

\* It holds at the start,
LEMMA WipStart == ASSUME Init PROVE WipInv
<1>1. Fits({}, Nothing)
    BY NoneFits
<1>2. DOMAIN rows = {}
    BY DEF Init
<1> QED
    BY <1>1, <1>2, EmptyRoot DEF Init, WipInv, Nothing, RowsSound, DirIn

\* and makes the files of a tree say its hash.
LEMMA HashesFollow == ASSUME NoCollision, WipInv PROVE SameFilesSameHash
<1> SUFFICES ASSUME NEW h \in {cur, base} PROVE Opens(rows, h) /\ h = TreeHash(Files(rows, h))
    BY DEF SameFilesSameHash
<1>1. RowsSound(rows) /\ DirIn(DOMAIN rows, h) /\ h \in Deep[MaxDepth]
    BY DEF WipInv
<1>2. Opens(rows, h)
    BY <1>1 DEF DirIn, Opens
<1>3. h = TreeHash(Files(rows, h))
    BY <1>1, HashFromFiles
<1> QED
    BY <1>2, <1>3

\* Every stored node is whole, whatever edits are asked for and wherever the
\* server stops between the inserts of one (AddLeaf, ReplaceLeaf and RemoveEntry
\* in worktree.go insert a directory after what it lists), if the hashes of files
\* and directories do not collide.
THEOREM NodesStaySound ==
    ASSUME NoCollision PROVE Spec => []NodesSound
<1>1. Init => WipInv
    BY WipStart
<1>2. WipInv /\ [Next /\ Bounded]_vars => WipInv'
    BY WipStep
<1>3. WipInv => NodesSound
    BY SoundRows DEF WipInv
<1> QED
    BY <1>1, <1>2, <1>3, PTL DEF Spec

\* The wip and its base can always be opened, and their hashes are those of their
\* files, in whatever order files were uploaded, replaced, deleted and reverted
\* (worktree.go drops directories left empty and keys every node by its children).
THEOREM HashesFollowFiles ==
    ASSUME NoCollision PROVE Spec => []SameFilesSameHash
<1>1. Init => WipInv
    BY WipStart
<1>2. WipInv /\ [Next /\ Bounded]_vars => WipInv'
    BY WipStep
<1>3. WipInv => SameFilesSameHash
    BY HashesFollow
<1> QED
    BY <1>1, <1>2, <1>3, PTL DEF Spec

----------------------------------------------------------------------------
(* Walks onward, and the children of two directories in order.             *)

\* From the same entry on, the same names lead to the same entry.
LEMMA SameOnward ==
    ASSUME NEW rws, NEW root, NEW other, NEW p, NEW q, NEW m \in Nat,
           Len(p) \in Nat, Len(q) = Len(p) + m,
           NEW k \in 0 .. Len(p), Along(rws, root, p)[k] = Along(rws, other, q)[k + m],
           \A i \in k + 1 .. Len(p) : p[i] = q[i + m]
    PROVE  EntryAt(rws, root, p) = EntryAt(rws, other, q)
<1> DEFINE n  == Len(p)
           at == Along(rws, root, p)
           bt == Along(rws, other, q)
           S  == {j \in Nat : k + j <= n => at[k + j] = bt[k + j + m]}
<1>0. n \in Nat /\ k \in Nat /\ k <= n /\ Len(q) = n + m /\ n + m \in Nat /\ Len(q) \in Nat
    OBVIOUS
<1>1. /\ at = [i \in 0 .. n |-> IF i = 0 THEN Dir(root) ELSE Below(rws, at[i - 1], p[i])]
      /\ bt = [i \in 0 .. n + m |-> IF i = 0 THEN Dir(other) ELSE Below(rws, bt[i - 1], q[i])]
  <2>0. \A r, s : Len(s) \in Nat =>
            LET w == Along(rws, r, s)
            IN  w = [i \in 0 .. Len(s) |-> IF i = 0 THEN Dir(r) ELSE Below(rws, w[i - 1], s[i])]
      BY AlongEntries
  <2>1. at = [i \in 0 .. n |-> IF i = 0 THEN Dir(root) ELSE Below(rws, at[i - 1], p[i])]
      BY <1>0, <2>0
  <2>2. bt = [i \in 0 .. Len(q) |-> IF i = 0 THEN Dir(other) ELSE Below(rws, bt[i - 1], q[i])]
      BY <1>0, <2>0
  <2> HIDE DEF at, bt, n
  <2> QED
      BY <1>0, <2>1, <2>2
<1>2. at[k] = bt[k + m]
    OBVIOUS
<1>3. \A i \in k + 1 .. n : p[i] = q[i + m]
    OBVIOUS
<1>4. EntryAt(rws, root, p) = at[n] /\ EntryAt(rws, other, q) = bt[n + m]
    BY DEF EntryAt
<1> HIDE DEF at, bt, n
<1>5. 0 \in S
    BY <1>0, <1>2
<1>6. ASSUME NEW j \in Nat, j \in S PROVE j + 1 \in S
  <2> SUFFICES ASSUME k + (j + 1) <= n PROVE at[k + (j + 1)] = bt[k + (j + 1) + m]
      OBVIOUS
  <2> DEFINE i == k + (j + 1)
  <2>1. /\ i \in k + 1 .. n /\ i \in 0 .. n /\ i # 0 /\ i - 1 = k + j /\ k + j <= n
        /\ i + m \in 0 .. n + m /\ i + m # 0 /\ (i + m) - 1 = k + j + m
      BY <1>0
  <2>2. at[k + j] = bt[k + j + m]
      BY <1>6, <2>1
  <2>3. p[i] = q[i + m]
      BY <1>3, <2>1
  <2> HIDE DEF i, S
  <2>4. at[i] = Below(rws, at[k + j], p[i]) /\ bt[i + m] = Below(rws, bt[k + j + m], q[i + m])
      BY <1>1, <2>1
  <2> QED
      BY <2>2, <2>3, <2>4 DEF i
<1> HIDE DEF S
<1>7. n - k \in S
  <2>1. n - k \in Nat
      BY <1>0
  <2>2. Nat \subseteq S
      BY <1>5, <1>6, SetInduction
  <2> QED
      BY <2>1, <2>2
<1>8. at[n] = bt[n + m]
  <2>1. n - k \in Nat /\ k + (n - k) = n /\ n <= n
      BY <1>0
  <2> QED
      BY <1>7, <2>1 DEF S
<1> QED
    BY <1>4, <1>8

\* The names of N as paths, each once.
Numbered(N, u) ==
    /\ Len(u) \in Nat
    /\ \A i \in 1 .. Len(u) : u[i][1] \in N /\ u[i] = <<u[i][1]>>
    /\ \A n \in N : \E i \in 1 .. Len(u) : u[i][1] = n
    /\ \A i, j \in 1 .. Len(u) : i # j => u[i][1] # u[j][1]

\* Names put in order are in order, each once.
LEMMA SortedNames ==
    ASSUME NEW N, N \subseteq Names, IsFiniteSet(N)
    PROVE  Numbered(N, Sorted({<<n>> : n \in N}))
<1> DEFINE f == [n \in N |-> <<n>>]
           U == {<<n>> : n \in N}
           u == Sorted(U)
<1>1. ASSUME NEW n \in N PROVE <<n>> \in Seq(Nat)
    BY DEF Names
<1>2. U = {f[n] : n \in N} /\ DOMAIN f = N /\ f = [n \in N |-> f[n]]
    OBVIOUS
<1> HIDE DEF f
<1>3. IsFiniteSet({f[n] : n \in N})
    BY <1>2, ImageFinite
<1>4. U \subseteq Seq(Nat) /\ IsFiniteSet(U)
    BY <1>1, <1>2, <1>3
<1> HIDE DEF U
<1>5. /\ u \in Seq(U) /\ {u[i] : i \in 1 .. Len(u)} = U
      /\ \A i, j \in 1 .. Len(u) : i # j => u[i] # u[j]
    BY <1>4, SortedLists
<1> HIDE DEF u
<1>6. Len(u) \in Nat /\ \A i \in 1 .. Len(u) : u[i] \in U
    BY <1>5
<1>7. ASSUME NEW i \in 1 .. Len(u) PROVE u[i][1] \in N /\ u[i] = <<u[i][1]>>
  <2>1. PICK n \in N : u[i] = <<n>>
      BY <1>6 DEF U
  <2> QED
      BY <2>1
<1>8. ASSUME NEW n \in N PROVE \E i \in 1 .. Len(u) : u[i][1] = n
  <2>1. <<n>> \in U
      BY DEF U
  <2>2. PICK i \in 1 .. Len(u) : u[i] = <<n>>
      BY <1>5, <2>1
  <2>3. u[i][1] = n
      BY <2>2
  <2> QED
      BY <2>3
<1>9. ASSUME NEW i \in 1 .. Len(u), NEW j \in 1 .. Len(u), u[i][1] = u[j][1] PROVE i = j
    BY <1>5, <1>7, <1>9
<1> QED
    BY <1>6, <1>7, <1>8, <1>9 DEF Numbered, u, U

\* Directories with the same children's hashes in the same order have the same
\* children, under these names or others.
LEMMA ChildrenPair ==
    ASSUME NEW rws, NEW h, NEW g, SameChildren(rws, h, g),
           KidsRight(Kids(rws, h)), KidsRight(Kids(rws, g))
    PROVE  LET K == Kids(rws, h)
               L == Kids(rws, g)
           IN  \E move \in Injection(DOMAIN K, DOMAIN L) : \A n \in DOMAIN K : L[move[n]] = K[n]
<1> DEFINE K == Kids(rws, h)
           L == Kids(rws, g)
           S == {<<n>> : n \in DOMAIN K}
           T == {<<n>> : n \in DOMAIN L}
           s == Sorted(S)
           t == Sorted(T)
<1>1. /\ DOMAIN K \subseteq Names /\ IsFiniteSet(DOMAIN K) /\ \A n \in DOMAIN K : EntryRight(K[n])
      /\ DOMAIN L \subseteq Names /\ IsFiniteSet(DOMAIN L) /\ \A n \in DOMAIN L : EntryRight(L[n])
    BY DEF KidsRight
<1>2. [i \in 1 .. Len(s) |-> K[s[i][1]].hash] = [i \in 1 .. Len(t) |-> L[t[i][1]].hash]
    BY DEF SameChildren, ChildHashes
<1>3. \A N : N \subseteq Names /\ IsFiniteSet(N) => Numbered(N, Sorted({<<n>> : n \in N}))
    BY SortedNames
<1>4. /\ Len(s) \in Nat
      /\ \A i \in 1 .. Len(s) : s[i][1] \in DOMAIN K
      /\ \A n \in DOMAIN K : \E i \in 1 .. Len(s) : s[i][1] = n
    BY <1>1, <1>3 DEF Numbered
<1>5. /\ Len(t) \in Nat
      /\ \A i \in 1 .. Len(t) : t[i][1] \in DOMAIN L
      /\ \A i, j \in 1 .. Len(t) : i # j => t[i][1] # t[j][1]
    BY <1>1, <1>3 DEF Numbered
<1> HIDE DEF K, L, s, t
<1>6. Len(s) = Len(t)
  <2>1. 1 .. Len(s) = 1 .. Len(t)
      BY <1>2
  <2> QED
      BY <1>4, <1>5, <2>1
<1>7. \A i \in 1 .. Len(s) : K[s[i][1]].hash = L[t[i][1]].hash
    BY <1>2, <1>6
<1> DEFINE place(n) == CHOOSE i \in 1 .. Len(s) : s[i][1] = n
           move == [n \in DOMAIN K |-> t[place(n)][1]]
<1>8. ASSUME NEW n \in DOMAIN K PROVE place(n) \in 1 .. Len(s) /\ s[place(n)][1] = n
    BY <1>4
<1> HIDE DEF place
<1>9. move \in Injection(DOMAIN K, DOMAIN L)
  <2>1. move \in [DOMAIN K -> DOMAIN L]
      BY <1>5, <1>6, <1>8
  <2>2. ASSUME NEW m \in DOMAIN K, NEW n \in DOMAIN K, move[m] = move[n] PROVE m = n
    <3>1. place(m) = place(n)
        BY <1>5, <1>6, <1>8, <2>2
    <3> QED
        BY <1>8, <3>1
  <2> QED
      BY <2>1, <2>2 DEF Injection, IsInjective
<1>10. ASSUME NEW n \in DOMAIN K PROVE L[move[n]] = K[n]
  <2>1. move[n] \in DOMAIN L /\ L[move[n]].hash = K[n].hash
      BY <1>5, <1>6, <1>7, <1>8
  <2> HIDE DEF move
  <2> QED
      BY <1>1, <2>1 DEF EntryRight
<1> QED
    BY <1>9, <1>10 DEF K, L

----------------------------------------------------------------------------
(* The files with the same content below a directory.                      *)

\* The files below a directory with a content.
Alike(rws, root, d, b) ==
    {p \in DOMAIN Files(rws, root) : IsStrictPrefix(d, p) /\ Files(rws, root)[p] = b}

\* Where a directory's files were only renamed, each has its copy on the other side.
LEMMA CopiesAtMost ==
    ASSUME NoCollision, NEW rws, RowsSound(rws),
           NEW from, DirIn(DOMAIN rws, from), NEW to, DirIn(DOMAIN rws, to), NEW d \in Seq(Names),
           EntryAt(rws, from, d).isDir, EntryAt(rws, to, d).isDir,
           SameChildren(rws, EntryAt(rws, from, d).hash, EntryAt(rws, to, d).hash), NEW b
    PROVE  /\ Cardinality(Alike(rws, from, d, b)) \in Nat
           /\ Cardinality(Alike(rws, from, d, b)) <= Cardinality(Alike(rws, to, d, b))
<1> DEFINE K == Kids(rws, EntryAt(rws, from, d).hash)
           L == Kids(rws, EntryAt(rws, to, d).hash)
           S == Alike(rws, from, d, b)
           T == Alike(rws, to, d, b)
           k == Len(d) + 1
<1>0. Len(d) \in Nat /\ k \in Nat \ {0} /\ k - 1 = Len(d)
    OBVIOUS
<1>1. /\ DirIn(DOMAIN rws, EntryAt(rws, from, d).hash)
      /\ \A n \in DOMAIN K : n \in Names /\ EntryAt(rws, from, Append(d, n)) = K[n]
      /\ \A n \in Names : EntryAt(rws, from, Append(d, n)) # NoEntry => n \in DOMAIN K
    BY ChildrenAt
<1>2. /\ DirIn(DOMAIN rws, EntryAt(rws, to, d).hash)
      /\ \A n \in DOMAIN L : n \in Names /\ EntryAt(rws, to, Append(d, n)) = L[n]
    BY ChildrenAt
<1>3. KidsRight(K) /\ KidsRight(L)
  <2>1. Opens(rws, EntryAt(rws, from, d).hash) /\ Opens(rws, EntryAt(rws, to, d).hash)
      BY <1>1, <1>2 DEF DirIn, Opens
  <2> QED
      BY <2>1, KidsOfNode
<1>4. PICK move \in Injection(DOMAIN K, DOMAIN L) : \A n \in DOMAIN K : L[move[n]] = K[n]
    BY <1>3, ChildrenPair
<1>5. /\ \A n \in DOMAIN K : move[n] \in DOMAIN L
      /\ \A m, n \in DOMAIN K : move[m] = move[n] => m = n
    BY DEF Injection, IsInjective
<1> DEFINE g(p) == [i \in 1 .. Len(p) |-> IF i = k THEN move[p[i]] ELSE p[i]]
<1> HIDE DEF K, L
<1>6. ASSUME NEW p \in S
      PROVE  /\ p \in Seq(Names) /\ Len(p) \in k .. MaxDepth /\ p[k] \in DOMAIN K
             /\ EntryAt(rws, from, p) = File(b)
             /\ Along(rws, from, p)[k] = K[p[k]]
             /\ \A i \in 1 .. Len(d) : p[i] = d[i]
  <2>1. p \in FilePaths(rws, from) /\ IsStrictPrefix(d, p) /\ EntryAt(rws, from, p).hash = b
      BY DEF Alike, Files, FilePaths
  <2>2. /\ p \in Seq(Names) /\ Len(p) \in 1 .. MaxDepth
        /\ EntryAt(rws, from, p) # NoEntry /\ ~EntryAt(rws, from, p).isDir
      BY <2>1, FilePathsAre
  <2>3. p \in Seq(Nat) /\ d \in Seq(Nat)
      BY <2>2 DEF Names
  <2>4. Len(d) < Len(p) /\ \A i \in 1 .. Len(d) : d[i] = p[i]
      BY <2>1, <2>3, PrefixIs
  <2>5. EntryAt(rws, from, p) = File(b)
    <3>1. p \in PathsIn(rws, from)
        BY <2>1 DEF FilePaths
    <3> QED
        BY <2>1, <2>2, <3>1, EntryKind
  <2>6. Len(p) \in k .. MaxDepth /\ k \in 1 .. Len(p) /\ Len(d) \in 0 .. Len(p) - 1
      BY <1>0, <2>2, <2>4
  <2> DEFINE q == SubSeq(p, 1, Len(d))
  <2>7. q \in Seq(Names) /\ Len(q) = Len(d) /\ (\A j \in 1 .. Len(d) : q[j] = p[j])
        /\ EntryAt(rws, from, Append(q, p[k])) # NoEntry
      BY <2>2, <2>6, WayDown
  <2>8. q = d
      BY <2>4, <2>7
  <2> HIDE DEF q
  <2>9. p[k] \in Names
      BY <2>2, <2>6
  <2>10. p[k] \in DOMAIN K
      BY <1>1, <2>7, <2>8, <2>9 DEF K
  <2>11. EntryAt(rws, from, Append(d, p[k])) = K[p[k]]
      BY <1>1, <2>10 DEF K
  <2>12. Along(rws, from, p)[k] = Along(rws, from, Append(d, p[k]))[k]
    <3> DEFINE dn == Append(d, p[k])
    <3>1. Len(dn) = k /\ \A i \in 1 .. k : p[i] = dn[i]
        BY <1>0, <2>4, <2>9
    <3>2. k \in 0 .. Len(p) /\ Len(p) \in Nat /\ k \in Nat /\ k <= k
        BY <1>0, <2>2, <2>6
    <3> HIDE DEF k, dn
    <3>3. Along(rws, from, p)[k] = Along(rws, from, dn)[k]
        BY <3>1, <3>2, AlongPrefix
    <3> QED
        BY <3>3 DEF dn
  <2>13. Len(Append(d, p[k])) = k
      OBVIOUS
  <2> HIDE DEF k
  <2> QED
      BY <2>2, <2>4, <2>5, <2>6, <2>10, <2>11, <2>12, <2>13 DEF EntryAt
<1>7. ASSUME NEW p \in S PROVE g(p) \in T
  <2> DEFINE q == g(p)
  <2>1. /\ p \in Seq(Names) /\ Len(p) \in k .. MaxDepth /\ p[k] \in DOMAIN K
        /\ EntryAt(rws, from, p) = File(b)
        /\ Along(rws, from, p)[k] = K[p[k]]
        /\ \A i \in 1 .. Len(d) : p[i] = d[i]
      BY <1>6
  <2> HIDE DEF S, T
  <2>2. move[p[k]] \in DOMAIN L /\ move[p[k]] \in Names
      BY <1>2, <1>5, <2>1 DEF L
  <2>3. Len(p) \in Nat /\ k \in 1 .. Len(p) /\ \A i \in 1 .. Len(p) : p[i] \in Names
      BY <1>0, <2>1
  <2>4. /\ q \in Seq(Names) /\ Len(q) = Len(p) /\ q[k] = move[p[k]]
        /\ \A i \in 1 .. Len(p) : i # k => q[i] = p[i]
      BY <2>2, <2>3
  <2> HIDE DEF q
  <2>5. \A i \in 1 .. Len(d) : q[i] = d[i]
    <3>1. \A i \in 1 .. Len(d) : i \in 1 .. Len(p) /\ i # k
        BY <1>0, <2>3
    <3> HIDE DEF k
    <3> QED
        BY <2>1, <2>4, <3>1
  <2>6. EntryAt(rws, to, Append(d, q[k])) = K[p[k]]
      BY <1>2, <1>4, <2>1, <2>2, <2>4 DEF L
  <2>7. Along(rws, to, q)[k] = K[p[k]]
    <3> DEFINE dn == Append(d, q[k])
    <3>1. Len(dn) = k /\ \A i \in 1 .. k : q[i] = dn[i]
        BY <1>0, <2>2, <2>4, <2>5
    <3>2. k \in 0 .. Len(q) /\ Len(q) \in Nat /\ k \in Nat /\ k <= k
        BY <1>0, <2>3, <2>4
    <3>4. EntryAt(rws, to, dn) = K[p[k]]
        BY <2>6
    <3> HIDE DEF k, dn
    <3>3. Along(rws, to, q)[k] = Along(rws, to, dn)[k]
        BY <3>1, <3>2, AlongPrefix
    <3> QED
        BY <3>1, <3>3, <3>4 DEF EntryAt
  <2>8. EntryAt(rws, from, p) = EntryAt(rws, to, q)
    <3>1. 0 \in Nat /\ Len(q) = Len(p) + 0 /\ k \in 0 .. Len(p) /\ k + 0 = k
        BY <1>0, <2>3, <2>4
    <3>2. Along(rws, from, p)[k] = Along(rws, to, q)[k + 0]
        BY <2>1, <2>7, <3>1
    <3>3. \A i \in k + 1 .. Len(p) : p[i] = q[i + 0]
        BY <1>0, <2>3, <2>4
    <3>4. Len(p) \in Nat
        BY <2>3
    <3> HIDE DEF k
    <3>5. ASSUME NEW m \in Nat, Len(q) = Len(p) + m, Along(rws, from, p)[k] = Along(rws, to, q)[k + m],
                 \A i \in k + 1 .. Len(p) : p[i] = q[i + m]
          PROVE  EntryAt(rws, from, p) = EntryAt(rws, to, q)
      <4>1. k \in 0 .. Len(p)
          BY <3>1
      <4> HIDE <3>1
      <4> QED
          BY <3>4, <3>5, <4>1, SameOnward
    <3> QED
        BY <3>1, <3>2, <3>3, <3>5
  <2>9. q \in FilePaths(rws, to)
    <3>1. Len(q) \in 1 .. MaxDepth
        BY <1>0, <2>1, <2>4
    <3>2. EntryAt(rws, to, q).hash = b /\ ~EntryAt(rws, to, q).isDir
        BY <2>1, <2>8 DEF File
    <3>3. EntryAt(rws, to, q) # NoEntry
      <4>1. p \in FilePaths(rws, from)
          BY DEF S, Alike, Files, FilePaths
      <4> QED
          BY <2>8, <4>1, FilePathsAre
    <3> QED
        BY <2>4, <3>1, <3>2, <3>3, FilePathsAre
  <2>10. q \in DOMAIN Files(rws, to) /\ Files(rws, to)[q] = b
      BY <2>1, <2>8, <2>9 DEF Files, FilePaths, File
  <2>11. IsStrictPrefix(d, q)
    <3>1. d \in Seq(Nat) /\ q \in Seq(Nat)
        BY <2>4 DEF Names
    <3>2. Len(d) < Len(q)
        BY <1>0, <2>1, <2>4
    <3> QED
        BY <2>5, <3>1, <3>2, PrefixIs
  <2> QED
      BY <2>10, <2>11 DEF T, Alike, q
<1>8. ASSUME NEW p \in S, NEW q \in S, g(p) = g(q) PROVE p = q
  <2>1. /\ p \in Seq(Names) /\ Len(p) \in k .. MaxDepth /\ p[k] \in DOMAIN K
        /\ q \in Seq(Names) /\ Len(q) \in k .. MaxDepth /\ q[k] \in DOMAIN K
      BY <1>6
  <2>2. Len(p) \in Nat /\ Len(q) \in Nat
      BY <2>1
  <2>3. 1 .. Len(p) = 1 .. Len(q)
      BY <1>8
  <2>4. Len(p) = Len(q)
      BY <2>2, <2>3
  <2>5. ASSUME NEW i \in 1 .. Len(p) PROVE p[i] = q[i]
    <3>1. g(p)[i] = g(q)[i]
        BY <1>8
    <3>2. g(p)[i] = (IF i = k THEN move[p[i]] ELSE p[i]) /\ g(q)[i] = (IF i = k THEN move[q[i]] ELSE q[i])
        BY <2>4
    <3> QED
        BY <1>5, <2>1, <3>1, <3>2
  <2> QED
      BY <2>1, <2>4, <2>5
<1>9. IsFiniteSet(T) /\ IsFiniteSet(S)
  <2>1. IsFiniteSet(PathsIn(rws, to)) /\ IsFiniteSet(PathsIn(rws, from))
      BY PathsAre
  <2>2. T \subseteq PathsIn(rws, to) /\ S \subseteq PathsIn(rws, from)
      BY DEF Alike, Files
  <2> QED
      BY <2>1, <2>2, FS_Subset
<1> DEFINE f == [p \in S |-> g(p)]
<1> HIDE DEF S, T, g
<1>10. f \in Injection(S, T)
    BY <1>7, <1>8 DEF Injection, IsInjective
<1>11. Cardinality(S) <= Cardinality(T)
    BY <1>9, <1>10, FS_Injection
<1>12. Cardinality(S) \in Nat
    BY <1>9, FS_CardinalityType
<1> QED
    BY <1>11, <1>12 DEF S, T

----------------------------------------------------------------------------
(* Directories that were only renamed in, and trees with the same files.   *)

\* FlatTree's words for paths and sets are those of WipTree.
LEMMA SameWords ==
    /\ \A p, q : Flat!IsPrefix(p, q) <=> IsPrefix(p, q)
    /\ \A p, q : Flat!IsStrictPrefix(p, q) <=> IsStrictPrefix(p, q)
    /\ \A S : Flat!Cardinality(S) = Cardinality(S)
<1>1. \A p, q : Flat!IsPrefix(p, q) <=> IsPrefix(p, q)
    BY DEF IsPrefix, Flat!IsPrefix
<1>2. \A p, q : Flat!IsStrictPrefix(p, q) <=> IsStrictPrefix(p, q)
    BY <1>1 DEF IsStrictPrefix, Flat!IsStrictPrefix
<1>3. ASSUME NEW S PROVE Flat!Cardinality(S) = Cardinality(S)
    BY DEF Flat!Cardinality, Cardinality, IsFiniteSet, Flat!IsFiniteSet
<1> QED
    BY <1>1, <1>2, <1>3

\* In a directory that is only renamed in, each content is as often as before.
LEMMA RenamedMoves ==
    ASSUME NoCollision, RowsSound(rows), DirIn(DOMAIN rows, cur), DirIn(DOMAIN rows, base),
           NEW d \in OnlyRenamed(rows, base, cur)
    PROVE  Flat!Moved(d)
<1>1. /\ d \in PathsIn(rows, base) /\ EntryAt(rows, base, d).isDir /\ EntryAt(rows, cur, d).isDir
      /\ SameChildren(rows, EntryAt(rows, base, d).hash, EntryAt(rows, cur, d).hash)
    BY DEF OnlyRenamed
<1>2. d \in Seq(Names)
    BY <1>1, PathsAre
<1>3. SameChildren(rows, EntryAt(rows, cur, d).hash, EntryAt(rows, base, d).hash)
    BY <1>1 DEF SameChildren
<1>4. ASSUME NEW b PROVE Cardinality(Alike(rows, cur, d, b)) = Cardinality(Alike(rows, base, d, b))
  <2>1. /\ Cardinality(Alike(rows, base, d, b)) \in Nat
        /\ Cardinality(Alike(rows, base, d, b)) <= Cardinality(Alike(rows, cur, d, b))
      BY <1>1, <1>2, CopiesAtMost
  <2>2. /\ Cardinality(Alike(rows, cur, d, b)) \in Nat
        /\ Cardinality(Alike(rows, cur, d, b)) <= Cardinality(Alike(rows, base, d, b))
      BY <1>1, <1>2, <1>3, CopiesAtMost
  <2> QED
      BY <2>1, <2>2
<1>5. ASSUME NEW b
      PROVE  /\ Flat!Copies(Files(rows, cur), d, b) = Cardinality(Alike(rows, cur, d, b))
             /\ Flat!Copies(Files(rows, base), d, b) = Cardinality(Alike(rows, base, d, b))
    BY SameWords DEF Flat!Copies, Alike
<1> QED
    BY <1>4, <1>5 DEF Flat!Moved

\* A tree of so many levels is one of more.
LEMMA DeepGrows == ASSUME NEW k \in 0 .. MaxDepth PROVE Deep[k] \subseteq Deep[MaxDepth]
<1> DEFINE T == {m \in Nat : m + 1 <= MaxDepth => Deep[m] \subseteq Deep[m + 1]}
           U == {j \in Nat : k + j <= MaxDepth => Deep[k] \subseteq Deep[k + j]}
<1>0. MaxDepth \in Nat
    BY WorkTreeAssumption
<1>1. 0 \in T
    BY <1>0, DeepIs
<1>2. ASSUME NEW m \in Nat, m \in T PROVE m + 1 \in T
  <2> SUFFICES ASSUME m + 1 + 1 <= MaxDepth PROVE Deep[m + 1] \subseteq Deep[m + 1 + 1]
      OBVIOUS
  <2>1. Deep[m] \subseteq Deep[m + 1]
      BY <1>0, <1>2
  <2>2. m \in 0 .. MaxDepth - 1 /\ m + 1 \in 0 .. MaxDepth - 1
      BY <1>0
  <2>3. Deep[m + 1] = HashesOf(Deep[m]) /\ Deep[m + 1 + 1] = HashesOf(Deep[m + 1])
      BY <2>2, DeepIs
  <2>4. HashesOf(Deep[m]) \subseteq HashesOf(Deep[m + 1])
    <3>1. ASSUME NEW N, NEW f \in [N -> Blobs \cup Deep[m]] PROVE f \in [N -> Blobs \cup Deep[m + 1]]
        BY <2>1
    <3> QED
        BY <3>1 DEF HashesOf
  <2> QED
      BY <2>3, <2>4
<1> HIDE DEF T
<1>3. Nat \subseteq T
    BY <1>1, <1>2, SetInduction
<1>4. 0 \in U
    OBVIOUS
<1>5. ASSUME NEW j \in Nat, j \in U PROVE j + 1 \in U
  <2>1. k + j \in T
      BY <1>3
  <2> QED
      BY <1>0, <1>5, <2>1 DEF T
<1> HIDE DEF U
<1>6. MaxDepth - k \in Nat /\ k + (MaxDepth - k) = MaxDepth
    BY <1>0
<1>7. MaxDepth - k \in U
    BY <1>4, <1>5, <1>6, SetInduction
<1> QED
    BY <1>0, <1>6, <1>7 DEF U

\* There is nothing deeper than a tree is.
LEMMA NothingDeeper ==
    ASSUME NoCollision, NEW rws, RowsSound(rws), NEW root, DirIn(DOMAIN rws, root),
           root \in Deep[MaxDepth], NEW p \in Seq(Names), Len(p) > MaxDepth
    PROVE  EntryAt(rws, root, p) = NoEntry
<1> SUFFICES ASSUME EntryAt(rws, root, p) # NoEntry PROVE FALSE
    OBVIOUS
<1>0. MaxDepth \in Nat /\ Len(p) \in Nat /\ MaxDepth \in 0 .. Len(p) - 1
    BY WorkTreeAssumption
<1> DEFINE q == SubSeq(p, 1, MaxDepth)
<1>1. q \in Seq(Names) /\ Len(q) = MaxDepth /\ EntryAt(rws, root, q).isDir
    BY <1>0, WayDown
<1> HIDE DEF q
<1>2. Along(rws, root, q)[MaxDepth].isDir
    BY <1>1 DEF EntryAt
<1>3. Along(rws, root, q)[MaxDepth].hash \in Deep[MaxDepth - MaxDepth]
  <2>1. MaxDepth \in 0 .. Len(q) /\ Len(q) \in Nat /\ MaxDepth <= MaxDepth
      BY <1>0, <1>1
  <2> QED
      BY <1>2, <2>1, DirDeep
<1>4. MaxDepth - MaxDepth = 0
    BY <1>0
<1> QED
    BY <1>3, <1>4, DeepIs

\* The files of a directory as a tree of its own.
LEMMA FilesWithin ==
    ASSUME NoCollision, NEW rws, RowsSound(rws), NEW root, DirIn(DOMAIN rws, root),
           root \in Deep[MaxDepth], NEW d \in Seq(Names), NEW g, EntryAt(rws, root, d) = Dir(g),
           DirIn(DOMAIN rws, g), NEW q \in Seq(Names), q # <<>>
    PROVE  FileAt(rws, g, q) = FileAt(rws, root, d \o q)
<1> DEFINE p == d \o q
           m == Len(d)
<1>0. MaxDepth \in Nat
    BY WorkTreeAssumption
<1>1. /\ p \in Seq(Names) /\ m \in Nat /\ Len(q) \in Nat \ {0} /\ Len(p) = Len(q) + m /\ Len(p) \in Nat
      /\ \A i \in 1 .. m : d[i] = p[i]
      /\ \A i \in 1 .. Len(q) : q[i] = p[i + m]
    OBVIOUS
<1> HIDE DEF p
<1>2. Along(rws, g, q)[0] = Along(rws, root, p)[0 + m]
  <2>1. Along(rws, g, q)[0] = Dir(g)
      BY <1>1, RootFirst
  <2>2. Along(rws, root, d)[m] = Along(rws, root, p)[m]
    <3>0. \A s, u : Len(s) \in Nat /\ Len(u) \in Nat =>
              \A k \in 0 .. Len(s) : k <= Len(u) /\ (\A i \in 1 .. k : s[i] = u[i])
                  => Along(rws, root, s)[k] = Along(rws, root, u)[k]
        BY AlongPrefix
    <3>1. m \in 0 .. Len(d) /\ m <= Len(p) /\ Len(d) \in Nat
        BY <1>1
    <3> QED
        BY <1>1, <3>0, <3>1
  <2>3. Along(rws, root, d)[m] = Dir(g)
      BY DEF EntryAt
  <2>4. 0 + m = m
      BY <1>1
  <2> QED
      BY <2>1, <2>2, <2>3, <2>4
<1>3. EntryAt(rws, g, q) = EntryAt(rws, root, p)
  <2>1. 0 \in 0 .. Len(q) /\ Len(q) \in Nat
      BY <1>1
  <2>2. \A i \in 0 + 1 .. Len(q) : q[i] = p[i + m]
      BY <1>1
  <2> HIDE DEF m
  <2> QED
      BY <1>1, <1>2, <2>1, <2>2, SameOnward
<1>4. /\ FileAt(rws, g, q) = IF Len(q) \in 1 .. MaxDepth THEN FileOf(EntryAt(rws, g, q)) ELSE NoEntry
      /\ FileAt(rws, root, p) = IF Len(p) \in 1 .. MaxDepth THEN FileOf(EntryAt(rws, root, p)) ELSE NoEntry
    BY <1>1, FileAtIs
<1> HIDE DEF m
<1> SUFFICES FileAt(rws, g, q) = FileAt(rws, root, p)
    BY DEF p
<1>5. CASE Len(p) <= MaxDepth
    BY <1>0, <1>1, <1>3, <1>4, <1>5
<1>6. CASE Len(p) > MaxDepth
  <2>1. EntryAt(rws, root, p) = NoEntry
      BY <1>1, <1>6, NothingDeeper
  <2>2. FileOf(NoEntry) = NoEntry
      BY DEF FileOf
  <2> QED
      BY <1>0, <1>1, <1>3, <1>4, <1>6, <2>1, <2>2
<1> QED
    BY <1>0, <1>1, <1>5, <1>6

\* What a tree's files are, from what it holds at each path.
LEMMA FilesAre ==
    ASSUME NoCollision, NEW rws, RowsSound(rws), NEW root, DirIn(DOMAIN rws, root),
           NEW f, f = [q \in DOMAIN f |-> f[q]], \A q \in DOMAIN f : f[q] \in Blobs,
           \A q : FileAt(rws, root, q) = IF q \in DOMAIN f THEN File(f[q]) ELSE NoEntry
    PROVE  Files(rws, root) = f
<1> DEFINE F == Files(rws, root)
<1>1. F = [q \in DOMAIN F |-> F[q]]
    BY DEF Files
<1>2. \A b \in Blobs : b # Empty
    BY EmptyHash DEF NoCollision
<1>3. ASSUME NEW q PROVE q \in DOMAIN F <=> FileAt(rws, root, q) # NoEntry
    BY FileAtIs
<1>4. ASSUME NEW q \in DOMAIN F PROVE FileAt(rws, root, q) = File(F[q])
    BY FileAtIs
<1> HIDE DEF F
<1>5. ASSUME NEW q PROVE q \in DOMAIN F <=> q \in DOMAIN f
    BY <1>2, <1>3 DEF File, NoEntry
<1>6. ASSUME NEW q \in DOMAIN F PROVE F[q] = f[q]
    BY <1>4, <1>5 DEF File
<1> QED
    BY <1>1, <1>5, <1>6 DEF F

\* Two trees that hold the same at each path have the same files.
LEMMA SameFiles ==
    ASSUME NoCollision, NEW rws, RowsSound(rws), NEW root, DirIn(DOMAIN rws, root),
           NEW t, RowsSound(t), NEW other, DirIn(DOMAIN t, other),
           \A q : FileAt(rws, root, q) = FileAt(t, other, q)
    PROVE  Files(rws, root) = Files(t, other)
<1> DEFINE f == Files(t, other)
<1>1. f = [q \in DOMAIN f |-> f[q]]
    BY DEF Files
<1>2. \A q : FileAt(t, other, q) = IF q \in DOMAIN f THEN File(f[q]) ELSE NoEntry
    BY DEF FileAt
<1>3. \A q \in DOMAIN f : f[q] \in Blobs
    BY FileAtIs
<1> HIDE DEF f
<1>4. \A q : FileAt(rws, root, q) = IF q \in DOMAIN f THEN File(f[q]) ELSE NoEntry
    BY <1>2
<1> QED
    BY <1>1, <1>3, <1>4, FilesAre DEF f

\* In a directory that is only renamed in, some file differs.
LEMMA RenamedDiffer ==
    ASSUME NoCollision, NEW rws, RowsSound(rws),
           NEW from, DirIn(DOMAIN rws, from), from \in Deep[MaxDepth],
           NEW to, DirIn(DOMAIN rws, to), to \in Deep[MaxDepth],
           NEW d \in OnlyRenamed(rws, from, to)
    PROVE  \E q \in Seq(Names) : IsStrictPrefix(d, q) /\ FileAt(rws, from, q) # FileAt(rws, to, q)
<1> DEFINE g == EntryAt(rws, from, d).hash
           h == EntryAt(rws, to, d).hash
<1>1. /\ d \in PathsIn(rws, from) /\ d \in PathsIn(rws, to)
      /\ EntryAt(rws, from, d).isDir /\ EntryAt(rws, to, d).isDir
      /\ EntryAt(rws, from, d) # EntryAt(rws, to, d)
    BY DEF OnlyRenamed
<1>2. d \in Seq(Names) /\ Len(d) \in 1 .. MaxDepth
    BY <1>1, PathsAre
<1>3. EntryAt(rws, from, d) = Dir(g) /\ EntryAt(rws, to, d) = Dir(h)
    BY <1>1, EntryKind
<1>4. DirIn(DOMAIN rws, g) /\ DirIn(DOMAIN rws, h)
    BY <1>1, <1>2, ChildrenAt
<1>5. g \in Deep[MaxDepth] /\ h \in Deep[MaxDepth]
  <2>0. MaxDepth \in Nat /\ Len(d) \in Nat /\ Len(d) \in 0 .. Len(d) /\ Len(d) <= MaxDepth
        /\ MaxDepth - Len(d) \in 0 .. MaxDepth
      BY <1>2, WorkTreeAssumption
  <2>1. g \in Deep[MaxDepth - Len(d)] /\ h \in Deep[MaxDepth - Len(d)]
      BY <1>1, <2>0, DirDeep DEF EntryAt
  <2> QED
      BY <2>0, <2>1, DeepGrows
<1>6. g # h
    BY <1>1, <1>3
<1> HIDE DEF g, h
<1> SUFFICES ASSUME \A q \in Seq(Names) : IsStrictPrefix(d, q) => FileAt(rws, from, q) = FileAt(rws, to, q)
             PROVE  FALSE
    OBVIOUS
<1>7. ASSUME NEW q PROVE FileAt(rws, g, q) = FileAt(rws, h, q)
  <2>1. CASE q \in Seq(Names) /\ q # <<>>
    <3>1. FileAt(rws, g, q) = FileAt(rws, from, d \o q) /\ FileAt(rws, h, q) = FileAt(rws, to, d \o q)
        BY <1>2, <1>3, <1>4, <2>1, FilesWithin
    <3> DEFINE p == d \o q
    <3>2. p \in Seq(Names) /\ p \in Seq(Nat) /\ d \in Seq(Nat) /\ Len(d) < Len(p) /\ \A i \in 1 .. Len(d) : d[i] = p[i]
        BY <1>2, <2>1 DEF Names
    <3>3. FileAt(rws, g, q) = FileAt(rws, from, p) /\ FileAt(rws, h, q) = FileAt(rws, to, p)
        BY <3>1
    <3> HIDE DEF p
    <3>4. IsStrictPrefix(d, p)
        BY <3>2, PrefixIs
    <3> QED
        BY <3>2, <3>3, <3>4
  <2>2. CASE ~(q \in Seq(Names) /\ q # <<>>)
    <3>1. ~(q \in Seq(Names) /\ Len(q) \in 1 .. MaxDepth)
        BY <2>2
    <3> QED
        BY <1>4, <3>1, FileAtIs
  <2> QED
      BY <2>1, <2>2
<1>8. Files(rws, g) = Files(rws, h)
    BY <1>4, <1>7, SameFiles
<1>9. g = TreeHash(Files(rws, g)) /\ h = TreeHash(Files(rws, h))
    BY <1>4, <1>5, HashFromFiles
<1> QED
    BY <1>6, <1>8, <1>9

----------------------------------------------------------------------------
(* What the files of a tree say about a path.                              *)

\* What stands at a path and on the way to it, by the files of the tree.
LEMMA PathByFiles ==
    ASSUME NoCollision, NEW rws, RowsSound(rws), NEW root, DirIn(DOMAIN rws, root),
           root \in Deep[MaxDepth], NEW p \in Seq(Names), Len(p) \in 1 .. MaxDepth
    PROVE  LET f == Files(rws, root)
               e == EntryAt(rws, root, p)
           IN  /\ BlobInTheWay(rws, root, p) <=> \E q \in DOMAIN f : IsStrictPrefix(q, p)
               /\ e.isDir <=> \E q \in DOMAIN f : IsStrictPrefix(p, q)
               /\ p \in DOMAIN f <=> e # NoEntry /\ ~e.isDir
               /\ p \in DOMAIN f => e = File(f[p])
               /\ BlobInTheWay(rws, root, p) => e = NoEntry
<1> DEFINE f == Files(rws, root)
           e == EntryAt(rws, root, p)
<1>1. BlobInTheWay(rws, root, p) => (\E q \in DOMAIN f : IsStrictPrefix(q, p)) /\ e = NoEntry
    BY WayIsBarred
<1>2. e.isDir => \E q \in DOMAIN f : IsStrictPrefix(p, q)
    BY DirHasFile
<1>3. \A q \in DOMAIN f : /\ q \in Seq(Names) /\ Len(q) \in 1 .. MaxDepth
                          /\ q \in PathsIn(rws, root)
                          /\ EntryAt(rws, root, q) # NoEntry /\ ~EntryAt(rws, root, q).isDir
  <2>1. DOMAIN f = FilePaths(rws, root)
      BY DEF Files, FilePaths
  <2>2. FilePaths(rws, root) \subseteq PathsIn(rws, root)
      BY DEF FilePaths
  <2> QED
      BY <2>1, <2>2, FilePathsAre
<1>4. p \in Seq(Nat) /\ p # <<>> /\ \A q \in DOMAIN f : q \in Seq(Nat) /\ q # <<>>
    BY <1>3 DEF Names
<1>5. p \in DOMAIN f <=> e # NoEntry /\ ~e.isDir
  <2>1. DOMAIN f = FilePaths(rws, root)
      BY DEF Files, FilePaths
  <2> QED
      BY <2>1, FilePathsAre
<1>6. p \in DOMAIN f => e = File(f[p])
  <2> SUFFICES ASSUME p \in DOMAIN f PROVE e = File(f[p])
      OBVIOUS
  <2>1. p \in PathsIn(rws, root) /\ f[p] = e.hash /\ ~e.isDir
      BY <1>3 DEF Files
  <2> QED
      BY <2>1, EntryKind
<1>7. ASSUME NEW q \in DOMAIN f, IsStrictPrefix(p, q) PROVE e.isDir
  <2>1. IsPrefix(p, q) /\ p # q
      BY <1>7 DEF IsStrictPrefix
  <2> QED
      BY <1>3, <1>4, <2>1, PathsClosed
<1>8. ASSUME NEW q \in DOMAIN f, IsStrictPrefix(q, p) PROVE BlobInTheWay(rws, root, p)
  <2>1. Len(q) < Len(p) /\ \A i \in 1 .. Len(q) : q[i] = p[i]
      BY <1>4, <1>8, PrefixIs
  <2>2. Len(q) \in 1 .. Len(p) - 1 /\ Len(q) \in 0 .. Len(q) /\ Len(q) <= Len(p) /\ Len(p) \in Nat /\ Len(q) \in Nat
      BY <1>3, <2>1
  <2>3. Along(rws, root, q)[Len(q)] = Along(rws, root, p)[Len(q)]
      BY <2>1, <2>2, AlongPrefix
  <2>4. EntryAt(rws, root, q) = Along(rws, root, q)[Len(q)]
      BY DEF EntryAt
  <2> QED
      BY <1>3, <2>2, <2>3, <2>4 DEF BlobInTheWay
<1> QED
    BY <1>1, <1>2, <1>5, <1>6, <1>7, <1>8

\* No file of a tree is below another.
LEMMA FilesApart ==
    ASSUME NoCollision, NEW rws, RowsSound(rws), NEW root, DirIn(DOMAIN rws, root),
           NEW p \in DOMAIN Files(rws, root), NEW q \in DOMAIN Files(rws, root)
    PROVE  /\ ~IsStrictPrefix(p, q)
           /\ p \in Seq(Names) /\ Len(p) \in 1 .. MaxDepth
<1>0. DOMAIN Files(rws, root) = FilePaths(rws, root) /\ FilePaths(rws, root) \subseteq PathsIn(rws, root)
    BY DEF Files, FilePaths
<1>1. /\ p \in Seq(Names) /\ Len(p) \in 1 .. MaxDepth /\ ~EntryAt(rws, root, p).isDir
      /\ q \in PathsIn(rws, root)
    BY <1>0, FilePathsAre
<1>2. p # <<>>
    BY <1>1
<1>3. ASSUME IsStrictPrefix(p, q) PROVE FALSE
  <2>1. IsPrefix(p, q) /\ p # q
      BY <1>3 DEF IsStrictPrefix
  <2> QED
      BY <1>1, <1>2, <2>1, PathsClosed
<1> QED
    BY <1>1, <1>3

\* FindBlob finds the files.
LEMMA BlobIsFile ==
    ASSUME NoCollision, NEW rws, RowsSound(rws), NEW root, DirIn(DOMAIN rws, root),
           root \in Deep[MaxDepth], NEW p \in Seq(Names), Len(p) \in 1 .. MaxDepth
    PROVE  HasBlob(rws, root, p) <=> p \in DOMAIN Files(rws, root)
<1> DEFINE e == EntryAt(rws, root, p)
<1>1. EntryIn(DOMAIN rws, e)
  <2>1. Len(p) \in Nat /\ Len(p) \in 0 .. Len(p)
      OBVIOUS
  <2> QED
      BY <2>1, PathIn DEF EntryAt
<1>2. /\ p \in DOMAIN Files(rws, root) <=> e # NoEntry /\ ~e.isDir
      /\ BlobInTheWay(rws, root, p) => e = NoEntry
    BY PathByFiles
<1>3. \A g \in DOMAIN rws : g \notin Blobs <=> rws[g].type = "tree"
    BY DEF RowsSound, NodeRow, NoCollision, BlobRow
<1>4. \A g \in DOMAIN rws : g \in Blobs => rws[g].type = "blob"
    BY DEF RowsSound, NodeRow, NoCollision, BlobRow
<1>5. \A b \in Blobs : b # Empty
    BY EmptyHash DEF NoCollision
<1>6. HasBlob(rws, root, p) <=> ~BlobInTheWay(rws, root, p) /\ e.hash # Empty /\ rws[e.hash].type = "blob"
    BY DEF HasBlob
<1> HIDE DEF e
<1>7. CASE e = NoEntry
    BY <1>2, <1>6, <1>7 DEF NoEntry
<1>8. CASE e # NoEntry /\ e = Dir(e.hash) /\ DirIn(DOMAIN rws, e.hash)
  <2>1. e.isDir = TRUE
      BY <1>8 DEF Dir
  <2>2. e.hash # Empty => rws[e.hash].type = "tree"
      BY <1>3, <1>8 DEF DirIn
  <2> QED
      BY <1>2, <1>6, <2>1, <2>2
<1>9. CASE e # NoEntry /\ e = File(e.hash) /\ e.hash \in Blobs \cap DOMAIN rws
  <2>1. e.isDir = FALSE
      BY <1>9 DEF File
  <2> QED
      BY <1>2, <1>4, <1>5, <1>6, <1>9, <2>1
<1> QED
    BY <1>1, <1>7, <1>8, <1>9 DEF EntryIn

\* The rest of the rows after the first make the same table.
LEMMA RestInserted ==
    ASSUME NEW rws, NEW S, NEW adds \in Seq(S), adds # <<>>
    PROVE  InsertAll(Insert(rws, Head(adds)), Tail(adds)) = InsertAll(rws, adds)
<1> DEFINE s == Tail(adds)
           n == Len(s)
           t == Insert(rws, Head(adds))
<1>1. /\ Len(adds) = n + 1 /\ n \in Nat /\ Len(adds) \in Nat /\ Head(adds) = adds[1]
      /\ \A i \in 1 .. n : s[i] = adds[i + 1]
    OBVIOUS
<1> HIDE DEF s, t
<1>2. PICK after : /\ after[0] = rws
                   /\ \A i \in 1 .. Len(adds) : after[i] = Insert(after[i - 1], adds[i])
                   /\ InsertAll(rws, adds) = after[Len(adds)]
    BY <1>1, InsertsOneByOne
<1>3. PICK rest : /\ rest[0] = t
                  /\ \A i \in 1 .. n : rest[i] = Insert(rest[i - 1], s[i])
                  /\ InsertAll(t, s) = rest[n]
    BY <1>1, InsertsOneByOne
<1> DEFINE T == {i \in Nat : i <= n => rest[i] = after[i + 1]}
<1>4. 0 \in T
  <2>1. 1 \in 1 .. Len(adds) /\ 1 - 1 = 0 /\ 0 + 1 = 1
      BY <1>1
  <2>2. after[1] = Insert(after[0], adds[1])
      BY <1>2, <2>1
  <2>3. rest[0] = after[0 + 1]
      BY <1>1, <1>2, <1>3, <2>1, <2>2 DEF t
  <2> QED
      BY <2>3
<1>5. ASSUME NEW i \in Nat, i \in T PROVE i + 1 \in T
  <2> SUFFICES ASSUME i + 1 <= n PROVE rest[i + 1] = after[i + 1 + 1]
      OBVIOUS
  <2>1. /\ i + 1 \in 1 .. n /\ (i + 1) - 1 = i
        /\ i + 1 + 1 \in 1 .. Len(adds) /\ (i + 1 + 1) - 1 = i + 1
      BY <1>1
  <2>2. rest[i + 1] = Insert(rest[i], s[i + 1])
      BY <1>3, <2>1
  <2>3. after[i + 1 + 1] = Insert(after[i + 1], adds[i + 1 + 1])
      BY <1>2, <2>1
  <2>4. rest[i] = after[i + 1]
      BY <1>5
  <2> QED
      BY <1>1, <2>1, <2>2, <2>3, <2>4
<1> HIDE DEF T, n
<1>6. n \in T
    BY <1>1, <1>4, <1>5, SetInduction
<1>7. rest[n] = after[n + 1]
    BY <1>1, <1>6 DEF T
<1> QED
    BY <1>1, <1>2, <1>3, <1>7 DEF s, t, n

\* Nothing to insert changes nothing.
LEMMA NoneInserted == ASSUME NEW rws PROVE InsertAll(rws, <<>>) = rws
<1>1. Len(<<>>) = 0 /\ Len(<<>>) \in Nat
    OBVIOUS
<1> QED
    BY <1>1, InsertsOneByOne

----------------------------------------------------------------------------
(* Edits as changes of a set of files.                                     *)

\* A map of files with another content at a path, and without what is at or below it.
WithFile(f, p, b) == [q \in DOMAIN f \cup {p} |-> IF q = p THEN b ELSE f[q]]
Dropped(f, p)     == [q \in {r \in DOMAIN f : ~IsPrefix(p, r)} |-> f[q]]

\* An upload's edit gives the path its content and changes no other file.
LEMMA EditPuts ==
    ASSUME NoCollision, NEW rws, RowsSound(rws), NEW root, DirIn(DOMAIN rws, root),
           root \in Deep[MaxDepth], NEW p \in Seq(Names), Len(p) \in 1 .. MaxDepth,
           ~BlobInTheWay(rws, root, p), ~EntryAt(rws, root, p).isDir, NEW b \in Blobs
    PROVE  LET edit == Edited(rws, root, p, File(b))
           IN  Files(InsertAll(rws, edit.adds), edit.root) = WithFile(Files(rws, root), p, b)
<1> DEFINE e == File(b)
           edit == Edited(rws, root, p, e)
           t == InsertAll(rws, edit.adds)
           f == Files(rws, root)
           g == WithFile(f, p, b)
<1>1. IsPath(p) /\ (e = NoEntry \/ \E x \in Blobs : e = File(x))
    BY DEF IsPath
<1> HIDE DEF e
<1>2. /\ RowsSound(t) /\ DirIn(DOMAIN t, edit.root)
      /\ FileAt(t, edit.root, p) = e
      /\ \A q : q # p => FileAt(t, edit.root, q) = FileAt(rws, root, q)
    BY <1>1, EditedFiles
<1>3. \A q \in DOMAIN f : f[q] \in Blobs
    BY FileAtIs
<1>4. \A q : FileAt(rws, root, q) = IF q \in DOMAIN f THEN File(f[q]) ELSE NoEntry
    BY DEF FileAt
<1> HIDE DEF f
<1>5. /\ g = [q \in DOMAIN g |-> g[q]] /\ DOMAIN g = DOMAIN f \cup {p}
      /\ \A q \in DOMAIN g : g[q] = IF q = p THEN b ELSE f[q]
    BY DEF WithFile
<1> HIDE DEF g, edit, t
<1>6. \A q \in DOMAIN g : g[q] \in Blobs
    BY <1>3, <1>5
<1>7. \A q : FileAt(t, edit.root, q) = IF q \in DOMAIN g THEN File(g[q]) ELSE NoEntry
    BY <1>2, <1>4, <1>5 DEF e
<1>8. Files(t, edit.root) = g
    BY <1>2, <1>5, <1>6, <1>7, FilesAre
<1> QED
    BY <1>8 DEF g, edit, t, f, e

\* A deletion's edit leaves the files that are not at or below the path.
LEMMA EditDrops ==
    ASSUME NoCollision, NEW rws, RowsSound(rws), NEW root, DirIn(DOMAIN rws, root),
           root \in Deep[MaxDepth], NEW p \in Seq(Names), Len(p) \in 1 .. MaxDepth,
           ~BlobInTheWay(rws, root, p)
    PROVE  LET edit == Edited(rws, root, p, NoEntry)
           IN  Files(InsertAll(rws, edit.adds), edit.root) = Dropped(Files(rws, root), p)
<1> DEFINE edit == Edited(rws, root, p, NoEntry)
           t == InsertAll(rws, edit.adds)
           f == Files(rws, root)
           g == Dropped(f, p)
<1>1. IsPath(p)
    BY DEF IsPath
<1>2. /\ RowsSound(t) /\ DirIn(DOMAIN t, edit.root)
      /\ \A q \in Seq(Names) : /\ IsPrefix(p, q) => EntryAt(t, edit.root, q) = NoEntry
                               /\ ~IsPrefix(p, q) => FileOf(EntryAt(t, edit.root, q)) = FileOf(EntryAt(rws, root, q))
  <2>1. <<>> \in Seq(Names)
      OBVIOUS
  <2>2. ASSUME NEW q \in Seq(Names)
        PROVE  /\ RowsSound(t) /\ DirIn(DOMAIN t, edit.root)
               /\ IsPrefix(p, q) => EntryAt(t, edit.root, q) = NoEntry
               /\ ~IsPrefix(p, q) => FileOf(EntryAt(t, edit.root, q)) = FileOf(EntryAt(rws, root, q))
    <3>1. NoEntry = NoEntry \/ \E b \in Blobs : NoEntry = File(b)
        OBVIOUS
    <3> QED
        BY <1>1, <3>1, EditedEntries
  <2> QED
      BY <2>1, <2>2
<1>3. \A q \in DOMAIN f : f[q] \in Blobs
    BY FileAtIs
<1>4. \A q : FileAt(rws, root, q) = IF q \in DOMAIN f THEN File(f[q]) ELSE NoEntry
    BY DEF FileAt
<1>5. DOMAIN f \subseteq Seq(Names)
    BY FilesApart
<1> HIDE DEF f
<1>6. /\ g = [q \in DOMAIN g |-> g[q]] /\ DOMAIN g = {q \in DOMAIN f : ~IsPrefix(p, q)}
      /\ \A q \in DOMAIN g : g[q] = f[q]
    BY DEF Dropped
<1> HIDE DEF g, edit, t
<1>7. ASSUME NEW q PROVE FileAt(t, edit.root, q) = IF q \in DOMAIN g THEN File(g[q]) ELSE NoEntry
  <2>1. FileAt(t, edit.root, q) =
            IF q \in Seq(Names) /\ Len(q) \in 1 .. MaxDepth THEN FileOf(EntryAt(t, edit.root, q)) ELSE NoEntry
      BY <1>2, FileAtIs
  <2>2. FileAt(rws, root, q) =
            IF q \in Seq(Names) /\ Len(q) \in 1 .. MaxDepth THEN FileOf(EntryAt(rws, root, q)) ELSE NoEntry
      BY FileAtIs
  <2>3. FileOf(NoEntry) = NoEntry
      BY DEF FileOf
  <2>4. CASE q \in Seq(Names) /\ IsPrefix(p, q)
      BY <1>2, <1>6, <2>1, <2>3, <2>4
  <2>5. CASE q \in Seq(Names) /\ ~IsPrefix(p, q)
    <3>1. FileAt(t, edit.root, q) = FileAt(rws, root, q)
        BY <1>2, <2>1, <2>2, <2>5
    <3>2. q \in DOMAIN f <=> q \in DOMAIN g
        BY <1>6, <2>5
    <3> QED
        BY <1>4, <1>6, <3>1, <3>2
  <2>6. CASE q \notin Seq(Names)
      BY <1>5, <1>6, <2>1, <2>6
  <2> QED
      BY <2>4, <2>5, <2>6
<1>8. \A q \in DOMAIN g : g[q] \in Blobs
    BY <1>3, <1>6
<1>9. Files(t, edit.root) = g
    BY <1>2, <1>6, <1>7, <1>8, FilesAre
<1> QED
    BY <1>9 DEF g, edit, t, f

\* What the request that is storing its edit will have done.
PendingDoes ==
    LET f == Files(rows, cur)
        g == Files(InsertAll(rows, pending.adds), pending.root)
        p == pending.path
    IN  \/ pending = Nothing
        \/ /\ pending.op = "upload" /\ p \in Paths
           /\ \A q \in DOMAIN f : ~IsStrictPrefix(q, p) /\ ~IsStrictPrefix(p, q)
           /\ \E b \in Blobs : g = WithFile(f, p, b)
        \/ /\ pending.op = "delete" /\ p \in Paths
           /\ \E q \in DOMAIN f : IsPrefix(p, q)
           /\ g = Dropped(f, p)

\* A step of FlatTree, or none.
FlatStep == Flat!Next \/ UNCHANGED <<Files(rows, cur), Files(rows, base), answered>>

\* The paths clients name.
LEMMA PathNamed ==
    ASSUME NEW p \in Paths PROVE p \in Seq(Names) /\ Len(p) \in 1 .. MaxDepth
BY WipTreeAssumption DEF Names

\* FlatTree's words for files above and below a path.
LEMMA FlatWords ==
    ASSUME NEW p
    PROVE  /\ Flat!Above(p) <=> \E q \in DOMAIN Files(rows, cur) : IsStrictPrefix(q, p)
           /\ Flat!Below(p) <=> \E q \in DOMAIN Files(rows, cur) : IsStrictPrefix(p, q)
BY SameWords DEF Flat!Above, Flat!Below

\* A request that begins changes no file.
LEMMA BeginStutters ==
    ASSUME NEW op, NEW p, NEW edit, edit.answer = "ok", Begin(op, p, edit)
    PROVE  FlatStep
<1>1. UNCHANGED <<rows, cur, base, answered>>
    BY DEF Begin
<1> QED
    BY <1>1 DEF FlatStep

\* UploadObject (object_ctl.go): it is answered by what the files are, or begins
\* to store an edit that puts the file.
LEMMA UploadFlat ==
    ASSUME NoCollision, WipInv, NEW p \in Paths, NEW b \in Blobs, NEW isReplace, Upload(p, b, isReplace)
    PROVE  FlatStep /\ PendingDoes'
<1> DEFINE f == Files(rows, cur)
           e == EntryAt(rows, cur, p)
<1>0. p \in Seq(Names) /\ Len(p) \in 1 .. MaxDepth
    BY PathNamed
<1>1. /\ RowsSound(rows) /\ DirIn(DOMAIN rows, cur) /\ cur \in Deep[MaxDepth]
    BY DEF WipInv
<1>2. /\ BlobInTheWay(rows, cur, p) <=> \E q \in DOMAIN f : IsStrictPrefix(q, p)
      /\ e.isDir <=> \E q \in DOMAIN f : IsStrictPrefix(p, q)
      /\ p \in DOMAIN f <=> e # NoEntry /\ ~e.isDir
      /\ p \in DOMAIN f => e = File(f[p])
      /\ BlobInTheWay(rows, cur, p) => e = NoEntry
    BY <1>0, <1>1, PathByFiles
<1>3. HasBlob(rows, cur, p) <=> p \in DOMAIN f
    BY <1>0, <1>1, BlobIsFile
<1>4. f = [q \in DOMAIN f |-> f[q]]
    BY DEF Files
<1>5. /\ Flat!Above(p) <=> \E q \in DOMAIN f : IsStrictPrefix(q, p)
      /\ Flat!Below(p) <=> \E q \in DOMAIN f : IsStrictPrefix(p, q)
    BY FlatWords
<1>6. pending = Nothing
    BY DEF Upload, Idle
<1>7. ASSUME NEW a, Refuse("upload", p, a),
             \/ a = "blob must be leaf" /\ Flat!Above(p)
             \/ a = "entry exit" /\ Flat!Below(p)
             \/ a = "conflict" /\ p \in DOMAIN f
      PROVE  FlatStep /\ PendingDoes'
  <2>1. UNCHANGED <<rows, cur, base, pending>> /\ answered' = [op |-> "upload", path |-> p, answer |-> a]
      BY <1>7 DEF Refuse, Answer
  <2>2. Flat!RefusePut(p)
      BY <1>7, <2>1 DEF Flat!RefusePut, Flat!Answer
  <2> QED
      BY <1>6, <2>1, <2>2 DEF FlatStep, Flat!Next, PendingDoes
<1>8. ASSUME Refuse("upload", p, "ok"), p \in DOMAIN f, f[p] = b
      PROVE  FlatStep /\ PendingDoes'
  <2>1. UNCHANGED <<rows, cur, base, pending>> /\ answered' = [op |-> "upload", path |-> p, answer |-> "ok"]
      BY <1>8 DEF Refuse, Answer
  <2>2. ~Flat!Above(p) /\ ~Flat!Below(p)
      BY <1>1, <1>5, <1>8, FilesApart
  <2>3. f = [q \in DOMAIN f \cup {p} |-> IF q = p THEN b ELSE f[q]]
    <3> HIDE DEF f
    <3> QED
        BY <1>4, <1>8
  <2>4. Flat!Put(p, b)
      BY <2>1, <2>2, <2>3 DEF Flat!Put, Flat!Answer
  <2> QED
      BY <1>6, <2>1, <2>4 DEF FlatStep, Flat!Next, PendingDoes
<1>9. ASSUME ~BlobInTheWay(rows, cur, p), ~e.isDir,
             Begin("upload", p, Does(Edited(rows, cur, p, File(b))))
      PROVE  FlatStep /\ PendingDoes'
  <2> DEFINE edit == Edited(rows, cur, p, File(b))
  <2>1. Files(InsertAll(rows, edit.adds), edit.root) = WithFile(f, p, b)
      BY <1>0, <1>1, <1>9, EditPuts
  <2>2. \A q \in DOMAIN f : ~IsStrictPrefix(q, p) /\ ~IsStrictPrefix(p, q)
      BY <1>2, <1>9
  <2> HIDE DEF edit
  <2>3. /\ Does(edit).answer = "ok" /\ Does(edit).root = edit.root /\ Does(edit).adds = edit.adds
      BY DEF Does
  <2>4. Begin("upload", p, Does(edit))
      BY <1>9 DEF edit
  <2>5. FlatStep
      BY <2>3, <2>4, BeginStutters
  <2>6. /\ UNCHANGED <<rows, cur>>
        /\ pending' = [op |-> "upload", path |-> p, root |-> edit.root, adds |-> edit.adds]
      BY <2>3, <2>4 DEF Begin
  <2> QED
      BY <2>1, <2>2, <2>5, <2>6 DEF PendingDoes
<1>10. CASE BlobInTheWay(rows, cur, p)
    BY <1>2, <1>5, <1>7, <1>10 DEF Upload
<1>11. CASE ~BlobInTheWay(rows, cur, p) /\ ~HasBlob(rows, cur, p)
  <2>1. Begin("upload", p, AddLeaf(rows, cur, p, b))
      BY <1>11 DEF Upload
  <2>2. CASE e # NoEntry
    <3> DEFINE r == AddLeaf(rows, cur, p, b)
    <3>1. r.answer = "entry exit"
        BY <1>11, <2>2 DEF AddLeaf, Fails
    <3> HIDE DEF r
    <3>2. Refuse("upload", p, "entry exit")
      <4>1. Begin("upload", p, r)
          BY <2>1 DEF r
      <4> QED
          BY <3>1, <4>1 DEF Begin
    <3>3. Flat!Below(p)
        BY <1>2, <1>3, <1>5, <1>11, <2>2
    <3> QED
        BY <1>7, <3>2, <3>3
  <2>3. CASE e = NoEntry
    <3>1. AddLeaf(rows, cur, p, b) = Does(Edited(rows, cur, p, File(b)))
        BY <1>11, <2>3 DEF AddLeaf
    <3>2. ~e.isDir
        BY <2>3 DEF NoEntry
    <3> QED
        BY <1>9, <1>11, <2>1, <3>1, <3>2
  <2> QED
      BY <2>2, <2>3
<1>12. CASE ~BlobInTheWay(rows, cur, p) /\ HasBlob(rows, cur, p)
  <2>1. p \in DOMAIN f /\ e.hash = f[p] /\ e # NoEntry /\ ~e.isDir
      BY <1>2, <1>3, <1>12 DEF File
  <2>2. CASE e.hash = b
      BY <1>8, <1>12, <2>1, <2>2 DEF Upload
  <2>3. CASE e.hash # b /\ ~isReplace
      BY <1>7, <1>12, <2>1, <2>3 DEF Upload
  <2>4. CASE e.hash # b /\ isReplace
    <3>1. Begin("upload", p, ReplaceLeaf(rows, cur, p, b))
        BY <1>12, <2>4 DEF Upload
    <3>2. ReplaceLeaf(rows, cur, p, b) = Does(Edited(rows, cur, p, File(b)))
        BY <1>12, <2>1 DEF ReplaceLeaf
    <3> QED
        BY <1>9, <1>12, <2>1, <3>1, <3>2
  <2> QED
      BY <2>2, <2>3, <2>4
<1> QED
    BY <1>10, <1>11, <1>12

\* DeleteObject (object_ctl.go): a path that names nothing is not found, below a
\* file there is nothing to delete, and otherwise it begins to store an edit.
LEMMA DeleteFlat ==
    ASSUME NoCollision, WipInv, NEW p \in Paths, Delete(p)
    PROVE  FlatStep /\ PendingDoes'
<1> DEFINE f == Files(rows, cur)
           e == EntryAt(rows, cur, p)
           r == RemoveEntry(rows, cur, p)
<1>0. p \in Seq(Names) /\ Len(p) \in 1 .. MaxDepth
    BY PathNamed
<1>1. /\ RowsSound(rows) /\ DirIn(DOMAIN rows, cur) /\ cur \in Deep[MaxDepth]
    BY DEF WipInv
<1>2. /\ BlobInTheWay(rows, cur, p) <=> \E q \in DOMAIN f : IsStrictPrefix(q, p)
      /\ e.isDir <=> \E q \in DOMAIN f : IsStrictPrefix(p, q)
      /\ p \in DOMAIN f <=> e # NoEntry /\ ~e.isDir
      /\ BlobInTheWay(rows, cur, p) => e = NoEntry
    BY <1>0, <1>1, PathByFiles
<1>3. f = [q \in DOMAIN f |-> f[q]]
    BY DEF Files
<1>4. /\ Flat!Above(p) <=> \E q \in DOMAIN f : IsStrictPrefix(q, p)
      /\ Flat!Below(p) <=> \E q \in DOMAIN f : IsStrictPrefix(p, q)
    BY FlatWords
<1>5. pending = Nothing
    BY DEF Delete, Idle
<1>6. \A q \in DOMAIN f : IsPrefix(p, q) <=> p = q \/ IsStrictPrefix(p, q)
  <2>1. p \in Seq(Nat) /\ \A q \in DOMAIN f : q \in Seq(Nat)
      BY <1>0, <1>1, FilesApart DEF Names
  <2> QED
      BY <2>1, PrefixOf
<1>7. ASSUME NEW a, Refuse("delete", p, a), e = NoEntry,
             \/ a = "ok" /\ BlobInTheWay(rows, cur, p)
             \/ a = "path not found" /\ ~BlobInTheWay(rows, cur, p)
      PROVE  FlatStep /\ PendingDoes'
  <2>1. UNCHANGED <<rows, cur, base, pending>> /\ answered' = [op |-> "delete", path |-> p, answer |-> a]
      BY <1>7 DEF Refuse, Answer
  <2>2. ~e.isDir
    <3>1. e = NoEntry
        BY <1>7
    <3> HIDE DEF e
    <3> QED
        BY <3>1 DEF NoEntry
  <2>3. \A q \in DOMAIN f : ~IsPrefix(p, q)
      BY <1>2, <1>6, <1>7, <2>2
  <2>4. f = [q \in {s \in DOMAIN f : ~Flat!IsPrefix(p, s)} |-> f[q]]
    <3>1. \A q \in DOMAIN f : ~Flat!IsPrefix(p, q)
        BY <2>3, SameWords
    <3>2. {s \in DOMAIN f : ~Flat!IsPrefix(p, s)} = DOMAIN f
        BY <3>1
    <3> HIDE DEF f
    <3> QED
        BY <1>3, <3>2
  <2>5. \/ answered' = [op |-> "delete", path |-> p, answer |-> "ok"] /\ Flat!Above(p)
        \/ /\ answered' = [op |-> "delete", path |-> p, answer |-> "path not found"]
           /\ ~(p \in DOMAIN f \/ Flat!Below(p) \/ Flat!Above(p))
      BY <1>2, <1>4, <1>7, <2>1, <2>2
  <2>6. Flat!Delete(p)
      BY <2>1, <2>4, <2>5 DEF Flat!Delete, Flat!Answer
  <2> QED
      BY <1>5, <2>1, <2>6 DEF FlatStep, Flat!Next, PendingDoes
<1>8. CASE BlobInTheWay(rows, cur, p)
  <2>1. r = Fails("blob must be leaf")
      BY <1>8 DEF RemoveEntry
  <2>2. r.answer = "blob must be leaf"
    <3> HIDE DEF r
    <3> QED
        BY <2>1 DEF Fails
  <2>3. Refuse("delete", p, "ok")
      BY <2>2 DEF Delete
  <2> QED
      BY <1>2, <1>7, <1>8, <2>3
<1>9. CASE ~BlobInTheWay(rows, cur, p) /\ e = NoEntry
  <2>1. r = Fails("path not found")
      BY <1>9 DEF RemoveEntry
  <2>2. r.answer = "path not found"
    <3> HIDE DEF r
    <3> QED
        BY <2>1 DEF Fails
  <2>3. Begin("delete", p, r)
      BY <2>2 DEF Delete
  <2> HIDE DEF r
  <2>4. Refuse("delete", p, "path not found")
      BY <2>2, <2>3 DEF Begin
  <2> QED
      BY <1>7, <1>9, <2>4
<1>10. CASE ~BlobInTheWay(rows, cur, p) /\ e # NoEntry
  <2> DEFINE edit == Edited(rows, cur, p, NoEntry)
  <2>1. r = Does(edit)
      BY <1>10 DEF RemoveEntry
  <2>2. Files(InsertAll(rows, edit.adds), edit.root) = Dropped(f, p)
      BY <1>0, <1>1, <1>10, EditDrops
  <2>3. \E q \in DOMAIN f : IsPrefix(p, q)
      BY <1>2, <1>6, <1>10
  <2> HIDE DEF edit
  <2>4. r.answer = "ok" /\ r.root = edit.root /\ r.adds = edit.adds
    <3> HIDE DEF r
    <3> QED
        BY <2>1 DEF Does
  <2>5. Begin("delete", p, r)
      BY <2>4 DEF Delete
  <2> HIDE DEF r
  <2>6. FlatStep
      BY <2>4, <2>5, BeginStutters
  <2>7. /\ UNCHANGED <<rows, cur>>
        /\ pending' = [op |-> "delete", path |-> p, root |-> edit.root, adds |-> edit.adds]
      BY <2>4, <2>5 DEF Begin
  <2> QED
      BY <2>2, <2>3, <2>6, <2>7 DEF PendingDoes
<1> QED
    BY <1>8, <1>9, <1>10

\* A row that is inserted changes no files.
LEMMA InsertKeeps ==
    ASSUME NoCollision, WipInv, NEW add
    PROVE  /\ Extends(Insert(rows, add), rows)
           /\ Files(Insert(rows, add), cur) = Files(rows, cur)
           /\ Files(Insert(rows, add), base) = Files(rows, base)
<1>1. Extends(Insert(rows, add), rows)
    BY DEF Extends, Insert
<1> QED
    BY <1>1, TreeExtends DEF WipInv

\* The next node of an edit: the files stay, and so does what the edit will do.
LEMMA StoreNodeFlat ==
    ASSUME NoCollision, WipInv, PendingDoes, StoreNode
    PROVE  FlatStep /\ PendingDoes'
<1> DEFINE adds == pending.adds
           next == Head(adds)
           rest == Tail(adds)
           root == pending.root
<1>1. /\ adds # <<>> /\ pending # Nothing /\ rows' = Insert(rows, next)
      /\ UNCHANGED <<cur, base, answered>>
    BY DEF StoreNode, Idle
<1>2. pending' = [op   |-> pending.op,   path |-> pending.path,
                  root |-> root, adds |-> rest]
    BY DEF StoreNode, WipInv
<1>3. PICK S : adds \in Seq(S)
    BY DEF WipInv, Fits, Storable
<1> HIDE DEF adds
<1>4. InsertAll(Insert(rows, next), rest) = InsertAll(rows, adds)
    BY <1>1, <1>3, RestInserted
<1> HIDE DEF next, rest
<1>5. Files(rows', cur) = Files(rows, cur) /\ Files(rows', base) = Files(rows, base)
    BY <1>1, InsertKeeps
<1>6. pending'.op = pending.op /\ pending'.path = pending.path /\ pending'.root = root /\ pending'.adds = rest
    BY <1>2
<1>7. InsertAll(rows', pending'.adds) = InsertAll(rows, pending.adds)
    BY <1>1, <1>4, <1>6 DEF adds
<1>8. Files(rows', cur') = Files(rows, cur) /\ Files(rows', base') = Files(rows, base)
    BY <1>1, <1>5
<1>9. FlatStep
    BY <1>1, <1>8 DEF FlatStep
<1>10. Files(InsertAll(rows', pending'.adds), pending'.root) = Files(InsertAll(rows, pending.adds), pending.root)
    BY <1>6, <1>7
<1>11. PendingDoes'
    BY <1>1, <1>6, <1>8, <1>10 DEF PendingDoes
<1> QED
    BY <1>9, <1>11

\* The wip gets the new root, and with it the request is done.
LEMMA StoreRootFlat ==
    ASSUME NoCollision, WipInv, PendingDoes, StoreRoot
    PROVE  FlatStep /\ PendingDoes'
<1> DEFINE f == Files(rows, cur)
           p == pending.path
<1>1. /\ pending # Nothing /\ pending.adds = <<>> /\ pending' = Nothing
      /\ cur' = pending.root /\ UNCHANGED <<rows, base>>
      /\ answered' = [op |-> pending.op, path |-> p, answer |-> "ok"]
    BY DEF StoreRoot, Idle, Answer
<1>2. Files(InsertAll(rows, pending.adds), pending.root) = Files(rows', cur')
    BY <1>1, NoneInserted
<1>3. Files(rows', base') = Files(rows, base)
    BY <1>1
<1>4. PendingDoes'
    BY <1>1 DEF PendingDoes
<1>5. CASE /\ pending.op = "upload" /\ p \in Paths
           /\ \A q \in DOMAIN f : ~IsStrictPrefix(q, p) /\ ~IsStrictPrefix(p, q)
           /\ \E b \in Blobs : Files(rows', cur') = WithFile(f, p, b)
  <2>1. PICK b \in Blobs : Files(rows', cur') = WithFile(f, p, b)
      BY <1>5
  <2>2. ~Flat!Above(p) /\ ~Flat!Below(p)
      BY <1>5, FlatWords
  <2>3. Flat!Put(p, b)
      BY <1>1, <1>3, <1>5, <2>1, <2>2 DEF Flat!Put, Flat!Answer, WithFile
  <2>4. Flat!Next
      BY <1>5, <2>3 DEF Flat!Next
  <2> QED
      BY <1>4, <2>4 DEF FlatStep
<1>6. CASE /\ pending.op = "delete" /\ p \in Paths
           /\ \E q \in DOMAIN f : IsPrefix(p, q)
           /\ Files(rows', cur') = Dropped(f, p)
  <2>1. p \in Seq(Nat) /\ \A q \in DOMAIN f : q \in Seq(Nat)
    <3>1. \A q \in DOMAIN f : q \in Seq(Names)
        BY FilesApart DEF WipInv
    <3> QED
        BY <1>6, <3>1, PathNamed DEF Names
  <2>2. p \in DOMAIN f \/ Flat!Below(p)
      BY <1>6, <2>1, PrefixOf, FlatWords
  <2>3. Files(rows', cur') = [q \in {s \in DOMAIN f : ~Flat!IsPrefix(p, s)} |-> f[q]]
    <3>1. {s \in DOMAIN f : ~Flat!IsPrefix(p, s)} = {s \in DOMAIN f : ~IsPrefix(p, s)}
        BY SameWords
    <3> QED
        BY <1>6, <3>1 DEF Dropped
  <2>4. Flat!Delete(p)
      BY <1>1, <1>3, <1>6, <2>2, <2>3 DEF Flat!Delete, Flat!Answer
  <2>5. Flat!Next
      BY <1>6, <2>4 DEF Flat!Next
  <2> QED
      BY <1>4, <2>5 DEF FlatStep
<1> QED
    BY <1>1, <1>2, <1>5, <1>6 DEF PendingDoes

\* The server stops; Revert of everything; CommitChanges (work_repo.go).
LEMMA OthersFlat ==
    ASSUME PendingDoes, Stop \/ RevertAll \/ Commit \/ UNCHANGED vars
    PROVE  FlatStep /\ PendingDoes'
<1>1. CASE Stop
    BY <1>1 DEF Stop, FlatStep, PendingDoes
<1>2. CASE RevertAll
  <2>1. Flat!RevertAll
      BY <1>2 DEF RevertAll, Answer, Flat!RevertAll, Flat!Answer
  <2>2. pending' = Nothing
      BY <1>2 DEF RevertAll, Idle
  <2> QED
      BY <2>1, <2>2 DEF FlatStep, Flat!Next, PendingDoes
<1>3. CASE Commit
  <2>1. Flat!Commit
      BY <1>3 DEF Commit, Answer, Flat!Commit, Flat!Answer
  <2>2. pending' = Nothing
      BY <1>3 DEF Commit, Idle
  <2> QED
      BY <2>1, <2>2 DEF FlatStep, Flat!Next, PendingDoes
<1>4. CASE UNCHANGED vars
    BY <1>4 DEF vars, FlatStep, PendingDoes
<1> QED
    BY <1>1, <1>2, <1>3, <1>4

\* A new wip has no files.
LEMMA StartsFlat == ASSUME NoCollision, Init PROVE Flat!Init /\ PendingDoes
<1>1. /\ rows = <<>> /\ cur = Empty /\ base = Empty /\ pending = Nothing
      /\ answered = [op |-> "commit", path |-> <<>>, answer |-> "ok"]
    BY DEF Init
<1>2. RowsSound(rows) /\ DirIn(DOMAIN rows, Empty)
    BY WipStart, <1>1 DEF WipInv
<1> DEFINE f == Empty
<1>3. f = [q \in DOMAIN f |-> f[q]] /\ \A q : q \notin DOMAIN f
    BY DEF Empty
<1>4. ASSUME NEW q PROVE FileAt(rows, Empty, q) = NoEntry
  <2>1. CASE q \in DOMAIN Files(rows, Empty)
    <3>1. q \in Seq(Names) /\ Len(q) \in 1 .. MaxDepth
        BY <1>2, <2>1, FilesApart
    <3>2. EntryAt(rows, Empty, q) # NoEntry
        BY <1>2, <2>1, FilePathsAre DEF Files, FilePaths
    <3> DEFINE s == SubSeq(q, 1, 0)
    <3>3. /\ s \in Seq(Names) /\ Len(s) = 0
          /\ EntryAt(rows, Empty, Append(s, q[0 + 1])) # NoEntry
      <4>1. 0 \in 0 .. Len(q) - 1
          BY <3>1
      <4> QED
          BY <1>2, <3>1, <3>2, <4>1, WayDown
    <3> DEFINE n == q[0 + 1]
    <3> HIDE DEF s
    <3>4. n \in Names
        BY <3>1
    <3> HIDE DEF n
    <3>5. EntryAt(rows, Empty, Append(s, n)) = Below(rows, EntryAt(rows, Empty, s), n)
      <4>1. ASSUME NEW u \in Seq(Names), NEW m \in Names
            PROVE  EntryAt(rows, Empty, Append(u, m)) = Below(rows, EntryAt(rows, Empty, u), m)
          BY EntryBelow
      <4>2. s \in Seq(Names)
          BY <3>3
      <4> QED
          BY <3>4, <4>1, <4>2
    <3>6. EntryAt(rows, Empty, s) = Dir(Empty)
        BY <3>3, RootFirst DEF EntryAt
    <3>7. Below(rows, Dir(Empty), n) = NoEntry
        BY <1>3 DEF Below, Dir, Kids
    <3> QED
        BY <3>3, <3>5, <3>6, <3>7 DEF n
  <2>2. CASE q \notin DOMAIN Files(rows, Empty)
      BY <2>2 DEF FileAt
  <2> QED
      BY <2>1, <2>2
<1> HIDE DEF f
<1>5. Files(rows, Empty) = f
    BY <1>2, <1>3, <1>4, FilesAre
<1>6. Files(rows, cur) = <<>> /\ Files(rows, base) = <<>>
    BY <1>1, <1>5 DEF f, Empty
<1>7. Flat!Init
    BY <1>1, <1>6 DEF Flat!Init
<1> QED
    BY <1>1, <1>7 DEF PendingDoes

----------------------------------------------------------------------------
(* The changes under a prefix.                                             *)

\* One more change at a path of its own.
LEMMA OneMore ==
    ASSUME NEW V, NEW s \in Seq(V), NEW c \in V,
           \A i, j \in 1 .. Len(s) : i # j => s[i].path # s[j].path,
           \A i \in 1 .. Len(s) : s[i].path # c.path
    PROVE  LET t == Append(s, c)
           IN  /\ t \in Seq(V) /\ Each(t) = Each(s) \cup {c}
               /\ \A i, j \in 1 .. Len(t) : i # j => t[i].path # t[j].path
<1> DEFINE t == Append(s, c)
           n == Len(s)
<1>1. /\ t \in Seq(V) /\ n \in Nat /\ Len(t) = n + 1 /\ t[n + 1] = c
      /\ \A i \in 1 .. n : t[i] = s[i]
    OBVIOUS
<1> HIDE DEF t
<1>2. Each(t) = Each(s) \cup {c}
  <2>1. \A i \in 1 .. Len(t) : i \in 1 .. n \/ i = n + 1
      BY <1>1
  <2>2. n + 1 \in 1 .. Len(t) /\ \A i \in 1 .. n : i \in 1 .. Len(t)
      BY <1>1
  <2> QED
      BY <1>1, <2>1, <2>2 DEF Each
<1>3. ASSUME NEW i \in 1 .. Len(t), NEW j \in 1 .. Len(t), i # j PROVE t[i].path # t[j].path
  <2>1. CASE i \in 1 .. n /\ j \in 1 .. n
      BY <1>1, <1>3, <2>1
  <2>2. CASE i \in 1 .. n /\ j = n + 1
      BY <1>1, <2>2
  <2>3. CASE i = n + 1 /\ j \in 1 .. n
      BY <1>1, <2>3
  <2> QED
      BY <1>1, <1>3, <2>1, <2>2, <2>3
<1> QED
    BY <1>1, <1>2, <1>3 DEF t

\* Under a prefix are the changes whose paths have it, each once.
LEMMA UnderEach ==
    ASSUME NEW V, NEW cs \in Seq(V), NEW prefix,
           \A i, j \in 1 .. Len(cs) : i # j => cs[i].path # cs[j].path
    PROVE  LET u == Under(prefix, cs)
           IN  /\ Each(u) = {c \in Each(cs) : HasPrefix(c.path, prefix)}
               /\ \A i, j \in 1 .. Len(u) : i # j => u[i].path # u[j].path
<1> DEFINE n == Len(cs)
           Upto(i) == {cs[j] : j \in {k \in 1 .. i : HasPrefix(cs[k].path, prefix)}}
<1>1. PICK w : /\ Under(prefix, cs) = w[n] /\ w[0] = <<>>
               /\ \A i \in 1 .. n : w[i] = Keep(w[i - 1], cs[i], prefix)
               /\ \A i \in 0 .. n : w[i] \in Seq(V)
    BY UnderSteps
<1> DEFINE Right(i) == /\ Each(w[i]) = Upto(i)
                       /\ \A k, m \in 1 .. Len(w[i]) : k # m => w[i][k].path # w[i][m].path
           T == {i \in Nat : i <= n => Right(i)}
<1>2. n \in Nat /\ \A i \in 1 .. n : cs[i] \in V
    OBVIOUS
<1>3. 0 \in T
  <2>1. Len(w[0]) = 0
      BY <1>1
  <2>2. Each(w[0]) = {} /\ Upto(0) = {}
      BY <2>1 DEF Each
  <2> QED
      BY <2>1, <2>2
<1>4. ASSUME NEW i \in Nat, i \in T PROVE i + 1 \in T
  <2> SUFFICES ASSUME i + 1 <= n PROVE Right(i + 1)
      OBVIOUS
  <2> DEFINE s == w[i]
             c == cs[i + 1]
             t == w[i + 1]
  <2>1. /\ Each(s) = Upto(i)
        /\ \A k, m \in 1 .. Len(s) : k # m => s[k].path # s[m].path
      BY <1>4
  <2>2. i \in 0 .. n /\ i + 1 \in 1 .. n /\ (i + 1) - 1 = i
      BY <1>2
  <2>3. s \in Seq(V) /\ c \in V
      BY <1>1, <1>2, <2>2
  <2>4. t = Keep(w[(i + 1) - 1], cs[i + 1], prefix)
      BY <1>1, <2>2
  <2>5. t = Keep(s, c, prefix)
      BY <2>2, <2>4
  <2>6. Upto(i + 1) = IF HasPrefix(c.path, prefix) THEN Upto(i) \cup {c} ELSE Upto(i)
    <3>1. \A k \in 1 .. i + 1 : k \in 1 .. i \/ k = i + 1
        OBVIOUS
    <3>2. i + 1 \in 1 .. i + 1 /\ \A k \in 1 .. i : k \in 1 .. i + 1
        OBVIOUS
    <3> QED
        BY <3>1, <3>2
  <2>7. ASSUME NEW k \in 1 .. Len(s) PROVE s[k].path # c.path
    <3>1. s[k] \in Upto(i)
        BY <2>1 DEF Each
    <3>2. PICK j \in 1 .. i : s[k] = cs[j]
        BY <3>1
    <3>3. j \in 1 .. n /\ j # i + 1
        BY <2>2
    <3> QED
        BY <2>2, <3>2, <3>3
  <2> HIDE DEF s, c, t, Upto
  <2>8. Each(t) = Upto(i + 1) /\ \A k, m \in 1 .. Len(t) : k # m => t[k].path # t[m].path
    <3>1. CASE HasPrefix(c.path, prefix)
      <4> DEFINE a == Append(s, c)
      <4>1. /\ Each(a) = Each(s) \cup {c}
            /\ \A k, m \in 1 .. Len(a) : k # m => a[k].path # a[m].path
          BY <2>1, <2>3, <2>7, OneMore
      <4>2. t = a
          BY <2>5, <3>1 DEF Keep
      <4> HIDE DEF a
      <4> QED
          BY <2>1, <2>6, <3>1, <4>1, <4>2
    <3>2. CASE ~HasPrefix(c.path, prefix)
      <4>1. t = s
          BY <2>5, <3>2 DEF Keep
      <4> QED
          BY <2>1, <2>6, <3>2, <4>1
    <3> QED
        BY <3>1, <3>2
  <2> QED
      BY <2>8 DEF t
<1> HIDE DEF T, Right, Upto
<1>5. n \in T
    BY <1>2, <1>3, <1>4, SetInduction
<1>6. Right(n)
    BY <1>2, <1>5 DEF T
<1>7. Upto(n) = {c \in Each(cs) : HasPrefix(c.path, prefix)}
    BY DEF Upto, Each
<1> QED
    BY <1>1, <1>6, <1>7 DEF Right

\* The changes a revert undoes: those noted whose paths have the prefix, in order.
LEMMA ChangedIs ==
    ASSUME NoCollision, RowsSound(rows), DirIn(DOMAIN rows, cur), DirIn(DOMAIN rows, base), NEW prefix
    PROVE  LET cs == Changed(prefix)
               P  == PathsIn(rows, base) \cup PathsIn(rows, cur)
           IN  /\ cs \in Seq(ChangesOf(rows, base, cur)) /\ ByPath(cs)
               /\ Each(cs) = {c \in Noted(rows, base, cur, P) : HasPrefix(c.path, prefix)}
<1> DEFINE V == ChangesOf(rows, base, cur)
           P == PathsIn(rows, base) \cup PathsIn(rows, cur)
           d == DiffTree(rows, base, cur)
           u == Under(prefix, d)
<1>1. d \in Seq(V)
    BY DiffIn
<1>2. \A c \in V : c.path \in Seq(Nat)
  <2>1. \A q \in P : q \in Seq(Nat)
      BY PathsAre DEF Names
  <2> QED
      BY <2>1 DEF ChangesOf
<1>3. /\ \A i, j \in 1 .. Len(d) : i # j => d[i].path # d[j].path
      /\ Each(d) = Noted(rows, base, cur, P)
  <2>1. Lists(d, Noted(rows, base, cur, P))
      BY DiffLists
  <2> QED
      BY <2>1 DEF Lists, Each
<1> HIDE DEF V, d, P
<1>4. /\ Each(u) = {c \in Each(d) : HasPrefix(c.path, prefix)}
      /\ \A i, j \in 1 .. Len(u) : i # j => u[i].path # u[j].path
    BY <1>1, <1>3, UnderEach
<1>5. u \in Seq(V)
    BY <1>1, UnderIn
<1> HIDE DEF u
<1>6. ByPath(InOrder(u)) /\ Each(InOrder(u)) = Each(u)
    BY <1>2, <1>4, <1>5, InOrderSorts
<1>7. InOrder(u) \in Seq(V)
    BY <1>5, InOrderIn
<1>8. Changed(prefix) = InOrder(u)
    BY DEF Changed, u, d
<1>9. Each(InOrder(u)) = {c \in Noted(rows, base, cur, P) : HasPrefix(c.path, prefix)}
    BY <1>3, <1>4, <1>6
<1> QED
    BY <1>6, <1>7, <1>8, <1>9 DEF V, P

----------------------------------------------------------------------------
(* Files now and in the base, and the changes of files between them.       *)

\* The files at a path in the wip and in its base.
Now(p) == FileAt(rows, cur, p)
Was(p) == FileAt(rows, base, p)

\* The directories that were only renamed in, and the entries that differ.
Renamings == OnlyRenamed(rows, base, cur)
NotedNow  == Noted(rows, base, cur, PathsIn(rows, base) \cup PathsIn(rows, cur))

\* A directory that was only renamed in is one in both trees.
LEMMA RenamedAre ==
    ASSUME NoCollision, WipInv, NEW r \in Renamings
    PROVE  /\ r \in Seq(Names) /\ Len(r) \in 1 .. MaxDepth
           /\ r \in PathsIn(rows, base) /\ r \in PathsIn(rows, cur)
           /\ EntryAt(rows, base, r).isDir /\ EntryAt(rows, cur, r).isDir
           /\ EntryAt(rows, base, r) # EntryAt(rows, cur, r)
           /\ EntryAt(rows, base, r) # NoEntry /\ EntryAt(rows, cur, r) # NoEntry
           /\ Now(r) = NoEntry /\ Was(r) = NoEntry
<1>1. /\ r \in PathsIn(rows, base) /\ r \in PathsIn(rows, cur)
      /\ EntryAt(rows, base, r).isDir /\ EntryAt(rows, cur, r).isDir
      /\ EntryAt(rows, base, r) # EntryAt(rows, cur, r)
    BY DEF Renamings, OnlyRenamed
<1>2. r \in Seq(Names) /\ Len(r) \in 1 .. MaxDepth /\ EntryAt(rows, base, r) # NoEntry /\ EntryAt(rows, cur, r) # NoEntry
    BY <1>1, PathsAre DEF WipInv
<1>3. FileOf(EntryAt(rows, base, r)) = NoEntry /\ FileOf(EntryAt(rows, cur, r)) = NoEntry
    BY <1>1 DEF FileOf
<1>4. Now(r) = NoEntry /\ Was(r) = NoEntry
    BY <1>2, <1>3, FileAtIs DEF Now, Was, WipInv
<1> QED
    BY <1>1, <1>2, <1>4

\* What the comparison sees at a path.
LEMMA ViewsAre ==
    ASSUME NoCollision, WipInv, NEW q
    PROVE  /\ q \in Renamings => /\ View(rows, base, Renamings, q) = EntryAt(rows, base, q)
                                 /\ View(rows, cur, Renamings, q) = EntryAt(rows, cur, q)
           /\ q \notin Renamings => /\ View(rows, base, Renamings, q) = Was(q)
                                    /\ View(rows, cur, Renamings, q) = Now(q)
           /\ Was(q) # Now(q) => /\ q \notin Renamings
                                 /\ q \in PathsIn(rows, base) \cup PathsIn(rows, cur)
<1>1. CASE q \in Renamings
    BY <1>1, RenamedAre DEF View
<1>2. CASE q \notin Renamings
  <2>1. View(rows, base, {}, q) = Was(q) /\ View(rows, cur, {}, q) = Now(q)
      BY ViewIsFile DEF WipInv, Was, Now
  <2>2. View(rows, base, Renamings, q) = View(rows, base, {}, q) /\ View(rows, cur, Renamings, q) = View(rows, cur, {}, q)
      BY <1>2 DEF View
  <2>3. Was(q) # Now(q) => q \in PathsIn(rows, base) \cup PathsIn(rows, cur)
      BY DEF Was, Now, FileAt, Files
  <2> QED
      BY <1>2, <2>1, <2>2, <2>3
<1> QED
    BY <1>1, <1>2

\* A noted change is of a file that differs, or of a directory that was only renamed
\* in, and not below such a directory.
LEMMA NoteIs ==
    ASSUME NoCollision, WipInv, NEW c \in NotedNow
    PROVE  LET p == c.path
           IN  /\ p \in Seq(Names) /\ Len(p) \in 1 .. MaxDepth
               /\ \A r \in Renamings : ~IsStrictPrefix(r, p)
               /\ p \in Renamings => c = Change(p, EntryAt(rows, base, p), EntryAt(rows, cur, p))
               /\ p \notin Renamings => c = Change(p, Was(p), Now(p)) /\ Was(p) # Now(p)
<1>1. PICK q \in PathsIn(rows, base) \cup PathsIn(rows, cur) :
         /\ c = Change(q, View(rows, base, Renamings, q), View(rows, cur, Renamings, q))
         /\ View(rows, base, Renamings, q) # View(rows, cur, Renamings, q)
         /\ ~\E r \in Renamings : IsStrictPrefix(r, q)
    BY DEF NotedNow, Noted, Renamings
<1>2. c.path = q
    BY <1>1 DEF Change
<1>3. q \in Seq(Names) /\ Len(q) \in 1 .. MaxDepth
    BY PathsAre DEF WipInv
<1> QED
    BY <1>1, <1>2, <1>3, ViewsAre

\* Every file that differs is noted, or is below a directory that was only renamed in.
LEMMA DiffersNoted ==
    ASSUME NoCollision, WipInv, NEW q, Was(q) # Now(q), \A r \in Renamings : ~IsStrictPrefix(r, q)
    PROVE  Change(q, Was(q), Now(q)) \in NotedNow
<1>1. /\ q \notin Renamings /\ q \in PathsIn(rows, base) \cup PathsIn(rows, cur)
      /\ View(rows, base, Renamings, q) = Was(q) /\ View(rows, cur, Renamings, q) = Now(q)
    BY ViewsAre
<1> QED
    BY <1>1 DEF NotedNow, Noted, Renamings

\* So is every directory that was only renamed in.
LEMMA RenamedNoted ==
    ASSUME NoCollision, WipInv, NEW q \in Renamings, \A r \in Renamings : ~IsStrictPrefix(r, q)
    PROVE  Change(q, EntryAt(rows, base, q), EntryAt(rows, cur, q)) \in NotedNow
<1>1. /\ View(rows, base, Renamings, q) = EntryAt(rows, base, q)
      /\ View(rows, cur, Renamings, q) = EntryAt(rows, cur, q)
    BY ViewsAre
<1>2. /\ q \in PathsIn(rows, base) \cup PathsIn(rows, cur)
      /\ EntryAt(rows, base, q) # EntryAt(rows, cur, q)
    BY RenamedAre
<1> QED
    BY <1>1, <1>2 DEF NotedNow, Noted, Renamings

\* Of the directories above a path that were only renamed in, one is the uppermost.
LEMMA Uppermost ==
    ASSUME NoCollision, WipInv, NEW q \in Seq(Names), NEW d \in Renamings, IsStrictPrefix(d, q)
    PROVE  \E r \in Renamings : IsStrictPrefix(r, q) /\ \A s \in Renamings : ~IsStrictPrefix(s, r)
<1> DEFINE A == {r \in Renamings : IsStrictPrefix(r, q)}
           L == {Len(r) : r \in A}
<1>1. \A r \in Renamings : r \in Seq(Names) /\ r \in Seq(Nat) /\ Len(r) \in Nat
    BY RenamedAre DEF Names
<1>2. L \subseteq Nat /\ Len(d) \in L
    BY <1>1
<1> HIDE DEF L
<1>3. PICK n \in L : \A k \in L : n <= k
    BY <1>2, LeastNumber
<1>4. PICK r \in A : Len(r) = n
    BY DEF L
<1>5. ASSUME NEW s \in Renamings, IsStrictPrefix(s, r) PROVE FALSE
  <2>1. q \in Seq(Nat) /\ r \in Seq(Nat) /\ s \in Seq(Nat)
      BY <1>1 DEF Names
  <2>2. IsStrictPrefix(r, q) /\ r \in Renamings
      BY <1>4
  <2>3. IsPrefix(r, q)
      BY <2>1, <2>2, PrefixOf
  <2>4. IsStrictPrefix(s, q)
      BY <1>5, <2>1, <2>3, PrefixesNest
  <2>5. Len(s) < Len(r)
      BY <1>5, <2>1, PrefixIs
  <2>6. Len(s) \in L
      BY <2>4 DEF L
  <2> QED
      BY <1>1, <1>3, <1>4, <2>2, <2>5, <2>6
<1> QED
    BY <1>4, <1>5

\* Names start with a prefix by as many of them as it has.
LEMMA PrefixKept ==
    ASSUME NEW prefix \in Seq(Names), NEW p \in Seq(Nat), NEW q \in Seq(Nat), IsStrictPrefix(p, q)
    PROVE  /\ HasPrefix(p, prefix) => HasPrefix(q, prefix)
           /\ HasPrefix(q, prefix) /\ Len(prefix) <= Len(p) => HasPrefix(p, prefix)
           /\ HasPrefix(q, prefix) /\ Len(p) < Len(prefix) =>
                  \A s \in Seq(Nat) : HasPrefix(s, prefix) => IsStrictPrefix(p, s)
<1> DEFINE k == Len(prefix)
<1>1. /\ Len(p) \in Nat /\ Len(q) \in Nat /\ k \in Nat /\ Len(p) < Len(q)
      /\ \A i \in 1 .. Len(p) : p[i] = q[i]
    BY PrefixIs
<1>2. \A s : HasPrefix(s, prefix) <=> /\ k <= Len(s)
                                      /\ \A i \in 1 .. k - 1 : s[i] = prefix[i]
                                      /\ k > 0 => <<s[k], prefix[k]>> \in NameStarts
    BY DEF HasPrefix
<1> HIDE DEF k
<1>3. ASSUME k <= Len(p) PROVE HasPrefix(p, prefix) <=> HasPrefix(q, prefix)
  <2>0. \A i \in Nat \ {0} : i <= k => i \in 1 .. Len(p)
      BY <1>1, <1>3
  <2>1. \A i \in 1 .. k - 1 : p[i] = q[i]
    <3>1. \A i \in 1 .. k - 1 : i \in Nat \ {0} /\ i <= k
        BY <1>1
    <3> QED
        BY <1>1, <2>0, <3>1
  <2>2. k > 0 => p[k] = q[k]
    <3>1. k > 0 => k \in Nat \ {0} /\ k <= k
        BY <1>1
    <3> QED
        BY <1>1, <2>0, <3>1
  <2>3. k <= Len(q)
      BY <1>1, <1>3
  <2>4. HasPrefix(p, prefix) => HasPrefix(q, prefix)
      BY <1>2, <2>1, <2>2, <2>3
  <2>5. HasPrefix(q, prefix) => HasPrefix(p, prefix)
      BY <1>2, <1>3, <2>1, <2>2
  <2> QED
      BY <2>4, <2>5
<1>4. ASSUME HasPrefix(q, prefix), Len(p) < k, NEW s \in Seq(Nat), HasPrefix(s, prefix)
      PROVE  IsStrictPrefix(p, s)
  <2>0. Len(s) \in Nat
      OBVIOUS
  <2>1. Len(s) \in Nat /\ Len(p) < Len(s)
    <3>1. k <= Len(s)
        BY <1>2, <1>4
    <3> QED
        BY <1>1, <1>4, <2>0, <3>1
  <2>2. \A i \in 1 .. Len(p) : i \in 1 .. k - 1
      BY <1>1, <1>4
  <2>3. \A i \in 1 .. Len(p) : p[i] = s[i]
      BY <1>1, <1>2, <1>4, <2>2
  <2> QED
      BY <2>1, <2>3, PrefixIs
<1> QED
    BY <1>1, <1>2, <1>3, <1>4 DEF k

----------------------------------------------------------------------------
(* Undoing one change.                                                     *)

\* A table and a root as a revert has them when the files at D are undone.
Reverting(t, root, D) ==
    /\ RowsSound(t) /\ Extends(t, rows) /\ DirIn(DOMAIN t, root) /\ root \in Deep[MaxDepth]
    /\ \A q \in D : FileAt(t, root, q) = Was(q)
    /\ \A q : q \notin D => FileAt(t, root, q) = Now(q)

\* What the base's tree is in such a table.
LEMMA BaseStays ==
    ASSUME NoCollision, WipInv, NEW t, Extends(t, rows), RowsSound(t)
    PROVE  /\ DirIn(DOMAIN t, base) /\ Files(t, base) = Files(rows, base)
           /\ \A p \in Seq(Names) : EntryAt(t, base, p) = EntryAt(rows, base, p)
<1>1. DirIn(DOMAIN t, base)
    BY DEF WipInv, Extends, DirIn
<1>2. Files(t, base) = Files(rows, base)
    BY TreeExtends DEF WipInv
<1>3. ASSUME NEW p \in Seq(Names) PROVE EntryAt(t, base, p) = EntryAt(rows, base, p)
  <2>1. Len(p) \in Nat
      OBVIOUS
  <2> QED
      BY <2>1, EntryExtends DEF WipInv
<1> QED
    BY <1>1, <1>2, <1>3

\* Undoing a change of a file is the edit of the change back.
LEMMA UndoIsEdit ==
    ASSUME NoCollision, WipInv, NEW t, NEW root, RowsSound(t), Extends(t, rows),
           NEW p \in Seq(Names), Len(p) \in 1 .. MaxDepth, Was(p) # Now(p)
    PROVE  Undo(t, root, Change(p, Was(p), Now(p))) = EditOf(t, root, Change(p, Now(p), Was(p)))
<1> DEFINE c == Change(p, Was(p), Now(p))
           d == Change(p, Now(p), Was(p))
<1>1. /\ c.path = p /\ c.from = Was(p) /\ c.to = Now(p)
      /\ d.path = p /\ d.from = Now(p) /\ d.to = Was(p)
    BY DEF Change
<1> HIDE DEF c, d
<1>2. /\ Action(c) = "Insert" <=> Was(p) = NoEntry
      /\ Was(p) # NoEntry => (Action(c) = "Modify" <=> Now(p) # NoEntry)
      /\ Action(d) = "Insert" <=> Now(p) = NoEntry
      /\ Now(p) # NoEntry => (Action(d) = "Delete" <=> Was(p) = NoEntry)
    BY <1>1 DEF Action
<1>3. CASE Was(p) = NoEntry
  <2>1. Action(c) = "Insert" /\ Action(d) = "Delete"
      BY <1>2, <1>3
  <2>2. Undo(t, root, c) = RemoveEntry(t, root, p)
      BY <1>1, <2>1 DEF Undo
  <2>3. EditOf(t, root, d) = RemoveEntry(t, root, p)
      BY <1>1, <2>1 DEF EditOf
  <2> QED
      BY <2>2, <2>3 DEF c, d
<1>4. CASE Was(p) # NoEntry
  <2>1. Action(c) # "Insert" /\ Action(d) # "Delete"
      BY <1>2, <1>4 DEF Action
  <2>2. p \in DOMAIN Files(rows, base)
      BY <1>4 DEF Was, FileAt
  <2>3. HasBlob(t, base, p)
    <3>1. /\ DirIn(DOMAIN t, base) /\ p \in DOMAIN Files(t, base)
        BY <2>2, BaseStays
    <3> QED
        BY <3>1, BlobIsFile DEF WipInv
  <2>4. EntryAt(t, base, p).hash = Was(p).hash
    <3>1. EntryAt(t, base, p) = EntryAt(rows, base, p)
        BY BaseStays
    <3>2. Was(p) = FileOf(EntryAt(rows, base, p))
        BY FileAtIs DEF Was, WipInv
    <3> QED
        BY <1>4, <3>1, <3>2 DEF FileOf
  <2>5. CASE Now(p) # NoEntry
    <3>1. Action(c) = "Modify" /\ Action(d) # "Insert"
        BY <1>2, <1>4, <2>5
    <3>2. Undo(t, root, c) = ReplaceLeaf(t, root, p, Was(p).hash)
        BY <1>1, <2>1, <2>3, <2>4, <3>1 DEF Undo
    <3>3. EditOf(t, root, d) = ReplaceLeaf(t, root, p, Was(p).hash)
        BY <1>1, <2>1, <3>1 DEF EditOf
    <3> QED
        BY <3>2, <3>3 DEF c, d
  <2>6. CASE Now(p) = NoEntry
    <3>1. Action(c) # "Modify" /\ Action(d) = "Insert"
        BY <1>2, <1>4, <2>6
    <3>2. Undo(t, root, c) = AddLeaf(t, root, p, Was(p).hash)
        BY <1>1, <2>1, <2>3, <2>4, <3>1 DEF Undo
    <3>3. EditOf(t, root, d) = AddLeaf(t, root, p, Was(p).hash)
        BY <1>1, <3>1 DEF EditOf
    <3> QED
        BY <3>2, <3>3 DEF c, d
  <2> QED
      BY <2>5, <2>6
<1> QED
    BY <1>3, <1>4

\* It undoes that file and no other, or a file of the tree is above or below.
LEMMA UndoesOne ==
    ASSUME NoCollision, WipInv, NEW t, NEW root, NEW D, Reverting(t, root, D),
           NEW p \in Seq(Names), Len(p) \in 1 .. MaxDepth, p \notin D, Was(p) # Now(p)
    PROVE  LET e == Undo(t, root, Change(p, Was(p), Now(p)))
               f == Files(t, root)
           IN  /\ e.answer = "ok" => Reverting(InsertAll(t, e.adds), e.root, D \cup {p})
               /\ e.answer # "ok" =>
                    /\ Was(p) # NoEntry
                    /\ \/ e.answer = "blob must be leaf" /\ \E q \in DOMAIN f : IsStrictPrefix(q, p)
                       \/ e.answer = "entry exit" /\ \E q \in DOMAIN f : IsStrictPrefix(p, q)
<1> DEFINE d == Change(p, Now(p), Was(p))
           e == Undo(t, root, Change(p, Was(p), Now(p)))
           u == InsertAll(t, e.adds)
<1>1. /\ RowsSound(t) /\ Extends(t, rows) /\ DirIn(DOMAIN t, root) /\ root \in Deep[MaxDepth]
      /\ \A q \in D : FileAt(t, root, q) = Was(q)
      /\ \A q : q \notin D => FileAt(t, root, q) = Now(q)
    BY DEF Reverting
<1>2. e = EditOf(t, root, d)
    BY <1>1, UndoIsEdit
<1>3. d.path = p /\ d.from = Now(p) /\ d.to = Was(p)
    BY DEF Change
<1>4. Leaf(Was(p)) /\ Leaf(Now(p))
    BY FileAtIs DEF Was, Now, Leaf, WipInv
<1>5. Now(p) = FileAt(t, root, p)
    BY <1>1
<1> HIDE DEF d, e
<1>6. /\ e.answer = "ok" =>
            /\ RowsSound(u) /\ Extends(u, t)
            /\ DirIn(DOMAIN u, e.root) /\ e.root \in Deep[MaxDepth]
            /\ FileAt(u, e.root, p) = Was(p)
            /\ \A q : q # p => FileAt(u, e.root, q) = FileAt(t, root, q)
      /\ e.answer # "ok" => e.answer \in {"blob must be leaf", "entry exit"} /\ Now(p) = NoEntry
  <2>1. /\ d.path \in Seq(Names) /\ Len(d.path) \in 1 .. MaxDepth
        /\ Leaf(d.to) /\ d.from # d.to /\ d.from = FileAt(t, root, d.path)
      BY <1>3, <1>4, <1>5
  <2>2. LET x == EditOf(t, root, d)
            y == InsertAll(t, x.adds)
        IN  /\ x.answer = "ok" =>
                 /\ RowsSound(y) /\ Extends(y, t)
                 /\ DirIn(DOMAIN y, x.root) /\ x.root \in Deep[MaxDepth]
                 /\ FileAt(y, x.root, d.path) = d.to
                 /\ \A q : q # d.path => FileAt(y, x.root, q) = FileAt(t, root, q)
            /\ x.answer # "ok" => x.answer \in {"blob must be leaf", "entry exit"} /\ d.from = NoEntry
      BY <1>1, <2>1, ChangeApplies
  <2> QED
      BY <1>2, <1>3, <2>2
<1> HIDE DEF u
<1>7. ASSUME e.answer = "ok" PROVE Reverting(u, e.root, D \cup {p})
  <2>1. Extends(u, rows)
      BY <1>1, <1>6, <1>7 DEF Extends
  <2>2. ASSUME NEW q \in D \cup {p} PROVE FileAt(u, e.root, q) = Was(q)
      BY <1>1, <1>6, <1>7
  <2>3. ASSUME NEW q, q \notin D \cup {p} PROVE FileAt(u, e.root, q) = Now(q)
      BY <1>1, <1>6, <1>7, <2>3
  <2> QED
      BY <1>6, <1>7, <2>1, <2>2, <2>3 DEF Reverting
<1>8. ASSUME e.answer # "ok"
      PROVE  /\ Was(p) # NoEntry
             /\ \/ e.answer = "blob must be leaf" /\ \E q \in DOMAIN Files(t, root) : IsStrictPrefix(q, p)
                \/ e.answer = "entry exit" /\ \E q \in DOMAIN Files(t, root) : IsStrictPrefix(p, q)
  <2> DEFINE E == EntryAt(t, root, p)
  <2>1. Now(p) = NoEntry /\ Was(p) # NoEntry
      BY <1>6, <1>8
  <2>2. Action(d) = "Insert"
      BY <1>3, <2>1 DEF Action
  <2>3. e = AddLeaf(t, root, p, Was(p).hash)
      BY <1>2, <1>3, <2>2 DEF EditOf
  <2>4. /\ BlobInTheWay(t, root, p) => \E q \in DOMAIN Files(t, root) : IsStrictPrefix(q, p)
        /\ E.isDir => \E q \in DOMAIN Files(t, root) : IsStrictPrefix(p, q)
        /\ p \in DOMAIN Files(t, root) <=> E # NoEntry /\ ~E.isDir
      BY <1>1, PathByFiles
  <2>5. p \notin DOMAIN Files(t, root)
      BY <1>1, <1>5, <2>1, FileAtIs
  <2> HIDE DEF E
  <2>6. CASE BlobInTheWay(t, root, p)
    <3>1. e = Fails("blob must be leaf")
        BY <2>3, <2>6 DEF AddLeaf
    <3>2. e.answer = "blob must be leaf"
        BY <3>1 DEF Fails
    <3> QED
        BY <2>1, <2>4, <2>6, <3>2
  <2>7. CASE ~BlobInTheWay(t, root, p) /\ E # NoEntry
    <3>1. e = Fails("entry exit")
        BY <2>3, <2>7 DEF AddLeaf, E
    <3>2. e.answer = "entry exit"
        BY <3>1 DEF Fails
    <3> QED
        BY <2>1, <2>4, <2>5, <2>7, <3>2
  <2>8. CASE ~BlobInTheWay(t, root, p) /\ E = NoEntry
    <3>1. e = Does(Edited(t, root, p, File(Was(p).hash)))
        BY <2>3, <2>8 DEF AddLeaf, E
    <3>2. e.answer = "ok"
        BY <3>1 DEF Does
    <3> QED
        BY <1>8, <3>2
  <2> QED
      BY <2>6, <2>7, <2>8
<1> QED
    BY <1>7, <1>8 DEF e, u

\* A directory that was only renamed in is no file of the base: it cannot be undone.
LEMMA UndoRenamed ==
    ASSUME NoCollision, WipInv, NEW t, NEW root, RowsSound(t), Extends(t, rows), NEW p \in Renamings
    PROVE  Undo(t, root, Change(p, EntryAt(rows, base, p), EntryAt(rows, cur, p))).answer = "path not found"
<1> DEFINE c == Change(p, EntryAt(rows, base, p), EntryAt(rows, cur, p))
<1>1. /\ p \in Seq(Names) /\ Len(p) \in 1 .. MaxDepth
      /\ EntryAt(rows, base, p) # NoEntry /\ EntryAt(rows, base, p).isDir
    BY RenamedAre
<1>2. c.path = p /\ c.from # NoEntry
    BY <1>1 DEF Change
<1> HIDE DEF c
<1>3. Action(c) # "Insert"
    BY <1>2 DEF Action
<1>4. ~HasBlob(t, base, p)
  <2>1. DirIn(DOMAIN t, base) /\ Files(t, base) = Files(rows, base)
      BY BaseStays
  <2>2. p \notin DOMAIN Files(rows, base)
      BY <1>1 DEF Files
  <2> QED
      BY <1>1, <2>1, <2>2, BlobIsFile DEF WipInv
<1>5. Undo(t, root, c) = Fails("path not found")
    BY <1>2, <1>3, <1>4 DEF Undo
<1> DEFINE e == Undo(t, root, c)
<1>6. e.answer = "path not found"
  <2>1. e = Fails("path not found")
      BY <1>5
  <2> HIDE DEF e
  <2> QED
      BY <2>1 DEF Fails
<1> QED
    BY <1>6 DEF c

----------------------------------------------------------------------------
(* Undoing one after the other.                                            *)

\* The changes that a revert undoes, as it finds them.
LEMMA ToUndo ==
    ASSUME NoCollision, WipInv, NEW prefix
    PROVE  LET cs == Changed(prefix)
           IN  /\ cs \in Seq(ChangesOf(rows, base, cur)) /\ Len(cs) \in Nat /\ ByPath(cs)
               /\ \A c \in NotedNow : HasPrefix(c.path, prefix) => \E i \in 1 .. Len(cs) : cs[i] = c
               /\ \A i \in 1 .. Len(cs) :
                     LET p == cs[i].path
                     IN  /\ p \in Seq(Names) /\ Len(p) \in 1 .. MaxDepth /\ HasPrefix(p, prefix)
                         /\ \A r \in Renamings : ~IsStrictPrefix(r, p)
                         /\ p \in Renamings => cs[i] = Change(p, EntryAt(rows, base, p), EntryAt(rows, cur, p))
                         /\ p \notin Renamings => cs[i] = Change(p, Was(p), Now(p)) /\ Was(p) # Now(p)
<1> DEFINE cs == Changed(prefix)
<1>1. /\ cs \in Seq(ChangesOf(rows, base, cur)) /\ ByPath(cs)
      /\ Each(cs) = {c \in NotedNow : HasPrefix(c.path, prefix)}
    BY ChangedIs DEF WipInv, NotedNow
<1> HIDE DEF cs
<1>2. Len(cs) \in Nat
    BY <1>1
<1>3. \A c \in NotedNow : HasPrefix(c.path, prefix) => \E i \in 1 .. Len(cs) : cs[i] = c
    BY <1>1 DEF Each
<1>4. \A i \in 1 .. Len(cs) : cs[i] \in NotedNow /\ HasPrefix(cs[i].path, prefix)
    BY <1>1 DEF Each
<1>5. \A i \in 1 .. Len(cs) :
         LET p == cs[i].path
         IN  /\ p \in Seq(Names) /\ Len(p) \in 1 .. MaxDepth /\ HasPrefix(p, prefix)
             /\ \A r \in Renamings : ~IsStrictPrefix(r, p)
             /\ p \in Renamings => cs[i] = Change(p, EntryAt(rows, base, p), EntryAt(rows, cur, p))
             /\ p \notin Renamings => cs[i] = Change(p, Was(p), Now(p)) /\ Was(p) # Now(p)
    BY <1>4, NoteIs
<1> QED
    BY <1>1, <1>2, <1>3, <1>5 DEF cs

\* The paths of the first changes.
PathsTo(cs, i) == {cs[j].path : j \in 1 .. i}

\* The revert ended at the i-th change with this answer.
EndsAt(cs, i, a) ==
    \E t, root : Reverting(t, root, PathsTo(cs, i - 1)) /\ a = Undo(t, root, cs[i]).answer

\* A revert undoes every change, or ends at one with the answer of its undoing.
LEMMA RevertEnds ==
    ASSUME NoCollision, WipInv, NEW prefix
    PROVE  LET cs  == Changed(prefix)
               end == RevertOf(cs)
           IN  /\ end.answer = "ok" => /\ Reverting(end.rows, end.root, PathsTo(cs, Len(cs)))
                                       /\ \A j \in 1 .. Len(cs) : cs[j].path \notin Renamings
               /\ end.answer # "ok" => \E i \in 1 .. Len(cs) : EndsAt(cs, i, end.answer)
<1> DEFINE cs == Changed(prefix)
           n == Len(cs)
<1>1. /\ n \in Nat /\ ByPath(cs)
      /\ \A i \in 1 .. n :
            LET p == cs[i].path
            IN  /\ p \in Seq(Names) /\ Len(p) \in 1 .. MaxDepth
                /\ p \in Renamings => cs[i] = Change(p, EntryAt(rows, base, p), EntryAt(rows, cur, p))
                /\ p \notin Renamings => cs[i] = Change(p, Was(p), Now(p)) /\ Was(p) # Now(p)
    BY ToUndo
<1> HIDE DEF cs
<1>2. PICK undone : /\ undone[0] = AsItIs
                    /\ \A i \in 1 .. n : undone[i] = Undone(undone[i - 1], cs[i])
                    /\ RevertOf(cs) = undone[n]
    BY <1>1, RevertsOneByOne
<1> DEFINE Good(u, i) ==
               /\ u.answer = "ok" => /\ Reverting(u.rows, u.root, PathsTo(cs, i))
                                     /\ \A j \in 1 .. i : cs[j].path \notin Renamings
               /\ u.answer # "ok" => \E j \in 1 .. n : EndsAt(cs, j, u.answer)
           T == {i \in Nat : i <= n => Good(undone[i], i)}
<1>3. 0 \in T
  <2>1. AsItIs.answer = "ok" /\ AsItIs.rows = rows /\ AsItIs.root = cur
      BY DEF AsItIs
  <2>2. PathsTo(cs, 0) = {}
      BY DEF PathsTo
  <2>3. Reverting(rows, cur, {})
      BY DEF Reverting, WipInv, Extends, Now
  <2>4. Good(AsItIs, 0)
      BY <2>1, <2>2, <2>3
  <2> QED
      BY <1>2, <2>4
<1>4. ASSUME NEW i \in Nat, i \in T PROVE i + 1 \in T
  <2> SUFFICES ASSUME i + 1 <= n PROVE Good(undone[i + 1], i + 1)
      OBVIOUS
  <2> DEFINE u == undone[i]
             v == undone[i + 1]
             c == cs[i + 1]
             p == c.path
             e == Undo(u.rows, u.root, c)
  <2>1. i + 1 \in 1 .. n /\ (i + 1) - 1 = i /\ Good(u, i)
      BY <1>1, <1>4
  <2>2. v = Undone(u, c)
      BY <1>2, <2>1
  <2>3. /\ p \in Seq(Names) /\ Len(p) \in 1 .. MaxDepth
        /\ p \in Renamings => c = Change(p, EntryAt(rows, base, p), EntryAt(rows, cur, p))
        /\ p \notin Renamings => c = Change(p, Was(p), Now(p)) /\ Was(p) # Now(p)
      BY <1>1, <2>1
  <2>4. p \notin PathsTo(cs, i)
    <3> SUFFICES ASSUME NEW j \in 1 .. i, cs[j].path = p PROVE FALSE
        BY DEF PathsTo
    <3>1. j \in 1 .. n /\ j < i + 1
        BY <1>1, <2>1
    <3>2. Before(cs[j].path, p)
        BY <1>1, <2>1, <3>1 DEF ByPath
    <3>3. p \in Seq(Nat)
        BY <2>3 DEF Names
    <3>4. ~Before(p, p)
        BY <3>3, BeforeOrders
    <3> QED
        BY <3>2, <3>4
  <2>5. PathsTo(cs, i + 1) = PathsTo(cs, i) \cup {p}
    <3>1. \A j \in 1 .. i + 1 : j \in 1 .. i \/ j = i + 1
        OBVIOUS
    <3>2. i + 1 \in 1 .. i + 1 /\ \A j \in 1 .. i : j \in 1 .. i + 1
        OBVIOUS
    <3> QED
        BY <3>1, <3>2 DEF PathsTo
  <2> HIDE DEF u, v, c, p
  <2>6. CASE u.answer # "ok"
    <3>1. v = u
        BY <2>2, <2>6 DEF Undone
    <3>2. Good(v, i + 1)
        BY <2>1, <2>6, <3>1
    <3> QED
        BY <3>2 DEF v
  <2>7. CASE u.answer = "ok"
    <3>1. v = [answer |-> e.answer, root |-> e.root, rows |-> InsertAll(u.rows, e.adds)]
        BY <2>2, <2>7 DEF Undone
    <3>2. /\ Reverting(u.rows, u.root, PathsTo(cs, i))
          /\ \A j \in 1 .. i : cs[j].path \notin Renamings
        BY <2>1, <2>7
    <3>3. v.answer = e.answer /\ v.root = e.root /\ v.rows = InsertAll(u.rows, e.adds)
      <4> HIDE DEF e
      <4> QED
          BY <3>1
    <3>4. EndsAt(cs, i + 1, e.answer)
      <4>1. Reverting(u.rows, u.root, PathsTo(cs, (i + 1) - 1)) /\ e.answer = Undo(u.rows, u.root, cs[i + 1]).answer
          BY <2>1, <3>2 DEF c
      <4> HIDE DEF e
      <4> QED
          BY <4>1 DEF EndsAt
    <3>5. CASE e.answer # "ok"
      <4>1. Good(v, i + 1)
        <5> HIDE DEF e
        <5> QED
            BY <2>1, <3>3, <3>4, <3>5
      <4> QED
          BY <4>1 DEF v
    <3>6. CASE e.answer = "ok"
      <4>1. p \notin Renamings
        <5>1. RowsSound(u.rows) /\ Extends(u.rows, rows)
            BY <3>2 DEF Reverting
        <5>2. p \in Renamings => e.answer = "path not found"
            BY <2>3, <5>1, UndoRenamed
        <5> QED
            BY <3>6, <5>2
      <4>2. Reverting(InsertAll(u.rows, e.adds), e.root, PathsTo(cs, i) \cup {p})
        <5>1. c = Change(p, Was(p), Now(p)) /\ Was(p) # Now(p)
            BY <2>3, <4>1
        <5>2. LET x == Undo(u.rows, u.root, Change(p, Was(p), Now(p)))
              IN  x.answer = "ok" => Reverting(InsertAll(u.rows, x.adds), x.root, PathsTo(cs, i) \cup {p})
            BY <2>3, <2>4, <3>2, <5>1, UndoesOne
        <5> QED
            BY <3>6, <5>1, <5>2
      <4>3. \A j \in 1 .. i + 1 : cs[j].path \notin Renamings
        <5>1. \A j \in 1 .. i + 1 : j \in 1 .. i \/ j = i + 1
            OBVIOUS
        <5>2. cs[i + 1].path \notin Renamings
            BY <4>1 DEF p, c
        <5> QED
            BY <3>2, <5>1, <5>2
      <4>4. Reverting(v.rows, v.root, PathsTo(cs, i + 1)) /\ v.answer = "ok"
        <5> HIDE DEF e
        <5> QED
            BY <2>5, <3>3, <3>6, <4>2
      <4>5. Good(v, i + 1)
          BY <4>3, <4>4
      <4> QED
          BY <4>5 DEF v
    <3> QED
        BY <3>5, <3>6
  <2> QED
      BY <2>6, <2>7
<1> HIDE DEF T, Good
<1>5. n \in T
    BY <1>1, <1>3, <1>4, SetInduction
<1>6. Good(undone[n], n)
    BY <1>1, <1>5 DEF T
<1> QED
    BY <1>2, <1>6 DEF cs, Good

\* FlatTree's changed files under a prefix.
LEMMA HitIs ==
    ASSUME NoCollision, WipInv, NEW prefix, NEW q
    PROVE  /\ q \in Flat!Hit(prefix) <=> Was(q) # Now(q) /\ HasPrefix(q, prefix)
           /\ Was(q) # Now(q) => q \in Seq(Names) /\ q \in Seq(Nat)
<1> DEFINE f == Files(rows, cur)
           g == Files(rows, base)
<1>1. \A p : /\ p \in DOMAIN f => Now(p) = File(f[p])
             /\ p \notin DOMAIN f => Now(p) = NoEntry
             /\ p \in DOMAIN g => Was(p) = File(g[p])
             /\ p \notin DOMAIN g => Was(p) = NoEntry
    BY DEF Now, Was, FileAt
<1>2. \A p : /\ p \in DOMAIN f => Now(p) # NoEntry
             /\ p \in DOMAIN g => Was(p) # NoEntry
    BY ViewIsFile DEF Now, Was, WipInv
<1>3. \A x, y : File(x) = File(y) => x = y
  <2>1. \A x : File(x).hash = x
      BY DEF File
  <2> QED
      BY <2>1
<1>4. \A p \in DOMAIN f \cup DOMAIN g : p \in Seq(Names)
    BY FilesApart DEF WipInv
<1>5. q \in Flat!Hit(prefix) <=>
         /\ q \in DOMAIN f \cup DOMAIN g
         /\ ~(q \in DOMAIN f /\ q \in DOMAIN g /\ f[q] = g[q])
         /\ HasPrefix(q, prefix)
    BY DEF Flat!Hit, Flat!Differ
<1> HIDE DEF f, g
<1>6. q \in DOMAIN f \cup DOMAIN g /\ ~(q \in DOMAIN f /\ q \in DOMAIN g /\ f[q] = g[q]) <=> Was(q) # Now(q)
    BY <1>1, <1>2, <1>3
<1>7. Was(q) # Now(q) => q \in Seq(Names)
    BY <1>4, <1>6
<1> QED
    BY <1>5, <1>6, <1>7 DEF Names

\* A changed file below a directory that was only renamed in.
LEMMA HitMoved ==
    ASSUME NoCollision, WipInv, NEW prefix, NEW q \in Flat!Hit(prefix), NEW r \in Renamings, IsStrictPrefix(r, q)
    PROVE  Flat!MovedWithin(Flat!Hit(prefix))
<1>1. q \in Seq(Names) /\ q \in Seq(Nat)
    BY HitIs
<1>2. r \in Seq(Names) /\ r \in Seq(Nat) /\ Len(r) \in 1 .. MaxDepth
    BY RenamedAre DEF Names
<1>3. Len(r) < Len(q) /\ \A i \in 1 .. Len(r) : r[i] = q[i]
    BY <1>1, <1>2, PrefixIs
<1>4. SubSeq(q, 1, Len(r)) = r
    BY <1>1, <1>2, <1>3
<1>5. Len(r) \in 1 .. Len(q) - 1
    BY <1>1, <1>2, <1>3
<1>6. Flat!Moved(r)
    BY RenamedMoves DEF Renamings, WipInv
<1> QED
    BY <1>4, <1>5, <1>6 DEF Flat!MovedWithin

----------------------------------------------------------------------------
(* Every step is one of FlatTree.                                          *)

\* A revert that undoes changes of files only has every changed file under its prefix
\* among them.
LEMMA HitsUndone ==
    ASSUME NoCollision, WipInv, NEW prefix \in Seq(Names), Changed(prefix) # <<>>,
           \A j \in 1 .. Len(Changed(prefix)) : Changed(prefix)[j].path \notin Renamings,
           NEW q, Was(q) # Now(q), HasPrefix(q, prefix)
    PROVE  q \in PathsTo(Changed(prefix), Len(Changed(prefix)))
<1> DEFINE cs == Changed(prefix)
<1>1. /\ cs \in Seq(ChangesOf(rows, base, cur)) /\ Len(cs) \in Nat
      /\ \A c \in NotedNow : HasPrefix(c.path, prefix) => \E i \in 1 .. Len(cs) : cs[i] = c
      /\ \A i \in 1 .. Len(cs) :
            LET p == cs[i].path
            IN  /\ p \in Seq(Names) /\ Len(p) \in 1 .. MaxDepth /\ HasPrefix(p, prefix)
                /\ \A r \in Renamings : ~IsStrictPrefix(r, p)
    BY ToUndo
<1>2. cs # <<>> /\ \A j \in 1 .. Len(cs) : cs[j].path \notin Renamings
    OBVIOUS
<1> HIDE DEF cs
<1>3. 1 \in 1 .. Len(cs)
    BY <1>1, <1>2
<1>4. q \in Seq(Names) /\ q \in Seq(Nat)
    BY HitIs
<1>5. CASE \A r \in Renamings : ~IsStrictPrefix(r, q)
  <2> DEFINE c == Change(q, Was(q), Now(q))
  <2>1. c \in NotedNow
      BY <1>5, DiffersNoted
  <2>2. c.path = q
      BY DEF Change
  <2> HIDE DEF c
  <2>3. PICK i \in 1 .. Len(cs) : cs[i] = c
      BY <1>1, <2>1, <2>2
  <2> QED
      BY <2>2, <2>3 DEF PathsTo, cs
<1>6. CASE \E d \in Renamings : IsStrictPrefix(d, q)
  <2>1. PICK r \in Renamings : IsStrictPrefix(r, q) /\ \A s \in Renamings : ~IsStrictPrefix(s, r)
      BY <1>4, <1>6, Uppermost
  <2>2. r \in Seq(Names) /\ r \in Seq(Nat)
      BY RenamedAre DEF Names
  <2>3. CASE Len(prefix) <= Len(r)
    <3>1. HasPrefix(r, prefix)
        BY <1>4, <2>1, <2>2, <2>3, PrefixKept
    <3> DEFINE c == Change(r, EntryAt(rows, base, r), EntryAt(rows, cur, r))
    <3>2. c \in NotedNow
        BY <2>1, RenamedNoted
    <3>3. c.path = r
        BY DEF Change
    <3> HIDE DEF c
    <3>4. PICK i \in 1 .. Len(cs) : cs[i] = c
        BY <1>1, <3>1, <3>2, <3>3
    <3> QED
        BY <1>2, <3>3, <3>4
  <2>4. CASE Len(r) < Len(prefix)
    <3> DEFINE p == cs[1].path
    <3>1. p \in Seq(Names) /\ HasPrefix(p, prefix) /\ ~IsStrictPrefix(r, p)
        BY <1>1, <1>3
    <3> HIDE DEF p
    <3>2. p \in Seq(Nat)
        BY <3>1 DEF Names
    <3>3. \A s \in Seq(Nat) : HasPrefix(s, prefix) => IsStrictPrefix(r, s)
        BY <1>4, <2>1, <2>2, <2>4, PrefixKept
    <3> QED
        BY <3>1, <3>2, <3>3
  <2>5. Len(prefix) \in Nat /\ Len(r) \in Nat
      BY <2>2
  <2> QED
      BY <2>3, <2>4, <2>5
<1> QED
    BY <1>5, <1>6

\* A revert that undoes its changes is FlatTree's: the files under the prefix are those
\* of the base, the others stay.
LEMMA RevertsFlat ==
    ASSUME NoCollision, WipInv, NEW prefix \in RevertPaths, prefix \in Seq(Names), Revert(prefix),
           Changed(prefix) # <<>>, RevertOf(Changed(prefix)).answer = "ok"
    PROVE  Flat!Revert(prefix)
<1> DEFINE cs == Changed(prefix)
           n == Len(cs)
           t == rows'
           root == cur'
           D == PathsTo(cs, n)
           f == Files(rows, cur)
           g == Files(rows, base)
<1>1. /\ rows' = RevertOf(cs).rows /\ cur' = RevertOf(cs).root
      /\ Answer("revert", prefix, "ok") /\ base' = base
    BY DEF Revert, RevertChanges
<1>2. /\ Reverting(t, root, D)
      /\ \A j \in 1 .. n : cs[j].path \notin Renamings
    BY <1>1, RevertEnds
<1>3. /\ n \in Nat /\ cs \in Seq(ChangesOf(rows, base, cur))
      /\ \A i \in 1 .. n : /\ HasPrefix(cs[i].path, prefix)
                           /\ cs[i].path \notin Renamings => Was(cs[i].path) # Now(cs[i].path)
    BY ToUndo
<1>4. \A q : Was(q) # Now(q) /\ HasPrefix(q, prefix) => q \in D
    BY <1>2, HitsUndone
<1>5. cs # <<>>
    OBVIOUS
<1>6. \A q \in D : HasPrefix(q, prefix) /\ Was(q) # Now(q)
    BY <1>2, <1>3 DEF PathsTo
<1>7. Flat!Hit(prefix) # {}
  <2>1. 1 \in 1 .. n
    <3> HIDE DEF cs
    <3> QED
        BY <1>3, <1>5
  <2>2. cs[1].path \in D
      BY <2>1 DEF PathsTo
  <2>3. cs[1].path \in Flat!Hit(prefix)
      BY <1>6, <2>2, HitIs
  <2> QED
      BY <2>3
<1> DEFINE K == {q \in DOMAIN f : ~HasPrefix(q, prefix)}
           B == {q \in DOMAIN g : HasPrefix(q, prefix)}
           h == [q \in K \cup B |-> IF q \in B THEN g[q] ELSE f[q]]
<1>8. RowsSound(t) /\ Extends(t, rows) /\ DirIn(DOMAIN t, root)
    BY <1>2 DEF Reverting
<1>9. ASSUME NEW q
      PROVE  FileAt(t, root, q) = IF HasPrefix(q, prefix) THEN Was(q) ELSE Now(q)
  <2>1. /\ q \in D => FileAt(t, root, q) = Was(q)
        /\ q \notin D => FileAt(t, root, q) = Now(q)
      BY <1>2 DEF Reverting
  <2> HIDE DEF t, root, D
  <2> QED
      BY <1>4, <1>6, <2>1
<1>10. \A q : /\ q \in DOMAIN f => Now(q) = File(f[q]) /\ f[q] \in Blobs
              /\ q \notin DOMAIN f => Now(q) = NoEntry
              /\ q \in DOMAIN g => Was(q) = File(g[q]) /\ g[q] \in Blobs
              /\ q \notin DOMAIN g => Was(q) = NoEntry
    BY FileAtIs DEF WipInv, Now, Was
<1>11. DOMAIN h = K \cup B /\ h = [q \in DOMAIN h |-> h[q]]
    OBVIOUS
<1>12. \A q \in DOMAIN h : h[q] = IF HasPrefix(q, prefix) THEN g[q] ELSE f[q]
    OBVIOUS
<1>13. \A q : q \in DOMAIN h <=> IF HasPrefix(q, prefix) THEN q \in DOMAIN g ELSE q \in DOMAIN f
    OBVIOUS
<1>14. Files(t, root) = h
  <2> HIDE DEF h, f, g, t, root
  <2>1. \A q \in DOMAIN h : h[q] \in Blobs
      BY <1>10, <1>12, <1>13
  <2>2. \A q : FileAt(t, root, q) = IF q \in DOMAIN h THEN File(h[q]) ELSE NoEntry
      BY <1>9, <1>10, <1>12, <1>13
  <2> QED
      BY <1>8, <1>11, <2>1, <2>2, FilesAre
<1>15. Files(t, base) = g
    BY <1>8, BaseStays
<1> QED
    BY <1>1, <1>7, <1>14, <1>15 DEF Flat!Revert, Flat!Answer, Answer, Flat!Kept, Flat!Back

\* What the revert is refused with when it ends at a renaming.
LEMMA EndsAtRenaming ==
    ASSUME NoCollision, WipInv, NEW prefix \in Seq(Names), NEW p \in Renamings, HasPrefix(p, prefix)
    PROVE  Flat!MovedWithin(Flat!Hit(prefix))
<1>1. p \in OnlyRenamed(rows, base, cur)
    BY DEF Renamings
<1>2. PICK q \in Seq(Names) : IsStrictPrefix(p, q) /\ FileAt(rows, base, q) # FileAt(rows, cur, q)
    BY <1>1, RenamedDiffer DEF WipInv
<1>3. Was(q) # Now(q)
    BY <1>2 DEF Was, Now
<1>4. p \in Seq(Nat) /\ q \in Seq(Nat)
    BY RenamedAre, <1>3, HitIs DEF Names
<1>5. HasPrefix(q, prefix)
    BY <1>2, <1>4, PrefixKept
<1>6. q \in Flat!Hit(prefix)
    BY <1>3, <1>5, HitIs
<1> QED
    BY <1>2, <1>6, HitMoved

\* A path of an earlier change is not that of a later one, and an earlier path under
\* the prefix that differs is among the undone ones.
LEMMA EarlierUndone ==
    ASSUME NoCollision, WipInv, NEW prefix, NEW i \in 1 .. Len(Changed(prefix)),
           NEW p, p = Changed(prefix)[i].path
    PROVE  /\ p \notin PathsTo(Changed(prefix), i - 1)
           /\ \A q : /\ Was(q) # Now(q) /\ HasPrefix(q, prefix)
                     /\ \A r \in Renamings : ~IsStrictPrefix(r, q)
                     /\ Before(q, p)
                     => q \in PathsTo(Changed(prefix), i - 1)
<1> DEFINE cs == Changed(prefix)
           n == Len(cs)
<1>1. /\ n \in Nat /\ ByPath(cs)
      /\ \A c \in NotedNow : HasPrefix(c.path, prefix) => \E j \in 1 .. n : cs[j] = c
      /\ \A j \in 1 .. n : cs[j].path \in Seq(Names)
    BY ToUndo
<1>2. i \in 1 .. n /\ p = cs[i].path
    OBVIOUS
<1> HIDE DEF cs
<1>3. \A j \in 1 .. n : cs[j].path \in Seq(Nat)
    BY <1>1 DEF Names
<1>4. \A j \in 1 .. i - 1 : j \in 1 .. n /\ j < i
    BY <1>1, <1>2
<1>5. \A u \in Seq(Nat) : ~Before(u, u)
    BY BeforeOrders
<1>6. p \notin PathsTo(cs, i - 1)
  <2> SUFFICES ASSUME NEW j \in 1 .. i - 1, cs[j].path = p PROVE FALSE
      BY DEF PathsTo
  <2>1. Before(p, p)
      BY <1>2, <1>4 , <1>1 DEF ByPath
  <2> QED
      BY <1>2, <1>3, <1>5, <2>1
<1>7. ASSUME NEW q, Was(q) # Now(q), HasPrefix(q, prefix),
             \A r \in Renamings : ~IsStrictPrefix(r, q), Before(q, p)
      PROVE  q \in PathsTo(cs, i - 1)
  <2> DEFINE c == Change(q, Was(q), Now(q))
  <2>1. c \in NotedNow
      BY <1>7, DiffersNoted
  <2>2. c.path = q
      BY DEF Change
  <2> HIDE DEF c
  <2>3. PICK j \in 1 .. n : cs[j] = c
      BY <1>1, <1>7, <2>1, <2>2
  <2>4. cs[j].path = q /\ q \in Seq(Nat) /\ p \in Seq(Nat)
      BY <1>2, <1>3, <2>2, <2>3
  <2>5. j # i
      BY <1>2, <1>5, <1>7, <2>4
  <2>6. ~(i < j)
    <3> SUFFICES ASSUME i < j PROVE FALSE
        OBVIOUS
    <3>1. Before(p, q)
        BY <1>1, <1>2, <2>4 DEF ByPath
    <3>2. Before(q, q)
        BY <1>7, <2>4, <3>1, BeforeOrders
    <3> QED
        BY <1>5, <2>4, <3>2
  <2>7. j \in 1 .. i - 1
      BY <1>1, <1>2, <2>5, <2>6
  <2> QED
      BY <2>4, <2>7 DEF PathsTo
<1> QED
    BY <1>6, <1>7 DEF cs

\* Why undoing the change of a file fails.
LEMMA UndoFails ==
    ASSUME NoCollision, WipInv, NEW t, NEW root, NEW D, Reverting(t, root, D),
           NEW p \in Seq(Names), Len(p) \in 1 .. MaxDepth, p \notin D, Was(p) # Now(p),
           NEW a, a = Undo(t, root, Change(p, Was(p), Now(p))).answer, a # "ok"
    PROVE  /\ Was(p) # NoEntry
           /\ \/ a = "blob must be leaf" /\ \E q \in DOMAIN Files(t, root) : IsStrictPrefix(q, p)
              \/ a = "entry exit" /\ \E q \in DOMAIN Files(t, root) : IsStrictPrefix(p, q)
BY UndoesOne

\* What the revert is refused with when it ends at a file.
LEMMA EndsAtFile ==
    ASSUME NoCollision, WipInv, NEW prefix \in Seq(Names), NEW i \in 1 .. Len(Changed(prefix)),
           NEW p, p = Changed(prefix)[i].path, p \notin Renamings,
           NEW t, NEW root, Reverting(t, root, PathsTo(Changed(prefix), i - 1)),
           NEW a, a = Undo(t, root, Changed(prefix)[i]).answer, a # "ok"
    PROVE  /\ p \in Flat!Hit(prefix) \cap DOMAIN Files(rows, base)
           /\ \/ a = "entry exit" /\ Flat!Below(p)
              \/ /\ a = "blob must be leaf"
                 /\ \E q \in DOMAIN Files(rows, cur) \ Flat!Hit(prefix) : IsStrictPrefix(q, p)
<1> DEFINE cs == Changed(prefix)
           D == PathsTo(cs, i - 1)
           f == Files(t, root)
<1>1. /\ p \in Seq(Names) /\ Len(p) \in 1 .. MaxDepth /\ HasPrefix(p, prefix)
      /\ \A r \in Renamings : ~IsStrictPrefix(r, p)
      /\ cs[i] = Change(p, Was(p), Now(p)) /\ Was(p) # Now(p)
    BY ToUndo
<1>2. p \notin D
    BY EarlierUndone
<1>3. Reverting(t, root, D) /\ a = Undo(t, root, cs[i]).answer
    OBVIOUS
<1> HIDE DEF cs, D
<1>4. /\ Was(p) # NoEntry
      /\ \/ a = "blob must be leaf" /\ \E q \in DOMAIN f : IsStrictPrefix(q, p)
         \/ a = "entry exit" /\ \E q \in DOMAIN f : IsStrictPrefix(p, q)
    BY <1>1, <1>2, <1>3, UndoFails
<1>5. \A q : /\ q \in DOMAIN f <=> FileAt(t, root, q) # NoEntry
             /\ q \in DOMAIN Files(rows, base) <=> Was(q) # NoEntry
             /\ q \in DOMAIN Files(rows, cur) <=> Now(q) # NoEntry
    BY <1>3, FileAtIs DEF Reverting, WipInv, Was, Now
<1>6. \A q : /\ q \in D => FileAt(t, root, q) = Was(q)
             /\ q \notin D => FileAt(t, root, q) = Now(q)
    BY <1>3 DEF Reverting
<1>7. p \in Flat!Hit(prefix) \cap DOMAIN Files(rows, base)
    BY <1>1, <1>4, <1>5, HitIs
<1>8. p \in Seq(Nat)
    BY <1>1 DEF Names
<1>9. ASSUME NEW q \in DOMAIN f, Was(q) = NoEntry
      PROVE  q \notin D /\ q \in DOMAIN Files(rows, cur) /\ Was(q) # Now(q)
    BY <1>5, <1>6, <1>9
<1>10. \A x, y \in DOMAIN Files(rows, base) : ~IsStrictPrefix(x, y)
    BY FilesApart DEF WipInv
<1>11. CASE a = "entry exit" /\ \E q \in DOMAIN f : IsStrictPrefix(p, q)
  <2>1. PICK q \in DOMAIN f : IsStrictPrefix(p, q)
      BY <1>11
  <2>2. Was(q) = NoEntry
      BY <1>5, <1>7, <1>10, <2>1
  <2>3. q \in DOMAIN Files(rows, cur)
      BY <1>9, <2>2
  <2>4. Flat!Below(p)
      BY <2>1, <2>3, FlatWords
  <2> QED
      BY <1>7, <1>11, <2>4
<1>12. CASE a = "blob must be leaf" /\ \E q \in DOMAIN f : IsStrictPrefix(q, p)
  <2>1. PICK q \in DOMAIN f : IsStrictPrefix(q, p)
      BY <1>12
  <2>2. Was(q) = NoEntry
      BY <1>5, <1>7, <1>10, <2>1
  <2>3. q \notin D /\ q \in DOMAIN Files(rows, cur) /\ Was(q) # Now(q)
      BY <1>9, <2>2
  <2>4. q \in Seq(Nat)
      BY <2>3, HitIs
  <2>5. q \notin Flat!Hit(prefix)
    <3> SUFFICES ASSUME HasPrefix(q, prefix) PROVE FALSE
        BY HitIs
    <3>1. ASSUME NEW r \in Renamings PROVE ~IsStrictPrefix(r, q)
      <4>1. r \in Seq(Nat)
          BY RenamedAre DEF Names
      <4>2. IsPrefix(q, p)
          BY <1>8, <2>1, <2>4, PrefixOf
      <4>3. IsStrictPrefix(r, q) => IsStrictPrefix(r, p)
          BY <1>8, <2>4, <4>1, <4>2, PrefixesNest
      <4> QED
          BY <1>1, <4>3
    <3>2. Before(q, p)
        BY <1>8, <2>1, <2>4, PrefixOf
    <3>3. q \in D
        BY <2>3, <3>1, <3>2, EarlierUndone DEF D, cs
    <3> QED
        BY <2>3, <3>3
  <2> QED
      BY <1>7, <1>12, <2>1, <2>3, <2>5
<1> QED
    BY <1>4, <1>11, <1>12

\* Revert of a prefix (work_repo.go).
LEMMA RevertFlat ==
    ASSUME NoCollision, WipInv, PendingDoes, NEW prefix \in RevertPaths, Revert(prefix)
    PROVE  FlatStep /\ PendingDoes'
<1> DEFINE cs == Changed(prefix)
           end == RevertOf(cs)
<1>1. prefix \in Seq(Names)
    BY WipTreeAssumption DEF Names
<1>2. pending' = Nothing
    BY DEF Revert, RevertChanges, Refuse, Idle
<1>3. PendingDoes'
    BY <1>2 DEF PendingDoes
<1>4. ASSUME NEW a, Refuse("revert", prefix, a)
      PROVE  /\ UNCHANGED <<Files(rows, cur), Files(rows, base)>>
             /\ Flat!Answer("revert", prefix, a)
    BY <1>4 DEF Refuse, Answer, Flat!Answer
<1>5. CASE cs = <<>>
  <2>1. Refuse("revert", prefix, "not found")
      BY <1>5 DEF Revert, RevertChanges
  <2>2. ASSUME NEW q \in Flat!Hit(prefix) PROVE Flat!MovedWithin(Flat!Hit(prefix))
    <3>1. Was(q) # Now(q) /\ HasPrefix(q, prefix)
        BY HitIs
    <3>2. PICK r \in Renamings : IsStrictPrefix(r, q)
      <4> SUFFICES ASSUME \A r \in Renamings : ~IsStrictPrefix(r, q) PROVE FALSE
          OBVIOUS
      <4> DEFINE c == Change(q, Was(q), Now(q))
      <4>1. c \in NotedNow
          BY <3>1, DiffersNoted
      <4>2. c.path = q
          BY DEF Change
      <4>3. \A d \in NotedNow : HasPrefix(d.path, prefix) => \E i \in 1 .. Len(cs) : cs[i] = d
          BY ToUndo
      <4> HIDE DEF c, cs
      <4>4. \E i \in 1 .. Len(cs) : cs[i] = c
          BY <3>1, <4>1, <4>2, <4>3
      <4> QED
          BY <1>5, <4>4
    <3> QED
        BY <3>2, HitMoved
  <2>3. Flat!Hit(prefix) = {} \/ Flat!MovedWithin(Flat!Hit(prefix))
      BY <2>2
  <2>4. Flat!RefuseRevert(prefix)
      BY <1>4, <2>1, <2>3 DEF Flat!RefuseRevert
  <2> QED
      BY <1>3, <2>4 DEF FlatStep, Flat!Next
<1>6. CASE cs # <<>> /\ end.answer = "ok"
  <2>1. Flat!Revert(prefix)
      BY <1>1, <1>6, RevertsFlat
  <2> QED
      BY <1>3, <2>1 DEF FlatStep, Flat!Next
<1>7. CASE cs # <<>> /\ end.answer # "ok"
  <2> DEFINE a == end.answer
  <2>1. Refuse("revert", prefix, a)
      BY <1>7 DEF Revert, RevertChanges
  <2>2. PICK i \in 1 .. Len(cs) : EndsAt(cs, i, a)
      BY <1>7, RevertEnds
  <2>3. PICK t, root : Reverting(t, root, PathsTo(cs, i - 1)) /\ a = Undo(t, root, cs[i]).answer
      BY <2>2 DEF EndsAt
  <2> DEFINE p == cs[i].path
  <2>4. /\ HasPrefix(p, prefix)
        /\ p \in Renamings => cs[i] = Change(p, EntryAt(rows, base, p), EntryAt(rows, cur, p))
      BY ToUndo
  <2>5. CASE p \in Renamings
    <3>1. a = "path not found"
        BY <2>3, <2>4, <2>5, UndoRenamed DEF Reverting
    <3>2. Flat!MovedWithin(Flat!Hit(prefix))
        BY <1>1, <2>4, <2>5, EndsAtRenaming
    <3>3. Flat!RefuseRevert(prefix)
        BY <1>4, <2>1, <3>1, <3>2 DEF Flat!RefuseRevert
    <3> QED
        BY <1>3, <3>3 DEF FlatStep, Flat!Next
  <2>6. CASE p \notin Renamings
    <3>1. /\ p \in Flat!Hit(prefix) \cap DOMAIN Files(rows, base)
          /\ \/ a = "entry exit" /\ Flat!Below(p)
             \/ /\ a = "blob must be leaf"
                /\ \E q \in DOMAIN Files(rows, cur) \ Flat!Hit(prefix) : IsStrictPrefix(q, p)
        BY <1>1, <1>7, <2>3, <2>6, EndsAtFile
    <3>2. Flat!Answer("revert", prefix, a) /\ UNCHANGED <<Files(rows, cur), Files(rows, base)>>
        BY <1>4, <2>1
    <3> HIDE DEF p, a
    <3>3. CASE a = "entry exit" /\ Flat!Below(p)
      <4>1. Flat!RefuseRevert(prefix)
          BY <3>1, <3>2, <3>3 DEF Flat!RefuseRevert
      <4> QED
          BY <1>3, <4>1 DEF FlatStep, Flat!Next
    <3>4. CASE /\ a = "blob must be leaf"
               /\ \E q \in DOMAIN Files(rows, cur) \ Flat!Hit(prefix) : IsStrictPrefix(q, p)
      <4>1. \E q \in DOMAIN Files(rows, cur) \ Flat!Hit(prefix) : Flat!IsStrictPrefix(q, p)
          BY <3>4, SameWords
      <4>2. Flat!RefuseRevert(prefix)
          BY <3>1, <3>2, <3>4, <4>1 DEF Flat!RefuseRevert
      <4> QED
          BY <1>3, <4>2 DEF FlatStep, Flat!Next
    <3> QED
        BY <3>1, <3>3, <3>4
  <2> QED
      BY <2>5, <2>6
<1> QED
    BY <1>5, <1>6, <1>7

\* Every step of the wip is one of its set of files, or none.
LEMMA StepsFlat ==
    ASSUME NoCollision, WipInv, PendingDoes, [Next /\ Bounded]_vars
    PROVE  FlatStep /\ PendingDoes'
<1>1. CASE \E p \in Paths, b \in Blobs, isReplace \in BOOLEAN : Upload(p, b, isReplace)
    BY <1>1, UploadFlat
<1>2. CASE \E p \in Paths : Delete(p)
    BY <1>2, DeleteFlat
<1>3. CASE StoreNode
    BY <1>3, StoreNodeFlat
<1>4. CASE StoreRoot
    BY <1>4, StoreRootFlat
<1>5. CASE \E prefix \in RevertPaths : Revert(prefix)
    BY <1>5, RevertFlat
<1>6. CASE Stop \/ RevertAll \/ Commit \/ UNCHANGED vars
    BY <1>6, OthersFlat
<1> QED
    BY <1>1, <1>2, <1>3, <1>4, <1>5, <1>6 DEF Next

\* ActsOnFiles of the run wip_tree: for its user a wip is a set of files, whatever nodes
\* UploadObject, DeleteObject (object_ctl.go), Revert and CommitChanges (work_repo.go)
\* store, in which order, and wherever the server stops between two of them.
THEOREM EditsActOnFiles ==
    ASSUME NoCollision PROVE Spec => ActsOnFiles
<1>1. Init => WipInv
    BY WipStart
<1>2. WipInv /\ [Next /\ Bounded]_vars => WipInv'
    BY WipStep
<1>3. Init => Flat!Init /\ PendingDoes
    BY StartsFlat
<1>4. WipInv /\ PendingDoes /\ [Next /\ Bounded]_vars =>
          PendingDoes' /\ [Flat!Next]_<<Files(rows, cur), Files(rows, base), answered>>
    BY StepsFlat DEF FlatStep
<1> QED
    BY <1>1, <1>2, <1>3, <1>4, PTL DEF Spec, ActsOnFiles, Flat!Spec
=============================================================================
